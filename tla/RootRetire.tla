----------------------------- MODULE RootRetire -----------------------------
(***************************************************************************)
(* Retirement of an address-space root (kernel/src/mem/mod.rs): when the   *)
(* last owner of a space goes, retire_address_space_root asks CPUs that    *)
(* borrow the root to leave it and looks at every CPU until none has it;   *)
(* then the page table is freed.  The looks are single loads, taken while  *)
(* the CPUs keep switching.                                                *)
(***************************************************************************)
EXTENDS AddressRoot, FiniteSetsExt

CONSTANT CpuCount

ASSUME CpuAssumption == CpuCount \in Nat \ {0} /\ Cpus = 1 .. CpuCount

VARIABLES
    space,      \* the life of each root
    look,       \* the CPU whose roots the retiring thread looks at next
    ipi         \* CPUs with a pending release callback

retireVars == <<space, look, ipi>>
vars == <<rootVars, retireVars>>

\* "active" and "previous" are the two loads of address_space_root_active.
Lives == {"live", "active", "previous", "release", "free"}

TypeOK ==
    /\ RootTypeOK
    /\ space \in [Roots -> Lives]
    /\ look \in [Roots -> Cpus]
    /\ ipi \in SUBSET Cpus

Init ==
    /\ RootInit
    /\ space = [r \in Roots |-> "live"]
    /\ look = [r \in Roots |-> 1]
    /\ ipi = {}

-----------------------------------------------------------------------------
\* Only a space that still has an owner can be switched to.
Switch(c) ==
    /\ \/ \E r \in Roots : space[r] = "live" /\ SwitchUser(c, r)
       \/ SwitchKernel(c)
       \/ SwitchIdle(c)
    /\ UNCHANGED retireVars

Activate(c) ==
    /\ \/ Enter(c) \/ StorePrevious(c) \/ StoreActive(c) \/ Install(c)
       \/ ClearPrevious(c) \/ KernelInstall(c) \/ KernelStore(c)
    /\ UNCHANGED retireVars

\* drain_ipi_queue runs the callback.  Inside a switch it finds preemption
\* disabled and returns.
DrainIpi(c) ==
    /\ c \in ipi
    /\ ipi' = ipi \ {c}
    /\ ReleaseRoot(c)
    /\ UNCHANGED <<space, look>>

-----------------------------------------------------------------------------
\* The last reference is dropped: no thread owns the space any more.
Retire(r) ==
    /\ space[r] = "live"
    /\ \A c \in Cpus : owner[c] # r
    /\ space' = [space EXCEPT ![r] = "active"]
    /\ look' = [look EXCEPT ![r] = 1]
    /\ UNCHANGED <<rootVars, ipi>>

\* address_space_root_active loads active_address_root, then previous_address_root.
LookActive(r) ==
    /\ space[r] = "active"
    /\ space' = [space EXCEPT ![r] = IF active[look[r]] = r THEN "release" ELSE "previous"]
    /\ UNCHANGED <<rootVars, look, ipi>>

LookPreviousOver(r) ==
    /\ space[r] = "previous" /\ previous[look[r]] # r
    /\ space' = [space EXCEPT ![r] = "active"]
    /\ look' = [look EXCEPT ![r] = @ + 1]
    /\ UNCHANGED <<rootVars, ipi>>

\* After the last CPU the root is destroyed.
LookPrevious(r) ==
    /\ space[r] = "previous"
    /\ IF previous[look[r]] = r THEN
            space' = [space EXCEPT ![r] = "release"] /\ UNCHANGED look
       ELSE IF look[r] < CpuCount THEN
            space' = [space EXCEPT ![r] = "active"] /\ look' = [look EXCEPT ![r] = @ + 1]
       ELSE space' = [space EXCEPT ![r] = "free"] /\ UNCHANGED look
    /\ UNCHANGED <<rootVars, ipi>>

\* Mutant: the callback is not queued for the other CPUs.
ReleaseLocal(r, c) ==
    /\ space[r] = "release" /\ pc[c] = "run"
    /\ space' = [space EXCEPT ![r] = "active"]
    /\ look' = [look EXCEPT ![r] = 1]
    /\ ReleaseRoot(c)
    /\ UNCHANGED ipi

\* release_inactive_address_space_roots, by the retiring thread running on c:
\* release the local root, queue the callback on the others, look again.
Release(r, c) ==
    /\ space[r] = "release"
    /\ pc[c] = "run"
    /\ space' = [space EXCEPT ![r] = "active"]
    /\ look' = [look EXCEPT ![r] = 1]
    /\ ipi' = ipi \cup (Cpus \ {c})
    /\ ReleaseRoot(c)

\* The freed frame becomes the root of a new space.
Create(r) ==
    /\ space[r] = "free"
    /\ space' = [space EXCEPT ![r] = "live"]
    /\ UNCHANGED <<rootVars, look, ipi>>

-----------------------------------------------------------------------------
RetireStep(r) == LookActive(r) \/ LookPrevious(r) \/ \E c \in Cpus : Release(r, c)

Next ==
    \/ \E c \in Cpus : Switch(c) \/ Activate(c) \/ DrainIpi(c)
    \/ \E r \in Roots : Retire(r) \/ RetireStep(r) \/ Create(r)

Spec == Init /\ [][Next]_vars

-----------------------------------------------------------------------------
(* Properties *)

\* destroy_user_root never frees a page table that a CPU still walks: "the
\* retirement barrier has released every borrowed or outgoing hardware
\* reference" (kernel/src/mem/pmap.rs).
NoWalkOfFreedRoot == \A c \in Cpus : hw[c] \in Roots => space[hw[c]] # "free"

\* retire_address_space_root returns, although the CPUs never stop switching
\* and may meet the release request inside a switch.
RetireReturns(r) == space[r] = "active" ~> space[r] = "free"
=============================================================================
