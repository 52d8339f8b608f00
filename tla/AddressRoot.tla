----------------------------- MODULE AddressRoot -----------------------------
(***************************************************************************)
(* Which page-table root each CPU has installed, and which one it says it  *)
(* has (kernel/src/mem/mod.rs, activate_thread_space and                   *)
(* activate_kernel_space).  Other CPUs read only what a CPU advertises:    *)
(* active_address_root and previous_address_root.  Every store, and the    *)
(* hardware switch itself, is one step.                                    *)
(*                                                                         *)
(* The actions here are composed by RootRetire and by Tlb.                 *)
(***************************************************************************)
EXTENDS Integers, FiniteSets

CONSTANTS
    Cpus,
    Roots,      \* roots of user address spaces
    Kernel,     \* the kernel's own root
    None

ASSUME RootAssumption ==
    /\ Kernel \notin Roots /\ None \notin Roots /\ Kernel # None
    /\ IsFiniteSet(Cpus)

VARIABLES
    hw,         \* the root the hardware walks
    active,     \* CoreLocal::active_address_root
    previous,   \* CoreLocal::previous_address_root
    owner,      \* the root of the current thread, None for a kernel thread
    pc,
    resume      \* where a CPU goes on after restoring the kernel root

rootVars == <<hw, active, previous, owner, pc, resume>>

RootLabels == {"run", "enter", "previous", "active", "install", "clear", "kinstall", "kstore"}

RootTypeOK ==
    /\ hw \in [Cpus -> Roots \cup {Kernel}]
    /\ active \in [Cpus -> Roots \cup {Kernel}]
    /\ previous \in [Cpus -> Roots \cup {Kernel, None}]
    /\ owner \in [Cpus -> Roots \cup {None}]
    /\ pc \in [Cpus -> RootLabels]
    /\ resume \in [Cpus -> RootLabels]

RootInit ==
    /\ hw = [c \in Cpus |-> Kernel]
    /\ active = [c \in Cpus |-> Kernel]
    /\ previous = [c \in Cpus |-> None]
    /\ owner = [c \in Cpus |-> None]
    /\ pc = [c \in Cpus |-> "run"]
    /\ resume = [c \in Cpus |-> "run"]

Step(c, from, to) == pc[c] = from /\ pc' = [pc EXCEPT ![c] = to]

-----------------------------------------------------------------------------
\* A thread of address space r becomes current, or the current thread takes
\* r as its space.
SwitchUser(c, r) ==
    /\ Step(c, "run", "enter")
    /\ owner' = [owner EXCEPT ![c] = r]
    /\ UNCHANGED <<hw, active, previous, resume>>

\* A kernel thread borrows whatever root is installed.
SwitchKernel(c) ==
    /\ pc[c] = "run"
    /\ owner' = [owner EXCEPT ![c] = None]
    /\ UNCHANGED <<hw, active, previous, pc, resume>>

\* The idle thread, or a thread that gives up its space, restores the kernel root.
SwitchIdle(c) ==
    /\ Step(c, "run", "kinstall")
    /\ resume' = [resume EXCEPT ![c] = "run"]
    /\ owner' = [owner EXCEPT ![c] = None]
    /\ UNCHANGED <<hw, active, previous>>

\* activate_thread_space; nothing to do when the root is already active.
Enter(c) ==
    /\ Step(c, "enter", IF active[c] = owner[c] THEN "run" ELSE "previous")
    /\ UNCHANGED <<hw, active, previous, owner, resume>>

\* Mutant: the outgoing root is not retained.
StorePreviousNone(c) ==
    /\ Step(c, "previous", "active")
    /\ UNCHANGED <<hw, active, previous, owner, resume>>

StorePrevious(c) ==
    /\ Step(c, "previous", "active")
    /\ previous' = [previous EXCEPT ![c] = active[c]]
    /\ UNCHANGED <<hw, active, owner, resume>>

StoreActive(c) ==
    /\ Step(c, "active", "install")
    /\ active' = [active EXCEPT ![c] = owner[c]]
    /\ UNCHANGED <<hw, previous, owner, resume>>

Install(c) ==
    /\ Step(c, "install", "clear")
    /\ hw' = [hw EXCEPT ![c] = owner[c]]
    /\ UNCHANGED <<active, previous, owner, resume>>

\* The last store; the caller then polls for invalidations.
ClearPrevious(c) ==
    /\ Step(c, "clear", "run")
    /\ previous' = [previous EXCEPT ![c] = None]
    /\ UNCHANGED <<hw, active, owner, resume>>

\* activate_kernel_space switches first and advertises afterwards.
KernelInstall(c) ==
    /\ Step(c, "kinstall", "kstore")
    /\ hw' = [hw EXCEPT ![c] = Kernel]
    /\ UNCHANGED <<active, previous, owner, resume>>

KernelStore(c) ==
    /\ Step(c, "kstore", resume[c])
    /\ active' = [active EXCEPT ![c] = Kernel]
    /\ UNCHANGED <<hw, previous, owner, resume>>

\* Mutant: the owner of the root is not asked.
BorrowedAny(c) == pc[c] \in {"run", "enter"} /\ active[c] # Kernel

\* release_inactive_address_space_root does something on c only if preemption
\* is enabled there and c borrows a root its thread does not own.
Borrowed(c) ==
    /\ pc[c] \in {"run", "enter"}
    /\ active[c] # Kernel
    /\ active[c] # owner[c]

ReleaseRoot(c) ==
    /\ IF Borrowed(c)
       THEN /\ resume' = [resume EXCEPT ![c] = pc[c]]
            /\ pc' = [pc EXCEPT ![c] = "kinstall"]
       ELSE UNCHANGED <<pc, resume>>
    /\ UNCHANGED <<hw, active, previous, owner>>

-----------------------------------------------------------------------------
(* Properties *)

\* A thread that runs in an address space runs on that space's root, whatever
\* release requests arrived while it was switching.
RunsOnOwnRoot ==
    \A c \in Cpus : pc[c] = "run" /\ owner[c] # None =>
        hw[c] = owner[c] /\ active[c] = owner[c]
=============================================================================
