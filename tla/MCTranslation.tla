--------------------------- MODULE MCTranslation ---------------------------
(***************************************************************************)
(* Two CPUs and two user address spaces.  A behaviour is about one case:   *)
(*   retire   spaces are retired and recreated while both CPUs switch;     *)
(*   last     the same with a single space;                                *)
(*   commit   one job revokes a user page twice over a ring of one record; *)
(*   switch   the same with two spaces, so CPUs go from one to the other;  *)
(*   full     a batch beyond the inline limit;                             *)
(*   ring     two jobs of CPU 1 with quarantine overrun the ring under     *)
(*            CPU 2's replay of kernel invalidations;                      *)
(*   batch    batches of two records;                                      *)
(*   bringup  CPU 2 comes online late;                                     *)
(*   masked   two jobs commit at each other with interrupts masked.        *)
(***************************************************************************)
EXTENDS RootRetire

CONSTANTS A, B, Global

MCRoots == {A, B}

VARIABLES
    up, published, overflow, ring, acked, producer, polls, ppc, upto, cursor, tag,
    jpc, batch, target, scan, pending, pt, tlb, gone, edited, issued,
    case

tlbVars == <<up, published, overflow, ring, acked, producer, polls, ppc, upto, cursor,
             tag, jpc, batch, target, scan, pending, pt, tlb, gone, edited, issued>>
allVars == <<vars, tlbVars, case>>

\* What the cases have in common, unless they say otherwise.
Masked == {}
Async == {}
Capacity == 1
Inline == 1
MaxSequence == 1
AtBoot == Cpus
Switchers == Cpus
Caches == Cpus

Commit == INSTANCE Tlb WITH look <- scan, ipi <- polls, Roots <- {A}, MaxSequence <- 2,
    Jobs <- {1}, Home <- <<1>>, UserPages <- {1}, KernelPages <- {}
SwitchTwo == INSTANCE Tlb WITH look <- scan, ipi <- polls,
    Jobs <- {1}, Home <- <<1>>, UserPages <- {1}, KernelPages <- {},
    Switchers <- {2}, Caches <- {2}
Full == INSTANCE Tlb WITH look <- scan, ipi <- polls, Roots <- {A},
    Jobs <- {1}, Home <- <<1>>, UserPages <- {1, 2}, KernelPages <- {},
    Switchers <- {2}, Caches <- {2}
Ring == INSTANCE Tlb WITH look <- scan, ipi <- polls, Roots <- {}, MaxSequence <- 2,
    Jobs <- {1, 2}, Home <- <<1, 1>>, UserPages <- {}, KernelPages <- {1, 2},
    Async <- {1, 2}, Switchers <- {1}, Caches <- {2}
Batch == INSTANCE Tlb WITH look <- scan, ipi <- polls, Roots <- {}, MaxSequence <- 2,
    Jobs <- {1}, Home <- <<1>>, UserPages <- {}, KernelPages <- {1, 2},
    Capacity <- 2, Inline <- 2, Switchers <- {1}
BringUp == INSTANCE Tlb WITH look <- scan, ipi <- polls, Roots <- {},
    Jobs <- {1, 2}, Home <- <<1, 2>>, UserPages <- {}, KernelPages <- {1}, AtBoot <- {1}
Both == INSTANCE Tlb WITH look <- scan, ipi <- polls, Roots <- {}, MaxSequence <- 2,
    Jobs <- {1, 2}, Home <- <<1, 2>>, UserPages <- {}, KernelPages <- {1},
    Masked <- {1, 2}, Capacity <- 2, Caches <- {}

MCInit ==
    \/ case \in {"retire", "last", "commit"} /\ Init /\ Commit!Init
    \/ case = "switch"  /\ Init /\ SwitchTwo!Init
    \/ case = "full"    /\ Init /\ Full!Init
    \/ case = "ring"    /\ Init /\ Ring!Init
    \/ case = "batch"   /\ Init /\ Batch!Init
    \/ case = "bringup" /\ Init /\ BringUp!Init
    \/ case = "masked"  /\ Init /\ Both!Init

\* Nobody uses address space B.
WithoutB == space'[B] = "live" /\ \A c \in Cpus : owner'[c] # B

MCNext ==
    /\ case' = case
    /\ \/ case = "retire" /\ Next /\ UNCHANGED tlbVars
       \/ case = "last"   /\ Next /\ WithoutB /\ UNCHANGED tlbVars
       \/ /\ \/ case = "commit"  /\ Commit!Next
             \/ case = "switch"  /\ SwitchTwo!Next
             \/ case = "full"    /\ Full!Next
             \/ case = "ring"    /\ Ring!Next
             \/ case = "batch"   /\ Batch!Next
             \/ case = "bringup" /\ BringUp!Next
             \/ case = "masked"  /\ Both!Next
          /\ UNCHANGED retireVars

\* A CPU finishes a switch and what it does with interrupts masked, and takes a
\* pending interrupt when it unmasks them.  A retiring thread is runnable
\* throughout, so the scheduler keeps giving it a CPU (see Sched).
MCSpec ==
    /\ MCInit /\ [][MCNext]_allVars
    /\ \A c \in Cpus :
         /\ WF_vars(case = "last" /\ Activate(c)) /\ WF_vars(case = "last" /\ DrainIpi(c))
         /\ WF_tlbVars(case = "masked" /\ Both!Poll(c))
         /\ SF_tlbVars(case = "masked" /\ Both!TakeIpi(c))
         /\ WF_rootVars(case = "masked" /\ Both!SwitchStep(c))
    /\ SF_vars(case = "last" /\ RetireStep(A))
    /\ \A j \in {1, 2} : WF_tlbVars(case = "masked" /\ Both!Job(j))

-----------------------------------------------------------------------------
(* Properties *)

\* The roots a CPU advertises, holds and scans stay well typed, and in the case
\* batch so do the ring and the positions of those who write and replay it.
TypesOK ==
    /\ TypeOK
    /\ case = "batch" => Batch!TypeOK

\* Once commit has returned, or a quarantined frame was collected, no CPU that
\* was online from the start can use a translation from before the edit, in
\* thread code.  While it switches spaces it may still hold one of the root it
\* leaves, which commit_batch does not wait for.
NoStaleTranslation ==
    /\ case = "commit"  => Commit!NoStaleUse
    /\ case = "switch"  => SwitchTwo!NoStaleUse
    /\ case = "full"    => Full!NoStaleUse
    /\ case = "ring"    => Ring!NoStaleUse
    /\ case = "batch"   => Batch!NoStaleUse
    /\ case = "bringup" => BringUp!NoStaleUse

\* retire_address_space_root returns although the CPUs never stop switching.
RetirementReturns == case = "last" => RetireReturns(A)

\* commit returns although the CPU it waits for waits for it, with interrupts
\* masked on both: each polls after it has published its own request, and again
\* while it waits.
MaskedCommitReturns == case = "masked" => Both!CommitReturns(1)
=============================================================================
