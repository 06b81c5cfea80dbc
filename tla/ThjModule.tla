----------------------------- MODULE ThjModule -----------------------------
(***************************************************************************)
(* Loading and unloading of the driver: thj_init, with a step for each call*)
(* that can fail, and thj_exit.  A load that fails returns without giving  *)
(* back what it took, and thj_exit is not called for it.                   *)
(*                                                                         *)
(* External: the kernel, and other drivers that want the timer interrupts. *)
(* register_chrdev refuses a major number that is taken, unless it is asked*)
(* with the same file operations: those of a failed load, when the next one*)
(* gets its address.                                                       *)
(***************************************************************************)

VARIABLES
    loading,        \* "out", the next call of thj_init, or "in"
    registered,     \* TRUE iff the major number is taken
    irq             \* who holds the interrupts of TIMER0 and TIMER1

moduleVars == <<loading, registered, irq>>

Timers == {0, 1}

ModuleTypeOK ==
    /\ loading \in {"out", "irq0", "irq1", "in"}
    /\ registered \in BOOLEAN
    /\ irq \in [Timers -> {"free", "thj", "other"}]

ModuleInit ==
    /\ loading = "out" /\ registered = FALSE
    /\ irq = [t \in Timers |-> "free"]

(* Mutant: the interrupts are shared among all that ask with thj's name. *)
Shared(t) == irq[t] # "other"

(* They are requested without SA_SHIRQ: one holder, be it a failed load. *)
Available(t) == irq[t] = "free"

(* thj_init up to the first request_irq, and its failure, which takes      *)
(* nothing.  The memory is mapped before the interrupts are requested.     *)
thj_init ==
    /\ loading = "out"
    /\ loading' = "irq0" /\ registered' = TRUE
    /\ UNCHANGED irq

(* A request_irq of thj_init, and what it returns when that fails. *)
request_irq(t, here, there) ==
    /\ loading = here
    /\ IF Available(t)
       THEN loading' = there /\ irq' = [irq EXCEPT ![t] = "thj"]
       ELSE loading' = "out" /\ UNCHANGED irq
    /\ UNCHANGED registered

thj_exit ==
    /\ loading = "in" /\ loading' = "out"
    /\ irq' = [t \in Timers |-> "free"]
    /\ registered' = FALSE

OtherDriver(t) ==
    /\ \/ irq[t] = "free" /\ irq' = [irq EXCEPT ![t] = "other"]
       \/ irq[t] = "other" /\ irq' = [irq EXCEPT ![t] = "free"]
    /\ UNCHANGED <<loading, registered>>

ModuleStep ==
    \/ thj_init \/ thj_exit
    \/ request_irq(0, "irq0", "irq1") \/ request_irq(1, "irq1", "in")
    \/ \E t \in Timers : OtherDriver(t)

(* A load that fails at the second timer is the last: it keeps the first,  *)
(* and no later load of this driver gets past it, whoever gives the second *)
(* one free (thj.c:878-888).                                               *)
NeverLoadedAgain ==
    [](loading = "out" /\ irq[0] = "thj" => [](loading # "in"))

=============================================================================
