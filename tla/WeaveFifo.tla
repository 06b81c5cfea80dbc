----------------------------- MODULE WeaveFifo -----------------------------
(***************************************************************************)
(* What the shared memory, the lock, the timer and the driver are for: a   *)
(* bounded queue between the pattern file and the loom.  Rows of the       *)
(* pattern enter it in order, starting again at row 0 after the last one,  *)
(* and each row in it is woven once, in the order of the queue.  A system  *)
(* that is switched on begins at some row with nothing queued.             *)
(***************************************************************************)
EXTENDS Integers, Sequences

CONSTANTS
    Rows,           \* rows of the pattern
    Capacity        \* rows the queue holds

FifoConstants == Rows \in Nat \ {0} /\ Capacity \in Nat \ {0}

VARIABLES
    next,           \* the row to fetch next
    queue,          \* the rows fetched and not yet woven
    woven           \* the rows woven since power-on

fifoVars == <<next, queue, woven>>

FifoTypeOK ==
    /\ next \in Nat
    /\ queue \in Seq(0..Rows-1)
    /\ woven \in Seq(0..Rows-1)

SwitchedOn ==
    /\ queue = <<>>
    /\ woven = <<>>

FifoInit == next \in Nat /\ SwitchedOn

(* The start row is known before the first row is fetched. *)
ChooseStart ==
    /\ SwitchedOn
    /\ next' \in Nat
    /\ UNCHANGED <<queue, woven>>

Fetch ==
    /\ next < Rows
    /\ Len(queue) < Capacity
    /\ queue' = Append(queue, next)
    /\ next' = (next + 1) % Rows
    /\ UNCHANGED woven

Weave ==
    /\ queue # <<>>
    /\ woven' = Append(woven, Head(queue))
    /\ queue' = Tail(queue)
    /\ UNCHANGED next

Restart == next' \in Nat /\ queue' = <<>> /\ woven' = <<>>

FifoNext == ChooseStart \/ Fetch \/ Weave \/ Restart

FifoSpec == FifoInit /\ [][FifoNext]_fifoVars

(* Every row follows its predecessor in the pattern, in what was woven and *)
(* from there on into the queue: no row is lost, repeated or out of place. *)
Follows(r, s) == s = (r + 1) % Rows

Consecutive ==
    LET rows == woven \o queue IN
    /\ \A i \in 1..Len(rows)-1 : Follows(rows[i], rows[i + 1])
    /\ rows # <<>> => next = (rows[Len(rows)] + 1) % Rows

QueueBounded == Len(queue) <= Capacity

=============================================================================
