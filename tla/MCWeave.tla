------------------------------ MODULE MCWeave ------------------------------
(* Instances of the weaving system for TLC. *)
EXTENDS WeaveClaims, WeaveInvariant

(* The thj.ini of the repository, and one of a mission cut off at row 1. *)
ShippedIni == {[sections |-> TRUE, pos |-> 0, done |-> 1]}

CutOffIni == {[sections |-> TRUE, pos |-> 1, done |-> 0]}

(* One of a mission that begins, had anybody set Done to 0. *)
BegunIni == {[sections |-> TRUE, pos |-> 0, done |-> 0]}

AnyIni == ShippedIni \cup CutOffIni

NewIni == ShippedIni \cup BegunIni

=============================================================================
