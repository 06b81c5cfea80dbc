---------------------------- MODULE MCThjDriver ----------------------------
(* The driver for TLC: bytes of three values, lines of three bytes.            *)
EXTENDS ThjRefinement

TwoLines == <<<<1, 0, 2>>, <<1, 1, 0>>>>

=============================================================================
