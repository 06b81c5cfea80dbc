------------------------------- MODULE MCUsb -------------------------------
(* An instance of program three for TLC: a file, one that continues it and *)
(* one that differs from it.                                               *)
EXTENDS UsbProperties

(* host1 and host10. *)
SomeNames == {<<1>>, <<1, 0>>}

SomeFiles == {<<7>>, <<7, 8>>, <<8>>}

=============================================================================
