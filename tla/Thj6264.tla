------------------------------ MODULE Thj6264 ------------------------------
(***************************************************************************)
(* The two entry points of driver/thj.c that the weaving uses: thj_write,  *)
(* which stores one line in the 6264 SRAM, and send_line (ioctl 10), which *)
(* shifts one line out to the loom.  The SRAM holds NBuf buffers of        *)
(* MaxLines lines; the length of a line is kept once for all of them, in   *)
(* the 16-bit register at OFF_DataLen.                                     *)
(*                                                                         *)
(* The contents of a line are abstracted to its number in the pattern file *)
(* (Blank: never written), and its length to Width, the bytes of a line of *)
(* the file.  The loom, which answers on an input port, is external.       *)
(***************************************************************************)
EXTENDS Integers, Sequences

CONSTANTS
    NBuf,           \* buffers of the ring (5 in the code)
    MaxLines,       \* lines of a buffer (10 in the code: 1500 / 150)
    Width,          \* bytes of a line of the pattern file
    LengthSize      \* values of the length register (65536)

ASSUME RingAssumption ==
    /\ NBuf \in Nat \ {0}
    /\ MaxLines \in Nat \ {0}
    /\ Width \in Nat \ {0}
    /\ LengthSize \in Nat
    /\ Width < LengthSize

VARIABLES
    hm6264,         \* the SRAM: hm6264[buffer][line]
    data_length,    \* the length register
    carpet          \* history: the lines the loom received since power-on

driverVars == <<hm6264, data_length, carpet>>

Slots == 0..NBuf-1

Blank == -1         \* an SRAM line never written

Noise == -2         \* a line shifted out with a wrong length

DriverTypeOK ==
    /\ hm6264 \in [Slots -> [0..MaxLines-1 -> Int]]
    /\ data_length \in Nat
    /\ carpet \in Seq(Int)

DriverInit ==
    /\ hm6264 = [b \in Slots |-> [l \in 0..MaxLines-1 |-> Blank]]
    /\ data_length = 0
    /\ carpet = <<>>

(* write_data_length stores the two low bytes of leng, 16#FFFF for -1. *)
LengthRegister(leng) == (LengthSize + leng) % LengthSize

(* thj_write of a struct write6264 with this buf, line, leng and data. *)
Write6264(buf, line, leng, data) ==
    /\ data_length' = LengthRegister(leng)
    /\ hm6264' = IF leng > 0 THEN [hm6264 EXCEPT ![buf][line] = data]
                             ELSE hm6264
    /\ UNCHANGED carpet

(* What send_line shifts out of a line of a buffer: as many bytes as the   *)
(* register says, whichever line it was written for.                       *)
Shifted(buf, line) ==
    IF data_length = Width THEN hm6264[buf][line] ELSE Noise

SendLine(buf, line) ==
    /\ carpet' = Append(carpet, Shifted(buf, line))
    /\ UNCHANGED <<hm6264, data_length>>

(* ioctl 4, test_6264 and test_check_6264: every byte but the last is      *)
(* overwritten with a test value and read back.  No resident program asks  *)
(* for it.                                                                 *)
TestMemory ==
    /\ hm6264' = [b \in Slots |-> [l \in 0..MaxLines-1 |-> Noise]]
    /\ data_length' \in 0..LengthSize-1
    /\ UNCHANGED carpet

(* The driver by itself, for lines of the pattern file in Lines: what the  *)
(* bytes of ThjDriver implement.                                           *)
DriverNext(Lines) ==
    \/ \E buf \in Slots, line \in 0..MaxLines-1 :
          \/ SendLine(buf, line)
          \/ \E leng \in {-1, Width}, data \in Lines :
                Write6264(buf, line, leng, data)
    \/ TestMemory

============================================================================
