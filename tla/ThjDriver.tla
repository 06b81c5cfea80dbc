----------------------------- MODULE ThjDriver -----------------------------
(***************************************************************************)
(* The 6264 SRAM and the way to the loom in driver/thj.c, byte by byte.    *)
(* Thj6264 is the same driver seen by lines of the pattern.                *)
(*                                                                         *)
(* The kernel is a Linux 2.4 on one processor: it is not preempted, and    *)
(* thj_ioctl waits for the loom by udelay.  So no other call begins before *)
(* send_line is over; its waits are steps, to let the loom answer.  Nor  *)
(* does the module come or go meanwhile; between two loads the SRAM keeps  *)
(* what it holds.                                                          *)
(***************************************************************************)
EXTENDS ThjModule, Integers, Sequences

CONSTANTS
    NBuf, MaxLines, Width,
    BufBytes,       \* bytes of a buffer (1500)
    LineBytes,      \* bytes of a line in a buffer (150)
    OFF_DataLen,    \* address of the length of a line (16#1D50)
    SramBytes,      \* bytes of the SRAM (8192)
    ByteSize,       \* values of a byte (256)
    TestByte,       \* what test_6264 writes (16#AA)
    LineData,       \* LineData[d]: the bytes of line d of the pattern file
    MaxRows         \* bound: lines sent

Bytes == 0..ByteSize-1

Line(first) == first..first+Width-1

ASSUME DriverAssumption ==
    /\ {NBuf, MaxLines, Width, BufBytes, LineBytes, OFF_DataLen, SramBytes,
        ByteSize, MaxRows} \subseteq Nat \ {0}
    /\ Width <= LineBytes
    /\ MaxLines * LineBytes <= BufBytes
    /\ NBuf * BufBytes <= OFF_DataLen
    /\ OFF_DataLen + 2 <= SramBytes - 1
    /\ MaxLines <= 256
    /\ Width < ByteSize * ByteSize
    /\ TestByte \in Bytes
    /\ \A d \in DOMAIN LineData : LineData[d] \in [1..Width -> Bytes]

VARIABLES
    sram,           \* the bytes of the SRAM
    dpc,            \* the next step of send_line
    num, count, i,  \* its arguments and its index
    shifting,       \* TRUE until the loom has taken a pair of bytes
    weaving,        \* TRUE until the loom has woven a line
    shifted,        \* history: the bytes shifted out for the next line
    rows            \* history: the bytes of each line that was triggered

sendVars == <<dpc, num, count, i>>
loomVars == <<shifting, weaving, shifted, rows>>
thjVars == <<sram, sendVars, loomVars, moduleVars>>

ThjTypeOK ==
    /\ sram \in [0..SramBytes-1 -> Bytes]
    /\ dpc \in {"idle", "loop", "end", "wait"}
    /\ num \in 0..NBuf-1 /\ count \in 0..MaxLines-1 /\ i \in Nat
    /\ shifting \in BOOLEAN /\ weaving \in BOOLEAN
    /\ shifted \in Seq(Bytes) /\ rows \in Seq(Seq(Bytes))
    /\ ModuleTypeOK

ThjInit ==
    /\ sram = [a \in 0..SramBytes-1 |-> 0]
    /\ dpc = "idle" /\ num = 0 /\ count = 0 /\ i = 0
    /\ shifting = FALSE /\ weaving = FALSE
    /\ shifted = <<>> /\ rows = <<>>
    /\ ModuleInit

-----------------------------------------------------------------------------
(* An address past the 8 KB that are mapped is not the SRAM's any more; it *)
(* is read only with a wrong length, and taken as a repetition.            *)
Get(a) == sram[a % SramBytes]

(* Mutant: the lines of a buffer lie too close. *)
BaseTooClose(buf, line) == BufBytes * buf + (LineBytes - 1) * line

Base(buf, line) == BufBytes * buf + LineBytes * line

(* Mutants: the high byte is not written, or not cut off. *)
LowByteOnly(leng) == <<leng % ByteSize, 0>>
HighNotCut(leng) == <<leng % ByteSize, leng \div ByteSize>>

(* The two bytes that write_data_length stores. *)
LengthBytes(leng) == <<leng % ByteSize, (leng \div ByteSize) % ByteSize>>

read_data_length == ByteSize * Get(OFF_DataLen + 1) + Get(OFF_DataLen)

(* thj_write of line d of the file, or of a failed read (leng = -1), which *)
(* goes into the register and copies nothing.                              *)
thj_write(buf, line, leng, d) ==
    /\ dpc = "idle"
    /\ sram' = [a \in DOMAIN sram |->
          IF leng > 0 /\ a \in Line(Base(buf, line))
          THEN LineData[d][a - Base(buf, line) + 1]
          ELSE IF a - OFF_DataLen \in {0, 1}
          THEN LengthBytes(leng)[a - OFF_DataLen + 1]
          ELSE sram[a]]
    /\ UNCHANGED <<sendVars, loomVars>>

(* ioctl 4. *)
test_6264 ==
    /\ dpc = "idle"
    /\ sram' = [a \in DOMAIN sram |->
                   IF a < SramBytes - 1 THEN TestByte ELSE sram[a]]
    /\ UNCHANGED <<sendVars, loomVars>>

(* ioctl 10: the low 8 bits of arg are the line, the others the buffer. *)
thj_ioctl_send(arg) ==
    /\ dpc = "idle" /\ dpc' = "loop"
    /\ Len(rows) < MaxRows
    /\ num' = arg \div 256 /\ count' = arg % 256
    /\ i' = 0
    /\ UNCHANGED <<sram, loomVars>>

-----------------------------------------------------------------------------
(* send_line. *)

Shift(pair) ==
    /\ shifted' = shifted \o pair
    /\ shifting' = TRUE
    /\ UNCHANGED <<weaving, rows>>

(* send_data of two bytes; the next step waits until the loom took them. *)
SendPair ==
    /\ dpc = "loop" /\ ~shifting
    /\ i < read_data_length
    /\ Shift(<<Get(Base(num, count) + i), Get(Base(num, count) + i + 1)>>)
    /\ i' = i + 2
    /\ UNCHANGED <<sram, dpc, num, count>>

(* The rest of an odd line was meant here, but the test compares with the  *)
(* number of the line.  Its second byte comes from address 0 of the        *)
(* kernel, which is not the SRAM.                                          *)
SendRest ==
    /\ dpc = "loop" /\ ~shifting /\ dpc' = "end"
    /\ i >= read_data_length
    /\ IF i < count
       THEN \E stray \in {0, TestByte} : Shift(<<Get(Base(num, count) + i),
                                                 stray>>)
       ELSE UNCHANGED loomVars
    /\ UNCHANGED <<sram, num, count, i>>

(* signal_oe_trig: the loom weaves what was shifted out. *)
Trigger ==
    /\ dpc = "end" /\ ~shifting /\ dpc' = "wait"
    /\ weaving' = TRUE
    /\ rows' = Append(rows, shifted) /\ shifted' = <<>>
    /\ UNCHANGED <<sram, num, count, i, shifting>>

SendReturns ==
    /\ dpc = "wait" /\ ~weaving /\ dpc' = "idle"
    /\ num' = 0 /\ count' = 0 /\ i' = 0
    /\ UNCHANGED <<sram, loomVars>>

-----------------------------------------------------------------------------
(* The loom, on the two input bits that send_data and send_line poll. *)

LoomTakesPair ==
    /\ shifting /\ shifting' = FALSE
    /\ UNCHANGED <<sram, sendVars, weaving, shifted, rows>>

LoomWeaves ==
    /\ weaving /\ weaving' = FALSE
    /\ UNCHANGED <<sram, sendVars, shifting, shifted, rows>>

-----------------------------------------------------------------------------
Calls ==
    \/ \E buf \in 0..NBuf-1, line \in 0..MaxLines-1 :
          \/ \E leng \in {-1, Width}, d \in DOMAIN LineData :
                thj_write(buf, line, leng, d)
          \/ thj_ioctl_send(256 * buf + line)
    \/ test_6264

SendLineStep == SendPair \/ SendRest \/ Trigger \/ SendReturns

LoomStep == LoomTakesPair \/ LoomWeaves

CallStep ==
    /\ loading = "in"
    /\ Calls \/ SendLineStep \/ LoomStep
    /\ UNCHANGED moduleVars

ThjNext ==
    \/ CallStep
    \/ dpc = "idle" /\ ModuleStep /\ UNCHANGED <<sram, sendVars, loomVars>>

ThjSpec == ThjInit /\ [][ThjNext]_thjVars

============================================================================
