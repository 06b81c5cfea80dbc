---------------------------- MODULE DriverProofs ----------------------------
(***************************************************************************)
(* Proofs about the driver (driver/thj.c): a load that failed at the second*)
(* timer is the last, and the bytes of ThjDriver implement the lines of    *)
(* Thj6264, for all sizes of the SRAM, its buffers and its lines that      *)
(* DriverAssumption allows and every pattern file.                         *)
(***************************************************************************)
EXTENDS ThjRefinement, SequenceTheorems, TLAPS

-----------------------------------------------------------------------------
(* Types. *)

LEMMA Sizes ==
    /\ NBuf \in Nat \ {0} /\ MaxLines \in Nat \ {0} /\ Width \in Nat \ {0}
    /\ BufBytes \in Nat \ {0} /\ LineBytes \in Nat \ {0}
    /\ OFF_DataLen \in Nat \ {0} /\ SramBytes \in Nat \ {0}
    /\ ByteSize \in Nat \ {0} /\ MaxRows \in Nat \ {0}
    /\ Width <= LineBytes /\ MaxLines <= 256
    /\ OFF_DataLen + 2 <= SramBytes - 1
    /\ TestByte \in Bytes /\ 0 \in Bytes
<1>1. {NBuf, MaxLines, Width, BufBytes, LineBytes, OFF_DataLen, SramBytes,
       ByteSize, MaxRows} \subseteq Nat \ {0}
  BY DriverAssumption
<1>2. ByteSize \in Nat \ {0}
  BY <1>1
<1>3. 0 \in Bytes
  BY <1>2 DEF Bytes
<1>4. Width <= LineBytes /\ MaxLines <= 256
      /\ OFF_DataLen + 2 <= SramBytes - 1 /\ TestByte \in Bytes
  BY DriverAssumption
<1> QED BY <1>1, <1>3, <1>4

LEMMA Remainder ==
    ASSUME NEW n \in Int, NEW m \in Nat \ {0}
    PROVE  n % m \in 0..m-1 /\ n \div m \in Int /\ n = m * (n \div m) + (n % m)
<1>1. n % m \in 0..m-1 /\ n \div m \in Int
  BY SMT
<1>2. m \in Nat /\ m > 0
  OBVIOUS
<1>3. n = m * (n \div m) + (n % m)
  BY <1>2, SMT
<1> QED BY <1>1, <1>3

LEMMA GetIsByte ==
    ASSUME sram \in [0..SramBytes-1 -> Bytes], NEW a \in Int
    PROVE  Get(a) \in Bytes
<1>1. a % SramBytes \in 0..SramBytes-1
  BY Sizes, Remainder
<1> QED BY <1>1 DEF Get

LEMMA LengthIsBytes ==
    ASSUME NEW leng \in Int
    PROVE  LengthBytes(leng) \in [1..2 -> Bytes]
<1>1. leng % ByteSize \in Bytes /\ leng \div ByteSize \in Int
  BY Sizes, Remainder DEF Bytes
<1>2. (leng \div ByteSize) % ByteSize \in Bytes
  BY <1>1, Sizes, Remainder DEF Bytes
<1> QED BY <1>1, <1>2 DEF LengthBytes

LEMMA WrittenTypes ==
    ASSUME sram \in [0..SramBytes-1 -> Bytes], NEW buf \in 0..NBuf-1,
           NEW line \in 0..MaxLines-1, NEW leng \in {-1, Width},
           NEW d \in DOMAIN LineData, thj_write(buf, line, leng, d)
    PROVE  sram' \in [0..SramBytes-1 -> Bytes]
<1>1. LineData[d] \in [1..Width -> Bytes] /\ Width \in Nat
  BY DriverAssumption, Sizes
<1>2. LengthBytes(leng) \in [1..2 -> Bytes]
  BY LengthIsBytes, Sizes
<1>3. Base(buf, line) \in Int /\ OFF_DataLen \in Nat
  BY Sizes DEF Base
<1> DEFINE first == Base(buf, line)
<1> HIDE DEF first
<1>4. ASSUME NEW a \in 0..SramBytes-1, a \in Line(first)
      PROVE  LineData[d][a - first + 1] \in Bytes
  <2>1. a - first + 1 \in 1..Width
    BY <1>1, <1>3, <1>4 DEF Line, first
  <2> QED BY <1>1, <2>1
<1>5. ASSUME NEW a \in 0..SramBytes-1, a - OFF_DataLen \in {0, 1}
      PROVE  LengthBytes(leng)[a - OFF_DataLen + 1] \in Bytes
  <2>1. a - OFF_DataLen + 1 \in 1..2
    BY <1>5
  <2> QED BY <1>2, <2>1
<1>6. DOMAIN sram = 0..SramBytes-1
      /\ \A a \in 0..SramBytes-1 : sram[a] \in Bytes
  OBVIOUS
<1>7. sram' = [a \in 0..SramBytes-1 |->
          IF leng > 0 /\ a \in Line(first)
          THEN LineData[d][a - first + 1]
          ELSE IF a - OFF_DataLen \in {0, 1}
          THEN LengthBytes(leng)[a - OFF_DataLen + 1]
          ELSE sram[a]]
  BY <1>6 DEF thj_write, first
<1> QED BY <1>4, <1>5, <1>6, <1>7

LEMMA TestedTypes ==
    ASSUME sram \in [0..SramBytes-1 -> Bytes], test_6264
    PROVE  sram' \in [0..SramBytes-1 -> Bytes]
<1>1. DOMAIN sram = 0..SramBytes-1 /\ TestByte \in Bytes
  BY Sizes
<1> QED BY <1>1 DEF test_6264

LEMMA PairTypes ==
    ASSUME NEW s \in Seq(Bytes), NEW a \in Bytes, NEW b \in Bytes
    PROVE  /\ s \o <<a, b>> \in Seq(Bytes)
           /\ Len(s \o <<a, b>>) = Len(s) + 2
           /\ \A k \in 1..Len(s) : (s \o <<a, b>>)[k] = s[k]
           /\ (s \o <<a, b>>)[Len(s) + 1] = a
           /\ (s \o <<a, b>>)[Len(s) + 2] = b
<1>1. <<a, b>> \in Seq(Bytes) /\ Len(<<a, b>>) = 2
      /\ <<a, b>>[1] = a /\ <<a, b>>[2] = b
  OBVIOUS
<1>2. Len(s) \in Nat
  BY LenProperties
<1> DEFINE t == <<a, b>>
<1>3. /\ s \o t \in Seq(Bytes) /\ Len(s \o t) = Len(s) + Len(t)
      /\ \A x \in 1..Len(s) + Len(t) : (s \o t)[x] =
             IF x <= Len(s) THEN s[x] ELSE t[x - Len(s)]
  BY <1>1, ConcatProperties
<1> QED BY <1>1, <1>2, <1>3

ModuleValues == loading \in {"out", "irq0", "irq1", "in"}
                /\ irq \in [Timers -> {"free", "thj", "other"}]

SwitchTypes ==
    shifting \in BOOLEAN /\ weaving \in BOOLEAN /\ registered \in BOOLEAN

SendTypes ==
    /\ dpc \in {"idle", "loop", "end", "wait"}
    /\ num \in 0..NBuf-1 /\ count \in 0..MaxLines-1 /\ i \in Nat
    /\ shifted \in Seq(Bytes) /\ rows \in Seq(Seq(Bytes))

LEMMA TypeParts ==
    ThjTypeOK <=> /\ sram \in [0..SramBytes-1 -> Bytes]
                  /\ SendTypes /\ SwitchTypes /\ ModuleValues
  BY DEF ThjTypeOK, SendTypes, SwitchTypes, ModuleValues, ModuleTypeOK

LEMMA ModuleKeepsValues ==
    ASSUME ModuleValues, ModuleStep PROVE ModuleValues'
<1> USE DEF ModuleValues, Timers
<1>1. CASE thj_init \/ thj_exit
  BY <1>1 DEF thj_init, thj_exit
<1>2. CASE request_irq(0, "irq0", "irq1")
  BY <1>2 DEF request_irq
<1>3. CASE request_irq(1, "irq1", "in")
  BY <1>3 DEF request_irq
<1>4. CASE \E t \in Timers : OtherDriver(t)
  BY <1>4 DEF OtherDriver
<1> QED BY <1>1, <1>2, <1>3, <1>4 DEF ModuleStep

LEMMA NextKeepsSwitches == ASSUME SwitchTypes, ThjNext PROVE SwitchTypes'
<1> USE DEF SwitchTypes, loomVars, moduleVars
<1>1. CASE CallStep
  <2>1. CASE Calls
    BY <1>1, <2>1 DEF CallStep, Calls, thj_write, thj_ioctl_send, test_6264
  <2>2. CASE SendLineStep
    BY <1>1, <2>2 DEF CallStep, SendLineStep, SendPair, SendRest, Shift,
                      Trigger, SendReturns
  <2>3. CASE LoomStep
    BY <1>1, <2>3 DEF CallStep, LoomStep, LoomTakesPair, LoomWeaves
  <2> QED BY <1>1, <2>1, <2>2, <2>3 DEF CallStep
<1>2. CASE ModuleStep /\ UNCHANGED loomVars
  BY <1>2 DEF ModuleStep, thj_init, thj_exit, request_irq, OtherDriver
<1> QED BY <1>1, <1>2 DEF ThjNext

LEMMA SramKeepsType ==
    ASSUME sram \in [0..SramBytes-1 -> Bytes], ThjNext
    PROVE  sram' \in [0..SramBytes-1 -> Bytes]
<1>1. CASE CallStep
  <2>1. CASE Calls
    BY <2>1, WrittenTypes, TestedTypes DEF Calls, thj_ioctl_send
  <2>2. CASE SendLineStep \/ LoomStep
    BY <2>2 DEF SendLineStep, SendPair, SendRest, Trigger, SendReturns,
                LoomStep, LoomTakesPair, LoomWeaves
  <2> QED BY <1>1, <2>1, <2>2 DEF CallStep
<1>2. CASE UNCHANGED sram
  BY <1>2
<1> QED BY <1>1, <1>2 DEF ThjNext

LEMMA CallKeepsSendTypes ==
    ASSUME SendTypes, Calls PROVE SendTypes'
<1> USE DEF SendTypes, sendVars, loomVars
<1>1. ASSUME NEW buf \in 0..NBuf-1, NEW line \in 0..MaxLines-1,
             thj_ioctl_send(256 * buf + line)
      PROVE  SendTypes'
  <2>1. buf \in Nat /\ line \in 0..255
    BY Sizes
  <2>2. num' = (256 * buf + line) \div 256
        /\ count' = (256 * buf + line) % 256
    BY <1>1 DEF thj_ioctl_send
  <2>3. num' = buf /\ count' = line
    <3>1. (256 * buf + line) \div 256 = buf
          /\ (256 * buf + line) % 256 = line
      <4> HIDE DEF SendTypes, sendVars, loomVars
      <4> QED BY <2>1
    <3> QED BY <2>2, <3>1
  <2> QED BY <1>1, <2>3 DEF thj_ioctl_send
<1>2. ASSUME NEW buf, NEW line, NEW leng, NEW d,
             thj_write(buf, line, leng, d)
      PROVE  SendTypes'
  BY <1>2 DEF thj_write
<1>3. CASE test_6264
  BY <1>3 DEF test_6264
<1> QED BY <1>1, <1>2, <1>3 DEF Calls

LEMMA SendKeepsSendTypes ==
    ASSUME SendTypes, sram \in [0..SramBytes-1 -> Bytes],
           SendLineStep \/ LoomStep
    PROVE  SendTypes'
<1>0. Base(num, count) \in Int
  BY Sizes DEF SendTypes, Base
<1> USE DEF SendTypes, sendVars, loomVars
<1>1. CASE SendPair
  <2>1. Get(Base(num, count) + i) \in Bytes
        /\ Get(Base(num, count) + i + 1) \in Bytes
    BY <1>0, GetIsByte
  <2>2. shifted' \in Seq(Bytes)
    BY <1>1, <2>1, PairTypes DEF SendPair, Shift
  <2> QED BY <1>1, <2>2 DEF SendPair, Shift
<1>2. CASE SendRest
  <2>1. Get(Base(num, count) + i) \in Bytes /\ {0, TestByte} \subseteq Bytes
    BY <1>0, GetIsByte, Sizes
  <2>2. CASE i < count
    <3>1. PICK stray \in {0, TestByte} :
             Shift(<<Get(Base(num, count) + i), stray>>)
      BY <1>2, <2>2 DEF SendRest
    <3>2. shifted' \in Seq(Bytes)
      BY <2>1, <3>1, PairTypes DEF Shift
    <3> QED BY <1>2, <3>1, <3>2 DEF SendRest, Shift
  <2>3. CASE ~(i < count)
    BY <1>2, <2>3 DEF SendRest
  <2> QED BY <2>2, <2>3
<1>3. CASE Trigger
  <2>1. shifted' \in Seq(Bytes) /\ rows' \in Seq(Seq(Bytes))
    BY <1>3, EmptySeq, AppendProperties DEF Trigger
  <2> QED BY <1>3, <2>1 DEF Trigger
<1>4. CASE SendReturns
  BY <1>4, Sizes DEF SendReturns
<1>5. CASE LoomStep
  BY <1>5 DEF LoomStep, LoomTakesPair, LoomWeaves
<1> QED BY <1>1, <1>2, <1>3, <1>4, <1>5 DEF SendLineStep

LEMMA NextKeepsTypes == ASSUME ThjTypeOK, [ThjNext]_thjVars PROVE ThjTypeOK'
<1>0. /\ sram \in [0..SramBytes-1 -> Bytes]
      /\ SendTypes /\ SwitchTypes /\ ModuleValues
  BY TypeParts
<1>1. CASE UNCHANGED thjVars
  <2>1. sram' = sram /\ UNCHANGED sendVars /\ UNCHANGED loomVars
        /\ UNCHANGED moduleVars
    BY <1>1 DEF thjVars
  <2> QED
    BY <2>1 DEF ThjTypeOK, ModuleTypeOK, sendVars, loomVars, moduleVars
<1>2. CASE ThjNext
  <2>1. SendTypes'
    <3>1. CASE CallStep
      BY <1>0, <3>1, CallKeepsSendTypes, SendKeepsSendTypes DEF CallStep
    <3>2. CASE UNCHANGED <<sendVars, loomVars>>
      BY <1>0, <3>2 DEF SendTypes, sendVars, loomVars
    <3> QED BY <1>2, <3>1, <3>2 DEF ThjNext
  <2>2. ModuleValues'
    <3>1. CASE UNCHANGED moduleVars
      BY <1>0, <3>1 DEF ModuleValues, moduleVars
    <3> QED BY <1>0, <1>2, <3>1, ModuleKeepsValues DEF ThjNext, CallStep
  <2>3. sram' \in [0..SramBytes-1 -> Bytes] /\ SwitchTypes'
    BY <1>0, <1>2, SramKeepsType, NextKeepsSwitches
  <2> QED
    BY <2>1, <2>2, <2>3
       DEF ThjTypeOK, ModuleTypeOK, SendTypes, SwitchTypes, ModuleValues
<1> QED BY <1>1, <1>2

LEMMA InitTypes == ASSUME ThjInit PROVE ThjTypeOK
<1>1. sram \in [0..SramBytes-1 -> Bytes]
  BY Sizes DEF ThjInit
<1>2. SendTypes
  <2>1. 0 \in 0..NBuf-1 /\ 0 \in 0..MaxLines-1
    BY Sizes
  <2> QED BY <2>1, EmptySeq DEF ThjInit, SendTypes
<1>3. SwitchTypes /\ ModuleValues
  BY DEF ThjInit, ModuleInit, SwitchTypes, ModuleValues
<1> QED BY <1>1, <1>2, <1>3, TypeParts

(* The driver keeps its types: bytes stay bytes, the buffer and the line   *)
(* that ioctl 10 takes out of its argument exist (thj.c:771-775).          *)
THEOREM DriverTypes == ThjSpec => []ThjTypeOK
<1>1. ThjInit => ThjTypeOK
  BY InitTypes
<1>2. ThjTypeOK /\ [ThjNext]_thjVars => ThjTypeOK'
  BY NextKeepsTypes
<1> QED BY <1>1, <1>2, PTL DEF ThjSpec

-----------------------------------------------------------------------------
(* The module. *)

(* A load that failed at the second timer, or one after it. *)
HalfLoaded == loading \in {"out", "irq0"} /\ irq[0] = "thj"

LEMMA HalfLoadedStays ==
    ASSUME ModuleValues, HalfLoaded, [ThjNext]_thjVars PROVE HalfLoaded'
<1> USE DEF ModuleValues, HalfLoaded, Timers
<1>1. CASE UNCHANGED moduleVars
  BY <1>1 DEF moduleVars
<1>2. CASE thj_init \/ thj_exit
  BY <1>2 DEF thj_init, thj_exit
<1>3. CASE request_irq(0, "irq0", "irq1")
  BY <1>3 DEF request_irq, Available
<1>4. CASE request_irq(1, "irq1", "in")
  BY <1>4 DEF request_irq
<1>5. ASSUME NEW t \in Timers, OtherDriver(t) PROVE HalfLoaded'
  BY <1>5 DEF OtherDriver
<1> QED
  BY <1>1, <1>2, <1>3, <1>4, <1>5 DEF ThjNext, CallStep, ModuleStep, thjVars

(* No load gets past a first timer that an earlier one kept, whoever asks  *)
(* for the timers meanwhile (thj.c:877-892).                               *)
THEOREM HalfLoadIsForEver == ThjSpec => NeverLoadedAgain
<1>1. ThjTypeOK /\ HalfLoaded /\ [ThjNext]_thjVars => HalfLoaded'
  BY HalfLoadedStays, TypeParts
<1>2. loading = "out" /\ irq[0] = "thj" => HalfLoaded
  BY DEF HalfLoaded
<1>3. HalfLoaded => loading # "in"
  BY DEF HalfLoaded
<1> QED BY <1>1, <1>2, <1>3, DriverTypes, PTL DEF ThjSpec, NeverLoadedAgain

-----------------------------------------------------------------------------
(* Where the lines are. *)

LEMMA Times ==
    ASSUME NEW c \in Nat, NEW a \in Nat, NEW b \in Nat, a < b
    PROVE  c * a \in Nat /\ c * b \in Nat /\ c * a + c <= c * b
<1>1. b - a - 1 \in Nat /\ c * a \in Nat /\ c * b \in Nat
      /\ c * (b - a - 1) \in Nat
  BY SMT
<1>2. c * b = c * (a + 1 + (b - a - 1))
  OBVIOUS
<1>3. c * (a + 1 + (b - a - 1)) = c * a + c + c * (b - a - 1)
  BY SMT
<1> QED BY <1>1, <1>2, <1>3

(* A line begins behind those with a smaller number, of its buffer and of  *)
(* the buffers before, and they all end before the length register.        *)
LEMMA LinesApart ==
    ASSUME NEW b \in 0..NBuf-1, NEW l \in 0..MaxLines-1
    PROVE  /\ Base(b, l) \in Nat
           /\ Base(b, l) + LineBytes <= OFF_DataLen
           /\ \A l2 \in 0..MaxLines-1 :
                 l < l2 => Base(b, l) + LineBytes <= Base(b, l2)
           /\ \A b2 \in 0..NBuf-1, l2 \in 0..MaxLines-1 :
                 b < b2 => Base(b, l) + LineBytes <= Base(b2, l2)
<1>1. /\ b \in Nat /\ l \in Nat /\ b < NBuf /\ l < MaxLines
      /\ NBuf \in Nat /\ MaxLines \in Nat
      /\ BufBytes \in Nat /\ LineBytes \in Nat /\ OFF_DataLen \in Nat
  BY Sizes
<1>2. /\ LineBytes * l \in Nat /\ LineBytes * MaxLines \in Nat
      /\ LineBytes * l + LineBytes <= LineBytes * MaxLines
  BY <1>1, Times
<1>3. /\ BufBytes * b \in Nat /\ BufBytes * NBuf \in Nat
      /\ BufBytes * b + BufBytes <= BufBytes * NBuf
  BY <1>1, Times
<1>4. LineBytes * MaxLines <= BufBytes /\ BufBytes * NBuf <= OFF_DataLen
  <2>1. MaxLines * LineBytes = LineBytes * MaxLines
        /\ NBuf * BufBytes = BufBytes * NBuf
    BY <1>1, SMT
  <2> QED BY <2>1, DriverAssumption
<1>5. Base(b, l) = BufBytes * b + LineBytes * l
  BY DEF Base
<1>6. ASSUME NEW l2 \in 0..MaxLines-1, l < l2
      PROVE  Base(b, l) + LineBytes <= Base(b, l2)
  <2>1. l2 \in Nat
    BY <1>1
  <2>2. LineBytes * l2 \in Nat /\ LineBytes * l + LineBytes <= LineBytes * l2
    BY <1>1, <1>6, <2>1, Times
  <2>3. Base(b, l2) = BufBytes * b + LineBytes * l2
    BY DEF Base
  <2> QED BY <1>1, <1>2, <1>3, <1>5, <2>2, <2>3
<1>7. ASSUME NEW b2 \in 0..NBuf-1, NEW l2 \in 0..MaxLines-1, b < b2
      PROVE  Base(b, l) + LineBytes <= Base(b2, l2)
  <2>1. b2 \in Nat /\ l2 \in Nat
    BY <1>1
  <2>2. BufBytes * b2 \in Nat /\ BufBytes * b + BufBytes <= BufBytes * b2
    BY <1>1, <1>7, <2>1, Times
  <2>3. LineBytes * l2 \in Nat
    BY <1>1, <2>1, SMT
  <2>4. Base(b2, l2) = BufBytes * b2 + LineBytes * l2
    BY DEF Base
  <2> QED BY <1>1, <1>2, <1>3, <1>4, <1>5, <2>2, <2>3, <2>4
<1>8. Base(b, l) \in Nat /\ Base(b, l) + LineBytes <= OFF_DataLen
  BY <1>1, <1>2, <1>3, <1>4, <1>5
<1> QED BY <1>6, <1>7, <1>8

(* The bytes of two lines have no address in common, nor one of them with  *)
(* the register; all of them are in the SRAM.                              *)
LEMMA LineAddresses ==
    ASSUME NEW b \in 0..NBuf-1, NEW l \in 0..MaxLines-1, NEW k \in 1..Width
    PROVE  /\ Base(b, l) \in Nat
           /\ Base(b, l) + k - 1 \in Line(Base(b, l))
           /\ Base(b, l) + k - 1 \in 0..SramBytes-2
           /\ Base(b, l) + k - 1 < OFF_DataLen
           /\ \A b2 \in 0..NBuf-1, l2 \in 0..MaxLines-1 :
                 <<b2, l2>> # <<b, l>>
                 => Base(b, l) + k - 1 \notin Line(Base(b2, l2))
<1>1. /\ Width \in Nat /\ LineBytes \in Nat /\ Width <= LineBytes
      /\ OFF_DataLen \in Nat /\ SramBytes \in Nat
      /\ OFF_DataLen + 2 <= SramBytes - 1
  BY Sizes
<1>2. Base(b, l) \in Nat /\ Base(b, l) + LineBytes <= OFF_DataLen
  BY LinesApart
<1>3. ASSUME NEW b2 \in 0..NBuf-1, NEW l2 \in 0..MaxLines-1,
             <<b2, l2>> # <<b, l>>
      PROVE  Base(b, l) + k - 1 \notin Line(Base(b2, l2))
  <2>1. \/ Base(b, l) + LineBytes <= Base(b2, l2)
        \/ Base(b2, l2) + LineBytes <= Base(b, l)
    <3>1. b # b2 \/ l # l2
      BY <1>3
    <3>2. b \in Int /\ b2 \in Int /\ l \in Int /\ l2 \in Int
      BY Sizes
    <3>3. CASE b = b2
      <4>1. l < l2 \/ l2 < l
        BY <3>1, <3>2, <3>3
      <4> QED BY <3>3, <4>1, LinesApart
    <3>4. CASE b # b2
      <4>1. b < b2 \/ b2 < b
        BY <3>2, <3>4
      <4> QED BY <4>1, LinesApart
    <3> QED BY <3>3, <3>4
  <2>2. Base(b2, l2) \in Nat
    BY LinesApart
  <2> QED BY <1>1, <1>2, <2>1, <2>2 DEF Line
<1> QED BY <1>1, <1>2, <1>3 DEF Line

-----------------------------------------------------------------------------
(* What a write and the memory test do to the lines. *)

LEMMA StoredBytes ==
    ASSUME sram \in [0..SramBytes-1 -> Bytes], NEW b \in 0..NBuf-1,
           NEW l \in 0..MaxLines-1
    PROVE  /\ Stored(b, l) \in [1..Width -> Bytes]
           /\ \A k \in 1..Width : Get(Base(b, l) + k - 1) = Stored(b, l)[k]
<1>1. ASSUME NEW k \in 1..Width
      PROVE  Base(b, l) + k - 1 \in 0..SramBytes-1
  BY Sizes, LineAddresses
<1>2. ASSUME NEW a \in 0..SramBytes-1 PROVE a % SramBytes = a
  <2>1. a = SramBytes * 0 + a /\ SramBytes \in Nat \ {0}
    BY Sizes
  <2>2. (SramBytes * 0 + a) % SramBytes = a
    BY <2>1, SMT
  <2> QED BY <2>1, <2>2
<1> QED BY <1>1, <1>2 DEF Stored, Get

LEMMA LineStored ==
    ASSUME sram \in [0..SramBytes-1 -> Bytes], NEW b \in 0..NBuf-1,
           NEW l \in 0..MaxLines-1, NEW d \in DOMAIN LineData,
           thj_write(b, l, Width, d), NEW b2 \in 0..NBuf-1,
           NEW l2 \in 0..MaxLines-1
    PROVE  Stored(b2, l2)' = IF <<b2, l2>> = <<b, l>> THEN LineData[d]
                                                     ELSE Stored(b2, l2)
<1>1. LineData[d] \in [1..Width -> Bytes] /\ Width \in Nat /\ Width > 0
  BY DriverAssumption, Sizes
<1>2. DOMAIN sram = 0..SramBytes-1
  OBVIOUS
<1>3. ASSUME NEW k \in 1..Width
      PROVE  sram'[Base(b2, l2) + k - 1]
                = IF <<b2, l2>> = <<b, l>> THEN LineData[d][k]
                  ELSE sram[Base(b2, l2) + k - 1]
  <2> DEFINE a == Base(b2, l2) + k - 1
  <2>1. /\ Base(b2, l2) \in Nat /\ a \in Line(Base(b2, l2))
        /\ a \in 0..SramBytes-2 /\ a < OFF_DataLen
        /\ <<b, l>> # <<b2, l2>> => a \notin Line(Base(b, l))
    BY LineAddresses
  <2>2. a \in DOMAIN sram /\ ~(a - OFF_DataLen \in {0, 1})
    BY <1>2, <2>1, Sizes
  <2>3. a - Base(b2, l2) + 1 = k
    BY <1>1, <2>1
  <2> HIDE DEF a
  <2>4. sram'[a] = IF a \in Line(Base(b, l))
                   THEN LineData[d][a - Base(b, l) + 1] ELSE sram[a]
    BY <1>1, <2>2 DEF thj_write
  <2> QED BY <2>1, <2>3, <2>4 DEF a
<1>4. CASE <<b2, l2>> = <<b, l>>
  BY <1>1, <1>3, <1>4 DEF Stored
<1>5. CASE <<b2, l2>> # <<b, l>>
  BY <1>3, <1>5 DEF Stored
<1> QED BY <1>4, <1>5

LEMMA NothingStored ==
    ASSUME sram \in [0..SramBytes-1 -> Bytes], NEW b, NEW l, NEW d,
           thj_write(b, l, -1, d), NEW b2 \in 0..NBuf-1,
           NEW l2 \in 0..MaxLines-1
    PROVE  Stored(b2, l2)' = Stored(b2, l2)
<1>1. DOMAIN sram = 0..SramBytes-1
  OBVIOUS
<1>2. ASSUME NEW k \in 1..Width
      PROVE  sram'[Base(b2, l2) + k - 1] = sram[Base(b2, l2) + k - 1]
  <2> DEFINE a == Base(b2, l2) + k - 1
  <2>1. a \in 0..SramBytes-2 /\ a < OFF_DataLen
    BY LineAddresses
  <2>2. a \in DOMAIN sram /\ ~(a - OFF_DataLen \in {0, 1})
    BY <1>1, <2>1, Sizes
  <2> HIDE DEF a
  <2>3. sram'[a] = sram[a]
    BY <2>2 DEF thj_write
  <2> QED BY <2>3 DEF a
<1> QED BY <1>2 DEF Stored

LEMMA TestStored ==
    ASSUME sram \in [0..SramBytes-1 -> Bytes], test_6264,
           NEW b \in 0..NBuf-1, NEW l \in 0..MaxLines-1
    PROVE  Stored(b, l)' = AllOf(TestByte)
<1>1. ASSUME NEW k \in 1..Width
      PROVE  sram'[Base(b, l) + k - 1] = TestByte
  <2> DEFINE a == Base(b, l) + k - 1
  <2>1. a \in 0..SramBytes-2
    BY LineAddresses
  <2>2. a \in DOMAIN sram /\ a < SramBytes - 1
    BY <2>1, Sizes
  <2> HIDE DEF a
  <2>3. sram'[a] = TestByte
    BY <2>2 DEF test_6264
  <2> QED BY <2>3 DEF a
<1> QED BY <1>1 DEF Stored, AllOf

-----------------------------------------------------------------------------
(* The length register: two bytes of the SRAM keep the low 16 bits.        *)

LEMMA Unique ==
    ASSUME NEW n \in Nat \ {0}, NEW q \in Int, NEW r \in 0..n-1
    PROVE  (n * q + r) % n = r /\ (n * q + r) \div n = q
  BY SMT

LEMMA Squares ==
    /\ ByteSize * ByteSize \in Nat \ {0} /\ Width < ByteSize * ByteSize
    /\ ByteSize * TestByte + TestByte \in 0..ByteSize*ByteSize-1
    /\ Width + 2 <= ByteSize * TestByte + TestByte
<1>1. ByteSize \in Nat /\ ByteSize > 0 /\ Width \in Nat
      /\ TestByte \in 0..ByteSize-1
  BY Sizes DEF Bytes
<1>2. ByteSize * ByteSize \in Nat /\ ByteSize * ByteSize > 0
  BY <1>1, SMT
<1>3. TestByte * (ByteSize + 1) = ByteSize * TestByte + TestByte
  BY <1>1, SMT
<1>4. TestByte \in Nat /\ TestByte < ByteSize
  BY <1>1
<1>5. ByteSize * TestByte \in Nat
      /\ ByteSize * TestByte + ByteSize <= ByteSize * ByteSize
  BY <1>1, <1>4, Times
<1>6. Width + 1 < ByteSize * TestByte + TestByte
  BY <1>3, LinesAssumption
<1>7. Width < ByteSize * ByteSize
  BY DriverAssumption
<1> QED BY <1>1, <1>2, <1>4, <1>5, <1>6, <1>7

(* The two bytes of a length, put together again. *)
LEMMA LengthKept ==
    ASSUME NEW leng \in {-1, Width}
    PROVE  /\ ByteSize * LengthBytes(leng)[2] + LengthBytes(leng)[1]
                 = Driver!LengthRegister(leng)
           /\ Driver!LengthRegister(Width) = Width
           /\ Driver!LengthRegister(-1) = ByteSize * ByteSize - 1
<1>1. ByteSize \in Nat \ {0} /\ Width \in Nat
  BY Sizes
<1>2. ByteSize * ByteSize \in Nat \ {0} /\ Width < ByteSize * ByteSize
  BY Squares
<1>3. Driver!LengthRegister(Width) = Width
  <2>1. ByteSize * ByteSize + Width = (ByteSize * ByteSize) * 1 + Width
    BY <1>1, <1>2
  <2>2. ((ByteSize * ByteSize) * 1 + Width) % (ByteSize * ByteSize) = Width
    BY <1>1, <1>2, Unique
  <2> QED BY <2>1, <2>2 DEF Driver!LengthRegister
<1>4. Driver!LengthRegister(-1) = ByteSize * ByteSize - 1
  <2>1. ByteSize * ByteSize + (-1)
           = (ByteSize * ByteSize) * 0 + (ByteSize * ByteSize - 1)
    BY <1>2
  <2>2. ((ByteSize * ByteSize) * 0 + (ByteSize * ByteSize - 1))
           % (ByteSize * ByteSize) = ByteSize * ByteSize - 1
    BY <1>2, Unique
  <2> QED BY <2>1, <2>2 DEF Driver!LengthRegister
<1>5. ByteSize * LengthBytes(Width)[2] + LengthBytes(Width)[1] = Width
  <2> DEFINE q == Width \div ByteSize  r == Width % ByteSize
  <2>1. r \in 0..ByteSize-1 /\ q \in Int /\ Width = ByteSize * q + r
    BY <1>1, Remainder
  <2> HIDE DEF q, r
  <2>2. q \in 0..ByteSize-1
    <3>1. ASSUME q < 0 PROVE FALSE
      <4>1. ByteSize * (-q) >= ByteSize
        BY <1>1, <2>1, <3>1, SMT
      <4>2. ByteSize * q = -(ByteSize * (-q))
        BY <1>1, <2>1, SMT
      <4>3. ByteSize * (-q) \in Int
        BY <1>1, <2>1, SMT
      <4> QED BY <1>1, <2>1, <4>1, <4>2, <4>3
    <3>2. ASSUME q >= ByteSize PROVE FALSE
      <4>1. ByteSize * q >= ByteSize * ByteSize /\ ByteSize * q \in Int
        BY <1>1, <2>1, <3>2, SMT
      <4> QED BY <1>1, <1>2, <2>1, <4>1
    <3> QED BY <1>1, <2>1, <3>1, <3>2
  <2>3. q % ByteSize = q
    <3>1. q = ByteSize * 0 + q
      BY <1>1, <2>2
    <3>2. (ByteSize * 0 + q) % ByteSize = q
      BY <1>1, <2>2, Unique
    <3> QED BY <3>1, <3>2
  <2>4. LengthBytes(Width)[2] = q % ByteSize /\ LengthBytes(Width)[1] = r
    BY DEF LengthBytes, q, r
  <2> QED BY <2>1, <2>3, <2>4
<1>6. ByteSize * LengthBytes(-1)[2] + LengthBytes(-1)[1]
         = ByteSize * ByteSize - 1
  <2>1. -1 = ByteSize * (-1) + (ByteSize - 1)
    BY <1>1
  <2>2. (ByteSize * (-1) + (ByteSize - 1)) % ByteSize = ByteSize - 1
        /\ (ByteSize * (-1) + (ByteSize - 1)) \div ByteSize = -1
    BY <1>1, Unique
  <2>3. (-1) % ByteSize = ByteSize - 1 /\ (-1) \div ByteSize = -1
    BY <2>1, <2>2
  <2>4. LengthBytes(-1)[2] = ByteSize - 1 /\ LengthBytes(-1)[1] = ByteSize - 1
    BY <2>3 DEF LengthBytes
  <2>5. ByteSize * (ByteSize - 1) = ByteSize * ByteSize - ByteSize
    BY <1>1, SMT
  <2> QED BY <1>1, <1>2, <2>4, <2>5
<1> QED BY <1>3, <1>4, <1>5, <1>6

LEMMA RegisterBytes ==
    ASSUME NEW a \in {OFF_DataLen, OFF_DataLen + 1}
    PROVE  a \in 0..SramBytes-2 /\ a % SramBytes = a
<1>1. a \in 0..SramBytes-2 /\ SramBytes \in Nat \ {0}
  BY Sizes
<1>2. a = SramBytes * 0 + a
  BY <1>1
<1>3. (SramBytes * 0 + a) % SramBytes = a
  BY <1>1, Unique
<1> QED BY <1>1, <1>2, <1>3

LEMMA RegisterWritten ==
    ASSUME sram \in [0..SramBytes-1 -> Bytes], NEW b \in 0..NBuf-1,
           NEW l \in 0..MaxLines-1, NEW leng \in {-1, Width}, NEW d,
           thj_write(b, l, leng, d)
    PROVE  read_data_length' = Driver!LengthRegister(leng)
<1>1. ASSUME NEW n \in {0, 1}
      PROVE  Get(OFF_DataLen + n)' = LengthBytes(leng)[n + 1]
  <2> DEFINE a == OFF_DataLen + n
  <2>1. a \in 0..SramBytes-2 /\ a % SramBytes = a /\ OFF_DataLen \in Nat
    BY RegisterBytes, Sizes
  <2>2. ~(a \in Line(Base(b, l)))
    <3>1. Base(b, l) \in Nat /\ Base(b, l) + LineBytes <= OFF_DataLen
      BY LinesApart
    <3> QED BY <2>1, <3>1, Sizes DEF Line
  <2>3. a \in DOMAIN sram /\ a - OFF_DataLen = n
    BY <2>1, Sizes
  <2> HIDE DEF a
  <2>4. sram'[a] = LengthBytes(leng)[n + 1]
    BY <2>2, <2>3 DEF thj_write
  <2>5. sram'[a % SramBytes] = LengthBytes(leng)[n + 1]
    BY <2>1, <2>4
  <2> QED BY <2>5 DEF Get, a
<1>2. Get(OFF_DataLen)' = LengthBytes(leng)[1]
      /\ Get(OFF_DataLen + 1)' = LengthBytes(leng)[2]
  <2>1. OFF_DataLen + 0 = OFF_DataLen
    BY Sizes
  <2> QED BY <1>1, <2>1
<1> QED BY <1>2, LengthKept DEF read_data_length

LEMMA RegisterTested ==
    ASSUME sram \in [0..SramBytes-1 -> Bytes], test_6264
    PROVE  read_data_length' = ByteSize * TestByte + TestByte
<1>1. ASSUME NEW a \in {OFF_DataLen, OFF_DataLen + 1}
      PROVE  Get(a)' = TestByte
  <2>1. a \in 0..SramBytes-2 /\ a % SramBytes = a
    BY RegisterBytes
  <2>2. a \in DOMAIN sram /\ a < SramBytes - 1
    BY <2>1, Sizes
  <2>3. sram'[a] = TestByte
    BY <2>2 DEF test_6264
  <2> QED BY <2>1, <2>3 DEF Get
<1> QED BY <1>1 DEF read_data_length

-----------------------------------------------------------------------------
(* What the loom gets. *)

(* The register holds the length of a line, or one that is no line's. *)
LengthInv ==
    \/ read_data_length \in {0, Width}
    \/ /\ read_data_length \in Nat
       /\ read_data_length >= Width + 2

(* While the bytes of a line go out, those of the line asked for have gone,*)
(* and what the loom then weaves is the line, or nothing of the pattern.   *)
SendInv ==
    /\ dpc \in {"idle", "wait"} => shifted = <<>>
    /\ dpc = "loop" =>
          /\ i % 2 = 0 /\ i <= read_data_length + 1 /\ Len(shifted) = i
          /\ \A k \in 1..i : shifted[k] = Get(Base(num, count) + k - 1)
    /\ dpc = "end" =>
          Woven(shifted) = IF read_data_length = Width
                           THEN LineOf(Stored(num, count)) ELSE -2

ThjInv == ThjTypeOK /\ LengthInv /\ SendInv

LEMMA SramFrame ==
    ASSUME sram' = sram
    PROVE  /\ read_data_length' = read_data_length
           /\ \A a : Get(a)' = Get(a)
           /\ \A b, l : Stored(b, l)' = Stored(b, l)
           /\ SramLines' = SramLines
  BY DEF read_data_length, Get, Stored, SramLines

LEMMA LengthStays == ASSUME ThjInv, [ThjNext]_thjVars PROVE LengthInv'
<1> USE DEF ThjInv
<1>1. sram \in [0..SramBytes-1 -> Bytes] /\ Width \in Nat
      /\ ByteSize * ByteSize \in Nat
  BY TypeParts, Sizes, Squares
<1>2. CASE sram' = sram
  BY <1>2, SramFrame DEF LengthInv
<1>3. ASSUME NEW b \in 0..NBuf-1, NEW l \in 0..MaxLines-1,
             NEW leng \in {-1, Width}, NEW d, thj_write(b, l, leng, d)
      PROVE  LengthInv'
  <2>1. read_data_length' \in {Width, ByteSize * ByteSize - 1}
    BY <1>1, <1>3, RegisterWritten, LengthKept
  <2> DEFINE longest == ByteSize * ByteSize - 1
  <2>2. longest \in Nat /\ longest >= Width + 2
    BY <1>1, Squares
  <2>3. read_data_length' = Width \/ read_data_length' = longest
    BY <2>1
  <2> HIDE DEF longest
  <2>4. CASE read_data_length' = Width
    BY <2>4 DEF LengthInv
  <2>5. CASE read_data_length' = longest
    BY <2>2, <2>5 DEF LengthInv
  <2> QED BY <2>3, <2>4, <2>5
<1>4. CASE test_6264
  BY <1>1, <1>4, RegisterTested, Squares DEF LengthInv
<1>5. sram' = sram \/ test_6264
      \/ \E b \in 0..NBuf-1, l \in 0..MaxLines-1 :
           \E leng \in {-1, Width}, d \in DOMAIN LineData :
              thj_write(b, l, leng, d)
  BY DEF ThjNext, CallStep, Calls, thj_ioctl_send, SendLineStep, SendPair,
         SendRest, Trigger, SendReturns, LoomStep, LoomTakesPair, LoomWeaves,
         thjVars
<1> QED BY <1>2, <1>3, <1>4, <1>5

(* Of a length that the loom does not know nothing is taken for a line. *)
LEMMA OtherLength ==
    ASSUME NEW s, Len(s) # Width + (Width % 2) PROVE Woven(s) = -2
  BY DEF Woven

LEMMA RightLength ==
    ASSUME NEW s \in Seq(Bytes), Len(s) = Width + (Width % 2),
           NEW t \in [1..Width -> Bytes], \A k \in 1..Width : s[k] = t[k]
    PROVE  Woven(s) = LineOf(t)
<1>1. Width \in Nat /\ Width <= Len(s)
  BY Sizes
<1>2. \A k \in 1..Width : s[k] \in Bytes
  OBVIOUS
<1> DEFINE u == SubSeq(s, 1, Width)
<1>3. /\ u \in Seq(Bytes) /\ Len(u) = Width
      /\ \A k \in 1..Width : u[k] = s[k]
  <2>1. /\ u \in Seq(Bytes)
        /\ Len(u) = IF 1 <= Width THEN Width - 1 + 1 ELSE 0
        /\ \A k \in 1..Width - 1 + 1 : u[k] = s[1 + k - 1]
    BY <1>1, <1>2, SubSeqProperties
  <2> HIDE DEF u
  <2> QED BY <1>1, <2>1, Sizes
<1> HIDE DEF u
<1>4. u = t
  <2>1. DOMAIN u = 1..Width /\ u \in [1..Width -> Bytes]
    BY <1>3, LenProperties
  <2> QED BY <1>3, <2>1
<1> QED BY <1>4 DEF Woven, u

LEMMA LongLines ==
    ASSUME NEW n \in Nat, n % 2 = 0, NEW len \in Nat, n >= len, n <= len + 1
    PROVE  /\ len = Width => /\ n = Width + (Width % 2)
                             /\ \A c \in 0..MaxLines-1 : ~(n < c)
           /\ len = 0 => n = 0 /\ Width + (Width % 2) > 2
           /\ len >= Width + 2 => n > Width + (Width % 2)
<1>1. Width \in Nat /\ MaxLines \in Nat
      /\ Width > 2 /\ MaxLines <= Width + 1
  BY Sizes, LinesAssumption
<1>2. len = Width => n = Width + (Width % 2)
  BY <1>1
<1>3. len = Width => \A c \in 0..MaxLines-1 : ~(n < c)
  BY <1>1
<1>4. len = 0 => n = 0 /\ Width + (Width % 2) > 2
  BY <1>1
<1>5. len >= Width + 2 => n > Width + (Width % 2)
  BY <1>1
<1> QED BY <1>2, <1>3, <1>4, <1>5

LEMMA RestKeepsSend == ASSUME ThjInv, SendRest PROVE SendInv'
<1> USE DEF ThjInv
<1>1. /\ dpc = "loop" /\ dpc' = "end" /\ i >= read_data_length
      /\ UNCHANGED <<sram, num, count, i>>
  BY DEF SendRest
<1>2. /\ sram \in [0..SramBytes-1 -> Bytes] /\ i \in Nat
      /\ num \in 0..NBuf-1 /\ count \in 0..MaxLines-1
      /\ shifted \in Seq(Bytes) /\ Width \in Nat
  BY Sizes DEF ThjTypeOK
<1>3. /\ i % 2 = 0 /\ i <= read_data_length + 1 /\ Len(shifted) = i
      /\ \A k \in 1..i : shifted[k] = Get(Base(num, count) + k - 1)
  BY <1>1 DEF SendInv
<1>4. \/ i < count /\ Len(shifted') = i + 2
      \/ ~(i < count) /\ shifted' = shifted
  <2>1. CASE i < count
    <3>1. PICK stray \in {0, TestByte} :
             Shift(<<Get(Base(num, count) + i), stray>>)
      BY <2>1 DEF SendRest
    <3>2. Get(Base(num, count) + i) \in Bytes /\ stray \in Bytes
      <4>1. Base(num, count) \in Nat
        BY <1>2, LinesApart
      <4> QED BY <1>2, <4>1, GetIsByte, Sizes
    <3> QED BY <1>2, <1>3, <2>1, <3>1, <3>2, PairTypes DEF Shift
  <2>2. CASE ~(i < count)
    BY <2>2 DEF SendRest, loomVars
  <2> QED BY <2>1, <2>2
<1>5. Woven(shifted') = IF read_data_length = Width
                        THEN LineOf(Stored(num, count)) ELSE -2
  <2>1. CASE read_data_length = Width
    <3>1. i = Width + (Width % 2) /\ ~(i < count)
      BY <1>1, <1>2, <1>3, <2>1, LongLines
    <3>2. shifted' = shifted /\ Len(shifted) = Width + (Width % 2)
      BY <1>3, <1>4, <3>1
    <3>3. \A k \in 1..Width : shifted[k] = Stored(num, count)[k]
      BY <1>2, <1>3, <3>1, StoredBytes
    <3>4. Woven(shifted) = LineOf(Stored(num, count))
      BY <1>2, <3>2, <3>3, StoredBytes, RightLength
    <3> QED BY <2>1, <3>2, <3>4
  <2>2. CASE read_data_length # Width
    <3>1. Len(shifted') # Width + (Width % 2)
      <4>1. read_data_length \in Nat
            /\ (read_data_length = 0 \/ read_data_length >= Width + 2)
        BY <2>2 DEF LengthInv
      <4>2. /\ read_data_length = 0 => i = 0 /\ Width + (Width % 2) > 2
            /\ read_data_length >= Width + 2 => i > Width + (Width % 2)
        BY <1>1, <1>2, <1>3, <4>1, LongLines
      <4>3. Width + (Width % 2) \in Nat
        BY <1>2
      <4>4. Len(shifted') \in {i, i + 2}
        BY <1>3, <1>4
      <4> QED BY <1>2, <4>1, <4>2, <4>3, <4>4
    <3> QED BY <2>2, <3>1, OtherLength
  <2> QED BY <2>1, <2>2
<1> QED BY <1>1, <1>5, SramFrame DEF SendInv

LEMMA PairKeepsSend == ASSUME ThjInv, SendPair PROVE SendInv'
<1> USE DEF ThjInv
<1>1. /\ dpc = "loop" /\ dpc' = "loop" /\ i < read_data_length /\ i' = i + 2
      /\ UNCHANGED <<sram, num, count>>
      /\ shifted' = shifted \o <<Get(Base(num, count) + i),
                                 Get(Base(num, count) + i + 1)>>
  BY DEF SendPair, Shift
<1>2. /\ sram \in [0..SramBytes-1 -> Bytes] /\ i \in Nat
      /\ num \in 0..NBuf-1 /\ count \in 0..MaxLines-1
      /\ shifted \in Seq(Bytes) /\ Base(num, count) \in Nat
  BY LinesApart DEF ThjTypeOK
<1>3. /\ i % 2 = 0 /\ Len(shifted) = i
      /\ \A k \in 1..i : shifted[k] = Get(Base(num, count) + k - 1)
  BY <1>1 DEF SendInv
<1>4. read_data_length \in Nat
  BY Sizes DEF LengthInv
<1> DEFINE base == Base(num, count)
<1>5. Get(base + i) \in Bytes /\ Get(base + i + 1) \in Bytes
  BY <1>2, GetIsByte
<1>6. /\ Len(shifted') = i + 2
      /\ \A k \in 1..i : shifted'[k] = shifted[k]
      /\ shifted'[i + 1] = Get(base + i)
      /\ shifted'[i + 2] = Get(base + i + 1)
  <2> DEFINE x == Get(base + i)  y == Get(base + i + 1)
  <2>1. x \in Bytes /\ y \in Bytes /\ shifted' = shifted \o <<x, y>>
    BY <1>1, <1>5
  <2> HIDE DEF x, y
  <2>2. /\ Len(shifted') = Len(shifted) + 2
        /\ \A k \in 1..Len(shifted) : shifted'[k] = shifted[k]
        /\ shifted'[Len(shifted) + 1] = x
        /\ shifted'[Len(shifted) + 2] = y
    BY <1>2, <2>1, PairTypes
  <2> QED BY <1>3, <2>2 DEF x, y
<1>7. (i + 2) % 2 = 0 /\ i + 2 <= read_data_length + 1
  BY <1>1, <1>2, <1>3, <1>4
<1>8. ASSUME NEW k \in 1..i+2 PROVE shifted'[k] = Get(base + k - 1)
  <2>1. base \in Nat
    BY <1>2
  <2> HIDE DEF base
  <2>2. CASE k \in 1..i
    BY <1>3, <1>6, <2>2 DEF base
  <2>3. CASE k = i + 1
    <3>1. base + k - 1 = base + i
      BY <1>2, <2>1, <2>3
    <3> QED BY <1>6, <2>3, <3>1
  <2>4. CASE k = i + 2
    <3>1. base + k - 1 = base + i + 1
      BY <1>2, <2>1, <2>4
    <3> QED BY <1>6, <2>4, <3>1
  <2> QED BY <1>2, <2>2, <2>3, <2>4
<1>9. read_data_length' = read_data_length /\ base' = base
      /\ \A k \in 1..i+2 : shifted'[k] = Get(base + k - 1)'
  BY <1>1, <1>8, SramFrame DEF Base, Get
<1> QED BY <1>1, <1>6, <1>7, <1>9 DEF SendInv

LEMMA SendStays == ASSUME ThjInv, [ThjNext]_thjVars PROVE SendInv'
<1> USE DEF ThjInv
<1>1. CASE SendPair \/ SendRest
  BY <1>1, PairKeepsSend, RestKeepsSend
<1>2. CASE Trigger \/ SendReturns
  <2>1. dpc' \in {"idle", "wait"} /\ shifted' = <<>>
    BY <1>2 DEF SendInv, Trigger, SendReturns, loomVars
  <2> QED BY <2>1 DEF SendInv
<1>3. ASSUME NEW arg, thj_ioctl_send(arg) PROVE SendInv'
  <2>1. /\ dpc' = "loop" /\ i' = 0 /\ shifted' = <<>> /\ sram' = sram
    BY <1>3 DEF thj_ioctl_send, loomVars, SendInv
  <2>2. read_data_length' = read_data_length /\ read_data_length \in Nat
    BY <2>1, SramFrame, Sizes DEF LengthInv
  <2> QED BY <2>1, <2>2 DEF SendInv
<1>4. ASSUME dpc = "idle", UNCHANGED <<sendVars, loomVars>>
      PROVE  SendInv'
  BY <1>4 DEF sendVars, loomVars, SendInv
<1>5. ASSUME UNCHANGED <<sram, sendVars, shifted>> PROVE SendInv'
  BY <1>5, SramFrame DEF sendVars, SendInv, Base
<1>6. \/ SendPair \/ SendRest \/ Trigger \/ SendReturns
      \/ \E arg : thj_ioctl_send(arg)
      \/ dpc = "idle" /\ UNCHANGED <<sendVars, loomVars>>
      \/ UNCHANGED <<sram, sendVars, shifted>>
  <2>1. CASE Calls
    BY <2>1 DEF Calls, thj_write, test_6264
  <2>2. CASE SendLineStep
    BY <2>2 DEF SendLineStep
  <2>3. CASE LoomStep
    BY <2>3 DEF LoomStep, LoomTakesPair, LoomWeaves
  <2>4. CASE UNCHANGED <<sram, sendVars, loomVars>>
    BY <2>4 DEF loomVars
  <2> QED BY <2>1, <2>2, <2>3, <2>4 DEF ThjNext, CallStep, thjVars
<1> QED BY <1>1, <1>2, <1>3, <1>4, <1>5, <1>6

LEMMA InitLength == ASSUME ThjInit PROVE read_data_length = 0
<1>1. \A a \in {OFF_DataLen, OFF_DataLen + 1} : Get(a) = 0
  BY RegisterBytes, Sizes DEF ThjInit, Get
<1>2. Get(OFF_DataLen) = 0 /\ Get(OFF_DataLen + 1) = 0
  BY <1>1
<1> QED BY <1>2, Sizes DEF read_data_length

(* ThjInv is an invariant for all sizes and pattern files. *)
THEOREM ThjInvariant == ThjSpec => []ThjInv
<1>1. ThjInit => ThjInv
  BY InitTypes, InitLength DEF ThjInit, ThjInv, LengthInv, SendInv
<1>2. ThjInv /\ [ThjNext]_thjVars => ThjInv'
  BY NextKeepsTypes, LengthStays, SendStays DEF ThjInv
<1> QED BY <1>1, <1>2, PTL DEF ThjSpec

-----------------------------------------------------------------------------
(* The refinement. *)

LEMMA InitImplemented == ASSUME ThjInit PROVE Driver!DriverInit
<1>1. ASSUME NEW b \in 0..NBuf-1, NEW l \in 0..MaxLines-1
      PROVE  LineOf(Stored(b, l)) = -1
  <2>1. \A k \in 1..Width : Base(b, l) + k - 1 \in 0..SramBytes-1
    BY LineAddresses, Sizes
  <2>2. Stored(b, l) = AllOf(0)
    BY <2>1 DEF ThjInit, Stored, AllOf
  <2> QED BY <2>2 DEF LineOf
<1>2. SramLines = [b \in 0..NBuf-1 |-> [l \in 0..MaxLines-1 |-> -1]]
  BY <1>1 DEF SramLines
<1>3. WovenRows = <<>>
  BY DEF ThjInit, WovenRows
<1> QED
  BY <1>2, <1>3, InitLength
     DEF Driver!DriverInit, Driver!Slots, Driver!Blank

LEMMA WriteImplemented ==
    ASSUME ThjTypeOK, NEW b \in 0..NBuf-1, NEW l \in 0..MaxLines-1,
           NEW leng \in {-1, Width}, NEW d \in DOMAIN LineData,
           thj_write(b, l, leng, d)
    PROVE  Driver!Write6264(b, l, leng, LineOf(LineData[d]))
<1>1. sram \in [0..SramBytes-1 -> Bytes] /\ Width \in Nat /\ Width > 0
  BY Sizes DEF ThjTypeOK
<1>2. read_data_length' = Driver!LengthRegister(leng)
  BY <1>1, RegisterWritten
<1>3. WovenRows' = WovenRows
  BY DEF thj_write, loomVars, WovenRows
<1>4. CASE leng = Width
  <2>1. ASSUME NEW b2 \in 0..NBuf-1, NEW l2 \in 0..MaxLines-1
        PROVE  LineOf(Stored(b2, l2))'
                  = IF <<b2, l2>> = <<b, l>> THEN LineOf(LineData[d])
                    ELSE LineOf(Stored(b2, l2))
    <3>1. Stored(b2, l2)' = IF <<b2, l2>> = <<b, l>> THEN LineData[d]
                                                     ELSE Stored(b2, l2)
      BY <1>1, <1>4, LineStored
    <3>2. LineOf(Stored(b2, l2))' = LineOf(Stored(b2, l2)')
      BY DEF LineOf, AllOf
    <3> QED BY <3>1, <3>2
  <2>2. SramLines' = [SramLines EXCEPT ![b][l] = LineOf(LineData[d])]
    BY <2>1 DEF SramLines
  <2> QED BY <1>1, <1>2, <1>3, <1>4, <2>2 DEF Driver!Write6264
<1>5. CASE leng = -1
  <2>1. ASSUME NEW b2 \in 0..NBuf-1, NEW l2 \in 0..MaxLines-1
        PROVE  LineOf(Stored(b2, l2))' = LineOf(Stored(b2, l2))
    <3>1. Stored(b2, l2)' = Stored(b2, l2)
      BY <1>1, <1>5, NothingStored
    <3> QED BY <3>1 DEF LineOf, AllOf
  <2>2. SramLines' = SramLines
    BY <2>1 DEF SramLines
  <2> QED BY <1>2, <1>3, <1>5, <2>2 DEF Driver!Write6264
<1> QED BY <1>4, <1>5

LEMMA TestImplemented ==
    ASSUME ThjTypeOK, test_6264 PROVE Driver!TestMemory
<1>1. sram \in [0..SramBytes-1 -> Bytes]
  BY DEF ThjTypeOK
<1>2. AllOf(TestByte) # AllOf(0)
  <2>1. 1 \in 1..Width /\ TestByte # 0
    BY Sizes, LinesAssumption
  <2>2. AllOf(TestByte)[1] = TestByte /\ AllOf(0)[1] = 0
    BY <2>1 DEF AllOf
  <2> QED BY <2>1, <2>2
<1>3. ASSUME NEW b \in 0..NBuf-1, NEW l \in 0..MaxLines-1
      PROVE  LineOf(Stored(b, l))' = -2
  <2>1. Stored(b, l)' = AllOf(TestByte)
    BY <1>1, TestStored
  <2> QED BY <1>2, <2>1 DEF LineOf, AllOf
<1>4. SramLines' = [b \in 0..NBuf-1 |-> [l \in 0..MaxLines-1 |-> -2]]
  BY <1>3 DEF SramLines
<1>5. read_data_length' \in 0..ByteSize*ByteSize-1
  BY <1>1, RegisterTested, Squares
<1>6. WovenRows' = WovenRows
  BY DEF test_6264, loomVars, WovenRows
<1> QED
  BY <1>4, <1>5, <1>6 DEF Driver!TestMemory, Driver!Slots, Driver!Noise

LEMMA RowsAppended ==
    ASSUME NEW s, NEW T, s \in Seq(T), NEW e \in T
    PROVE  [n \in DOMAIN Append(s, e) |-> Woven(Append(s, e)[n])]
              = Append([n \in DOMAIN s |-> Woven(s[n])], Woven(e))
<1> DEFINE f == [n \in DOMAIN s |-> Woven(s[n])]
           g == [n \in DOMAIN Append(s, e) |-> Woven(Append(s, e)[n])]
           S == {Woven(t) : t \in T}
<1>1. Len(s) \in Nat /\ DOMAIN s = 1..Len(s)
      /\ \A n \in 1..Len(s) : s[n] \in T
  BY LenProperties
<1>2. /\ Append(s, e) \in Seq(T) /\ Len(Append(s, e)) = Len(s) + 1
      /\ DOMAIN Append(s, e) = 1..Len(s) + 1
      /\ \A n \in 1..Len(s) : Append(s, e)[n] = s[n]
      /\ Append(s, e)[Len(s) + 1] = e
  BY AppendProperties, LenProperties
<1>3. f \in [1..Len(s) -> S] /\ \A n \in 1..Len(s) : f[n] = Woven(s[n])
  BY <1>1
<1>4. f \in Seq(S) /\ Len(f) = Len(s)
  <2> HIDE DEF f, S
  <2>1. f \in Seq(S)
    BY <1>1, <1>3, SeqDef
  <2>2. DOMAIN f = 1..Len(s) /\ DOMAIN f = 1..Len(f) /\ Len(f) \in Nat
    BY <1>3, <2>1, LenProperties
  <2> QED BY <1>1, <2>1, <2>2
<1>5. Woven(e) \in S
  OBVIOUS
<1>6. /\ DOMAIN Append(f, Woven(e)) = 1..Len(s) + 1
      /\ \A n \in 1..Len(s) : Append(f, Woven(e))[n] = f[n]
      /\ Append(f, Woven(e))[Len(s) + 1] = Woven(e)
      /\ Append(f, Woven(e)) \in Seq(S)
  <2> HIDE DEF f, S
  <2> QED BY <1>1, <1>4, <1>5, AppendProperties, LenProperties
<1>7. ASSUME NEW n \in 1..Len(s) + 1
      PROVE  g[n] = Append(f, Woven(e))[n]
  <2>1. g[n] = Woven(Append(s, e)[n])
    BY <1>2
  <2> HIDE DEF f, g, S
  <2>2. CASE n \in 1..Len(s)
    BY <1>2, <1>3, <1>6, <2>1, <2>2
  <2>3. CASE n = Len(s) + 1
    BY <1>2, <1>6, <2>1, <2>3
  <2>4. n \in 1..Len(s) \/ n = Len(s) + 1
    BY <1>1
  <2> QED BY <2>2, <2>3, <2>4
<1>8. DOMAIN g = 1..Len(s) + 1 /\ g = [n \in DOMAIN g |-> g[n]]
  BY <1>2
<1>9. /\ Append(f, Woven(e)) = [n \in 1..Len(s) + 1 |-> Append(f, Woven(e))[n]]
  <2> HIDE DEF f, S
  <2> QED BY <1>4, <1>6, LenProperties
<1> HIDE DEF f, g, S
<1>10. g = Append(f, Woven(e))
  BY <1>7, <1>8, <1>9
<1> QED BY <1>10 DEF f, g

LEMMA TriggerImplemented ==
    ASSUME ThjInv, Trigger PROVE Driver!SendLine(num, count)
<1>1. /\ dpc = "end" /\ sram' = sram /\ rows' = Append(rows, shifted)
  BY DEF Trigger
<1>2. /\ rows \in Seq(Seq(Bytes)) /\ shifted \in Seq(Bytes)
      /\ num \in 0..NBuf-1 /\ count \in 0..MaxLines-1
  BY DEF ThjInv, ThjTypeOK
<1>3. WovenRows' = Append(WovenRows, Woven(shifted))
  <2>1. WovenRows' = [n \in DOMAIN rows' |-> Woven(rows'[n])]
    BY DEF WovenRows, Woven, LineOf, AllOf
  <2> QED BY <1>1, <1>2, <2>1, RowsAppended DEF WovenRows
<1>4. Woven(shifted) = Driver!Shifted(num, count)
  BY <1>1, <1>2 DEF ThjInv, SendInv, Driver!Shifted, Driver!Noise, SramLines
<1>5. SramLines' = SramLines /\ read_data_length' = read_data_length
  BY <1>1, SramFrame
<1> QED BY <1>3, <1>4, <1>5 DEF Driver!SendLine

LEMMA StepImplemented ==
    ASSUME ThjInv, [ThjNext]_thjVars
    PROVE  [Driver!DriverNext(Lines)]_(Driver!driverVars)
<1>1. ASSUME sram' = sram, rows' = rows PROVE UNCHANGED Driver!driverVars
  BY <1>1, SramFrame DEF Driver!driverVars, WovenRows
<1>2. CASE Trigger
  <2>1. num \in 0..NBuf-1 /\ count \in 0..MaxLines-1
    BY DEF ThjInv, ThjTypeOK
  <2> QED
    BY <1>2, <2>1, TriggerImplemented DEF Driver!DriverNext, Driver!Slots
<1>3. CASE Calls
  <2>1. ASSUME NEW b \in 0..NBuf-1, NEW l \in 0..MaxLines-1,
               NEW leng \in {-1, Width}, NEW d \in DOMAIN LineData,
               thj_write(b, l, leng, d)
        PROVE  Driver!DriverNext(Lines)
    <3>1. LineOf(LineData[d]) \in Lines
      BY DEF Lines
    <3>2. Driver!Write6264(b, l, leng, LineOf(LineData[d]))
      BY <2>1, WriteImplemented DEF ThjInv
    <3> QED BY <3>1, <3>2 DEF Driver!DriverNext, Driver!Slots
  <2>2. CASE test_6264
    BY <2>2, TestImplemented DEF ThjInv, Driver!DriverNext
  <2>3. ASSUME NEW arg, thj_ioctl_send(arg)
        PROVE  UNCHANGED Driver!driverVars
    BY <1>1, <2>3 DEF thj_ioctl_send, loomVars
  <2> QED BY <1>3, <2>1, <2>2, <2>3 DEF Calls
<1>4. \/ Trigger \/ Calls
      \/ sram' = sram /\ rows' = rows
  BY DEF ThjNext, CallStep, SendLineStep, SendPair, SendRest, Shift,
         SendReturns, LoomStep, LoomTakesPair, LoomWeaves, loomVars, thjVars
<1> QED BY <1>1, <1>2, <1>3, <1>4

(* The driver by bytes implements the driver by lines that the controller  *)
(* is composed with: no line falls on another or on the length, the length *)
(* keeps 16 bits, and what the loom weaves is the line that ioctl 10 names,*)
(* or none of the pattern when the length is no line's (thj.c:102-135,     *)
(* 402-439, 639-667, 801-819).                                             *)
THEOREM BytesImplementLines == ThjSpec => LinesImplemented
<1>1. ThjInit => Driver!DriverInit
  BY InitImplemented
<1>2. ThjInv /\ [ThjNext]_thjVars
      => [Driver!DriverNext(Lines)]_(Driver!driverVars)
  BY StepImplemented
<1> QED BY <1>1, <1>2, ThjInvariant, PTL DEF ThjSpec, LinesImplemented

=============================================================================
