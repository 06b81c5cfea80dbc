----------------------------- MODULE FifoProofs -----------------------------
(***************************************************************************)
(* Proofs that the controller implements the bounded queue of WeaveFifo,   *)
(* for a directory with the lock file and rows of one line.  What was      *)
(* woven and what is queued are two stretches of the pattern, the second   *)
(* right behind the first; a step of the controller moves their ends as    *)
(* one of the actions of the queue does, or leaves them alone.             *)
(***************************************************************************)
EXTENDS RingProofs, SequenceTheorems

-----------------------------------------------------------------------------
(* A stretch of n rows of the pattern, the first of them w rows after the  *)
(* row 0.                                                                  *)
Stretch(w, n) == [i \in 1..n |-> (w + (i - 1)) % Height]

LEMMA StretchSeq ==
    ASSUME NEW w \in Nat, NEW n \in Nat
    PROVE  /\ Stretch(w, n) \in Seq(0..Height-1)
           /\ Len(Stretch(w, n)) = n
           /\ DOMAIN Stretch(w, n) = 1..n
           /\ \A i \in 1..n : Stretch(w, n)[i] = (w + (i - 1)) % Height
<1>1. ASSUME NEW i \in 1..n PROVE (w + (i - 1)) % Height \in 0..Height-1
  BY SupportAssumption
<1>2. Stretch(w, n) \in Seq(0..Height-1)
  <2>1. Stretch(w, n) \in [1..n -> 0..Height-1]
    BY <1>1 DEF Stretch
  <2> QED BY <2>1, SeqDef
<1>3. DOMAIN Stretch(w, n) = 1..n
  BY DEF Stretch
<1>4. Len(Stretch(w, n)) = n
  BY <1>2, <1>3, LenProperties
<1> QED BY <1>2, <1>3, <1>4 DEF Stretch

LEMMA StretchEmpty == ASSUME NEW w \in Nat PROVE Stretch(w, 0) = <<>>
  BY StretchSeq, EmptySeq

LEMMA StretchAppend ==
    ASSUME NEW w \in Nat, NEW n \in Nat
    PROVE  Append(Stretch(w, n), (w + n) % Height) = Stretch(w, n + 1)
<1> DEFINE s == Stretch(w, n)
           t == Stretch(w, n + 1)
           e == (w + n) % Height
<1>0. n + 1 \in Nat
  OBVIOUS
<1>1. /\ s \in Seq(0..Height-1) /\ Len(s) = n
      /\ \A i \in 1..n : s[i] = (w + (i - 1)) % Height
      /\ t \in Seq(0..Height-1) /\ Len(t) = n + 1
      /\ \A i \in 1..n+1 : t[i] = (w + (i - 1)) % Height
  BY <1>0, StretchSeq, Zenon
<1>2. e \in 0..Height-1
  BY SupportAssumption
<1>3. t[n + 1] = e
  <2>1. n + 1 \in 1..n+1 /\ w + ((n + 1) - 1) = w + n
    OBVIOUS
  <2> QED BY <1>1, <2>1
<1> HIDE DEF s, t, e
<1>4. /\ Append(s, e) \in Seq(0..Height-1) /\ Len(Append(s, e)) = n + 1
      /\ \A i \in 1..n : Append(s, e)[i] = s[i]
      /\ Append(s, e)[n + 1] = e
  BY <1>1, <1>2, AppendProperties
<1>5. ASSUME NEW i \in 1..n+1 PROVE Append(s, e)[i] = t[i]
  <2>1. i \in 1..n \/ i = n + 1
    OBVIOUS
  <2>2. CASE i \in 1..n
    BY <1>1, <1>4, <2>2
  <2>3. CASE i = n + 1
    BY <1>3, <1>4, <2>3
  <2> QED BY <2>1, <2>2, <2>3
<1>6. Append(s, e) = t
  BY <1>1, <1>4, <1>5, SeqEqual
<1> QED BY <1>6 DEF s, t, e

LEMMA StretchHead ==
    ASSUME NEW w \in Nat, NEW n \in Nat
    PROVE  /\ Stretch(w, n + 1) # <<>>
           /\ Head(Stretch(w, n + 1)) = w % Height
           /\ Tail(Stretch(w, n + 1)) = Stretch(w + 1, n)
<1> DEFINE s == Stretch(w, n + 1)
           t == Stretch(w + 1, n)
<1>0. n + 1 \in Nat /\ w + 1 \in Nat
  OBVIOUS
<1>1. /\ s \in Seq(0..Height-1) /\ Len(s) = n + 1
      /\ \A i \in 1..n+1 : s[i] = (w + (i - 1)) % Height
      /\ t \in Seq(0..Height-1) /\ Len(t) = n
      /\ \A i \in 1..n : t[i] = ((w + 1) + (i - 1)) % Height
  BY <1>0, StretchSeq, Zenon
<1>2. s[1] = w % Height
  <2>1. 1 \in 1..n+1 /\ w + (1 - 1) = w
    OBVIOUS
  <2> QED BY <1>1, <2>1
<1>3. ASSUME NEW i \in 1..n PROVE t[i] = s[i + 1]
  <2>1. i + 1 \in 1..n+1 /\ w + ((i + 1) - 1) = (w + 1) + (i - 1)
    OBVIOUS
  <2> QED BY <1>1, <2>1
<1> HIDE DEF s, t
<1>4. s # <<>>
  BY <1>1, EmptySeq
<1>5. /\ Head(s) = s[1] /\ Tail(s) \in Seq(0..Height-1)
      /\ Len(Tail(s)) = n
      /\ \A i \in 1..n : Tail(s)[i] = s[i + 1]
  BY <1>1, <1>4, HeadTailProperties
<1>6. Tail(s) = t
  BY <1>1, <1>3, <1>5, SeqEqual
<1> QED BY <1>2, <1>4, <1>5, <1>6 DEF s, t

LEMMA StretchConcat ==
    ASSUME NEW w \in Nat, NEW m \in Nat, NEW n \in Nat
    PROVE  Stretch(w, m) \o Stretch(w + m, n) = Stretch(w, m + n)
<1> DEFINE s == Stretch(w, m)
           t == Stretch(w + m, n)
           u == Stretch(w, m + n)
<1>0. w + m \in Nat /\ m + n \in Nat
  OBVIOUS
<1>1. /\ s \in Seq(0..Height-1) /\ Len(s) = m
      /\ \A i \in 1..m : s[i] = (w + (i - 1)) % Height
  BY StretchSeq
<1>2. /\ t \in Seq(0..Height-1) /\ Len(t) = n
      /\ \A i \in 1..n : t[i] = ((w + m) + (i - 1)) % Height
  BY <1>0, StretchSeq, Zenon
<1>3. /\ u \in Seq(0..Height-1) /\ Len(u) = m + n
      /\ \A i \in 1..m+n : u[i] = (w + (i - 1)) % Height
  BY <1>0, StretchSeq, Zenon
<1>4. ASSUME NEW i \in 1..m+n, i > m PROVE t[i - m] = u[i]
  <2>1. i - m \in 1..n /\ (w + m) + ((i - m) - 1) = w + (i - 1)
    BY <1>4
  <2> QED BY <1>2, <1>3, <2>1
<1>5. ASSUME NEW i \in 1..m+n, i <= m PROVE s[i] = u[i]
  BY <1>1, <1>3, <1>5
<1> HIDE DEF s, t, u
<1>6. /\ s \o t \in Seq(0..Height-1) /\ Len(s \o t) = m + n
      /\ \A i \in 1..m+n : (s \o t)[i] = IF i <= m THEN s[i] ELSE t[i - m]
  BY <1>1, <1>2, ConcatProperties
<1>7. ASSUME NEW i \in 1..m+n PROVE (s \o t)[i] = u[i]
  BY <1>4, <1>5, <1>6
<1>8. s \o t = u
  BY <1>3, <1>6, <1>7, SeqEqual
<1> QED BY <1>8 DEF s, t, u

-----------------------------------------------------------------------------
(* The queue of the ring is the stretch of the pattern behind the carpet.  *)

RowAtRead == IF mpc = "advance" THEN 1 ELSE 0

(* Where the queue is and how long.                                        *)
QueueIsStretch ==
    /\ RowsQueued \in Nat
    /\ RowsHeld = RowsQueued + RowAtRead
    /\ Len(carpet) = Wine_Now + RowAtRead
    /\ carpet = Stretch(Wine_Start, Len(carpet))
    /\ RingQueue = Stretch(Wine_Start + Len(carpet), RowsQueued)
    /\ RowsHeld > 0 \/ spc = "advance" => IntWine_File_Pos < Height
    /\ IntWine_File_Pos < Height
       => IntWine_File_Pos = (Wine_Start + Len(carpet) + RowsQueued) % Height

LEMMA EmptyQueue == ASSUME RowsQueued = 0, NEW b PROVE QueueFrom(b) = <<>>
<1>1. QueueFrom(b) = [i \in 1..0 |-> hm6264[(b + i - 1) % NBuf][0]]
  BY DEF QueueFrom
<1>2. QueueFrom(b) \in [1..0 -> Int]
  BY <1>1
<1>3. QueueFrom(b) \in Seq(Int) /\ Len(QueueFrom(b)) = 0
  BY <1>1, <1>2, SeqDef, LenProperties
<1> QED BY <1>3, EmptySeq

LEMMA EmptyQueueAfter == (RowsQueued = 0 => RingQueue = <<>>)'
<1>1. RowsQueued = 0 => RingQueue = <<>>
  BY EmptyQueue DEF RingQueue
<1> QED BY <1>1, PTL

LEMMA QueuedRow ==
    ASSUME TypeOK, ContentInv, CarpetInv, RowsHeld = RowsQueued + RowAtRead,
           RowsQueued \in Nat, NEW i \in 1..RowsQueued
    PROVE  RingQueue[i] = ((Wine_Start + Len(carpet)) + (i - 1)) % Height
<1> DEFINE k == (i - 1) + RowAtRead
           b == IF mpc = "advance" THEN NextSlot(Buffer_Read) ELSE Buffer_Read
<1>1. /\ NBuf \in Nat \ {0} /\ Buffer_Read \in 0..NBuf-1
      /\ Wine_Now \in Nat /\ Wine_Start \in Nat /\ RowAtRead \in {0, 1}
  BY RingTypes DEF RowAtRead
<1>2. k \in 0..RowsHeld-1 /\ i - 1 \in 0..NBuf-1
  BY <1>1, HeldRange
<1>3. hm6264[SlotAt(k)][0] = PatternRow(Wine_Now + k)
  BY <1>2 DEF ContentInv
<1>4. (Buffer_Read + k) % NBuf = SlotAt(k)
  BY <1>2, SlotIsRemainder
<1>5. (b + i - 1) % NBuf = SlotAt(k)
  <2>1. CASE mpc # "advance"
    <3>1. b + i - 1 = Buffer_Read + k
      BY <1>1, <2>1 DEF RowAtRead
    <3> QED BY <1>4, <3>1
  <2>2. CASE mpc = "advance"
    <3>1. b = IF Buffer_Read + 1 = NBuf THEN 0 ELSE Buffer_Read + 1
      BY <1>1, <2>2, SlotAfter DEF Slots
    <3>2. k = i /\ i \in 1..NBuf-1
      BY <1>1, <1>2, <2>2, HeldRange DEF RowAtRead
    <3>3. SlotAt(k) = IF b + i - 1 < NBuf THEN b + i - 1 ELSE b + i - 1 - NBuf
      BY <1>1, <3>1, <3>2 DEF SlotAt
    <3>4. b + i - 1 \in Nat
      BY <1>1, <3>1, <3>2
    <3>5. CASE b + i - 1 < NBuf
      BY <1>1, <3>3, <3>4, <3>5, Small
    <3>6. CASE ~(b + i - 1 < NBuf)
      <4>1. /\ b + i - 1 = NBuf * 1 + (b + i - 1 - NBuf)
            /\ b + i - 1 - NBuf \in 0..NBuf-1
        BY <1>1, <3>1, <3>2, <3>6
      <4>2. (b + i - 1) % NBuf = b + i - 1 - NBuf
        BY <1>1, <4>1, Unique
      <4> QED BY <3>3, <3>6, <4>2
    <3> QED BY <3>5, <3>6
  <2> QED BY <2>1, <2>2
<1>6. RingQueue[i] = hm6264[(b + i - 1) % NBuf][0]
  BY DEF RingQueue, QueueFrom
<1>7. Wine_Start + (Wine_Now + k) = (Wine_Start + Len(carpet)) + (i - 1)
  BY <1>1 DEF CarpetInv, RowAtRead
<1> QED BY <1>3, <1>5, <1>6, <1>7 DEF PatternRow

LEMMA QueueKnown ==
    ASSUME Colors = 1, ControlInv, RingInv, FilesLeft
    PROVE  QueueIsStretch
<1>1. /\ TypeOK /\ ContentInv /\ CarpetInv
      /\ mpc = "advance" => P_Line_Num = 1
  BY OneLine DEF RingInv
<1>2. /\ NBuf \in Nat \ {0} /\ Height \in Nat \ {0}
      /\ Wine_Now \in Nat /\ Wine_Start \in Nat
      /\ IntWine_File_Pos \in Nat /\ RowAtRead \in {0, 1}
      /\ RowsHeld \in Nat
  BY <1>1, RingTypes, HeldRange DEF RowAtRead
<1>3. mpc = "advance" => RowsHeld > 0
  BY <1>1, RingTypes DEF RowsHeld
<1>4. /\ RowsQueued \in Nat /\ RowsHeld = RowsQueued + RowAtRead
  BY <1>2, <1>3 DEF RowsQueued, RowAtRead
<1>5. Len(carpet) = Wine_Now + RowAtRead /\ Len(carpet) \in Nat
  BY <1>1, <1>2 DEF CarpetInv, RowAtRead
<1>6. carpet = Stretch(Wine_Start, Len(carpet))
  <2>1. carpet \in Seq(Int)
    BY <1>1 DEF TypeOK, DriverTypeOK
  <2>2. DOMAIN carpet = 1..Len(carpet)
        /\ carpet = [n \in 1..Len(carpet) |-> carpet[n]]
    BY <2>1, LenProperties
  <2>3. \A n \in 1..Len(carpet) : carpet[n] = (Wine_Start + (n - 1)) % Height
    BY <1>1 DEF CarpetInv, PatternRow
  <2> QED BY <2>2, <2>3 DEF Stretch
<1>7. RingQueue = Stretch(Wine_Start + Len(carpet), RowsQueued)
  <2>1. RingQueue = [i \in 1..RowsQueued |-> RingQueue[i]]
    BY DEF RingQueue, QueueFrom
  <2>2. \A i \in 1..RowsQueued :
            RingQueue[i] = ((Wine_Start + Len(carpet)) + (i - 1)) % Height
    BY <1>1, <1>4, QueuedRow
  <2> QED BY <2>1, <2>2 DEF Stretch
<1>8. RowsHeld > 0 \/ spc = "advance" => IntWine_File_Pos < Height
  BY <1>1 DEF ContentInv
<1>9. IntWine_File_Pos < Height
      => IntWine_File_Pos = (Wine_Start + Len(carpet) + RowsQueued) % Height
  <2>1. Wine_Start + (Wine_Now + RowsHeld)
            = Wine_Start + Len(carpet) + RowsQueued
    BY <1>2, <1>4, <1>5
  <2> QED BY <1>1, <2>1 DEF ContentInv, PatternRow
<1> QED BY <1>4, <1>5, <1>6, <1>7, <1>8, <1>9 DEF QueueIsStretch

LEMMA QueueKnownAfter ==
    ASSUME Colors = 1
    PROVE  (ControlInv /\ RingInv /\ FilesLeft => QueueIsStretch)'
<1>1. ControlInv /\ RingInv /\ FilesLeft => QueueIsStretch
  BY QueueKnown
<1> QED BY <1>1, PTL

-----------------------------------------------------------------------------
(* The steps that leave the ring alone leave the queue alone, and so does  *)
(* the open of f_preload, whether or not it succeeds.                      *)
LEMMA AsideIsStutter ==
    ASSUME RingUnchanged PROVE UNCHANGED Fifo!fifoVars
<1>1. /\ RowsHeld' = RowsHeld
      /\ UNCHANGED <<Buffer_Read, IntWine_File_Pos, hm6264, carpet>>
  BY HeldUnchanged DEF RingUnchanged, stayVars, driverVars
<1>2. (mpc' = "advance") = (mpc = "advance")
  BY DEF RingUnchanged
<1>3. RingQueue' = RingQueue
  BY <1>1, <1>2 DEF RingQueue, QueueFrom, RowsQueued, NextSlot
<1> QED BY <1>1, <1>3 DEF Fifo!fifoVars

LEMMA OpenIsStutter ==
    ASSUME PreloadOpen, UNCHANGED mainVars PROVE UNCHANGED Fifo!fifoVars
<1>1. /\ spc = "open" /\ spc' = "read"
      /\ UNCHANGED <<mpc, P_Line_Num, Buffer_Read, Buffer_Write, Buffer_Full,
                     IntWine_File_Pos, hm6264, carpet>>
  BY DEF PreloadOpen, SGoto, shmVars, stayVars, driverVars, mainVars
<1>2. RowsHeld' = RowsHeld
  BY <1>1 DEF RowsHeld
<1>3. RingQueue' = RingQueue
  BY <1>1, <1>2 DEF RingQueue, QueueFrom, RowsQueued, NextSlot
<1> QED BY <1>1, <1>3 DEF Fifo!fifoVars

(* A step that neither weaves nor fetches, however it marks the ring.      *)
LEMMA SameQueue ==
    ASSUME QueueIsStretch, QueueIsStretch',
           UNCHANGED <<Wine_Start, carpet, IntWine_File_Pos, RowsQueued>>
    PROVE  UNCHANGED Fifo!fifoVars
<1>1. RingQueue = Stretch(Wine_Start + Len(carpet), RowsQueued)
  BY DEF QueueIsStretch
<1>2. RingQueue' = Stretch(Wine_Start' + Len(carpet'), RowsQueued')
  BY DEF QueueIsStretch, Stretch
<1> QED BY <1>1, <1>2 DEF Fifo!fifoVars

(* The line is taken from the ring, and still has to be sent.              *)
LEMMA SendIsStutter ==
    ASSUME LockFile, Colors = 1, ControlInv, SendOneLine,
           UNCHANGED supportVars, QueueIsStretch, QueueIsStretch'
    PROVE  UNCHANGED Fifo!fifoVars
<1>1. /\ TypeOK /\ mpc = "send" /\ mpc' = "ioctl" /\ spc' = spc
      /\ NotEmpty /\ ~Buffer_Full' /\ P_Line_Num = 0 /\ P_Line_Num' = 1
      /\ UNCHANGED <<Buffer_Read, Buffer_Write, IntWine_File_Pos, Wine_Start,
                     carpet>>
  BY OneLine DEF SendOneLine, Goto, supportVars, fetchVars, FullAfterSend,
                 exVars, driverVars
<1>2. spc \notin PreloadSteps
  BY <1>1, Apart DEF LockedSteps
<1>3. RowsHeld' = RowsHeld
  BY <1>1, <1>2, RingTypes DEF RowsHeld, NotEmpty, PreloadSteps
<1>4. RowsQueued' = RowsQueued
  BY <1>1, <1>3 DEF RowsQueued
<1> QED BY <1>1, <1>4, SameQueue

(* ioctl 10 takes the first row of the queue.                              *)
LEMMA IoctlIsWeave ==
    ASSUME Colors = 1, ControlInv, RingInv, FilesLeft, Ioctl,
           UNCHANGED supportVars, QueueIsStretch, QueueIsStretch'
    PROVE  Fifo!Weave
<1>1. /\ TypeOK /\ mpc = "ioctl" /\ spc' = spc
      /\ P_Line_Num = 1 /\ P_Line_Num' = 1 /\ Color_Num = 1
      /\ carpet' = Append(carpet, Shifted(Buffer_Read, 0))
      /\ UNCHANGED <<Buffer_Read, Buffer_Write, Buffer_Full,
                     IntWine_File_Pos, Wine_Start, hm6264>>
  BY OneLine DEF Ioctl, LineSent, SendLine, supportVars, shmVars, stayVars,
                 exVars, WeavingSteps, LockedSteps
<1>2. mpc' = "advance"
  BY <1>1 DEF Ioctl, RowSent
<1>3. RowsHeld' = RowsHeld
  BY <1>1 DEF RowsHeld
<1>4. /\ Wine_Start \in Nat /\ Wine_Now \in Nat
      /\ carpet \in Seq(Int)
  BY <1>1, RingTypes DEF TypeOK, DriverTypeOK
<1> DEFINE w == Wine_Start + Len(carpet)
           n == RowsQueued'
<1>5. /\ n \in Nat /\ RowsQueued = n + 1 /\ w \in Nat
  BY <1>1, <1>2, <1>3, <1>4 DEF QueueIsStretch, RowAtRead, RowsQueued
<1>6. RingQueue = Stretch(w, n + 1)
  BY <1>5 DEF QueueIsStretch
<1>7. Len(carpet') = Len(carpet) + 1
  BY <1>1, <1>4
<1>8. RingQueue' = Stretch(w + 1, n)
  <2>1. RingQueue' = Stretch(Wine_Start' + Len(carpet'), n)
    BY DEF QueueIsStretch, Stretch
  <2>2. Wine_Start' + Len(carpet') = w + 1
    BY <1>1, <1>4, <1>7
  <2> QED BY <2>1, <2>2
<1>9. /\ RingQueue # <<>> /\ Head(RingQueue) = w % Height
      /\ Tail(RingQueue) = RingQueue'
  <2> HIDE DEF w, n
  <2> QED BY <1>5, <1>6, <1>8, StretchHead
<1>10. Shifted(Buffer_Read, 0) = w % Height
  <2>1. carpet' = Stretch(Wine_Start', Len(carpet'))
    BY DEF QueueIsStretch, Stretch
  <2>2. carpet'[Len(carpet) + 1] = (Wine_Start + Len(carpet)) % Height
    <3>1. Len(carpet) + 1 \in 1..Len(carpet) + 1 /\ Len(carpet) \in Nat
          /\ Wine_Start + ((Len(carpet) + 1) - 1) = Wine_Start + Len(carpet)
      BY <1>4
    <3>2. carpet' = Stretch(Wine_Start, Len(carpet) + 1)
      BY <1>1, <1>7, <2>1
    <3> QED BY <3>1, <3>2 DEF Stretch
  <2>3. carpet'[Len(carpet) + 1] = Shifted(Buffer_Read, 0)
    BY <1>1, <1>4
  <2> QED BY <2>2, <2>3
<1> QED BY <1>1, <1>9, <1>10 DEF Fifo!Weave

(* The row sent has left the queue already.                                *)
LEMMA AdvanceIsStutter ==
    ASSUME LockFile, Colors = 1, ControlInv, RingInv, Advance,
           UNCHANGED supportVars, QueueIsStretch, QueueIsStretch'
    PROVE  UNCHANGED Fifo!fifoVars
<1>1. /\ TypeOK /\ mpc = "advance" /\ mpc' = "pos_load" /\ spc' = spc
      /\ P_Line_Num = 1 /\ P_Line_Num' = 0
      /\ Buffer_Read' = NextSlot(Buffer_Read) /\ Wine_Now' = Wine_Now + 1
      /\ UNCHANGED <<Buffer_Write, Buffer_Full, IntWine_File_Pos, Wine_Start,
                     carpet>>
  BY OneLine DEF Advance, Goto, supportVars, fetchVars, driverVars
<1>2. spc \notin PreloadSteps
  BY <1>1, Apart DEF LockedSteps
<1>3. ~Buffer_Full
  BY <1>1 DEF RingInv, IndexInv
<1>4. Buffer_Read' = IF Buffer_Read + 1 = NBuf THEN 0 ELSE Buffer_Read + 1
  BY <1>1, RingTypes, SlotAfter DEF Slots
<1>5. RowsHeld' = RowsHeld - 1
  BY <1>1, <1>2, <1>3, <1>4, RingTypes DEF RowsHeld, PreloadSteps
<1>6. RowsQueued' = RowsQueued
  BY <1>1, <1>5, HeldRange DEF RowsQueued
<1> QED BY <1>1, <1>6, SameQueue

(* The row is in the SRAM, in a buffer that is not in use yet.             *)
LEMMA ReadIsStutter ==
    ASSUME LockFile, Colors = 1, ControlInv, RingInv, PreloadRead,
           UNCHANGED mainVars, QueueIsStretch, QueueIsStretch'
    PROVE  UNCHANGED Fifo!fifoVars
<1>1. /\ spc = "read" /\ spc' \in {"read", "advance"}
      /\ UNCHANGED <<Buffer_Read, Buffer_Write, Buffer_Full,
                     IntWine_File_Pos, Wine_Start, carpet>>
  BY DEF PreloadRead, shmVars, stayVars, exVars, Write6264
<1>2. mpc' = mpc /\ P_Line_Num' = P_Line_Num
  BY DEF mainVars
<1>3. RowsQueued' = RowsQueued
  BY <1>1, <1>2 DEF RowsQueued, RowsHeld
<1> QED BY <1>1, <1>3, SameQueue

(* Moving the write index puts the row in the queue.                       *)
LEMMA AdvanceIsFetch ==
    ASSUME LockFile, Colors = 1, ControlInv, RingInv, FilesLeft,
           PreloadAdvance, UNCHANGED mainVars,
           QueueIsStretch, QueueIsStretch'
    PROVE  Fifo!Fetch
<1>1. /\ spc = "advance"
      /\ Buffer_Write' = NextSlot(Buffer_Write)
      /\ spc' = IF Buffer_Write' = Buffer_Read THEN "full" ELSE "read"
      /\ UNCHANGED <<Buffer_Read, Buffer_Full, Wine_Start, carpet>>
  BY DEF PreloadAdvance, exVars, driverVars
<1>2. /\ TypeOK /\ mpc \notin LockedSteps
      /\ mpc' = mpc /\ P_Line_Num = 0 /\ P_Line_Num' = 0
      /\ ~Buffer_Full
  BY <1>1, Preloading DEF PreloadSteps
<1>3. RowsHeld < NBuf /\ RowsHeld \in Nat /\ RowsHeld' = RowsHeld + 1
  BY <1>1, <1>2, FreeSlot, HeldRange, OneMore
<1>4. /\ mpc # "advance" /\ mpc' # "advance"
      /\ RowsQueued = RowsHeld /\ RowsQueued' = RowsHeld + 1
  BY <1>2, <1>3 DEF LockedSteps, RowsQueued
<1> DEFINE w == Wine_Start + Len(carpet)
           n == RowsQueued
<1>5. w \in Nat /\ n \in Nat
  BY <1>2, <1>3, <1>4, RingTypes DEF QueueIsStretch, RowAtRead
<1>6. RingQueue = Stretch(w, n) /\ RingQueue' = Stretch(w, n + 1)
  <2>1. RingQueue' = Stretch(Wine_Start' + Len(carpet'), RowsQueued')
    BY DEF QueueIsStretch, Stretch
  <2> QED BY <1>1, <1>4, <2>1 DEF QueueIsStretch
<1>7. /\ IntWine_File_Pos < Height
      /\ IntWine_File_Pos = (w + n) % Height
  BY <1>1 DEF QueueIsStretch
<1>8. RingQueue' = Append(RingQueue, IntWine_File_Pos)
  <2> HIDE DEF w, n
  <2> QED BY <1>5, <1>6, <1>7, StretchAppend
<1>9. Len(RingQueue) < NBuf
  <2>1. Len(RingQueue) = n
    <3> HIDE DEF w, n
    <3> QED BY <1>5, <1>6, StretchSeq
  <2> QED BY <1>3, <1>4, <2>1
<1>10. IntWine_File_Pos' = (IntWine_File_Pos + 1) % Height
  BY <1>1 DEF RingInv, CursorInv, PreloadAdvance, NextFilePos
<1> QED BY <1>1, <1>7, <1>8, <1>9, <1>10 DEF Fifo!Fetch

(* The flag says what the program counter said before.                     *)
LEMMA FullIsStutter ==
    ASSUME LockFile, Colors = 1, ControlInv, RingInv, PreloadFull,
           UNCHANGED mainVars, QueueIsStretch, QueueIsStretch'
    PROVE  UNCHANGED Fifo!fifoVars
<1>1. /\ spc = "full" /\ spc' = "unlock" /\ Buffer_Full' = TRUE
      /\ UNCHANGED <<Buffer_Read, Buffer_Write, IntWine_File_Pos, Wine_Start,
                     carpet>>
  BY DEF PreloadFull, SGoto, exVars, driverVars
<1>2. mpc' = mpc /\ P_Line_Num' = P_Line_Num
  BY DEF mainVars
<1>3. Buffer_Read = Buffer_Write /\ TypeOK
  BY <1>1 DEF RingInv, IndexInv, ControlInv
<1>4. RowsQueued' = RowsQueued
  BY <1>1, <1>2, <1>3, RingTypes DEF RowsQueued, RowsHeld
<1> QED BY <1>1, <1>4, SameQueue

-----------------------------------------------------------------------------
(* The steps that begin: switching on, f_Read_Last, a power failure.       *)

LEMMA InitIsInit == ASSUME Init PROVE Fifo!FifoInit
<1>1. /\ carpet = <<>> /\ IntWine_File_Pos = 0 /\ mpc = "mk_load"
      /\ RowsHeld = 0
  BY DEF Init, DriverInit, ShmInit, MainInit, SupportInit, RowsHeld
<1>2. RowsQueued = 0
  BY <1>1 DEF RowsQueued
<1>3. RingQueue = <<>>
  BY <1>2, EmptyQueue DEF RingQueue
<1> QED BY <1>1, <1>3 DEF Fifo!FifoInit, Fifo!SwitchedOn

(* The start row is chosen while nothing is fetched or woven.              *)
LEMMA StartIsChooseStart ==
    ASSUME Colors = 1, ControlInv, RingInv, FilesLeft, ReadLastSave,
           UNCHANGED supportVars
    PROVE  Fifo!ChooseStart
<1>1. /\ TypeOK /\ mpc = "last_save" /\ mpc' = "spawn" /\ spc' = spc
      /\ P_Line_Num = 0 /\ P_Line_Num' = 0
      /\ UNCHANGED <<Buffer_Read, Buffer_Write, Buffer_Full, Wine_Now,
                     carpet>>
  BY OneLine DEF ReadLastSave, Goto, supportVars, fetchVars, driverVars
<1>2. /\ Wine_Now = 0 /\ Buffer_Read = Buffer_Write /\ ~Buffer_Full
      /\ spc = "off"
  BY <1>1 DEF RingInv, BootInv, BootSteps
<1>3. RowsQueued = 0 /\ RowsQueued' = 0
  BY <1>1, <1>2, RingTypes DEF RowsQueued, RowsHeld
<1>4. RingQueue = <<>> /\ RingQueue' = <<>>
  BY <1>3, EmptyQueue, EmptyQueueAfter DEF RingQueue
<1>5. carpet = <<>>
  <2>1. carpet \in Seq(Int) /\ Len(carpet) = 0
    BY <1>1, <1>2 DEF RingInv, CarpetInv, TypeOK, DriverTypeOK
  <2> QED BY <2>1, EmptySeq
<1>6. IntWine_File_Pos' \in Nat
  <2>1. iniLoaded["main"] \in Inis /\ IntWine_File_Pos \in Nat
    BY <1>1, RingTypes DEF TypeOK, IniTypeOK, Processes
  <2>2. StartOf(iniLoaded["main"]) \in Nat
    BY <2>1 DEF Inis, StartOf
  <2> QED BY <2>1, <2>2 DEF ReadLastSave
<1> QED BY <1>1, <1>4, <1>5, <1>6 DEF Fifo!ChooseStart, Fifo!SwitchedOn

LEMMA PowerOffIsRestart == ASSUME PowerOff PROVE Fifo!Restart
<1>1. /\ carpet' = <<>> /\ IntWine_File_Pos' = 0
      /\ mpc' = "mk_load" /\ spc' = "off" /\ P_Line_Num' = 0
      /\ Buffer_Read' = 0 /\ Buffer_Write' = 0 /\ Buffer_Full' = FALSE
  BY DEF PowerOff
<1>2. RowsQueued' = 0
  BY <1>1 DEF RowsQueued, RowsHeld
<1>3. RingQueue' = <<>>
  BY <1>2, EmptyQueueAfter
<1> QED BY <1>1, <1>3 DEF Fifo!Restart

-----------------------------------------------------------------------------
(* Every step. *)

LEMMA MainImplemented ==
    ASSUME LockFile, Colors = 1, ControlInv, RingInv, FilesLeft,
           QueueIsStretch, FilesLeft' => QueueIsStretch',
           MainStep \/ MainLockStep
    PROVE  Fifo!FifoNext \/ UNCHANGED Fifo!fifoVars
<1>1. UNCHANGED supportVars /\ (MainRuns \/ MainLock)
  BY DEF MainStep, MainLockStep, OthersThanMain
<1>2. QueueIsStretch'
  BY <1>1 DEF FilesLeft, supportVars, fetchVars
<1>3. CASE \/ MkShmLoad \/ MkShmOpen \/ MkShmSave
           \/ ReadLastLoad \/ ReadLastOpen
  BY <1>1, <1>3, BootAside, AsideIsStutter
<1>4. CASE ReadLastSave
  BY <1>1, <1>4, StartIsChooseStart DEF Fifo!FifoNext
<1>5. CASE MainDispatch \/ MainLock
  BY <1>1, <1>5, DispatchAside, AsideIsStutter
<1>6. CASE SendOneLine
  BY <1>1, <1>2, <1>6, SendIsStutter
<1>7. CASE Ioctl
  BY <1>1, <1>2, <1>7, IoctlIsWeave DEF Fifo!FifoNext
<1>8. CASE Advance
  BY <1>1, <1>2, <1>8, AdvanceIsStutter
<1>9. CASE \/ SendNothing \/ PosLoad \/ PosOpen \/ PosSave \/ MainUnlock
           \/ CountRows \/ DoneLoad \/ DoneOpen \/ DoneSave
  BY <1>1, <1>9, WeaveAside, AsideIsStutter
<1> QED BY <1>1, <1>3, <1>4, <1>5, <1>6, <1>7, <1>8, <1>9
        DEF MainRuns, MainBoot, MainWeave

LEMMA SupportImplemented ==
    ASSUME LockFile, Colors = 1, ControlInv, RingInv, FilesLeft,
           QueueIsStretch, FilesLeft' => QueueIsStretch',
           SupportStep \/ SupportLockStep \/ TimerStep
    PROVE  Fifo!FifoNext \/ UNCHANGED Fifo!fifoVars
<1>1. UNCHANGED mainVars /\ (SupportRuns \/ SupportLock \/ CheckFetch)
  BY DEF SupportStep, SupportLockStep, TimerStep, OthersThanSupport
<1>2. PreloadRead \/ PreloadAdvance \/ PreloadFull => QueueIsStretch'
  BY DEF FilesLeft, PreloadRead, PreloadAdvance, PreloadFull, fetchVars
<1>3. CASE \/ AttachLoad \/ AttachOpen \/ AttachSave
           \/ FirstInterval \/ NextInterval \/ Poll \/ PreloadEnd
           \/ SupportUnlock \/ SupportLock \/ CheckFetch
  BY <1>1, <1>3, SupportAside, AsideIsStutter
<1>4. CASE PreloadOpen
  BY <1>1, <1>4, OpenIsStutter
<1>5. CASE PreloadRead
  BY <1>1, <1>2, <1>5, ReadIsStutter
<1>6. CASE PreloadAdvance
  BY <1>1, <1>2, <1>6, AdvanceIsFetch DEF Fifo!FifoNext
<1>7. CASE PreloadFull
  BY <1>1, <1>2, <1>7, FullIsStutter
<1> QED BY <1>1, <1>3, <1>4, <1>5, <1>6, <1>7 DEF SupportRuns

LEMMA NextImplemented ==
    ASSUME LockFile, Colors = 1, ControlInv, RingInv, FilesLeft,
           QueueIsStretch, FilesLeft' => QueueIsStretch', [Next]_vars
    PROVE  Fifo!FifoNext \/ UNCHANGED Fifo!fifoVars
<1>1. CASE MainStep \/ MainLockStep
  BY <1>1, MainImplemented
<1>2. CASE SpawnStep
  BY <1>2, SpawnAside, AsideIsStutter DEF SpawnStep
<1>3. CASE SupportStep \/ SupportLockStep \/ TimerStep
  BY <1>3, SupportImplemented
<1>4. CASE QtStart \/ QtStep \/ GuiStep
  <2>1. (QtRun \/ QtProceeds \/ GuiCommand)
        /\ UNCHANGED <<mainVars, supportVars>>
    BY <1>4 DEF QtStart, QtStep, GuiStep, OthersThanQt
  <2> QED BY <2>1, OperatorAside, AsideIsStutter
<1>5. CASE PowerOff
  BY <1>5, PowerOffIsRestart DEF Fifo!FifoNext
<1>6. CASE UNCHANGED vars
  <2>1. RingUnchanged
    BY <1>6, NothingIsAside
  <2> QED BY <2>1, AsideIsStutter
<1> QED BY <1>1, <1>2, <1>3, <1>4, <1>5, <1>6 DEF Next

(* The two programs, the ring in the shared memory, the lock, the timer    *)
(* and the driver are together a bounded queue between the pattern file    *)
(* and the loom, while f_preload can open the file: a row enters at the    *)
(* move of the write index, and is woven once, in its turn, by ioctl 10.   *)
THEOREM ControllerIsQueue ==
    ASSUME LockFile, Colors = 1
    PROVE  Spec => FifoImplemented
<1>1. Init => Fifo!FifoInit
  BY InitIsInit
<1>2. ControlInv /\ RingInv /\ (ControlInv /\ RingInv)' /\ [Next]_vars
      => [FilesLeft => Fifo!FifoNext]_(Fifo!fifoVars)
  <2> SUFFICES ASSUME ControlInv, RingInv, (ControlInv /\ RingInv)',
                      [Next]_vars, FilesLeft
               PROVE  Fifo!FifoNext \/ UNCHANGED Fifo!fifoVars
    OBVIOUS
  <2>1. QueueIsStretch
    BY QueueKnown
  <2>2. FilesLeft' => QueueIsStretch'
    BY QueueKnownAfter
  <2> QED BY <2>1, <2>2, NextImplemented
<1> QED BY <1>1, <1>2, ControlInvariant, RingInvariant, PTL
        DEF Spec, FifoImplemented

-----------------------------------------------------------------------------
(* The order of the rows.  Besides the two stretches it needs that the     *)
(* position in the file stays in the file once a row was woven.            *)

LEMMA StartedFrame ==
    ASSUME StartedInv, UNCHANGED <<Wine_Now, IntWine_File_Pos>>,
           FilesLeft' => FilesLeft
    PROVE  StartedInv'
  BY DEF StartedInv

LEMMA AsideKeepsStarted ==
    ASSUME StartedInv, RingUnchanged PROVE StartedInv'
<1>1. UNCHANGED <<Wine_Now, IntWine_File_Pos, flw_fds>>
  BY DEF RingUnchanged, stayVars, fetchVars
<1> QED BY <1>1, StartedFrame DEF FilesLeft

LEMMA MainKeepsStarted ==
    ASSUME Colors = 1, ControlInv, RingInv, StartedInv,
           MainStep \/ MainLockStep
    PROVE  StartedInv'
<1>1. /\ UNCHANGED supportVars /\ (MainRuns \/ MainLock)
      /\ FilesLeft' = FilesLeft
  BY DEF MainStep, MainLockStep, OthersThanMain, supportVars, fetchVars,
         FilesLeft
<1>2. CASE \/ MkShmLoad \/ MkShmOpen \/ MkShmSave
           \/ ReadLastLoad \/ ReadLastOpen
  BY <1>1, <1>2, BootAside, AsideKeepsStarted
<1>3. CASE ReadLastSave
  <2>1. Wine_Now' = 0
    BY <1>3 DEF ReadLastSave, Goto, BootSteps, RingInv, BootInv
  <2> QED BY <2>1 DEF StartedInv
<1>4. CASE MainDispatch \/ MainLock
  BY <1>1, <1>4, DispatchAside, AsideKeepsStarted
<1>5. CASE SendOneLine \/ Ioctl
  BY <1>1, <1>5, StartedFrame
     DEF SendOneLine, Ioctl, shmVars, stayVars, exVars
<1>6. CASE Advance
  <2>1. mpc = "advance" /\ P_Line_Num = 1 /\ TypeOK
        /\ IntWine_File_Pos' = IntWine_File_Pos
    BY <1>6, OneLine DEF Advance, Goto
  <2>2. RowsHeld > 0
    BY <2>1, RingTypes DEF RowsHeld
  <2>3. FilesLeft => IntWine_File_Pos < Height
    BY <2>2 DEF RingInv, ContentInv
  <2> QED BY <1>1, <2>1, <2>3 DEF StartedInv
<1>7. CASE \/ SendNothing \/ PosLoad \/ PosOpen \/ PosSave \/ MainUnlock
           \/ CountRows \/ DoneLoad \/ DoneOpen \/ DoneSave
  BY <1>1, <1>7, WeaveAside, AsideKeepsStarted
<1> QED BY <1>1, <1>2, <1>3, <1>4, <1>5, <1>6, <1>7
        DEF MainRuns, MainBoot, MainWeave

LEMMA SupportKeepsStarted ==
    ASSUME ControlInv, RingInv, StartedInv,
           SupportStep \/ SupportLockStep \/ TimerStep
    PROVE  StartedInv'
<1>1. UNCHANGED mainVars /\ (SupportRuns \/ SupportLock \/ CheckFetch)
  BY DEF SupportStep, SupportLockStep, TimerStep, OthersThanSupport
<1>2. CASE \/ AttachLoad \/ AttachOpen \/ AttachSave
           \/ FirstInterval \/ NextInterval \/ Poll \/ PreloadEnd
           \/ SupportUnlock \/ SupportLock \/ CheckFetch
  BY <1>1, <1>2, SupportAside, AsideKeepsStarted
<1>3. CASE PreloadOpen
  <2>1. flw_fds \in 0..OpenLimit /\ OpenLimit \in Nat
    BY SupportAssumption DEF ControlInv, TypeOK, SupportTypeOK
  <2>2. FilesLeft' => FilesLeft
    BY <1>3, <2>1 DEF PreloadOpen, FilesLeft
  <2> QED BY <1>3, <2>2, StartedFrame
          DEF PreloadOpen, shmVars, stayVars, exVars
<1>4. CASE PreloadRead \/ PreloadFull
  BY <1>4, StartedFrame
     DEF PreloadRead, PreloadFull, FilesLeft, fetchVars, shmVars, stayVars,
         exVars
<1>5. CASE PreloadAdvance
  <2>1. IntWine_File_Pos \in Nat /\ Height \in Nat \ {0}
    BY RingTypes DEF ControlInv
  <2>2. IntWine_File_Pos' \in 0..Height-1
    BY <1>5, <2>1 DEF PreloadAdvance, NextFilePos
  <2> QED BY <2>1, <2>2 DEF StartedInv
<1> QED BY <1>1, <1>2, <1>3, <1>4, <1>5 DEF SupportRuns

LEMMA NextKeepsStarted ==
    ASSUME Colors = 1, ControlInv, RingInv, StartedInv, [Next]_vars
    PROVE  StartedInv'
<1>1. CASE MainStep \/ MainLockStep
  BY <1>1, MainKeepsStarted
<1>2. CASE SpawnStep
  BY <1>2, SpawnAside, AsideKeepsStarted DEF SpawnStep
<1>3. CASE SupportStep \/ SupportLockStep \/ TimerStep
  BY <1>3, SupportKeepsStarted
<1>4. CASE QtStart \/ QtStep \/ GuiStep
  <2>1. (QtRun \/ QtProceeds \/ GuiCommand)
        /\ UNCHANGED <<mainVars, supportVars>>
    BY <1>4 DEF QtStart, QtStep, GuiStep, OthersThanQt
  <2> QED BY <2>1, OperatorAside, AsideKeepsStarted
<1>5. CASE PowerOff
  BY <1>5 DEF PowerOff, StartedInv
<1>6. CASE UNCHANGED vars
  BY <1>6, NothingIsAside, AsideKeepsStarted
<1> QED BY <1>1, <1>2, <1>3, <1>4, <1>5, <1>6 DEF Next

(* With the lock file and rows of one line, the position stays in the file *)
(* from the first row woven on, while f_preload can open the file.         *)
THEOREM StartedInvariant ==
    ASSUME LockFile, Colors = 1
    PROVE  Spec => []StartedInv
<1>1. Init => StartedInv
  BY DEF Init, ShmInit, StartedInv
<1>2. ControlInv /\ RingInv /\ StartedInv /\ [Next]_vars => StartedInv'
  BY NextKeepsStarted
<1> QED BY <1>1, <1>2, ControlInvariant, RingInvariant, PTL DEF Spec

(* A stretch is consecutive. *)
LEMMA StretchFollows ==
    ASSUME NEW w \in Nat, NEW n \in Nat, NEW i \in 1..n
    PROVE  (w + i) % Height = (Stretch(w, n)[i] + 1) % Height
<1>1. /\ w + (i - 1) \in Nat /\ (w + (i - 1)) + 1 = w + i
      /\ Height \in Nat \ {0}
  BY SupportAssumption
<1>2. Stretch(w, n)[i] = (w + (i - 1)) % Height
  BY DEF Stretch
<1>3. ((w + (i - 1)) + 1) % Height = (((w + (i - 1)) % Height) + 1) % Height
  BY <1>1, ModNext
<1> QED BY <1>1, <1>2, <1>3

(* The rows that left for the loom and those that wait for it are          *)
(* consecutive rows of the pattern, and the row at IntWine_File_Pos is the *)
(* one after them: nothing is lost or doubled between the pattern file and *)
(* the loom, wherever the two programs are.                                *)
THEOREM NoRowLost ==
    ASSUME LockFile, Colors = 1
    PROVE  Spec => []RowsConsecutive
<1>1. ControlInv /\ RingInv /\ StartedInv => RowsConsecutive
  <2> SUFFICES ASSUME ControlInv, RingInv, StartedInv, FilesLeft
               PROVE  Fifo!Consecutive
    BY DEF RowsConsecutive
  <2>1. QueueIsStretch
    BY QueueKnown
  <2>2. /\ Wine_Start \in Nat /\ Wine_Now \in Nat
        /\ RowsQueued \in Nat /\ RowAtRead \in {0, 1}
        /\ IntWine_File_Pos \in Nat /\ Height \in Nat
    BY <2>1, RingTypes DEF ControlInv, QueueIsStretch, RowAtRead
  <2> DEFINE w == Wine_Start
             m == Len(carpet)
             n == RowsQueued
             rows == carpet \o RingQueue
  <2>3. m \in Nat /\ w \in Nat /\ n \in Nat /\ m + n \in Nat
    BY <2>1, <2>2 DEF QueueIsStretch
  <2>4. rows = Stretch(w, m + n)
    <3>1. carpet = Stretch(w, m) /\ RingQueue = Stretch(w + m, n)
      BY <2>1 DEF QueueIsStretch
    <3> HIDE DEF w, m, n
    <3> QED BY <2>3, <3>1, StretchConcat
  <2>5. m + n > 0 => IntWine_File_Pos = (w + (m + n)) % Height
    <3>1. m + n > 0 => IntWine_File_Pos < Height
      <4>1. CASE RowsHeld > 0
        BY <2>1, <4>1 DEF QueueIsStretch
      <4>2. CASE Wine_Now > 0
        BY <4>2 DEF StartedInv
      <4>3. CASE ~(RowsHeld > 0) /\ ~(Wine_Now > 0)
        BY <2>1, <2>2, <4>3 DEF QueueIsStretch
      <4> QED BY <4>1, <4>2, <4>3
    <3>2. Wine_Start + Len(carpet) + RowsQueued = w + (m + n)
      BY <2>3
    <3> QED BY <2>1, <3>1, <3>2 DEF QueueIsStretch
  <2> HIDE DEF w, m, n
  <2>6. /\ Len(rows) = m + n
        /\ \A i \in 1..m+n : rows[i] = (w + (i - 1)) % Height
        /\ \A i \in 1..m+n : (w + i) % Height = (rows[i] + 1) % Height
    <3> HIDE DEF rows
    <3>1. Len(rows) = m + n
      BY <2>3, <2>4, StretchSeq, Zenon
    <3>2. ASSUME NEW i \in 1..m+n PROVE rows[i] = (w + (i - 1)) % Height
      BY <2>3, <2>4, StretchSeq, Zenon
    <3>3. ASSUME NEW i \in 1..m+n
          PROVE  (w + i) % Height = (rows[i] + 1) % Height
      BY <2>3, <2>4, StretchFollows, Zenon
    <3> QED BY <3>1, <3>2, <3>3
  <2>7. ASSUME NEW i \in 1..Len(rows)-1
        PROVE  rows[i + 1] = (rows[i] + 1) % Height
    <3>1. i \in 1..m+n /\ i + 1 \in 1..m+n /\ w + ((i + 1) - 1) = w + i
      BY <2>3, <2>6, <2>7
    <3> QED BY <2>6, <3>1
  <2>8. ASSUME rows # <<>>
        PROVE  IntWine_File_Pos = (rows[Len(rows)] + 1) % Height
    <3>1. m + n > 0
      <4>1. CASE m + n = 0
        BY <2>3, <2>4, <2>8, <4>1, StretchEmpty
      <4> QED BY <2>3, <4>1
    <3>2. m + n \in 1..m+n
      BY <2>3, <3>1
    <3> QED BY <2>5, <2>6, <3>1, <3>2
  <2> QED BY <2>7, <2>8 DEF Fifo!Consecutive, Fifo!Follows
<1> QED BY <1>1, ControlInvariant, RingInvariant, StartedInvariant, PTL

=============================================================================
