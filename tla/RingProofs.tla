----------------------------- MODULE RingProofs -----------------------------
(***************************************************************************)
(* Proofs about the ring, for a directory with the lock file and rows of   *)
(* one line: RingInv is an invariant, and with it the order of the carpet, *)
(* the contents of the ring, and that no row is overwritten.  The numbers  *)
(* of buffers and of rows are arbitrary.                                   *)
(***************************************************************************)
EXTENDS WeaveProofs

-----------------------------------------------------------------------------
(* Remainders. *)

LEMMA Small ==
    ASSUME NEW N \in Nat \ {0}, NEW x \in Nat, x < N
    PROVE  x % N = x
  BY SMT

LEMMA ModNext ==
    ASSUME NEW N \in Nat \ {0}, NEW b \in Nat
    PROVE  (b + 1) % N = ((b % N) + 1) % N
<1> DEFINE q == b \div N
           r == b % N
<1>1. b = N * q + r /\ r \in 0..N-1 /\ q \in Int
  BY SMT
<1> HIDE DEF q, r
<1>2. CASE r + 1 < N
  <2>1. b + 1 = N * q + (r + 1) /\ r + 1 \in 0..N-1
    BY <1>1, <1>2
  <2>2. (b + 1) % N = r + 1
    BY <2>1, <1>1, Unique
  <2>3. (r + 1) % N = r + 1
    BY <2>1
  <2> QED BY <2>2, <2>3 DEF r
<1>3. CASE r + 1 = N
  <2>1. b + 1 = N * (q + 1) + 0
    BY <1>1, <1>3
  <2>2. (b + 1) % N = 0
    BY <2>1, <1>1, Unique
  <2>3. (r + 1) % N = 0
    BY <1>3
  <2> QED BY <2>2, <2>3 DEF r
<1> QED BY <1>1, <1>2, <1>3

LEMMA PlusZero == ASSUME NEW x \in Nat PROVE x + (0 + 0) = x
  OBVIOUS

LEMMA SlotAfter ==
    ASSUME NEW b \in Slots
    PROVE  NextSlot(b) = IF b + 1 = NBuf THEN 0 ELSE b + 1
  BY RingAssumption DEF NextSlot, Slots

LEMMA RowAfter ==
    ASSUME NEW n \in Nat, Wine_Start \in Nat
    PROVE  /\ PatternRow(n) \in 0..Height-1
           /\ NextFilePos(PatternRow(n)) = PatternRow(n + 1)
<1> DEFINE b == Wine_Start + n
<1>1. Height \in Nat \ {0} /\ b \in Nat /\ Wine_Start + (n + 1) = b + 1
  BY SupportAssumption
<1>2. PatternRow(n) = b % Height /\ PatternRow(n + 1) = (b + 1) % Height
  BY <1>1 DEF PatternRow
<1> HIDE DEF b
<1>3. b % Height \in 0..Height-1
  BY <1>1
<1>4. (b + 1) % Height = ((b % Height) + 1) % Height
  BY <1>1, ModNext
<1> QED BY <1>2, <1>3, <1>4 DEF NextFilePos

-----------------------------------------------------------------------------
(* The occupancy of the ring. *)

LEMMA RingTypes ==
    ASSUME TypeOK
    PROVE  /\ NBuf \in Nat \ {0} /\ Height \in Nat \ {0}
           /\ Buffer_Read \in 0..NBuf-1 /\ Buffer_Write \in 0..NBuf-1
           /\ Buffer_Full \in BOOLEAN
           /\ Wine_Now \in Nat /\ Wine_Start \in Nat
           /\ IntWine_File_Pos \in Nat
           /\ P_Line_Num \in Nat
  BY RingAssumption, SupportAssumption
     DEF TypeOK, ShmTypeOK, MainTypeOK, Slots

LEMMA HeldRange == ASSUME TypeOK PROVE RowsHeld \in 0..NBuf
  BY RingTypes DEF RowsHeld

LEMMA HeldSlots ==
    ASSUME TypeOK, NEW i \in 0..RowsHeld-1
    PROVE  SlotAt(i) \in Slots
  BY RingTypes, HeldRange DEF SlotAt, Slots

(* While f_preload fills the ring there is a free buffer at the write      *)
(* index, past the rows held.                                              *)
LEMMA FreeSlot ==
    ASSUME TypeOK, ~Buffer_Full, spc # "full", P_Line_Num = 0
    PROVE  /\ RowsHeld < NBuf
           /\ SlotAt(RowsHeld) = Buffer_Write
           /\ \A i \in 0..RowsHeld-1 : SlotAt(i) # Buffer_Write
  BY RingTypes DEF RowsHeld, SlotAt

-----------------------------------------------------------------------------
(* What the control invariant says when a row is one line. *)

LEMMA OneLine ==
    ASSUME Colors = 1, ControlInv
    PROVE  /\ TypeOK
           /\ mpc \in {"ioctl", "advance"} => P_Line_Num = 1
           /\ mpc \notin {"ioctl", "advance"} => P_Line_Num = 0
           /\ mpc \in WeavingSteps => Color_Num = 1
           /\ spc \in FetchSteps => Color_Num = 1
<1>1. LineInv /\ JobInv /\ TypeOK
  BY DEF ControlInv
<1>2. mpc \in {"ioctl", "advance"} => P_Line_Num = 1
  BY <1>1 DEF LineInv
<1>3. mpc \notin {"ioctl", "advance"} => P_Line_Num = 0
  BY <1>1 DEF LineInv
<1>4. mpc \in WeavingSteps => Color_Num = 1
  BY <1>1 DEF JobInv
<1>5. spc \in FetchSteps => Color_Num = 1
  BY <1>1 DEF JobInv
<1> QED BY <1>1, <1>2, <1>3, <1>4, <1>5

LEMMA Apart ==
    ASSUME LockFile, ControlInv
    PROVE  /\ mpc \in LockedSteps => spc \notin PreloadSteps
           /\ spc \in PreloadSteps => mpc \notin LockedSteps
  BY DEF ControlInv, LockInv, MainInLock, SupportInLock

-----------------------------------------------------------------------------
(* Most steps leave the ring alone: they change none of its variables, and *)
(* go neither to nor from a place in the programs that RingInv tells apart *)
(* from the others.                                                        *)
RingUnchanged ==
    /\ UNCHANGED <<stayVars, Wine_Start, Wine_Now, P_Line_Num, driverVars,
                   fetchVars>>
    /\ mpc' # mpc => {mpc, mpc'} \cap {"ioctl", "advance"} = {}
    /\ spc' # spc => /\ {spc, spc'} \cap {"advance", "full"} = {}
                     /\ spc' # "read"
    /\ mpc' \in BootSteps => mpc \in BootSteps /\ spc' = spc

LEMMA HeldUnchanged == ASSUME RingUnchanged PROVE RowsHeld' = RowsHeld
  BY DEF RingUnchanged, stayVars, RowsHeld

LEMMA RingFrame == ASSUME RingInv, RingUnchanged PROVE RingInv'
<1>1. IndexInv'
  BY DEF RingInv, RingUnchanged, IndexInv, stayVars
<1>2. BootInv'
  BY DEF RingInv, RingUnchanged, BootInv, stayVars
<1>3. ASSUME FilesLeft' PROVE CursorInv' /\ ContentInv' /\ CarpetInv'
  <2>1. CursorInv /\ ContentInv /\ CarpetInv
    BY <1>3 DEF RingInv, FilesLeft, RingUnchanged, fetchVars
  <2>2. CursorInv'
    BY <2>1 DEF CursorInv, RingUnchanged, stayVars, fetchVars, driverVars
  <2>3. ContentInv'
    BY <2>1, HeldUnchanged
       DEF ContentInv, RingUnchanged, stayVars, driverVars, SlotAt, PatternRow
  <2>4. CarpetInv'
    BY <2>1 DEF CarpetInv, RingUnchanged, stayVars, driverVars, PatternRow
  <2> QED BY <2>2, <2>3, <2>4
<1> QED BY <1>1, <1>2, <1>3 DEF RingInv

-----------------------------------------------------------------------------
(* The steps that leave the ring alone. *)

LEMMA BootAside ==
    ASSUME ControlInv, UNCHANGED supportVars,
           \/ MkShmLoad \/ MkShmOpen \/ MkShmSave
           \/ ReadLastLoad \/ ReadLastOpen
    PROVE  RingUnchanged
  BY DEF MkShmLoad, MkShmOpen, MkShmSave, ReadLastLoad, ReadLastOpen, Goto,
         RingUnchanged, shmVars, supportVars, stayVars, exVars, fetchVars,
         BootSteps

LEMMA DispatchAside ==
    ASSUME ControlInv, UNCHANGED supportVars, MainDispatch \/ MainLock
    PROVE  RingUnchanged
<1> USE DEF Goto, RingUnchanged, shmVars, supportVars, stayVars, exVars,
            fetchVars, BootSteps
<1>1. CASE RunReady \/ RunStay \/ RunRePair \/ RunIntWine
  BY <1>1 DEF RunReady, RunStay, RunRePair, RunIntWine, ReadCommand
<1>2. CASE RunReadyClear \/ RunStayClear \/ MainLock
  BY <1>2 DEF RunReadyClear, RunStayClear, MainLock
<1> QED BY <1>1, <1>2 DEF MainDispatch

LEMMA WeaveAside ==
    ASSUME ControlInv, UNCHANGED supportVars,
           \/ SendNothing \/ PosLoad \/ PosOpen \/ PosSave \/ MainUnlock
           \/ CountRows \/ DoneLoad \/ DoneOpen \/ DoneSave
    PROVE  RingUnchanged
<1> USE DEF Goto, RingUnchanged, shmVars, supportVars, stayVars, exVars,
            fetchVars, BootSteps
<1>1. CASE SendNothing \/ PosLoad \/ PosOpen \/ PosSave \/ MainUnlock
  BY <1>1 DEF SendNothing, PosLoad, PosOpen, PosSave, MainUnlock
<1>2. CASE CountRows \/ DoneLoad \/ DoneOpen \/ DoneSave
  BY <1>2 DEF CountRows, DoneLoad, DoneOpen, DoneSave
<1> QED BY <1>1, <1>2

LEMMA SupportAside ==
    ASSUME RingInv, UNCHANGED mainVars,
           \/ AttachLoad \/ AttachOpen \/ AttachSave
           \/ FirstInterval \/ NextInterval \/ Poll \/ PreloadEnd
           \/ SupportUnlock \/ SupportLock \/ CheckFetch
    PROVE  RingUnchanged
<1> USE DEF SGoto, RingUnchanged, shmVars, mainVars, stayVars, exVars,
            fetchVars, BootInv, RingInv
<1>1. CASE AttachLoad \/ AttachOpen \/ AttachSave
  BY <1>1 DEF AttachLoad, AttachOpen, AttachSave
<1>2. CASE FirstInterval \/ NextInterval \/ Poll
  BY <1>2 DEF FirstInterval, NextInterval, Poll
<1>3. CASE PreloadEnd \/ SupportUnlock \/ SupportLock \/ CheckFetch
  BY <1>3 DEF PreloadEnd, SupportUnlock, SupportLock, CheckFetch
<1> QED BY <1>1, <1>2, <1>3

LEMMA SpawnAside == ASSUME Spawn PROVE RingUnchanged
  BY DEF Spawn, Goto, SGoto, RingUnchanged, shmVars, stayVars, exVars,
         fetchVars, BootSteps

LEMMA OperatorAside ==
    ASSUME QtRun \/ QtProceeds \/ GuiCommand, UNCHANGED <<mainVars, supportVars>>
    PROVE  RingUnchanged
<1> USE DEF QGoto, RingUnchanged, shmVars, mainVars, supportVars, stayVars,
            exVars, fetchVars
<1>1. CASE QtRun \/ GuiCommand
  BY <1>1 DEF QtRun, GuiCommand
<1>2. CASE InitTestLoad \/ InitTestOpen \/ InitTestSave
  BY <1>2 DEF InitTestLoad, InitTestOpen, InitTestSave
<1>3. CASE CommandCount \/ CommandStart
  BY <1>3 DEF CommandCount, CommandStart
<1> QED BY <1>1, <1>2, <1>3 DEF QtProceeds

-----------------------------------------------------------------------------
(* f_Send_One_Line. *)

(* The flag is cleared, and the row at the read index is still held.       *)
LEMMA SendKeepsRing ==
    ASSUME LockFile, Colors = 1, ControlInv, RingInv, SendOneLine,
           UNCHANGED supportVars
    PROVE  RingInv'
<1>1. /\ TypeOK /\ mpc = "send" /\ mpc' = "ioctl" /\ spc' = spc
      /\ NotEmpty /\ ~Buffer_Full' /\ P_Line_Num = 0 /\ P_Line_Num' = 1
      /\ UNCHANGED <<Buffer_Read, Buffer_Write, IntWine_File_Pos, exVars,
                     driverVars, fetchVars>>
  BY OneLine DEF SendOneLine, Goto, supportVars, fetchVars, FullAfterSend
<1>2. spc \notin PreloadSteps
  BY <1>1, Apart DEF LockedSteps
<1>3. RowsHeld' = RowsHeld
  BY <1>1, <1>2, RingTypes DEF RowsHeld, NotEmpty, PreloadSteps
<1>4. IndexInv' /\ BootInv'
  BY <1>1, <1>2 DEF RingInv, IndexInv, BootInv, BootSteps, PreloadSteps
<1>5. ASSUME FilesLeft' PROVE CursorInv' /\ ContentInv' /\ CarpetInv'
  <2>1. CursorInv /\ ContentInv /\ CarpetInv
    BY <1>1, <1>5 DEF RingInv, FilesLeft, fetchVars
  <2>2. CursorInv'
    BY <1>1, <1>2 DEF CursorInv, PreloadSteps
  <2>3. ContentInv'
    BY <1>1, <1>3, <2>1
       DEF ContentInv, exVars, driverVars, SlotAt, PatternRow
  <2>4. CarpetInv'
    BY <1>1, <2>1 DEF CarpetInv, exVars, driverVars, PatternRow
  <2> QED BY <2>2, <2>3, <2>4
<1> QED BY <1>4, <1>5 DEF RingInv

(* The line sent is the next row of the pattern.                           *)
LEMMA IoctlKeepsRing ==
    ASSUME LockFile, Colors = 1, ControlInv, RingInv, Ioctl,
           UNCHANGED supportVars
    PROVE  RingInv'
<1>1. /\ TypeOK /\ mpc = "ioctl" /\ spc' = spc
      /\ P_Line_Num = 1 /\ P_Line_Num' = 1 /\ Color_Num = 1
      /\ carpet' = Append(carpet, Shifted(Buffer_Read, 0))
      /\ UNCHANGED <<stayVars, exVars, hm6264, data_length, fetchVars>>
  BY OneLine DEF Ioctl, LineSent, SendLine, supportVars, fetchVars, shmVars,
                 WeavingSteps, LockedSteps
<1>2. mpc' = "advance"
  BY <1>1 DEF Ioctl, RowSent
<1>3. spc \notin PreloadSteps
  BY <1>1, Apart DEF LockedSteps
<1>4. RowsHeld' = RowsHeld /\ RowsHeld > 0 /\ RowsHeld \in Nat
  BY <1>1, RingTypes DEF RowsHeld, stayVars
<1>5. IndexInv' /\ BootInv'
  BY <1>1, <1>2, <1>3
     DEF RingInv, IndexInv, BootInv, BootSteps, PreloadSteps, stayVars
<1>6. ASSUME FilesLeft' PROVE CursorInv' /\ ContentInv' /\ CarpetInv'
  <2>1. CursorInv /\ ContentInv /\ CarpetInv
    BY <1>1, <1>6 DEF RingInv, FilesLeft, fetchVars
  <2>2. CursorInv'
    BY <1>1, <1>3 DEF CursorInv, PreloadSteps
  <2>3. ContentInv'
    BY <1>1, <1>4, <2>1
       DEF ContentInv, exVars, stayVars, SlotAt, PatternRow
  <2>4. Shifted(Buffer_Read, 0) = PatternRow(Wine_Now)
    <3>1. SlotAt(0) = Buffer_Read /\ Wine_Now + 0 = Wine_Now
      BY <1>1, RingTypes DEF SlotAt
    <3>2. hm6264[SlotAt(0)][0] = PatternRow(Wine_Now + 0)
      BY <1>4, <2>1 DEF ContentInv
    <3>3. data_length = Width
      BY <1>4, <2>1 DEF ContentInv
    <3> QED BY <3>1, <3>2, <3>3 DEF Shifted
  <2>5. /\ carpet \in Seq(Int) /\ Len(carpet) = Wine_Now
        /\ \A n \in 1..Len(carpet) : carpet[n] = PatternRow(n - 1)
    <3>1. carpet \in Seq(Int) /\ Wine_Now \in Nat
      BY <1>1, RingTypes DEF TypeOK, DriverTypeOK
    <3>2. Len(carpet) = Wine_Now + 0
      BY <1>1, <2>1 DEF CarpetInv
    <3> QED BY <3>1, <3>2, <2>1 DEF CarpetInv
  <2>6. /\ Len(carpet') = Wine_Now + 1 /\ Wine_Now \in Nat
        /\ \A n \in 1..Wine_Now : carpet'[n] = carpet[n]
        /\ carpet'[Wine_Now + 1] = PatternRow(Wine_Now)
    BY <1>1, <2>4, <2>5, RingTypes
  <2>7. \A n \in 1..Wine_Now + 1 : carpet'[n] = PatternRow(n - 1)
    <3> SUFFICES ASSUME NEW n \in 1..Wine_Now + 1
                 PROVE  carpet'[n] = PatternRow(n - 1)
      OBVIOUS
    <3>1. CASE n \in 1..Wine_Now
      BY <3>1, <2>5, <2>6
    <3>2. CASE n = Wine_Now + 1
      BY <3>2, <2>6
    <3> QED BY <3>1, <3>2, <2>6
  <2>8. CarpetInv'
    BY <1>1, <1>2, <2>6, <2>7 DEF CarpetInv, exVars, PatternRow
  <2> QED BY <2>2, <2>3, <2>8
<1> QED BY <1>5, <1>6 DEF RingInv

(* The row sent leaves the ring; the others move one place forward.        *)
LEMMA AdvanceKeepsRing ==
    ASSUME LockFile, Colors = 1, ControlInv, RingInv, Advance,
           UNCHANGED supportVars
    PROVE  RingInv'
<1>1. /\ TypeOK /\ mpc = "advance" /\ mpc' = "pos_load" /\ spc' = spc
      /\ P_Line_Num = 1 /\ P_Line_Num' = 0
      /\ Buffer_Read' = NextSlot(Buffer_Read) /\ Wine_Now' = Wine_Now + 1
      /\ UNCHANGED <<Buffer_Write, Buffer_Full, IntWine_File_Pos, Wine_Start,
                     driverVars, fetchVars>>
  BY OneLine DEF Advance, Goto, supportVars, fetchVars
<1>2. spc \notin PreloadSteps
  BY <1>1, Apart DEF LockedSteps
<1>3. ~Buffer_Full
  BY <1>1 DEF RingInv, IndexInv
<1>4. Buffer_Read' = IF Buffer_Read + 1 = NBuf THEN 0 ELSE Buffer_Read + 1
  BY <1>1, RingTypes, SlotAfter DEF Slots
<1>5. RowsHeld' = RowsHeld - 1 /\ RowsHeld > 0 /\ RowsHeld \in Nat
  BY <1>1, <1>2, <1>3, <1>4, RingTypes DEF RowsHeld, PreloadSteps
<1>6. IndexInv' /\ BootInv'
  BY <1>1, <1>2, <1>3 DEF IndexInv, BootInv, BootSteps, PreloadSteps
<1>7. ASSUME FilesLeft' PROVE CursorInv' /\ ContentInv' /\ CarpetInv'
  <2>1. CursorInv /\ ContentInv /\ CarpetInv
    BY <1>1, <1>7 DEF RingInv, FilesLeft, fetchVars
  <2>2. CursorInv'
    BY <1>1, <1>2 DEF CursorInv, PreloadSteps
  <2>3. \A j \in 0..RowsHeld'-1 :
            hm6264'[SlotAt(j)'][0] = PatternRow(Wine_Now + j)'
    <3> SUFFICES ASSUME NEW j \in 0..RowsHeld'-1
                 PROVE  hm6264'[SlotAt(j)'][0] = PatternRow(Wine_Now + j)'
      OBVIOUS
    <3>1. j + 1 \in 0..RowsHeld-1 /\ j \in 0..NBuf-1
      BY <1>1, <1>5, HeldRange, RingTypes
    <3>2. SlotAt(j)' = SlotAt(j + 1)
      BY <1>1, <1>4, <3>1, RingTypes DEF SlotAt
    <3>3. PatternRow(Wine_Now + j)' = PatternRow(Wine_Now + (j + 1))
      BY <1>1, <3>1, RingTypes DEF PatternRow
    <3>4. hm6264[SlotAt(j + 1)][0] = PatternRow(Wine_Now + (j + 1))
      BY <2>1, <3>1 DEF ContentInv
    <3> QED BY <1>1, <3>2, <3>3, <3>4 DEF driverVars
  <2>4. data_length' = Width /\ IntWine_File_Pos' < Height
    BY <1>1, <1>5, <2>1 DEF ContentInv, driverVars
  <2>5. IntWine_File_Pos' = PatternRow(Wine_Now + RowsHeld)'
    <3>1. Wine_Now' + RowsHeld' = Wine_Now + RowsHeld
      BY <1>1, <1>5, RingTypes
    <3>2. IntWine_File_Pos = PatternRow(Wine_Now + RowsHeld)
      BY <1>1, <2>1, <2>4 DEF ContentInv
    <3> QED BY <1>1, <3>1, <3>2 DEF PatternRow
  <2>6. ContentInv'
    BY <2>3, <2>4, <2>5 DEF ContentInv
  <2>7. CarpetInv'
    <3>1. Len(carpet) = Wine_Now + 1 /\ Wine_Now \in Nat
      BY <1>1, <2>1, RingTypes DEF CarpetInv
    <3>2. carpet' = carpet /\ Len(carpet') = Wine_Now' + 0
      BY <1>1, <3>1 DEF driverVars
    <3> QED BY <1>1, <2>1, <3>1, <3>2 DEF CarpetInv, PatternRow
  <2> QED BY <2>2, <2>6, <2>7
<1> QED BY <1>6, <1>7 DEF RingInv

-----------------------------------------------------------------------------
(* f_Read_Last chooses the first row while nothing is fetched.             *)
LEMMA StartKeepsRing ==
    ASSUME Colors = 1, ControlInv, ControlInv', RingInv, ReadLastSave,
           UNCHANGED supportVars
    PROVE  RingInv'
<1>1. /\ TypeOK /\ mpc = "last_save" /\ mpc' = "spawn" /\ spc' = spc
      /\ P_Line_Num = 0 /\ P_Line_Num' = 0
      /\ UNCHANGED <<Buffer_Read, Buffer_Write, Buffer_Full, Wine_Now,
                     driverVars, fetchVars>>
  BY OneLine DEF ReadLastSave, Goto, supportVars, fetchVars
<1>2. \/ Wine_Start' = IntWine_File_Pos'
      \/ UNCHANGED <<Wine_Start, IntWine_File_Pos>>
  BY DEF ReadLastSave
<1>3. /\ Wine_Now = 0 /\ Buffer_Read = Buffer_Write /\ ~Buffer_Full
      /\ spc = "off"
  BY <1>1 DEF RingInv, BootInv, BootSteps
<1>4. RowsHeld = 0 /\ RowsHeld' = 0
  BY <1>1, <1>3, RingTypes DEF RowsHeld
<1>5. IndexInv' /\ BootInv'
  BY <1>1, <1>3 DEF IndexInv, BootInv
<1>6. ASSUME FilesLeft' PROVE CursorInv' /\ ContentInv' /\ CarpetInv'
  <2>1. ContentInv /\ CarpetInv
    BY <1>1, <1>6 DEF RingInv, FilesLeft, fetchVars
  <2>2. CursorInv'
    BY <1>1, <1>3 DEF CursorInv
  <2>3. carpet' = carpet /\ Len(carpet) = 0
    BY <1>1, <1>3, <2>1 DEF CarpetInv, driverVars
  <2>4. CarpetInv'
    BY <1>1, <1>3, <2>3 DEF CarpetInv
  <2>5. IntWine_File_Pos' < Height
        => IntWine_File_Pos' = (Wine_Start' + (0 + 0)) % Height
    <3>1. CASE UNCHANGED <<Wine_Start, IntWine_File_Pos>>
      BY <1>3, <1>4, <2>1, <3>1 DEF ContentInv, PatternRow
    <3>2. CASE Wine_Start' = IntWine_File_Pos'
      <4>1. TypeOK' /\ Height \in Nat \ {0}
        BY <1>1, RingTypes DEF ControlInv
      <4>2. IntWine_File_Pos' \in Nat /\ Wine_Start' \in Nat
        BY <4>1 DEF TypeOK, ShmTypeOK
      <4>3. Wine_Start' + (0 + 0) = Wine_Start'
        BY <4>2, PlusZero
      <4>4. IntWine_File_Pos' < Height
            => IntWine_File_Pos' % Height = IntWine_File_Pos'
        BY <4>1, <4>2, Small
      <4> QED BY <3>2, <4>3, <4>4
    <3> QED BY <1>2, <3>1, <3>2
  <2>6. Wine_Now' = 0 /\ RowsHeld' = 0 /\ spc' # "advance"
    BY <1>1, <1>3, <1>4
  <2>7. IntWine_File_Pos' < Height
        => IntWine_File_Pos' = PatternRow(Wine_Now + RowsHeld)'
    BY <2>5, <2>6 DEF PatternRow
  <2>8. ASSUME NEW i \in 0..RowsHeld'-1 PROVE FALSE
    BY <2>6, <2>8
  <2>9. ContentInv'
    BY <2>6, <2>7, <2>8 DEF ContentInv
  <2> QED BY <2>2, <2>4, <2>9
<1> QED BY <1>5, <1>6 DEF RingInv

-----------------------------------------------------------------------------
(* f_preload. *)

(* What holds wherever program two is between the lock and the unlock.     *)
LEMMA Preloading ==
    ASSUME LockFile, Colors = 1, ControlInv, RingInv, spc \in PreloadSteps,
           UNCHANGED mainVars
    PROVE  /\ TypeOK /\ mpc \notin LockedSteps /\ mpc \notin BootSteps
           /\ mpc' = mpc /\ P_Line_Num = 0 /\ P_Line_Num' = 0
           /\ Color_Num = 1
           /\ spc # "unlock" => ~Buffer_Full
<1>1. mpc \notin LockedSteps /\ Color_Num = 1 /\ TypeOK
  BY Apart, OneLine DEF FetchSteps
<1>2. mpc' = mpc /\ P_Line_Num' = P_Line_Num
  BY DEF mainVars
<1>3. P_Line_Num = 0
  BY <1>1, OneLine DEF LockedSteps
<1>4. mpc \notin BootSteps
  BY DEF RingInv, BootInv, PreloadSteps
<1>5. spc # "unlock" => ~Buffer_Full
  BY DEF ControlInv, FetchInv, FetchSteps
<1> QED BY <1>1, <1>2, <1>3, <1>4, <1>5

LEMMA OpenKeepsRing ==
    ASSUME LockFile, Colors = 1, ControlInv, RingInv, PreloadOpen,
           UNCHANGED mainVars
    PROVE  RingInv'
<1>1. /\ spc = "open" /\ spc' = "read" /\ FlwData_line' = 0
      /\ UNCHANGED <<stayVars, exVars, driverVars>>
  BY DEF PreloadOpen, SGoto, shmVars
<1>2. /\ TypeOK /\ mpc \notin LockedSteps /\ mpc \notin BootSteps
      /\ mpc' = mpc /\ P_Line_Num = 0 /\ P_Line_Num' = 0 /\ Color_Num = 1
  BY <1>1, Preloading DEF PreloadSteps
<1>3. RowsHeld' = RowsHeld
  BY <1>1, <1>2 DEF RowsHeld, stayVars
<1>4. IndexInv' /\ BootInv'
  BY <1>1, <1>2 DEF RingInv, IndexInv, BootInv, stayVars, LockedSteps
<1>5. ASSUME FilesLeft' PROVE CursorInv' /\ ContentInv' /\ CarpetInv'
  <2>1. FilesLeft /\ flw_ok'
    <3>1. flw_fds \in 0..OpenLimit /\ OpenLimit \in Nat
      BY <1>2, SupportAssumption DEF TypeOK, SupportTypeOK
    <3>2. CASE flw_fds < OpenLimit
      BY <3>2 DEF PreloadOpen, FilesLeft
    <3>3. CASE ~(flw_fds < OpenLimit)
      BY <1>5, <3>3 DEF PreloadOpen, FilesLeft
    <3> QED BY <3>2, <3>3
  <2>2. CursorInv /\ ContentInv /\ CarpetInv
    BY <2>1 DEF RingInv
  <2>3. flw_pos' = IntWine_File_Pos'
    <3>1. IntWine_File_Pos \in Nat /\ IntWine_File_Pos' = IntWine_File_Pos
      BY <1>1, <1>2, RingTypes DEF stayVars
    <3> QED BY <1>2, <3>1 DEF PreloadOpen, FirstLine
  <2>4. CursorInv'
    BY <1>1, <2>1, <2>3 DEF CursorInv
  <2>5. ContentInv'
    BY <1>1, <1>3, <2>2
       DEF ContentInv, stayVars, exVars, driverVars, SlotAt, PatternRow
  <2>6. CarpetInv'
    BY <1>1, <1>2, <2>2 DEF CarpetInv, exVars, driverVars, PatternRow
  <2> QED BY <2>4, <2>5, <2>6
<1> QED BY <1>4, <1>5 DEF RingInv

(* The row at IntWine_File_Pos goes into the free buffer.                  *)
LEMMA ReadKeepsRing ==
    ASSUME LockFile, Colors = 1, ControlInv, RingInv, PreloadRead,
           UNCHANGED mainVars
    PROVE  RingInv'
<1>1. /\ spc = "read" /\ spc' \in {"read", "advance"}
      /\ FlwData_line' = FlwData_line + 1 /\ flw_pos' = flw_pos + 1
      /\ flw_ok' = flw_ok /\ flw_fds' = flw_fds
      /\ UNCHANGED <<stayVars, exVars, carpet>>
  BY DEF PreloadRead, shmVars, Write6264
<1>2. /\ TypeOK /\ mpc \notin LockedSteps /\ mpc \notin BootSteps
      /\ mpc' = mpc /\ P_Line_Num = 0 /\ P_Line_Num' = 0 /\ Color_Num = 1
      /\ ~Buffer_Full
  BY <1>1, Preloading DEF PreloadSteps
<1>3. RowsHeld' = RowsHeld
  BY <1>1, <1>2 DEF RowsHeld, stayVars
<1>4. IndexInv' /\ BootInv'
  BY <1>1, <1>2 DEF RingInv, IndexInv, BootInv, stayVars, LockedSteps
<1>5. ASSUME FilesLeft' PROVE CursorInv' /\ ContentInv' /\ CarpetInv'
  <2>1. CursorInv /\ ContentInv /\ CarpetInv
    BY <1>1, <1>5 DEF RingInv, FilesLeft
  <2>2. flw_ok /\ FlwData_line = 0
    BY <1>1, <2>1 DEF CursorInv
  <2>3. flw_pos \in Nat /\ flw_pos < Height
    <3>1. flw_pos \in Nat /\ Height \in Nat
      BY <1>2, SupportAssumption DEF TypeOK, SupportTypeOK
    <3>2. ~(flw_pos >= Height * 1)
      BY <1>2, <2>2 DEF PreloadRead, EndOfFile
    <3> QED BY <3>1, <3>2
  <2>4. flw_pos = IntWine_File_Pos
    BY <1>1, <2>1, <2>3 DEF CursorInv
  <2>5. spc' = "advance" /\ FlwData_line' = 1
    <3>1. FlwData_line' = 1
      BY <1>1, <2>2
    <3> QED BY <1>2, <3>1 DEF PreloadRead, RowFetched
  <2>6. /\ hm6264' = [hm6264 EXCEPT ![Buffer_Write][0] = flw_pos]
        /\ data_length' = Width
    <3>1. Write6264(Buffer_Write, 0, Width, flw_pos)
      BY <2>2 DEF PreloadRead
    <3>2. Width > 0 /\ LengthRegister(Width) = Width
      BY Lengths, RingAssumption
    <3> QED BY <3>1, <3>2 DEF Write6264
  <2>7. /\ hm6264'[Buffer_Write][0] = flw_pos
        /\ \A b \in Slots : b # Buffer_Write => hm6264'[b] = hm6264[b]
    <3>1. hm6264 \in [Slots -> [0..MaxLines-1 -> Int]] /\ Buffer_Write \in Slots
      BY <1>2 DEF TypeOK, DriverTypeOK, ShmTypeOK
    <3>2. 0 \in 0..MaxLines-1
      BY RingAssumption
    <3>3. hm6264[Buffer_Write] \in [0..MaxLines-1 -> Int]
      BY <3>1
    <3> QED BY <2>6, <3>1, <3>2, <3>3
  <2>8. CursorInv'
    BY <1>1, <2>2, <2>3, <2>4, <2>5, <2>7 DEF CursorInv, stayVars
  <2>9. \A i \in 0..RowsHeld'-1 :
            hm6264'[SlotAt(i)'][0] = PatternRow(Wine_Now + i)'
    <3> SUFFICES ASSUME NEW i \in 0..RowsHeld-1
                 PROVE  hm6264'[SlotAt(i)'][0] = PatternRow(Wine_Now + i)'
      BY <1>3
    <3>1. SlotAt(i)' = SlotAt(i)
      BY <1>1 DEF SlotAt, stayVars
    <3>2. PatternRow(Wine_Now + i)' = PatternRow(Wine_Now + i)
      BY <1>1 DEF PatternRow, exVars
    <3>3. SlotAt(i) \in Slots /\ SlotAt(i) # Buffer_Write
      BY <1>1, <1>2, HeldSlots, FreeSlot
    <3>4. hm6264[SlotAt(i)][0] = PatternRow(Wine_Now + i)
      BY <2>1 DEF ContentInv
    <3> QED BY <2>7, <3>1, <3>2, <3>3, <3>4
  <2>10. IntWine_File_Pos' < Height
         /\ IntWine_File_Pos' = PatternRow(Wine_Now + RowsHeld)'
    <3>1. IntWine_File_Pos' = IntWine_File_Pos /\ IntWine_File_Pos < Height
      BY <1>1, <2>3, <2>4 DEF stayVars
    <3>2. IntWine_File_Pos = PatternRow(Wine_Now + RowsHeld)
      BY <2>1, <3>1 DEF ContentInv
    <3> QED BY <1>1, <1>3, <3>1, <3>2 DEF PatternRow, exVars
  <2>11. ContentInv'
    BY <2>6, <2>9, <2>10 DEF ContentInv
  <2>12. CarpetInv'
    BY <1>1, <1>2, <2>1 DEF CarpetInv, exVars, PatternRow
  <2> QED BY <2>8, <2>11, <2>12
<1> QED BY <1>4, <1>5 DEF RingInv

(* Moving the write index adds a row to those held.                        *)
LEMMA OneMore ==
    ASSUME TypeOK, ~Buffer_Full, spc = "advance",
           P_Line_Num = 0, P_Line_Num' = 0,
           Buffer_Write' = NextSlot(Buffer_Write),
           spc' = IF Buffer_Write' = Buffer_Read THEN "full" ELSE "read",
           UNCHANGED <<Buffer_Read, Buffer_Full>>
    PROVE  RowsHeld' = RowsHeld + 1 /\ RowsHeld \in Nat
<1>1. Buffer_Write' = IF Buffer_Write + 1 = NBuf THEN 0 ELSE Buffer_Write + 1
  BY RingTypes, SlotAfter DEF Slots
<1>2. NBuf \in Nat \ {0} /\ Buffer_Read \in 0..NBuf-1
      /\ Buffer_Write \in 0..NBuf-1
  BY RingTypes
<1>3. RowsHeld = IF Buffer_Read <= Buffer_Write
                 THEN Buffer_Write - Buffer_Read
                 ELSE NBuf + Buffer_Write - Buffer_Read
  BY <1>2 DEF RowsHeld
<1>4. RowsHeld' = IF Buffer_Read < Buffer_Write'
                  THEN Buffer_Write' - Buffer_Read
                  ELSE NBuf + Buffer_Write' - Buffer_Read
  <2>1. CASE Buffer_Write' = Buffer_Read
    BY <1>1, <1>2, <2>1 DEF RowsHeld
  <2>2. CASE Buffer_Write' # Buffer_Read
    BY <1>1, <1>2, <2>2 DEF RowsHeld
  <2> QED BY <2>1, <2>2
<1> QED BY <1>1, <1>2, <1>3, <1>4

(* The row just written joins the rows held.                               *)
LEMMA PreloadAdvanceKeepsRing ==
    ASSUME LockFile, Colors = 1, ControlInv, RingInv, PreloadAdvance,
           UNCHANGED mainVars
    PROVE  RingInv'
<1>1. /\ spc = "advance" /\ FlwData_line' = 0
      /\ Buffer_Write' = NextSlot(Buffer_Write)
      /\ spc' = IF Buffer_Write' = Buffer_Read THEN "full" ELSE "read"
      /\ UNCHANGED <<flw_pos, flw_ok, flw_fds, Buffer_Read, Buffer_Full,
                     exVars, driverVars>>
  BY DEF PreloadAdvance
<1>2. /\ TypeOK /\ mpc \notin LockedSteps /\ mpc \notin BootSteps
      /\ mpc' = mpc /\ P_Line_Num = 0 /\ P_Line_Num' = 0 /\ Color_Num = 1
      /\ ~Buffer_Full
  BY <1>1, Preloading DEF PreloadSteps
<1>3. RowsHeld' = RowsHeld + 1 /\ RowsHeld \in Nat
  BY <1>1, <1>2, OneMore
<1>4. IndexInv' /\ BootInv'
  BY <1>1, <1>2 DEF IndexInv, BootInv, LockedSteps
<1>5. ASSUME FilesLeft' PROVE CursorInv' /\ ContentInv' /\ CarpetInv'
  <2>1. CursorInv /\ ContentInv /\ CarpetInv
    BY <1>1, <1>5 DEF RingInv, FilesLeft
  <2>2. /\ flw_ok /\ IntWine_File_Pos < Height
        /\ flw_pos = IntWine_File_Pos + 1
        /\ hm6264[Buffer_Write][0] = IntWine_File_Pos
        /\ data_length = Width
    BY <1>1, <2>1 DEF CursorInv, ContentInv
  <2>3. IntWine_File_Pos' = NextFilePos(IntWine_File_Pos)
    BY <2>2 DEF PreloadAdvance
  <2>4. /\ IntWine_File_Pos \in Nat /\ Height \in Nat \ {0}
        /\ Wine_Now \in Nat /\ Wine_Start \in Nat
    BY <1>2, RingTypes
  <2>5. CursorInv'
    <3>1. ASSUME flw_pos < Height PROVE flw_pos = IntWine_File_Pos'
      <4>1. IntWine_File_Pos + 1 < Height /\ IntWine_File_Pos + 1 \in Nat
        BY <2>2, <2>4, <3>1
      <4>2. (IntWine_File_Pos + 1) % Height = IntWine_File_Pos + 1
        BY <2>4, <4>1, Small
      <4> QED BY <2>2, <2>3, <4>2 DEF NextFilePos
    <3> QED BY <1>1, <2>2, <3>1 DEF CursorInv
  <2>6. IntWine_File_Pos = PatternRow(Wine_Now + RowsHeld)
    BY <2>1, <2>2 DEF ContentInv
  <2>7. /\ IntWine_File_Pos' < Height
        /\ IntWine_File_Pos' = PatternRow(Wine_Now + RowsHeld)'
    <3>1. Wine_Now + RowsHeld \in Nat
          /\ (Wine_Now + RowsHeld) + 1 = Wine_Now + RowsHeld'
      BY <1>3, <2>4
    <3>2. NextFilePos(PatternRow(Wine_Now + RowsHeld))
              = PatternRow((Wine_Now + RowsHeld) + 1)
      BY <2>4, <3>1, RowAfter
    <3>3. IntWine_File_Pos' = PatternRow(Wine_Now + RowsHeld')
      BY <2>3, <2>6, <3>1, <3>2
    <3>4. Wine_Now + RowsHeld' \in Nat
      BY <1>3, <2>4
    <3>5. PatternRow(Wine_Now + RowsHeld') \in 0..Height-1
      BY <2>4, <3>4, RowAfter
    <3> QED BY <1>1, <2>4, <3>3, <3>5 DEF PatternRow, exVars
  <2>8. \A i \in 0..RowsHeld'-1 :
            hm6264'[SlotAt(i)'][0] = PatternRow(Wine_Now + i)'
    <3> SUFFICES ASSUME NEW i \in 0..RowsHeld'-1
                 PROVE  hm6264'[SlotAt(i)'][0] = PatternRow(Wine_Now + i)'
      OBVIOUS
    <3>1. hm6264' = hm6264 /\ SlotAt(i)' = SlotAt(i)
          /\ PatternRow(Wine_Now + i)' = PatternRow(Wine_Now + i)
      BY <1>1 DEF SlotAt, PatternRow, exVars, driverVars
    <3>2. CASE i \in 0..RowsHeld-1
      BY <2>1, <3>1, <3>2 DEF ContentInv
    <3>3. CASE i = RowsHeld
      <4>1. SlotAt(RowsHeld) = Buffer_Write
        BY <1>1, <1>2, FreeSlot
      <4> QED BY <2>2, <2>6, <3>1, <3>3, <4>1
    <3> QED BY <1>3, <3>2, <3>3
  <2>9. data_length' = Width
    BY <1>1, <2>2 DEF driverVars
  <2>10. ContentInv'
    BY <2>7, <2>8, <2>9 DEF ContentInv
  <2>11. CarpetInv'
    BY <1>1, <1>2, <2>1 DEF CarpetInv, exVars, driverVars, PatternRow
  <2> QED BY <2>5, <2>10, <2>11
<1> QED BY <1>4, <1>5 DEF RingInv

(* The flag says what the program counter said before.                     *)
LEMMA FullKeepsRing ==
    ASSUME LockFile, Colors = 1, ControlInv, RingInv, PreloadFull,
           UNCHANGED mainVars
    PROVE  RingInv'
<1>1. /\ spc = "full" /\ spc' = "unlock" /\ Buffer_Full' = TRUE
      /\ UNCHANGED <<fetchVars, Buffer_Read, Buffer_Write, IntWine_File_Pos,
                     exVars, driverVars>>
  BY DEF PreloadFull, SGoto
<1>2. /\ TypeOK /\ mpc \notin LockedSteps /\ mpc \notin BootSteps
      /\ mpc' = mpc /\ P_Line_Num = 0 /\ P_Line_Num' = 0 /\ Color_Num = 1
  BY <1>1, Preloading DEF PreloadSteps
<1>3. Buffer_Read = Buffer_Write
  BY <1>1 DEF RingInv, IndexInv
<1>4. RowsHeld' = RowsHeld
  BY <1>1, <1>2, <1>3, RingTypes DEF RowsHeld
<1>5. IndexInv' /\ BootInv'
  BY <1>1, <1>2, <1>3 DEF IndexInv, BootInv, LockedSteps
<1>6. ASSUME FilesLeft' PROVE CursorInv' /\ ContentInv' /\ CarpetInv'
  <2>1. CursorInv /\ ContentInv /\ CarpetInv
    BY <1>1, <1>6 DEF RingInv, FilesLeft, fetchVars
  <2>2. CursorInv'
    BY <1>1 DEF CursorInv
  <2>3. ContentInv'
    BY <1>1, <1>4, <2>1
       DEF ContentInv, exVars, driverVars, SlotAt, PatternRow
  <2>4. CarpetInv'
    BY <1>1, <1>2, <2>1 DEF CarpetInv, exVars, driverVars, PatternRow
  <2> QED BY <2>2, <2>3, <2>4
<1> QED BY <1>5, <1>6 DEF RingInv

-----------------------------------------------------------------------------
(* The initial states, a power failure, and every step. *)

(* A system that was just switched on, whichever way. *)
SwitchedOn ==
    /\ carpet = <<>> /\ mpc = "mk_load" /\ spc = "off"
    /\ Buffer_Read = 0 /\ Buffer_Write = 0 /\ Buffer_Full = FALSE
    /\ IntWine_File_Pos = 0 /\ Wine_Start = 0 /\ Wine_Now = 0
    /\ P_Line_Num = 0

LEMMA SwitchedOnRing == ASSUME SwitchedOn PROVE RingInv
<1>1. RowsHeld = 0
  BY DEF SwitchedOn, RowsHeld
<1>2. IndexInv /\ BootInv /\ CursorInv
  BY DEF SwitchedOn, IndexInv, BootInv, CursorInv
<1>3. ContentInv
  <2>1. ASSUME NEW i \in 0..RowsHeld-1 PROVE FALSE
    BY <1>1, <2>1
  <2>2. IntWine_File_Pos = PatternRow(Wine_Now + RowsHeld)
    <3>1. 0 + (0 + 0) = 0
      BY PlusZero
    <3>2. Height \in Nat \ {0} /\ 0 % Height = 0
      BY SupportAssumption, Small
    <3> QED BY <1>1, <3>1, <3>2 DEF SwitchedOn, PatternRow
  <2>3. ~(RowsHeld > 0 \/ spc = "advance")
    BY <1>1 DEF SwitchedOn
  <2> QED BY <2>1, <2>2, <2>3 DEF ContentInv
<1>4. CarpetInv
  BY DEF SwitchedOn, CarpetInv
<1> QED BY <1>2, <1>3, <1>4 DEF RingInv

LEMMA InitRing == ASSUME Init PROVE RingInv
<1>1. SwitchedOn
  BY DEF Init, DriverInit, ShmInit, MainInit, SupportInit, SwitchedOn
<1> QED BY <1>1, SwitchedOnRing

LEMMA PowerOffKeepsRing == ASSUME PowerOff PROVE RingInv'
<1>1. SwitchedOn'
  BY DEF PowerOff, SwitchedOn
<1>2. RowsHeld' = 0
  BY <1>1 DEF SwitchedOn, RowsHeld
<1>3. IndexInv' /\ BootInv' /\ CursorInv'
  BY <1>1 DEF SwitchedOn, IndexInv, BootInv, CursorInv
<1>4. ContentInv'
  <2>1. ASSUME NEW i \in 0..RowsHeld'-1 PROVE FALSE
    BY <1>2, <2>1
  <2>2. IntWine_File_Pos' = PatternRow(Wine_Now + RowsHeld)'
    <3>1. 0 + (0 + 0) = 0
      BY PlusZero
    <3>2. Height \in Nat \ {0} /\ 0 % Height = 0
      BY SupportAssumption, Small
    <3> QED BY <1>1, <1>2, <3>1, <3>2 DEF SwitchedOn, PatternRow
  <2>3. ~(RowsHeld' > 0 \/ spc' = "advance")
    BY <1>1, <1>2 DEF SwitchedOn
  <2> QED BY <2>1, <2>2, <2>3 DEF ContentInv
<1>5. CarpetInv'
  BY <1>1 DEF SwitchedOn, CarpetInv
<1> QED BY <1>3, <1>4, <1>5 DEF RingInv

LEMMA NothingIsAside == ASSUME UNCHANGED vars PROVE RingUnchanged
<1>1. /\ UNCHANGED driverVars /\ UNCHANGED shmVars
      /\ UNCHANGED mainVars /\ UNCHANGED supportVars
  BY DEF vars
<1>2. UNCHANGED stayVars /\ UNCHANGED exVars
  BY <1>1 DEF shmVars
<1>3. Wine_Start' = Wine_Start /\ Wine_Now' = Wine_Now
  BY <1>2 DEF exVars
<1>4. mpc' = mpc /\ P_Line_Num' = P_Line_Num
  BY <1>1 DEF mainVars
<1>5. spc' = spc /\ UNCHANGED fetchVars
  BY <1>1 DEF supportVars, fetchVars
<1> QED BY <1>1, <1>2, <1>3, <1>4, <1>5 DEF RingUnchanged

LEMMA MainKeepsRing ==
    ASSUME LockFile, Colors = 1, ControlInv, ControlInv', RingInv,
           MainStep \/ MainLockStep
    PROVE  RingInv'
<1>1. UNCHANGED supportVars /\ (MainRuns \/ MainLock)
  BY DEF MainStep, MainLockStep, OthersThanMain
<1>2. CASE MkShmLoad \/ MkShmOpen \/ MkShmSave \/ ReadLastLoad \/ ReadLastOpen
  BY <1>1, <1>2, BootAside, RingFrame
<1>3. CASE ReadLastSave
  BY <1>1, <1>3, StartKeepsRing
<1>4. CASE MainDispatch \/ MainLock
  BY <1>1, <1>4, DispatchAside, RingFrame
<1>5. CASE SendOneLine
  BY <1>1, <1>5, SendKeepsRing
<1>6. CASE Ioctl
  BY <1>1, <1>6, IoctlKeepsRing
<1>7. CASE Advance
  BY <1>1, <1>7, AdvanceKeepsRing
<1>8. CASE \/ SendNothing \/ PosLoad \/ PosOpen \/ PosSave \/ MainUnlock
           \/ CountRows \/ DoneLoad \/ DoneOpen \/ DoneSave
  BY <1>1, <1>8, WeaveAside, RingFrame
<1> QED BY <1>1, <1>2, <1>3, <1>4, <1>5, <1>6, <1>7, <1>8
        DEF MainRuns, MainBoot, MainWeave

LEMMA SupportKeepsRing ==
    ASSUME LockFile, Colors = 1, ControlInv, RingInv,
           SupportStep \/ SupportLockStep \/ TimerStep
    PROVE  RingInv'
<1>1. UNCHANGED mainVars /\ (SupportRuns \/ SupportLock \/ CheckFetch)
  BY DEF SupportStep, SupportLockStep, TimerStep, OthersThanSupport
<1>2. CASE \/ AttachLoad \/ AttachOpen \/ AttachSave
           \/ FirstInterval \/ NextInterval \/ Poll \/ PreloadEnd
           \/ SupportUnlock \/ SupportLock \/ CheckFetch
  BY <1>1, <1>2, SupportAside, RingFrame
<1>3. CASE PreloadOpen
  BY <1>1, <1>3, OpenKeepsRing
<1>4. CASE PreloadRead
  BY <1>1, <1>4, ReadKeepsRing
<1>5. CASE PreloadAdvance
  BY <1>1, <1>5, PreloadAdvanceKeepsRing
<1>6. CASE PreloadFull
  BY <1>1, <1>6, FullKeepsRing
<1> QED BY <1>1, <1>2, <1>3, <1>4, <1>5, <1>6 DEF SupportRuns

LEMMA NextKeepsRing ==
    ASSUME LockFile, Colors = 1, ControlInv, ControlInv', RingInv, [Next]_vars
    PROVE  RingInv'
<1>1. CASE MainStep \/ MainLockStep
  BY <1>1, MainKeepsRing
<1>2. CASE SpawnStep
  BY <1>2, SpawnAside, RingFrame DEF SpawnStep
<1>3. CASE SupportStep \/ SupportLockStep \/ TimerStep
  BY <1>3, SupportKeepsRing
<1>4. CASE QtStart \/ QtStep \/ GuiStep
  <2>1. (QtRun \/ QtProceeds \/ GuiCommand)
        /\ UNCHANGED <<mainVars, supportVars>>
    BY <1>4 DEF QtStart, QtStep, GuiStep, OthersThanQt
  <2> QED BY <2>1, OperatorAside, RingFrame
<1>5. CASE PowerOff
  BY <1>5, PowerOffKeepsRing
<1>6. CASE UNCHANGED vars
  BY <1>6, NothingIsAside, RingFrame
<1> QED BY <1>1, <1>2, <1>3, <1>4, <1>5, <1>6 DEF Next

(* With a lock file and rows of one line the ring, the position in the     *)
(* file and the carpet always agree.                                       *)
THEOREM RingInvariant ==
    ASSUME LockFile, Colors = 1
    PROVE  Spec => []RingInv
<1>1. Init => RingInv
  BY InitRing
<1>2. ControlInv /\ ControlInv' /\ RingInv /\ [Next]_vars => RingInv'
  BY NextKeepsRing
<1> QED BY <1>1, <1>2, ControlInvariant, PTL DEF Spec

-----------------------------------------------------------------------------
(* What follows. *)

LEMMA LineIsRow ==
    ASSUME Colors = 1, TypeOK, NEW n \in Int
    PROVE  PatternLine(n) = PatternRow(n)
<1>1. Wine_Start * 1 = Wine_Start /\ Height * 1 = Height
  BY RingTypes
<1> QED BY <1>1 DEF PatternLine, PatternRow

LEMMA SlotIsRemainder ==
    ASSUME TypeOK, NEW i \in 0..RowsHeld-1
    PROVE  (Buffer_Read + i) % NBuf = SlotAt(i)
<1>1. NBuf \in Nat \ {0} /\ Buffer_Read \in 0..NBuf-1 /\ i \in 0..NBuf-1
  BY RingTypes, HeldRange
<1>2. CASE Buffer_Read + i < NBuf
  BY <1>1, <1>2, Small DEF SlotAt
<1>3. CASE ~(Buffer_Read + i < NBuf)
  <2>1. /\ Buffer_Read + i = NBuf * 1 + (Buffer_Read + i - NBuf)
        /\ Buffer_Read + i - NBuf \in 0..NBuf-1
    BY <1>1, <1>3
  <2>2. (Buffer_Read + i) % NBuf = Buffer_Read + i - NBuf
    BY <1>1, <2>1, Unique
  <2> QED BY <1>3, <2>2 DEF SlotAt
<1> QED BY <1>2, <1>3

(* The carpet is the pattern from the first row on, row after row.         *)
THEOREM CarpetInOrder ==
    ASSUME LockFile, Colors = 1
    PROVE  Spec => []RowsInOrder
<1>1. TypeOK /\ RingInv => RowsInOrder
  <2> SUFFICES ASSUME TypeOK, RingInv, FilesLeft, NEW n \in 1..Len(carpet)
               PROVE  carpet[n] = PatternLine(n - 1)
    BY DEF RowsInOrder
  <2>1. carpet[n] = PatternRow(n - 1)
    BY DEF RingInv, CarpetInv
  <2>2. n - 1 \in Int
    OBVIOUS
  <2> QED BY <2>1, <2>2, LineIsRow
<1> QED BY <1>1, TypeCorrect, RingInvariant, PTL

(* The ring holds the rows that follow, and the file is at the next one.   *)
THEOREM RingHoldsTheRows ==
    ASSUME LockFile, Colors = 1
    PROVE  Spec => []RingHoldsNextRows
<1>1. TypeOK /\ RingInv => RingHoldsNextRows
  <2> SUFFICES ASSUME TypeOK, RingInv, FilesLeft PROVE RingHoldsNextRows
    BY DEF RingHoldsNextRows
  <2>1. ContentInv /\ Wine_Now \in Nat /\ Wine_Start \in Nat
        /\ RowsHeld \in Nat
    BY RingTypes, HeldRange DEF RingInv
  <2>2. ASSUME NEW i \in 0..RowsHeld-1, NEW l \in 0..Colors-1
        PROVE  hm6264[(Buffer_Read + i) % NBuf][l]
                   = PatternLine((Wine_Now + i) * Colors + l)
    <3>1. l = 0 /\ i \in Nat
      BY <2>1
    <3>2. (Wine_Now + i) * 1 + 0 = Wine_Now + i /\ Wine_Now + i \in Int
      BY <2>1, <3>1
    <3>3. PatternLine(Wine_Now + i) = PatternRow(Wine_Now + i)
      BY <3>2, LineIsRow
    <3>4. hm6264[SlotAt(i)][0] = PatternRow(Wine_Now + i)
      BY <2>1 DEF ContentInv
    <3> QED BY <3>1, <3>2, <3>3, <3>4, SlotIsRemainder
  <2>3. ASSUME IntWine_File_Pos < Height
        PROVE  IntWine_File_Pos = (Wine_Start + Wine_Now + RowsHeld) % Height
    <3>1. IntWine_File_Pos = PatternRow(Wine_Now + RowsHeld)
      BY <2>1, <2>3 DEF ContentInv
    <3>2. Wine_Start + (Wine_Now + RowsHeld) = Wine_Start + Wine_Now + RowsHeld
      BY <2>1
    <3> QED BY <3>1, <3>2 DEF PatternRow
  <2> QED BY <2>2, <2>3 DEF RingHoldsNextRows
<1> QED BY <1>1, TypeCorrect, RingInvariant, PTL

(* Who writes to the SRAM: f_preload, and a power failure.                 *)
LEMMA Writers ==
    ASSUME [Next]_vars, hm6264' # hm6264
    PROVE  PowerOff \/ (PreloadRead /\ UNCHANGED mainVars)
<1>1. CASE MainStep \/ MainLockStep
  <2>1. MainRuns \/ MainLock
    BY <1>1 DEF MainStep, MainLockStep
  <2>2. CASE MainBoot
    BY <2>2 DEF MainBoot, MkShmLoad, MkShmOpen, MkShmSave, ReadLastLoad,
                ReadLastOpen, ReadLastSave, driverVars
  <2>3. CASE MainDispatch \/ MainLock
    BY <2>3 DEF MainDispatch, RunReady, RunReadyClear, RunStay, RunStayClear,
                ReadCommand, RunRePair, RunIntWine, MainLock, driverVars
  <2>4. CASE MainWeave
    BY <2>4 DEF MainWeave, SendOneLine, SendNothing, Ioctl, SendLine, Advance,
                PosLoad, PosOpen, PosSave, MainUnlock, CountRows, DoneLoad,
                DoneOpen, DoneSave, driverVars
  <2> QED BY <2>1, <2>2, <2>3, <2>4 DEF MainRuns
<1>2. CASE SpawnStep
  BY <1>2 DEF SpawnStep, Spawn, driverVars
<1>3. CASE SupportStep \/ SupportLockStep \/ TimerStep
  <2>1. UNCHANGED mainVars /\ (SupportRuns \/ SupportLock \/ CheckFetch)
    BY <1>3 DEF SupportStep, SupportLockStep, TimerStep, OthersThanSupport
  <2>2. CASE SupportLock \/ CheckFetch
    BY <2>2 DEF SupportLock, CheckFetch, driverVars
  <2>3. CASE SupportRuns
    BY <2>1, <2>3
       DEF SupportRuns, AttachLoad, AttachOpen, AttachSave, FirstInterval,
           NextInterval, Poll, PreloadOpen, PreloadEnd, PreloadAdvance,
           PreloadFull, SupportUnlock, driverVars
  <2> QED BY <2>1, <2>2, <2>3
<1>4. CASE QtStart \/ QtStep \/ GuiStep
  BY <1>4 DEF QtStart, QtStep, GuiStep, QtRun, QtProceeds, GuiCommand,
              InitTestLoad, InitTestOpen, InitTestSave, CommandCount,
              CommandStart, driverVars
<1>5. CASE UNCHANGED vars
  BY <1>5 DEF vars, driverVars
<1> QED BY <1>1, <1>2, <1>3, <1>4, <1>5 DEF Next

(* A row is written only while a buffer is free, also after the            *)
(* descriptors ran out.                                                    *)
THEOREM NothingOverwritten ==
    ASSUME LockFile, Colors = 1
    PROVE  Spec => NoOverwrite
<1>1. ASSUME ControlInv, RingInv, [Next]_vars
      PROVE  [hm6264' # hm6264 /\ outages' = outages
              => RowsHeld < NBuf]_vars
  <2> SUFFICES ASSUME hm6264' # hm6264, outages' = outages
               PROVE  RowsHeld < NBuf
    OBVIOUS
  <2>1. TypeOK
    BY <1>1 DEF ControlInv
  <2>2. ~PowerOff
    <3>1. outages \in Nat
      BY <2>1, SystemAssumption DEF TypeOK
    <3> QED BY <3>1 DEF PowerOff
  <2>3. PreloadRead /\ UNCHANGED mainVars
    BY <1>1, <2>2, Writers
  <2>4. spc = "read"
    BY <2>3 DEF PreloadRead
  <2>5. ~Buffer_Full /\ P_Line_Num = 0
    BY <1>1, <2>3, <2>4, Preloading DEF PreloadSteps
  <2>6. spc # "full"
    BY <2>4
  <2> QED BY <2>1, <2>5, <2>6, FreeSlot
<1> QED BY <1>1, ControlInvariant, RingInvariant, PTL DEF Spec, NoOverwrite

=============================================================================
