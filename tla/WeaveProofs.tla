---------------------------- MODULE WeaveProofs ----------------------------
(***************************************************************************)
(* Proofs about WeaveSystem.  The first part shows that ControlInv is an   *)
(* invariant for every value of the constants: the types, the mutual       *)
(* exclusion of the two programs, and that a prefetch finds room.          *)
(***************************************************************************)
EXTENDS WeaveInvariant, TLAPS

-----------------------------------------------------------------------------
(* thj.ini. *)

LEMMA IniLoaded == ASSUME IniTypeOK, NEW p \in Processes, Load(p)
                   PROVE  IniTypeOK'
  BY DEF IniTypeOK, Load

LEMMA IniOpened == ASSUME IniTypeOK, OpenForWriting PROVE IniTypeOK'
  BY DEF IniTypeOK, OpenForWriting, Empty, Inis

LEMMA IniSaved == ASSUME IniTypeOK, NEW f \in Inis, Save(f) PROVE IniTypeOK'
  BY DEF IniTypeOK, Save

LEMMA IniSetters ==
    ASSUME NEW f \in Inis, NEW n \in Nat
    PROVE  SetPos(f, n) \in Inis /\ SetDone(f, 1) \in Inis
           /\ StartOf(f) \in Nat
  BY DEF Inis, SetPos, SetDone, StartOf, Empty

LEMMA IniFrame == ASSUME IniTypeOK, UNCHANGED iniVars PROVE IniTypeOK'
  BY DEF IniTypeOK, iniVars

-----------------------------------------------------------------------------
(* The driver. *)

LEMMA DriverFrame == ASSUME DriverTypeOK, UNCHANGED driverVars
                     PROVE  DriverTypeOK'
  BY SMT DEF DriverTypeOK, driverVars

LEMMA Unique ==
    ASSUME NEW N \in Nat \ {0}, NEW q \in Int, NEW r \in 0..N-1
    PROVE  (N * q + r) % N = r
  BY SMT

(* A length is kept; the -1 of a failed read becomes the largest one.      *)
LEMMA Lengths ==
    /\ LengthSize \in Nat \ {0} /\ Width \in 1..LengthSize-1
    /\ LengthRegister(Width) = Width
    /\ LengthRegister(-1) = LengthSize - 1
<1>1. LengthSize \in Nat \ {0} /\ Width \in 1..LengthSize-1
  BY RingAssumption
<1>2. LengthSize + Width = LengthSize * 1 + Width
      /\ LengthSize + (-1) = LengthSize * 0 + (LengthSize - 1)
  BY <1>1
<1>3. LengthRegister(Width) = Width
  BY <1>1, <1>2, Unique DEF LengthRegister
<1>4. LengthRegister(-1) = LengthSize - 1
  BY <1>1, <1>2, Unique DEF LengthRegister
<1> QED BY <1>1, <1>3, <1>4

LEMMA LineWritten ==
    ASSUME DriverTypeOK, NEW n \in {-1, Width}, NEW b \in Slots, NEW l,
           NEW d \in Int, Write6264(b, l, n, d)
    PROVE  DriverTypeOK'
<1>1. data_length' = LengthRegister(n) /\ carpet' = carpet
  BY SMT DEF Write6264
<1>2. LengthRegister(n) \in Nat
  BY Lengths, SMT
<1>3. hm6264' = hm6264 \/ hm6264' = [hm6264 EXCEPT ![b][l] = d]
  BY SMT DEF Write6264
<1>4. [hm6264 EXCEPT ![b][l] = d] \in [Slots -> [0..MaxLines-1 -> Int]]
  <2>1. hm6264 \in [Slots -> [0..MaxLines-1 -> Int]]
    BY DEF DriverTypeOK
  <2>2. [hm6264[b] EXCEPT ![l] = d] \in [0..MaxLines-1 -> Int]
    BY <2>1
  <2>3. [hm6264 EXCEPT ![b] = [hm6264[b] EXCEPT ![l] = d]]
            \in [Slots -> [0..MaxLines-1 -> Int]]
    BY <2>1, <2>2
  <2> QED BY <2>3
<1>5. hm6264' \in [Slots -> [0..MaxLines-1 -> Int]]
  BY <1>3, <1>4 DEF DriverTypeOK
<1> QED BY <1>1, <1>2, <1>5 DEF DriverTypeOK

LEMMA LineContents ==
    ASSUME DriverTypeOK, NEW b \in Slots, NEW l \in 0..MaxLines-1
    PROVE  hm6264[b][l] \in Int
<1>1. hm6264 \in [Slots -> [0..MaxLines-1 -> Int]]
  BY DEF DriverTypeOK
<1>2. hm6264[b] \in [0..MaxLines-1 -> Int]
  BY <1>1
<1> QED BY <1>2

LEMMA LineShifted ==
    ASSUME DriverTypeOK, NEW b \in Slots, NEW l \in 0..MaxLines-1,
           SendLine(b, l)
    PROVE  DriverTypeOK'
<1>1. Shifted(b, l) \in Int
  BY LineContents DEF Shifted, Noise
<1>2. carpet' = Append(carpet, Shifted(b, l))
      /\ hm6264' = hm6264 /\ data_length' = data_length
  BY SMT DEF SendLine
<1> QED BY <1>1, <1>2 DEF DriverTypeOK

-----------------------------------------------------------------------------
(* The shared memory. *)

LEMMA ShmFrame == ASSUME ShmTypeOK, UNCHANGED shmVars PROVE ShmTypeOK'
  BY DEF ShmTypeOK, shmVars, stayVars, exVars

LEMMA NextSlotInRing == ASSUME NEW b \in Slots PROVE NextSlot(b) \in Slots
  BY RingAssumption DEF NextSlot, Slots

LEMMA LockerTypes ==
    ASSUME NEW p \in Lockers, lock \in Lockers \cup {"free"}
    PROVE  /\ AcquireLock(p) => lock' \in Lockers \cup {"free"}
           /\ ReleaseLock(p) => lock' \in Lockers \cup {"free"}
  BY DEF AcquireLock, ReleaseLock

-----------------------------------------------------------------------------
(* Program one. *)

LEMMA MainIniSteps ==
    ASSUME MainRuns
    PROVE  \/ UNCHANGED iniVars
           \/ Load("main")
           \/ OpenForWriting
           \/ Save(iniLoaded["main"])
           \/ Save(SetPos(iniLoaded["main"], Wine_Now))
           \/ Save(SetDone(iniLoaded["main"], 1))
  BY DEF MainRuns, MainBoot, MainDispatch, MainWeave, MkShmLoad, MkShmOpen,
         MkShmSave, ReadLastLoad, ReadLastOpen, ReadLastSave, RunReady,
         RunReadyClear, RunStay, RunStayClear, RunRePair, RunIntWine,
         ReadCommand, SendOneLine, SendNothing, Ioctl, Advance, PosLoad,
         PosOpen, PosSave, MainUnlock, CountRows, DoneLoad, DoneOpen, DoneSave

LEMMA MainShmSteps ==
    ASSUME MainRuns
    PROVE  \/ UNCHANGED shmVars
           \/ ReadLastSave \/ RunReadyClear \/ RunStayClear \/ SendOneLine
           \/ Advance \/ MainUnlock \/ CountRows
  BY DEF MainRuns, MainBoot, MainDispatch, MainWeave, MkShmLoad, MkShmOpen,
         MkShmSave, ReadLastLoad, ReadLastOpen, RunReady, RunStay, RunRePair,
         RunIntWine, ReadCommand, SendNothing, Ioctl, PosLoad, PosOpen,
         PosSave, DoneLoad, DoneOpen, DoneSave

LEMMA MainDriverSteps ==
    ASSUME MainRuns PROVE UNCHANGED driverVars \/ Ioctl
  BY DEF MainRuns, MainBoot, MainDispatch, MainWeave, MkShmLoad, MkShmOpen,
         MkShmSave, ReadLastLoad, ReadLastOpen, ReadLastSave, RunReady,
         RunReadyClear, RunStay, RunStayClear, RunRePair, RunIntWine,
         ReadCommand, SendOneLine, SendNothing, Advance, PosLoad,
         PosOpen, PosSave, MainUnlock, CountRows, DoneLoad, DoneOpen, DoneSave

LEMMA MainKeepsOwnTypes ==
    ASSUME MainTypeOK, Q_Command \in Commands, MainRuns
    PROVE  MainTypeOK'
<1> USE DEF MainTypeOK, Goto, MainSteps, BootSteps, LockedSteps
<1>1. CASE MainBoot
  BY <1>1 DEF MainBoot, MkShmLoad, MkShmOpen, MkShmSave, ReadLastLoad,
              ReadLastOpen, ReadLastSave
<1>2. CASE MainDispatch
  BY <1>2 DEF MainDispatch, RunReady, RunReadyClear, RunStay, RunStayClear,
              RunRePair, RunIntWine, ReadCommand, NextState, States
<1>3. CASE MainWeave
  BY <1>3 DEF MainWeave, SendOneLine, SendNothing, Ioctl, Advance, PosLoad,
              PosOpen, PosSave, MainUnlock, CountRows, DoneLoad, DoneOpen,
              DoneSave, States
<1> QED BY <1>1, <1>2, <1>3 DEF MainRuns

LEMMA MainKeepsIni ==
    ASSUME IniTypeOK, Wine_Now \in Nat, MainRuns PROVE IniTypeOK'
<1>1. iniLoaded["main"] \in Inis /\ "main" \in Processes
  BY DEF IniTypeOK, Processes
<1> QED
  BY <1>1, MainIniSteps, IniFrame, IniLoaded, IniOpened, IniSaved, IniSetters

LEMMA MainKeepsShm ==
    ASSUME ShmTypeOK, iniLoaded["main"] \in Inis, MainRuns
    PROVE  ShmTypeOK'
<1>1. CASE UNCHANGED shmVars
  BY <1>1, ShmFrame
<1>2. CASE ReadLastSave
  BY <1>2, IniSetters DEF ReadLastSave, ShmTypeOK
<1>3. CASE RunReadyClear
  BY <1>3 DEF RunReadyClear, ShmTypeOK, stayVars, exVars, Commands
<1>4. CASE RunStayClear
  BY <1>4 DEF RunStayClear, ShmTypeOK, stayVars, Commands
<1>5. CASE SendOneLine
  BY <1>5 DEF SendOneLine, ShmTypeOK, exVars, FullAfterSend
<1>6. CASE Advance
  BY <1>6, NextSlotInRing DEF Advance, ShmTypeOK
<1>7. CASE MainUnlock
  BY <1>7, LockerTypes
     DEF MainUnlock, ShmTypeOK, stayVars, exVars, Lockers
<1>8. CASE CountRows
  BY <1>8 DEF CountRows, ShmTypeOK, stayVars
<1> QED
  BY <1>1, <1>2, <1>3, <1>4, <1>5, <1>6, <1>7, <1>8, MainShmSteps

LEMMA MainKeepsDriver ==
    ASSUME DriverTypeOK, Buffer_Read \in Slots, LineInv, MainRuns
    PROVE  DriverTypeOK'
<1>1. CASE Ioctl
  <2>1. LineSent \in 0..MaxLines-1
    BY <1>1, QtAssumption, RingAssumption DEF LineInv, Ioctl, LineSent
  <2>2. SendLine(Buffer_Read, LineSent)
    BY <1>1 DEF Ioctl
  <2> QED BY <2>1, <2>2, LineShifted
<1> QED BY <1>1, MainDriverSteps, DriverFrame

LEMMA MainKeepsTypes ==
    ASSUME TypeOK, LineInv, MainStep
    PROVE  TypeOK'
<1>1. MainTypeOK' /\ IniTypeOK' /\ ShmTypeOK' /\ DriverTypeOK'
  BY MainKeepsOwnTypes, MainKeepsIni, MainKeepsShm, MainKeepsDriver
     DEF TypeOK, MainStep, ShmTypeOK, IniTypeOK, Processes
<1>2. SupportTypeOK' /\ QtTypeOK' /\ (outages \in 0..MaxOutages)'
      /\ (resumeAt \in Nat \cup {NoResume})'
  BY DEF TypeOK, MainStep, OthersThanMain, SupportTypeOK, QtTypeOK,
         supportVars, fetchVars, timerVars, qtVars, powerVars, NoResume
<1> QED BY <1>1, <1>2 DEF TypeOK

LEMMA MainLockKeepsTypes ==
    ASSUME TypeOK, MainLockStep PROVE TypeOK'
<1>1. ShmTypeOK'
  BY LockerTypes DEF TypeOK, MainLockStep, MainLock, ShmTypeOK, stayVars,
                     exVars, Lockers
<1>2. MainTypeOK' /\ IniTypeOK' /\ DriverTypeOK'
  BY IniFrame, DriverFrame
     DEF TypeOK, MainLockStep, MainLock, MainTypeOK, Goto, MainSteps,
         BootSteps, LockedSteps
<1>3. SupportTypeOK' /\ QtTypeOK' /\ (outages \in 0..MaxOutages)'
      /\ (resumeAt \in Nat \cup {NoResume})'
  BY DEF TypeOK, MainLockStep, OthersThanMain, SupportTypeOK, QtTypeOK,
         supportVars, fetchVars, timerVars, qtVars, powerVars, NoResume
<1> QED BY <1>1, <1>2, <1>3 DEF TypeOK

LEMMA SpawnKeepsTypes == ASSUME TypeOK, SpawnStep PROVE TypeOK'
<1>1. ShmTypeOK' /\ IniTypeOK' /\ DriverTypeOK'
  BY IniFrame, DriverFrame, ShmFrame DEF TypeOK, SpawnStep, Spawn
<1>2. MainTypeOK' /\ SupportTypeOK'
  BY DEF TypeOK, SpawnStep, Spawn, MainTypeOK, SupportTypeOK, fetchVars,
         timerVars, Goto, SGoto, MainSteps, SupportSteps
<1>3. QtTypeOK' /\ (outages \in 0..MaxOutages)'
      /\ (resumeAt \in Nat \cup {NoResume})'
  BY DEF TypeOK, SpawnStep, QtTypeOK, qtVars, powerVars, NoResume
<1> QED BY <1>1, <1>2, <1>3 DEF TypeOK

-----------------------------------------------------------------------------
(* Program two. *)

LEMMA SupportIniSteps ==
    ASSUME SupportNext
    PROVE  \/ UNCHANGED iniVars
           \/ Load("support")
           \/ OpenForWriting
           \/ Save(iniLoaded["support"])
  BY DEF SupportNext, SupportRuns, AttachLoad, AttachOpen, AttachSave,
         FirstInterval, NextInterval, Poll, PreloadOpen, PreloadRead,
         PreloadEnd, PreloadAdvance, PreloadFull, SupportUnlock, SupportLock,
         CheckFetch

LEMMA SupportShmSteps ==
    ASSUME SupportNext
    PROVE  \/ UNCHANGED shmVars
           \/ PreloadAdvance \/ PreloadFull \/ SupportLock \/ SupportUnlock
  BY DEF SupportNext, SupportRuns, AttachLoad, AttachOpen, AttachSave,
         FirstInterval, NextInterval, Poll, PreloadOpen, PreloadRead,
         PreloadEnd, CheckFetch

LEMMA SupportDriverSteps ==
    ASSUME SupportNext PROVE UNCHANGED driverVars \/ PreloadRead
  BY DEF SupportNext, SupportRuns, AttachLoad, AttachOpen, AttachSave,
         FirstInterval, NextInterval, Poll, PreloadOpen, PreloadEnd,
         PreloadAdvance, PreloadFull, SupportUnlock, SupportLock, CheckFetch

LEMMA SupportKeepsOwnTypes ==
    ASSUME SupportTypeOK, IntWine_File_Pos \in Nat, Color_Num \in Nat,
           Wine_End \in BOOLEAN, Buffer_Full \in BOOLEAN, SupportNext
    PROVE  SupportTypeOK'
<1> USE DEF SupportTypeOK, SGoto, SupportSteps, PreloadSteps
<1>1. CASE AttachLoad \/ AttachOpen \/ AttachSave \/ Poll \/ SupportLock
           \/ SupportUnlock \/ PreloadEnd
  BY <1>1 DEF AttachLoad, AttachOpen, AttachSave, Poll, SupportLock,
              SupportUnlock, PreloadEnd, fetchVars, timerVars
<1>2. CASE FirstInterval \/ NextInterval
  BY <1>2 DEF FirstInterval, NextInterval, SetInterval, fetchVars, timerVars
<1>3. CASE CheckFetch
  BY <1>3 DEF CheckFetch, FetchNeeded, fetchVars, timerVars
<1>4. CASE PreloadOpen
  BY <1>4, SupportAssumption DEF PreloadOpen, FirstLine, timerVars
<1>5. CASE PreloadRead
  BY <1>5 DEF PreloadRead, timerVars
<1>6. CASE PreloadAdvance
  BY <1>6 DEF PreloadAdvance, timerVars
<1>7. CASE PreloadFull
  BY <1>7 DEF PreloadFull, timerVars, fetchVars
<1> QED
  BY <1>1, <1>2, <1>3, <1>4, <1>5, <1>6, <1>7 DEF SupportNext, SupportRuns

LEMMA SupportKeepsIni == ASSUME IniTypeOK, SupportNext PROVE IniTypeOK'
<1>1. iniLoaded["support"] \in Inis /\ "support" \in Processes
  BY DEF IniTypeOK, Processes
<1> QED
  BY <1>1, SupportIniSteps, IniFrame, IniLoaded, IniOpened, IniSaved

LEMMA SupportKeepsShm == ASSUME ShmTypeOK, SupportNext PROVE ShmTypeOK'
<1>1. CASE PreloadAdvance
  <2>1. Buffer_Write' \in Slots /\ IntWine_File_Pos' \in Nat
    BY <1>1, NextSlotInRing, SupportAssumption
       DEF PreloadAdvance, ShmTypeOK, NextFilePos
  <2> QED BY <1>1, <2>1 DEF PreloadAdvance, ShmTypeOK, exVars
<1>2. CASE PreloadFull
  BY <1>2 DEF PreloadFull, ShmTypeOK, exVars
<1>3. CASE SupportLock \/ SupportUnlock
  BY <1>3, LockerTypes
     DEF SupportLock, SupportUnlock, ShmTypeOK, stayVars, exVars, Lockers
<1> QED BY <1>1, <1>2, <1>3, ShmFrame, SupportShmSteps

LEMMA SupportKeepsDriver ==
    ASSUME DriverTypeOK, Buffer_Write \in Slots, flw_pos \in Nat, SupportNext
    PROVE  DriverTypeOK'
<1>1. CASE PreloadRead
  BY <1>1, LineWritten DEF PreloadRead
<1> QED BY <1>1, SupportDriverSteps, DriverFrame

LEMMA SupportKeepsTypes ==
    ASSUME TypeOK, SupportNext, UNCHANGED OthersThanSupport
    PROVE  TypeOK'
<1>1. SupportTypeOK'
  BY SupportKeepsOwnTypes, RingAssumption DEF TypeOK, ShmTypeOK
<1>2. IniTypeOK' /\ ShmTypeOK' /\ DriverTypeOK'
  BY SupportKeepsIni, SupportKeepsShm, SupportKeepsDriver
     DEF TypeOK, ShmTypeOK, SupportTypeOK
<1>3. MainTypeOK' /\ QtTypeOK' /\ (outages \in 0..MaxOutages)'
      /\ (resumeAt \in Nat \cup {NoResume})'
  BY DEF TypeOK, OthersThanSupport, MainTypeOK, QtTypeOK, mainVars, qtVars,
         powerVars, NoResume
<1> QED BY <1>1, <1>2, <1>3 DEF TypeOK

-----------------------------------------------------------------------------
(* The operator and the power. *)

LEMMA QtKeepsTypes ==
    ASSUME TypeOK, QtRun \/ QtProceeds \/ GuiCommand, UNCHANGED OthersThanQt
    PROVE  TypeOK'
<1>1. QtTypeOK'
  BY QtAssumption
     DEF TypeOK, QtTypeOK, QtRun, QtProceeds, GuiCommand, InitTestLoad,
         InitTestOpen, InitTestSave, CommandCount, CommandStart, QGoto, QtSteps
<1>2. IniTypeOK'
  <2>1. iniLoaded["qt"] \in Inis /\ "qt" \in Processes
    BY DEF TypeOK, IniTypeOK, Processes
  <2>2. \/ UNCHANGED iniVars \/ Load("qt") \/ OpenForWriting
        \/ Save(iniLoaded["qt"])
    BY DEF QtRun, QtProceeds, GuiCommand, InitTestLoad, InitTestOpen,
           InitTestSave, CommandCount, CommandStart
  <2> QED
    BY <2>1, <2>2, IniFrame, IniLoaded, IniOpened, IniSaved DEF TypeOK
<1>3. ShmTypeOK'
  <2>1. CASE UNCHANGED shmVars
    BY <2>1, ShmFrame DEF TypeOK
  <2>2. CASE CommandCount
    BY <2>2, QtAssumption
       DEF CommandCount, TypeOK, ShmTypeOK, stayVars
  <2>3. CASE CommandStart
    BY <2>3 DEF CommandStart, TypeOK, ShmTypeOK, stayVars, exVars, Commands
  <2>4. CASE GuiCommand
    BY <2>4, QtAssumption
       DEF GuiCommand, TypeOK, ShmTypeOK, stayVars, exVars
  <2> QED
    BY <2>1, <2>2, <2>3, <2>4 DEF QtRun, QtProceeds, InitTestLoad,
       InitTestOpen, InitTestSave
<1>4. DriverTypeOK'
  BY DriverFrame DEF TypeOK, QtRun, QtProceeds, GuiCommand, InitTestLoad,
     InitTestOpen, InitTestSave, CommandCount, CommandStart
<1>5. MainTypeOK' /\ SupportTypeOK' /\ (outages \in 0..MaxOutages)'
      /\ (resumeAt \in Nat \cup {NoResume})'
  BY DEF TypeOK, OthersThanQt, MainTypeOK, SupportTypeOK, mainVars,
         supportVars, fetchVars, timerVars, powerVars, NoResume
<1> QED BY <1>1, <1>2, <1>3, <1>4, <1>5 DEF TypeOK

LEMMA Zeros ==
    /\ 0 \in Slots /\ 0 \in 0..MaxLines
    /\ 0 \in 0..OpenLimit
    /\ 0 \in 0..MaxJobs /\ 0 \in 0..MaxCommands /\ 0 \in 0..MaxOutages
<1>1. 0 \in Slots /\ 0 \in 0..MaxLines
  BY RingAssumption DEF Slots
<1>2. 0 \in 0..OpenLimit
  BY SupportAssumption
<1>3. 0 \in 0..MaxJobs /\ 0 \in 0..MaxCommands
  BY QtAssumption
<1>4. 0 \in 0..MaxOutages
  BY SystemAssumption
<1> QED BY <1>1, <1>2, <1>3, <1>4

LEMMA PowerOffKeepsTypes == ASSUME TypeOK, PowerOff PROVE TypeOK'
<1>1. IniTypeOK'
  BY DEF TypeOK, IniTypeOK, PowerOff, Inis, Empty
<1>2. DriverTypeOK'
  <2>1. carpet' = <<>> /\ data_length' = 0
        /\ hm6264' = [b \in Slots |-> [l \in 0..MaxLines-1 |-> Blank]]
    BY DEF PowerOff
  <2> QED BY <2>1 DEF DriverTypeOK, Blank
<1>3. ShmTypeOK'
  BY Zeros DEF PowerOff, ShmTypeOK, Commands
<1>4. MainTypeOK' /\ SupportTypeOK' /\ QtTypeOK'
  <2>1. MainTypeOK'
    BY DEF PowerOff, MainTypeOK, MainSteps, BootSteps, States, Commands
  <2>2. SupportTypeOK'
    BY Zeros DEF PowerOff, SupportTypeOK, SupportSteps
  <2>3. QtTypeOK'
    BY Zeros DEF PowerOff, QtTypeOK, QtSteps
  <2> QED BY <2>1, <2>2, <2>3
<1>5. (outages \in 0..MaxOutages)'
  BY SystemAssumption DEF PowerOff, TypeOK
<1>6. (resumeAt \in Nat \cup {NoResume})'
  <2>1. Wine_Start + RowsWoven \in Nat
    BY DEF TypeOK, ShmTypeOK, RowsWoven
  <2> QED BY <2>1 DEF PowerOff
<1> QED BY <1>1, <1>2, <1>3, <1>4, <1>5, <1>6 DEF TypeOK

LEMMA InitTypes == ASSUME Init PROVE TypeOK
<1>1. IniTypeOK
  BY InisAssumption DEF Init, IniInit, IniTypeOK, Inis, Empty
<1>2. DriverTypeOK
  BY DEF Init, DriverInit, DriverTypeOK, Blank
<1>3. ShmTypeOK
  BY Zeros DEF Init, ShmInit, ShmTypeOK, Commands
<1>4. MainTypeOK
  BY DEF Init, MainInit, MainTypeOK, MainSteps, BootSteps, States, Commands
<1>5. SupportTypeOK
  BY Zeros DEF Init, SupportInit, SupportTypeOK, SupportSteps
<1>6. QtTypeOK
  BY Zeros DEF Init, QtInit, QtTypeOK, QtSteps
<1> QED
  BY <1>1, <1>2, <1>3, <1>4, <1>5, <1>6, Zeros DEF Init, TypeOK

-----------------------------------------------------------------------------
(* The control of the two programs: JobInv, LineInv, LockInv, FetchInv. *)

LEMMA MainKeepsJob == ASSUME ControlInv, MainStep PROVE JobInv'
<1> USE DEF ControlInv, JobInv, MainStep, OthersThanMain, Goto, WeavingSteps,
        LockedSteps
<1>0. UNCHANGED <<qpc, NeedFetch, spc>>
  BY DEF supportVars, qtVars
<1>1. CASE MainBoot
  BY <1>0, <1>1 DEF MainBoot, MkShmLoad, MkShmOpen, MkShmSave, ReadLastLoad,
              ReadLastOpen, ReadLastSave, shmVars, exVars, stayVars
<1>2. CASE MainDispatch
  BY <1>0, <1>2 DEF MainDispatch, RunReady, RunReadyClear, RunStay,
              RunStayClear, RunRePair, RunIntWine, ReadCommand, NextState,
              shmVars, exVars, stayVars
<1>3. CASE MainWeave
  BY <1>0, <1>3 DEF MainWeave, SendOneLine, SendNothing, Ioctl, Advance,
              PosLoad, PosOpen, PosSave, MainUnlock, CountRows, DoneLoad,
              DoneOpen, DoneSave, shmVars, exVars, stayVars
<1> QED BY <1>1, <1>2, <1>3 DEF MainRuns

LEMMA MainKeepsLine == ASSUME ControlInv, MainStep PROVE LineInv'
<1> USE DEF ControlInv, LineInv, MainStep, Goto
<1>0. Colors \in Nat /\ P_Line_Num \in Nat
  BY QtAssumption, RingAssumption DEF TypeOK, MainTypeOK
<1>1. CASE MainBoot
  BY <1>0, <1>1 DEF MainBoot, MkShmLoad, MkShmOpen, MkShmSave, ReadLastLoad,
              ReadLastOpen, ReadLastSave
<1>2. CASE MainDispatch
  BY <1>0, <1>2 DEF MainDispatch, RunReady, RunReadyClear, RunStay,
              RunStayClear, RunRePair, RunIntWine, ReadCommand
<1>3. CASE MainWeave
  BY <1>0, <1>3, QtAssumption
     DEF MainWeave, SendOneLine, SendNothing, Ioctl, Advance,
              PosLoad, PosOpen, PosSave, MainUnlock, CountRows, DoneLoad,
              DoneOpen, DoneSave, RowSent, JobInv, WeavingSteps, LockedSteps
<1> QED BY <1>1, <1>2, <1>3 DEF MainRuns

LEMMA MainKeepsLock == ASSUME ControlInv, MainStep PROVE LockInv'
<1> USE DEF ControlInv, LockInv, MainStep, OthersThanMain, Goto, MainInLock,
        SupportInLock, LockedSteps
<1>0. UNCHANGED spc
  BY DEF supportVars
<1>1. CASE MainBoot
  BY <1>0, <1>1 DEF MainBoot, MkShmLoad, MkShmOpen, MkShmSave, ReadLastLoad,
              ReadLastOpen, ReadLastSave, shmVars
<1>2. CASE MainDispatch
  BY <1>0, <1>2 DEF MainDispatch, RunReady, RunReadyClear, RunStay,
              RunStayClear, RunRePair, RunIntWine, ReadCommand, shmVars
<1>3. CASE MainWeave
  BY <1>0, <1>3 DEF MainWeave, SendOneLine, SendNothing, Ioctl, Advance,
              PosLoad, PosOpen, PosSave, MainUnlock, CountRows, DoneLoad,
              DoneOpen, DoneSave, ReleaseLock, shmVars
<1> QED BY <1>1, <1>2, <1>3 DEF MainRuns

LEMMA MainKeepsFetch == ASSUME ControlInv, MainStep PROVE FetchInv'
<1>1. UNCHANGED <<NeedFetch, spc>>
  BY DEF MainStep, OthersThanMain, supportVars
<1>2. UNCHANGED Buffer_Full \/ Buffer_Full' = FALSE
  BY MainShmSteps
     DEF MainStep, shmVars, stayVars, ReadLastSave, RunReadyClear,
         RunStayClear, SendOneLine, FullAfterSend, Advance, MainUnlock,
         CountRows
<1> QED BY <1>1, <1>2 DEF ControlInv, FetchInv

LEMMA MainLockKeepsControl ==
    ASSUME ControlInv, MainLockStep
    PROVE  JobInv' /\ LineInv' /\ LockInv' /\ FetchInv'
<1> USE DEF ControlInv, MainLockStep, MainLock, OthersThanMain, supportVars,
        Goto
<1>1. JobInv'
  BY DEF JobInv, qtVars, exVars, WeavingSteps, LockedSteps
<1>2. LineInv'
  BY DEF LineInv
<1>3. LockInv'
  BY DEF LockInv, AcquireLock, MainInLock, SupportInLock, LockedSteps
<1>4. FetchInv'
  BY DEF FetchInv, stayVars
<1> QED BY <1>1, <1>2, <1>3, <1>4

LEMMA SpawnKeepsControl ==
    ASSUME ControlInv, SpawnStep
    PROVE  JobInv' /\ LineInv' /\ LockInv' /\ FetchInv'
<1> USE DEF ControlInv, SpawnStep, Spawn, Goto, SGoto, shmVars
<1>1. JobInv'
  BY DEF JobInv, qtVars, exVars, WeavingSteps, LockedSteps, FetchSteps,
         PreloadSteps
<1>2. LineInv'
  BY DEF LineInv
<1>3. LockInv'
  BY DEF LockInv, MainInLock, SupportInLock, LockedSteps, PreloadSteps
<1>4. FetchInv'
  BY DEF FetchInv, stayVars, FetchSteps, PreloadSteps
<1> QED BY <1>1, <1>2, <1>3, <1>4

LEMMA SupportKeepsControl ==
    ASSUME ControlInv, SupportNext, UNCHANGED OthersThanSupport
    PROVE  JobInv' /\ LineInv' /\ LockInv' /\ FetchInv'
<1>0. UNCHANGED <<mpc, P_State, P_Line_Num, command, qpc>>
  BY DEF OthersThanSupport, mainVars, qtVars
<1>1. UNCHANGED <<Q_Command, Wine_End, Color_Num>>
  BY SupportShmSteps DEF shmVars, exVars, PreloadAdvance, PreloadFull,
                         SupportLock, SupportUnlock
<1> USE DEF ControlInv, SGoto, FetchSteps, PreloadSteps
<1>2. JobInv'
  <2>1. CASE CheckFetch
    BY <1>0, <1>1, <2>1 DEF JobInv, CheckFetch, FetchNeeded
  <2>2. CASE SupportNext /\ ~CheckFetch
    <3>1. NeedFetch' = NeedFetch \/ NeedFetch' = FALSE
      BY <2>2
         DEF SupportNext, SupportRuns, AttachLoad, AttachOpen, AttachSave,
             FirstInterval, NextInterval, Poll, PreloadOpen, PreloadRead,
             PreloadEnd, PreloadAdvance, PreloadFull, SupportUnlock,
             SupportLock
    <3>2. spc' \in FetchSteps => spc \in FetchSteps \/ NeedFetch
      BY <2>2
         DEF SupportNext, SupportRuns, AttachLoad, AttachOpen, AttachSave,
             FirstInterval, NextInterval, Poll, PreloadOpen, PreloadRead,
             PreloadEnd, PreloadAdvance, PreloadFull, SupportUnlock,
             SupportLock
    <3> QED BY <1>0, <1>1, <3>1, <3>2 DEF JobInv
  <2> QED BY <2>1, <2>2
<1>3. LineInv'
  BY <1>0 DEF LineInv
<1>4. LockInv'
  BY <1>0
     DEF LockInv, SupportNext, SupportRuns, AttachLoad, AttachOpen, AttachSave,
         FirstInterval, NextInterval, Poll, PreloadOpen, PreloadRead,
         PreloadEnd, PreloadAdvance, PreloadFull, SupportUnlock, SupportLock,
         CheckFetch, AcquireLock, ReleaseLock, MainInLock, SupportInLock,
         shmVars, LockedSteps
<1>5. FetchInv'
  BY DEF FetchInv, SupportNext, SupportRuns, AttachLoad, AttachOpen,
         AttachSave, FirstInterval, NextInterval, Poll, PreloadOpen,
         PreloadRead, PreloadEnd, PreloadAdvance, PreloadFull, SupportUnlock,
         SupportLock, CheckFetch, FetchNeeded, shmVars, stayVars
<1> QED BY <1>2, <1>3, <1>4, <1>5

LEMMA QtKeepsControl ==
    ASSUME ControlInv, QtRun \/ QtProceeds \/ GuiCommand,
           UNCHANGED OthersThanQt
    PROVE  JobInv' /\ LineInv' /\ LockInv' /\ FetchInv'
<1>0. UNCHANGED <<mpc, P_State, P_Line_Num, command, spc, NeedFetch>>
  BY DEF OthersThanQt, mainVars, supportVars
<1>1. UNCHANGED <<Wine_End, lock, Buffer_Full>>
  BY DEF QtRun, QtProceeds, GuiCommand, InitTestLoad, InitTestOpen,
         InitTestSave, CommandCount, CommandStart, shmVars, stayVars, exVars
<1>2. JobInv'
  BY <1>0, <1>1, QtAssumption
     DEF ControlInv, JobInv, QtRun, QtProceeds, GuiCommand, InitTestLoad,
         InitTestOpen, InitTestSave, CommandCount, CommandStart, QGoto,
         shmVars, exVars
<1>3. LineInv' /\ LockInv' /\ FetchInv'
  BY <1>0, <1>1
     DEF ControlInv, LineInv, LockInv, FetchInv, MainInLock, SupportInLock
<1> QED BY <1>2, <1>3

LEMMA PowerOffKeepsControl ==
    ASSUME PowerOff PROVE JobInv' /\ LineInv' /\ LockInv' /\ FetchInv'
<1>1. 0 \in 0..Colors-1
  BY QtAssumption, RingAssumption
<1>2. JobInv'
  BY DEF PowerOff, JobInv, WeavingSteps, LockedSteps, FetchSteps, PreloadSteps
<1>3. LineInv'
  BY <1>1 DEF PowerOff, LineInv
<1>4. LockInv' /\ FetchInv'
  BY DEF PowerOff, LockInv, FetchInv, MainInLock, SupportInLock, LockedSteps,
         PreloadSteps
<1> QED BY <1>2, <1>3, <1>4

LEMMA InitControl == ASSUME Init PROVE ControlInv
<1>1. 0 \in 0..Colors-1
  BY QtAssumption, RingAssumption
<1>2. JobInv
  BY DEF Init, ShmInit, MainInit, SupportInit, QtInit, JobInv, WeavingSteps,
         LockedSteps, FetchSteps, PreloadSteps
<1>3. LineInv
  BY <1>1 DEF Init, MainInit, LineInv
<1>4. LockInv /\ FetchInv
  BY DEF Init, ShmInit, MainInit, SupportInit, LockInv, FetchInv, MainInLock,
         SupportInLock, LockedSteps, PreloadSteps
<1> QED BY <1>2, <1>3, <1>4, InitTypes DEF ControlInv

LEMMA StutterKeepsControl == ASSUME ControlInv, UNCHANGED vars
                             PROVE  ControlInv'
<1>1. /\ UNCHANGED iniVars /\ UNCHANGED driverVars /\ UNCHANGED shmVars
      /\ UNCHANGED mainVars /\ UNCHANGED supportVars /\ UNCHANGED qtVars
      /\ UNCHANGED powerVars
  BY DEF vars
<1>2. TypeOK'
  BY <1>1, IniFrame, DriverFrame, ShmFrame
     DEF ControlInv, TypeOK, MainTypeOK, SupportTypeOK, QtTypeOK, mainVars,
         supportVars, fetchVars, timerVars, qtVars, powerVars
<1>3. JobInv' /\ LineInv' /\ LockInv' /\ FetchInv'
  BY <1>1 DEF ControlInv, JobInv, LineInv, LockInv, FetchInv, MainInLock,
              SupportInLock, mainVars, supportVars, qtVars, shmVars, stayVars,
              exVars
<1> QED BY <1>2, <1>3 DEF ControlInv

LEMMA NextKeepsControl == ASSUME ControlInv, [Next]_vars PROVE ControlInv'
<1>1. CASE MainStep
  BY <1>1, MainKeepsTypes, MainKeepsJob, MainKeepsLine, MainKeepsLock,
     MainKeepsFetch DEF ControlInv
<1>2. CASE MainLockStep
  BY <1>2, MainLockKeepsTypes, MainLockKeepsControl DEF ControlInv
<1>3. CASE SpawnStep
  BY <1>3, SpawnKeepsTypes, SpawnKeepsControl DEF ControlInv
<1>4. CASE SupportStep \/ SupportLockStep \/ TimerStep
  <2>1. SupportNext /\ UNCHANGED OthersThanSupport
    BY <1>4 DEF SupportStep, SupportLockStep, TimerStep, SupportNext
  <2> QED BY <2>1, SupportKeepsTypes, SupportKeepsControl DEF ControlInv
<1>5. CASE QtStart \/ QtStep \/ GuiStep
  <2>1. (QtRun \/ QtProceeds \/ GuiCommand) /\ UNCHANGED OthersThanQt
    BY <1>5 DEF QtStart, QtStep, GuiStep
  <2> QED BY <2>1, QtKeepsTypes, QtKeepsControl DEF ControlInv
<1>6. CASE PowerOff
  BY <1>6, PowerOffKeepsTypes, PowerOffKeepsControl DEF ControlInv
<1>7. CASE UNCHANGED vars
  BY <1>7, StutterKeepsControl
<1> QED BY <1>1, <1>2, <1>3, <1>4, <1>5, <1>6, <1>7 DEF Next

(* Whatever the constants: the controller keeps ControlInv. *)
THEOREM ControlInvariant == Spec => []ControlInv
<1>1. Init => ControlInv
  BY InitControl
<1>2. ControlInv /\ [Next]_vars => ControlInv'
  BY NextKeepsControl
<1> QED BY <1>1, <1>2, PTL DEF Spec

(* Every variable keeps its type: the indices stay in the ring, the line   *)
(* sent in its buffer, the file a file.                                    *)
THEOREM TypeCorrect == Spec => []TypeOK
<1>1. ControlInv => TypeOK
  BY DEF ControlInv
<1> QED BY <1>1, ControlInvariant, PTL

(* With a lock file the two programs are never both between file_lock and  *)
(* file_unlock.                                                            *)
THEOREM MutuallyExclusive == ASSUME LockFile PROVE Spec => []MutualExclusion
<1>1. ControlInv => MutualExclusion
  BY DEF ControlInv, LockInv, MutualExclusion
<1> QED BY <1>1, ControlInvariant, PTL

(* A prefetch is never wanted while the ring is full. *)
THEOREM FetchHasRoom == Spec => []FetchFindsRoom
<1>1. ControlInv => FetchFindsRoom
  BY DEF ControlInv, FetchInv, FetchFindsRoom
<1> QED BY <1>1, ControlInvariant, PTL
============================================================================
