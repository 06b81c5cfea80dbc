---------------------------- MODULE MissionProofs ----------------------------
(***************************************************************************)
(* Proofs about missions and about thj.ini, for every number of colours,   *)
(* buffers and rows, with or without the lock file.  First MissionInv: a   *)
(* first mission sends exactly its lines, whatever the operator does.      *)
(* Then FileInv, for an operator who waits: the programs rewrite thj.ini   *)
(* one at a time, so it tells the rows woven, keeps its sections, and      *)
(* after the first power failure tells where the mission was cut off.      *)
(***************************************************************************)
EXTENDS WeaveProofs

-----------------------------------------------------------------------------
(* Arithmetic of rows and lines. *)

LEMMA OneRowMore ==
    ASSUME NEW a \in Nat, NEW c \in Nat
    PROVE  (a + 1) * c = a * c + c /\ a * c \in Nat /\ 0 * c = 0
  OBVIOUS

LEMMA LessRows ==
    ASSUME NEW a \in Nat, NEW b \in Nat, NEW c \in Nat, a <= b
    PROVE  a * c <= b * c
<1>1. b * c = a * c + (b - a) * c /\ (b - a) * c >= 0
  OBVIOUS
<1>2. a * c \in Nat /\ b * c \in Nat /\ (b - a) * c \in Nat
  OBVIOUS
<1> QED BY <1>1, <1>2

LEMMA MissionTypes ==
    ASSUME ControlInv
    PROVE  /\ Wine_Now \in Nat /\ Wine_Count \in Nat /\ P_Line_Num \in Nat
           /\ Color_Num \in {0, Colors} /\ Colors \in Nat \ {0}
           /\ carpet \in Seq(Int) /\ Len(carpet) \in Nat
           /\ jobs \in Nat
<1>1. Colors \in Nat \ {0}
  BY QtAssumption, RingAssumption
<1>2. jobs \in Nat
  BY QtAssumption DEF ControlInv, TypeOK, QtTypeOK
<1>3. carpet \in Seq(Int) /\ Len(carpet) \in Nat
  BY DEF ControlInv, TypeOK, DriverTypeOK
<1>4. /\ Wine_Now \in Nat /\ Wine_Count \in Nat /\ P_Line_Num \in Nat
      /\ Color_Num \in {0, Colors}
  BY DEF ControlInv, TypeOK, ShmTypeOK, MainTypeOK, JobInv
<1> QED BY <1>1, <1>2, <1>3, <1>4

-----------------------------------------------------------------------------
(* The steps that change nothing a mission is counted by, and go neither   *)
(* to nor from a place that MissionInv tells apart from the others.        *)
Counting == PosSteps \cup {"unlock", "count"}

MissionAside ==
    /\ UNCHANGED <<carpet, Wine_Now, Wine_Count, Color_Num, P_Line_Num,
                   P_State, Q_Command, jobs, qpc>>
    /\ \/ mpc' = mpc /\ command' = command
       \/ /\ mpc # "ioctl" /\ mpc' \notin {"ioctl", "ready_clear"}
          /\ mpc' \in DoneSteps => mpc \in DoneSteps
          /\ mpc \in Counting => mpc' \in Counting

LEMMA MissionFrame == ASSUME MissionInv, MissionAside PROVE MissionInv'
<1>1. CountInv'
  BY DEF MissionInv, CountInv, MissionAside, DoneSteps
<1>2. StartPending' => StartPending
  BY DEF MissionAside, StartPending, StartRead
<1>3. StartRead' => StartRead
  BY DEF MissionAside, StartRead
<1>4. LastRowCounted => LastRowCounted'
  BY DEF MissionAside, LastRowCounted, Counting
<1>5. Begun' = Begun
  BY DEF MissionAside, Begun
<1>6. mpc' \in DoneSteps => mpc \in DoneSteps
  BY DEF MissionAside
<1>7. OnceInv'
  BY <1>2, <1>3, <1>4, <1>5, <1>6 DEF MissionInv, OnceInv, MissionAside
<1> QED BY <1>1, <1>7 DEF MissionInv

LEMMA MainMissionAside ==
    ASSUME UNCHANGED qtVars,
           \/ MainBoot \/ RunStay \/ RunRePair \/ RunIntWine \/ MainLock
           \/ SendNothing \/ PosLoad \/ PosOpen \/ PosSave \/ MainUnlock
           \/ DoneLoad \/ DoneOpen \/ DoneSave
    PROVE  MissionAside
<1> USE DEF MissionAside, Goto, DoneSteps, PosSteps, Counting, qtVars,
            driverVars
<1>1. CASE MainBoot
  BY <1>1 DEF MainBoot, MkShmLoad, MkShmOpen, MkShmSave, ReadLastLoad,
              ReadLastOpen, ReadLastSave, shmVars, exVars
<1>2. CASE RunStay \/ RunRePair \/ RunIntWine
  BY <1>2 DEF RunStay, ReadCommand, RunRePair, RunIntWine, shmVars, exVars
<1>3. CASE MainLock \/ MainUnlock
  BY <1>3 DEF MainLock, MainUnlock, exVars
<1>4. CASE SendNothing
  BY <1>4 DEF SendNothing, shmVars, exVars
<1>5. CASE PosLoad \/ PosOpen \/ PosSave
  BY <1>5 DEF PosLoad, PosOpen, PosSave, shmVars, exVars
<1>6. CASE DoneLoad \/ DoneOpen \/ DoneSave
  BY <1>6 DEF DoneLoad, DoneOpen, DoneSave, shmVars, exVars
<1> QED BY <1>1, <1>2, <1>3, <1>4, <1>5, <1>6

LEMMA SupportMissionAside ==
    ASSUME SupportNext, UNCHANGED OthersThanSupport PROVE MissionAside
<1>1. UNCHANGED <<mpc, P_State, P_Line_Num, command, jobs, qpc>>
  BY DEF OthersThanSupport, mainVars, qtVars
<1>2. UNCHANGED <<Wine_Now, Wine_Count, Color_Num, Q_Command>>
  BY SupportShmSteps DEF shmVars, exVars, PreloadAdvance, PreloadFull,
                         SupportLock, SupportUnlock
<1>3. UNCHANGED carpet
  BY SupportDriverSteps DEF driverVars, PreloadRead, Write6264
<1> QED BY <1>1, <1>2, <1>3 DEF MissionAside

-----------------------------------------------------------------------------
(* f_Run_Ready and f_Run_Stay. *)

LEMMA ReadyKeepsMission ==
    ASSUME ControlInv, MissionInv, RunReady, UNCHANGED qtVars
    PROVE  MissionInv'
<1>1. /\ mpc = "loop" /\ mpc' = "ready_clear" /\ P_State = "Ready"
      /\ command' = Q_Command
      /\ UNCHANGED <<carpet, Wine_Now, Wine_Count, Color_Num, P_Line_Num,
                     P_State, Q_Command, jobs, qpc>>
  BY DEF RunReady, ReadCommand, Goto, shmVars, exVars, driverVars, qtVars
<1>2. CountInv'
  BY <1>1 DEF MissionInv, CountInv, DoneSteps
<1>3. StartRead' => Q_Command = "Start"
  BY <1>1 DEF StartRead
<1>4. StartPending' = StartPending
  BY <1>1, <1>3 DEF StartPending, StartRead
<1>5. OnceInv'
  BY <1>1, <1>3, <1>4
     DEF MissionInv, OnceInv, Begun, LastRowCounted, DoneSteps, PosSteps
<1> QED BY <1>2, <1>5 DEF MissionInv

(* The command read and the mailbox become the state of the machine.       *)
LEMMA ReadyClearKeepsMission ==
    ASSUME ControlInv, MissionInv, RunReadyClear, UNCHANGED qtVars
    PROVE  MissionInv'
<1>1. /\ mpc = "ready_clear" /\ mpc' = "loop" /\ Q_Command' = "None"
      /\ P_State' = NextState(command)
      /\ UNCHANGED <<carpet, Wine_Now, Wine_Count, Color_Num, P_Line_Num,
                     command, jobs, qpc>>
  BY DEF RunReadyClear, Goto, exVars, driverVars, qtVars
<1>2. CountInv'
  BY <1>1 DEF MissionInv, CountInv, DoneSteps
<1>3. Begun' => StartRead
  BY <1>1 DEF Begun, StartRead, NextState
<1>4. StartPending' => qpc = "start"
  BY <1>1 DEF StartPending, StartRead
<1>5. ~StartRead' /\ mpc' \notin DoneSteps
  BY <1>1 DEF StartRead, DoneSteps
<1>6. ASSUME jobs' <= 1
      PROVE  /\ jobs' = 0 => qpc' = "idle"
             /\ \/ jobs' = 0
                \/ qpc' \in {"init_load", "init_open", "init_save", "count"}
                => Color_Num' = 0
             /\ Color_Num' # 0 =>
                    \/ Wine_Now' < Wine_Count'
                    \/ Wine_Now' = Wine_Count' /\ P_Line_Num' = 0
  <2>1. mpc \notin DoneSteps /\ OnceInv /\ jobs <= 1
    BY <1>1, <1>6 DEF DoneSteps, MissionInv
  <2> QED BY <1>1, <2>1 DEF OnceInv
<1>7. ASSUME jobs' <= 1, StartPending'
      PROVE  /\ ~Begun' /\ Wine_Now' = 0 /\ P_Line_Num' = 0
             /\ Wine_Now' < Wine_Count'
             /\ qpc' = "start" => Q_Command' # "Start"
  <2>1. OnceInv /\ jobs <= 1 /\ StartPending /\ qpc = "start"
    BY <1>1, <1>4, <1>7 DEF MissionInv, StartPending
  <2> QED BY <1>1, <1>3, <2>1 DEF OnceInv
<1>8. ASSUME jobs' <= 1, Begun' PROVE Wine_Now' < Wine_Count'
  <2>1. OnceInv /\ jobs <= 1 /\ StartPending
    BY <1>1, <1>3, <1>8 DEF MissionInv, StartPending
  <2> QED BY <1>1, <2>1 DEF OnceInv
<1>9. OnceInv'
  BY <1>1, <1>5, <1>6, <1>7, <1>8 DEF OnceInv, StartPending
<1> QED BY <1>2, <1>9 DEF MissionInv

LEMMA StayClearKeepsMission ==
    ASSUME ControlInv, MissionInv, RunStayClear, UNCHANGED qtVars
    PROVE  MissionInv'
<1>1. /\ mpc = "stay_clear" /\ mpc' = "loop" /\ Q_Command' = "None"
      /\ P_State = "Stay" /\ P_State' = "IntWine"
      /\ UNCHANGED <<carpet, Wine_Now, Wine_Count, Color_Num, P_Line_Num,
                     command, jobs, qpc>>
  BY DEF RunStayClear, Goto, driverVars, qtVars, ControlInv, JobInv
<1>2. CountInv'
  BY <1>1 DEF MissionInv, CountInv, DoneSteps
<1>3. Begun /\ Begun' /\ ~StartRead' /\ mpc' \notin DoneSteps
  BY <1>1 DEF Begun, StartRead, DoneSteps
<1>4. StartPending' => StartPending
  BY <1>1 DEF StartPending, StartRead
<1>5. ~LastRowCounted
  BY <1>1 DEF LastRowCounted, PosSteps
<1>6. OnceInv'
  BY <1>1, <1>3, <1>4, <1>5 DEF MissionInv, OnceInv
<1> QED BY <1>2, <1>6 DEF MissionInv

-----------------------------------------------------------------------------
(* f_Send_One_Line and f_Run_IntWine.  In all of these steps the mission   *)
(* has begun, so no Start is pending.                                      *)

LEMMA WeavingHasBegun ==
    ASSUME ControlInv, mpc \in WeavingSteps
    PROVE  Begun /\ Color_Num = Colors
<1>1. P_State = "IntWine" /\ Color_Num \in {0, Colors}
  BY DEF ControlInv, JobInv
<1>2. Color_Num # 0
  BY <1>1 DEF ControlInv, JobInv
<1> QED BY <1>1, <1>2 DEF Begun

LEMMA SendKeepsMission ==
    ASSUME ControlInv, MissionInv, SendOneLine, UNCHANGED qtVars
    PROVE  MissionInv'
<1>1. /\ mpc = "send" /\ mpc' = "ioctl" /\ P_Line_Num' = P_Line_Num + 1
      /\ UNCHANGED <<carpet, Wine_Now, Wine_Count, Color_Num, P_State,
                     command, Q_Command, jobs, qpc>>
  BY DEF SendOneLine, Goto, exVars, driverVars, qtVars
<1>2. Begun /\ Color_Num = Colors /\ Colors # 0
  BY <1>1, WeavingHasBegun, MissionTypes DEF WeavingSteps, LockedSteps
<1>3. Wine_Now * Color_Num \in Nat
  BY <1>2, MissionTypes, OneRowMore
<1>4. CountInv'
  <2> DEFINE product == Wine_Now * Color_Num
  <2>1. Len(carpet) = product + P_Line_Num - 0
    BY <1>1 DEF MissionInv, CountInv
  <2>2. product' = product /\ product \in Nat
    BY <1>1, <1>3
  <2> HIDE DEF product
  <2>3. Len(carpet') = product' + P_Line_Num' - 1
    BY <1>1, <2>1, <2>2, MissionTypes
  <2> QED BY <1>1, <1>2, <2>3 DEF CountInv, DoneSteps, product
<1>5. ~LastRowCounted /\ mpc' \notin DoneSteps
  BY <1>1 DEF LastRowCounted, PosSteps, DoneSteps
<1>6. StartPending' = StartPending /\ StartRead' = StartRead /\ Begun' = Begun
  BY <1>1 DEF StartPending, StartRead, Begun
<1>7. OnceInv'
  BY <1>1, <1>2, <1>5, <1>6 DEF MissionInv, OnceInv
<1> QED BY <1>4, <1>7 DEF MissionInv

LEMMA IoctlKeepsMission ==
    ASSUME ControlInv, MissionInv, Ioctl, UNCHANGED qtVars
    PROVE  MissionInv'
<1>1. /\ mpc = "ioctl" /\ mpc' \in {"advance", "unlock"}
      /\ Len(carpet') = Len(carpet) + 1
      /\ UNCHANGED <<Wine_Now, Wine_Count, Color_Num, P_Line_Num, P_State,
                     command, Q_Command, jobs, qpc>>
  BY MissionTypes DEF Ioctl, SendLine, shmVars, exVars, qtVars
<1>2. Begun /\ Color_Num = Colors /\ Colors # 0
  BY <1>1, WeavingHasBegun, MissionTypes DEF WeavingSteps, LockedSteps
<1>3. CountInv'
  <2> DEFINE product == Wine_Now * Color_Num
  <2>1. Len(carpet) = product + P_Line_Num - 1
    BY <1>1 DEF MissionInv, CountInv
  <2>2. product' = product /\ product \in Nat
    BY <1>1, <1>2, MissionTypes, OneRowMore
  <2> HIDE DEF product
  <2>3. Len(carpet') = product' + P_Line_Num' - 0
    BY <1>1, <2>1, <2>2, MissionTypes
  <2> QED BY <1>1, <1>2, <2>3 DEF CountInv, DoneSteps, product
<1>4. ~LastRowCounted /\ mpc' \notin DoneSteps
  BY <1>1 DEF LastRowCounted, PosSteps, DoneSteps
<1>5. StartPending' = StartPending /\ StartRead' = StartRead /\ Begun' = Begun
  BY <1>1 DEF StartPending, StartRead, Begun
<1>6. OnceInv'
  BY <1>1, <1>2, <1>4, <1>5 DEF MissionInv, OnceInv
<1> QED BY <1>3, <1>6 DEF MissionInv

(* The row counted may be the last one; f_Run_IntWine has yet to see it.   *)
LEMMA AdvanceKeepsMission ==
    ASSUME ControlInv, MissionInv, Advance, UNCHANGED qtVars
    PROVE  MissionInv'
<1>1. /\ mpc = "advance" /\ mpc' = "pos_load"
      /\ Wine_Now' = Wine_Now + 1 /\ P_Line_Num' = 0
      /\ UNCHANGED <<carpet, Wine_Count, Color_Num, P_State, command,
                     Q_Command, jobs, qpc>>
  BY DEF Advance, Goto, driverVars, qtVars
<1>2. Begun /\ Color_Num = Colors /\ Colors # 0
  BY <1>1, WeavingHasBegun, MissionTypes DEF WeavingSteps, LockedSteps
<1>3. P_Line_Num = Colors
  BY <1>1 DEF ControlInv, LineInv
<1>4. CountInv'
  <2> DEFINE product == Wine_Now * Color_Num
  <2>1. Len(carpet) = product + P_Line_Num - 0
    BY <1>1 DEF MissionInv, CountInv
  <2>2. (Wine_Now + 1) * Color_Num = product + Color_Num
        /\ product \in Nat
    BY <1>2, MissionTypes, OneRowMore
  <2>3. Wine_Now' * Color_Num' = product + Color_Num
    BY <1>1, <2>2
  <2> HIDE DEF product
  <2>4. Len(carpet') = (product + Color_Num) + P_Line_Num' - 0
    BY <1>1, <1>2, <1>3, <2>1, <2>2, MissionTypes
  <2>5. Len(carpet') = Wine_Now' * Color_Num' + P_Line_Num' - 0
    BY <2>3, <2>4
  <2> QED BY <1>1, <1>2, <2>5 DEF CountInv, DoneSteps
<1>5. ~LastRowCounted /\ mpc' \notin DoneSteps
  BY <1>1 DEF LastRowCounted, PosSteps, DoneSteps
<1>6. StartPending' = StartPending /\ StartRead' = StartRead /\ Begun' = Begun
  BY <1>1 DEF StartPending, StartRead, Begun
<1>7. Wine_Now' = Wine_Count' => LastRowCounted'
  BY <1>1 DEF LastRowCounted, PosSteps
<1>8. ASSUME jobs <= 1
      PROVE  /\ Wine_Now' < Wine_Count' \/ Wine_Now' = Wine_Count'
             /\ ~StartPending
    BY <1>1, <1>2, <1>5, <1>8, MissionTypes DEF MissionInv, OnceInv
<1>9. OnceInv'
  BY <1>1, <1>2, <1>5, <1>6, <1>7, <1>8 DEF MissionInv, OnceInv
<1> QED BY <1>4, <1>9 DEF MissionInv

LEMMA CountKeepsMission ==
    ASSUME ControlInv, MissionInv, CountRows, UNCHANGED qtVars
    PROVE  MissionInv'
<1>1. /\ mpc = "count"
      /\ IF Wine_Count = Wine_Now
         THEN mpc' = "done_load" /\ P_State' = "Ready"
         ELSE mpc' = "loop" /\ P_State' = P_State
      /\ UNCHANGED <<carpet, Wine_Now, Wine_Count, Color_Num, P_Line_Num,
                     command, Q_Command, jobs, qpc>>
  BY DEF CountRows, MissionWoven, driverVars, qtVars
<1>2. Begun /\ Color_Num = Colors /\ Colors # 0
  BY <1>1, WeavingHasBegun, MissionTypes DEF WeavingSteps
<1>3. CountInv'
  BY <1>1, <1>2 DEF MissionInv, CountInv, DoneSteps
<1>4. StartPending' => StartPending
  BY <1>1 DEF StartPending, StartRead
<1>5. ~StartRead' /\ (Begun' => Begun)
  BY <1>1 DEF StartRead, Begun
<1>6. ASSUME jobs <= 1
      PROVE  /\ ~StartPending
             /\ \/ Wine_Now < Wine_Count
                \/ Wine_Now = Wine_Count /\ P_Line_Num = 0
    BY <1>2, <1>6 DEF MissionInv, OnceInv, LastRowCounted
<1>7. CASE Wine_Count = Wine_Now
  <2>1. ~Begun' /\ Wine_Now' = Wine_Count'
    BY <1>1, <1>7 DEF Begun
  <2>2. jobs <= 1 => P_Line_Num' = 0
    BY <1>1, <1>6, <1>7, MissionTypes
  <2>3. OnceInv'
    BY <1>1, <1>2, <1>4, <1>5, <1>6, <2>1, <2>2 DEF MissionInv, OnceInv
  <2> QED BY <1>3, <2>3 DEF MissionInv
<1>8. CASE Wine_Count # Wine_Now
  <2>1. mpc' \notin DoneSteps
    BY <1>1, <1>8 DEF DoneSteps
  <2>2. jobs <= 1 => Wine_Now' < Wine_Count'
    BY <1>1, <1>6, <1>8
  <2>3. OnceInv'
    BY <1>1, <1>2, <1>4, <1>5, <1>6, <2>1, <2>2 DEF MissionInv, OnceInv
  <2> QED BY <1>3, <2>3 DEF MissionInv
<1> QED BY <1>7, <1>8

-----------------------------------------------------------------------------
(* The operator. *)

LEMMA QtRunKeepsMission ==
    ASSUME ControlInv, MissionInv, QtRun, UNCHANGED <<mainVars, supportVars>>
    PROVE  MissionInv'
<1>1. /\ qpc = "idle" /\ qpc' = "init_load" /\ jobs' = jobs + 1
      /\ UNCHANGED <<carpet, Wine_Now, Wine_Count, Color_Num, P_Line_Num,
                     mpc, P_State, command, Q_Command>>
  BY DEF QtRun, QGoto, shmVars, exVars, driverVars, mainVars
<1>2. CountInv'
  BY <1>1 DEF MissionInv, CountInv
<1>3. /\ StartPending' = StartPending /\ StartRead' = StartRead
      /\ Begun' = Begun /\ LastRowCounted' = LastRowCounted
  BY <1>1 DEF StartPending, StartRead, Begun, LastRowCounted
<1>4. jobs' <= 1 => jobs = 0
  BY <1>1, MissionTypes
<1>5. jobs' # 0
  BY <1>1, MissionTypes
<1>6. OnceInv'
  BY <1>1, <1>3, <1>4, <1>5 DEF MissionInv, OnceInv
<1> QED BY <1>2, <1>6 DEF MissionInv

LEMMA InitTestKeepsMission ==
    ASSUME ControlInv, MissionInv,
           InitTestLoad \/ InitTestOpen \/ InitTestSave,
           UNCHANGED <<mainVars, supportVars>>
    PROVE  MissionInv'
<1>1. /\ qpc \in {"init_load", "init_open", "init_save"}
      /\ qpc' \in {"init_open", "init_save", "count", "idle"}
      /\ UNCHANGED <<carpet, Wine_Now, Wine_Count, Color_Num, P_Line_Num,
                     mpc, P_State, command, Q_Command, jobs>>
  <2> USE DEF QGoto, shmVars, exVars, driverVars, mainVars
  <2>1. CASE InitTestLoad
    BY <2>1 DEF InitTestLoad
  <2>2. CASE InitTestOpen
    BY <2>2 DEF InitTestOpen
  <2>3. CASE InitTestSave
    BY <2>3 DEF InitTestSave
  <2> QED BY <2>1, <2>2, <2>3
<1>2. CountInv'
  BY <1>1 DEF MissionInv, CountInv
<1>3. /\ StartPending' = StartPending /\ StartRead' = StartRead
      /\ Begun' = Begun /\ LastRowCounted' = LastRowCounted
  BY <1>1 DEF StartPending, StartRead, Begun, LastRowCounted
<1>4. OnceInv'
  BY <1>1, <1>3 DEF MissionInv, OnceInv
<1> QED BY <1>2, <1>4 DEF MissionInv

(* The mission is described while nothing was woven, and has a row.        *)
LEMMA CommandCountKeepsMission ==
    ASSUME 0 \notin Counts, ControlInv, MissionInv, CommandCount,
           UNCHANGED <<mainVars, supportVars>>
    PROVE  MissionInv'
<1>1. /\ qpc = "count" /\ qpc' = "start"
      /\ Wine_Count' \in Nat \ {0} /\ Color_Num' = Colors
      /\ UNCHANGED <<carpet, Wine_Now, P_Line_Num, mpc, P_State, command,
                     Q_Command, jobs>>
  BY QtAssumption DEF CommandCount, QGoto, driverVars, mainVars
<1>2. CountInv'
  <2>1. CASE Color_Num = Colors
    BY <1>1, <2>1 DEF MissionInv, CountInv
  <2>2. CASE Color_Num = 0
    <3>1. Wine_Now = 0 /\ P_Line_Num = 0 /\ mpc \notin DoneSteps
      BY <2>2 DEF MissionInv, CountInv
    <3>2. mpc # "ioctl"
      BY <2>2, WeavingHasBegun, MissionTypes DEF WeavingSteps, LockedSteps
    <3>3. Len(carpet) = 0 * 0 + 0 - 0
      BY <2>2, <3>1, <3>2 DEF MissionInv, CountInv
    <3>4. Len(carpet') = 0 * Colors + 0 - 0
      BY <1>1, <3>3, MissionTypes
    <3> QED BY <1>1, <3>1, <3>2, <3>4, MissionTypes
            DEF MissionInv, CountInv
  <2> QED BY <2>1, <2>2, MissionTypes
<1>3. StartRead' = StartRead /\ Begun' = Begun
  BY <1>1 DEF StartRead, Begun
<1>4. ASSUME jobs <= 1
      PROVE  /\ jobs # 0 /\ Color_Num = 0
             /\ Wine_Now = 0 /\ P_Line_Num = 0 /\ mpc \notin DoneSteps
    BY <1>1, <1>4 DEF MissionInv, OnceInv, CountInv
<1>5. ASSUME jobs <= 1
      PROVE  ~Begun /\ ~StartRead /\ Q_Command # "Start"
  <2>1. /\ "Start" \notin {command, Q_Command}
        /\ P_State \in {"Ready", "RePair"}
    BY <1>4, <1>5 DEF ControlInv, JobInv
  <2> QED BY <2>1 DEF Begun, StartRead
<1>6. jobs <= 1 => Wine_Now' < Wine_Count'
  BY <1>1, <1>4
<1>7. OnceInv'
  BY <1>1, <1>3, <1>4, <1>5, <1>6 DEF OnceInv
<1> QED BY <1>2, <1>7 DEF MissionInv

LEMMA CommandStartKeepsMission ==
    ASSUME ControlInv, MissionInv, CommandStart,
           UNCHANGED <<mainVars, supportVars>>
    PROVE  MissionInv'
<1>1. /\ qpc = "start" /\ qpc' = "idle" /\ Q_Command' = "Start"
      /\ UNCHANGED <<carpet, Wine_Now, Wine_Count, Color_Num, P_Line_Num,
                     mpc, P_State, command, jobs>>
  BY DEF CommandStart, QGoto, exVars, driverVars, mainVars
<1>2. CountInv'
  BY <1>1 DEF MissionInv, CountInv
<1>3. /\ StartPending /\ Begun' = Begun
      /\ LastRowCounted' = LastRowCounted
  BY <1>1 DEF StartPending, Begun, LastRowCounted
<1>4. jobs <= 1 => jobs # 0
  BY <1>1 DEF MissionInv, OnceInv
<1>5. OnceInv'
  BY <1>1, <1>3, <1>4 DEF MissionInv, OnceInv
<1> QED BY <1>2, <1>5 DEF MissionInv

LEMMA GuiKeepsMission ==
    ASSUME ControlInv, MissionInv, GuiCommand,
           UNCHANGED <<mainVars, supportVars>>
    PROVE  MissionInv'
<1>1. /\ Q_Command' # "Start"
      /\ UNCHANGED <<carpet, Wine_Now, Wine_Count, Color_Num, P_Line_Num,
                     mpc, P_State, command, jobs, qpc>>
  BY QtAssumption DEF GuiCommand, exVars, driverVars, mainVars
<1>2. CountInv'
  BY <1>1 DEF MissionInv, CountInv
<1>3. /\ StartPending' => StartPending
      /\ StartRead' = StartRead /\ Begun' = Begun
      /\ LastRowCounted' = LastRowCounted
  BY <1>1 DEF StartPending, StartRead, Begun, LastRowCounted
<1>4. OnceInv'
  BY <1>1, <1>3 DEF MissionInv, OnceInv
<1> QED BY <1>2, <1>4 DEF MissionInv

-----------------------------------------------------------------------------
(* The initial states, a power failure, and every step. *)

(* A system that was just switched on, whichever way. *)
NoMission ==
    /\ carpet = <<>> /\ mpc = "mk_load" /\ P_State = "Ready"
    /\ Wine_Now = 0 /\ Wine_Count = 0 /\ Color_Num = 0 /\ P_Line_Num = 0
    /\ command = "None" /\ Q_Command = "None"
    /\ qpc = "idle" /\ jobs = 0

LEMMA NoMissionInv == NoMission => MissionInv
<1> SUFFICES ASSUME NoMission PROVE MissionInv
  OBVIOUS
<1>1. CountInv
  <2>1. Len(carpet) = 0 * 0 + 0 - 0
    BY DEF NoMission
  <2> QED BY <2>1 DEF NoMission, CountInv, DoneSteps
<1>2. ~StartPending /\ ~Begun /\ mpc \notin DoneSteps
  BY DEF NoMission, StartPending, StartRead, Begun, DoneSteps
<1>3. OnceInv
  BY <1>2 DEF NoMission, OnceInv
<1> QED BY <1>1, <1>3 DEF MissionInv

LEMMA NoMissionAfter == (NoMission => MissionInv)'
  BY NoMissionInv, PTL

LEMMA NextKeepsMission ==
    ASSUME 0 \notin Counts, ControlInv, MissionInv, [Next]_vars
    PROVE  MissionInv'
<1>1. CASE MainStep \/ MainLockStep
  <2>1. UNCHANGED qtVars /\ (MainRuns \/ MainLock)
    BY <1>1 DEF MainStep, MainLockStep, OthersThanMain
  <2>2. CASE \/ MainBoot \/ RunStay \/ RunRePair \/ RunIntWine \/ MainLock
             \/ SendNothing \/ PosLoad \/ PosOpen \/ PosSave \/ MainUnlock
             \/ DoneLoad \/ DoneOpen \/ DoneSave
    BY <2>1, <2>2, MainMissionAside, MissionFrame
  <2>3. CASE RunReady
    BY <2>1, <2>3, ReadyKeepsMission
  <2>4. CASE RunReadyClear
    BY <2>1, <2>4, ReadyClearKeepsMission
  <2>5. CASE RunStayClear
    BY <2>1, <2>5, StayClearKeepsMission
  <2>6. CASE SendOneLine
    BY <2>1, <2>6, SendKeepsMission
  <2>7. CASE Ioctl
    BY <2>1, <2>7, IoctlKeepsMission
  <2>8. CASE Advance
    BY <2>1, <2>8, AdvanceKeepsMission
  <2>9. CASE CountRows
    BY <2>1, <2>9, CountKeepsMission
  <2> QED BY <2>1, <2>2, <2>3, <2>4, <2>5, <2>6, <2>7, <2>8, <2>9
          DEF MainRuns, MainDispatch, MainWeave
<1>2. CASE SpawnStep
  <2>1. MissionAside
    BY <1>2 DEF SpawnStep, Spawn, Goto, MissionAside, DoneSteps, PosSteps,
                Counting, shmVars, exVars, driverVars, qtVars
  <2> QED BY <2>1, MissionFrame
<1>3. CASE SupportStep \/ SupportLockStep \/ TimerStep
  <2>1. SupportNext /\ UNCHANGED OthersThanSupport
    BY <1>3 DEF SupportStep, SupportLockStep, TimerStep, SupportNext
  <2> QED BY <2>1, SupportMissionAside, MissionFrame
<1>4. CASE QtStart \/ QtStep \/ GuiStep
  <2>1. (QtRun \/ QtProceeds \/ GuiCommand)
        /\ UNCHANGED <<mainVars, supportVars>>
    BY <1>4 DEF QtStart, QtStep, GuiStep, OthersThanQt
  <2>2. CASE QtRun
    BY <2>1, <2>2, QtRunKeepsMission
  <2>3. CASE InitTestLoad \/ InitTestOpen \/ InitTestSave
    BY <2>1, <2>3, InitTestKeepsMission
  <2>4. CASE CommandCount
    BY <2>1, <2>4, CommandCountKeepsMission
  <2>5. CASE CommandStart
    BY <2>1, <2>5, CommandStartKeepsMission
  <2>6. CASE GuiCommand
    BY <2>1, <2>6, GuiKeepsMission
  <2> QED BY <2>1, <2>2, <2>3, <2>4, <2>5, <2>6 DEF QtProceeds
<1>5. CASE PowerOff
  <2>1. NoMission'
    BY <1>5 DEF PowerOff, NoMission
  <2> QED BY <2>1, NoMissionAfter
<1>6. CASE UNCHANGED vars
  <2>1. MissionAside
    BY <1>6 DEF vars, MissionAside, shmVars, exVars, driverVars, mainVars,
                qtVars
  <2> QED BY <2>1, MissionFrame
<1> QED BY <1>1, <1>2, <1>3, <1>4, <1>5, <1>6 DEF Next

(* Whatever the operator does, with or without the lock file: the carpet   *)
(* is as long as the counters say, and the first run of test_simulate      *)
(* starts one mission.                                                     *)
THEOREM MissionInvariant ==
    ASSUME 0 \notin Counts
    PROVE  Spec => []MissionInv
<1>1. Init => MissionInv
  <2>1. Init => NoMission
    BY DEF Init, DriverInit, ShmInit, MainInit, QtInit, NoMission
  <2> QED BY <2>1, NoMissionInv
<1>2. ControlInv /\ MissionInv /\ [Next]_vars => MissionInv'
  BY NextKeepsMission
<1> QED BY <1>1, <1>2, ControlInvariant, PTL DEF Spec

(* A first mission never sends a line more than those of its rows, and is  *)
(* declared done when the last of them was sent.                           *)
THEOREM FirstMissionExact ==
    ASSUME 0 \notin Counts
    PROVE  Spec => []MissionExact
<1>1. ControlInv /\ MissionInv => MissionExact
  <2> SUFFICES ASSUME ControlInv, MissionInv, jobs <= 1
               PROVE  /\ Len(carpet) <= Wine_Count * Color_Num
                      /\ mpc \in DoneSteps
                             => Len(carpet) = Wine_Count * Color_Num
    BY DEF MissionExact, DoneSteps
  <2>1. /\ Color_Num # 0 => \/ Wine_Now < Wine_Count
                            \/ Wine_Now = Wine_Count /\ P_Line_Num = 0
        /\ mpc \in DoneSteps => Wine_Now = Wine_Count /\ P_Line_Num = 0
    BY DEF MissionInv, OnceInv
  <2> DEFINE woven == Wine_Now * Color_Num
             due == Wine_Count * Color_Num
  <2>2. /\ woven \in Nat /\ due \in Nat
        /\ Wine_Now < Wine_Count => woven + Color_Num <= due
        /\ Wine_Now = Wine_Count => woven = due
        /\ Color_Num = 0 => woven = 0 /\ due = 0
    <3>1. Wine_Now \in Nat /\ Wine_Count \in Nat /\ Color_Num \in Nat
      BY MissionTypes
    <3>2. (Wine_Now + 1) * Color_Num = woven + Color_Num
          /\ woven \in Nat /\ due \in Nat
      BY <3>1, OneRowMore
    <3>3. Wine_Now < Wine_Count => (Wine_Now + 1) * Color_Num <= due
      BY <3>1, LessRows
    <3>4. Color_Num = 0 => woven = 0 /\ due = 0
      BY <3>1
    <3>5. Wine_Now = Wine_Count => woven = due
      OBVIOUS
    <3> HIDE DEF woven, due
    <3>6. Wine_Now < Wine_Count => woven + Color_Num <= due
      BY <3>2, <3>3
    <3> QED BY <3>2, <3>4, <3>5, <3>6
  <2>3. Len(carpet) = woven + P_Line_Num - (IF mpc = "ioctl" THEN 1 ELSE 0)
    BY DEF MissionInv, CountInv
  <2>4. P_Line_Num \in 0..Colors
    BY MissionTypes DEF ControlInv, LineInv
  <2>5. Color_Num = 0 => P_Line_Num = 0
    BY DEF MissionInv, CountInv
  <2>6. mpc \in DoneSteps => mpc # "ioctl"
    BY DEF DoneSteps
  <2> HIDE DEF woven, due
  <2>7. Len(carpet) <= due
    BY <2>1, <2>2, <2>3, <2>4, <2>5, MissionTypes
  <2>8. mpc \in DoneSteps => Len(carpet) = due
    BY <2>1, <2>2, <2>3, <2>6, MissionTypes
  <2> QED BY <2>7, <2>8 DEF due
<1> QED BY <1>1, ControlInvariant, MissionInvariant, PTL

-----------------------------------------------------------------------------
(* thj.ini, for an operator who starts a mission only when the machine is  *)
(* idle and both programs are up.  QuietInv first: the programs rewrite    *)
(* the file one at a time.                                                 *)

LEMMA QuietStays ==
    ASSUME ControlInv, Quiet, MainRuns \/ MainLock
    PROVE  Quiet' /\ Wine_Now' = Wine_Now
<1> USE DEF Quiet, Goto, StartRead, BootSteps
<1>1. CASE MainBoot
  BY <1>1 DEF MainBoot, MkShmLoad, MkShmOpen, MkShmSave, ReadLastLoad,
              ReadLastOpen, ReadLastSave, shmVars, exVars
<1>2. CASE RunReady \/ RunReadyClear \/ RunRePair
  <2>1. CASE RunReady
    BY <2>1 DEF RunReady, ReadCommand, shmVars, exVars
  <2>2. CASE RunReadyClear
    BY <2>2 DEF RunReadyClear, NextState, exVars
  <2>3. CASE RunRePair
    BY <2>3 DEF RunRePair, shmVars, exVars
  <2> QED BY <1>2, <2>1, <2>2, <2>3
<1>3. CASE RunStay \/ RunStayClear \/ RunIntWine \/ MainLock
  BY <1>3 DEF RunStay, ReadCommand, RunStayClear, RunIntWine, MainLock
<1>4. CASE MainWeave
  BY <1>4 DEF MainWeave, SendOneLine, SendNothing, Ioctl, Advance, PosLoad,
              PosOpen, PosSave, MainUnlock, CountRows, DoneLoad, DoneOpen,
              DoneSave
<1> QED BY <1>1, <1>2, <1>3, <1>4 DEF MainRuns, MainDispatch

LEMMA MainKeepsQuiet ==
    ASSUME ControlInv, QuietInv, MainStep \/ MainLockStep
    PROVE  QuietInv'
<1>1. /\ MainRuns \/ MainLock
      /\ spc' = spc /\ qpc' = qpc
  BY DEF MainStep, MainLockStep, OthersThanMain, supportVars, qtVars
<1>2. mpc' \in BootSteps => mpc \in BootSteps
  <2> USE DEF Goto, BootSteps
  <2>1. CASE MainBoot
    BY <2>1 DEF MainBoot, MkShmLoad, MkShmOpen, MkShmSave, ReadLastLoad,
                ReadLastOpen, ReadLastSave
  <2>2. CASE MainDispatch \/ MainLock
    BY <2>2 DEF MainDispatch, RunReady, RunReadyClear, RunStay, RunStayClear,
                ReadCommand, RunRePair, RunIntWine, MainLock
  <2>3. CASE MainWeave
    BY <2>3 DEF MainWeave, SendOneLine, SendNothing, Ioctl, Advance, PosLoad,
                PosOpen, PosSave, MainUnlock, CountRows, DoneLoad, DoneOpen,
                DoneSave
  <2> QED BY <1>1, <2>1, <2>2, <2>3 DEF MainRuns
<1>3. (mpc \in {"ready_clear"} \cup DoneSteps => P_State = "Ready")'
  <2> USE DEF Goto, DoneSteps, QuietInv
  <2>1. CASE MainBoot
    BY <2>1 DEF MainBoot, MkShmLoad, MkShmOpen, MkShmSave, ReadLastLoad,
                ReadLastOpen, ReadLastSave
  <2>2. CASE MainDispatch \/ MainLock
    BY <2>2 DEF MainDispatch, RunReady, RunReadyClear, RunStay, RunStayClear,
                ReadCommand, RunRePair, RunIntWine, MainLock
  <2>3. CASE MainWeave
    BY <2>3 DEF MainWeave, SendOneLine, SendNothing, Ioctl, Advance, PosLoad,
                PosOpen, PosSave, MainUnlock, CountRows, DoneLoad, DoneOpen,
                DoneSave
  <2> QED BY <1>1, <2>1, <2>2, <2>3 DEF MainRuns
<1>4. Quiet => Quiet' /\ Wine_Now' = Wine_Now
  BY <1>1, QuietStays
<1> QED BY <1>1, <1>2, <1>3, <1>4 DEF QuietInv

LEMMA SpawnKeepsQuiet ==
    ASSUME QuietInv, SpawnStep PROVE QuietInv'
<1>1. /\ mpc = "spawn" /\ mpc' = "loop" /\ spc = "off"
      /\ spc' = "attach_load" /\ qpc' = qpc
      /\ UNCHANGED <<P_State, command, Q_Command, Wine_Now>>
  BY DEF SpawnStep, Spawn, Goto, SGoto, shmVars, exVars, qtVars
<1>2. Quiet /\ qpc = "idle" /\ Wine_Now = 0
  BY <1>1 DEF QuietInv, Attaching
<1>3. Quiet'
  BY <1>1, <1>2 DEF Quiet, StartRead
<1> QED BY <1>1, <1>2, <1>3 DEF QuietInv, BootSteps, DoneSteps

LEMMA SupportKeepsQuiet ==
    ASSUME QuietInv, SupportNext, UNCHANGED OthersThanSupport
    PROVE  QuietInv'
<1>1. UNCHANGED <<mpc, P_State, command, qpc>>
  BY DEF OthersThanSupport, mainVars, qtVars
<1>2. UNCHANGED <<Q_Command, Wine_Now>>
  BY SupportShmSteps DEF shmVars, exVars, PreloadAdvance, PreloadFull,
                         SupportLock, SupportUnlock
<1>3. /\ spc = "off" => spc' = "off"
      /\ spc' \in Attaching => spc \in Attaching
  BY DEF SupportNext, SupportRuns, AttachLoad, AttachOpen, AttachSave,
         FirstInterval, NextInterval, Poll, PreloadOpen, PreloadRead,
         PreloadEnd, PreloadAdvance, PreloadFull, SupportUnlock, SupportLock,
         CheckFetch, SGoto, Attaching
<1>4. Quiet' = Quiet
  BY <1>1, <1>2 DEF Quiet, StartRead
<1> QED BY <1>1, <1>2, <1>3, <1>4 DEF QuietInv

LEMMA QtKeepsQuiet ==
    ASSUME Patient, ControlInv, QuietInv, QtStart \/ QtStep \/ GuiStep
    PROVE  QuietInv'
<1>1. UNCHANGED <<mpc, P_State, command, spc>>
  BY DEF QtStart, QtStep, GuiStep, OthersThanQt, mainVars, supportVars
<1>2. CASE QtStart
  <2>1. /\ BothUp /\ P_State = "Ready" /\ Q_Command = "None"
        /\ mpc \notin DoneSteps /\ command # "Start"
        /\ UNCHANGED <<Q_Command, Wine_Now>>
    BY <1>2 DEF QtStart, QtRun, MayStart, DoneSteps, shmVars, exVars
  <2>2. mpc \in MainSteps
    BY DEF ControlInv, TypeOK, MainTypeOK
  <2>3. mpc \notin WeavingSteps /\ mpc # "stay_clear"
    BY <2>1 DEF ControlInv, JobInv
  <2>4. mpc \in BootSteps \cup {"loop", "ready_clear"}
    BY <2>1, <2>2, <2>3
       DEF MainSteps, WeavingSteps, LockedSteps, DoneSteps
  <2>5. Quiet /\ Quiet'
    BY <1>1, <2>1, <2>4 DEF Quiet, StartRead
  <2>6. spc \notin Attaching
    BY <2>1 DEF BothUp, Attaching
  <2> QED BY <1>1, <2>5, <2>6 DEF QuietInv
<1>3. CASE QtStep /\ ~CommandStart
  <2>1. qpc # "idle" /\ UNCHANGED <<Q_Command, Wine_Now>>
    BY <1>3 DEF QtStep, QtProceeds, InitTestLoad, InitTestOpen, InitTestSave,
                CommandCount, QGoto, shmVars, exVars
  <2>2. Quiet /\ Quiet' /\ spc \notin Attaching
    BY <1>1, <2>1 DEF QuietInv, Quiet, StartRead
  <2> QED BY <1>1, <2>2 DEF QuietInv
<1>4. CASE CommandStart
  <2>1. qpc # "idle" /\ qpc' = "idle"
    BY <1>4 DEF CommandStart, QGoto
  <2>2. spc \notin Attaching
    BY <2>1 DEF QuietInv
  <2> QED BY <1>1, <2>1, <2>2 DEF QuietInv
<1>5. CASE GuiStep
  <2>1. Q_Command' # "Start" /\ UNCHANGED <<qpc, Wine_Now>>
    BY <1>5, QtAssumption DEF GuiStep, GuiCommand, exVars
  <2>2. Quiet => Quiet'
    BY <1>1, <2>1 DEF Quiet, StartRead
  <2> QED BY <1>1, <2>1, <2>2 DEF QuietInv
<1> QED BY <1>2, <1>3, <1>4, <1>5

LEMMA NextKeepsQuiet ==
    ASSUME Patient, ControlInv, QuietInv, [Next]_vars PROVE QuietInv'
<1>1. CASE MainStep \/ MainLockStep
  BY <1>1, MainKeepsQuiet
<1>2. CASE SpawnStep
  BY <1>2, SpawnKeepsQuiet
<1>3. CASE SupportStep \/ SupportLockStep \/ TimerStep
  <2>1. SupportNext /\ UNCHANGED OthersThanSupport
    BY <1>3 DEF SupportStep, SupportLockStep, TimerStep, SupportNext
  <2> QED BY <2>1, SupportKeepsQuiet
<1>4. CASE QtStart \/ QtStep \/ GuiStep
  BY <1>4, QtKeepsQuiet
<1>5. CASE PowerOff
  BY <1>5 DEF PowerOff, QuietInv, Quiet, StartRead, BootSteps, DoneSteps
<1>6. CASE UNCHANGED vars
  <2>1. UNCHANGED <<mpc, P_State, command, spc, qpc, Q_Command, Wine_Now>>
    BY <1>6 DEF vars, mainVars, supportVars, qtVars, shmVars, exVars
  <2> QED BY <2>1 DEF QuietInv, Quiet, StartRead
<1> QED BY <1>1, <1>2, <1>3, <1>4, <1>5, <1>6 DEF Next

-----------------------------------------------------------------------------
(* Who has the file has it for himself. *)

MainFile == PosSteps \cup {"mk_open", "mk_save", "last_open", "last_save",
                           "done_open", "done_save"}

SupportFile == {"attach_open", "attach_save"}

QtFile == {"init_open", "init_save"}

NobodyElse == spc \notin SupportFile /\ qpc \notin QtFile

LEMMA MainIsAlone ==
    ASSUME QuietInv, mpc \in BootSteps \cup MainFile \cup DoneSteps
    PROVE  NobodyElse
<1>1. CASE mpc \in BootSteps
  BY <1>1 DEF QuietInv, NobodyElse, Attaching, SupportFile, QtFile
<1>2. CASE mpc \notin BootSteps
  <2>1. ~Quiet
    BY <1>2 DEF Quiet, BootSteps, MainFile, PosSteps, DoneSteps
  <2> QED BY <2>1 DEF QuietInv, NobodyElse, Attaching, SupportFile, QtFile
<1> QED BY <1>1, <1>2

LEMMA SupportIsAlone ==
    ASSUME QuietInv, spc \in {"attach_load", "attach_open", "attach_save"}
    PROVE  /\ mpc \notin BootSteps \cup MainFile
           /\ qpc = "idle" /\ Wine_Now = 0
<1>1. Quiet /\ mpc \notin BootSteps /\ qpc = "idle" /\ Wine_Now = 0
  BY DEF QuietInv, Attaching
<1> QED BY <1>1 DEF Quiet, MainFile, PosSteps

LEMMA QtIsAlone ==
    ASSUME QuietInv, qpc # "idle"
    PROVE  /\ mpc \notin BootSteps \cup MainFile
           /\ spc \notin SupportFile
<1>1. Quiet /\ spc \notin Attaching
  BY DEF QuietInv
<1>2. mpc \notin BootSteps
  BY <1>1 DEF QuietInv, Attaching
<1> QED BY <1>1, <1>2 DEF Quiet, MainFile, PosSteps, Attaching,
                     SupportFile

-----------------------------------------------------------------------------
(* The steps that neither touch the file nor hold a copy of it. *)
FileAside ==
    /\ UNCHANGED <<ini, iniLoaded, Wine_Now, Wine_Start, powerVars>>
    /\ \/ mpc' = mpc
       \/ mpc \notin MainFile /\ mpc' \notin MainFile \cup BootSteps
    /\ \/ spc' = spc
       \/ spc \notin SupportFile /\ spc' \notin SupportFile
    /\ \/ qpc' = qpc
       \/ qpc \notin QtFile /\ qpc' \notin QtFile

LEMMA FileFrame ==
    ASSUME FileAside
    PROVE  (FileCopies => FileCopies') /\ (CutInv => CutInv')
<1>1. /\ UNCHANGED <<ini, iniLoaded, Wine_Now, Wine_Start, outages, resumeAt>>
      /\ MainHolds' = MainHolds
      /\ SupportHolds' = SupportHolds
      /\ QtHolds' = QtHolds
      /\ (mpc \in PosSteps)' = (mpc \in PosSteps)
      /\ (mpc \in BootSteps)' => mpc' = mpc
      /\ Rewriting' = Rewriting
  <2>1. /\ MainHolds' = MainHolds /\ (mpc \in PosSteps)' = (mpc \in PosSteps)
        /\ (mpc \in BootSteps)' => mpc' = mpc
        /\ (mpc \in {"mk_save", "last_save", "pos_save", "done_save"})'
              = (mpc \in {"mk_save", "last_save", "pos_save", "done_save"})
    BY DEF FileAside, MainHolds, MainFile, PosSteps
  <2>2. SupportHolds' = SupportHolds
        /\ (spc = "attach_save")' = (spc = "attach_save")
    BY DEF FileAside, SupportHolds, SupportFile
  <2>3. QtHolds' = QtHolds /\ (qpc = "init_save")' = (qpc = "init_save")
    BY DEF FileAside, QtHolds, QtFile
  <2> QED BY <2>1, <2>2, <2>3 DEF FileAside, powerVars, Rewriting
<1>2. SavedInv => SavedInv'
  BY <1>1 DEF SavedInv, Saved
<1>3. SectionsInv => SectionsInv'
  BY <1>1 DEF SectionsInv
<1>4. CutInv => CutInv'
  BY <1>1 DEF CutInv, Tells, TellsAlmost, TellsCut
<1> QED BY <1>2, <1>3, <1>4 DEF FileCopies

-----------------------------------------------------------------------------
(* Program one and the file: it loads, truncates and dumps a copy. *)

MainElse == UNCHANGED <<Wine_Now, powerVars, spc, qpc>>

LEMMA CopyIsLoaded ==
    ASSUME IniTypeOK, NEW p \in Processes, Load(p)
    PROVE  /\ ini' = ini /\ iniLoaded'[p] = ini
           /\ \A q \in Processes \ {p} : iniLoaded'[q] = iniLoaded[q]
  BY DEF IniTypeOK, Load

LEMMA MainLoads ==
    ASSUME ControlInv, QuietInv, FileCopies,
           Load("main"), MainElse, Wine_Start' = Wine_Start,
           \/ Goto("mk_load", "mk_open")
           \/ Goto("last_load", "last_open")
           \/ Goto("pos_load", "pos_open")
           \/ Goto("done_load", "done_open")
    PROVE  FileCopies' /\ (CutInv => CutInv')
<1> USE DEF Goto
<1>1. /\ ini' = ini /\ iniLoaded'["main"] = ini
      /\ iniLoaded'["support"] = iniLoaded["support"]
      /\ iniLoaded'["qt"] = iniLoaded["qt"]
  BY CopyIsLoaded DEF ControlInv, TypeOK, Processes
<1>2. NobodyElse
  BY MainIsAlone DEF BootSteps, MainFile, PosSteps, DoneSteps
<1>3. ~SupportHolds' /\ ~QtHolds' /\ ~Rewriting
  BY <1>2 DEF NobodyElse, SupportFile, QtFile, MainElse, SupportHolds,
              QtHolds, Rewriting
<1>4. UNCHANGED <<Wine_Now, Wine_Start, outages, resumeAt>>
  BY DEF MainElse, powerVars
<1>5. /\ (mpc \in PosSteps)' = (mpc \in PosSteps)
      /\ (mpc \in BootSteps)' = (mpc \in BootSteps)
      /\ mpc' \notin {"last_save", "spawn"}
  BY DEF PosSteps, BootSteps
<1>6. SavedInv'
  BY <1>1, <1>3, <1>4, <1>5 DEF FileCopies, SavedInv, Saved
<1>7. SectionsInv'
  BY <1>1, <1>3, <1>4 DEF FileCopies, SectionsInv
<1>8. CutInv => CutInv'
  BY <1>1, <1>3, <1>4, <1>5 DEF CutInv, Tells, TellsAlmost, TellsCut
<1> QED BY <1>6, <1>7, <1>8 DEF FileCopies

LEMMA MainOpens ==
    ASSUME QuietInv, FileCopies,
           OpenForWriting, MainElse, Wine_Start' = Wine_Start,
           \/ Goto("mk_open", "mk_save")
           \/ Goto("last_open", "last_save")
           \/ Goto("pos_open", "pos_save")
           \/ Goto("done_open", "done_save")
    PROVE  FileCopies' /\ (CutInv => CutInv')
<1> USE DEF Goto
<1>1. ~ini'.sections /\ iniLoaded' = iniLoaded
  BY DEF OpenForWriting, Empty
<1>2. NobodyElse
  BY MainIsAlone DEF BootSteps, MainFile, PosSteps, DoneSteps
<1>3. ~SupportHolds' /\ ~QtHolds' /\ Rewriting' /\ MainHolds
  BY <1>2 DEF NobodyElse, SupportFile, QtFile, MainElse, SupportHolds,
              QtHolds, Rewriting, MainHolds
<1>4. UNCHANGED <<Wine_Now, Wine_Start, outages, resumeAt>>
  BY DEF MainElse, powerVars
<1>5. /\ (mpc \in PosSteps)' = (mpc \in PosSteps)
      /\ (mpc \in BootSteps)' = (mpc \in BootSteps)
      /\ mpc' # "spawn"
  BY DEF PosSteps, BootSteps
<1>6. SavedInv'
  BY <1>1, <1>3, <1>4, <1>5 DEF FileCopies, SavedInv, Saved
<1>7. SectionsInv'
  BY <1>1, <1>3, <1>4 DEF FileCopies, SectionsInv
<1>8. CutInv => CutInv'
  BY <1>1, <1>3, <1>4, <1>5 DEF CutInv, Tells, TellsAlmost, TellsCut
<1> QED BY <1>6, <1>7, <1>8 DEF FileCopies

(* What a program sets in its copy. *)
LEMMA Fields ==
    ASSUME NEW f \in Inis, NEW n \in Nat
    PROVE  /\ SetPos(f, n).sections = f.sections
           /\ SetDone(f, 1).sections = f.sections
           /\ f.sections => /\ SetPos(f, n).pos = n
                            /\ SetDone(f, 1).pos = f.pos
                            /\ SetDone(f, 1).done = 1
  BY DEF Inis, SetPos, SetDone, Empty

LEMMA MainDumps ==
    ASSUME ControlInv, QuietInv, FileCopies, MainElse,
           Wine_Start' = Wine_Start,
           \/ MkShmSave
           \/ PosSave
           \/ DoneSave
    PROVE  FileCopies' /\ (CutInv => CutInv')
<1> DEFINE f == iniLoaded["main"]
<1>1. f \in Inis /\ Wine_Now \in Nat
  BY DEF ControlInv, TypeOK, IniTypeOK, ShmTypeOK, Processes
<1>2. NobodyElse
  BY MainIsAlone DEF MkShmSave, PosSave, DoneSave, Goto, BootSteps,
                     MainFile, PosSteps, DoneSteps
<1>3. ~SupportHolds' /\ ~QtHolds' /\ ~MainHolds' /\ MainHolds
  BY <1>2 DEF NobodyElse, SupportFile, QtFile, MainElse, SupportHolds,
              QtHolds, MainHolds, MkShmSave, PosSave, DoneSave, Goto
<1>4. UNCHANGED <<Wine_Now, Wine_Start, outages, resumeAt>>
  BY DEF MainElse, powerVars
<1>5. /\ ini'.sections = f.sections
      /\ f.sections /\ mpc = "pos_save" => ini'.pos = Wine_Now
      /\ f.sections /\ mpc # "pos_save" => ini'.pos = f.pos
      /\ f.sections /\ mpc = "mk_save" => ini'.done = f.done
      /\ f.sections /\ mpc = "done_save" => ini'.done = 1
  <2>1. CASE MkShmSave
    BY <2>1 DEF MkShmSave, Goto, Save
  <2>2. CASE PosSave
    BY <1>1, <2>2, Fields DEF PosSave, Goto, Save
  <2>3. CASE DoneSave
    BY <1>1, <2>3, Fields DEF DoneSave, Goto, Save
  <2> QED BY <2>1, <2>2, <2>3
<1>6. /\ mpc \in {"mk_save", "pos_save", "done_save"}
      /\ mpc \in PosSteps <=> mpc = "pos_save"
      /\ mpc' \notin PosSteps
      /\ mpc' \in BootSteps => mpc = "mk_save" /\ mpc' = "last_load"
      /\ mpc \in BootSteps <=> mpc = "mk_save"
  BY DEF MkShmSave, PosSave, DoneSave, Goto, PosSteps, BootSteps
<1> HIDE DEF f
<1>7. SavedInv'
  <2>1. Saved(ini)'
    <3>1. mpc # "pos_save" => Saved(f)
      BY <1>3, <1>6 DEF FileCopies, SavedInv, f
    <3> QED BY <1>4, <1>5, <3>1 DEF Saved
  <2> QED BY <1>3, <2>1 DEF SavedInv
<1>8. SectionsInv'
  <2>1. outages = 0 => f.sections
    BY <1>3 DEF FileCopies, SectionsInv, f
  <2> QED BY <1>3, <1>4, <1>5, <2>1 DEF SectionsInv
<1>9. CutInv => CutInv'
  <2> SUFFICES ASSUME CutInv PROVE CutInv'
    OBVIOUS
  <2>1. outages = 0 => Wine_Start = 0 /\ Tells(ini, Wine_Now)'
    <3>1. outages = 0 /\ mpc # "pos_save" => Tells(f, Wine_Now)
      BY <1>3, <1>6 DEF CutInv, f
    <3> QED BY <1>4, <1>5, <1>6, <3>1 DEF Tells, CutInv
  <2>2. outages = 1 /\ mpc = "mk_save" => TellsCut(ini)'
    <3>1. outages = 1 /\ mpc = "mk_save" => TellsCut(f)
      BY <1>3, <1>6 DEF CutInv, f
    <3> QED BY <1>4, <1>5, <3>1 DEF TellsCut
  <2> QED BY <1>3, <1>4, <1>6, <2>1, <2>2 DEF CutInv
<1> QED BY <1>7, <1>8, <1>9 DEF FileCopies

(* f_Read_Last is where the file decides: it sets the row to start at. *)
LEMMA ReadLastDumps ==
    ASSUME ControlInv, QuietInv, FileCopies, MainElse, ReadLastSave
    PROVE  FileCopies' /\ (CutInv => CutInv')
<1> DEFINE f == iniLoaded["main"]
<1>1. f \in Inis
  BY DEF ControlInv, TypeOK, IniTypeOK, Processes
<1>2. /\ mpc = "last_save" /\ mpc' = "spawn"
      /\ iniLoaded' = iniLoaded
      /\ f.sections => ini' = f /\ Wine_Start' = StartOf(f)
      /\ ~f.sections => ini' = ini /\ Wine_Start' = Wine_Start
  BY DEF ReadLastSave, Goto, Save, iniVars
<1>3. NobodyElse
  BY <1>2, MainIsAlone DEF BootSteps
<1>4. ~SupportHolds' /\ ~QtHolds' /\ ~MainHolds' /\ MainHolds
  BY <1>2, <1>3 DEF NobodyElse, SupportFile, QtFile, MainElse, SupportHolds,
                    QtHolds, MainHolds
<1>5. UNCHANGED <<Wine_Now, outages, resumeAt>>
  BY DEF MainElse, powerVars
<1>6. mpc \notin PosSteps /\ mpc' \notin PosSteps
      /\ mpc \in BootSteps /\ mpc' \in BootSteps
  BY <1>2 DEF PosSteps, BootSteps
<1>7. Wine_Now = 0
  BY <1>6 DEF QuietInv, Attaching
<1>8. outages = 0 => f.sections
  BY <1>4 DEF FileCopies, SectionsInv, f
<1> HIDE DEF f
<1>9. SavedInv'
  BY <1>4, <1>5, <1>7 DEF SavedInv, Saved
<1>10. SectionsInv'
  BY <1>2, <1>4, <1>5, <1>8 DEF SectionsInv
<1>11. CutInv => CutInv'
  <2> SUFFICES ASSUME CutInv PROVE CutInv'
    OBVIOUS
  <2>1. outages = 0 => Wine_Start' = 0 /\ Tells(ini, Wine_Now)'
    <3>1. outages = 0 => Tells(f, Wine_Now)
      BY <1>4, <1>6 DEF CutInv, f
    <3> QED BY <1>1, <1>2, <1>5, <1>7, <1>8, <3>1 DEF Tells, StartOf
  <2>2. outages = 1 => /\ TellsCut(ini)'
                       /\ ini'.sections /\ ini'.done = 0
                             => Wine_Start' = ini'.pos
    <3>1. outages = 1 => TellsCut(f) /\ ~ini.sections
      BY <1>2, <1>4, <1>6 DEF CutInv, f
    <3> QED BY <1>2, <1>5, <3>1 DEF TellsCut, StartOf
  <2> QED BY <1>2, <1>4, <1>5, <1>6, <2>1, <2>2 DEF CutInv
<1> QED BY <1>9, <1>10, <1>11 DEF FileCopies

(* A row is counted; the file still tells the number before it. *)
LEMMA AdvanceCounts ==
    ASSUME ControlInv, QuietInv, FileCopies, UNCHANGED <<spc, qpc, powerVars>>,
           Advance
    PROVE  FileCopies' /\ (CutInv => CutInv')
<1>1. /\ mpc = "advance" /\ mpc' = "pos_load"
      /\ Wine_Now' = Wine_Now + 1
      /\ UNCHANGED <<ini, iniLoaded, Wine_Start, outages, resumeAt>>
  BY DEF Advance, Goto, iniVars, powerVars
<1>2. Wine_Now \in Nat
  BY DEF ControlInv, TypeOK, ShmTypeOK
<1>3. ~Quiet
  BY <1>1 DEF Quiet, BootSteps
<1>4. ~SupportHolds' /\ ~QtHolds' /\ ~MainHolds' /\ ~Rewriting
  BY <1>1, <1>3 DEF QuietInv, Attaching, SupportHolds, QtHolds, MainHolds,
                    Rewriting
<1>5. /\ mpc \notin PosSteps /\ mpc' \in PosSteps
      /\ mpc' \notin BootSteps
  BY <1>1 DEF PosSteps, BootSteps
<1>6. SavedInv'
  BY <1>5 DEF SavedInv
<1>7. SectionsInv'
  BY <1>1, <1>4 DEF FileCopies, SectionsInv
<1>8. CutInv => CutInv'
  <2>1. CutInv /\ outages = 0 => Wine_Start = 0 /\ Tells(ini, Wine_Now)
    BY <1>5 DEF CutInv
  <2>2. Wine_Now' > 0 /\ Wine_Now' - 1 = Wine_Now
    BY <1>1, <1>2
  <2>3. Tells(ini, Wine_Now) => TellsAlmost(ini)'
    BY <1>1, <2>2 DEF Tells, TellsAlmost
  <2> QED BY <1>1, <1>4, <1>5, <2>1, <2>2, <2>3 DEF CutInv
<1> QED BY <1>6, <1>7, <1>8 DEF FileCopies

LEMMA MainKeepsFile ==
    ASSUME ControlInv, QuietInv, FileCopies, MainStep \/ MainLockStep
    PROVE  FileCopies' /\ (CutInv => CutInv')
<1>1. MainRuns \/ MainLock
  BY DEF MainStep, MainLockStep
<1>2. UNCHANGED <<spc, qpc, powerVars>>
  BY DEF MainStep, MainLockStep, OthersThanMain, supportVars, qtVars
<1>3. CASE MkShmLoad \/ ReadLastLoad \/ PosLoad \/ DoneLoad
  <2>1. MainElse /\ Load("main") /\ Wine_Start' = Wine_Start
    BY <1>2, <1>3 DEF MkShmLoad, ReadLastLoad, PosLoad, DoneLoad, MainElse,
                      shmVars, exVars
  <2>2. \/ Goto("mk_load", "mk_open") \/ Goto("last_load", "last_open")
        \/ Goto("pos_load", "pos_open") \/ Goto("done_load", "done_open")
    BY <1>3 DEF MkShmLoad, ReadLastLoad, PosLoad, DoneLoad
  <2> QED BY <2>1, <2>2, MainLoads
<1>4. CASE MkShmOpen \/ ReadLastOpen \/ PosOpen \/ DoneOpen
  <2>1. MainElse /\ OpenForWriting /\ Wine_Start' = Wine_Start
    BY <1>2, <1>4 DEF MkShmOpen, ReadLastOpen, PosOpen, DoneOpen, MainElse,
                      shmVars, exVars
  <2>2. \/ Goto("mk_open", "mk_save") \/ Goto("last_open", "last_save")
        \/ Goto("pos_open", "pos_save") \/ Goto("done_open", "done_save")
    BY <1>4 DEF MkShmOpen, ReadLastOpen, PosOpen, DoneOpen
  <2> QED BY <2>1, <2>2, MainOpens
<1>5. CASE MkShmSave \/ PosSave \/ DoneSave
  <2>1. MainElse /\ Wine_Start' = Wine_Start
    BY <1>2, <1>5 DEF MkShmSave, PosSave, DoneSave, MainElse, shmVars, exVars
  <2> QED BY <1>5, <2>1, MainDumps
<1>6. CASE ReadLastSave
  <2>1. MainElse
    BY <1>2, <1>6 DEF ReadLastSave, MainElse
  <2> QED BY <1>6, <2>1, ReadLastDumps
<1>7. CASE Advance
  BY <1>2, <1>7, AdvanceCounts
<1>8. CASE \/ MainDispatch \/ MainLock
           \/ SendOneLine \/ SendNothing \/ Ioctl \/ MainUnlock \/ CountRows
  <2>1. UNCHANGED <<ini, iniLoaded, Wine_Now, Wine_Start>>
    BY <1>8 DEF MainDispatch, RunReady, RunStay, ReadCommand, RunReadyClear,
                RunStayClear, RunRePair, RunIntWine, MainLock, SendOneLine,
                SendNothing, Ioctl, MainUnlock, CountRows, shmVars, exVars,
                iniVars
  <2>2. mpc \notin MainFile /\ mpc' \notin MainFile \cup BootSteps
    BY <1>8 DEF MainDispatch, RunReady, RunStay, ReadCommand, RunReadyClear,
                RunStayClear, RunRePair, RunIntWine, MainLock, SendOneLine,
                SendNothing, Ioctl, MainUnlock, CountRows, Goto, MainFile,
                PosSteps, BootSteps
  <2> QED BY <1>2, <2>1, <2>2, FileFrame DEF FileAside
<1> QED BY <1>1, <1>3, <1>4, <1>5, <1>6, <1>7, <1>8
        DEF MainRuns, MainBoot, MainWeave

-----------------------------------------------------------------------------
(* Program two rewrites the file once, while nothing is woven. *)

LEMMA AttachKeepsFile ==
    ASSUME ControlInv, QuietInv, FileCopies, UNCHANGED OthersThanSupport,
           AttachLoad \/ AttachOpen \/ AttachSave
    PROVE  FileCopies' /\ (CutInv => CutInv')
<1> DEFINE f == iniLoaded["support"]
<1>1. spc \in {"attach_load", "attach_open", "attach_save"}
  BY DEF AttachLoad, AttachOpen, AttachSave, SGoto
<1>2. UNCHANGED <<mpc, qpc, outages, resumeAt>>
  BY DEF OthersThanSupport, mainVars, qtVars, powerVars
<1>3. UNCHANGED <<Wine_Now, Wine_Start>>
  BY DEF AttachLoad, AttachOpen, AttachSave, shmVars, exVars
<1>4. mpc \notin BootSteps \cup MainFile /\ qpc = "idle" /\ Wine_Now = 0
  BY <1>1, SupportIsAlone
<1>5. /\ mpc \notin PosSteps /\ mpc \notin BootSteps
      /\ ~MainHolds' /\ ~QtHolds'
      /\ mpc \notin {"mk_save", "last_save", "pos_save", "done_save"}
  BY <1>2, <1>4 DEF MainFile, PosSteps, MainHolds, QtHolds
<1>6. SavedInv'
  BY <1>3, <1>4, <1>5 DEF SavedInv, Saved
<1>7. CASE AttachLoad
  <2>1. ini' = ini /\ f' = ini
    BY <1>7, CopyIsLoaded DEF AttachLoad, ControlInv, TypeOK, Processes
  <2>2. spc # "attach_save" /\ qpc # "init_save"
    BY <1>4, <1>7 DEF AttachLoad, SGoto
  <2>3. outages = 0 => ini.sections
    BY <1>5, <2>2 DEF FileCopies, SectionsInv, Rewriting
  <2>4. SectionsInv'
    BY <1>2, <1>5, <2>1, <2>3 DEF SectionsInv
  <2>5. CutInv => CutInv'
    BY <1>2, <1>3, <1>5, <2>1 DEF CutInv, Tells
  <2> QED BY <1>6, <2>4, <2>5 DEF FileCopies
<1>8. CASE AttachOpen
  <2>1. ~ini'.sections /\ f' = f /\ SupportHolds /\ Rewriting'
    BY <1>8 DEF AttachOpen, SGoto, OpenForWriting, Empty, SupportHolds,
                Rewriting
  <2>2. SectionsInv'
    BY <1>2, <1>5, <2>1 DEF FileCopies, SectionsInv
  <2>3. CutInv => CutInv'
    BY <1>2, <1>3, <1>5, <2>1 DEF CutInv, Tells
  <2> QED BY <1>6, <2>2, <2>3 DEF FileCopies
<1>9. CASE AttachSave
  <2>1. SupportHolds /\ ~SupportHolds'
        /\ ini' = IF f.sections THEN f ELSE ini
    BY <1>9 DEF AttachSave, Save, SupportHolds, iniVars
  <2>2. outages = 0 => f.sections
    BY <2>1 DEF FileCopies, SectionsInv
  <2>3. SectionsInv'
    BY <1>2, <1>5, <2>1, <2>2 DEF SectionsInv
  <2>4. CutInv => CutInv'
    BY <1>2, <1>3, <1>5, <2>1, <2>2 DEF CutInv, Tells
  <2> QED BY <1>6, <2>3, <2>4 DEF FileCopies
<1> QED BY <1>7, <1>8, <1>9

LEMMA SupportKeepsFile ==
    ASSUME ControlInv, QuietInv, FileCopies, SupportNext,
           UNCHANGED OthersThanSupport
    PROVE  FileCopies' /\ (CutInv => CutInv')
<1>1. CASE AttachLoad \/ AttachOpen \/ AttachSave
  BY <1>1, AttachKeepsFile
<1>2. CASE \/ FirstInterval \/ NextInterval \/ Poll \/ PreloadOpen
           \/ PreloadRead \/ PreloadEnd \/ PreloadAdvance \/ PreloadFull
           \/ SupportUnlock \/ SupportLock \/ CheckFetch
  <2>1. UNCHANGED <<mpc, qpc, powerVars>>
    BY DEF OthersThanSupport, mainVars, qtVars
  <2>2. UNCHANGED <<Wine_Now, Wine_Start>>
    BY <1>2, SupportShmSteps
       DEF shmVars, exVars, PreloadAdvance, PreloadFull, SupportLock,
           SupportUnlock
  <2>3. UNCHANGED <<ini, iniLoaded>>
    BY <1>2 DEF FirstInterval, NextInterval, Poll, PreloadOpen, PreloadRead,
                PreloadEnd, PreloadAdvance, PreloadFull, SupportUnlock,
                SupportLock, CheckFetch, iniVars
  <2>4. \/ spc' = spc
        \/ spc \notin SupportFile /\ spc' \notin SupportFile
    BY <1>2 DEF FirstInterval, NextInterval, Poll, PreloadOpen, PreloadRead,
                PreloadEnd, PreloadAdvance, PreloadFull, SupportUnlock,
                SupportLock, CheckFetch, SGoto, SupportFile
  <2> QED BY <2>1, <2>2, <2>3, <2>4, FileFrame DEF FileAside
<1> QED BY <1>1, <1>2 DEF SupportNext, SupportRuns

-----------------------------------------------------------------------------
(* test_simulate rewrites the file in every run, while nothing is woven    *)
(* and nobody else is in it.                                               *)

LEMMA InitTestKeepsFile ==
    ASSUME ControlInv, QuietInv, FileCopies, UNCHANGED OthersThanQt,
           InitTestLoad \/ InitTestOpen \/ InitTestSave
    PROVE  FileCopies' /\ (CutInv => CutInv')
<1> DEFINE f == iniLoaded["qt"]
<1>1. qpc # "idle"
  BY DEF InitTestLoad, InitTestOpen, InitTestSave, QGoto
<1>2. UNCHANGED <<mpc, spc, outages, resumeAt>>
  BY DEF OthersThanQt, mainVars, supportVars, powerVars
<1>3. UNCHANGED <<Wine_Now, Wine_Start>>
  BY DEF InitTestLoad, InitTestOpen, InitTestSave, shmVars, exVars
<1>4. mpc \notin BootSteps \cup MainFile /\ spc \notin SupportFile
  BY <1>1, QtIsAlone
<1>5. /\ mpc \notin PosSteps /\ mpc \notin BootSteps
      /\ ~MainHolds' /\ ~SupportHolds'
      /\ mpc \notin {"mk_save", "last_save", "pos_save", "done_save"}
      /\ spc # "attach_save"
  BY <1>2, <1>4 DEF MainFile, PosSteps, MainHolds, SupportHolds, SupportFile
<1>6. CASE InitTestLoad
  <2>1. ini' = ini /\ f' = ini
    BY <1>6, CopyIsLoaded DEF InitTestLoad, ControlInv, TypeOK, Processes
  <2>2. qpc # "init_save"
    BY <1>6 DEF InitTestLoad, QGoto
  <2>3. outages = 0 => ini.sections
    BY <1>5, <2>2 DEF FileCopies, SectionsInv, Rewriting
  <2>4. SavedInv'
    BY <1>2, <1>3, <1>5, <2>1 DEF FileCopies, SavedInv, Saved
  <2>5. SectionsInv'
    BY <1>2, <1>5, <2>1, <2>3 DEF SectionsInv
  <2>6. CutInv => CutInv'
    BY <1>2, <1>3, <1>5, <2>1 DEF CutInv, Tells
  <2> QED BY <2>4, <2>5, <2>6 DEF FileCopies
<1>7. CASE InitTestOpen
  <2>1. ~ini'.sections /\ f' = f /\ QtHolds /\ Rewriting'
    BY <1>7 DEF InitTestOpen, QGoto, OpenForWriting, Empty, QtHolds,
                Rewriting
  <2>2. SavedInv'
    BY <1>2, <1>3, <1>5, <2>1 DEF FileCopies, SavedInv, Saved
  <2>3. SectionsInv'
    BY <1>2, <1>5, <2>1 DEF FileCopies, SectionsInv
  <2>4. CutInv => CutInv'
    BY <1>2, <1>3, <1>5, <2>1 DEF CutInv, Tells
  <2> QED BY <2>2, <2>3, <2>4 DEF FileCopies
<1>8. CASE InitTestSave
  <2>1. QtHolds /\ ~QtHolds'
        /\ ini' = IF f.sections THEN f ELSE ini
    BY <1>8 DEF InitTestSave, Save, QtHolds, iniVars
  <2>2. outages = 0 => f.sections
    BY <2>1 DEF FileCopies, SectionsInv
  <2>3. SavedInv'
    BY <1>2, <1>3, <1>5, <2>1 DEF FileCopies, SavedInv, Saved
  <2>4. SectionsInv'
    BY <1>2, <1>5, <2>1, <2>2 DEF SectionsInv
  <2>5. CutInv => CutInv'
    BY <1>2, <1>3, <1>5, <2>1, <2>2 DEF CutInv, Tells
  <2> QED BY <2>3, <2>4, <2>5 DEF FileCopies
<1> QED BY <1>6, <1>7, <1>8

LEMMA QtKeepsFile ==
    ASSUME ControlInv, QuietInv, FileCopies, QtStart \/ QtStep \/ GuiStep
    PROVE  FileCopies' /\ (CutInv => CutInv')
<1>1. UNCHANGED OthersThanQt /\ (QtRun \/ QtProceeds \/ GuiCommand)
  BY DEF QtStart, QtStep, GuiStep
<1>2. CASE InitTestLoad \/ InitTestOpen \/ InitTestSave
  BY <1>1, <1>2, InitTestKeepsFile
<1>3. CASE QtRun \/ CommandCount \/ CommandStart \/ GuiCommand
  <2>1. UNCHANGED <<mpc, spc, powerVars>>
    BY <1>1 DEF OthersThanQt, mainVars, supportVars
  <2>2. UNCHANGED <<Wine_Now, Wine_Start, ini, iniLoaded>>
    BY <1>3 DEF QtRun, CommandCount, CommandStart, GuiCommand, shmVars,
                exVars, iniVars
  <2>3. \/ qpc' = qpc
        \/ qpc \notin QtFile /\ qpc' \notin QtFile
    BY <1>3 DEF QtRun, CommandCount, CommandStart, GuiCommand, QGoto, QtFile
  <2> QED BY <2>1, <2>2, <2>3, FileFrame DEF FileAside
<1> QED BY <1>1, <1>2, <1>3 DEF QtProceeds

-----------------------------------------------------------------------------
(* A power failure leaves the file, which tells where the mission was.     *)

LEMMA PowerOffKeepsFile ==
    ASSUME ControlInv, FileCopies, PowerOff
    PROVE  FileCopies' /\ (CutInv => CutInv')
<1>1. /\ ini' = ini /\ Wine_Now' = 0
      /\ mpc' = "mk_load" /\ spc' = "off" /\ qpc' = "idle"
      /\ outages' = outages + 1
      /\ resumeAt' = IF Wine_End THEN NoResume ELSE Wine_Start + Wine_Now
  BY DEF PowerOff, RowsWoven
<1>2. outages \in Nat /\ Wine_Now \in Nat /\ ini.pos \in Nat
  BY SystemAssumption DEF ControlInv, TypeOK, ShmTypeOK, IniTypeOK, Inis
<1>3. outages' # 0 /\ (outages' = 1 => outages = 0)
  BY <1>1, <1>2
<1>4. ~MainHolds' /\ ~SupportHolds' /\ ~QtHolds'
  BY <1>1 DEF MainHolds, SupportHolds, QtHolds
<1>5. SavedInv'
  BY <1>1, <1>4 DEF SavedInv, Saved
<1>6. SectionsInv'
  BY <1>3 DEF SectionsInv
<1>7. CutInv => CutInv'
  <2> SUFFICES ASSUME CutInv, outages = 0 PROVE TellsCut(ini)'
    BY <1>1, <1>3, <1>4 DEF CutInv
  <2>1. Wine_Start = 0
    BY DEF CutInv
  <2>2. \/ Tells(ini, Wine_Now)
        \/ Wine_Now > 0 /\ Tells(ini, Wine_Now - 1)
    BY DEF CutInv, TellsAlmost
  <2> SUFFICES ASSUME ini.sections, ini.done = 0, ~Wine_End
               PROVE  Wine_Now \in {ini.pos, ini.pos + 1}
    BY <1>1, <1>2, <2>1 DEF TellsCut
  <2>3. ini.pos = Wine_Now \/ ini.pos + 1 = Wine_Now
    BY <1>2, <2>2 DEF Tells
  <2> QED BY <2>3
<1> QED BY <1>5, <1>6, <1>7 DEF FileCopies

-----------------------------------------------------------------------------
LEMMA NextKeepsFile ==
    ASSUME ControlInv, QuietInv, FileCopies, [Next]_vars
    PROVE  FileCopies' /\ (CutInv => CutInv')
<1>1. CASE MainStep \/ MainLockStep
  BY <1>1, MainKeepsFile
<1>2. CASE SpawnStep
  <2>1. UNCHANGED <<ini, iniLoaded, Wine_Now, Wine_Start, powerVars, qpc>>
    BY <1>2 DEF SpawnStep, Spawn, shmVars, exVars, iniVars, qtVars
  <2>2. /\ mpc \notin MainFile /\ mpc' \notin MainFile \cup BootSteps
        /\ spc \notin SupportFile /\ spc' \notin SupportFile
    BY <1>2 DEF SpawnStep, Spawn, Goto, SGoto, MainFile, PosSteps, BootSteps,
                SupportFile
  <2> QED BY <2>1, <2>2, FileFrame DEF FileAside
<1>3. CASE SupportStep \/ SupportLockStep \/ TimerStep
  <2>1. SupportNext /\ UNCHANGED OthersThanSupport
    BY <1>3 DEF SupportStep, SupportLockStep, TimerStep, SupportNext
  <2> QED BY <2>1, SupportKeepsFile
<1>4. CASE QtStart \/ QtStep \/ GuiStep
  BY <1>4, QtKeepsFile
<1>5. CASE PowerOff
  BY <1>5, PowerOffKeepsFile
<1>6. CASE UNCHANGED vars
  <2>1. FileAside
    BY <1>6 DEF vars, FileAside, iniVars, shmVars, exVars, mainVars,
                supportVars, qtVars
  <2> QED BY <2>1, FileFrame
<1> QED BY <1>1, <1>2, <1>3, <1>4, <1>5, <1>6 DEF Next

LEMMA InitFile ==
    ASSUME Init
    PROVE  /\ QuietInv /\ FileCopies
           /\ (\A f \in InitialInis : f.done = 0 => f.pos = 0) => CutInv
<1>1. /\ mpc = "mk_load" /\ spc = "off" /\ qpc = "idle" /\ outages = 0
      /\ P_State = "Ready" /\ Q_Command = "None"
      /\ Wine_Now = 0 /\ Wine_Start = 0
      /\ ini \in InitialInis /\ ini.sections
  BY InisAssumption DEF Init, MainInit, SupportInit, QtInit, ShmInit, IniInit
<1>2. QuietInv
  BY <1>1 DEF QuietInv, Quiet, StartRead, BootSteps, DoneSteps
<1>3. FileCopies
  BY <1>1 DEF FileCopies, SavedInv, Saved, SectionsInv, MainHolds,
              SupportHolds, QtHolds
<1>4. (\A f \in InitialInis : f.done = 0 => f.pos = 0) => CutInv
  BY <1>1 DEF CutInv, Tells, MainHolds, SupportHolds, QtHolds, PosSteps
<1> QED BY <1>2, <1>3, <1>4

(* A patient operator: whoever rewrites thj.ini has it for himself.  That  *)
(* the programs can do without a lock on the file rests on when they are   *)
(* started, not on anything they do to keep each other out.                *)
THEOREM OneRewriterAtATime ==
    ASSUME Patient
    PROVE  Spec => []FileInv
<1>1. Init => FileInv
  BY InitFile DEF FileInv
<1>2. ControlInv /\ FileInv /\ [Next]_vars => FileInv'
  BY NextKeepsQuiet, NextKeepsFile DEF FileInv
<1> QED BY <1>1, <1>2, ControlInvariant, PTL DEF Spec

(* IntWine:Pos in thj.ini is the rows woven, but while it is being         *)
(* written: neither program two nor the operator puts an older one back.   *)
THEOREM PositionIsSaved ==
    ASSUME Patient
    PROVE  Spec => []PositionSaved
<1>1. FileInv => PositionSaved
  BY DEF FileInv, FileCopies, SavedInv, Saved, PositionSaved, PosSteps
<1> QED BY <1>1, OneRewriterAtATime, PTL

(* Up to the first power failure, thj.ini never loses its sections: it is  *)
(* whole, or somebody who holds a whole copy is about to write it.         *)
THEOREM SectionsSurvive ==
    ASSUME Patient
    PROVE  Spec => []IniSurvives
<1>1. FileInv /\ ControlInv => IniSurvives
  <2>1. ControlInv => outages = 0 \/ outages > 0
    BY SystemAssumption DEF ControlInv, TypeOK
  <2> QED BY <2>1 DEF FileInv, FileCopies, SectionsInv, IniSurvives
<1> QED BY <1>1, OneRewriterAtATime, ControlInvariant, PTL

(* After the first power failure the machine starts at the row where the   *)
(* mission was cut off, or at the one before, if thj.ini tells a mission   *)
(* was cut off and that was before the last row of the pattern was woven.  *)
(* The file that the machine was first switched on with must not tell of   *)
(* an unfinished mission with rows woven.                                  *)
THEOREM FirstCutIsResumed ==
    ASSUME Patient, \A f \in InitialInis : f.done = 0 => f.pos = 0
    PROVE  Spec => []FirstCutResumed
<1>1. Init => CutInv
  BY InitFile
<1>2. ControlInv /\ FileInv /\ CutInv /\ [Next]_vars => CutInv'
  BY NextKeepsFile DEF FileInv
<1>3. ControlInv /\ CutInv => FirstCutResumed
  <2> SUFFICES ASSUME ControlInv, CutInv, mpc = "spawn", outages = 1,
                      resumeAt # NoResume, ini.sections, ini.done = 0
               PROVE  Wine_Start \in {resumeAt, resumeAt - 1}
    BY DEF FirstCutResumed
  <2>1. mpc \in BootSteps
    BY DEF BootSteps
  <2>2. TellsCut(ini) /\ Wine_Start = ini.pos
    BY <2>1 DEF CutInv
  <2>3. resumeAt = Wine_Start \/ resumeAt = Wine_Start + 1
    BY <2>2 DEF TellsCut
  <2>4. Wine_Start \in Nat
    BY DEF ControlInv, TypeOK, ShmTypeOK
  <2> QED BY <2>3, <2>4
<1> QED BY <1>1, <1>2, <1>3, ControlInvariant, OneRewriterAtATime, PTL
        DEF Spec

=============================================================================
