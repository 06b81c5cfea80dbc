---------------------------- MODULE MainControl ----------------------------
(***************************************************************************)
(* control_app/cntrl_main.c: resident program one.  It creates the shared  *)
(* memory, reads thj.ini, starts program two, and then loops for ever over *)
(* the machine states Ready, Stay, IntWine and RePair, sending one line of *)
(* the pattern per turn in IntWine.                                        *)
(*                                                                         *)
(* mpc names the next atomic step.  A step is what no other process can    *)
(* tell apart from a single event: one access to a variable that somebody  *)
(* else writes, or one call on thj.ini, the lock or the driver.  The       *)
(* program is modelled as it is compiled, with LDebug defined (line 29 of  *)
(* the file), so f_Run_Stay always supposes a request of the loom.         *)
(***************************************************************************)
EXTENDS IniFile, ShareMem

CONSTANTS
    MaxSent         \* bound: lines sent after one power-on

VARIABLES
    mpc,            \* the next step of the program
    P_State,        \* the state of the machine
    P_Line_Num,     \* the line of the buffer to send next
    command         \* local of f_Run_Ready and f_Run_Stay

mainVars == <<mpc, P_State, P_Line_Num, command>>

States == {"Ready", "Stay", "IntWine", "RePair"}

BootSteps == {"mk_load", "mk_open", "mk_save",          \* f_MkShm
              "last_load", "last_open", "last_save",    \* f_Read_Last
              "spawn"}

LockedSteps == {"send", "ioctl", "advance",             \* f_Send_One_Line
                "pos_load", "pos_open", "pos_save", "unlock"}

MainSteps == BootSteps \cup LockedSteps \cup
    {"loop", "ready_clear", "stay_clear", "lock", "count",
     "done_load", "done_open", "done_save"}

MainTypeOK ==
    /\ mpc \in MainSteps
    /\ P_State \in States
    /\ P_Line_Num \in Nat
    /\ command \in Commands

MainInit ==
    /\ mpc = "mk_load"
    /\ P_State = "Ready"
    /\ P_Line_Num = 0
    /\ command = "None"

Goto(here, there) == mpc = here /\ mpc' = there

-----------------------------------------------------------------------------
(* f_init.  The new segment is in nobody else's hands before its id is in  *)
(* thj.ini, so creating and clearing it is part of the first step.         *)

MkShmLoad ==
    /\ Goto("mk_load", "mk_open")
    /\ Load("main")
    /\ UNCHANGED <<P_State, P_Line_Num, command, shmVars, driverVars>>

MkShmOpen ==
    /\ Goto("mk_open", "mk_save")
    /\ OpenForWriting
    /\ UNCHANGED <<P_State, P_Line_Num, command, shmVars, driverVars>>

MkShmSave ==
    /\ Goto("mk_save", "last_load")
    /\ Save(iniLoaded["main"])
    /\ UNCHANGED <<P_State, P_Line_Num, command, shmVars, driverVars>>

ReadLastLoad ==
    /\ Goto("last_load", "last_open")
    /\ Load("main")
    /\ UNCHANGED <<P_State, P_Line_Num, command, shmVars, driverVars>>

ReadLastOpen ==
    /\ Goto("last_open", "last_save")
    /\ OpenForWriting
    /\ UNCHANGED <<P_State, P_Line_Num, command, shmVars, driverVars>>

(* Mutant: the flag is read the other way round. *)
StartOfDone(f) == IF f.done = 1 THEN f.pos ELSE 0

(* Done = 0 means that the last mission was cut off at row Pos. *)
StartOf(f) == IF f.done = 0 THEN f.pos ELSE 0

(* Without IntWine:Done the function returns before it writes the file     *)
(* back or sets anything.                                                  *)
ReadLastSave ==
    /\ Goto("last_save", "spawn")
    /\ LET f == iniLoaded["main"] IN
       IF f.sections
       THEN /\ Wine_Start' = StartOf(f)
            /\ IntWine_File_Pos' = StartOf(f)
            /\ Save(f)
       ELSE UNCHANGED <<Wine_Start, IntWine_File_Pos, iniVars>>
    /\ UNCHANGED <<P_State, P_Line_Num, command, Buffer_Read, Buffer_Write,
                   Buffer_Full, Q_Command, Wine_Now, Wine_Count, Wine_End,
                   Color_Num, lock, driverVars>>

-----------------------------------------------------------------------------
(* f_Run_Ready and f_Run_Stay: the command is read, and then the mailbox   *)
(* is cleared.                                                             *)

ReadCommand(state, next) ==
    /\ Goto("loop", next)
    /\ P_State = state
    /\ command' = Q_Command
    /\ UNCHANGED <<P_State, P_Line_Num, shmVars, iniVars, driverVars>>

RunReady == ReadCommand("Ready", "ready_clear")

RunStay == ReadCommand("Stay", "stay_clear")

NextState(c) ==
    CASE c = "Start" -> "Stay"
      [] c \in {"Self_Test", "Clean_Magnetism"} -> "RePair"
      [] OTHER -> "Ready"

RunReadyClear ==
    /\ Goto("ready_clear", "loop")
    /\ Q_Command' = "None"
    /\ P_State' = NextState(command)
    /\ UNCHANGED <<P_Line_Num, command, stayVars, exVars, lock, iniVars,
                   driverVars>>

(* The switch sets State_Ready for IntWine_Stop; the LDebug lines after it *)
(* set State_IntWine whatever the command was.                             *)
RunStayClear ==
    /\ Goto("stay_clear", "loop")
    /\ Q_Command' = "None"
    /\ P_State' = "IntWine"
    /\ Wine_End' = FALSE
    /\ UNCHANGED <<P_Line_Num, command, stayVars, Wine_Start, Wine_Now,
                   Wine_Count, Color_Num, lock, iniVars, driverVars>>

-----------------------------------------------------------------------------
(* State_RePair: the loop of main turns without doing anything. *)
RunRePair ==
    /\ Goto("loop", "loop")
    /\ P_State = "RePair"
    /\ UNCHANGED <<P_State, P_Line_Num, command, shmVars, iniVars, driverVars>>

-----------------------------------------------------------------------------
(* f_Run_IntWine and f_Send_One_Line. *)

RunIntWine ==
    /\ Goto("loop", "lock")
    /\ P_State = "IntWine"
    /\ Len(carpet) < MaxSent
    /\ UNCHANGED <<P_State, P_Line_Num, command, shmVars, iniVars, driverVars>>

MainLock ==
    /\ Goto("lock", "send")
    /\ AcquireLock("main")
    /\ UNCHANGED <<P_State, P_Line_Num, command, stayVars, Q_Command, exVars,
                   iniVars, driverVars>>

(* Mutant: the flag is left as it is. *)
FullKept == Buffer_Full

(* Buffer_Full after a line of a full ring was taken. *)
FullAfterSend == FALSE

SendOneLine ==
    /\ Goto("send", "ioctl")
    /\ NotEmpty
    /\ Buffer_Full' = FullAfterSend
    /\ P_Line_Num' = P_Line_Num + 1
    /\ UNCHANGED <<P_State, command, Buffer_Read, Buffer_Write,
                   IntWine_File_Pos, Q_Command, exVars, lock, iniVars,
                   driverVars>>

SendNothing ==
    /\ Goto("send", "unlock")
    /\ ~NotEmpty
    /\ UNCHANGED <<P_State, P_Line_Num, command, shmVars, iniVars, driverVars>>

(* The line that param named before P_Line_Num was incremented. *)
LineSent == P_Line_Num - 1

RowSent == P_Line_Num = Color_Num

Ioctl ==
    /\ mpc = "ioctl"
    /\ mpc' = IF RowSent THEN "advance" ELSE "unlock"
    /\ SendLine(Buffer_Read, LineSent)
    /\ UNCHANGED <<P_State, P_Line_Num, command, shmVars, iniVars>>

Advance ==
    /\ Goto("advance", "pos_load")
    /\ Buffer_Read' = NextSlot(Buffer_Read)
    /\ Wine_Now' = Wine_Now + 1
    /\ P_Line_Num' = 0
    /\ UNCHANGED <<P_State, command, Buffer_Write, Buffer_Full,
                   IntWine_File_Pos, Q_Command, Wine_Start, Wine_Count,
                   Wine_End, Color_Num, lock, iniVars, driverVars>>

PosLoad ==
    /\ Goto("pos_load", "pos_open")
    /\ Load("main")
    /\ UNCHANGED <<P_State, P_Line_Num, command, shmVars, driverVars>>

PosOpen ==
    /\ Goto("pos_open", "pos_save")
    /\ OpenForWriting
    /\ UNCHANGED <<P_State, P_Line_Num, command, shmVars, driverVars>>

PosSave ==
    /\ Goto("pos_save", "unlock")
    /\ Save(SetPos(iniLoaded["main"], Wine_Now))
    /\ UNCHANGED <<P_State, P_Line_Num, command, shmVars, driverVars>>

MainUnlock ==
    /\ Goto("unlock", "count")
    /\ ReleaseLock("main")
    /\ UNCHANGED <<P_State, P_Line_Num, command, stayVars, Q_Command, exVars,
                   iniVars, driverVars>>

(* Mutant: one row too few. *)
MissionWovenEarly == Wine_Count = Wine_Now + 1

MissionWoven == Wine_Count = Wine_Now

CountRows ==
    /\ mpc = "count"
    /\ IF MissionWoven
       THEN mpc' = "done_load" /\ Wine_End' = TRUE /\ P_State' = "Ready"
       ELSE mpc' = "loop" /\ UNCHANGED <<Wine_End, P_State>>
    /\ UNCHANGED <<P_Line_Num, command, stayVars, Q_Command, Wine_Start,
                   Wine_Now, Wine_Count, Color_Num, lock, iniVars, driverVars>>

DoneLoad ==
    /\ Goto("done_load", "done_open")
    /\ Load("main")
    /\ UNCHANGED <<P_State, P_Line_Num, command, shmVars, driverVars>>

DoneOpen ==
    /\ Goto("done_open", "done_save")
    /\ OpenForWriting
    /\ UNCHANGED <<P_State, P_Line_Num, command, shmVars, driverVars>>

DoneSave ==
    /\ Goto("done_save", "loop")
    /\ Save(SetDone(iniLoaded["main"], 1))
    /\ UNCHANGED <<P_State, P_Line_Num, command, shmVars, driverVars>>

-----------------------------------------------------------------------------
(* Main without the step that starts program two, which is in WeaveSystem. *)

MainBoot == MkShmLoad \/ MkShmOpen \/ MkShmSave
            \/ ReadLastLoad \/ ReadLastOpen \/ ReadLastSave

MainDispatch == RunReady \/ RunReadyClear \/ RunStay \/ RunStayClear
                \/ RunRePair \/ RunIntWine

MainWeave == SendOneLine \/ SendNothing \/ Ioctl \/ Advance
             \/ PosLoad \/ PosOpen \/ PosSave \/ MainUnlock
             \/ CountRows \/ DoneLoad \/ DoneOpen \/ DoneSave

MainNext == MainBoot \/ MainDispatch \/ MainLock \/ MainWeave

(* Taking the lock is kept apart: it is the only step that can wait for    *)
(* another process, and it needs a stronger fairness than the others.      *)
MainRuns == MainBoot \/ MainDispatch \/ MainWeave

MainInLock == mpc \in LockedSteps

============================================================================
