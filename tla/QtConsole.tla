----------------------------- MODULE QtConsole -----------------------------
(***************************************************************************)
(* The operator's side.  control_app/test_simulate.c stands in for the QT  *)
(* program, which is not in the repository: it attaches to the segment,    *)
(* writes IntWine:Filename to thj.ini and gives one Start command.  The    *)
(* other commands of thj.h:70-74 come from the QT program, seen only from  *)
(* the switches of cntrl_main.c that read them.                            *)
(*                                                                         *)
(* Nothing in the code tells the operator when a command may be given:     *)
(* MayStart and MayCommand of the system say when he gives one.            *)
(***************************************************************************)
EXTENDS IniFile, ShareMem

CONSTANTS
    Counts,         \* the Wine_Count of a mission (13 in test_simulate.c)
    Colors,         \* the Color_Num of the pattern (1 in test_simulate.c)
    GuiCommands,    \* the other commands the operator gives
    MaxJobs,        \* bound: runs of test_simulate after one power-on
    MaxCommands     \* bound: other commands after one power-on

ASSUME QtAssumption ==
    /\ Counts \subseteq Nat
    /\ Colors \in 1..MaxLines
    /\ GuiCommands \subseteq Commands \ {"None", "Start"}
    /\ MaxJobs \in Nat
    /\ MaxCommands \in Nat

VARIABLES
    qpc,            \* the next step of test_simulate
    jobs,           \* its runs since power-on
    commands        \* the other commands since power-on

qtVars == <<qpc, jobs, commands>>

QtSteps == {"idle", "init_load", "init_open", "init_save", "count", "start"}

QtTypeOK ==
    /\ qpc \in QtSteps
    /\ jobs \in 0..MaxJobs
    /\ commands \in 0..MaxCommands

QtInit == qpc = "idle" /\ jobs = 0 /\ commands = 0

QGoto(here, there) == qpc = here /\ qpc' = there

-----------------------------------------------------------------------------
(* f_init_test. *)

QtRun ==
    /\ QGoto("idle", "init_load")
    /\ jobs < MaxJobs
    /\ jobs' = jobs + 1
    /\ UNCHANGED <<commands, shmVars, iniVars, driverVars>>

InitTestLoad ==
    /\ QGoto("init_load", "init_open")
    /\ Load("qt")
    /\ UNCHANGED <<jobs, commands, shmVars, driverVars>>

InitTestOpen ==
    /\ QGoto("init_open", "init_save")
    /\ OpenForWriting
    /\ UNCHANGED <<jobs, commands, shmVars, driverVars>>

(* Without Temp:ShareMem f_init_test returns -1.  That is true for the if  *)
(* of main, and f_command writes through a null pointer: the program ends, *)
(* with the file still truncated.                                          *)
InitTestSave ==
    /\ qpc = "init_save"
    /\ IF iniLoaded["qt"].sections
       THEN qpc' = "count" /\ Save(iniLoaded["qt"])
       ELSE qpc' = "idle" /\ UNCHANGED iniVars
    /\ UNCHANGED <<jobs, commands, shmVars, driverVars>>

(* f_command: what the mission is, and then the command. *)
CommandCount ==
    /\ QGoto("count", "start")
    /\ Wine_Count' \in Counts
    /\ Color_Num' = Colors
    /\ UNCHANGED <<jobs, commands, stayVars, Q_Command, Wine_Start, Wine_Now,
                   Wine_End, lock, iniVars, driverVars>>

CommandStart ==
    /\ QGoto("start", "idle")
    /\ Q_Command' = "Start"
    /\ UNCHANGED <<jobs, commands, stayVars, exVars, lock, iniVars,
                   driverVars>>

-----------------------------------------------------------------------------
(* Another command of the operator. *)
GuiCommand ==
    /\ commands < MaxCommands
    /\ commands' = commands + 1
    /\ Q_Command' \in GuiCommands
    /\ UNCHANGED <<qpc, jobs, stayVars, exVars, lock, iniVars, driverVars>>

QtProceeds == InitTestLoad \/ InitTestOpen \/ InitTestSave
              \/ CommandCount \/ CommandStart

============================================================================
