---------------------------- MODULE WeaveSystem ----------------------------
(***************************************************************************)
(* The controller of the weaving machine: the two resident programs, the   *)
(* operator, the driver and the power switch, over one shared memory, one  *)
(* lock file and one thj.ini.                                              *)
(***************************************************************************)
EXTENDS MainControl, SupportControl, QtConsole

CONSTANTS
    Patient,        \* TRUE: the operator starts a mission only when the
                    \* machine is idle and both programs are up
    MaxOutages      \* bound: power failures

ASSUME SystemAssumption ==
    /\ Patient \in BOOLEAN
    /\ MaxOutages \in Nat

VARIABLES
    outages,        \* power failures so far
    resumeAt        \* history: the first row not woven when the last one
                    \* struck a mission, counted on over the end of the
                    \* pattern, NoResume if it struck none

powerVars == <<outages, resumeAt>>

vars == <<iniVars, driverVars, shmVars, mainVars, supportVars, qtVars,
          powerVars>>

NoResume == -1

RowsWoven == Wine_Now

TypeOK ==
    /\ IniTypeOK
    /\ DriverTypeOK
    /\ ShmTypeOK
    /\ MainTypeOK
    /\ SupportTypeOK
    /\ QtTypeOK
    /\ outages \in 0..MaxOutages
    /\ resumeAt \in Nat \cup {NoResume}

Init ==
    /\ IniInit
    /\ DriverInit
    /\ ShmInit
    /\ MainInit
    /\ SupportInit
    /\ QtInit
    /\ outages = 0
    /\ resumeAt = NoResume

-----------------------------------------------------------------------------
(* system("./cntrl_support &"), the last step before the loop of main. *)
Spawn ==
    /\ Goto("spawn", "loop")
    /\ SGoto("off", "attach_load")
    /\ UNCHANGED <<P_State, P_Line_Num, command, NeedFetch, fetchVars,
                   timerVars, shmVars, iniVars, driverVars>>

(* When test_simulate can find the segment of this power-on. *)
Published == mpc \notin {"mk_load", "mk_open", "mk_save"}

BothUp == mpc \notin BootSteps /\ spc \notin {"off", "attach_load",
                                   "attach_open", "attach_save", "arm"}

(* A patient operator waits until the machine is ready, the last command   *)
(* was read and program two is attached; any other one starts at will.     *)
MayStart == IF Patient
            THEN BothUp /\ P_State = "Ready" /\ Q_Command = "None"
                 /\ mpc \notin {"done_load", "done_open", "done_save"}
                 /\ command # "Start"
            ELSE Published

MayCommand == Published

(* The power fails: processes, segment, lock and timer are gone, and what  *)
(* is left is the file.  The SRAM is taken as cleared; nothing reads it    *)
(* before it is written.                                                   *)
PowerOff ==
    /\ outages < MaxOutages
    /\ outages' = outages + 1
    /\ resumeAt' = IF Wine_End THEN NoResume ELSE Wine_Start + RowsWoven
    /\ UNCHANGED ini
    /\ iniLoaded' = [p \in Processes |-> Empty]
    /\ hm6264' = [b \in Slots |-> [l \in 0..MaxLines-1 |-> Blank]]
    /\ data_length' = 0 /\ carpet' = <<>>
    /\ Buffer_Read' = 0 /\ Buffer_Write' = 0 /\ Buffer_Full' = FALSE
    /\ IntWine_File_Pos' = 0 /\ Q_Command' = "None"
    /\ Wine_Start' = 0 /\ Wine_Now' = 0 /\ Wine_Count' = 0
    /\ Wine_End' = TRUE /\ Color_Num' = 0 /\ lock' = "free"
    /\ mpc' = "mk_load" /\ P_State' = "Ready" /\ P_Line_Num' = 0
    /\ command' = "None"
    /\ spc' = "off" /\ NeedFetch' = FALSE
    /\ FlwData_line' = 0 /\ flw_pos' = 0 /\ flw_ok' = FALSE /\ flw_fds' = 0
    /\ check_sec' = 2 /\ armed' = FALSE
    /\ qpc' = "idle" /\ jobs' = 0 /\ commands' = 0

-----------------------------------------------------------------------------
OthersThanMain == <<supportVars, qtVars, powerVars>>
OthersThanSupport == <<mainVars, qtVars, powerVars>>
OthersThanQt == <<mainVars, supportVars, powerVars>>

MainStep == MainRuns /\ UNCHANGED OthersThanMain
MainLockStep == MainLock /\ UNCHANGED OthersThanMain
SpawnStep == Spawn /\ UNCHANGED <<qtVars, powerVars>>
SupportStep == SupportRuns /\ UNCHANGED OthersThanSupport
SupportLockStep == SupportLock /\ UNCHANGED OthersThanSupport
TimerStep == CheckFetch /\ UNCHANGED OthersThanSupport
QtStart == QtRun /\ MayStart /\ UNCHANGED OthersThanQt
QtStep == QtProceeds /\ UNCHANGED OthersThanQt
GuiStep == GuiCommand /\ MayCommand /\ UNCHANGED OthersThanQt

Next ==
    \/ MainStep \/ MainLockStep \/ SpawnStep
    \/ SupportStep \/ SupportLockStep \/ TimerStep
    \/ QtStart \/ QtStep \/ GuiStep
    \/ PowerOff

Spec == Init /\ [][Next]_vars

(***************************************************************************)
(* Fairness.  Linux runs every process that can run, and the timer expires *)
(* when it is armed: weak fairness of each.  A wait for the lock ends when *)
(* the other program keeps freeing it, since both release it in every turn *)
(* of their loops and the kernel wakes the waiter: strong fairness of the  *)
(* two steps that take it.  The operator who began a run of test_simulate  *)
(* lets it finish; nobody is obliged to start one, and no outage is due.   *)
(***************************************************************************)
Fairness ==
    /\ WF_vars(MainStep) /\ SF_vars(MainLockStep) /\ WF_vars(SpawnStep)
    /\ WF_vars(SupportStep) /\ SF_vars(SupportLockStep)
    /\ WF_vars(TimerStep)
    /\ WF_vars(QtStep)

FairSpec == Spec /\ Fairness

=============================================================================
