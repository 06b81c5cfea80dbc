--------------------------- MODULE SupportControl ---------------------------
(***************************************************************************)
(* control_app/cntrl_support.c: resident program two.  It attaches to the  *)
(* segment whose id is in thj.ini, and prefetches rows of the pattern file *)
(* into the ring of the 6264 when the SIGALRM handler asked for it.        *)
(*                                                                         *)
(* The handler f_check_fetch runs between any two steps of the program.    *)
(* Its two reads of shared memory and its write of NeedFetch are one step: *)
(* Buffer_Full is cleared only while Wine_End is FALSE and set only by the *)
(* process the handler interrupts, so the pair it reads was there at one   *)
(* moment.                                                                 *)
(*                                                                         *)
(* f_preload opens the pattern file on every call and never closes it:     *)
(* flw_fds counts the descriptors in use, up to OpenLimit, where open and  *)
(* with it every read fails.                                               *)
(***************************************************************************)
EXTENDS IniFile, ShareMem

CONSTANTS
    Height,         \* rows of the pattern file
    OpenLimit       \* files the process may open (1024 under Linux)

ASSUME SupportAssumption ==
    /\ Height \in Nat \ {0}
    /\ OpenLimit \in Nat

VARIABLES
    spc,            \* the next step of the program
    NeedFetch,      \* set by the handler, tested by the main loop
    FlwData_line,   \* FlwData.line: the line to write next
    flw_pos,        \* the offset of the pattern file, in lines
    flw_ok,         \* TRUE iff the open of this call succeeded
    flw_fds,        \* pattern files left open
    check_sec,      \* check.it_value.tv_sec of main
    armed           \* TRUE iff the interval timer runs

supportVars == <<spc, NeedFetch, FlwData_line, flw_pos, flw_ok, flw_fds,
                 check_sec, armed>>
fetchVars == <<FlwData_line, flw_pos, flw_ok, flw_fds>>
timerVars == <<check_sec, armed>>

PreloadSteps == {"open", "read", "advance", "full", "unlock"}

SupportSteps == PreloadSteps \cup
    {"off", "exit", "attach_load", "attach_open", "attach_save",
     "arm", "loop", "lock", "interval"}

SupportTypeOK ==
    /\ spc \in SupportSteps
    /\ NeedFetch \in BOOLEAN
    /\ FlwData_line \in Nat
    /\ flw_pos \in Nat
    /\ flw_ok \in BOOLEAN
    /\ flw_fds \in 0..OpenLimit
    /\ check_sec \in {0, 2}
    /\ armed \in BOOLEAN

SupportInit ==
    /\ spc = "off"
    /\ NeedFetch = FALSE
    /\ FlwData_line = 0
    /\ flw_pos = 0
    /\ flw_ok = FALSE
    /\ flw_fds = 0
    /\ check_sec = 2
    /\ armed = FALSE

SGoto(here, there) == spc = here /\ spc' = there

-----------------------------------------------------------------------------
(* f_attashm. *)

AttachLoad ==
    /\ SGoto("attach_load", "attach_open")
    /\ Load("support")
    /\ UNCHANGED <<NeedFetch, fetchVars, timerVars, shmVars, driverVars>>

AttachOpen ==
    /\ SGoto("attach_open", "attach_save")
    /\ OpenForWriting
    /\ UNCHANGED <<NeedFetch, fetchVars, timerVars, shmVars, driverVars>>

(* Without Temp:ShareMem the program ends, and the file stays truncated. *)
AttachSave ==
    /\ spc = "attach_save"
    /\ IF iniLoaded["support"].sections
       THEN spc' = "arm" /\ Save(iniLoaded["support"])
       ELSE spc' = "exit" /\ UNCHANGED iniVars
    /\ UNCHANGED <<NeedFetch, fetchVars, timerVars, shmVars, driverVars>>

-----------------------------------------------------------------------------
(* The interval timer. *)

(* Mutant: the settings are exchanged, as the comments have them. *)
SetIntervalSwapped ==
    \/ /\ ~Wine_End /\ check_sec = 2
       /\ check_sec' = 0 /\ armed' = TRUE
    \/ /\ Wine_End /\ check_sec = 0
       /\ check_sec' = 2 /\ armed' = TRUE
    \/ /\ Wine_End <=> check_sec = 2
       /\ UNCHANGED timerVars

(* f_set_interval rearms the timer, with 500 ms or 2 s, only when the      *)
(* struct still holds the other setting.                                   *)
SetInterval ==
    \/ /\ Wine_End /\ check_sec = 2
       /\ check_sec' = 0 /\ armed' = TRUE
    \/ /\ ~Wine_End /\ check_sec = 0
       /\ check_sec' = 2 /\ armed' = TRUE
    \/ /\ Wine_End <=> check_sec = 0
       /\ UNCHANGED timerVars

(* Main up to its loop; check is local, its tv_sec starts as 2. *)
FirstInterval ==
    /\ SGoto("arm", "loop")
    /\ SetInterval
    /\ UNCHANGED <<NeedFetch, fetchVars, shmVars, iniVars, driverVars>>

NextInterval ==
    /\ SGoto("interval", "loop")
    /\ SetInterval
    /\ UNCHANGED <<NeedFetch, fetchVars, shmVars, iniVars, driverVars>>

FetchAlways == ~Wine_End    \* mutant: Buffer_Full is not looked at

FetchNeeded == ~Wine_End /\ ~Buffer_Full

(* f_check_fetch, the handler of SIGALRM. *)
CheckFetch ==
    /\ armed
    /\ NeedFetch' = FetchNeeded
    /\ UNCHANGED <<spc, fetchVars, timerVars, shmVars, iniVars, driverVars>>

-----------------------------------------------------------------------------
(* main and f_preload. *)

Poll ==
    /\ spc = "loop"
    /\ spc' = IF NeedFetch THEN "lock" ELSE "interval"
    /\ UNCHANGED <<NeedFetch, fetchVars, timerVars, shmVars, iniVars,
                   driverVars>>

SupportLock ==
    /\ SGoto("lock", "open")
    /\ AcquireLock("support")
    /\ UNCHANGED <<NeedFetch, fetchVars, timerVars, stayVars, Q_Command,
                   exVars, iniVars, driverVars>>

FirstLineNoSeek(row) == 0   \* mutant: the offset is not set

(* The file is opened, and read from the row at IntWine_File_Pos. *)
FirstLine(row) == row * Color_Num

PreloadOpen ==
    /\ SGoto("open", "read")
    /\ flw_ok' = (flw_fds < OpenLimit)
    /\ flw_fds' = IF flw_fds < OpenLimit THEN flw_fds + 1 ELSE flw_fds
    /\ flw_pos' = FirstLine(IntWine_File_Pos)
    /\ FlwData_line' = 0
    /\ UNCHANGED <<NeedFetch, timerVars, shmVars, iniVars, driverVars>>

EndOfFileLate == flw_pos > Height * Color_Num   \* mutant: off by one

EndOfFile == flw_pos >= Height * Color_Num

RowFetched == FlwData_line' = Color_Num

(* One turn of the loop up to its test of FlwData.line.  A failed read     *)
(* returns -1, which is not 0: the struct goes to the driver with this     *)
(* length.                                                                 *)
PreloadRead ==
    /\ spc = "read"
    /\ flw_ok => ~EndOfFile
    /\ Write6264(Buffer_Write, FlwData_line, IF flw_ok THEN Width ELSE -1,
                 flw_pos)
    /\ FlwData_line' = FlwData_line + 1
    /\ flw_pos' = flw_pos + 1
    /\ spc' = IF RowFetched THEN "advance" ELSE "read"
    /\ UNCHANGED <<NeedFetch, flw_ok, flw_fds, timerVars, shmVars, iniVars>>

PreloadEnd ==
    /\ SGoto("read", "unlock")
    /\ flw_ok /\ EndOfFile
    /\ UNCHANGED <<NeedFetch, fetchVars, timerVars, shmVars, iniVars,
                   driverVars>>

NextFilePosLate(row) == (row + 1) % (Height + 1)   \* mutant: off by one

(* height was read from the file; when that failed it is what the stack    *)
(* held, and so is the row that % height leaves.                           *)
NextFilePos(row) == (row + 1) % Height

PreloadAdvance ==
    /\ spc = "advance"
    /\ FlwData_line' = 0
    /\ Buffer_Write' = NextSlot(Buffer_Write)
    /\ IF flw_ok THEN IntWine_File_Pos' = NextFilePos(IntWine_File_Pos)
                 ELSE IntWine_File_Pos' \in 0..Height-1
    /\ spc' = IF Buffer_Write' = Buffer_Read THEN "full" ELSE "read"
    /\ UNCHANGED <<NeedFetch, flw_pos, flw_ok, flw_fds, timerVars,
                   Buffer_Read, Buffer_Full, Q_Command, exVars, lock, iniVars,
                   driverVars>>

PreloadFull ==
    /\ SGoto("full", "unlock")
    /\ Buffer_Full' = TRUE
    /\ NeedFetch' = FALSE
    /\ UNCHANGED <<fetchVars, timerVars, Buffer_Read, Buffer_Write,
                   IntWine_File_Pos, Q_Command, exVars, lock, iniVars,
                   driverVars>>

SupportUnlock ==
    /\ SGoto("unlock", "interval")
    /\ ReleaseLock("support")
    /\ UNCHANGED <<NeedFetch, fetchVars, timerVars, stayVars, Q_Command,
                   exVars, iniVars, driverVars>>

-----------------------------------------------------------------------------
SupportRuns == AttachLoad \/ AttachOpen \/ AttachSave
               \/ FirstInterval \/ NextInterval \/ Poll
               \/ PreloadOpen \/ PreloadRead \/ PreloadEnd
               \/ PreloadAdvance \/ PreloadFull \/ SupportUnlock

SupportNext == SupportRuns \/ SupportLock \/ CheckFetch

SupportInLock == spc \in PreloadSteps

============================================================================
