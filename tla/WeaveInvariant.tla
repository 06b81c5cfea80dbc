--------------------------- MODULE WeaveInvariant ---------------------------
(***************************************************************************)
(* The inductive invariant behind the safety properties of the weaving     *)
(* system, in named parts.  The parts before RingInv hold for every value  *)
(* of the constants; RingInv needs the lock file and rows of one line.     *)
(***************************************************************************)
EXTENDS WeaveProperties

WeavingSteps == {"lock", "count"} \cup LockedSteps

FetchSteps == {"lock"} \cup PreloadSteps

(* Whoever weaves or fetches does it after f_command said what. *)
JobInv ==
    /\ Color_Num \in {0, Colors}
    /\ Color_Num = 0 =>
          /\ "Start" \notin {command, Q_Command}
          /\ qpc # "start"
          /\ P_State \in {"Ready", "RePair"}
          /\ Wine_End
          /\ ~NeedFetch
          /\ spc \notin FetchSteps
    /\ mpc \in WeavingSteps => P_State = "IntWine"
    /\ mpc = "stay_clear" => P_State = "Stay"

(* P_Line_Num counts the lines of the row sent so far; it is past the line *)
(* to send between its increment and the end of the row.                   *)
LineInv ==
    /\ mpc = "ioctl" => P_Line_Num \in 1..Colors
    /\ mpc = "advance" => P_Line_Num = Colors
    /\ mpc \notin {"ioctl", "advance"} => P_Line_Num \in 0..Colors-1

(* The lock is held by whoever is between file_lock and file_unlock. *)
LockInv ==
    LockFile => /\ MainInLock <=> lock = "main"
                /\ SupportInLock <=> lock = "support"

(* A full ring is not being filled, nor wanted to be. *)
FetchInv ==
    Buffer_Full => ~NeedFetch /\ spc \notin FetchSteps \ {"unlock"}

ControlInv == TypeOK /\ JobInv /\ LineInv /\ LockInv /\ FetchInv

-----------------------------------------------------------------------------
(* The buffer that lies i places after the read index. *)
SlotAt(i) == IF Buffer_Read + i < NBuf THEN Buffer_Read + i
                                       ELSE Buffer_Read + i - NBuf

PatternRow(n) == (Wine_Start + n) % Height

(* The flag and the program counters agree with the indices. *)
IndexInv ==
    /\ Buffer_Full => Buffer_Read = Buffer_Write
    /\ spc = "full" => Buffer_Read = Buffer_Write
    /\ mpc \in {"ioctl", "advance"} => ~Buffer_Full

(* What f_preload is about to hand over is the row at IntWine_File_Pos. *)
CursorInv ==
    /\ spc \in {"read", "advance"} => flw_ok
    /\ spc = "read" =>
          /\ FlwData_line = 0
          /\ flw_pos < Height => flw_pos = IntWine_File_Pos
    /\ spc = "advance" =>
          /\ FlwData_line = 1
          /\ IntWine_File_Pos < Height
          /\ flw_pos = IntWine_File_Pos + 1
          /\ hm6264[Buffer_Write][0] = IntWine_File_Pos

(* The rows held are the next ones of the pattern, each of full length. *)
ContentInv ==
    /\ \A i \in 0..RowsHeld-1 :
          hm6264[SlotAt(i)][0] = PatternRow(Wine_Now + i)
    /\ RowsHeld > 0 \/ spc = "advance" =>
          /\ data_length = Width
          /\ IntWine_File_Pos < Height
    /\ IntWine_File_Pos < Height =>
          IntWine_File_Pos = PatternRow(Wine_Now + RowsHeld)

(* The loom has received the rows before Wine_Now, and the one at the read *)
(* index if it was sent.                                                   *)
CarpetInv ==
    /\ Len(carpet) = Wine_Now + (IF mpc = "advance" THEN 1 ELSE 0)
    /\ \A n \in 1..Len(carpet) : carpet[n] = PatternRow(n - 1)

(* Before f_Read_Last nothing is fetched or woven. *)
BootInv ==
    mpc \in BootSteps => /\ Wine_Now = 0
                         /\ Buffer_Read = Buffer_Write
                         /\ ~Buffer_Full
                         /\ spc = "off"

RingInv ==
    /\ IndexInv
    /\ BootInv
    /\ FilesLeft => CursorInv /\ ContentInv /\ CarpetInv

(* Once a row was woven the position in the file is a row of it. *)
StartedInv == FilesLeft /\ Wine_Now > 0 => IntWine_File_Pos < Height

-----------------------------------------------------------------------------
(* The missions.  These parts need neither the lock file nor rows of one   *)
(* line, only that a mission has a row to weave.                           *)

DoneSteps == {"done_load", "done_open", "done_save"}

PosSteps == {"pos_load", "pos_open", "pos_save"}

(* The lines the loom received are the rows of Wine_Now and P_Line_Num     *)
(* lines, but for the one that ioctl 10 is about to send.                  *)
CountInv ==
    /\ Len(carpet) = Wine_Now * Color_Num + P_Line_Num
                     - (IF mpc = "ioctl" THEN 1 ELSE 0)
    /\ Color_Num = 0 => /\ Wine_Now = 0 /\ P_Line_Num = 0
                        /\ mpc \notin DoneSteps
    /\ mpc \in {"ready_clear"} \cup DoneSteps => P_State = "Ready"

(* A Start command is on its way. *)
StartRead == mpc = "ready_clear" /\ command = "Start"

StartPending == qpc = "start" \/ Q_Command = "Start" \/ StartRead

Begun == P_State \in {"Stay", "IntWine"}

(* The mission is over, but f_Run_IntWine has not found out. *)
LastRowCounted ==
    /\ mpc \in PosSteps \cup {"unlock", "count"}
    /\ Wine_Now = Wine_Count
    /\ P_Line_Num = 0

(* The first run of test_simulate starts one mission, and once. *)
OnceInv ==
    jobs <= 1 =>
        /\ jobs = 0 => qpc = "idle"
        /\ jobs = 0 \/ qpc \in {"init_load", "init_open", "init_save", "count"}
               => Color_Num = 0
        /\ qpc = "start" => Q_Command # "Start" /\ ~StartRead
        /\ StartPending => /\ ~Begun
                           /\ mpc \notin DoneSteps
                           /\ Wine_Now = 0 /\ P_Line_Num = 0
                           /\ Wine_Now < Wine_Count
        /\ Begun => Wine_Now < Wine_Count \/ LastRowCounted
        /\ mpc \in DoneSteps => Wine_Now = Wine_Count /\ P_Line_Num = 0
        /\ Color_Num # 0 =>
               \/ Wine_Now < Wine_Count
               \/ Wine_Now = Wine_Count /\ P_Line_Num = 0

MissionInv == CountInv /\ OnceInv

-----------------------------------------------------------------------------
(* thj.ini.  These parts need a patient operator.                          *)

(* Program one neither weaves nor is about to. *)
Quiet ==
    /\ mpc \in BootSteps \cup {"loop", "ready_clear"}
    /\ P_State \in {"Ready", "RePair"}
    /\ Q_Command # "Start"
    /\ ~StartRead

Attaching == {"off", "attach_load", "attach_open", "attach_save", "arm"}

(* The three programs rewrite the file one at a time. *)
QuietInv ==
    /\ mpc \in BootSteps => spc = "off"
    /\ spc \in Attaching => Quiet /\ qpc = "idle" /\ Wine_Now = 0
    /\ qpc # "idle" => Quiet
    /\ mpc \in {"ready_clear"} \cup DoneSteps => P_State = "Ready"

(* The steps where a program holds a copy of the file. *)
MainHolds == mpc \in {"mk_open", "mk_save", "last_open", "last_save",
                      "pos_open", "pos_save", "done_open", "done_save"}

SupportHolds == spc \in {"attach_open", "attach_save"}

QtHolds == qpc \in {"init_open", "init_save"}

(* A copy tells the rows woven. *)
Saved(f) == Wine_Now > 0 /\ f.sections => f.pos = Wine_Now

SavedInv ==
    mpc \notin PosSteps =>
        /\ Saved(ini)
        /\ MainHolds => Saved(iniLoaded["main"])
        /\ QtHolds => Saved(iniLoaded["qt"])

(* No copy is one of a file without sections, before the first failure. *)
SectionsInv ==
    outages = 0 =>
        /\ ini.sections \/ Rewriting
        /\ MainHolds => iniLoaded["main"].sections
        /\ SupportHolds => iniLoaded["support"].sections
        /\ QtHolds => iniLoaded["qt"].sections

FileCopies == SavedInv /\ SectionsInv

FileInv == QuietInv /\ FileCopies

(* A copy of a mission that is not done tells where it is, up to the row   *)
(* that is being recorded.                                                 *)
Tells(f, row) == f.sections /\ f.done = 0 => f.pos = row

TellsAlmost(f) == Tells(f, Wine_Now) \/ Tells(f, Wine_Now - 1)

(* A copy of a mission that is not done tells where it was cut off. *)
TellsCut(f) ==
    f.sections /\ f.done = 0 /\ resumeAt # NoResume =>
        resumeAt \in {f.pos, f.pos + 1}

(* Before the first failure, and up to the start of the loop after it,     *)
(* when the machine was first switched on with no mission to resume.       *)
CutInv ==
    /\ outages = 0 =>
          /\ Wine_Start = 0
          /\ IF mpc \in PosSteps THEN Wine_Now > 0 /\ TellsAlmost(ini)
             ELSE /\ Tells(ini, Wine_Now)
                  /\ MainHolds => Tells(iniLoaded["main"], Wine_Now)
          /\ SupportHolds => Tells(iniLoaded["support"], Wine_Now)
          /\ QtHolds => Tells(iniLoaded["qt"], Wine_Now)
    /\ outages = 1 /\ mpc \in BootSteps =>
          /\ TellsCut(ini)
          /\ MainHolds => TellsCut(iniLoaded["main"])
          /\ mpc = "last_save" => ~ini.sections
          /\ mpc = "spawn" /\ ini.sections /\ ini.done = 0
                => Wine_Start = ini.pos

=============================================================================
