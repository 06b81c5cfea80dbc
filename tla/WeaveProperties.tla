-------------------------- MODULE WeaveProperties --------------------------
(***************************************************************************)
(* What the controller of WeaveSystem should do.  The properties speak of  *)
(* rows and lines of the pattern file: line n of the carpet is the n-th    *)
(* line sent since power-on.                                               *)
(***************************************************************************)
EXTENDS WeaveSystem

(* The line of the pattern file that belongs n lines after the start: the  *)
(* pattern is repeated when it ends.                                       *)
PatternLine(n) == (Wine_Start * Colors + n) % (Height * Colors)

(* The rows in the ring that are not woven yet.  When the indices are      *)
(* equal the ring is full if it is marked so, if it is about to be, or if  *)
(* the row at the read index is half sent.                                 *)
RowsHeld ==
    CASE Buffer_Read < Buffer_Write -> Buffer_Write - Buffer_Read
      [] Buffer_Read > Buffer_Write -> NBuf + Buffer_Write - Buffer_Read
      [] OTHER -> IF Buffer_Full \/ spc = "full" \/ P_Line_Num > 0
                  THEN NBuf ELSE 0

(* Descriptors are left: every f_preload so far could open the file. *)
FilesLeft == flw_fds < OpenLimit

-----------------------------------------------------------------------------
(* The two programs are never both between file_lock and file_unlock:      *)
(* "I used file lock for synchronization" (cntrl_main.c:10-11).            *)
MutualExclusion == ~(MainInLock /\ SupportInLock)

(* The loom receives the lines of the pattern in order, without a gap, a   *)
(* repetition or a stale line, from the row where the mission starts: over *)
(* the wrap of the ring, the wrap of the file, and any interleaving of     *)
(* f_preload, the timer and f_Send_One_Line.                               *)
RowsInOrder ==
    FilesLeft => \A n \in 1..Len(carpet) : carpet[n] = PatternLine(n - 1)

(* The ring holds exactly the rows that come next, in the order in which   *)
(* f_Send_One_Line will take them, and IntWine_File_Pos (cntrl_support.c:  *)
(* 157) is the row after them.                                             *)
RingHoldsNextRows ==
    FilesLeft /\ Color_Num = Colors =>
        /\ \A i \in 0..RowsHeld-1, l \in 0..Colors-1 :
               hm6264[(Buffer_Read + i) % NBuf][l]
                   = PatternLine((Wine_Now + i) * Colors + l)
        /\ IntWine_File_Pos < Height =>
               IntWine_File_Pos = (Wine_Start + Wine_Now + RowsHeld) % Height

(* thj_write never reaches a row that is still to be woven: f_preload      *)
(* writes to the SRAM only while the ring has a free buffer.               *)
NoOverwrite ==
    [][hm6264' # hm6264 /\ outages' = outages => RowsHeld < NBuf]_vars

(* A prefetch never begins on a full ring: between the handler that sets   *)
(* NeedFetch and the f_preload that acts on it, the ring does not fill up. *)
FetchFindsRoom == NeedFetch /\ ~SupportInLock => ~Buffer_Full

(* IntWine:Pos in thj.ini is the rows woven since power-on, except while   *)
(* f_Send_One_Line is writing it: nobody puts an older position back.      *)
PositionSaved ==
    /\ Wine_Now > 0
    /\ ini.sections
    /\ mpc \notin {"pos_load", "pos_open", "pos_save"}
    => ini.pos = Wine_Now

(* A first mission sends exactly the lines of Wine_Count rows: never more, *)
(* and it is over only when all of them are sent.                          *)
MissionExact ==
    jobs <= 1 =>
        /\ Len(carpet) <= Wine_Count * Color_Num
        /\ mpc \in {"done_load", "done_open", "done_save"}
               => Len(carpet) = Wine_Count * Color_Num

(* After the first failure, in a mission that began at row 0 and was cut   *)
(* off before the last row of the pattern was woven once, with a thj.ini   *)
(* that tells so, the machine starts at the very row that was not woven,   *)
(* or at the one before, which was being recorded (cntrl_main.c:150-181,   *)
(* 378-395).  A cut at the end of the pattern or in a repetition of it is  *)
(* left out: Pos is then no row of the pattern, f_preload seeks beyond the *)
(* file, and ResumesWhereCut, which asks it of every failure, is broken.   *)
FirstCutResumed ==
    mpc = "spawn" /\ outages = 1 /\ resumeAt # NoResume
    /\ resumeAt < Height /\ ini.sections /\ ini.done = 0
    => Wine_Start \in {resumeAt, resumeAt - 1}

(* Somebody has truncated thj.ini and will write it back. *)
Rewriting ==
    \/ mpc \in {"mk_save", "last_save", "pos_save", "done_save"}
    \/ spc = "attach_save"
    \/ qpc = "init_save"

(* thj.ini keeps its sections through every read-modify-write of the three *)
(* programs: no one of them loads the file while another has it truncated. *)
(* A power failure may strike while it is.                                 *)
IniSurvives == ini.sections \/ Rewriting \/ outages > 0

-----------------------------------------------------------------------------
(* The queue that the indices, the flag and the SRAM stand for, when a row *)
(* is one line (Colors = 1): the rows held, without the one at the read    *)
(* index once it was sent.                                                 *)
RowsQueued == RowsHeld - (IF mpc = "advance" THEN 1 ELSE 0)

QueueFrom(b) ==
    [i \in 1..RowsQueued |-> hm6264[(b + i - 1) % NBuf][0]]

RingQueue == QueueFrom(IF mpc = "advance" THEN NextSlot(Buffer_Read)
                                          ELSE Buffer_Read)

Fifo == INSTANCE WeaveFifo WITH Rows <- Height, Capacity <- NBuf,
            next <- IntWine_File_Pos, queue <- RingQueue, woven <- carpet

(* The controller implements the bounded queue as long as f_preload can    *)
(* open the file: f_preload is its Fetch, CMD_SEND_LINE its Weave, a power *)
(* failure its Restart, and everything else changes nothing the loom or    *)
(* the file could see.                                                     *)
FifoImplemented ==
    Fifo!FifoInit /\ [][FilesLeft => Fifo!FifoNext]_(Fifo!fifoVars)

(* The rows woven and the rows in the ring follow each other in the        *)
(* pattern, and the next row to fetch follows them.                        *)
RowsConsecutive == FilesLeft => Fifo!Consecutive

-----------------------------------------------------------------------------
(* Program two that reached its loop has its timer running at some time,   *)
(* if the power holds: "set the timer, initialised to 500 ms"              *)
(* (cntrl_support.c:208).                                                  *)
TimerStarts == spc = "loop" ~> armed \/ spc = "off"

(* A mission that began ends: the rows are prefetched, sent and counted,   *)
(* and the machine is ready again.                                         *)
MissionTerminates == P_State = "IntWine" ~> P_State = "Ready"

=============================================================================
