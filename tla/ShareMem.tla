------------------------------ MODULE ShareMem ------------------------------
(***************************************************************************)
(* The shared memory segment of the control programs (driver/thj.h:24-57), *)
(* and the file lock beside it.  Between_Stay is a ring of NBuf buffers: a *)
(* read index, a write index, and Buffer_Full to tell a full ring from an  *)
(* empty one when they are equal.                                          *)
(*                                                                         *)
(* The lock is fcntl(F_SETLKW) on a file "lock" that both programs open    *)
(* without O_CREAT and without a test of the result: when the file is not  *)
(* there, file_lock fails at once and nobody waits (LockFile = FALSE).     *)
(***************************************************************************)
EXTENDS Thj6264

CONSTANTS
    LockFile        \* TRUE iff the file "lock" exists in the directory

ASSUME LockFileAssumption == LockFile \in BOOLEAN

VARIABLES
    Buffer_Read, Buffer_Write, Buffer_Full, IntWine_File_Pos, \* Between_Stay
    Q_Command,                                                \* QT_Stay
    Wine_Start, Wine_Now, Wine_Count, Wine_End, Color_Num,    \* Ex_All
    lock                                                      \* its holder

stayVars == <<Buffer_Read, Buffer_Write, Buffer_Full, IntWine_File_Pos>>
exVars == <<Wine_Start, Wine_Now, Wine_Count, Wine_End, Color_Num>>
shmVars == <<stayVars, Q_Command, exVars, lock>>

Commands == {"None", "Start", "Stop", "Self_Test", "Clean_Magnetism"}

Lockers == {"main", "support"}

ShmTypeOK ==
    /\ Buffer_Read \in Slots
    /\ Buffer_Write \in Slots
    /\ Buffer_Full \in BOOLEAN
    /\ IntWine_File_Pos \in Nat
    /\ Q_Command \in Commands
    /\ Wine_Start \in Nat
    /\ Wine_Now \in Nat
    /\ Wine_Count \in Nat
    /\ Wine_End \in BOOLEAN
    /\ Color_Num \in 0..MaxLines
    /\ lock \in Lockers \cup {"free"}

(* A segment as f_MkShm leaves it; shmget gives it zeroed.  No process     *)
(* holds the lock when none of them runs.                                  *)
ShmInit ==
    /\ Buffer_Read = 0 /\ Buffer_Write = 0
    /\ Buffer_Full = FALSE
    /\ IntWine_File_Pos = 0
    /\ Q_Command = "None"
    /\ Wine_Start = 0 /\ Wine_Now = 0 /\ Wine_Count = 0
    /\ Wine_End = TRUE
    /\ Color_Num = 0
    /\ lock = "free"

NextSlotNoWrap(b) == b + 1              \* mutant: the ring does not wrap

NextSlot(b) == (b + 1) % NBuf

(* The test of f_Send_One_Line: something is prefetched. *)
NotEmpty == (Buffer_Read = Buffer_Write /\ Buffer_Full)
            \/ Buffer_Read # Buffer_Write

AcquireNoWait(p) == lock' = p           \* mutant: nobody waits

AcquireLock(p) ==
    /\ LockFile => lock = "free"
    /\ lock' = IF LockFile THEN p ELSE lock

ReleaseForgotten(p) == UNCHANGED lock   \* mutant: the lock is kept

ReleaseLock(p) == lock' = IF lock = p THEN "free" ELSE lock

============================================================================
