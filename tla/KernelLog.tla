----------------------------- MODULE KernelLog -----------------------------
(***************************************************************************)
(* kernel_mods/check.c: the partition check of the kernel, which leaves    *)
(* the name of the disk it looks at in a log file, and the reading of that *)
(* log by program three.  A name is a sequence of characters, and it ends  *)
(* where the file ends: the kernel writes no end of its own.               *)
(*                                                                         *)
(* External: devfs, which gives a new disk its name, and the check of the  *)
(* partitions themselves.                                                  *)
(***************************************************************************)
EXTENDS Integers, Sequences

CONSTANTS
    Names           \* names that devfs gives

ASSUME LogAssumption == Names \subseteq Seq(Nat) \ {<<>>}

VARIABLES
    log,            \* FILE_NAME, or NoLog
    name,           \* the disk whose partitions are there, <<>> if none
    disk            \* the static buffer of copy_from_usb

logVars == <<log, name, disk>>

NoLog == <<>>

(* Mutant: the rest of a longer name is cut off. *)
Truncated(old, new) == new

(* A write at position 0 of a file opened without O_TRUNC, and a read into *)
(* a buffer that is not cleared.                                           *)
Over(old, new) == new \o SubSeq(old, Len(new) + 1, Len(old))

LogInit == log = NoLog /\ name = <<>> /\ disk = <<>>

(* grok_partitions of a disk that has a size, in one step: its wait for    *)
(* the sectors of the disk is not seen.  When the log cannot be opened     *)
(* check_partition returns before it looks at the partitions.              *)
grok_partitions ==
    /\ \/ name' \in Names /\ log' = Over(log, name')
       \/ name' = <<>> /\ UNCHANGED log
    /\ UNCHANGED disk

DiskGone ==
    /\ name' = <<>>
    /\ UNCHANGED <<log, disk>>

(* Mutant: the log is read once. *)
ReadOnce == IF disk = <<>> THEN log ELSE disk

(* fread of program three, which takes at most 64 bytes                    *)
(* (cntrl_usb.c:403).  No devfs name of a disk is that long, and the model *)
(* has no name that is.                                                    *)
DiskRead == log \o SubSeq(disk, Len(log) + 1, Len(disk))

=============================================================================
