----------------------------- MODULE UsbControl -----------------------------
(***************************************************************************)
(* control_app/cntrl_usb.c: resident program three.  It copies a pattern   *)
(* file from a USB stick when the button is hit, shows the result with a   *)
(* light, and otherwise serves the file byte by byte to the machine.       *)
(*                                                                         *)
(* upc names the next step inside the turn of the state machine.  The      *)
(* handler of SIGVTALRM and SIGALRM runs between any two steps.            *)
(*                                                                         *)
(* External: the button, the stick, the machine and the device /dev/thj_dev*)
(* whose driver is not in the repository.  Its GET_CMD is taken to empty   *)
(* the command buffer, since nobody calls CLR_CMD.  A file is a sequence   *)
(* of bytes.  The name of the stick comes from the KernelLog.              *)
(***************************************************************************)
EXTENDS KernelLog

CONSTANTS
    Files,          \* contents a pattern file may have
    Offsets         \* offsets the machine asks for

NoFile == <<-1>>    \* a stick, or a controller, without the file

NoStick == <<-2>>   \* nothing is plugged in

ASSUME UsbAssumption ==
    /\ Files \subseteq Seq(0..255)
    /\ Offsets \subseteq Nat

VARIABLES
    state,          \* STAT_START, STAT_DOWNLOAD, STAT_CARRY, STAT_WEAVE
    upc,            \* the next step
    chk_allow, times,                   \* of check_download
    dither,         \* TRUE iff ITIMER_VIRTUAL runs
    usblight, old,  \* TRUE iff ITIMER_REAL runs; what it was before
    onoff, light,   \* of signalroutine; the light itself
    cmp_pos,        \* bytes compared by check_copy, 0 outside of it
    result,         \* what copy_from_usb returns
    target,         \* COPY_TO, the file on the controller
    flw_fd,         \* "none" is -1; "stale" names a closed descriptor
    mounted,        \* the file system under /mnt: "no", "yes", "gone"
    src_left_open,  \* check_copy returned with its files open
    replugged,      \* history: a stick came after the log was read
    button, stick, cmd, offset, answer  \* external

pressVars == <<chk_allow, times, dither>>
lightVars == <<usblight, old, onoff, light>>
copyVars == <<cmp_pos, result, target, mounted, src_left_open>>
nameVars == <<logVars, replugged>>
machineVars == <<cmd, offset, answer>>
usbVars == <<state, upc, pressVars, lightVars, copyVars, nameVars, flw_fd,
             button, stick, machineVars>>

UsbStates == {"START", "DOWNLOAD", "CARRY", "WEAVE"}

CopySteps == {"log", "mount", "cp", "open", "compare", "umount", "old",
              "light"}

UsbSteps == CopySteps \cup {"loop", "release", "cmd", "exit"}

MachineCommands == {"none", "head", "weave", "data", "back", "other"}

(* Words written to the machine besides the bytes of the file. *)
Nothing == -1
Ready == 256        \* ASW_RDY
Echo == 257         \* the high byte of a command that is not understood
Garbage == 258      \* what buff held when the read failed

UsbInit ==
    /\ state = "START" /\ upc = "loop"
    /\ chk_allow = 1 /\ times = 0 /\ dither = FALSE
    /\ usblight = FALSE /\ old = FALSE /\ onoff = 1 /\ light = 0
    /\ cmp_pos = 0 /\ result = "none"
    /\ target \in Files \cup {NoFile}
    /\ flw_fd = "none"
    /\ mounted = "no" /\ src_left_open = FALSE
    /\ LogInit /\ replugged = FALSE
    /\ button = "up" /\ stick = NoStick
    /\ cmd = "none" /\ offset = 0 /\ answer = Nothing

UGoto(here, there) == upc = here /\ upc' = there

-----------------------------------------------------------------------------
(* STAT_START: check_download, and check_cmd when it returns PASSIVE. *)

CheckNotAllowed ==
    /\ UGoto("loop", "cmd") /\ state = "START"
    /\ chk_allow = 0
    /\ UNCHANGED <<state, pressVars, lightVars, copyVars, flw_fd, button,
                   stick, machineVars, nameVars>>

CheckReleased ==
    /\ UGoto("loop", "cmd") /\ state = "START"
    /\ chk_allow = 1 /\ button = "up"
    /\ times' = 0
    /\ UNCHANGED <<state, chk_allow, dither, lightVars, copyVars, flw_fd,
                   button, stick, machineVars, nameVars>>

AllowKept == chk_allow      \* mutant: the next check need not wait

(* chk_allow after a check that found the button down. *)
AllowAfterPress == 0

PressedFirst ==
    /\ UGoto("loop", "cmd") /\ state = "START"
    /\ chk_allow = 1 /\ button = "down" /\ times = 0
    /\ chk_allow' = AllowAfterPress
    /\ times' = 1
    /\ dither' = TRUE
    /\ UNCHANGED <<state, lightVars, copyVars, flw_fd, button, stick,
                   machineVars, nameVars>>

TimesKept == 2              \* mutant: the count is not reset

TimesAfterPress == 0

(* A third press could only come if times were not reset: neither if holds *)
(* for it, and no timer would set chk_allow again.                         *)
PressedAgain ==
    /\ upc = "loop" /\ state = "START"
    /\ chk_allow = 1 /\ button = "down" /\ times > 0
    /\ chk_allow' = 0
    /\ IF times = 1 THEN upc' = "release" /\ times' = TimesAfterPress
                    ELSE upc' = "cmd" /\ times' = times + 1
    /\ UNCHANGED <<state, dither, lightVars, copyVars, flw_fd, button,
                   stick, machineVars, nameVars>>

(* The loop that holds until the button is up. *)
Released ==
    /\ UGoto("release", "loop")
    /\ button = "up"
    /\ chk_allow' = 1
    /\ state' = "DOWNLOAD"
    /\ UNCHANGED <<times, dither, lightVars, copyVars, flw_fd, button,
                   stick, machineVars, nameVars>>

TakeCommand == cmd' = "none" /\ offset' = 0

(* Any command but the two is read and dropped. *)
CheckCmd ==
    /\ UGoto("cmd", "loop")
    /\ TakeCommand
    /\ CASE cmd = "head"  -> state' = "CARRY" /\ answer' = Ready
         [] cmd = "weave" -> state' = "WEAVE" /\ answer' = Ready
         [] OTHER         -> UNCHANGED <<state, answer>>
    /\ UNCHANGED <<pressVars, lightVars, copyVars, flw_fd, button, stick,
                   nameVars>>

-----------------------------------------------------------------------------
(* STAT_DOWNLOAD: copy_from_usb. *)

Return(r) == result' = r /\ upc' = "old"

StartLight ==
    /\ UGoto("loop", "log") /\ state = "DOWNLOAD"
    /\ old' = usblight /\ usblight' = TRUE
    /\ UNCHANGED <<state, pressVars, onoff, light, copyVars, flw_fd, button,
                   stick, machineVars, nameVars>>

(* The name of the disk.  Without a log fread gets a null pointer.         *)
ReadLog ==
    /\ upc = "log"
    /\ IF log = NoLog
       THEN upc' = "exit" /\ UNCHANGED disk
       ELSE upc' = "mount" /\ disk' = DiskRead
    /\ replugged' = FALSE
    /\ UNCHANGED <<state, pressVars, lightVars, copyVars, log, name, flw_fd,
                   button, stick, machineVars>>

Named == name # <<>> /\ disk = name

(* mount(8) needs the name of a partition that is there, and refuses one   *)
(* that is mounted already.  Over the dead mount of a stick that was pulled*)
(* out it may do either; the open files of the old one then hold nobody up.*)
Mount ==
    /\ UGoto("mount", "cp")
    /\ Named /\ mounted # "yes"
    /\ mounted' = "yes" /\ src_left_open' = FALSE
    /\ replugged' = FALSE
    /\ UNCHANGED <<state, pressVars, lightVars, cmp_pos, result, target,
                   flw_fd, button, stick, machineVars, logVars>>

MountFails ==
    /\ upc = "mount"
    /\ ~Named \/ mounted # "no"
    /\ Return("FAILED")
    /\ replugged' = FALSE
    /\ UNCHANGED <<state, pressVars, lightVars, cmp_pos, target, mounted,
                   src_left_open, flw_fd, button, stick, machineVars,
                   logVars>>

Readable == mounted = "yes" /\ stick \in Files

(* What cp wrote may differ from the file: that is what check_copy is for. *)
Copy ==
    /\ UGoto("cp", "open")
    /\ Readable
    /\ target' \in Files
    /\ UNCHANGED <<state, pressVars, lightVars, cmp_pos, result, mounted,
                   src_left_open, flw_fd, button, stick, machineVars,
                   nameVars>>

(* It fails at once, or on the way: no file, no stick, no room. *)
CopyFails ==
    /\ upc = "cp"
    /\ Return("FAILED")
    /\ target' \in Files \cup {target}
    /\ UNCHANGED <<state, pressVars, lightVars, cmp_pos, mounted,
                   src_left_open, flw_fd, button, stick, machineVars,
                   nameVars>>

OpenBoth ==
    /\ upc = "open"
    /\ IF Readable
       THEN upc' = "compare" /\ UNCHANGED result
       ELSE upc' = "umount" /\ result' = "FAILED"
    /\ UNCHANGED <<state, pressVars, lightVars, cmp_pos, target, mounted,
                   src_left_open, flw_fd, button, stick, machineVars,
                   nameVars>>

SourceByte == cmp_pos < Len(stick)

TargetByte == cmp_pos < Len(target)

BytesDiffer == SourceByte /\ TargetByte
               /\ stick[cmp_pos + 1] # target[cmp_pos + 1]

(* check_copy leaves through a return in its loop: the files stay open. *)
CompareFails ==
    /\ UGoto("compare", "umount")
    /\ Readable => (SourceByte /\ ~TargetByte) \/ BytesDiffer
    /\ result' = "FAILED"
    /\ src_left_open' = TRUE
    /\ UNCHANGED <<state, pressVars, lightVars, cmp_pos, target, mounted,
                   flw_fd, button, stick, machineVars, nameVars>>

CompareByte ==
    /\ UGoto("compare", "compare")
    /\ Readable /\ SourceByte /\ TargetByte /\ ~BytesDiffer
    /\ cmp_pos' = cmp_pos + 1
    /\ UNCHANGED <<state, pressVars, lightVars, result, target, mounted,
                   src_left_open, flw_fd, button, stick, machineVars,
                   nameVars>>

LargerUnseen == "SUCCESS"   \* mutant: a longer target passes

SizeResult == IF TargetByte THEN "FAILED" ELSE "SUCCESS"

CompareEnd ==
    /\ UGoto("compare", "umount")
    /\ Readable /\ ~SourceByte
    /\ result' = SizeResult
    /\ UNCHANGED <<state, pressVars, lightVars, cmp_pos, target, mounted,
                   src_left_open, flw_fd, button, stick, machineVars,
                   nameVars>>

MountKept == mounted        \* mutant: nothing is unmounted

MountAfter == IF src_left_open THEN mounted ELSE "no"

(* umount(8) refuses a file system with open files. *)
Umount ==
    /\ UGoto("umount", "old")
    /\ mounted' = MountAfter
    /\ result' = IF src_left_open THEN "FAILED" ELSE result
    /\ cmp_pos' = 0
    /\ UNCHANGED <<state, pressVars, lightVars, target,
                   src_left_open, flw_fd, button, stick, machineVars,
                   nameVars>>

TimerKept == usblight       \* mutant: the timer goes on

TimerAfter == old

StopLight ==
    /\ UGoto("old", "light")
    /\ usblight' = TimerAfter
    /\ UNCHANGED <<state, pressVars, old, onoff, light, copyVars, flw_fd,
                   button, stick, machineVars, nameVars>>

ShowResult ==
    /\ UGoto("light", "loop")
    /\ light' = IF result = "FAILED" THEN 0 ELSE 1
    /\ state' = "START"
    /\ UNCHANGED <<pressVars, usblight, old, onoff, copyVars, flw_fd,
                   button, stick, machineVars, nameVars>>

-----------------------------------------------------------------------------
(* STAT_CARRY and STAT_WEAVE: carry_data. *)

Carrying == upc = "loop" /\ state \in {"CARRY", "WEAVE"}

(* Without the file main returns, and program three is gone. *)
OpenFlower ==
    /\ Carrying /\ flw_fd = "none"
    /\ IF target = NoFile
       THEN upc' = "exit" /\ UNCHANGED flw_fd
       ELSE upc' = "loop" /\ flw_fd' = "open"
    /\ UNCHANGED <<state, pressVars, lightVars, copyVars, button, stick,
                   machineVars, nameVars>>

(* The byte at an offset, all ones beyond the end. *)
ByteAt(file, n) == IF n < Len(file) THEN file[n + 1] ELSE 255

(* read returns -1 for a closed descriptor, which passes the if.  *)
DataByte == IF flw_fd = "open" THEN ByteAt(target, offset) ELSE Garbage

CarryData ==
    /\ Carrying /\ flw_fd # "none" /\ cmd # "back"
    /\ TakeCommand
    /\ answer' = CASE cmd = "none" -> answer
                   [] cmd = "data" -> DataByte
                   [] OTHER        -> Echo
    /\ UNCHANGED <<state, upc, pressVars, lightVars, copyVars, flw_fd,
                   button, stick, nameVars>>

FdKept == "stale"           \* mutant: closed, and not set to -1

FdAfterBack == "none"

CarryBack ==
    /\ Carrying /\ flw_fd # "none" /\ cmd = "back"
    /\ TakeCommand
    /\ flw_fd' = FdAfterBack
    /\ state' = "START"
    /\ UNCHANGED <<upc, pressVars, lightVars, copyVars, button, stick,
                   answer, nameVars>>

-----------------------------------------------------------------------------
(* signalroutine. *)

DitherOver ==
    /\ upc # "exit"
    /\ dither /\ dither' = FALSE
    /\ chk_allow' = 1
    /\ UNCHANGED <<state, upc, times, lightVars, copyVars, flw_fd, button,
                   stick, machineVars, nameVars>>

Blink ==
    /\ upc # "exit"
    /\ usblight
    /\ onoff' = 1 - onoff
    /\ light' = 1 - onoff'
    /\ UNCHANGED <<state, upc, pressVars, usblight, old, copyVars, flw_fd,
                   button, stick, machineVars, nameVars>>

-----------------------------------------------------------------------------
(* The button bounces; the stick is plugged in, or pulled out at any time, *)
(* and its mount is dead from then on; the machine sends one command at a  *)
(* time, and has taken the last answer when it does.                       *)

MoveButton(from, to) ==
    /\ button = from /\ button' = to
    /\ UNCHANGED <<state, upc, pressVars, lightVars, copyVars, flw_fd,
                   stick, machineVars, nameVars>>

Press == MoveButton("up", "down")

LetGo == MoveButton("down", "up")

Plug ==
    /\ stick = NoStick
    /\ stick' \in Files \cup {NoFile}
    /\ grok_partitions
    /\ replugged' = (upc = "mount")
    /\ UNCHANGED <<state, upc, pressVars, lightVars, copyVars, flw_fd,
                   button, machineVars>>

Pull ==
    /\ stick # NoStick /\ stick' = NoStick
    /\ mounted' = IF mounted = "yes" THEN "gone" ELSE mounted
    /\ DiskGone /\ UNCHANGED replugged
    /\ UNCHANGED <<state, upc, pressVars, lightVars, cmp_pos, result,
                   target, src_left_open, flw_fd, button, machineVars>>

MachineSends ==
    /\ cmd = "none" /\ cmd' \in MachineCommands \ {"none"}
    /\ IF cmd' = "data" THEN offset' \in Offsets ELSE UNCHANGED offset
    /\ answer' = Nothing
    /\ UNCHANGED <<state, upc, pressVars, lightVars, copyVars, flw_fd,
                   button, stick, nameVars>>

-----------------------------------------------------------------------------
StartStep == CheckNotAllowed \/ CheckReleased \/ PressedFirst \/ PressedAgain
             \/ CheckCmd

DownloadStep == StartLight \/ ReadLog \/ Mount \/ MountFails
                \/ Copy \/ CopyFails \/ OpenBoth
                \/ CompareFails \/ CompareByte \/ CompareEnd
                \/ Umount \/ StopLight \/ ShowResult

CarryStep == OpenFlower \/ CarryData \/ CarryBack

UsbProgram == StartStep \/ DownloadStep \/ CarryStep

Environment == Press \/ LetGo \/ Plug \/ Pull \/ MachineSends

UsbNext == UsbProgram \/ Released \/ DitherOver \/ Blink \/ Environment

UsbSpec == UsbInit /\ [][UsbNext]_usbVars

(* The program runs whenever it can, and its virtual timer expires since   *)
(* it never sleeps.  The button is let go some time after it is pressed,   *)
(* and the loop that polls it sees it up, be it for a bounce.              *)
UsbFairness ==
    /\ WF_usbVars(UsbProgram) /\ SF_usbVars(Released)
    /\ WF_usbVars(DitherOver)
    /\ WF_usbVars(LetGo)

UsbFairSpec == UsbSpec /\ UsbFairness

=============================================================================
