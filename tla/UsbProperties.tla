--------------------------- MODULE UsbProperties ---------------------------
(***************************************************************************)
(* What program three should do: the download, the light, the debouncing   *)
(* of the button and the service of the machine.                           *)
(***************************************************************************)
EXTENDS UsbControl

UsbTypeOK ==
    /\ state \in UsbStates
    /\ upc \in UsbSteps
    /\ chk_allow \in {0, 1} /\ times \in 0..1 /\ dither \in BOOLEAN
    /\ usblight \in BOOLEAN /\ old \in BOOLEAN
    /\ onoff \in {0, 1} /\ light \in {0, 1}
    /\ cmp_pos \in Nat
    /\ result \in {"none", "SUCCESS", "FAILED"}
    /\ target \in Files \cup {NoFile}
    /\ flw_fd \in {"none", "open"}
    /\ mounted \in {"no", "yes", "gone"} /\ src_left_open \in BOOLEAN
    /\ log \in Seq(Nat) /\ name \in Names \cup {<<>>} /\ disk \in Seq(Nat)
    /\ replugged \in BOOLEAN
    /\ button \in {"up", "down"}
    /\ stick \in Files \cup {NoFile, NoStick}
    /\ cmd \in MachineCommands /\ offset \in Offsets \cup {0}
    /\ answer \in 0..255 \cup {Nothing, Ready, Echo}

(* Once a download is over the light shows its result: on for a copy that  *)
(* was verified, off for a failure, and the SIGALRM that makes it blink in *)
(* between never changes it afterwards (cntrl_usb.c:118-132).              *)
LightTellsResult ==
    state # "DOWNLOAD" /\ result # "none"
    => light = IF result = "SUCCESS" THEN 1 ELSE 0

(* After a success the stick is unmounted: nothing of it is in use when    *)
(* the light comes on, and the next mount finds /mnt free.                 *)
UnmountedAfterSuccess ==
    state # "DOWNLOAD" /\ result = "SUCCESS" => mounted = "no"

(* check_copy, byte by byte with the three ways the files can differ,      *)
(* succeeds exactly when the file on the controller is the one of the      *)
(* stick (cntrl_usb.c:329-387).                                            *)
CopyVerified ==
    [][upc = "compare" /\ upc' = "umount"
       => (result' = "SUCCESS" <=> Readable /\ target = stick)]_usbVars

(* The button is looked at again only after the 20 ms of the timer: two    *)
(* samples that count as one hit are never taken within one bounce.        *)
NoEarlySample == chk_allow = 1 => ~dither

(* The checks of the button never stop for good: the timer or the release  *)
(* of the button allows them again.                                        *)
ChecksResume == chk_allow = 0 ~> chk_allow = 1 \/ upc = "exit"

(* In the states Carry and Weave the machine gets, for each request of     *)
(* data, the byte of the file at that offset, or 16#FF beyond its end.     *)
AnswersFromFile ==
    [][Carrying /\ cmd = "data" /\ cmd' = "none"
       => answer' = ByteAt(target, offset)]_usbVars

(* The buffer that the name is read into is static and never cleared: yet  *)
(* it never holds the end of an older name behind the log, since the log   *)
(* itself never gets shorter (check.c:280-290, cntrl_usb.c:396-404).       *)
NoTailInBuffer == [][upc = "log" /\ upc' = "mount" => disk' = log]_usbVars

(* A stick that is plugged in when the log is read, and before which no    *)
(* longer name was logged, is found: with nothing mounted, mount fails only*)
(* for a disk that came since, whose log could not be opened, or whose     *)
(* name has the end of a longer one behind it (check.c:280-290,            *)
(* cntrl_usb.c:402-412).                                                   *)
StickFound ==
    [][upc = "mount" /\ upc' = "old" /\ mounted = "no" /\ name # <<>>
       => replugged \/ Len(name) < Len(log)]_usbVars

-----------------------------------------------------------------------------
(* "Download weaving data from a USB once user plugin the drive and hit    *)
(* the button" (cntrl_usb.c:10): with a stick that has the file, is named  *)
(* in the log, and was not pulled out in an earlier download, one gets as  *)
(* far as copying it.                                                      *)
DownloadBegins ==
    [][upc = "mount" /\ Named /\ stick \in Files /\ mounted # "gone"
       => upc' # "old"]_usbVars

=============================================================================
