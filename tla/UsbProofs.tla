----------------------------- MODULE UsbProofs -----------------------------
(***************************************************************************)
(* Proofs about program three (control_app/cntrl_usb.c) and the log of the *)
(* kernel (kernel_mods/check.c), for every set of files, of names and of   *)
(* offsets: UsbInv is an invariant, and the properties of UsbProperties    *)
(* follow from it.                                                         *)
(***************************************************************************)
EXTENDS UsbProperties, SequenceTheorems, TLAPS

-----------------------------------------------------------------------------
(* The inductive invariant. *)

(* The steps belong to their state, and the carried file is there. *)
StepInv ==
    /\ upc \in CopySteps => state = "DOWNLOAD"
    /\ upc \in {"cmd", "release"} => state = "START"
    /\ flw_fd = "open" => target # NoFile

(* ITIMER_VIRTUAL runs only while the checks of the button are not allowed,*)
(* and never in the loop that waits for its release.                       *)
DitherInv == NoEarlySample /\ (upc = "release" => ~dither)

(* ITIMER_REAL runs only inside of copy_from_usb, or for ever where the    *)
(* program died in it, and was off before.                                 *)
LightInv ==
    /\ old = FALSE
    /\ usblight => /\ state = "DOWNLOAD"
                   /\ upc \in (CopySteps \ {"light"}) \cup {"exit"}
    /\ LightTellsResult

MountInv ==
    /\ name # <<>> => stick # NoStick
    /\ mounted = "yes" => stick # NoStick
    /\ upc \in {"old", "light"} /\ result = "SUCCESS" => mounted = "no"
    /\ UnmountedAfterSuccess

(* check_copy has found the files equal so far. *)
CompareInv ==
    /\ upc \notin {"compare", "umount"} => cmp_pos = 0
    /\ upc = "compare" /\ Readable
       => /\ cmp_pos <= Len(stick) /\ cmp_pos <= Len(target)
          /\ \A k \in 1..cmp_pos : stick[k] = target[k]

(* The log holds the name of the disk, with the rest of a longer one, and  *)
(* the buffer of the program never more than the log.                      *)
NameInv ==
    /\ Len(disk) <= Len(log)
    /\ name # <<>> => /\ Len(name) <= Len(log)
                      /\ Len(name) = Len(log) => log = name
    /\ upc = "mount" /\ ~replugged => disk = log

UsbInv == /\ UsbTypeOK /\ StepInv /\ DitherInv /\ LightInv
          /\ MountInv /\ CompareInv /\ NameInv

-----------------------------------------------------------------------------
(* The files. *)

LEMMA FileFacts ==
    /\ \A f \in Files : f \in Seq(0..255)
    /\ NoFile \in Seq(Int) /\ Len(NoFile) = 1
    /\ NoFile \notin Files /\ NoStick \notin Files /\ NoFile # NoStick
<1>1. \A f \in Files : f \in Seq(0..255)
  BY UsbAssumption
<1>2. NoFile \in Seq(Int) /\ Len(NoFile) = 1 /\ NoFile[1] = -1
      /\ Len(NoStick) = 1 /\ NoStick[1] = -2
  BY DEF NoFile, NoStick
<1>3. ASSUME NEW f \in Files, Len(f) = 1 PROVE f[1] \in 0..255
  <2>1. f \in Seq(0..255) /\ 1 \in 1..Len(f)
    BY <1>1, <1>3
  <2> QED BY <2>1, ElementOfSeq
<1>4. NoFile \notin Files /\ NoStick \notin Files
  <2>1. -1 \notin 0..255 /\ -2 \notin 0..255
    OBVIOUS
  <2> QED BY <1>2, <1>3, <2>1
<1>5. NoFile # NoStick
  BY <1>2
<1> QED BY <1>1, <1>2, <1>4, <1>5

LEMMA FileLength == ASSUME NEW f \in Files \cup {NoFile}
                    PROVE  f \in Seq(Int) /\ Len(f) \in Nat
<1>1. CASE f \in Files
  <2>1. f \in Seq(0..255) /\ 0..255 \subseteq Int
    BY <1>1, FileFacts
  <2>2. f \in Seq(Int)
    BY <2>1, SeqMonotonic, Zenon
  <2> QED BY <2>2, LenProperties
<1>2. CASE f = NoFile
  BY <1>2, FileFacts
<1> QED BY <1>1, <1>2

(* What the machine gets is a byte, wherever it asks. *)
LEMMA ByteOfFile ==
    ASSUME NEW f \in Files, NEW n \in Nat PROVE ByteAt(f, n) \in 0..255
<1>1. f \in Seq(0..255) /\ Len(f) \in Nat
  BY FileFacts, LenProperties
<1>2. CASE n < Len(f)
  <2>1. n + 1 \in 1..Len(f)
    BY <1>1, <1>2
  <2>2. f[n + 1] \in 0..255
    BY <1>1, <2>1, ElementOfSeq
  <2> QED BY <1>2, <2>2 DEF ByteAt
<1>3. CASE ~(n < Len(f))
  BY <1>3 DEF ByteAt
<1> QED BY <1>2, <1>3

-----------------------------------------------------------------------------
(* The log of the kernel.  Its file never gets shorter, and program three  *)
(* reads all of it.                                                        *)

LEMMA RestOf ==
    ASSUME NEW s \in Seq(Nat), NEW m \in Nat
    PROVE  /\ SubSeq(s, m + 1, Len(s)) \in Seq(Nat)
           /\ Len(SubSeq(s, m + 1, Len(s)))
                  = IF m < Len(s) THEN Len(s) - m ELSE 0
           /\ m >= Len(s) => SubSeq(s, m + 1, Len(s)) = <<>>
<1>1. Len(s) \in Nat
  BY LenProperties
<1>2. \A i \in m + 1 .. Len(s) : s[i] \in Nat
  <2>1. \A i \in m + 1 .. Len(s) : i \in 1..Len(s)
    BY <1>1
  <2> QED BY <2>1, ElementOfSeq
<1>3. m + 1 \in Int /\ Len(s) \in Int
  BY <1>1
<1>4. /\ SubSeq(s, m + 1, Len(s)) \in Seq(Nat)
      /\ Len(SubSeq(s, m + 1, Len(s)))
             = IF m + 1 <= Len(s) THEN Len(s) - (m + 1) + 1 ELSE 0
  BY <1>2, <1>3, SubSeqProperties
<1>5. m >= Len(s) => SubSeq(s, m + 1, Len(s)) = <<>>
  BY <1>1, <1>3, SubSeqEmpty
<1> QED BY <1>1, <1>4, <1>5

LEMMA WrittenOver ==
    ASSUME NEW s \in Seq(Nat), NEW t \in Seq(Nat)
    PROVE  /\ Over(s, t) \in Seq(Nat)
           /\ Len(Over(s, t)) >= Len(s) /\ Len(Over(s, t)) >= Len(t)
           /\ Len(Over(s, t)) = Len(t) => Over(s, t) = t
<1> DEFINE r == SubSeq(s, Len(t) + 1, Len(s))
<1>1. Len(s) \in Nat /\ Len(t) \in Nat
  BY LenProperties
<1>2. /\ r \in Seq(Nat)
      /\ Len(r) = IF Len(t) < Len(s) THEN Len(s) - Len(t) ELSE 0
      /\ Len(t) >= Len(s) => r = <<>>
  BY <1>1, RestOf
<1>3. Over(s, t) = t \o r
  BY DEF Over
<1> HIDE DEF r
<1>4. t \o r \in Seq(Nat) /\ Len(t \o r) = Len(t) + Len(r)
  BY <1>2, ConcatProperties
<1>5. Len(t \o r) = Len(t) => t \o r = t
  BY <1>1, <1>2, <1>4, ConcatEmptySeq
<1> QED BY <1>1, <1>2, <1>3, <1>4, <1>5

LEMMA NameIsASeq == ASSUME NEW n \in Names \cup {<<>>}
                    PROVE  n \in Seq(Nat) /\ Len(n) \in Nat
<1>1. n \in Seq(Nat)
  BY LogAssumption, EmptySeq
<1> QED BY <1>1, LenProperties

(* Of a buffer no longer than the log nothing is left by a read. *)
LEMMA LogIsRead ==
    ASSUME log \in Seq(Nat), disk \in Seq(Nat), Len(disk) <= Len(log)
    PROVE  DiskRead = log
<1>1. Len(log) \in Nat /\ Len(disk) \in Nat
  BY LenProperties
<1>2. SubSeq(disk, Len(log) + 1, Len(disk)) = <<>>
  BY <1>1, RestOf
<1> QED BY <1>2, ConcatEmptySeq DEF DiskRead

-----------------------------------------------------------------------------
(* Types: those of the switches apart from those of the values. *)

SwitchTypes ==
    /\ dither \in BOOLEAN /\ usblight \in BOOLEAN /\ old \in BOOLEAN
    /\ src_left_open \in BOOLEAN /\ replugged \in BOOLEAN

ValueTypes ==
    /\ state \in UsbStates /\ upc \in UsbSteps
    /\ chk_allow \in {0, 1} /\ times \in 0..1
    /\ onoff \in {0, 1} /\ light \in {0, 1}
    /\ cmp_pos \in Nat
    /\ result \in {"none", "SUCCESS", "FAILED"}
    /\ target \in Files \cup {NoFile} /\ flw_fd \in {"none", "open"}
    /\ mounted \in {"no", "yes", "gone"}
    /\ log \in Seq(Nat) /\ name \in Names \cup {<<>>} /\ disk \in Seq(Nat)
    /\ button \in {"up", "down"} /\ stick \in Files \cup {NoFile, NoStick}
    /\ cmd \in MachineCommands /\ offset \in Offsets \cup {0}
    /\ answer \in 0..255 \cup {Nothing, Ready, Echo}

LEMMA TypeParts == UsbTypeOK <=> SwitchTypes /\ ValueTypes
  BY DEF UsbTypeOK, SwitchTypes, ValueTypes

LEMMA UsbInitTypes == ASSUME UsbInit PROVE UsbTypeOK
<1>1. SwitchTypes
  BY DEF UsbInit, SwitchTypes
<1>2. ValueTypes
  BY EmptySeq DEF UsbInit, LogInit, NoLog, ValueTypes, UsbStates, UsbSteps,
                  CopySteps, MachineCommands, Nothing
<1> QED BY <1>1, <1>2, TypeParts

LEMMA StartKeepsValues ==
    ASSUME ValueTypes, StartStep \/ Released PROVE ValueTypes'
<1> USE DEF ValueTypes, UsbStates, UsbSteps, CopySteps, MachineCommands,
            UGoto, pressVars, lightVars, copyVars, nameVars, machineVars,
            logVars
<1>1. CASE CheckNotAllowed
  BY <1>1 DEF CheckNotAllowed
<1>2. CASE CheckReleased
  BY <1>2 DEF CheckReleased
<1>3. CASE PressedFirst
  BY <1>3 DEF PressedFirst, AllowAfterPress
<1>4. CASE PressedAgain
  BY <1>4 DEF PressedAgain, TimesAfterPress
<1>5. CASE CheckCmd
  BY <1>5 DEF CheckCmd, TakeCommand, Ready
<1>6. CASE Released
  BY <1>6 DEF Released
<1> QED BY <1>1, <1>2, <1>3, <1>4, <1>5, <1>6 DEF StartStep

LEMMA DownloadKeepsValues ==
    ASSUME ValueTypes, NameInv, DownloadStep PROVE ValueTypes'
<1> USE DEF ValueTypes, UsbStates, UsbSteps, CopySteps, UGoto, Return,
            pressVars, lightVars, copyVars, nameVars, machineVars, logVars
<1>1. CASE StartLight
  BY <1>1 DEF StartLight
<1>2. CASE ReadLog
  BY <1>2, LogIsRead DEF ReadLog, NameInv
<1>3. CASE Mount
  BY <1>3 DEF Mount
<1>4. CASE MountFails
  BY <1>4 DEF MountFails
<1>5. CASE Copy
  BY <1>5 DEF Copy
<1>6. CASE CopyFails
  BY <1>6 DEF CopyFails
<1>7. CASE OpenBoth
  BY <1>7 DEF OpenBoth
<1>8. CASE CompareFails
  BY <1>8 DEF CompareFails
<1>9. CASE CompareByte
  BY <1>9 DEF CompareByte
<1>10. CASE CompareEnd
  BY <1>10 DEF CompareEnd, SizeResult
<1>11. CASE Umount
  BY <1>11 DEF Umount, MountAfter
<1>12. CASE StopLight
  BY <1>12 DEF StopLight
<1>13. CASE ShowResult
  BY <1>13 DEF ShowResult
<1> QED BY <1>1, <1>2, <1>3, <1>4, <1>5, <1>6, <1>7, <1>8, <1>9, <1>10, <1>11,
       <1>12, <1>13 DEF DownloadStep

LEMMA CarryKeepsValues ==
    ASSUME ValueTypes, StepInv, CarryStep PROVE ValueTypes'
<1> USE DEF ValueTypes, UsbStates, UsbSteps, CopySteps, MachineCommands,
            Carrying, TakeCommand, pressVars, lightVars, copyVars, nameVars,
            machineVars, logVars
<1>1. CASE OpenFlower
  BY <1>1 DEF OpenFlower
<1>2. CASE CarryData
  <2>1. flw_fd = "open" /\ target \in Files /\ offset \in Nat
    BY <1>2, UsbAssumption DEF CarryData, StepInv
  <2>2. DataByte \in 0..255
    BY <2>1, ByteOfFile DEF DataByte
  <2> QED BY <1>2, <2>2 DEF CarryData, Echo
<1>3. CASE CarryBack
  BY <1>3 DEF CarryBack, FdAfterBack
<1> QED BY <1>1, <1>2, <1>3 DEF CarryStep

LEMMA EnvironmentKeepsValues ==
    ASSUME ValueTypes, DitherOver \/ Blink \/ Environment PROVE ValueTypes'
<1> USE DEF ValueTypes, pressVars, lightVars, copyVars, nameVars, machineVars,
            logVars
<1>1. CASE DitherOver
  BY <1>1 DEF DitherOver
<1>2. CASE Blink
  BY <1>2 DEF Blink
<1>3. CASE Press
  BY <1>3 DEF Press, MoveButton
<1>4. CASE LetGo
  BY <1>4 DEF LetGo, MoveButton
<1>5. CASE Plug
  <2>1. log' \in Seq(Nat) /\ name' \in Names \cup {<<>>} /\ disk' = disk
    BY <1>5, NameIsASeq, WrittenOver DEF Plug, grok_partitions
  <2> QED BY <1>5, <2>1 DEF Plug
<1>6. CASE Pull
  BY <1>6 DEF Pull, DiskGone
<1>7. CASE MachineSends
  BY <1>7 DEF MachineSends, MachineCommands, Nothing
<1> QED BY <1>1, <1>2, <1>3, <1>4, <1>5, <1>6, <1>7 DEF Environment

LEMMA NextKeepsSwitches == ASSUME SwitchTypes, UsbNext PROVE SwitchTypes'
<1> USE DEF SwitchTypes, pressVars, lightVars, copyVars, nameVars, logVars
<1>1. CASE StartStep \/ Released \/ CarryStep
  BY <1>1 DEF StartStep, CheckNotAllowed, CheckReleased, PressedFirst,
              PressedAgain, CheckCmd, Released, CarryStep, OpenFlower,
              CarryData, CarryBack
<1>2. CASE DownloadStep
  BY <1>2 DEF DownloadStep, StartLight, ReadLog, Mount, MountFails, Copy,
              CopyFails, OpenBoth, CompareFails, CompareByte, CompareEnd,
              Umount, StopLight, TimerAfter, ShowResult
<1>3. CASE DitherOver \/ Blink \/ Environment
  BY <1>3 DEF DitherOver, Blink, Environment, Press, LetGo, MoveButton, Plug,
              Pull, MachineSends
<1> QED BY <1>1, <1>2, <1>3 DEF UsbNext, UsbProgram

LEMMA NextKeepsTypes ==
    ASSUME UsbTypeOK, StepInv, NameInv, UsbNext PROVE UsbTypeOK'
<1>1. SwitchTypes /\ ValueTypes
  BY TypeParts
<1>2. SwitchTypes'
  BY <1>1, NextKeepsSwitches
<1>3. ValueTypes'
  BY <1>1, StartKeepsValues, DownloadKeepsValues, CarryKeepsValues,
     EnvironmentKeepsValues DEF UsbNext, UsbProgram
<1> QED BY <1>2, <1>3 DEF UsbTypeOK, SwitchTypes, ValueTypes

-----------------------------------------------------------------------------
(* The program counter, the button and the light. *)

LEMMA NoFileIsNone == \A f \in Files : f # NoFile
  BY FileFacts

LEMMA ProgramKeepsSteps ==
    ASSUME ValueTypes, StepInv, UsbProgram \/ Released PROVE StepInv'
<1> USE DEF ValueTypes, StepInv, CopySteps, UsbStates, UGoto, Return,
            pressVars, lightVars, copyVars, machineVars
<1>1. CASE CheckNotAllowed
  BY <1>1 DEF CheckNotAllowed
<1>2. CASE CheckReleased
  BY <1>2 DEF CheckReleased
<1>3. CASE PressedFirst
  BY <1>3 DEF PressedFirst
<1>4. CASE PressedAgain
  BY <1>4 DEF PressedAgain
<1>5. CASE CheckCmd
  BY <1>5 DEF CheckCmd
<1>6. CASE Released
  BY <1>6 DEF Released
<1>7. CASE StartLight
  BY <1>7 DEF StartLight
<1>8. CASE ReadLog
  BY <1>8 DEF ReadLog
<1>9. CASE Mount
  BY <1>9 DEF Mount
<1>10. CASE MountFails
  BY <1>10 DEF MountFails
<1>11. CASE Copy
  BY <1>11, NoFileIsNone DEF Copy
<1>12. CASE CopyFails
  BY <1>12, NoFileIsNone DEF CopyFails
<1>13. CASE OpenBoth
  BY <1>13 DEF OpenBoth
<1>14. CASE CompareFails
  BY <1>14 DEF CompareFails
<1>15. CASE CompareByte
  BY <1>15 DEF CompareByte
<1>16. CASE CompareEnd
  BY <1>16 DEF CompareEnd
<1>17. CASE Umount
  BY <1>17 DEF Umount
<1>18. CASE StopLight
  BY <1>18 DEF StopLight
<1>19. CASE ShowResult
  BY <1>19 DEF ShowResult
<1>20. CASE OpenFlower
  BY <1>20 DEF OpenFlower, Carrying
<1>21. CASE CarryData
  BY <1>21 DEF CarryData, Carrying
<1>22. CASE CarryBack
  BY <1>22 DEF CarryBack, Carrying, FdAfterBack
<1> QED BY <1>1, <1>2, <1>3, <1>4, <1>5, <1>6, <1>7, <1>8, <1>9, <1>10, <1>11,
       <1>12, <1>13, <1>14, <1>15, <1>16, <1>17, <1>18, <1>19, <1>20, <1>21,
       <1>22 DEF UsbProgram, StartStep,
       DownloadStep, CarryStep

LEMMA ProgramKeepsDither ==
    ASSUME ValueTypes, DitherInv, UsbProgram \/ Released PROVE DitherInv'
<1> USE DEF ValueTypes, DitherInv, NoEarlySample, UGoto, Return,
            pressVars
<1>1. CASE CheckNotAllowed
  BY <1>1 DEF CheckNotAllowed
<1>2. CASE CheckReleased
  BY <1>2 DEF CheckReleased
<1>3. CASE PressedFirst
  BY <1>3 DEF PressedFirst, AllowAfterPress
<1>4. CASE PressedAgain
  BY <1>4 DEF PressedAgain, TimesAfterPress
<1>5. CASE CheckCmd
  BY <1>5 DEF CheckCmd
<1>6. CASE Released
  BY <1>6 DEF Released
<1>7. CASE StartLight
  BY <1>7 DEF StartLight
<1>8. CASE ReadLog
  BY <1>8 DEF ReadLog
<1>9. CASE Mount
  BY <1>9 DEF Mount
<1>10. CASE MountFails
  BY <1>10 DEF MountFails
<1>11. CASE Copy
  BY <1>11 DEF Copy
<1>12. CASE CopyFails
  BY <1>12 DEF CopyFails
<1>13. CASE OpenBoth
  BY <1>13 DEF OpenBoth
<1>14. CASE CompareFails
  BY <1>14 DEF CompareFails
<1>15. CASE CompareByte
  BY <1>15 DEF CompareByte
<1>16. CASE CompareEnd
  BY <1>16 DEF CompareEnd
<1>17. CASE Umount
  BY <1>17 DEF Umount
<1>18. CASE StopLight
  BY <1>18 DEF StopLight
<1>19. CASE ShowResult
  BY <1>19 DEF ShowResult
<1>20. CASE OpenFlower
  BY <1>20 DEF OpenFlower
<1>21. CASE CarryData
  BY <1>21 DEF CarryData
<1>22. CASE CarryBack
  BY <1>22 DEF CarryBack
<1> QED BY <1>1, <1>2, <1>3, <1>4, <1>5, <1>6, <1>7, <1>8, <1>9, <1>10, <1>11,
       <1>12, <1>13, <1>14, <1>15, <1>16, <1>17, <1>18, <1>19, <1>20, <1>21,
       <1>22 DEF UsbProgram, StartStep,
       DownloadStep, CarryStep

LEMMA ProgramKeepsLight ==
    ASSUME ValueTypes, StepInv, LightInv, UsbProgram \/ Released
    PROVE  LightInv'
<1> USE DEF ValueTypes, StepInv, LightInv, LightTellsResult, UGoto, Return,
            CopySteps, lightVars, copyVars
<1>1. CASE CheckNotAllowed
  BY <1>1 DEF CheckNotAllowed
<1>2. CASE CheckReleased
  BY <1>2 DEF CheckReleased
<1>3. CASE PressedFirst
  BY <1>3 DEF PressedFirst
<1>4. CASE PressedAgain
  BY <1>4 DEF PressedAgain
<1>5. CASE CheckCmd
  BY <1>5 DEF CheckCmd
<1>6. CASE Released
  BY <1>6 DEF Released
<1>7. CASE StartLight
  BY <1>7 DEF StartLight, CopySteps
<1>8. CASE ReadLog
  BY <1>8 DEF ReadLog
<1>9. CASE Mount
  BY <1>9 DEF Mount
<1>10. CASE MountFails
  BY <1>10 DEF MountFails
<1>11. CASE Copy
  BY <1>11 DEF Copy
<1>12. CASE CopyFails
  BY <1>12 DEF CopyFails
<1>13. CASE OpenBoth
  BY <1>13 DEF OpenBoth
<1>14. CASE CompareFails
  BY <1>14 DEF CompareFails
<1>15. CASE CompareByte
  BY <1>15 DEF CompareByte
<1>16. CASE CompareEnd
  BY <1>16 DEF CompareEnd
<1>17. CASE Umount
  BY <1>17 DEF Umount
<1>18. CASE StopLight
  BY <1>18 DEF StopLight, TimerAfter, CopySteps
<1>19. CASE ShowResult
  BY <1>19 DEF ShowResult
<1>20. CASE OpenFlower
  BY <1>20 DEF OpenFlower, Carrying
<1>21. CASE CarryData
  BY <1>21 DEF CarryData
<1>22. CASE CarryBack
  BY <1>22 DEF CarryBack, Carrying
<1> QED BY <1>1, <1>2, <1>3, <1>4, <1>5, <1>6, <1>7, <1>8, <1>9, <1>10, <1>11,
       <1>12, <1>13, <1>14, <1>15, <1>16, <1>17, <1>18, <1>19, <1>20, <1>21,
       <1>22 DEF UsbProgram, StartStep,
       DownloadStep, CarryStep

LEMMA EnvironmentKeepsControl ==
    ASSUME ValueTypes, StepInv, DitherInv, LightInv,
           DitherOver \/ Blink \/ Environment
    PROVE  StepInv' /\ DitherInv' /\ LightInv'
<1> USE DEF ValueTypes, StepInv, DitherInv, NoEarlySample, LightInv,
            LightTellsResult, pressVars, lightVars, copyVars
<1>1. CASE DitherOver
  BY <1>1 DEF DitherOver, CopySteps
<1>2. CASE Blink
  BY <1>2 DEF Blink
<1>3. CASE Press
  BY <1>3 DEF Press, MoveButton
<1>4. CASE LetGo
  BY <1>4 DEF LetGo, MoveButton
<1>5. CASE Plug
  BY <1>5 DEF Plug
<1>6. CASE Pull
  BY <1>6 DEF Pull
<1>7. CASE MachineSends
  BY <1>7 DEF MachineSends
<1> QED BY <1>1, <1>2, <1>3, <1>4, <1>5, <1>6, <1>7 DEF Environment

-----------------------------------------------------------------------------
(* The stick and its mount. *)

LEMMA SticksDiffer ==
    /\ NoFile # NoStick /\ \A f \in Files : f # NoStick
  BY FileFacts

LEMMA ProgramKeepsMount ==
    ASSUME ValueTypes, StepInv, MountInv, UsbProgram \/ Released
    PROVE  MountInv'
<1> USE DEF ValueTypes, StepInv, MountInv, UnmountedAfterSuccess, CopySteps,
            UGoto, Return, copyVars, nameVars, logVars
<1>1. CASE CheckNotAllowed
  BY <1>1 DEF CheckNotAllowed
<1>2. CASE CheckReleased
  BY <1>2 DEF CheckReleased
<1>3. CASE PressedFirst
  BY <1>3 DEF PressedFirst
<1>4. CASE PressedAgain
  BY <1>4 DEF PressedAgain
<1>5. CASE CheckCmd
  BY <1>5 DEF CheckCmd
<1>6. CASE Released
  BY <1>6 DEF Released
<1>7. CASE StartLight
  BY <1>7 DEF StartLight
<1>8. CASE ReadLog
  BY <1>8 DEF ReadLog
<1>9. CASE Mount
  BY <1>9 DEF Mount, Named
<1>10. CASE MountFails
  BY <1>10 DEF MountFails
<1>11. CASE Copy
  BY <1>11 DEF Copy
<1>12. CASE CopyFails
  BY <1>12 DEF CopyFails
<1>13. CASE OpenBoth
  BY <1>13 DEF OpenBoth
<1>14. CASE CompareFails
  BY <1>14 DEF CompareFails
<1>15. CASE CompareByte
  BY <1>15 DEF CompareByte
<1>16. CASE CompareEnd
  BY <1>16 DEF CompareEnd, SizeResult
<1>17. CASE Umount
  BY <1>17 DEF Umount, MountAfter
<1>18. CASE StopLight
  BY <1>18 DEF StopLight
<1>19. CASE ShowResult
  BY <1>19 DEF ShowResult
<1>20. CASE OpenFlower
  BY <1>20 DEF OpenFlower, Carrying
<1>21. CASE CarryData
  BY <1>21 DEF CarryData
<1>22. CASE CarryBack
  BY <1>22 DEF CarryBack, Carrying
<1> QED BY <1>1, <1>2, <1>3, <1>4, <1>5, <1>6, <1>7, <1>8, <1>9, <1>10, <1>11,
       <1>12, <1>13, <1>14, <1>15, <1>16, <1>17, <1>18, <1>19, <1>20, <1>21,
       <1>22 DEF UsbProgram, StartStep,
       DownloadStep, CarryStep

LEMMA EnvironmentKeepsMount ==
    ASSUME ValueTypes, MountInv, DitherOver \/ Blink \/ Environment
    PROVE  MountInv'
<1> USE DEF ValueTypes, MountInv, UnmountedAfterSuccess, copyVars, nameVars,
            logVars
<1>1. CASE DitherOver
  BY <1>1 DEF DitherOver
<1>2. CASE Blink
  BY <1>2 DEF Blink
<1>3. CASE Press
  BY <1>3 DEF Press, MoveButton
<1>4. CASE LetGo
  BY <1>4 DEF LetGo, MoveButton
<1>5. CASE Plug
  BY <1>5, SticksDiffer DEF Plug, grok_partitions
<1>6. CASE Pull
  BY <1>6 DEF Pull, DiskGone
<1>7. CASE MachineSends
  BY <1>7 DEF MachineSends
<1> QED BY <1>1, <1>2, <1>3, <1>4, <1>5, <1>6, <1>7 DEF Environment

-----------------------------------------------------------------------------
(* check_copy. *)

LEMMA ProgramKeepsCompare ==
    ASSUME ValueTypes, CompareInv, UsbProgram \/ Released
    PROVE  CompareInv'
<1> USE DEF ValueTypes, CompareInv, UGoto, Return, copyVars
<1>1. CASE CheckNotAllowed
  BY <1>1 DEF CheckNotAllowed
<1>2. CASE CheckReleased
  BY <1>2 DEF CheckReleased
<1>3. CASE PressedFirst
  BY <1>3 DEF PressedFirst
<1>4. CASE PressedAgain
  BY <1>4 DEF PressedAgain
<1>5. CASE CheckCmd
  BY <1>5 DEF CheckCmd
<1>6. CASE Released
  BY <1>6 DEF Released
<1>7. CASE StartLight
  BY <1>7 DEF StartLight
<1>8. CASE ReadLog
  BY <1>8 DEF ReadLog
<1>9. CASE Mount
  BY <1>9 DEF Mount
<1>10. CASE MountFails
  BY <1>10 DEF MountFails
<1>11. CASE Copy
  BY <1>11 DEF Copy
<1>12. CASE CopyFails
  BY <1>12 DEF CopyFails
<1>13. CASE OpenBoth
  BY <1>13 DEF OpenBoth, Readable
<1>14. CASE CompareFails
  BY <1>14 DEF CompareFails, Readable
<1>15. CASE CompareByte
  BY <1>15 DEF CompareByte, Readable, SourceByte, TargetByte, BytesDiffer
<1>16. CASE CompareEnd
  BY <1>16 DEF CompareEnd, Readable
<1>17. CASE Umount
  BY <1>17 DEF Umount, Readable
<1>18. CASE StopLight
  BY <1>18 DEF StopLight
<1>19. CASE ShowResult
  BY <1>19 DEF ShowResult
<1>20. CASE OpenFlower
  BY <1>20 DEF OpenFlower, Carrying
<1>21. CASE CarryData
  BY <1>21 DEF CarryData, Carrying
<1>22. CASE CarryBack
  BY <1>22 DEF CarryBack, Carrying
<1> QED BY <1>1, <1>2, <1>3, <1>4, <1>5, <1>6, <1>7, <1>8, <1>9, <1>10, <1>11,
       <1>12, <1>13, <1>14, <1>15, <1>16, <1>17, <1>18, <1>19, <1>20, <1>21,
       <1>22 DEF UsbProgram, StartStep,
       DownloadStep, CarryStep

LEMMA EnvironmentKeepsCompare ==
    ASSUME ValueTypes, MountInv, CompareInv,
           DitherOver \/ Blink \/ Environment
    PROVE  CompareInv'
<1> USE DEF ValueTypes, MountInv, CompareInv, Readable, copyVars
<1>1. CASE DitherOver
  BY <1>1 DEF DitherOver
<1>2. CASE Blink
  BY <1>2 DEF Blink
<1>3. CASE Press
  BY <1>3 DEF Press, MoveButton
<1>4. CASE LetGo
  BY <1>4 DEF LetGo, MoveButton
<1>5. CASE Plug
  BY <1>5, SticksDiffer DEF Plug
<1>6. CASE Pull
  BY <1>6, SticksDiffer DEF Pull
<1>7. CASE MachineSends
  BY <1>7 DEF MachineSends
<1> QED BY <1>1, <1>2, <1>3, <1>4, <1>5, <1>6, <1>7 DEF Environment

-----------------------------------------------------------------------------
(* The name of the disk. *)

LEMMA ProgramKeepsName ==
    ASSUME ValueTypes, NameInv, UsbProgram \/ Released
    PROVE  NameInv'
<1> USE DEF ValueTypes, NameInv, UGoto, Return, nameVars, logVars
<1>1. CASE CheckNotAllowed
  BY <1>1 DEF CheckNotAllowed
<1>2. CASE CheckReleased
  BY <1>2 DEF CheckReleased
<1>3. CASE PressedFirst
  BY <1>3 DEF PressedFirst
<1>4. CASE PressedAgain
  BY <1>4 DEF PressedAgain
<1>5. CASE CheckCmd
  BY <1>5 DEF CheckCmd
<1>6. CASE Released
  BY <1>6 DEF Released
<1>7. CASE StartLight
  BY <1>7 DEF StartLight
<1>8. CASE ReadLog
  BY <1>8, LogIsRead DEF ReadLog
<1>9. CASE Mount
  BY <1>9 DEF Mount
<1>10. CASE MountFails
  BY <1>10 DEF MountFails
<1>11. CASE Copy
  BY <1>11 DEF Copy
<1>12. CASE CopyFails
  BY <1>12 DEF CopyFails
<1>13. CASE OpenBoth
  BY <1>13 DEF OpenBoth
<1>14. CASE CompareFails
  BY <1>14 DEF CompareFails
<1>15. CASE CompareByte
  BY <1>15 DEF CompareByte
<1>16. CASE CompareEnd
  BY <1>16 DEF CompareEnd
<1>17. CASE Umount
  BY <1>17 DEF Umount
<1>18. CASE StopLight
  BY <1>18 DEF StopLight
<1>19. CASE ShowResult
  BY <1>19 DEF ShowResult
<1>20. CASE OpenFlower
  BY <1>20 DEF OpenFlower, Carrying
<1>21. CASE CarryData
  BY <1>21 DEF CarryData
<1>22. CASE CarryBack
  BY <1>22 DEF CarryBack, Carrying
<1> QED BY <1>1, <1>2, <1>3, <1>4, <1>5, <1>6, <1>7, <1>8, <1>9, <1>10, <1>11,
       <1>12, <1>13, <1>14, <1>15, <1>16, <1>17, <1>18, <1>19, <1>20, <1>21,
       <1>22 DEF UsbProgram, StartStep,
       DownloadStep, CarryStep

LEMMA EnvironmentKeepsName ==
    ASSUME ValueTypes, NameInv, DitherOver \/ Blink \/ Environment
    PROVE  NameInv'
<1> USE DEF ValueTypes, NameInv, nameVars, logVars
<1>1. CASE DitherOver
  BY <1>1 DEF DitherOver
<1>2. CASE Blink
  BY <1>2 DEF Blink
<1>3. CASE Press
  BY <1>3 DEF Press, MoveButton
<1>4. CASE LetGo
  BY <1>4 DEF LetGo, MoveButton
<1>5. CASE Plug
  <2>1. disk' = disk /\ (upc' = "mount" => replugged')
    BY <1>5 DEF Plug, grok_partitions
  <2>2. CASE name' \in Names /\ log' = Over(log, name')
    <3>1. Len(log) \in Nat /\ Len(disk) \in Nat /\ Len(name') \in Nat
      BY <2>2, NameIsASeq, LenProperties
    <3>2. Len(log') >= Len(log) /\ Len(log') >= Len(name')
          /\ (Len(log') = Len(name') => log' = name')
      BY <2>2, NameIsASeq, WrittenOver
    <3>3. Len(log') \in Nat
      BY <2>2, NameIsASeq, WrittenOver, LenProperties
    <3> QED BY <2>1, <3>1, <3>2, <3>3
  <2>3. CASE name' = <<>> /\ log' = log
    BY <2>1, <2>3
  <2> QED BY <1>5, <2>2, <2>3 DEF Plug, grok_partitions
<1>6. CASE Pull
  BY <1>6 DEF Pull, DiskGone
<1>7. CASE MachineSends
  BY <1>7 DEF MachineSends
<1> QED BY <1>1, <1>2, <1>3, <1>4, <1>5, <1>6, <1>7 DEF Environment

-----------------------------------------------------------------------------
(* UsbInv is an invariant. *)

LEMMA UsbInitInv == ASSUME UsbInit PROVE UsbInv
<1>1. StepInv /\ DitherInv /\ LightInv /\ MountInv
  BY DEF UsbInit, LogInit, StepInv, DitherInv, NoEarlySample, LightInv,
         LightTellsResult, MountInv, UnmountedAfterSuccess, CopySteps
<1>2. CompareInv /\ NameInv
  BY DEF UsbInit, LogInit, NoLog, CompareInv, NameInv
<1> QED BY <1>1, <1>2, UsbInitTypes DEF UsbInv

LEMMA UsbStutters == ASSUME UsbInv, UNCHANGED usbVars PROVE UsbInv'
<1> USE DEF usbVars, pressVars, lightVars, copyVars, nameVars, logVars,
            machineVars, UsbInv
<1>1. SwitchTypes'
  BY TypeParts DEF SwitchTypes
<1>2. ValueTypes'
  BY TypeParts DEF ValueTypes
<1>3. StepInv' /\ DitherInv' /\ LightInv' /\ MountInv'
  BY DEF StepInv, DitherInv, NoEarlySample, LightInv, LightTellsResult,
         MountInv, UnmountedAfterSuccess
<1>4. CompareInv' /\ NameInv'
  BY DEF CompareInv, Readable, NameInv
<1> QED
  BY <1>1, <1>2, <1>3, <1>4 DEF UsbTypeOK, SwitchTypes, ValueTypes

LEMMA UsbNextInv == ASSUME UsbInv, [UsbNext]_usbVars PROVE UsbInv'
<1>1. CASE UsbProgram \/ Released
  BY <1>1, TypeParts, NextKeepsTypes, ProgramKeepsSteps, ProgramKeepsDither,
     ProgramKeepsLight, ProgramKeepsMount, ProgramKeepsCompare,
     ProgramKeepsName DEF UsbInv, UsbNext
<1>2. CASE DitherOver \/ Blink \/ Environment
  BY <1>2, TypeParts, NextKeepsTypes, EnvironmentKeepsControl,
     EnvironmentKeepsMount, EnvironmentKeepsCompare, EnvironmentKeepsName
     DEF UsbInv, UsbNext
<1>3. CASE UNCHANGED usbVars
  BY <1>3, UsbStutters
<1> QED BY <1>1, <1>2, <1>3 DEF UsbNext

(* Whatever the files, the names and the offsets: program three keeps      *)
(* UsbInv.                                                                 *)
THEOREM UsbInvariant == UsbSpec => []UsbInv
<1>1. UsbInit => UsbInv
  BY UsbInitInv
<1>2. UsbInv /\ [UsbNext]_usbVars => UsbInv'
  BY UsbNextInv
<1> QED BY <1>1, <1>2, PTL DEF UsbSpec

(* The variables keep their types: no descriptor is stale, and the machine *)
(* never gets the garbage of a failed read (cntrl_usb.c:283-319).          *)
THEOREM UsbTypesKept == UsbSpec => []UsbTypeOK
<1>1. UsbInv => UsbTypeOK
  BY DEF UsbInv
<1> QED BY <1>1, UsbInvariant, PTL

(* After a download the light shows its result, whenever its timers expire *)
(* (cntrl_usb.c:118-132).                                                  *)
THEOREM LightIsRight == UsbSpec => []LightTellsResult
<1>1. UsbInv => LightTellsResult
  BY DEF UsbInv, LightInv
<1> QED BY <1>1, UsbInvariant, PTL

(* After a success the stick is unmounted, whenever it is pulled out.      *)
THEOREM StickIsFree == UsbSpec => []UnmountedAfterSuccess
<1>1. UsbInv => UnmountedAfterSuccess
  BY DEF UsbInv, MountInv
<1> QED BY <1>1, UsbInvariant, PTL

(* No sample of the button is taken before the timer has expired. *)
THEOREM SamplesApart == UsbSpec => []NoEarlySample
<1>1. UsbInv => NoEarlySample
  BY DEF UsbInv, DitherInv
<1> QED BY <1>1, UsbInvariant, PTL

-----------------------------------------------------------------------------
(* What its steps do. *)

LEMMA ComparisonEnds ==
    ASSUME UsbInv, UsbNext, upc = "compare", upc' = "umount"
    PROVE  CompareFails \/ CompareEnd
  BY DEF UsbNext, UsbProgram, StartStep, DownloadStep, CarryStep, Environment,
         UGoto, Return, Carrying, CheckNotAllowed, CheckReleased, PressedFirst,
         PressedAgain, CheckCmd, Released, StartLight, ReadLog, Mount,
         MountFails, Copy, CopyFails, OpenBoth, CompareByte, Umount, StopLight,
         ShowResult, OpenFlower, CarryData, CarryBack, DitherOver, Blink,
         Press, LetGo, MoveButton, Plug, Pull, MachineSends

LEMMA MountRefused ==
    ASSUME UsbInv, UsbNext, upc = "mount", upc' = "old" PROVE MountFails
  BY DEF UsbNext, UsbProgram, StartStep, DownloadStep, CarryStep, Environment,
         UGoto, Return, Carrying, CheckNotAllowed, CheckReleased, PressedFirst,
         PressedAgain, CheckCmd, Released, StartLight, ReadLog, Mount,
         Copy, CopyFails, OpenBoth, CompareFails, CompareByte, CompareEnd,
         Umount, StopLight, ShowResult, OpenFlower, CarryData, CarryBack,
         DitherOver, Blink, Press, LetGo, MoveButton, Plug, Pull, MachineSends

LEMMA LogRead ==
    ASSUME UsbInv, UsbNext, upc = "log", upc' = "mount" PROVE ReadLog
  BY DEF UsbNext, UsbProgram, StartStep, DownloadStep, CarryStep, Environment,
         UGoto, Return, Carrying, CheckNotAllowed, CheckReleased, PressedFirst,
         PressedAgain, CheckCmd, Released, StartLight, Mount, MountFails,
         Copy, CopyFails, OpenBoth, CompareFails, CompareByte, CompareEnd,
         Umount, StopLight, ShowResult, OpenFlower, CarryData, CarryBack,
         DitherOver, Blink, Press, LetGo, MoveButton, Plug, Pull, MachineSends

LEMMA DataTaken ==
    ASSUME UsbInv, UsbNext, Carrying, cmd = "data", cmd' = "none"
    PROVE  CarryData
  BY DEF UsbNext, UsbProgram, StartStep, DownloadStep, CarryStep, Environment,
         UGoto, Return, Carrying, CheckNotAllowed, CheckReleased, PressedFirst,
         PressedAgain, CheckCmd, Released, StartLight, ReadLog, Mount,
         MountFails, Copy, CopyFails, OpenBoth, CompareFails, CompareByte,
         CompareEnd, Umount, StopLight, ShowResult, OpenFlower, CarryBack,
         DitherOver, Blink, Press, LetGo, MoveButton, Plug, Pull,
         MachineSends, machineVars

(* A comparison that did not fail has found all bytes of the stick in the  *)
(* file, and the file to end with them.                                    *)
LEMMA ComparedAll ==
    ASSUME UsbInv, upc = "compare", Readable, ~SourceByte, ~TargetByte
    PROVE  target = stick
<1>1. stick \in Files /\ target \in Files \cup {NoFile}
  BY DEF UsbInv, UsbTypeOK, Readable
<1>2. /\ stick \in Seq(Int) /\ Len(stick) \in Nat
      /\ target \in Seq(Int) /\ Len(target) \in Nat
  BY <1>1, FileLength
<1>3. cmp_pos \in Nat
  BY DEF UsbInv, UsbTypeOK
<1>4. /\ cmp_pos <= Len(stick) /\ cmp_pos <= Len(target)
      /\ \A k \in 1..cmp_pos : stick[k] = target[k]
  BY DEF UsbInv, CompareInv
<1>5. Len(stick) = cmp_pos /\ Len(target) = cmp_pos
  BY <1>2, <1>3, <1>4 DEF SourceByte, TargetByte
<1> QED BY <1>2, <1>4, <1>5, SeqEqual

(* check_copy succeeds exactly when the file on the controller is the one  *)
(* of the stick, whatever cp made of it and whenever the stick is pulled   *)
(* out (cntrl_usb.c:329-387).                                              *)
THEOREM ComparisonIsExact == UsbSpec => CopyVerified
<1> DEFINE Step == upc = "compare" /\ upc' = "umount"
                   => (result' = "SUCCESS" <=> Readable /\ target = stick)
<1>1. ASSUME UsbInv, [UsbNext]_usbVars PROVE [Step]_usbVars
  <2>1. SUFFICES ASSUME UsbNext, upc = "compare", upc' = "umount"
                 PROVE  result' = "SUCCESS" <=> Readable /\ target = stick
    BY <1>1
  <2>2. CASE CompareFails
    BY <2>2 DEF CompareFails, SourceByte, TargetByte, BytesDiffer
  <2>3. CASE CompareEnd
    <3>1. Readable /\ ~SourceByte /\ result' = SizeResult
      BY <2>3 DEF CompareEnd
    <3>2. CASE TargetByte
      BY <3>1, <3>2 DEF SizeResult, SourceByte, TargetByte
    <3>3. CASE ~TargetByte
      BY <1>1, <2>1, <3>1, <3>3, ComparedAll DEF SizeResult
    <3> QED BY <3>2, <3>3
  <2> QED BY <1>1, <2>1, <2>2, <2>3, ComparisonEnds
<1> QED BY <1>1, UsbInvariant, PTL DEF UsbSpec, CopyVerified

(* What is answered to a request of data is the byte of the file at its    *)
(* offset, or 16#FF beyond the end (cntrl_usb.c:291-319).                  *)
THEOREM DataIsFromFile == UsbSpec => AnswersFromFile
<1> DEFINE Step == Carrying /\ cmd = "data" /\ cmd' = "none"
                   => answer' = ByteAt(target, offset)
<1>1. ASSUME UsbInv, [UsbNext]_usbVars PROVE [Step]_usbVars
  <2>1. SUFFICES ASSUME UsbNext, Carrying, cmd = "data", cmd' = "none"
                 PROVE  answer' = ByteAt(target, offset)
    BY <1>1
  <2>2. CarryData
    BY <1>1, <2>1, DataTaken
  <2>3. flw_fd = "open"
    BY <1>1, <2>2 DEF CarryData, UsbInv, UsbTypeOK
  <2> QED BY <2>1, <2>2, <2>3 DEF CarryData, DataByte
<1> QED BY <1>1, UsbInvariant, PTL DEF UsbSpec, AnswersFromFile

(* The buffer of the name never holds the end of an older one behind the   *)
(* log (check.c:280-290, cntrl_usb.c:396-404).                             *)
THEOREM BufferIsLog == UsbSpec => NoTailInBuffer
<1> DEFINE Step == upc = "log" /\ upc' = "mount" => disk' = log
<1>1. ASSUME UsbInv, [UsbNext]_usbVars PROVE [Step]_usbVars
  <2>1. SUFFICES ASSUME UsbNext, upc = "log", upc' = "mount"
                 PROVE  disk' = log
    BY <1>1
  <2>2. ReadLog
    BY <1>1, <2>1, LogRead
  <2>3. DiskRead = log
    BY <1>1, LogIsRead DEF UsbInv, UsbTypeOK, NameInv
  <2> QED BY <2>1, <2>2, <2>3 DEF ReadLog
<1> QED BY <1>1, UsbInvariant, PTL DEF UsbSpec, NoTailInBuffer

(* Mount refuses a named disk, with nothing mounted, only when it came     *)
(* since the log was read or has a shorter name than an earlier one.       *)
THEOREM PluggedIsFound == UsbSpec => StickFound
<1> DEFINE Step == upc = "mount" /\ upc' = "old" /\ mounted = "no"
                   /\ name # <<>>
                   => replugged \/ Len(name) < Len(log)
<1>1. ASSUME UsbInv, [UsbNext]_usbVars PROVE [Step]_usbVars
  <2>1. SUFFICES ASSUME UsbNext, upc = "mount", upc' = "old",
                        mounted = "no", name # <<>>, ~replugged
                 PROVE  Len(name) < Len(log)
    BY <1>1
  <2>2. disk # name
    BY <1>1, <2>1, MountRefused DEF MountFails, Named
  <2>3. Len(name) \in Nat /\ Len(log) \in Nat
    BY <1>1, NameIsASeq, LenProperties DEF UsbInv, UsbTypeOK
  <2>4. /\ disk = log /\ Len(name) <= Len(log)
        /\ Len(name) = Len(log) => log = name
    BY <1>1, <2>1 DEF UsbInv, NameInv
  <2> QED BY <2>2, <2>3, <2>4
<1> QED BY <1>1, UsbInvariant, PTL DEF UsbSpec, StickFound

=============================================================================
