# Verification of the carpet weaving controller

TLA+ models, model-checking instances and machine-checked proofs for the
programs of this repository: the resident programs that drive a carpet loom from
an S3C2410 board under Linux 2.4 (`src/control_app`), the character driver of
the loom (`src/driver`), and the change to the kernel that tells a program which
USB stick was plugged in (`src/kernel_mods`).

1. [The system](#1-the-system)
2. [Modules](#2-modules)
3. [From code to model](#3-from-code-to-model)
4. [Runs](#4-runs)
5. [Fairness](#5-fairness)
6. [Proofs](#6-proofs)
7. [What the checks found](#7-what-the-checks-found)
8. [What is not modelled](#8-what-is-not-modelled)
9. [Plan](#9-plan)

To check one instance: `tlc -config weave_core.cfg MCWeave`; to check the
proofs: `tlapm M.tla` for each module `M` whose name ends in `Proofs`.

## 1. The system

A mission weaves `Wine_Count` rows of a pattern file, row after row, repeating
the pattern when it ends. A row has `Color_Num` lines, one for each colour.

| Component | State it keeps | Operations |
|---|---|---|
| **Program one**, `cntrl_main.c` | `P_State`, `P_Line_Num`, the segment | makes the segment and publishes its id in `thj.ini` (`f_MkShm`), reads where the last mission ended (`f_Read_Last`), starts program two, then turns: Ready and Stay read commands, IntWine takes the lock, sends a line (`f_Send_One_Line`), records the position, counts rows and ends the mission |
| **Program two**, `cntrl_support.c` | `NeedFetch`, the interval timer, the pattern file | attaches to the segment, arms the timer, and when its SIGALRM handler asked for it takes the lock and prefetches rows into the driver's SRAM (`f_preload`) |
| **Program three**, `cntrl_usb.c` | the state, the button's debouncing, the light, what is mounted and open | copies a pattern file from a USB stick when the button is hit, verifies it, shows the result by a light, and serves the file byte by byte to the machine |
| **Operator**, `test_simulate.c` and the QT program | commands | writes the file name to `thj.ini`, sets the counts, gives the commands |
| **Shared memory**, `thj.h` | `Between_Stay` (a ring: two indices, `Buffer_Full`, `IntWine_File_Pos`), `QT_Stay` (a mailbox for one command), `Ex_All` (start, position, count, end) | read and written by all |
| **Lock file** | its holder | `fcntl(F_SETLKW)` in `file_lock`, `file_unlock` |
| **thj.ini**, `iniparser.c` | the lines of the file; while it is loaded a table, the section and an error count | each program loads it line by line, truncates it, sets a key, and dumps the table |
| **Dictionary**, `dictionary.c` | slots with key, value and hash; a count | new, del, get, set, unset |
| **Driver**, `thj.c` | 8 KB of SRAM: five buffers of ten lines of 150 bytes and one length register | `thj_write` stores a line, ioctl 10 shifts one out to the loom, ioctl 4 tests the memory |
| **Its module**, `thj.c` | the major number, two interrupts | `thj_init` takes them one by one, `thj_exit` gives them back |
| **Partition check**, `check.c` of the kernel | the log of the disk's name | `grok_partitions` writes the name over the log when a stick is plugged in |

**Who talks to whom.** The operator gives a command through the mailbox.
Program two is the producer and program one the consumer of a ring whose
contents are in the driver and whose indices are in shared memory; the lock file
is the only thing that keeps their turns apart. The timer handler of program two
interrupts it anywhere and reads the ring without the lock. All three programs
rewrite `thj.ini` without any lock, and it is all that survives a power failure.
Program three shares only the pattern file with the others; the kernel gives it
the name of the stick in a log file that is written over and never truncated.

**What is hard.** Two processes and a signal handler on one ring, where equal
indices mean full or empty; a row that is sent in several turns with the
lock let go in between; the wrap of the ring and of the file in one step; a
handler's decision used after a wait; read-modify-writes of a file that overlap;
a power failure between any two steps; a timer that must be armed once; a button
that bounces against a timer; a signal handler that writes to the light while
the main loop does; an operation of four system calls each of which may fail; a
name that is read into a buffer which keeps the last one; a file that is truncated
before anybody knows whether it could be loaded; a table that grows, collides and
runs out of memory while it is filled; a load of the driver that fails half-way.

**What makes each part correct.** The loom gets the rows of the pattern in
order, none lost, repeated or overwritten (ring, programs one and two); missions
end, after exactly their rows; the position in `thj.ini` is the one reached and
a mission resumes there; the file survives being rewritten; the light shows what
the copy did, and a copy that counts as good is equal byte for byte; the table of
keys is a map, and a program that sets a key of `thj.ini` changes no other; lines
in the SRAM do not touch each other; the stick that is there is found. The list `hazards` of
`PROJECT.json` has each of them at the line of the code where it could go wrong.

## 2. Modules

```
IniFile   Thj6264 <------- ThjRefinement -> ThjDriver -> ThjModule
   |         |                 (bytes implement lines)
   |      ShareMem                 |
   |______/  |  \________      DriverProofs
   |         |           \
MainControl  SupportControl  QtConsole
        \      |      /
        WeaveSystem ---------> WeaveFifo   (the controller implements a queue)
             |                    ^
        WeaveProperties ----------'
          /        \
  WeaveClaims   WeaveInvariant ---> WeaveProofs -+-> RingProofs ---> FifoProofs
          \        /                             |
          MCWeave                                `-> MissionProofs

KernelLog                        Dictionary ---> DictionaryMap  (the table is a map)
    |                             |      |
UsbControl -- UsbProperties    IniParser   DictionaryProofs
                /     \           |    \       |
         UsbProofs   MCUsb        |     `- IniProofs
                              MCIniParser
```

| Module | Models |
|---|---|
| `IniFile` | `thj.ini` as the programs see it: sections, `Pos`, `Done`; load, set, truncate, dump |
| `Thj6264` | `thj_write` and `send_line` on whole lines |
| `ShareMem` | the segment, the ring's predicates, the lock |
| `MainControl` | program one, one action for each stretch between two effects others can see |
| `SupportControl` | program two and its signal handler |
| `QtConsole` | `test_simulate.c`, and the other commands of the QT program |
| `WeaveSystem` | their composition, start of program two, power failures, fairness |
| `WeaveFifo` | abstract: a bounded queue between the pattern and the loom |
| `WeaveProperties` | what the controller should do |
| `WeaveClaims` | what a comment says and the code does not always do |
| `WeaveInvariant` | the inductive invariants of the controller, in named parts |
| `WeaveProofs`, `RingProofs`, `FifoProofs`, `MissionProofs` | theorems about the controller: control; the ring; the queue; missions and `thj.ini` |
| `UsbProofs`, `DriverProofs`, `DictionaryProofs`, `IniProofs` | theorems about program three, the driver, the table and the parser |
| `ThjDriver`, `ThjRefinement` | the driver byte by byte; its refinement of `Thj6264` |
| `ThjModule` | loading and unloading of the driver, part of `ThjDriver` |
| `KernelLog` | the kernel's log of the disk's name and its reading, part of `UsbControl` |
| `UsbControl`, `UsbProperties` | program three and its properties |
| `Dictionary`, `DictionaryMap` | the hash table; abstract: a map |
| `IniParser` | `iniparser_load`, set, unset and dump over `Dictionary`, and what they should do |
| `MCWeave`, `MCThjDriver`, `MCUsb`, `MCIniParser` | values for TLC |

## 3. From code to model

**Programs.** `mpc`, `spc`, `qpc` and `upc` name the next step of a program. A
step ends before the next access to something another process can change or see:
a field of the segment that is shared, the lock, `thj.ini`, the driver. So
`f_Send_One_Line` is `SendOneLine` (the test of the ring, `Buffer_Full`,
`P_Line_Num`), `Ioctl` (the line goes out), `Advance` (the indices), and
`PosLoad`, `PosOpen`, `PosSave` (the position is recorded), all inside the
lock; `f_preload` is `PreloadOpen`, `PreloadRead`, `PreloadAdvance`,
`PreloadFull`, `PreloadEnd`. `f_Run_Ready` is two actions because it reads the
mailbox in one line and clears it in the next.

**The handler.** `CheckFetch` may run between any two steps of program two once
the timer is armed. `SetInterval` keeps the order of `f_set_interval`, with its
constants exchanged as they are in the code. Program three's light timer has a
`tv_usec` of five million (`cntrl_usb.c:102`), which Linux 2.4 accepts.

**Lock.** `AcquireLock` waits until the lock is free. Both programs open the
file `lock` without `O_CREAT`: where it does not exist (`LockFile = FALSE`) the
lock fails and nobody waits.

**thj.ini.** A file is `sections` (are there any), `Pos` and `Done`. Without
sections `iniparser_dump_ini` writes keys that no getter finds again, so a file
that was loaded while somebody had it truncated stays empty for ever. `Load`,
`OpenForWriting` and `Save` are separate steps, as they are for the file system.
The names and colours in the file decide nothing.

**The parser.** `IniParser` has the same file line by line. A line is a record of
what `iniparser_line` makes of it (blank, comment, section, value, error, or cut:
too long or without its newline), so that blanks, case, quotes and `sscanf` are
out of the model, and a key of the table is the sequence of its parts between
colons: `s:a` is `<<"s", "a">>`, and the key of a file without a section is
`<<"", "a">>`. One action reads one line: `LineRead` stores it, `LineGoesOn` joins
it to the next (its backslash is overwritten and the rest kept; what a joined value
says is one value `Continued`), `LineTooLong` gives up. The text is parsed when it is
whole, so that `[s\` and `]` make a section of what was an error, and `s\` and `= 1` a
value: `Becoming` lets a line that goes on turn into any of the three. A line that is a
value by itself stays one. A line of no characters
makes the code look at `line[-1]` (`iniparser.c:584`); the model takes it that no
backslash is there. `Reread` is what a value becomes when it is written and read
again, which differs from it when it has a `;`. `Words` are the parts of a key.
What a file says, `Meaning`, gives each key the value of its last line. The program
around it is that of `f_MkShm`: load, `fopen` for writing, test, set, dump.

`IniFile` keeps of this what the controller depends on. Its `sections` is
`HasSection`; that files without one stay so, as `IniFile` assumes, is
`LostForGood`, for files in which no joined lines may make a section (`MayBeSection`),
and no dump writes such lines; that a set changes its key and no other, `UpdateExact`.

**Driver.** A line is its number in the pattern file. `Thj6264` keeps the length
register apart from the lines because the code does: `send_line` sends as many
bytes as the last write of any line had. `ThjDriver` has the bytes, the offsets
`buf * 1500 + line * 150`, the two bytes of the register and the odd last
byte; `LinesImplemented` shows that the lines are what it does, also when the
module is unloaded and loaded between two calls: the SRAM keeps its contents.

**Loading.** `thj_init` has one step for each `request_irq`, since another driver
may take or leave a timer in between. A load that fails returns without giving back
what it took, and `thj_exit` is not called for it. `register_chrdev` is taken to
succeed when the number is held by an earlier load of the same driver.

**Power failure.** `PowerOff` may strike between any two steps. It keeps `ini`
and resets all else. The history `resumeAt` remembers where a mission was cut: the
row it started at and the rows woven since, which is the height of the pattern when
the next row is its first again. `Wine_Start` is compared with it as it is, since
program two seeks to it as it is.

**Program three.** One action for each system call of `copy_from_usb` and for
each turn of the loop of `check_copy`; every one may fail, and the stick may be
pulled out at any step (`mounted = "gone"`). The two timers and the handler
are `DitherOver` and `Blink`. `cmp_pos`, the offset of the two files that
`check_copy` reads, is put back to 0 where `check_copy` has been left (`Umount`).
Its driver `/dev/thj_dev` is not in the repository and is external; reading a
command is taken to remove it.

**Log of the stick.** The kernel writes the name at the begin of the log
(`check.c:280`) and does not truncate it, and program three reads it into a static
buffer that it does not clear; `Over` and `DiskRead` do the same with sequences of
characters, and mount succeeds only if what was read is the name. The 64 bytes that
`fread` takes at most (`cntrl_usb.c:403`) are more than any name of the model and any
devfs name of a disk has. `grok_partitions`
is one step: its wait for the sectors of the disk cannot be seen from outside. When
the log cannot be opened `check_partition` returns before it looks for partitions.
Without a log `fread` of a null pointer ends program three.

**Dictionary.** Keys and values are model values; `dictionary_hash` is a constant
function, chosen with collisions. Each allocation may fail: a copy that fails
leaves NULL and is counted as an entry; growth that fails makes `dictionary_set`
return -1 and leaves null arrays. `heap` tells which, for it decides what follows:
`dictionary_del` and the dump read `key` and `val` and end the program without them
(`heap = "broken"`, `Crash`), but not `hash`. When `hash` alone is lost (`"unhashed"`)
`iniparser_load` says "memory allocation failure", deletes the dictionary and
refuses the file (`LoadEnd` with `errs < 0`).

**External.** The loom, the button, the stick, the machine, the QT program, the
operator and the power are modelled from what the code does with them.

## 4. Runs

Weave instances have two or three buffers (five in the code), patterns of three or
four rows, and missions shorter and longer than both, so that ring and file wrap
at different places and meet in every combination. `MaxSent` bounds the lines on
the carpet; `MaxJobs`, `MaxCommands` and `MaxOutages` what the operator and the
power do. `OpenLimit = 9` is more than the prefetches of an instance need, so that
the descriptors last as they do for the first thousand prefetches of a real day;
only a start beyond the pattern (`past_pattern`), where every prefetch reads
nothing, uses them up, and the properties of the rows are stated as long as some
are left (`FilesLeft`).

| Run | Instance | States | Shows |
|---|---|---|---|
| `weave_core` | 3 buffers, 4 rows, missions of 2 and 5 rows, a patient operator, one power failure at any step, the `thj.ini` of the repository or one whose `Done` is 0; fair | 176,221 | types, ring contents, saved position, mission length, survival of the file, rows in order in each life, the first mission that is cut off before the last row of the pattern was woven resumes where it was or a row earlier; missions end; the timer starts; the queue is implemented |
| `weave_rude` | 2 buffers, 3 rows; two missions and other commands at any time, any file | 730,134 | exclusion, order of the rows, no overwriting, no prefetch onto a full ring, without any discipline of the operator |
| `driver` | 2 x 2 lines of 3 bytes, bytes of 3 values, another driver | 361,477 | bytes implement lines, over writes, failed reads, memory test, slow loom, reloads; a load that failed at the second timer is never made good |
| `usb` | files `<7>`, `<7,8>`, `<8>` (equal, prefix, different), names `<1>` and `<1,0>`, an offset in some and beyond others | 523,440 | the light, the verification, unmounting, debouncing, answers, the name of the stick |
| `ini` | 10 files, 9 keys over 3 sections, hashes that collide and one that is 0, a table of 1, 2, 4 slots, 4 calls | 400,444 | always a slot to write to, one slot for a key, a map; exact updates, stable rewrites, what is refused, what is lost for good |
| `two_colors`, `late_support`, `second_mission`, `never_resumed`, `past_pattern`, `file_race`, `usb_remount` | as small as the behaviour allows | | a counterexample each: section 7 |

*Why the bounds are enough.* The ring, the wrap and the full/empty ambiguity are
all there with two buffers; the third in `weave_core` separates "next" from
"other". No guard compares counts other than with the size of the ring, the
height and `Wine_Count`, all of which the instances reach and pass: the mission of
two rows ends inside ring and pattern, that of five wraps both. Height and size of
the ring must differ, or the two wraps fall together; with a shorter pattern and
missions of two rows only, a start beyond the pattern never happens. One failure of
the power cuts a mission at every step, and a second one adds what `past_pattern`
shows. For the ring none of this rests on an argument: section 6 proves it for
every size.
The line length is 1 in the weave instances, where only "the right length" and
"-1" differ; `driver` has an odd length, where pairs and the rest of a line do.
Three contents of a file are all the ways two files differ for a program that
compares byte by byte; two names of different lengths, in both orders, are the case
where the tail of a name matters. The files of `ini` are one
of each kind: tidy, with a key given twice, with an error that a good line follows,
with an error at the end, with a cut line, with a key before its section, without a
section, with joined values, and with a line that is an error by itself and a key or
a section when it is joined. Four slots let the table be full, grow twice, and
lose an entry to a failed copy, and four calls are a load, an edit, and a second
load and edit of what the first wrote.

`ini` is checked without deadlock detection: once the keys or the values of the table
are lost, the next call ends the program.

Each property has a mutant of the model, a plausible slip in the code such as a
ring that does not wrap or a lock that is not released, under which TLC finds it
violated; `PROJECT.json` lists them.

## 5. Fairness

`FairSpec` assumes that Linux lets every program run that can (weak fairness of
the steps of programs one and two, of `test_simulate` once begun, and of the
timer once armed), and that a program waiting for the lock gets it
when it is free again and again (strong fairness of `MainLock` and
`SupportLock`): `F_SETLKW` queues waiters and `file_unlock` wakes them, and both
programs release the lock in every turn. Nobody is obliged to start a mission,
give a command or cut the power.

`UsbFairSpec` assumes that program three runs, that its virtual timer expires
(the program never sleeps), that a finger leaves the button, and that the loop
polling it sees it up again and again, be it in a bounce (strong fairness of
`Released`). Nothing is assumed of the stick or the machine.

## 6. Proofs

Every theorem holds **for every value of the constants** that the named
assumptions of the modules allow (`RingAssumption`, `QtAssumption`,
`DictAssumption`, ...: sizes are positive, a line is shorter than the length
register can hold, a row has at most as many lines as a buffer) and that its own
`ASSUME` asks for. TLC checked each inductive invariant on an instance before it was
proved. Where a step preserves an invariant there is one lemma for each action, or
for each part of the invariant.

### The controller

`WeaveProofs`: any ring, any number of colours, with or without a lock file, any
operator, any number of outages.

* `ControlInvariant`: `Spec => []ControlInv`,
* `TypeCorrect`: all types; so indices stay in the ring and lines in a buffer,
* `FetchHasRoom`: a prefetch that is wanted finds room,
* `MutuallyExclusive`: with a lock file, programs one and two are never both in
  their critical sections.

`ControlInv` strengthens the types by what each step needs of the others: a
mission has a colour count only after `f_command` (`JobInv`: else `Color_Num`
could be 0 and the line index leave the buffer), the line number agrees with the
step (`LineInv`), the lock's holder is in its critical section (`LockInv`), and a
full ring is not being filled nor wanted to be (`FetchInv`, which is what makes
the handler's unlocked read harmless: only program two, which the handler
interrupts, sets `Buffer_Full`).

`RingProofs`, **with the lock file and rows of one line** (`LockFile`,
`Colors = 1`), for every ring size, height, length of line, mission and operator:

* `RingInvariant`: `Spec => []RingInv`,
* `CarpetInOrder`: the loom gets the pattern's rows in order, without a gap,
  a repetition or a stale row (`RowsInOrder`),
* `RingHoldsTheRows`: the ring holds exactly the rows that come next
  (`RingHoldsNextRows`),
* `NothingOverwritten`: no write to a row that is still to be woven
  (`NoOverwrite`).

None of these three is inductive. `RowsInOrder` says nothing about the ring, and
the ring's contents say nothing about the step between `Ioctl` and `Advance`, or
between the write to the SRAM and the index that publishes it. `RingInv` adds
them: `IndexInv` (flag, indices and program counters agree), `CursorInv` (what is
about to be handed over is the row at `IntWine_File_Pos`), `ContentInv` (the
rows held are consecutive and of full length), `CarpetInv` (the carpet and
`Wine_Now` agree) and `BootInv`. The three parts about contents are stated while
file descriptors are left (`FilesLeft`). Arithmetic modulo the ring and the height
is in lemmas of its own. Both assumptions are needed: `two_colors` shows
`RowsInOrder` violated with two colours, and without the lock nothing orders the
two programs.

`FifoProofs`, under the same two assumptions:

* `ControllerIsQueue`: `Spec => FifoImplemented`, the refinement of `WeaveFifo`.
  The queue maps to the slots from `Buffer_Read` on, in order; `PreloadAdvance` or
  `PreloadFull` is the enqueue, `Advance` the dequeue, the start of a mission and
  an outage are the two resets, and every other step is shown to leave the queue as
  it is,
* `StartedInvariant`: once a row was woven, `IntWine_File_Pos` is a row of the
  pattern (`StartedInv`),
* `NoRowLost`: the carpet and the queue are consecutive rows (`RowsConsecutive`),
  from `RingInv` and `StartedInv`.

`MissionProofs`, with or without the lock file and for any number of colours:

* `MissionInvariant` and `FirstMissionExact` (`MissionExact`), **when no count is 0**
  (`0 \notin Counts`). With a `Wine_Count` of 0 the test for the last row compares
  after the first row was counted, and the mission passes its end. `CountInv` relates
  the carpet to the counters in every step of `f_Send_One_Line`; `OnceInv` follows
  the one Start command from the console through the mailbox to program one.
* `OneRewriterAtATime`, `PositionIsSaved` (`PositionSaved`), `SectionsSurvive`
  (`IniSurvives`) and `FirstCutIsResumed` (`FirstCutResumed`), **with a patient
  operator** (`Patient`), who starts the console when both programs are
  there and the machine is ready. `QuietInv` is the argument: nothing locks
  `thj.ini`, and yet whoever rewrites it has it for himself, because program one does
  not start program two before it has written the file, program two writes it only
  while it attaches, and the console only before it gives its command. From there
  `SavedInv`, `SectionsInv` and `CutInv` say of each *copy* of the file, on the disk or in a program, what it
  tells. `file_race` is what happens without patience.
* `FirstCutIsResumed` also needs that the file the machine is first switched on
  with has `Pos` 0 when its `Done` is 0. Without that it is false: rows woven
  since power-on are recorded as if they were counted from row 0 (section 7). What it
  says is that `Wine_Start` itself, with which program two seeks, is the row where the
  mission was cut off or the one before, when that row is one of the pattern
  (`resumeAt < Height`). A cut after the last row of the pattern is left out, because
  there the mission is *not* resumed: `past_pattern` shows it.

### Program three and the log

`UsbProofs`, for any files, names, offsets and any order of timers and signals:
`UsbInvariant` (`UsbSpec => []UsbInv`), and from it every safety property that `usb`
checks: `UsbTypesKept`, `LightIsRight` (`LightTellsResult`), `StickIsFree`
(`UnmountedAfterSuccess`), `SamplesApart` (`NoEarlySample`), `ComparisonIsExact`
(`CopyVerified`), `DataIsFromFile` (`AnswersFromFile`), `BufferIsLog`
(`NoTailInBuffer`) and `PluggedIsFound` (`StickFound`).

`UsbInv` adds where in the program each timer may run (`DitherInv`, `LightInv`),
that the part of the two files that was read is equal (`CompareInv`; files that differ
in length only are the case to get wrong), and `NameInv`: the log is never shorter
than the name written last nor than what the buffer holds, so that one read brings
all of it into the buffer although that is never cleared.

### The driver

`DriverProofs`, for all sizes of buffers, lines and bytes:

* `DriverTypes` (`ThjTypeOK`), by which ioctl 10 always names a line that exists,
* `HalfLoadIsForEver` (`NeverLoadedAgain`),
* `BytesImplementLines`: `ThjSpec => LinesImplemented`, the refinement of `Thj6264`
  that the controller is composed with.

The last needs that lines of different names do not share a byte nor reach the length
register, whatever the sizes, and `ThjInv`: the bytes that have gone out so far are
those of the line asked for, and the register holds the length of a line or a length
that is no line's. It assumes `LinesAssumption`, which says exactly when
the wrong test of `thj.c:427` is harmless: a line has more than two bytes and at least
as many as a buffer has lines less one, and the length that the memory test leaves is
neither a line's nor one more. The sizes of the code (150 bytes, 10 lines, and the 0xAA
that `test_6264` writes to every cell; the 0x55 of `test_6264_one` goes to one cell, and
nobody calls it) satisfy it.

### The table and the parser

`DictionaryProofs`, for any keys, values, initial size and hash function,
however it collides:

* `DictInvariant`: `DictSpec => []DictInv`,
* `SlotAlwaysLeft` (`SlotLeft`) and `OneSlotForAKey` (`OneSlot`),
* `TableIsAMap`: `DictSpec => MapImplemented`, the refinement of `DictionaryMap`.

`DictInv` adds to the types that the used slots are at most `n` and `n` at most
`size` (an entry whose key could not be copied is counted and not there, so
they are not equal), and that an entry has the hash of its key. The first gives
the empty slot, and makes it safe to skip the search when `n` is 0; with the
second a search that fails means that the key is not there, hence one slot for a
key. For the refinement, `TableMap` is the map of a table given by its size and
arrays; `PutTable`, `CutTable` and `SameTable` say what a write to one slot does
to it, and each call is one of the three. The existence of a first empty slot
(`MinExists`) comes from the well-foundedness of `<` on the natural numbers.

`IniProofs`, for any files of any length, any keys, hashes and failed allocations:

* `ParserInvariant`: `IniSpec => [](DictInv /\ ParserInv)`,
* `ParserIsACaller`: `IniSpec => DictSpec`, and with it `TableOfAProgram`: what is
  proved of the dictionary holds of the table of a program,
* `LastVerdictCounts` (`RefusedForLast`): a load that returns has refused its file
  exactly when a line is cut, an error comes after the last good line, or the full
  table could not grow for want of its hashes (`GrowthFailed`); for files without
  joined lines. An error that a good line follows is no reason,
* `EditsAreExact` (`UpdateExact`): load, edits and dump of a tidy file change what the
  file means in the edited keys only,
* `SectionsAreLost` (`LostForGood`): no section comes into a file that has none, nor
  lines that make one when they are joined, unless it is set,
* `RewritesAreStable` (`RewriteKeepsLines`): a file that was dumped before, loaded and
  dumped with nothing set in it, is the same file line by line.

`ParserInv` has four parts: types and what they are in each step (`ParserTypeOK`);
`errs` is negative exactly when the table could not grow, and otherwise not 0 exactly
when an error came after the last good line (`VerdictInv`);
the table holds what the lines read so far mean, or what the edits made of it
(`TableInv`); a table loaded from a file without sections has no section of its own
(`LostInv`). `UpdateExact` is about a dump and not about a state: that the lines it
writes mean what the table holds is `DumpMeans`. It goes over the file that
`iniparser_dump_ini` writes block by block: each block opens its section, every
good line of the file is the line of one slot, hence of one key, and every used slot
has its line. That the slots of a set can be listed in ascending order, each once, and
what a file of any number of blocks is, are inductions, which `SetInduction` brings
into a form the provers can use: a set that contains 0 and with each number the next.
For the same reason `Meaning` and `InOrder` are written without recursion.

For `RewriteKeepsLines` it is not enough what the table means. The argument goes once
around. `Written` says what a dump leaves in the file: one block for each section, the
sections different, the keys of a block different, every value one that is read as it
was written (`DumpIsWritten`). In such a file no key occurs twice (`WrittenFacts`), so
that each good line of it is an entry that is not there yet, and a table without gaps
puts a new entry into its next slot whether it grows or not (`SetAppends`). Hence
`OrderInv`: as long as no allocation failed and nothing was set, slot `i` holds the
`i`-th good line. `Origin` says that what was loaded, if not written by hand, came
from a dump; and the dump of a table with the lines in their order is the file
(`FileRestored`). The theorem has one hypothesis, `CutOnce`: what is read of a value
is read again as it is. It holds where a comment or one pair of quotes is cut off; a
value in two pairs of quotes would lose one pair with each rewrite, and no program
sets such a value.

### Only model-checked

* `MissionTerminates`, `TimerStarts`, `ChecksResume`: liveness under fairness is out of
  the prover's reach.
* The refinements and the order of rows are proved for rows of one line, where they are
  true; for several colours they are not (`two_colors`).

## 7. What the checks found

Shown by a run, with the line of the code and of the comment in `PROJECT.json`:

* `two_colors`: `Buffer_Full` is cleared with the *first* line of a row but
  `Buffer_Read` moves with the last. With two colours a full ring looks empty in
  between, and the row that is half sent is overwritten.
* `late_support`: `f_set_interval` first arms the timer only if `Wine_End` is
  TRUE. A mission that starts before program two gets there leaves the timer off
  for ever, and the mission waits for ever.
* `second_mission`: `Wine_Now` is not reset between missions and is compared for
  equality: the second mission runs past its count and does not end.
* `never_resumed`: nobody ever sets `IntWine:Done` to 0, so no mission is ever
  resumed after a power failure with the file of the repository.
* `past_pattern`: `Pos` is `Wine_Now`, the rows woven since power-on, neither
  counted from the row where the mission started nor taken modulo the height. Cut
  off after the last row of the pattern, a mission that repeats it starts at a row
  beyond the end of the file, where every prefetch reads nothing.
* `file_race`: two read-modify-writes of `thj.ini` overlap and it loses its
  contents.
* `usb_remount`: after a failed copy `/mnt` stays mounted, and every later
  download fails at `mount`.

Met while modelling, in the model as the code has it, without a run of its own:

* a command given between `f_Run_Ready`'s read of the mailbox
  (`cntrl_main.c:227`) and its clearing in the next line is lost;
* a Stop in Stay sets `State_Ready`, and the lines after the switch override it
  (`cntrl_main.c:287`); during IntWine no command is read at all;
* the two intervals of `f_set_interval` are exchanged with respect to its
  comments;
* an outage between the truncation of `thj.ini` and its dump empties it, and
  then program two ends at every boot, as no segment id can be published.
  `IniSurvives` does not speak of it, since it excuses what follows an outage;
* for the same reason as in `past_pattern`, a mission that is interrupted twice
  resumes too early: with `MaxOutages = 2` TLC finds it, and `FirstCutResumed`
  speaks of the first failure only;
* a `thj.ini` that cannot be loaded is erased: each program opens it for writing
  before it tests what it loaded (`cntrl_main.c:102`). `RefusedForLast` says when a
  file is refused, and nothing of what is left of it;
* a file without a section gets one more colon in front of each key whenever it is
  written back, and no set of a key brings a section into it
  (`iniparser.c:225`, `LostForGood`);
* a load of the driver that fails at the second timer keeps the first interrupt and
  the major number, and no later load succeeds (`thj.c:887`, `NeverLoadedAgain`);
* the log is not truncated, so the name of a stick that is shorter than the one
  before keeps its tail and cannot be mounted; `StickFound` says when it is found;
* `test_simulate` dumps the `Pos` it loaded, which may put back an old one;
* `f_preload` never closes the pattern file: after 1024 prefetches open fails, a
  length of -1 is stored, and `send_line` shifts out 65535 bytes;
* the rest of an odd line is tested with the number of the line instead of its
  length (`thj.c:427`), which is harmless for the lines of more than ten bytes of the
  code, and `LinesAssumption` of `ThjRefinement` says for which sizes it is;
* `dictionary_set` returns 0 when it could not copy the key or the value, though
  its comment promises non-zero in case of failure (`dictionary.c:224`); growth
  that fails leaves null arrays, and when these are the keys or the values
  `iniparser_load` reads through them as it deletes the dictionary;
* `iniparser_set` adds an entry that is not found; its comment says -1;
  `iniparser_load` forgets a syntax error when a good line follows.

## 8. What is not modelled

* The rest of `thj.c`: `thj_read` and the ioctls 0 to 3 and 5 to 9, which no program
  calls, with the 8255 ports, relays, beeper and display: sequences of port writes
  without decisions that nothing reads back. The timers are configured and never
  started, so that their handlers never run.
* The rest of `kernel_mods/check.c`: the names of disks by their major numbers,
  their sizes, the formats of partition tables and devfs are Linux 2.4's own and do
  not touch the log. `zImage24` and the circuit board are binary.
* The characters of a line of `thj.ini`: trimming, case, quotes, `sscanf`; the
  getters of `iniparser.c` and `dictionary.c` that convert a value to a number or a
  truth value, and the dumps that print.
* Contents of the commands to the machine, and the self test and demagnetising
  commands, whose cases in `cntrl_main.c` are empty ("work undefined").

## 9. Plan

Done, in this order: weave core (modules up to `WeaveProperties`, runs,
`ControlInv`, `RingInv`), program three, driver, dictionary with its proofs; then
the parser over the dictionary, the log of the kernel, the loading of the driver,
and power failures in missions of every length; then the proofs of the queue, of
missions and `thj.ini`, of program three, of the driver and of the parser with the
stability of its rewrites. No safety property of a passing run is left without a
theorem, up to the restrictions named in section 6.

The model would gain from the ioctls on the 8255 only if a program called them.
