----------------------------- MODULE IniParser -----------------------------
(***************************************************************************)
(* control_app/iniparser.c over the Dictionary: a program loads thj.ini    *)
(* line by line, opens it for writing, sets what it has to set, and dumps  *)
(* the table back.  IniFile is the same file as the controller sees it.    *)
(*                                                                         *)
(* A string of the table is the sequence of its parts between colons:      *)
(* <<s>> is "s", <<s, k>> is "s:k", <<"">> is the empty string.  A line of *)
(* the file is what iniparser_line makes of it, so that letter case,       *)
(* blanks and quotes are out of the model.                                 *)
(***************************************************************************)
EXTENDS Dictionary, Sequences, SequencesExt

CONSTANTS
    Words,          \* the parts of a key
    HandFiles,      \* the files somebody may have written by hand
    EditKeys, EditValues,   \* the keys that the programs set, and to what
    Empty,          \* the empty value
    Continued,      \* a value that the next line was joined to
    NullText,       \* what printf writes for a null pointer
    Reread,         \* Reread[v]: v, cut where a comment begins
    MaxCalls        \* bound: calls of iniparser_load, set and unset

(* The lines that iniparser_line tells apart. *)
IniLine ==
    {line \in [kind : {"section", "value", "blank", "comment", "error", "cut"},
               key : Seq(Words), val : Values \cup {NULL}, more : BOOLEAN] :
        /\ line.kind \in {"section", "value"} => line.key # <<>>
        /\ line.kind = "section" => line.val = NULL}

ASSUME IniAssumption ==
    /\ "" \in Words
    /\ {Empty, Continued, NullText} \subseteq Values
    /\ Reread \in [Values -> Values]
    /\ EditKeys \subseteq Keys /\ EditValues \subseteq Values \cup {NULL}
    /\ Keys \subseteq Seq(Words) \ {<<>>}
    /\ HandFiles \subseteq Seq(IniLine)

VARIABLES
    ipc,            \* where the program is
    file,           \* the lines of thj.ini
    lineno,         \* lines read
    section,        \* the section of the lines that come
    last,           \* the line that goes on in the next one, or NoLine
    errs,
    calls,          \* calls so far
    edited,         \* history: something was set since the last load
    before, wanted, \* history: the file that was loaded, and what the
                    \* edits should have made of its meaning
    intact          \* history: no allocation failed since then

loadVars == <<lineno, section, last, errs>>
historyVars == <<calls, edited, before, wanted, intact>>
parserVars == <<ipc, file, loadVars, historyVars>>
iniparserVars == <<dictionaryVars, parserVars>>

Line(kind, k, v) == [kind |-> kind, key |-> k, val |-> v, more |-> FALSE]

SectionLine(s) == Line("section", s, NULL)
ValueLine(k, v) == Line("value", k, v)
BlankLine == Line("blank", <<>>, NULL)
CommentLine == Line("comment", <<>>, NULL)
ErrorLine == Line("error", <<>>, NULL)
NoLine == BlankLine

(* Too long, or the last one without a newline. *)
CutLine == Line("cut", <<>>, NULL)

(* A line that ends with a backslash. *)
GoesOn(line) == [line EXCEPT !.more = TRUE]

NoSection == <<"">>

-----------------------------------------------------------------------------
GoodLines(lines) == {i \in DOMAIN lines : lines[i].kind \in {"section", "value"}}
BadLines(lines) == {i \in DOMAIN lines : lines[i].kind = "error"}

(* What a file means to a reader who knows the format: a key lies in the   *)
(* section that was opened last, and the last line of a key counts.        *)
SectionAt(lines, i) ==
    LET heads == {j \in 1..i : lines[j].kind = "section"}
    IN  IF heads = {} THEN NoSection ELSE lines[Max(heads)].key

KeyAt(lines, i) ==
    IF lines[i].kind = "section" THEN lines[i].key
    ELSE SectionAt(lines, i) \o lines[i].key

MeaningUpTo(lines, i) ==
    LET good == GoodLines(lines) \cap 1..i
        final(k) == Max({j \in good : KeyAt(lines, j) = k})
    IN  [k \in {KeyAt(lines, j) : j \in good} |-> lines[final(k)].val]

Meaning(lines) == MeaningUpTo(lines, Len(lines))

Store(map, k, v) == [x \in DOMAIN map \cup {k} |-> IF x = k THEN v ELSE map[x]]

(* A file whose lines all say what they seem to. *)
Tidy(lines) ==
    \A i \in DOMAIN lines : lines[i].kind \notin {"error", "cut"} /\ ~lines[i].more

HasSection(lines) == \E i \in DOMAIN lines : lines[i].kind = "section"

(* A line that begins as one thing and ends as another when it is joined:  *)
(* "[s\" is an error and "[s\" with "]" a section, "s\" with "= 1" a value. *)
Becoming(line) ==
    IF line.kind \in {"section", "error"} /\ line.key # <<>>
    THEN {[line EXCEPT !.kind = kind, !.val = NULL] :
             kind \in {"section", "value", "error"}}
    ELSE {line}

MayBeSection(line) == \E l \in Becoming(line) : l.kind = "section"

-----------------------------------------------------------------------------
IniInit ==
    /\ DictInit
    /\ ipc = "idle" /\ file \in HandFiles
    /\ lineno = 0 /\ section = NoSection /\ last = NoLine /\ errs = 0
    /\ calls = 0 /\ edited = FALSE
    /\ before = <<>> /\ wanted = [k \in {} |-> NULL] /\ intact = TRUE

(* The begin of iniparser_load, which returns NULL without a dictionary.   *)
LoadBegin ==
    /\ ipc = "idle"
    /\ calls < MaxCalls /\ calls' = calls + 1
    /\ \/ dictionary_new /\ ipc' = "reading"
       \/ UNCHANGED dictionaryVars /\ ipc' = "loaded"
    /\ intact' = (heap' = "usable")
    /\ lineno' = 0 /\ section' = NoSection /\ last' = NoLine /\ errs' = 0
    /\ before' = file /\ wanted' = Meaning(file)
    /\ edited' = FALSE
    /\ UNCHANGED file

(* fgets appends to a line that goes on, over its backslash. *)
Joined(first, next) ==
    IF first.kind = "blank" THEN next
    ELSE [first EXCEPT !.more = next.more,
                       !.val = IF first.kind = "value" THEN Continued ELSE NULL]

(* The loop breaks when a set has failed. *)
Reading == ipc = "reading" /\ errs >= 0 /\ lineno < Len(file)

NextIsCut == file[lineno + 1].kind = "cut"

ThisLine == Joined(last, file[lineno + 1])

Stored(line) == line.kind \in {"section", "value"}

(* dictionary_set, and whether the entry is what it should be. *)
Enter(k, v) ==
    /\ k \in Keys
    /\ dictionary_set(k, v)
    /\ intact' = (intact /\ k \in DOMAIN Contents' /\ Contents'[k] = v)

LineTooLong ==
    /\ Reading /\ NextIsCut
    /\ dictionary_del
    /\ ipc' = "loaded"
    /\ UNCHANGED <<file, loadVars, historyVars>>

(* What is read so far may become another line by what comes.              *)
LineGoesOn ==
    /\ Reading /\ ~NextIsCut /\ ThisLine.more
    /\ lineno' = lineno + 1 /\ last' \in Becoming(ThisLine)
    /\ UNCHANGED <<dictionaryVars, ipc, file, section, errs, historyVars>>

ErrsKept(result) == errs + result       \* mutant: a set does not clear errs

(* errs after a dictionary_set that succeeded or failed. *)
ErrsAfterSet(result) == result

LineRead ==
    /\ Reading /\ ~NextIsCut /\ ~ThisLine.more
    /\ lineno' = lineno + 1 /\ last' = NoLine
    /\ \/ /\ ThisLine.kind \in {"blank", "comment"}
          /\ UNCHANGED <<dictionaryVars, section, errs, intact>>
       \/ /\ ThisLine.kind = "section"
          /\ section' = ThisLine.key
          /\ Enter(ThisLine.key, NULL)
          /\ errs' = ErrsAfterSet(IF heap' = "usable" THEN 0 ELSE -1)
       \/ /\ ThisLine.kind = "value"
          /\ Enter(section \o ThisLine.key, ThisLine.val)
          /\ errs' = ErrsAfterSet(IF heap' = "usable" THEN 0 ELSE -1)
          /\ UNCHANGED section
       \/ /\ ThisLine.kind = "error"
          /\ errs' = errs + 1
          /\ UNCHANGED <<dictionaryVars, section, intact>>
    /\ UNCHANGED <<ipc, file, calls, edited, before, wanted>>

(* The end of the file, where a line that went on is forgotten, or of the  *)
(* loop, after "memory allocation failure".                                *)
Ending == ipc = "reading" /\ (lineno = Len(file) \/ errs < 0)

LoadEnd ==
    /\ Ending
    /\ ipc' = "loaded"
    /\ IF errs # 0 THEN dictionary_del ELSE UNCHANGED dictionaryVars
    /\ UNCHANGED <<file, loadVars, historyVars>>

(* A set needs all three arrays, dictionary_del and the dump need the keys *)
(* and the values: the program ends at the first null pointer it reads     *)
(* through.  What a dump has written until then is left out.               *)
Setting ==
    \/ Reading /\ ~NextIsCut /\ ~ThisLine.more /\ Stored(ThisLine)
    \/ ipc = "opened"

Deleting ==
    \/ Reading /\ NextIsCut
    \/ Ending /\ errs # 0
    \/ ipc = "opened"

Crash ==
    /\ \/ Setting /\ heap \in {"unhashed", "broken"}
       \/ Deleting /\ heap = "broken"
    /\ ipc' = "crashed"
    /\ UNCHANGED <<dictionaryVars, file, loadVars, historyVars>>

-----------------------------------------------------------------------------
(* The programs: fopen(.., "w") comes before the test of what was loaded.  *)
OpenForWriting ==
    /\ ipc = "loaded"
    /\ file' = <<>>
    /\ ipc' = IF heap # "none" THEN "opened" ELSE "idle"
    /\ UNCHANGED <<dictionaryVars, loadVars, historyVars>>

Editing ==
    /\ ipc = "opened"
    /\ calls < MaxCalls /\ calls' = calls + 1
    /\ edited' = TRUE
    /\ UNCHANGED <<ipc, file, loadVars, before>>

iniparser_set(k, v) ==
    /\ Editing
    /\ Enter(k, v)
    /\ wanted' = Store(wanted, k, v)

iniparser_unset(k) ==
    /\ Editing
    /\ dictionary_unset(k)
    /\ wanted' = [x \in DOMAIN wanted \ {k} |-> wanted[x]]
    /\ UNCHANGED intact

-----------------------------------------------------------------------------
(* iniparser_dump_ini. *)

(* Mutant: the loop runs from the last slot to the first. *)
FromEnd(slots) ==
    [i \in 1..Cardinality(slots) |->
        CHOOSE slot \in slots : Cardinality({other \in slots : other > slot}) = i - 1]

(* A loop over the slots meets those of a set in ascending order: the i-th *)
(* is the one with i - 1 others before it.                                 *)
InOrder(slots) ==
    [i \in 1..Cardinality(slots) |->
        CHOOSE slot \in slots : Cardinality({other \in slots : other < slot}) = i - 1]

(* Mutant: the test for the colon is the wrong way round. *)
HasColon(k) == Len(k) > 1

IsSection(k) == Len(k) = 1

(* iniparser_getnsec and iniparser_getsecname. *)
SectionSlots == InOrder({i \in UsedSlots : IsSection(key[i])})

(* Mutant: the colon after the name of the section is not compared. *)
InSectionNoColon(k, s) == IsPrefix(s, k)

InSection(k, s) == IsStrictPrefix(s, k)

Printed(v, null) == Reread[IF v = NULL THEN null ELSE v]

DumpSection(s) ==
    LET inside == InOrder({i \in UsedSlots : InSection(key[i], s)}) IN
    <<BlankLine, SectionLine(s)>>
    \o [i \in DOMAIN inside |->
           ValueLine(Tail(key[inside[i]]), Printed(val[inside[i]], Empty))]

DumpBare ==
    LET used == InOrder(UsedSlots) IN
    [i \in DOMAIN used |->
        ValueLine(key[used[i]], Printed(val[used[i]], NullText))]

IniLines ==
    IF SectionSlots = <<>> THEN DumpBare
    ELSE FlattenSeq([i \in DOMAIN SectionSlots |->
                        DumpSection(key[SectionSlots[i]])])
         \o <<BlankLine>>

(* The dump, fclose and iniparser_freedict. *)
Dump ==
    /\ ipc = "opened"
    /\ file' = IniLines
    /\ dictionary_del
    /\ ipc' = "idle"
    /\ UNCHANGED <<loadVars, historyVars>>

-----------------------------------------------------------------------------
IniLoad == LoadBegin \/ LineTooLong \/ LineGoesOn \/ LineRead \/ LoadEnd

IniEdit ==
    \E k \in EditKeys :
        \/ \E v \in EditValues : iniparser_set(k, v)
        \/ iniparser_unset(k)

IniNext == IniLoad \/ OpenForWriting \/ IniEdit \/ Dump \/ Crash

IniSpec == IniInit /\ [][IniNext]_iniparserVars

-----------------------------------------------------------------------------
(* A map that a file can say: every key lies in a section, and its value   *)
(* is read as it is written.                                               *)
Proper(map) ==
    /\ \E k \in DOMAIN map : Len(k) = 1
    /\ \A k \in DOMAIN map :
          IF Len(k) = 1 THEN map[k] = NULL
          ELSE <<k[1]>> \in DOMAIN map /\ map[k] # NULL /\ Reread[map[k]] = map[k]

Dumped == ipc = "opened" /\ ipc' = "idle"

(* A program that changes some keys of thj.ini changes these and no other, *)
(* whatever the order of its lines, the slots and the growth of the table  *)
(* (iniparser.c:214-252, 530-629).                                         *)
UpdateExact ==
    [][Dumped /\ Tidy(before) /\ intact /\ Proper(wanted)
       => Meaning(file') = wanted]_iniparserVars

(* thj.ini that a program wrote is written back line by line as it was     *)
(* when nothing was set in it: sections and keys keep their places.        *)
RewriteKeepsLines ==
    [][Dumped /\ intact /\ ~edited /\ before # <<>> /\ HasSection(before)
       /\ before \notin HandFiles
       => file' = before]_iniparserVars

(* A file that lost its sections never gets one again, whatever keys of    *)
(* sections are set in it (iniparser.c:225-233), if none of its lines is a *)
(* section or becomes one when it is joined to the next.                   *)
LostForGood ==
    [][Dumped /\ (\A i \in DOMAIN before : ~MayBeSection(before[i]))
       /\ (\A k \in DOMAIN wanted : ~Len(k) = 1)
       => ~HasSection(file')]_iniparserVars

(* The table was full, and its growth failed for want of hashes alone.     *)
GrowthFailed == heap = "unhashed" /\ n = size

(* A load that returns has refused its file for one of three reasons: a    *)
(* line that is cut, an error after which no other line was stored, or a   *)
(* table that could not grow, but could be deleted.  An error before the   *)
(* last stored line is forgotten with that line, and a table that never    *)
(* had its arrays is no reason as long as nothing is stored in it          *)
(* (iniparser.c:568-576, 597-629).                                         *)
RefusedForLast ==
    [][ipc = "reading" /\ ipc' = "loaded" /\ (\A i \in DOMAIN file : ~file[i].more)
       => (heap' = "none" <=>
             \/ \E i \in DOMAIN file : file[i].kind = "cut"
             \/ \E i \in BadLines(file) : \A j \in GoodLines(file) : j < i
             \/ GrowthFailed)
      ]_iniparserVars

-----------------------------------------------------------------------------
(* The inductive invariant behind these properties, in named parts. *)

ParserTypeOK ==
    /\ ipc \in {"idle", "reading", "loaded", "opened", "crashed"}
    /\ file \in Seq(IniLine)
    /\ lineno \in Nat /\ errs \in Int
    /\ section \in Seq(Words) \ {<<>>} /\ last \in IniLine
    /\ edited \in BOOLEAN /\ intact \in BOOLEAN
    /\ ipc = "reading" => heap # "none" /\ lineno <= Len(file) /\ before = file
    /\ ipc = "idle" => heap = "none"
    /\ heap \in {"unhashed", "broken"} => ~intact

Unjoined(lines) == \A i \in DOMAIN lines : ~lines[i].more

(* errs is -1 when the table could not grow, and otherwise 0 unless an     *)
(* error came after the last line that was stored.                         *)
VerdictInv ==
    ipc = "reading" /\ Unjoined(file) =>
        /\ last = NoLine
        /\ \A i \in 1..lineno : file[i].kind # "cut"
        /\ errs < 0 <=> heap # "usable" /\ n = size
        /\ errs >= 0 =>
              (errs # 0 <=> \E i \in BadLines(file) \cap 1..lineno :
                               \A j \in GoodLines(file) \cap 1..lineno : j < i)

(* The table is what the lines read so far mean, and after the load what   *)
(* the edits should have made of it.                                       *)
TableInv ==
    heap = "usable" /\ intact /\ Tidy(before) =>
        /\ ipc = "reading" => /\ Contents = MeaningUpTo(file, lineno)
                              /\ section = SectionAt(file, lineno)
                              /\ last = NoLine
                              /\ wanted = Meaning(file)
        /\ ipc \in {"loaded", "opened"} => Contents = wanted

(* A section of a file without sections was set as one.                    *)
LostInv ==
    (\A i \in DOMAIN before : ~MayBeSection(before[i])) =>
        /\ ipc = "reading" => section = NoSection /\ ~MayBeSection(last)
        /\ heap # "none" => \A i \in UsedSlots :
                               Len(key[i]) = 1 => key[i] \in DOMAIN wanted

(* The slot of a line of a file that gives every good line its own.        *)
SlotOf(lines, i) == Cardinality({j \in GoodLines(lines) : j < i})

Filled(lines, m) ==
    /\ n = SlotOf(lines, m + 1)
    /\ UsedSlots = 0..n-1
    /\ \A i \in GoodLines(lines) \cap 1..m :
          /\ key[SlotOf(lines, i)] = KeyAt(lines, i)
          /\ val[SlotOf(lines, i)] = lines[i].val

FromDump(lines) == lines # <<>> /\ HasSection(lines) /\ lines \notin HandFiles

(* The lines of a file that was dumped fill the slots from the first on,   *)
(* in their order.                                                         *)
OrderInv ==
    heap = "usable" /\ intact /\ ~edited /\ FromDump(before) =>
        /\ ipc = "reading" => Filled(before, lineno)
        /\ ipc \in {"loaded", "opened"} => Filled(before, Len(before))

ParserInv == ParserTypeOK /\ VerdictInv /\ TableInv /\ LostInv

=============================================================================
