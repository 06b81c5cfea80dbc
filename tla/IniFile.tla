------------------------------ MODULE IniFile ------------------------------
(***************************************************************************)
(* The configuration file thj.ini, as the three programs of control_app    *)
(* use it.  Every update is the same four calls (cntrl_main.c:101-122):    *)
(*                                                                         *)
(*     ini = iniparser_load("thj.ini");        \* Load                     *)
(*     stderr = fopen("thj.ini", "w");         \* OpenForWriting           *)
(*     iniparser_set(ini, key, value);                                     *)
(*     iniparser_dump_ini(ini, stderr); fclose(stderr);      \* Save       *)
(*                                                                         *)
(* Nothing locks the file: between OpenForWriting and Save it is empty for *)
(* everybody, and a process writes back what it loaded.  The dump is small *)
(* enough for stdio to hand it over in one write, at fclose.               *)
(*                                                                         *)
(* A file is abstracted to whether it has its sections and to the keys the *)
(* programs decide on.  Without a section, iniparser_dump_ini writes bare  *)
(* "key = value" lines, which load as keys of the section "" and are found *)
(* by no getter: a file that lost its sections stays Empty whatever is set *)
(* in it, Temp:ShareMem included.                                          *)
(***************************************************************************)
EXTENDS Integers

CONSTANTS
    InitialInis     \* the files a system may be switched on with

VARIABLES
    ini,            \* the contents of thj.ini
    iniLoaded       \* the dictionary each process holds

iniVars == <<ini, iniLoaded>>

Processes == {"main", "support", "qt"}

Inis == [sections : BOOLEAN, pos : Nat, done : {0, 1}]

Empty == [sections |-> FALSE, pos |-> 0, done |-> 1]

ASSUME InisAssumption == InitialInis \subseteq {f \in Inis : f.sections}

IniTypeOK ==
    /\ ini \in Inis
    /\ iniLoaded \in [Processes -> Inis]

IniInit ==
    /\ ini \in InitialInis
    /\ iniLoaded = [p \in Processes |-> Empty]

(* iniparser_load: the dictionary is the file of this moment. *)
Load(p) ==
    /\ iniLoaded' = [iniLoaded EXCEPT ![p] = ini]
    /\ UNCHANGED ini

(* fopen(.., "w"): the file is truncated. *)
OpenForWriting ==
    /\ ini' = Empty
    /\ UNCHANGED iniLoaded

(* iniparser_set followed by iniparser_dump_ini. *)
SetPosForgotten(f, pos) == f            \* mutant: nothing is set

SetPos(f, pos) == IF f.sections THEN [f EXCEPT !.pos = pos] ELSE Empty

SetDone(f, done) == IF f.sections THEN [f EXCEPT !.done = done] ELSE Empty

SaveForgotten(f) == UNCHANGED iniVars   \* mutant: nothing is dumped

Save(f) ==
    /\ ini' = f
    /\ UNCHANGED iniLoaded

============================================================================
