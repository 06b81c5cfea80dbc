---------------------------- MODULE WeaveClaims ----------------------------
(***************************************************************************)
(* What comments of the repository say of the programs and the programs do *)
(* not always do.  Each of these is checked on an instance where TLC finds *)
(* a behaviour that breaks it; the README tells which.                     *)
(***************************************************************************)
EXTENDS WeaveProperties

(* Wine_Now is the row the weaving is at, Wine_Count the rows to weave in  *)
(* all (thj.h:46-47): the first does not pass the second.                  *)
NeverPastCount == P_State = "IntWine" => Wine_Now <= Wine_Count

(* "Using ini. file to support weaving after power outage"                 *)
(* (cntrl_main.c:15): after a failure in a mission the machine starts at   *)
(* the first row not woven, or repeats the one that was being recorded.  A *)
(* file lost in the failure is not asked for.                              *)
ResumesWhereCut ==
    mpc = "spawn" /\ resumeAt # NoResume /\ ini.sections
    => Wine_Start \in {resumeAt % Height, (resumeAt + Height - 1) % Height}

=============================================================================
