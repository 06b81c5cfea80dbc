--------------------------- MODULE DictionaryMap ---------------------------
(***************************************************************************)
(* What a dictionary promises (control_app/dictionary.h and the comments   *)
(* of dictionary.c): a map from keys to values, where a value may be NULL. *)
(* An allocation that fails inside set is not reported: a value that could *)
(* not be copied is NULL, a new key that could not be copied is not there, *)
(* and no other key is concerned.                                          *)
(***************************************************************************)
EXTENDS Functions

CONSTANTS Keys, Values, NULL

VARIABLES
    usable,     \* there is a dictionary, and the last call did not fail
    map         \* the values of the keys in it

mapVars == <<usable, map>>

Nothing == [k \in {} |-> NULL]

MapInit == usable = FALSE /\ map = Nothing

New == ~usable /\ usable' = TRUE /\ map' = Nothing

(* The end of a dictionary, by dictionary_del or by a call that failed.    *)
Drop == usable /\ usable' = FALSE /\ map' = Nothing

With(k, v) ==
    [other \in DOMAIN map \cup {k} |-> IF other = k THEN v ELSE map[other]]

Set(k, v) == usable /\ map' \in {With(k, v), With(k, NULL)} /\ UNCHANGED usable

(* A key that is not in the dictionary is not added for want of memory:    *)
(* nothing changes, which is a stutter.                                    *)

Unset(k) ==
    /\ usable
    /\ k \in DOMAIN map
    /\ map' = Restrict(map, DOMAIN map \ {k})
    /\ UNCHANGED usable

MapNext ==
    \/ New \/ Drop
    \/ \E k \in Keys : Unset(k) \/ \E v \in Values \cup {NULL} : Set(k, v)

MapSpec == MapInit /\ [][MapNext]_mapVars

=============================================================================
