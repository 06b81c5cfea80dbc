----------------------------- MODULE Dictionary -----------------------------
(***************************************************************************)
(* The dictionary of control_app/dictionary.c: a table of keys, values and *)
(* hashes that every program loads thj.ini into.  Keys and values are      *)
(* model values, dictionary_hash is any function, so that two keys may     *)
(* have one hash, and every allocation may fail.                           *)
(***************************************************************************)
EXTENDS Integers, FiniteSets, FiniteSetsExt

CONSTANTS
    Keys,       \* strings that are looked up
    Values,     \* strings that are stored
    NULL,       \* the null pointer
    Hash,       \* dictionary_hash
    DICTMINSZ,  \* slots of a new dictionary (128 in the code)
    MaxSize     \* bound: a dictionary does not grow beyond it

ASSUME DictAssumption ==
    /\ NULL \notin Keys \cup Values
    /\ Hash \in [Keys -> Nat]
    /\ DICTMINSZ \in Nat \ {0}
    /\ MaxSize \in Nat

VARIABLES
    heap,       \* "none" before dictionary_new, "usable", "unhashed": of the
                \* arrays only hash is null, or "broken": key or val is
    n,          \* number of entries, as it is counted
    size,       \* slots allocated
    key, val, hash

dictionaryVars == <<heap, n, size, key, val, hash>>

Slots == 0..size-1

DictInit ==
    /\ heap = "none"
    /\ n = 0 /\ size = 0
    /\ key = [i \in Slots |-> NULL]
    /\ val = [i \in Slots |-> NULL]
    /\ hash = [i \in Slots |-> 0]

(* dictionary_new(0), the only call of the programs.  The allocations of   *)
(* the arrays are not checked; one of the structure that fails returns     *)
(* NULL and changes nothing.                                               *)
dictionary_new ==
    /\ heap = "none"
    /\ heap' \in {"usable", "unhashed", "broken"}
    /\ n' = 0 /\ size' = DICTMINSZ
    /\ key' = [i \in 0..DICTMINSZ-1 |-> NULL]
    /\ val' = [i \in 0..DICTMINSZ-1 |-> NULL]
    /\ hash' = [i \in 0..DICTMINSZ-1 |-> 0]

(* It reads the keys and the values, and frees the hashes unread.          *)
dictionary_del ==
    /\ heap \in {"usable", "unhashed"}
    /\ heap' = "none"
    /\ n' = 0 /\ size' = 0
    /\ key' = [i \in {} |-> NULL]
    /\ val' = [i \in {} |-> NULL]
    /\ hash' = [i \in {} |-> 0]

(* The slots at which the loops of get, set and unset stop.  The first one *)
(* is the entry.                                                           *)
HashOnly(k) == {i \in Slots : key[i] # NULL /\ hash[i] = Hash[k]}
Matches(k) == {i \in Slots : key[i] = k /\ hash[i] = Hash[k]}

Entry(k) == Min(Matches(k))

dictionary_get(k, def) == IF Matches(k) = {} THEN def ELSE val[Entry(k)]

(* xstrdup returns a copy, or NULL when there is no memory or nothing to   *)
(* copy.                                                                   *)
xstrdup(s) == {s, NULL}

(* dictionary_set looks for the key only in a dictionary that counts an    *)
(* entry.                                                                  *)
FoundFromTwo(k) == n > 1 /\ Matches(k) # {}
Found(k) == n > 0 /\ Matches(k) # {}

SetModify(k, v) ==
    /\ Found(k)
    /\ \E copy \in xstrdup(v) : val' = [val EXCEPT ![Entry(k)] = copy]
    /\ UNCHANGED <<heap, n, size, key, hash>>

(* The first empty slot takes the entry.  Neither copy is checked: without *)
(* its key the slot stays empty, but it is counted.                        *)
FirstEmpty(keys) == Min({i \in DOMAIN keys : keys[i] = NULL})

Insert(k, v, keys, vals, hashes) ==
    LET i == FirstEmpty(keys) IN
    /\ \E copy \in xstrdup(k) : key' = [keys EXCEPT ![i] = copy]
    /\ \E copy \in xstrdup(v) : val' = [vals EXCEPT ![i] = copy]
    /\ hash' = [hashes EXCEPT ![i] = Hash[k]]
    /\ n' = n + 1

GrowWhenOver == n > size
MustGrow == n = size

SizeKept == size
Doubled == 2 * size

SetAdd(k, v) ==
    /\ ~Found(k) /\ ~MustGrow
    /\ Insert(k, v, key, val, hash)
    /\ UNCHANGED <<heap, size>>

mem_double(array, zero) ==
    [i \in 0..2*size-1 |-> IF i < size THEN array[i] ELSE zero]

SetGrow(k, v) ==
    /\ ~Found(k) /\ MustGrow
    /\ 2 * size <= MaxSize
    /\ size' = Doubled
    /\ Insert(k, v, mem_double(key, NULL), mem_double(val, NULL), mem_double(hash, 0))
    /\ UNCHANGED heap

(* The three arrays are doubled one after the other.  Each mem_double may  *)
(* fail, its array is then lost, and the call returns -1 with n and size   *)
(* as they were.  A set after that reads through a null pointer, or fails  *)
(* once more for want of memory and changes nothing.                       *)
SetGrowFails(k) ==
    /\ ~Found(k) /\ MustGrow
    /\ heap' \in {"unhashed", "broken"}
    /\ UNCHANGED <<n, size, key, val, hash>>

dictionary_set(k, v) ==
    /\ heap = "usable"
    /\ SetModify(k, v) \/ SetAdd(k, v) \/ SetGrow(k, v) \/ SetGrowFails(k)

(* A key that is not found is left alone.                                  *)
dictionary_unset(k) ==
    /\ heap = "usable"
    /\ Matches(k) # {}
    /\ key' = [key EXCEPT ![Entry(k)] = NULL]
    /\ val' = [val EXCEPT ![Entry(k)] = NULL]
    /\ hash' = [hash EXCEPT ![Entry(k)] = 0]
    /\ n' = n - 1
    /\ UNCHANGED <<heap, size>>

DictNext ==
    \/ dictionary_new
    \/ dictionary_del
    \/ \E k \in Keys :
          \/ \E v \in Values \cup {NULL} : dictionary_set(k, v)
          \/ dictionary_unset(k)

DictSpec == DictInit /\ [][DictNext]_dictionaryVars

-----------------------------------------------------------------------------

DictTypeOK ==
    /\ heap \in {"none", "usable", "unhashed", "broken"}
    /\ n \in Nat /\ size \in Nat
    /\ key \in [Slots -> Keys \cup {NULL}]
    /\ val \in [Slots -> Values \cup {NULL}]
    /\ hash \in [Slots -> Nat]

UsedSlots == {i \in Slots : key[i] # NULL}

(* dictionary_set takes the first empty slot without a test that there is  *)
(* one (dictionary.c:270-278): a dictionary that does not grow has one,    *)
(* also after copies that failed.                                          *)
SlotLeft == heap = "usable" /\ ~MustGrow => UsedSlots # Slots

(* A key has one slot: dictionary_set finds it also in a dictionary that   *)
(* lost entries, and dictionary_unset leaves none behind                   *)
(* (dictionary.c:237-252, 305-322).                                        *)
OneSlot ==
    \A i, j \in UsedSlots : key[i] = key[j] => i = j

(* What the two need: entries are counted at least once, no more than the  *)
(* table has slots, and an entry has the hash of its key.                  *)
CountInv ==
    /\ Cardinality(UsedSlots) <= n
    /\ n <= size
    /\ heap # "none" => size > 0

HashInv == \A i \in UsedSlots : hash[i] = Hash[key[i]]

DictInv == DictTypeOK /\ CountInv /\ HashInv /\ OneSlot

(* What can be got from the dictionary.                                    *)
Contents ==
    IF heap = "usable"
    THEN [k \in {k \in Keys : Matches(k) # {}} |-> dictionary_get(k, NULL)]
    ELSE [k \in {} |-> NULL]

Map == INSTANCE DictionaryMap WITH usable <- heap = "usable", map <- Contents

(* The table is a map: set, unset and growth change the value of the one   *)
(* key they are given, whatever slot it has and whatever its hash collides *)
(* with (dictionary.c:181-330).                                            *)
MapImplemented == Map!MapSpec

=============================================================================
