------------------------------ MODULE IniProofs ------------------------------
(***************************************************************************)
(* Theorems about the ini parser, for any files, keys and values and any   *)
(* allocations that fail: a program that loads a file, sets some keys and  *)
(* dumps it changes what the file means in these keys only, and one that   *)
(* sets nothing gives a file that was dumped before back line by line.     *)
(* The parts about sequences, files and blocks of lines are about the      *)
(* operators the model is built from, and use induction in the form of a   *)
(* set that contains 0 and with each number the next.                      *)
(***************************************************************************)
EXTENDS IniParser, DictionaryProofs, SequenceTheorems

LEMMA SetInduction ==
    ASSUME NEW S, 0 \in S, \A m \in Nat : m \in S => m + 1 \in S
    PROVE  \A m \in Nat : m \in S
<1> DEFINE D == Nat \ S
<1> SUFFICES ASSUME D # {} PROVE FALSE
  OBVIOUS
<1>1. Min(D) \in D /\ \A y \in D : Min(D) <= y
  BY MinExists
<1> DEFINE m == Min(D)
<1>2. m \in Nat /\ m \notin S /\ m # 0 /\ \A y \in D : m <= y
  BY <1>1
<1> HIDE DEF m
<1>3. m - 1 \in Nat /\ m - 1 \notin D
  BY <1>2
<1>4. (m - 1) + 1 \in S
  BY <1>3
<1> QED BY <1>2, <1>4

LEMMA MaxIs ==
    ASSUME NEW S, S \subseteq Nat, NEW m \in S, \A y \in S : y <= m
    PROVE  Max(S) = m
<1>1. \A x \in S : (\A y \in S : x >= y) => x = m
  BY SMT
<1>2. \A y \in S : m >= y
  BY SMT
<1> QED BY <1>1, <1>2 DEF Max

LEMMA MaxExists ==
    ASSUME NEW S, S \subseteq Nat, S # {},
           NEW bound \in Nat, \A y \in S : y <= bound
    PROVE  Max(S) \in S /\ \A y \in S : y <= Max(S)
<1> DEFINE D == {d \in Nat : bound - d \in S}
           m == Min(D)
<1>1. PICK x \in S : TRUE
  OBVIOUS
<1>2. bound - x \in D
  <2>1. bound - x \in Nat /\ bound - (bound - x) = x
    OBVIOUS
  <2> QED BY <2>1
<1>3. m \in D /\ \A y \in D : m <= y
  BY <1>2, MinExists
<1>4. bound - m \in S /\ m \in Nat
  BY <1>3
<1>5. ASSUME NEW y \in S PROVE y <= bound - m
  <2>1. bound - y \in Nat /\ bound - (bound - y) = y
    OBVIOUS
  <2>2. bound - y \in D
    BY <2>1
  <2>3. m <= bound - y
    BY <1>3, <2>2
  <2> HIDE DEF m
  <2> QED BY <1>4, <2>1, <2>3
<1> HIDE DEF m
<1> QED BY <1>4, <1>5, MaxIs

-----------------------------------------------------------------------------
(* The order of a loop over the slots. *)

Below(T, slot) == {other \in T : other < slot}

LEMMA BelowGrows ==
    ASSUME NEW T, T \subseteq Nat, IsFiniteSet(T), NEW x \in Nat
    PROVE  /\ IsFiniteSet(Below(T, x)) /\ Cardinality(Below(T, x)) \in Nat
           /\ Cardinality(Below(T, x + 1))
                 = Cardinality(Below(T, x)) + (IF x \in T THEN 1 ELSE 0)
           /\ \A y \in T : x < y /\ x \in T
                 => Cardinality(Below(T, x)) < Cardinality(Below(T, y))
           /\ x \in T => Cardinality(Below(T, x)) < Cardinality(T)
<1>0. \A other \in T : /\ other < x + 1 <=> other < x \/ other = x
                       /\ ~(other < other)
  BY SMT
<1>1. IsFiniteSet(Below(T, x)) /\ Below(T, x) \subseteq T
  BY FS_Subset DEF Below
<1>2. Cardinality(Below(T, x)) \in Nat
  BY <1>1, FS_CardinalityType
<1>3. CASE x \notin T
  <2>1. Below(T, x + 1) = Below(T, x)
    BY <1>0, <1>3, Zenon DEF Below
  <2> QED BY <1>1, <1>2, <1>3, <2>1
<1>4. CASE x \in T
  <2>1. Below(T, x + 1) = Below(T, x) \cup {x} /\ x \notin Below(T, x)
    BY <1>0, <1>4, Zenon DEF Below
  <2>2. Cardinality(Below(T, x + 1)) = Cardinality(Below(T, x)) + 1
    BY <1>1, <2>1, FS_AddElement
  <2>3. ASSUME NEW U, U \subseteq T, Below(T, x + 1) \subseteq U
        PROVE  Cardinality(Below(T, x)) < Cardinality(U)
    <3>1. IsFiniteSet(U)
      BY FS_Subset, <2>3
    <3>2. Cardinality(Below(T, x + 1)) <= Cardinality(U)
      BY <2>3, <3>1, FS_Subset
    <3>3. Cardinality(U) \in Nat
      BY <3>1, FS_CardinalityType
    <3> QED BY <1>2, <2>2, <3>2, <3>3
  <2>4. ASSUME NEW y \in T, x < y
        PROVE  Cardinality(Below(T, x)) < Cardinality(Below(T, y))
    <3>1. \A other \in T : other < x + 1 => other < y
      BY <2>4, SMT
    <3>2. Below(T, y) \subseteq T /\ Below(T, x + 1) \subseteq Below(T, y)
      BY <3>1, Zenon DEF Below
    <3> QED BY <2>3, <3>2
  <2>5. Cardinality(Below(T, x)) < Cardinality(T)
    <3>1. Below(T, x + 1) \subseteq T
      BY DEF Below
    <3> QED BY <2>3, <3>1
  <2> QED BY <1>1, <1>2, <1>4, <2>2, <2>4, <2>5
<1> QED BY <1>3, <1>4

(* InOrder lists every slot of the set once, in ascending order. *)
LEMMA InOrderLists ==
    ASSUME NEW T, NEW m \in Nat, T \subseteq 0..m-1
    PROVE  /\ Cardinality(T) \in Nat
           /\ InOrder(T) \in [1..Cardinality(T) -> T]
           /\ \A t \in T : \E i \in 1..Cardinality(T) : InOrder(T)[i] = t
           /\ \A i, j \in 1..Cardinality(T) :
                 i < j => InOrder(T)[i] < InOrder(T)[j]
<1> DEFINE rank(x) == Cardinality(Below(T, x))
           card == Cardinality(T)
<1>0. T \subseteq Nat
  OBVIOUS
<1>1. IsFiniteSet(T) /\ card \in Nat
  <2>1. IsFiniteSet(0..m-1)
    BY FS_Interval
  <2>2. IsFiniteSet(T)
    BY <2>1, FS_Subset
  <2> QED BY <2>2, FS_CardinalityType
<1>2. \A x \in Nat : /\ rank(x) \in Nat
                     /\ rank(x + 1) = rank(x) + (IF x \in T THEN 1 ELSE 0)
                     /\ \A y \in T : x < y /\ x \in T => rank(x) < rank(y)
                     /\ x \in T => rank(x) < card
  BY <1>0, <1>1, BelowGrows
<1>3. rank(0) = 0 /\ rank(m) = card
  <2>0. \A other \in T : ~(other < 0) /\ other < m
    BY SMT
  <2>1. Below(T, 0) = {} /\ Below(T, m) = T
    BY <2>0, Zenon DEF Below
  <2> QED BY <2>1, FS_EmptySet
<1>4. InOrder(T) = [i \in 1..card |-> CHOOSE x \in T : rank(x) = i - 1]
  BY DEF InOrder, Below
<1> HIDE DEF rank, card
<1>5. ASSUME NEW i \in 1..card PROVE \E x \in T : rank(x) = i - 1
  <2> DEFINE D == {x \in Nat : rank(x) >= i}
             x == Min(D) - 1
  <2>1. m \in D
    BY <1>1, <1>3
  <2>2. Min(D) \in D /\ \A y \in D : Min(D) <= y
    BY <2>1, MinExists
  <2>3. x \in Nat /\ rank(x + 1) >= i
    BY <1>3, <2>2
  <2>4. x \notin D
    BY <2>2
  <2> HIDE DEF x, D
  <2>5. rank(x) < i /\ rank(x) \in Nat
    BY <1>2, <2>3, <2>4 DEF D
  <2>6. rank(x + 1) = rank(x) + (IF x \in T THEN 1 ELSE 0)
    BY <1>2, <2>3
  <2>7. x \in T /\ rank(x) = i - 1
    BY <2>3, <2>5, <2>6
  <2> QED BY <2>7
<1>6. ASSUME NEW i \in 1..card
      PROVE  InOrder(T)[i] \in T /\ rank(InOrder(T)[i]) = i - 1
  BY <1>4, <1>5
<1>7. ASSUME NEW t \in T PROVE \E i \in 1..card : InOrder(T)[i] = t
  <2> DEFINE i == rank(t) + 1
  <2>1. i \in 1..card
    BY <1>1, <1>2
  <2>2. InOrder(T)[i] \in T /\ rank(InOrder(T)[i]) = rank(t)
    <3>1. i - 1 = rank(t)
      BY <1>1, <1>2
    <3> HIDE DEF i
    <3> QED BY <1>6, <2>1, <3>1
  <2>3. InOrder(T)[i] \in Nat /\ t \in Nat
    BY <1>0, <2>2
  <2>4. /\ ~(InOrder(T)[i] < t) /\ ~(t < InOrder(T)[i])
    <3>1. \A x, y \in T : x < y => rank(x) < rank(y)
      BY <1>0, <1>2
    <3>2. ~(rank(t) < rank(t))
      <4>1. rank(t) \in Nat
        BY <1>2, <2>3
      <4> QED BY <4>1
    <3> QED BY <2>2, <3>1, <3>2, Zenon
  <2>5. InOrder(T)[i] = t
    BY <2>3, <2>4
  <2> QED BY <2>1, <2>5
<1>8. ASSUME NEW i \in 1..card, NEW j \in 1..card, i < j
      PROVE  InOrder(T)[i] < InOrder(T)[j]
  <2> DEFINE a == InOrder(T)[i]
             b == InOrder(T)[j]
  <2>1. a \in T /\ b \in T /\ rank(a) = i - 1 /\ rank(b) = j - 1
    BY <1>6
  <2> HIDE DEF a, b
  <2>2. a \in Nat /\ b \in Nat
    BY <1>0, <2>1
  <2>3. rank(a) < rank(b)
    BY <1>1, <1>8, <2>1
  <2>4. a # b
    BY <1>1, <2>1, <2>3
  <2>5. ~(b < a)
    <3>1. b < a => rank(b) < rank(a)
      BY <1>2, <2>1, <2>2
    <3> QED BY <1>1, <1>8, <2>1, <3>1
  <2>6. a < b
    BY <2>2, <2>4, <2>5
  <2> QED BY <2>6 DEF a, b
<1>9. InOrder(T) \in [1..card -> T]
  BY <1>4, <1>6
<1> QED BY <1>1, <1>7, <1>8, <1>9 DEF card

-----------------------------------------------------------------------------
(* Sequences. *)

(* A concatenation has the one and then the other. *)
LEMMA FirstPart ==
    ASSUME NEW T, NEW a \in Seq(T), NEW b \in Seq(T)
    PROVE  /\ a \o b \in Seq(T) /\ Len(a \o b) = Len(a) + Len(b)
           /\ \A i \in 1..Len(a) : (a \o b)[i] = a[i]
  OBVIOUS

LEMMA SecondPart ==
    ASSUME NEW T, NEW a \in Seq(T), NEW b \in Seq(T)
    PROVE  \A i \in 1..Len(b) : (a \o b)[Len(a) + i] = b[i]
  OBVIOUS

LEMMA FunctionIsSeq ==
    ASSUME NEW T, NEW c \in Nat, NEW f \in [1..c -> T]
    PROVE  f \in Seq(T) /\ Len(f) = c
  OBVIOUS

LEMMA TailOfLong ==
    ASSUME NEW T, NEW k \in Seq(T), Len(k) > 1
    PROVE  /\ Tail(k) \in Seq(T) \ {<<>>}
           /\ <<k[1]>> \o Tail(k) = k
<1>1. Tail(k) \in Seq(T) /\ Len(Tail(k)) = Len(k) - 1
  OBVIOUS
<1>2. Tail(k) # <<>>
  <2>1. Len(Tail(k)) # 0
    BY <1>1
  <2> QED BY <2>1, EmptySeq
<1>3. <<Head(k)>> \o Tail(k) = k /\ Head(k) = k[1]
  OBVIOUS
<1> QED BY <1>1, <1>2, <1>3

-----------------------------------------------------------------------------
(* FlattenSeq appends one sequence after the other. *)

Joins(join, parts, T, m) ==
    /\ join \in [1..m -> Seq(T)]
    /\ \A i \in 1..m :
          join[i] = IF i = 1 THEN parts[i] ELSE join[i-1] \o parts[i]

LEMMA JoinsExist ==
    ASSUME NEW T, NEW parts \in Seq(Seq(T))
    PROVE  \E join : Joins(join, parts, T, Len(parts))
<1> DEFINE S == {m \in Nat : m <= Len(parts)
                                => \E join : Joins(join, parts, T, m)}
<1>1. 0 \in S
  <2>1. Joins([i \in 1..0 |-> <<>>], parts, T, 0)
    BY DEF Joins
  <2> QED BY <2>1
<1>2. ASSUME NEW m \in Nat, m \in S, m + 1 <= Len(parts)
      PROVE  \E join : Joins(join, parts, T, m + 1)
  <2>1. m <= Len(parts)
    BY <1>2
  <2>2. PICK join : Joins(join, parts, T, m)
    BY <1>2, <2>1
  <2> DEFINE part == IF m = 0 THEN parts[1] ELSE join[m] \o parts[m+1]
             more == [i \in 1..m+1 |-> IF i = m + 1 THEN part ELSE join[i]]
  <2>3. part \in Seq(T)
    <3>1. parts[m+1] \in Seq(T) /\ parts[1] \in Seq(T)
      BY <1>2
    <3>2. m # 0 => join[m] \in Seq(T)
      BY <2>2 DEF Joins
    <3> QED BY <3>1, <3>2
  <2>4. \A i \in 1..m+1 :
           more[i] = IF i = 1 THEN parts[i] ELSE more[i-1] \o parts[i]
    <3>1. \A i \in 1..m : more[i] = join[i]
      OBVIOUS
    <3>2. more[m+1] = part
      OBVIOUS
    <3> HIDE DEF more
    <3>3. ASSUME NEW i \in 1..m
          PROVE  more[i] = IF i = 1 THEN parts[i] ELSE more[i-1] \o parts[i]
      <4>1. i # 1 => i - 1 \in 1..m
        OBVIOUS
      <4> QED BY <2>2, <3>1, <4>1 DEF Joins
    <3>4. more[m+1] = IF m + 1 = 1 THEN parts[m+1] ELSE more[(m+1)-1] \o parts[m+1]
      <4>1. m # 0 => m \in 1..m /\ (m + 1) - 1 = m
        OBVIOUS
      <4> QED BY <3>1, <3>2, <4>1
    <3>5. \A i \in 1..m+1 : i \in 1..m \/ i = m + 1
      OBVIOUS
    <3> QED BY <3>3, <3>4, <3>5
  <2>5. more \in [1..m+1 -> Seq(T)]
    <3> HIDE DEF part
    <3> QED BY <2>2, <2>3 DEF Joins
  <2> HIDE DEF more
  <2>6. Joins(more, parts, T, m + 1)
    BY <2>4, <2>5 DEF Joins
  <2> QED BY <2>6
<1>3. ASSUME NEW m \in Nat, m \in S PROVE m + 1 \in S
  <2>1. m + 1 <= Len(parts) => \E join : Joins(join, parts, T, m + 1)
    BY <1>2, <1>3, Zenon
  <2>2. m + 1 \in Nat
    OBVIOUS
  <2> QED BY <2>1, <2>2, Zenon
<1> HIDE DEF S
<1>4. Len(parts) \in S
  BY <1>1, <1>3, SetInduction
<1> QED BY <1>4 DEF S

LEMMA Flattens ==
    ASSUME NEW T, NEW parts \in Seq(Seq(T)), Len(parts) # 0
    PROVE  \E join : /\ Joins(join, parts, T, Len(parts))
                     /\ FlattenSeq(parts) = join[Len(parts)]
<1> DEFINE m == Len(parts)
           Def(join) == join = [i \in 1..m |-> IF i = 1 THEN parts[i]
                                    ELSE join[i-1] \o parts[i]]
           flat == CHOOSE join : Def(join)
<1>1. PICK join : Joins(join, parts, T, m)
  BY JoinsExist
<1>2. Def(join)
  BY <1>1 DEF Joins
<1>3. Def(flat)
  BY <1>2
<1>4. FlattenSeq(parts) = flat[m]
  BY DEF FlattenSeq
<1> HIDE DEF flat
<1>5. \A i \in 1..m : flat[i] = IF i = 1 THEN parts[i]
                                ELSE flat[i-1] \o parts[i]
  BY <1>3
<1> DEFINE S == {i \in Nat : i + 1 \in 1..m => flat[i+1] \in Seq(T)}
<1>6. 0 \in S
  BY <1>5
<1>7. ASSUME NEW i \in Nat, i \in S PROVE i + 1 \in S
  <2> DEFINE j == (i + 1) + 1
  <2> SUFFICES ASSUME j \in 1..m PROVE flat[j] \in Seq(T)
    OBVIOUS
  <2>1. j # 1 /\ j - 1 = i + 1 /\ i + 1 \in 1..m
    OBVIOUS
  <2>2. flat[i+1] \in Seq(T)
    BY <1>7, <2>1
  <2>3. parts[j] \in Seq(T)
    OBVIOUS
  <2> HIDE DEF j
  <2>4. flat[j] = flat[j-1] \o parts[j]
    BY <1>5, <2>1
  <2>5. flat[i+1] \o parts[j] \in Seq(T)
    BY <2>2, <2>3
  <2> QED BY <2>1, <2>4, <2>5
<1> HIDE DEF S
<1>8. \A i \in Nat : i \in S
  BY <1>6, <1>7, SetInduction
<1>9. ASSUME NEW i \in 1..m PROVE flat[i] \in Seq(T)
  <2>1. i - 1 \in Nat /\ (i - 1) + 1 = i
    OBVIOUS
  <2> QED BY <1>8, <2>1 DEF S
<1>10. flat \in [1..m -> Seq(T)]
  BY <1>3, <1>9
<1>11. Joins(flat, parts, T, m)
  BY <1>5, <1>10 DEF Joins
<1> QED BY <1>4, <1>11

-----------------------------------------------------------------------------
(* What a file means, line by line. *)

LEMMA SectionStep ==
    ASSUME NEW lines, NEW i \in Nat
    PROVE  /\ SectionAt(lines, 0) = NoSection
           /\ SectionAt(lines, i + 1) =
                 IF lines[i+1].kind = "section" THEN lines[i+1].key
                                                ELSE SectionAt(lines, i)
<1> DEFINE Heads(m) == {j \in 1..m : lines[j].kind = "section"}
<1>1. \A m : SectionAt(lines, m) = IF Heads(m) = {} THEN NoSection
                                   ELSE lines[Max(Heads(m))].key
  BY DEF SectionAt
<1>2. Heads(0) = {}
  OBVIOUS
<1>3. CASE lines[i+1].kind = "section"
  <2>1. i + 1 \in Heads(i + 1)
    BY <1>3
  <2>2. Heads(i + 1) \subseteq Nat /\ \A y \in Heads(i + 1) : y <= i + 1
    OBVIOUS
  <2> HIDE DEF Heads
  <2>3. Max(Heads(i + 1)) = i + 1
    BY <2>1, <2>2, MaxIs
  <2> QED BY <1>1, <1>2, <1>3, <2>1, <2>3
<1>4. CASE lines[i+1].kind # "section"
  <2>1. \A j : j \in 1..i+1 <=> j \in 1..i \/ j = i + 1
    OBVIOUS
  <2>2. Heads(i + 1) = Heads(i)
    BY <1>4, <2>1, Zenon
  <2> HIDE DEF Heads
  <2> QED BY <1>1, <1>2, <1>4, <2>2
<1> QED BY <1>3, <1>4

LEMMA SectionOfPrefix ==
    ASSUME NEW a, NEW b, NEW i \in Nat, \A j \in 1..i : a[j] = b[j]
    PROVE  SectionAt(a, i) = SectionAt(b, i)
<1> DEFINE A == {j \in 1..i : a[j].kind = "section"}
           B == {j \in 1..i : b[j].kind = "section"}
<1>1. A = B
  OBVIOUS
<1>2. /\ SectionAt(a, i) = IF A = {} THEN NoSection ELSE a[Max(A)].key
      /\ SectionAt(b, i) = IF B = {} THEN NoSection ELSE b[Max(B)].key
  BY DEF SectionAt
<1>3. A # {} => Max(A) \in 1..i
  <2>1. A \subseteq Nat /\ \A y \in A : y <= i
    OBVIOUS
  <2>2. A # {} => Max(A) \in A
    <3> HIDE DEF A
    <3> QED BY <2>1, MaxExists
  <2> QED BY <2>2
<1> HIDE DEF A, B
<1> QED BY <1>1, <1>2, <1>3

LEMMA MeaningStep ==
    ASSUME NEW lines, NEW i \in Nat
    PROVE  /\ MeaningUpTo(lines, 0) = [k \in {} |-> NULL]
           /\ MeaningUpTo(lines, i + 1) =
                 IF i + 1 \in GoodLines(lines)
                 THEN Store(MeaningUpTo(lines, i), KeyAt(lines, i + 1),
                            lines[i+1].val)
                 ELSE MeaningUpTo(lines, i)
<1> DEFINE Good(m) == GoodLines(lines) \cap 1..m
           With(m, k) == {j \in Good(m) : KeyAt(lines, j) = k}
           Keyed(m) == {KeyAt(lines, j) : j \in Good(m)}
           new == KeyAt(lines, i + 1)
<1>1. \A m : MeaningUpTo(lines, m)
                = [k \in Keyed(m) |-> lines[Max(With(m, k))].val]
  BY DEF MeaningUpTo
<1>2. Keyed(0) = {}
  OBVIOUS
<1>3. \A j : j \in 1..i+1 <=> j \in 1..i \/ j = i + 1
  OBVIOUS
<1>4. CASE i + 1 \notin GoodLines(lines)
  <2>1. Good(i + 1) = Good(i)
    BY <1>3, <1>4, Zenon
  <2>2. Keyed(i + 1) = Keyed(i) /\ \A k : With(i + 1, k) = With(i, k)
    BY <2>1
  <2> HIDE DEF Keyed, With
  <2> QED BY <1>1, <1>2, <1>4, <2>2
<1>5. CASE i + 1 \in GoodLines(lines)
  <2>1. \A j : j \in Good(i + 1) <=> j \in Good(i) \/ j = i + 1
    BY <1>3, <1>5
  <2>2. \A k : k # new => With(i + 1, k) = With(i, k)
    <3> HIDE DEF Good
    <3> QED BY <2>1
  <2>3. Keyed(i + 1) = Keyed(i) \cup {new}
    <3> HIDE DEF Good
    <3> QED BY <2>1
  <2>4. Max(With(i + 1, new)) = i + 1
    <3>1. i + 1 \in With(i + 1, new)
      BY <2>1
    <3>2. With(i + 1, new) \subseteq Nat
          /\ \A y \in With(i + 1, new) : y <= i + 1
      OBVIOUS
    <3> HIDE DEF With
    <3> QED BY <3>1, <3>2, MaxIs
  <2> HIDE DEF Keyed, With, new
  <2>5. MeaningUpTo(lines, i + 1)
           = [k \in Keyed(i) \cup {new} |->
                 IF k = new THEN lines[i+1].val
                 ELSE lines[Max(With(i, k))].val]
    BY <1>1, <2>2, <2>3, <2>4
  <2>6. Store(MeaningUpTo(lines, i), new, lines[i+1].val)
           = [k \in Keyed(i) \cup {new} |->
                 IF k = new THEN lines[i+1].val
                 ELSE lines[Max(With(i, k))].val]
    BY <1>1 DEF Store
  <2> QED BY <1>1, <1>2, <1>5, <2>5, <2>6 DEF new
<1> QED BY <1>4, <1>5

(* A file whose lines all tell the truth about a map, and all of it, means *)
(* this map.                                                               *)
LEMMA MeaningIs ==
    ASSUME NEW lines \in Seq(IniLine), NEW map,
           map = [k \in DOMAIN map |-> map[k]],
           \A j \in GoodLines(lines) : /\ KeyAt(lines, j) \in DOMAIN map
                                       /\ lines[j].val = map[KeyAt(lines, j)],
           \A k \in DOMAIN map : \E j \in GoodLines(lines) : KeyAt(lines, j) = k
    PROVE  Meaning(lines) = map
<1> DEFINE m == Len(lines)
           Good == GoodLines(lines) \cap 1..m
           With(k) == {j \in Good : KeyAt(lines, j) = k}
           Keyed == {KeyAt(lines, j) : j \in Good}
<1>1. Meaning(lines) = [k \in Keyed |-> lines[Max(With(k))].val]
  BY DEF Meaning, MeaningUpTo
<1>2. m \in Nat /\ Good = GoodLines(lines)
  BY DEF GoodLines
<1>3. Keyed = DOMAIN map
  BY <1>2
<1>4. ASSUME NEW k \in DOMAIN map PROVE lines[Max(With(k))].val = map[k]
  <2>1. With(k) # {}
    BY <1>2
  <2>2. With(k) \subseteq Nat /\ \A y \in With(k) : y <= m
    OBVIOUS
  <2>3. Max(With(k)) \in With(k)
    <3> HIDE DEF With, m
    <3> QED BY <1>2, <2>1, <2>2, MaxExists
  <2> QED BY <1>2, <2>3
<1> HIDE DEF Keyed, With
<1> QED BY <1>1, <1>3, <1>4

-----------------------------------------------------------------------------
(* The lines of a file that is read, and of one that is dumped. *)

LEMMA LineTypes ==
    /\ NoLine \in IniLine /\ BlankLine \in IniLine
    /\ \A k \in Seq(Words) \ {<<>>} : SectionLine(k) \in IniLine
    /\ \A k \in Seq(Words) \ {<<>>}, v \in Values \cup {NULL} :
          ValueLine(k, v) \in IniLine
  BY DEF NoLine, BlankLine, SectionLine, ValueLine, Line, IniLine

LEMMA JoinedTypes ==
    ASSUME NEW first \in IniLine, NEW next \in IniLine
    PROVE  /\ Joined(first, next) \in IniLine
           /\ Joined(first, next).more = next.more
           /\ \/ /\ Joined(first, next).kind = first.kind
                 /\ Joined(first, next).key = first.key
              \/ Joined(first, next) = next
           /\ Joined(NoLine, next) = next
<1>1. Continued \in Values
  BY IniAssumption
<1> QED BY <1>1 DEF Joined, IniLine, NoLine, BlankLine, Line

(* What a line becomes is a line; one that cannot be a section stays as it *)
(* is, and so does one that is joined to such a line.                      *)
LEMMA BecomingTypes ==
    ASSUME NEW line \in IniLine
    PROVE  /\ Becoming(line) \subseteq IniLine
           /\ ~MayBeSection(line) => Becoming(line) = {line}
           /\ ~MayBeSection(line) => line.kind # "section"
<1>1. CASE line.kind \in {"section", "error"} /\ line.key # <<>>
  <2> DEFINE as(kind) == [line EXCEPT !.kind = kind, !.val = NULL]
  <2>1. Becoming(line) = {as(kind) : kind \in {"section", "value", "error"}}
    BY <1>1 DEF Becoming
  <2>2. as("section").kind = "section"
    BY DEF IniLine
  <2>3. MayBeSection(line)
    BY <2>1, <2>2 DEF MayBeSection
  <2>4. \A kind \in {"section", "value", "error"} : as(kind) \in IniLine
    BY <1>1 DEF IniLine
  <2> QED BY <2>1, <2>3, <2>4
<1>2. CASE ~(line.kind \in {"section", "error"} /\ line.key # <<>>)
  <2>1. Becoming(line) = {line}
    BY <1>2 DEF Becoming
  <2>2. line.kind # "section"
    BY <1>2 DEF IniLine
  <2> QED BY <2>1, <2>2
<1> QED BY <1>1, <1>2

LEMMA NoLineNoSection == ~MayBeSection(NoLine)
<1>1. NoLine.kind = "blank"
  BY DEF NoLine, BlankLine, Line
<1>2. Becoming(NoLine) = {NoLine}
  BY <1>1 DEF Becoming
<1> QED BY <1>1, <1>2 DEF MayBeSection

LEMMA JoinedNoSection ==
    ASSUME NEW first \in IniLine, NEW next \in IniLine,
           ~MayBeSection(first), ~MayBeSection(next)
    PROVE  ~MayBeSection(Joined(first, next))
<1> DEFINE line == Joined(first, next)
<1>1. CASE line = next
  BY <1>1
<1>2. CASE line.kind = first.kind /\ line.key = first.key
  <2>1. ~(first.kind \in {"section", "error"} /\ first.key # <<>>)
    <3>1. CASE first.kind \in {"section", "error"} /\ first.key # <<>>
      <4> DEFINE head == [first EXCEPT !.kind = "section", !.val = NULL]
      <4>1. head \in Becoming(first) /\ head.kind = "section"
        BY <3>1 DEF Becoming, IniLine
      <4> QED BY <4>1 DEF MayBeSection
    <3> QED BY <3>1
  <2>2. Becoming(line) = {line}
    BY <1>2, <2>1 DEF Becoming
  <2>3. line.kind # "section"
    BY <1>2, BecomingTypes
  <2> QED BY <2>2, <2>3 DEF MayBeSection
<1> QED BY <1>1, <1>2, JoinedTypes

LEMMA ReadingLine ==
    ASSUME ParserTypeOK, Reading
    PROVE  /\ lineno + 1 \in DOMAIN file /\ lineno + 1 \in 1..Len(file)
           /\ file[lineno + 1] \in IniLine
           /\ ThisLine \in IniLine
           /\ ThisLine.more = file[lineno + 1].more
           /\ last = NoLine => ThisLine = file[lineno + 1]
           /\ ipc = "reading" /\ errs >= 0
<1>1. lineno + 1 \in DOMAIN file /\ file[lineno + 1] \in IniLine
      /\ lineno + 1 \in 1..Len(file)
  BY DEF ParserTypeOK, Reading
<1> QED BY <1>1, JoinedTypes DEF ParserTypeOK, ThisLine, Reading

LEMMA PrintedTypes ==
    ASSUME NEW v \in Values \cup {NULL}, NEW null \in Values
    PROVE  Printed(v, null) \in Values
  BY IniAssumption DEF Printed

LEMMA UsedTypes ==
    ASSUME DictInv
    PROVE  /\ UsedSlots \subseteq 0..size-1 /\ size \in Nat
           /\ \A i \in UsedSlots : /\ key[i] \in Keys
                                   /\ key[i] \in Seq(Words) \ {<<>>}
                                   /\ val[i] \in Values \cup {NULL}
  BY IniAssumption DEF DictInv, DictTypeOK, UsedSlots, Slots

(* InOrder over some of the slots in use.                                  *)
LEMMA SomeInOrder ==
    ASSUME DictInv, NEW T, T \subseteq UsedSlots
    PROVE  /\ Cardinality(T) \in Nat
           /\ InOrder(T) \in Seq(T) /\ Len(InOrder(T)) = Cardinality(T)
           /\ DOMAIN InOrder(T) = 1..Cardinality(T)
           /\ \A i \in DOMAIN InOrder(T) : InOrder(T)[i] \in T
           /\ \A t \in T : \E i \in DOMAIN InOrder(T) : InOrder(T)[i] = t
<1>1. size \in Nat /\ T \subseteq 0..size-1
  BY UsedTypes
<1>2. /\ Cardinality(T) \in Nat
      /\ InOrder(T) \in [1..Cardinality(T) -> T]
      /\ \A t \in T : \E i \in 1..Cardinality(T) : InOrder(T)[i] = t
  BY <1>1, InOrderLists
<1> QED BY <1>2

(* A key lies in the section of its first part. *)
LEMMA SectionOfKey ==
    ASSUME NEW k \in Seq(Words) \ {<<>>}, NEW s \in Seq(Words), Len(s) = 1
    PROVE  InSection(k, s) <=> Len(k) > 1 /\ s = <<k[1]>>
<1>1. k \in Seq(Words) /\ Len(k) \in Nat /\ Len(k) # 0
  BY EmptySeq
<1>2. SubSeq(s, 1, 1) = s /\ s = <<s[1]>>
  OBVIOUS
<1>3. SubSeq(k, 1, 1) = <<k[1]>>
  <2> DEFINE first == SubSeq(k, 1, 1)
  <2>1. first \in Seq(Words) /\ Len(first) = 1 /\ first[1] = k[1]
    BY <1>1
  <2> HIDE DEF first
  <2>2. first = <<first[1]>>
    BY <2>1
  <2> QED BY <2>1, <2>2, Zenon DEF first
<1>4. InSection(k, s) <=> 1 <= Len(k) /\ s = <<k[1]>> /\ s # k
  BY <1>2, <1>3 DEF InSection, IsStrictPrefix, IsPrefix
<1>5. Len(k) = 1 => k = <<k[1]>>
  BY <1>1
<1>6. s = k => Len(k) = 1
  BY Zenon
<1> QED BY <1>1, <1>4, <1>5, <1>6

Inside(s) == {i \in UsedSlots : InSection(key[i], s)}

Heads == {i \in UsedSlots : IsSection(key[i])}

LEMMA Block ==
    ASSUME DictInv, NEW i \in Heads
    PROVE  LET s == key[i]
               inside == InOrder(Inside(s))
               block == DumpSection(s)
           IN  /\ block \in Seq(IniLine)
               /\ Len(block) = Len(inside) + 2
               /\ block[1] = BlankLine
               /\ block[2] = SectionLine(s)
               /\ \A j \in DOMAIN inside :
                     block[j + 2] = ValueLine(Tail(key[inside[j]]),
                                              Printed(val[inside[j]], Empty))
<1> DEFINE s == key[i]
           inside == InOrder(Inside(s))
           values == [j \in DOMAIN inside |->
                         ValueLine(Tail(key[inside[j]]),
                                   Printed(val[inside[j]], Empty))]
           top == <<BlankLine, SectionLine(s)>>
<1>1. s \in Seq(Words) \ {<<>>} /\ Len(s) = 1
  BY UsedTypes DEF Heads, IsSection
<1>2. /\ inside \in Seq(Inside(s))
      /\ \A j \in DOMAIN inside : inside[j] \in Inside(s)
  <2>1. Inside(s) \subseteq UsedSlots
    BY DEF Inside
  <2> HIDE DEF s
  <2> QED BY <2>1, SomeInOrder
<1>3. ASSUME NEW j \in DOMAIN inside
      PROVE  values[j] \in IniLine
  <2>1. /\ inside[j] \in UsedSlots
        /\ InSection(key[inside[j]], s)
    BY <1>2 DEF Inside
  <2> DEFINE k == key[inside[j]]
             v == val[inside[j]]
  <2>2. k \in Seq(Words) /\ v \in Values \cup {NULL}
    BY <2>1, UsedTypes
  <2> HIDE DEF s
  <2>3. Len(k) > 1
    <3>1. k # <<>>
      BY <2>1, UsedTypes
    <3> HIDE DEF k
    <3> QED BY <1>1, <2>1, <2>2, <3>1, SectionOfKey DEF k
  <2>4. Tail(k) \in Seq(Words) \ {<<>>}
    <3> HIDE DEF k
    <3> QED BY <2>2, <2>3, TailOfLong
  <2>5. Printed(v, Empty) \in Values
    BY <2>2, PrintedTypes, IniAssumption
  <2>6. values[j] = ValueLine(Tail(k), Printed(v, Empty))
    OBVIOUS
  <2> HIDE DEF k, v, values
  <2> QED BY <2>4, <2>5, <2>6, LineTypes
<1>4. DumpSection(s) = top \o values
  BY DEF DumpSection, Inside
<1> HIDE DEF s
<1>5. top \in Seq(IniLine) /\ Len(top) = 2
      /\ top[1] = BlankLine /\ top[2] = SectionLine(s)
  BY <1>1, LineTypes
<1>6. DOMAIN inside = 1..Len(inside) /\ Len(inside) \in Nat
  BY <1>2
<1>7. values \in Seq(IniLine) /\ Len(values) = Len(inside)
  <2> DEFINE c == Len(inside)
  <2>1. values = [j \in 1..c |-> values[j]]
    BY <1>6
  <2>2. \A j \in 1..c : values[j] \in IniLine
    BY <1>3, <1>6
  <2>3. c \in Nat
    BY <1>6
  <2>4. values \in [1..c -> IniLine]
    <3> HIDE DEF c, values
    <3> QED BY <2>1, <2>2
  <2> HIDE DEF c, values
  <2>5. values \in Seq(IniLine) /\ Len(values) = c
    BY <2>3, <2>4, FunctionIsSeq
  <2> QED BY <2>5 DEF c
<1>8. \A j \in DOMAIN inside :
         values[j] = ValueLine(Tail(key[inside[j]]),
                               Printed(val[inside[j]], Empty))
  OBVIOUS
<1> HIDE DEF inside, values, top
<1>9. /\ top \o values \in Seq(IniLine)
      /\ Len(top \o values) = Len(top) + Len(values)
      /\ \A j \in 1..Len(top) : (top \o values)[j] = top[j]
      /\ \A j \in 1..Len(values) : (top \o values)[Len(top) + j] = values[j]
  <2>1. top \in Seq(IniLine) /\ values \in Seq(IniLine)
    BY <1>5, <1>7
  <2>2. /\ top \o values \in Seq(IniLine)
        /\ Len(top \o values) = Len(top) + Len(values)
        /\ \A j \in 1..Len(top) : (top \o values)[j] = top[j]
    BY <2>1, FirstPart, Zenon
  <2>3. \A j \in 1..Len(values) : (top \o values)[Len(top) + j] = values[j]
    BY <2>1, SecondPart, Zenon
  <2> QED BY <2>2, <2>3
<1>10. /\ Len(top \o values) = Len(inside) + 2
       /\ (top \o values)[1] = BlankLine
       /\ (top \o values)[2] = SectionLine(s)
  BY <1>5, <1>6, <1>7, <1>9
<1>11. \A j \in DOMAIN inside : (top \o values)[j + 2] = values[j]
  <2>1. \A j \in DOMAIN inside : j + 2 = 2 + j
    BY <1>6
  <2> QED BY <1>5, <1>6, <1>7, <1>9, <2>1
<1> QED BY <1>4, <1>8, <1>9, <1>10, <1>11 DEF s, inside

-----------------------------------------------------------------------------
(* The dump: every line tells an entry of the table, and every entry in a  *)
(* section has its line.                                                   *)

EntryLine(t) == ValueLine(Tail(key[t]), Printed(val[t], Empty))

Tells(lines, i, h) ==
    /\ SectionAt(lines, i) = key[h]
    /\ \/ lines[i] = SectionLine(key[h])
       \/ \E t \in Inside(key[h]) : lines[i] = EntryLine(t)

Truthful(lines) ==
    \A i \in GoodLines(lines) : \E h \in Heads : Tells(lines, i, h)

Covers(lines, h) ==
    /\ \E i \in GoodLines(lines) : lines[i] = SectionLine(key[h])
    /\ \A t \in Inside(key[h]) :
          \E i \in GoodLines(lines) : /\ SectionAt(lines, i) = key[h]
                                      /\ lines[i] = EntryLine(t)

LEMMA PrefixStays ==
    ASSUME NEW lines \in Seq(IniLine), NEW more \in Seq(IniLine)
    PROVE  /\ lines \o more \in Seq(IniLine)
           /\ \A i \in DOMAIN lines :
                 /\ i \in DOMAIN (lines \o more)
                 /\ (lines \o more)[i] = lines[i]
                 /\ SectionAt(lines \o more, i) = SectionAt(lines, i)
           /\ GoodLines(lines) \subseteq GoodLines(lines \o more)
<1> DEFINE all == lines \o more
<1>1. all \in Seq(IniLine) /\ Len(all) = Len(lines) + Len(more)
      /\ \A i \in 1..Len(lines) : all[i] = lines[i]
  BY FirstPart, Zenon
<1>2. Len(lines) \in Nat /\ Len(more) \in Nat
  OBVIOUS
<1> HIDE DEF all
<1>3. ASSUME NEW i \in DOMAIN lines
      PROVE  /\ i \in DOMAIN all /\ all[i] = lines[i]
             /\ SectionAt(all, i) = SectionAt(lines, i)
  <2>1. i \in 1..Len(lines) /\ i \in Nat
    OBVIOUS
  <2>2. i \in DOMAIN all
    BY <1>1, <1>2, <2>1
  <2>3. \A j \in 1..i : all[j] = lines[j]
    BY <1>1, <1>2, <2>1
  <2> QED BY <1>1, <2>1, <2>2, <2>3, SectionOfPrefix
<1>4. GoodLines(lines) \subseteq GoodLines(all)
  BY <1>3 DEF GoodLines
<1> QED BY <1>1, <1>3, <1>4 DEF all

LEMMA PrefixTells ==
    ASSUME NEW lines \in Seq(IniLine), NEW more \in Seq(IniLine), NEW h
    PROVE  /\ \A i \in GoodLines(lines) :
                 Tells(lines, i, h) => Tells(lines \o more, i, h)
           /\ Covers(lines, h) => Covers(lines \o more, h)
<1> DEFINE all == lines \o more
<1>1. /\ \A i \in GoodLines(lines) :
            /\ i \in GoodLines(all) /\ all[i] = lines[i]
            /\ SectionAt(all, i) = SectionAt(lines, i)
  BY PrefixStays DEF GoodLines
<1> HIDE DEF all
<1>2. \A i \in GoodLines(lines) : Tells(lines, i, h) => Tells(all, i, h)
  BY <1>1 DEF Tells
<1>3. Covers(lines, h) => Covers(all, h)
  BY <1>1 DEF Covers
<1> QED BY <1>2, <1>3 DEF all

LEMMA BlockAppended ==
    ASSUME DictInv, NEW lines \in Seq(IniLine), Truthful(lines), NEW h \in Heads
    PROVE  /\ lines \o DumpSection(key[h]) \in Seq(IniLine)
           /\ Truthful(lines \o DumpSection(key[h]))
           /\ Covers(lines \o DumpSection(key[h]), h)
<1> DEFINE s == key[h]
           block == DumpSection(s)
           inside == InOrder(Inside(s))
           all == lines \o block
           c == Len(lines)
           d == Len(inside)
<1>1. /\ block \in Seq(IniLine) /\ Len(block) = d + 2
      /\ block[1] = BlankLine /\ block[2] = SectionLine(s)
      /\ \A j \in DOMAIN inside : block[j + 2] = EntryLine(inside[j])
  BY Block DEF EntryLine
<1>2. /\ d \in Nat /\ DOMAIN inside = 1..d
      /\ \A j \in DOMAIN inside : inside[j] \in Inside(s)
      /\ \A t \in Inside(s) : \E j \in DOMAIN inside : inside[j] = t
  <2>1. Inside(s) \subseteq UsedSlots
    BY DEF Inside
  <2>2. /\ inside \in Seq(Inside(s))
        /\ \A j \in DOMAIN inside : inside[j] \in Inside(s)
        /\ \A t \in Inside(s) : \E j \in DOMAIN inside : inside[j] = t
    <3> HIDE DEF s
    <3> QED BY <2>1, SomeInOrder
  <2>3. d \in Nat /\ DOMAIN inside = 1..d
    <3> HIDE DEF inside
    <3> QED BY <2>2
  <2> QED BY <2>2, <2>3
<1>3. all \in Seq(IniLine) /\ Len(all) = c + Len(block)
  BY <1>1, FirstPart, Zenon
<1>4. \A j \in 1..Len(block) : all[c + j] = block[j]
  BY <1>1, SecondPart
<1>5. c \in Nat
  OBVIOUS
<1> HIDE DEF all, c, d, inside, block
<1>6. all[c+1] = BlankLine /\ all[c+2] = SectionLine(s)
  BY <1>1, <1>2, <1>4
<1>7. \A j \in 1..d : all[c + (j + 2)] = EntryLine(inside[j])
  <2>1. \A j \in 1..d : j + 2 \in 1..Len(block)
    BY <1>1, <1>2
  <2> QED BY <1>1, <1>2, <1>4, <2>1
<1>8. ASSUME NEW j \in 2..d+2
      PROVE  SectionAt(all, c + j) = s /\ c + j \in GoodLines(all)
  <2> DEFINE H == {x \in 1..c+j : all[x].kind = "section"}
  <2>1. c + 2 \in H
    BY <1>2, <1>5, <1>6 DEF SectionLine, Line
  <2>2. H \subseteq Nat
    OBVIOUS
  <2>3. \A y \in H : y <= c + 2
    <3> SUFFICES ASSUME NEW y \in H, y > c + 2 PROVE FALSE
      BY <1>5
    <3> DEFINE x == y - (c + 2)
    <3>1. y \in 1..c+j /\ all[y].kind = "section"
      BY Zenon
    <3> HIDE DEF H
    <3>2. x \in 1..d /\ y = c + (x + 2)
      <4>1. c \in Nat /\ d \in Nat /\ y \in 1..c+j
        BY <1>2, <1>5, <3>1
      <4> QED BY <4>1
    <3> HIDE DEF x
    <3>3. all[y] = EntryLine(inside[x])
      BY <1>7, <3>2
    <3> QED BY <3>1, <3>3 DEF EntryLine, ValueLine, Line
  <2>4. H # {} /\ Max(H) = c + 2
    <3> HIDE DEF H
    <3> QED BY <2>1, <2>2, <2>3, MaxIs
  <2>5. SectionAt(all, c + j) = IF H = {} THEN NoSection ELSE all[Max(H)].key
    BY DEF SectionAt
  <2> HIDE DEF H
  <2>6. SectionAt(all, c + j) = s
    BY <1>6, <2>4, <2>5 DEF SectionLine, Line
  <2>7. all[c + j].kind \in {"section", "value"}
    <3>1. CASE j = 2
      BY <1>6, <3>1 DEF SectionLine, Line
    <3>2. CASE j # 2
      <4> DEFINE x == j - 2
      <4>1. x \in 1..d /\ c + j = c + (x + 2)
        BY <1>2, <1>5, <3>2
      <4> HIDE DEF x
      <4>2. all[c + j] = EntryLine(inside[x])
        BY <1>7, <4>1
      <4> QED BY <4>2 DEF EntryLine, ValueLine, Line
    <3> QED BY <3>1, <3>2
  <2>8. c + j \in DOMAIN all
    BY <1>1, <1>2, <1>3, <1>5
  <2> QED BY <2>6, <2>7, <2>8 DEF GoodLines
<1>9. ASSUME NEW i \in GoodLines(all)
      PROVE  \/ i \in GoodLines(lines)
             \/ i = c + 2
             \/ \E j \in 1..d : i = c + (j + 2)
  <2>1. i \in 1..c+(d+2)
    BY <1>1, <1>2, <1>3, <1>5 DEF GoodLines
  <2>2. CASE i \in 1..c
    <3>1. all[i] = lines[i] /\ i \in DOMAIN lines
      BY <1>1, <2>2, FirstPart, SecondPart DEF all, c
    <3> QED BY <1>9, <3>1 DEF GoodLines
  <2>3. i # c + 1
    BY <1>6 DEF GoodLines, BlankLine, Line
  <2>4. CASE i > c + 2
    <3> DEFINE j == i - (c + 2)
    <3>1. j \in 1..d /\ i = c + (j + 2)
      BY <1>2, <1>5, <2>1, <2>4
    <3> QED BY <3>1
  <2> QED BY <1>2, <1>5, <2>1, <2>2, <2>3, <2>4
<1>10. Truthful(all)
  <2> SUFFICES ASSUME NEW i \in GoodLines(all)
               PROVE  \E g \in Heads : Tells(all, i, g)
    BY DEF Truthful
  <2>1. CASE i \in GoodLines(lines)
    <3>1. PICK g \in Heads : Tells(lines, i, g)
      BY <2>1 DEF Truthful
    <3> QED BY <1>1, <2>1, <3>1, PrefixTells DEF all
  <2>2. CASE i = c + 2
    <3>1. SectionAt(all, i) = s
      BY <1>2, <1>8, <2>2
    <3> QED BY <1>6, <2>2, <3>1 DEF Tells, s
  <2>3. ASSUME NEW j \in 1..d, i = c + (j + 2)
        PROVE  Tells(all, i, h)
    <3>1. j + 2 \in 2..d+2
      BY <1>2
    <3>2. SectionAt(all, i) = s
      BY <1>8, <2>3, <3>1
    <3>3. inside[j] \in Inside(s) /\ all[i] = EntryLine(inside[j])
      BY <1>2, <1>7, <2>3
    <3> QED BY <3>2, <3>3 DEF Tells, s
  <2> QED BY <1>9, <2>1, <2>2, <2>3
<1>11. Covers(all, h)
  <2>1. c + 2 \in GoodLines(all) /\ all[c+2] = SectionLine(s)
    BY <1>2, <1>6, <1>8
  <2>2. ASSUME NEW t \in Inside(s)
        PROVE  \E i \in GoodLines(all) : /\ SectionAt(all, i) = s
                                         /\ all[i] = EntryLine(t)
    <3>1. PICK j \in 1..d : inside[j] = t
      BY <1>2
    <3>2. j + 2 \in 2..d+2
      BY <1>2
    <3>3. c + (j + 2) \in GoodLines(all) /\ SectionAt(all, c + (j + 2)) = s
      BY <1>8, <3>2
    <3>4. all[c + (j + 2)] = EntryLine(t)
      BY <1>7, <3>1
    <3> QED BY <3>3, <3>4
  <2> QED BY <2>1, <2>2 DEF Covers, s
<1> QED BY <1>3, <1>10, <1>11 DEF all, block, s

(* A sequence of blocks, for the sections of some of the slots.            *)
LEMMA BlocksJoined ==
    ASSUME DictInv, NEW c \in Nat, NEW heads \in [1..c -> Heads],
           NEW join \in [1..c -> Seq(IniLine)],
           \A i \in 1..c :
              join[i] = IF i = 1 THEN DumpSection(key[heads[i]])
                        ELSE join[i-1] \o DumpSection(key[heads[i]])
    PROVE  \A m \in 1..c : /\ Truthful(join[m])
                           /\ \A i \in 1..m : Covers(join[m], heads[i])
<1> DEFINE Good(m) == /\ Truthful(join[m])
                      /\ \A i \in 1..m : Covers(join[m], heads[i])
           S == {m \in Nat : m + 1 \in 1..c => Good(m + 1)}
<1>1. 0 \in S
  <2> SUFFICES ASSUME 1 \in 1..c PROVE Good(1)
    OBVIOUS
  <2>1. heads[1] \in Heads /\ join[1] = DumpSection(key[heads[1]])
    OBVIOUS
  <2>2. <<>> \in Seq(IniLine) /\ Truthful(<<>>)
    BY DEF Truthful, GoodLines
  <2>3. join[1] \in Seq(IniLine) /\ <<>> \o join[1] = join[1]
    OBVIOUS
  <2>4. Truthful(<<>> \o join[1]) /\ Covers(<<>> \o join[1], heads[1])
    BY <2>1, <2>2, BlockAppended
  <2>5. \A i \in 1..1 : i = 1
    OBVIOUS
  <2> QED BY <2>3, <2>4, <2>5
<1>2. ASSUME NEW m \in Nat, m \in S, (m + 1) + 1 \in 1..c
      PROVE  Good((m + 1) + 1)
  <2> DEFINE j == (m + 1) + 1
             new == heads[j]
             old == join[m+1]
  <2>1. m + 1 \in 1..c /\ j # 1 /\ j - 1 = m + 1
    BY <1>2
  <2>2. old \in Seq(IniLine) /\ Good(m + 1)
    BY <1>2, <2>1
  <2>3. new \in Heads /\ join[j] = old \o DumpSection(key[new])
    <3>1. j \in 1..c
      BY <1>2
    <3> HIDE DEF j
    <3> QED BY <2>1, <3>1
  <2>4. \A i \in 1..j : i \in 1..m+1 \/ i = j
    OBVIOUS
  <2> HIDE DEF j, new, old
  <2>5. Truthful(join[j]) /\ Covers(join[j], new)
    BY <2>2, <2>3, BlockAppended DEF old
  <2>6. DumpSection(key[new]) \in Seq(IniLine)
    BY <2>3, Block, Zenon
  <2>7. \A i \in 1..m+1 : Covers(join[j], heads[i])
    BY <2>2, <2>3, <2>6, PrefixTells DEF old
  <2> QED BY <2>4, <2>5, <2>7 DEF j, new
<1> HIDE DEF Good
<1>3. ASSUME NEW m \in Nat, m \in S PROVE m + 1 \in S
  BY <1>2, <1>3
<1> HIDE DEF S
<1>4. \A m \in Nat : m \in S
  BY <1>1, <1>3, SetInduction
<1>5. ASSUME NEW m \in 1..c PROVE Good(m)
  <2>1. m - 1 \in Nat /\ (m - 1) + 1 = m
    OBVIOUS
  <2>2. m - 1 \in S
    BY <1>4, <2>1
  <2> QED BY <2>1, <2>2 DEF S
<1> QED BY <1>5 DEF Good

(* The dump of a table with sections. *)
LEMMA DumpTells ==
    ASSUME DictInv, Heads # {}
    PROVE  /\ IniLines \in Seq(IniLine)
           /\ Truthful(IniLines)
           /\ \A h \in Heads : Covers(IniLines, h)
<1> DEFINE heads == InOrder(Heads)
           c == Cardinality(Heads)
           parts == [i \in 1..c |-> DumpSection(key[heads[i]])]
<1>1. SectionSlots = heads
  BY DEF SectionSlots, Heads
<1>2. /\ c \in Nat /\ heads \in Seq(Heads) /\ Len(heads) = c
      /\ DOMAIN heads = 1..c
      /\ \A i \in 1..c : heads[i] \in Heads
      /\ \A h \in Heads : \E i \in 1..c : heads[i] = h
  <2>1. Heads \subseteq UsedSlots
    BY DEF Heads
  <2> QED BY <2>1, SomeInOrder
<1> HIDE DEF heads, c
<1>3. c # 0
  <2>1. \E i \in 1..c : TRUE
    BY <1>2
  <2> QED BY <2>1
<1>4. SectionSlots # <<>>
  BY <1>1, <1>2, <1>3
<1>5. parts \in [1..c -> Seq(IniLine)]
  <2>1. \A i \in 1..c : DumpSection(key[heads[i]]) \in Seq(IniLine)
    BY <1>2, Block, Zenon
  <2> QED BY <2>1
<1>6. parts \in Seq(Seq(IniLine)) /\ Len(parts) = c
  <2> HIDE DEF parts
  <2> QED BY <1>2, <1>5, FunctionIsSeq
<1>7. PICK join : /\ Joins(join, parts, IniLine, c)
                  /\ FlattenSeq(parts) = join[c]
  <2> HIDE DEF parts
  <2> QED BY <1>3, <1>6, Flattens
<1>8. /\ join \in [1..c -> Seq(IniLine)]
      /\ \A i \in 1..c :
            join[i] = IF i = 1 THEN DumpSection(key[heads[i]])
                      ELSE join[i-1] \o DumpSection(key[heads[i]])
  BY <1>7 DEF Joins
<1>9. heads \in [1..c -> Heads] /\ c \in 1..c
  BY <1>2, <1>3
<1>10. /\ Truthful(join[c])
       /\ \A i \in 1..c : Covers(join[c], heads[i])
  BY <1>2, <1>8, <1>9, BlocksJoined
<1> DEFINE all == join[c]
           end == <<BlankLine>>
<1>11. IniLines = all \o end
  BY <1>1, <1>2, <1>4, <1>7 DEF IniLines
<1>12. /\ all \in Seq(IniLine)
       /\ end \in Seq(IniLine) /\ Len(end) = 1 /\ end[1] = BlankLine
  BY <1>8, <1>9, LineTypes
<1> HIDE DEF all, end
<1>13. /\ all \o end \in Seq(IniLine) /\ Len(all \o end) = Len(all) + 1
       /\ \A i \in 1..Len(all) : (all \o end)[i] = all[i]
       /\ (all \o end)[Len(all) + 1] = BlankLine
       /\ Len(all) \in Nat
  <2>1. all \in Seq(IniLine) /\ end \in Seq(IniLine)
    BY <1>12
  <2>2. /\ all \o end \in Seq(IniLine)
        /\ Len(all \o end) = Len(all) + Len(end)
        /\ \A i \in 1..Len(all) : (all \o end)[i] = all[i]
    BY <2>1, FirstPart, Zenon
  <2>3. \A i \in 1..Len(end) : (all \o end)[Len(all) + i] = end[i]
    BY <2>1, SecondPart, Zenon
  <2>4. (all \o end)[Len(all) + 1] = end[1]
    <3>1. 1 \in 1..Len(end)
      BY <1>12
    <3> QED BY <2>3, <3>1
  <2>5. Len(all) \in Nat
    BY <2>1
  <2> QED BY <1>12, <2>2, <2>4, <2>5
<1>14. GoodLines(all \o end) \subseteq GoodLines(all)
  <2> SUFFICES ASSUME NEW i \in GoodLines(all \o end)
               PROVE  i \in GoodLines(all)
    OBVIOUS
  <2>1. i # Len(all) + 1
    BY <1>13 DEF GoodLines, BlankLine, Line
  <2>2. i \in 1..Len(all)
    BY <1>13, <2>1 DEF GoodLines
  <2>3. i \in DOMAIN all /\ (all \o end)[i] = all[i]
    BY <1>12, <1>13, <2>2
  <2> QED BY <2>3 DEF GoodLines
<1>15. Truthful(all \o end)
  <2> SUFFICES ASSUME NEW i \in GoodLines(all \o end)
               PROVE  \E h \in Heads : Tells(all \o end, i, h)
    BY DEF Truthful
  <2>1. i \in GoodLines(all)
    BY <1>14
  <2>2. PICK h \in Heads : Tells(all, i, h)
    BY <1>10, <2>1 DEF Truthful, all
  <2> QED BY <1>12, <2>1, <2>2, PrefixTells
<1>16. \A h \in Heads : Covers(all \o end, h)
  <2>1. \A h \in Heads : Covers(all, h)
    BY <1>2, <1>10 DEF all
  <2> QED BY <1>12, <2>1, PrefixTells
<1> QED BY <1>11, <1>13, <1>15, <1>16

(* The dump of a table without a section has only values. *)
LEMMA BareDump ==
    ASSUME DictInv, Heads = {}
    PROVE  /\ IniLines \in Seq(IniLine)
           /\ \A i \in DOMAIN IniLines : IniLines[i].kind = "value"
<1> DEFINE used == InOrder(UsedSlots)
           c == Cardinality(UsedSlots)
           line(i) == ValueLine(key[used[i]], Printed(val[used[i]], NullText))
           values == [i \in 1..c |-> line(i)]
<1>1. SectionSlots = <<>>
  <2>1. SectionSlots = InOrder({})
    BY DEF SectionSlots, Heads
  <2>2. Cardinality({}) = 0
    BY FS_EmptySet
  <2>3. DOMAIN SectionSlots = {} /\ InOrder({}) \in Seq({})
    <3>1. {} \subseteq UsedSlots
      OBVIOUS
    <3> QED BY <2>1, <2>2, <3>1, SomeInOrder
  <2> QED BY <2>1, <2>3
<1>2. /\ c \in Nat /\ DOMAIN used = 1..c
      /\ \A i \in 1..c : used[i] \in UsedSlots
  BY SomeInOrder
<1>3. IniLines = values
  BY <1>1, <1>2 DEF IniLines, DumpBare
<1> HIDE DEF used, c
<1>4. ASSUME NEW i \in 1..c PROVE line(i) \in IniLine /\ line(i).kind = "value"
  <2>1. /\ key[used[i]] \in Seq(Words) \ {<<>>}
        /\ val[used[i]] \in Values \cup {NULL}
    BY <1>2, UsedTypes
  <2>2. Printed(val[used[i]], NullText) \in Values
    BY <2>1, PrintedTypes, IniAssumption
  <2>3. line(i) \in IniLine
    BY <2>1, <2>2, LineTypes
  <2> QED BY <2>3 DEF ValueLine, Line
<1> HIDE DEF line
<1>5. values \in [1..c -> IniLine]
  BY <1>4
<1>6. values \in Seq(IniLine)
  <2> HIDE DEF values
  <2> QED BY <1>2, <1>5, FunctionIsSeq
<1> QED BY <1>3, <1>4, <1>6

-----------------------------------------------------------------------------
(* A map that a file can say is what its dump means. *)

LEMMA ContentsKeys ==
    ASSUME DictInv, heap = "usable"
    PROVE  /\ Contents = [k \in DOMAIN Contents |-> Contents[k]]
           /\ \A i \in UsedSlots : /\ key[i] \in DOMAIN Contents
                                   /\ Contents[key[i]] = val[i]
           /\ \A k \in DOMAIN Contents : \E i \in UsedSlots : key[i] = k
<1>1. Contents = TableMap(size, key, val) /\ NoTwins(size, key)
  BY ContentsIsTable
<1>2. Occupied(size, key) = UsedSlots
  BY DEF Occupied, UsedSlots, Slots
<1>3. \A i \in UsedSlots : /\ key[i] \in DOMAIN Contents
                           /\ Contents[key[i]] = val[i]
  BY <1>1, <1>2, TableValue
<1>4. \A k \in DOMAIN Contents : \E i \in UsedSlots : key[i] = k
  BY <1>1, <1>2 DEF TableMap
<1>5. Contents = [k \in DOMAIN Contents |-> Contents[k]]
  BY <1>1 DEF TableMap
<1> QED BY <1>3, <1>4, <1>5

LEMMA DumpMeans ==
    ASSUME DictInv, heap = "usable", Proper(Contents)
    PROVE  Meaning(IniLines) = Contents
<1> DEFINE lines == IniLines
           map == Contents
<1>1. /\ map = [k \in DOMAIN map |-> map[k]]
      /\ \A i \in UsedSlots : key[i] \in DOMAIN map /\ map[key[i]] = val[i]
      /\ \A k \in DOMAIN map : \E i \in UsedSlots : key[i] = k
  BY ContentsKeys
<1>2. Proper(map)
  OBVIOUS
<1> HIDE DEF map, lines
<1>3. PICK k1 \in DOMAIN map : Len(k1) = 1
  BY <1>2 DEF Proper
<1>4. Heads # {}
  BY <1>1, <1>3 DEF Heads, IsSection
<1>5. /\ lines \in Seq(IniLine) /\ Truthful(lines)
      /\ \A h \in Heads : Covers(lines, h)
  BY <1>4, DumpTells DEF lines
<1>6. ASSUME NEW h \in Heads
      PROVE  /\ key[h] \in Seq(Words) /\ Len(key[h]) = 1
             /\ key[h] \in DOMAIN map /\ map[key[h]] = NULL
  <2>1. h \in UsedSlots /\ Len(key[h]) = 1
    BY DEF Heads, IsSection
  <2>2. key[h] \in Seq(Words) /\ key[h] \in DOMAIN map
    BY <1>1, <2>1, UsedTypes
  <2> QED BY <1>2, <2>1, <2>2 DEF Proper
<1>7. ASSUME NEW h \in Heads, NEW i \in GoodLines(lines),
             lines[i] = SectionLine(key[h])
      PROVE  KeyAt(lines, i) = key[h] /\ lines[i].val = map[key[h]]
  BY <1>6, <1>7 DEF KeyAt, SectionLine, Line
<1>8. ASSUME NEW h \in Heads, NEW t \in Inside(key[h]),
             NEW i \in GoodLines(lines),
             SectionAt(lines, i) = key[h], lines[i] = EntryLine(t)
      PROVE  /\ key[t] \in DOMAIN map
             /\ KeyAt(lines, i) = key[t] /\ lines[i].val = map[key[t]]
  <2>1. t \in UsedSlots /\ InSection(key[t], key[h])
    BY DEF Inside
  <2>2. /\ key[t] \in DOMAIN map /\ map[key[t]] = val[t]
        /\ key[t] \in Seq(Words) \ {<<>>}
    BY <1>1, <2>1, UsedTypes
  <2>3. Len(key[t]) > 1 /\ key[h] = <<key[t][1]>>
    <3>1. key[h] \in Seq(Words) /\ Len(key[h]) = 1
      BY <1>6
    <3> QED BY <2>1, <2>2, <3>1, SectionOfKey
  <2>4. val[t] # NULL /\ Reread[val[t]] = val[t]
    <3>1. Len(key[t]) # 1
      <4> DEFINE c == Len(key[t])
      <4>1. c > 1
        BY <2>3
      <4> HIDE DEF c
      <4>2. c # 1
        BY <4>1
      <4> QED BY <4>2 DEF c
    <3> QED BY <1>2, <2>2, <3>1 DEF Proper
  <2>5. key[h] \o Tail(key[t]) = key[t]
    <3>1. <<key[t][1]>> \o Tail(key[t]) = key[t]
      BY <2>2, <2>3, TailOfLong
    <3> QED BY <2>3, <3>1, Zenon
  <2>6. /\ lines[i].kind # "section"
        /\ lines[i].key = Tail(key[t])
        /\ lines[i].val = Printed(val[t], Empty)
    BY <1>8 DEF EntryLine, ValueLine, Line
  <2>7. KeyAt(lines, i) = key[h] \o Tail(key[t])
    BY <1>8, <2>6 DEF KeyAt
  <2>8. Printed(val[t], Empty) = val[t]
    BY <2>4 DEF Printed
  <2> QED BY <2>2, <2>5, <2>6, <2>7, <2>8, Zenon
<1>9. ASSUME NEW i \in GoodLines(lines)
      PROVE  /\ KeyAt(lines, i) \in DOMAIN map
             /\ lines[i].val = map[KeyAt(lines, i)]
  <2>1. PICK h \in Heads : Tells(lines, i, h)
    BY <1>5 DEF Truthful
  <2>2. CASE lines[i] = SectionLine(key[h])
    <3>1. KeyAt(lines, i) = key[h] /\ lines[i].val = map[key[h]]
      BY <1>7, <2>2
    <3> QED BY <1>6, <3>1
  <2>3. ASSUME NEW t \in Inside(key[h]), lines[i] = EntryLine(t)
        PROVE  /\ KeyAt(lines, i) \in DOMAIN map
               /\ lines[i].val = map[KeyAt(lines, i)]
    <3>1. SectionAt(lines, i) = key[h]
      BY <2>1 DEF Tells
    <3>2. /\ key[t] \in DOMAIN map
          /\ KeyAt(lines, i) = key[t] /\ lines[i].val = map[key[t]]
      BY <1>8, <2>3, <3>1
    <3> QED BY <3>2
  <2> QED BY <2>1, <2>2, <2>3 DEF Tells
<1>10. ASSUME NEW k \in DOMAIN map
       PROVE  \E i \in GoodLines(lines) : KeyAt(lines, i) = k
  <2>1. PICK t \in UsedSlots : key[t] = k
    BY <1>1
  <2>2. k \in Seq(Words) \ {<<>>}
    BY <2>1, UsedTypes
  <2>3. CASE Len(k) = 1
    <3>1. t \in Heads
      BY <2>1, <2>3 DEF Heads, IsSection
    <3>2. PICK i \in GoodLines(lines) : lines[i] = SectionLine(key[t])
      BY <1>5, <3>1 DEF Covers
    <3> QED BY <1>7, <2>1, <3>1, <3>2
  <2>4. CASE Len(k) # 1
    <3>1. <<k[1]>> \in DOMAIN map
      BY <1>2, <2>4 DEF Proper
    <3>2. PICK h \in UsedSlots : key[h] = <<k[1]>>
      BY <1>1, <3>1
    <3>3. h \in Heads
      BY <3>2 DEF Heads, IsSection
    <3>4. InSection(key[t], key[h])
      <4>1. key[h] \in Seq(Words) /\ Len(key[h]) = 1
        BY <1>6, <3>3
      <4>2. Len(key[t]) > 1
        <5> DEFINE c == Len(k)
        <5>1. c \in Nat /\ c # 0
          BY <2>2, EmptySeq
        <5>2. c # 1
          BY <2>4
        <5> HIDE DEF c
        <5>3. c > 1
          BY <5>1, <5>2
        <5> QED BY <2>1, <5>3 DEF c
      <4> QED BY <2>1, <2>2, <3>2, <4>1, <4>2, SectionOfKey
    <3>5. t \in Inside(key[h])
      BY <3>4 DEF Inside
    <3>6. PICK i \in GoodLines(lines) : /\ SectionAt(lines, i) = key[h]
                                        /\ lines[i] = EntryLine(t)
      BY <1>5, <3>3, <3>5 DEF Covers
    <3>7. KeyAt(lines, i) = key[t]
      BY <1>8, <3>3, <3>5, <3>6
    <3> QED BY <2>1, <3>7
  <2> QED BY <2>3, <2>4
<1>11. Meaning(lines) = map
  BY <1>1, <1>5, <1>9, <1>10, MeaningIs
<1> QED BY <1>11 DEF lines, map

-----------------------------------------------------------------------------
(* What the parser does to the table. *)

NothingIn == [k \in {} |-> NULL]

LEMMA NoTableNoContents ==
    /\ heap # "usable" => Contents = NothingIn
    /\ heap' # "usable" => Contents' = NothingIn
  BY DEF Contents, NothingIn

LEMMA SetContents ==
    ASSUME DictInv, NEW k \in Keys, NEW v \in Values \cup {NULL},
           dictionary_set(k, v)
    PROVE  \/ /\ heap' \in {"unhashed", "broken"} /\ n' = size'
              /\ Contents' = NothingIn
              /\ key' = key /\ UsedSlots' = UsedSlots
           \/ /\ heap' = "usable"
              /\ \/ Put(k, v)
                 \/ Put(k, NULL)
                 \/ Contents' = Contents
<1>1. heap = "usable"
  BY DEF dictionary_set
<1>2. CASE SetGrowFails(k)
  BY <1>2, NoTableNoContents DEF SetGrowFails, MustGrow, UsedSlots, Slots
<1>3. CASE SetModify(k, v) \/ SetAdd(k, v) \/ SetGrow(k, v)
  <2>1. heap' = "usable"
    BY <1>1, <1>3 DEF SetModify, SetAdd, SetGrow
  <2>2. Put(k, v) \/ Put(k, NULL) \/ Contents' = Contents
    BY <1>1, <1>3, ModifyPuts, AddPuts, GrowPuts
  <2> QED BY <2>1, <2>2
<1> QED BY <1>2, <1>3 DEF dictionary_set

(* An entry that is what it should be is a store into the map.             *)
LEMMA EnterStores ==
    ASSUME DictInv, NEW k, NEW v \in Values \cup {NULL}, Enter(k, v)
    PROVE  /\ k \in Keys /\ dictionary_set(k, v) /\ heap = "usable"
           /\ \/ heap' = "usable"
              \/ heap' # "none" /\ n' = size' /\ ~intact'
           /\ intact' \in BOOLEAN
           /\ DOMAIN Contents' \subseteq DOMAIN Contents \cup {k}
           /\ heap' = "usable" /\ intact'
                 => intact /\ Contents' = Store(Contents, k, v)
<1>1. /\ k \in Keys /\ dictionary_set(k, v)
      /\ intact' = (intact /\ k \in DOMAIN Contents' /\ Contents'[k] = v)
  BY DEF Enter
<1>2. intact' \in BOOLEAN
  BY <1>1
<1>3. heap = "usable"
  BY <1>1 DEF dictionary_set
<1>4. Contents = [o \in DOMAIN Contents |-> Contents[o]]
  BY <1>3, ContentsKeys
<1>5. CASE /\ heap' \in {"unhashed", "broken"} /\ n' = size'
           /\ Contents' = NothingIn
  <2>1. DOMAIN Contents' = {}
    BY <1>5 DEF NothingIn
  <2>2. ~intact'
    BY <1>1, <2>1, Zenon
  <2> QED BY <1>1, <1>2, <1>3, <1>5, <2>1, <2>2
<1>6. ASSUME NEW c, heap' = "usable", Put(k, c), c \in {v, NULL}
      PROVE  /\ DOMAIN Contents' \subseteq DOMAIN Contents \cup {k}
             /\ intact' => intact /\ Contents' = Store(Contents, k, v)
  <2>1. Contents' = [o \in DOMAIN Contents \cup {k} |->
                        IF o = k THEN c ELSE Contents[o]]
    BY <1>6 DEF Put, PutIn
  <2>2. DOMAIN Contents' = DOMAIN Contents \cup {k} /\ Contents'[k] = c
    BY <2>1
  <2>3. ASSUME intact' PROVE intact /\ Contents' = Store(Contents, k, v)
    <3>1. intact /\ Contents'[k] = v
      BY <1>1, <2>3
    <3>2. c = v
      BY <2>2, <3>1
    <3> QED BY <2>1, <3>1, <3>2 DEF Store
  <2> QED BY <2>2, <2>3
<1>7. CASE heap' = "usable" /\ Contents' = Contents
  <2>0. DOMAIN Contents' \subseteq DOMAIN Contents \cup {k}
    BY <1>7
  <2> SUFFICES ASSUME intact'
               PROVE  intact /\ Contents' = Store(Contents, k, v)
    BY <1>1, <1>2, <1>3, <1>7, <2>0
  <2>1. intact /\ k \in DOMAIN Contents /\ Contents[k] = v
    BY <1>1, <1>7
  <2>2. DOMAIN Contents \cup {k} = DOMAIN Contents
    BY <2>1
  <2>3. Store(Contents, k, v) = [o \in DOMAIN Contents |-> Contents[o]]
    BY <2>1, <2>2 DEF Store
  <2> QED BY <1>4, <1>7, <2>1, <2>3, Zenon
<1>8. \/ /\ heap' \in {"unhashed", "broken"} /\ n' = size'
         /\ Contents' = NothingIn
      \/ heap' = "usable" /\ (Put(k, v) \/ Put(k, NULL))
      \/ heap' = "usable" /\ Contents' = Contents
  BY <1>1, SetContents, Zenon
<1> QED BY <1>1, <1>2, <1>3, <1>5, <1>6, <1>7, <1>8

LEMMA KeyNext ==
    ASSUME DictInv', heap' = "usable", NEW i \in UsedSlots'
    PROVE  key'[i] \in DOMAIN Contents'
<1>1. Contents' = TableMap(size', key', val') /\ NoTwins(size', key')
  BY ContentsIsTableNext
<1>2. i \in Occupied(size', key')
  BY DEF Occupied, UsedSlots, Slots
<1> QED BY <1>1, <1>2, TableValue

(* The keys in the slots are those before and the one that was entered.    *)
LEMMA EnterKeys ==
    ASSUME DictInv, NEW k, NEW v \in Values \cup {NULL}, Enter(k, v),
           NEW i \in UsedSlots'
    PROVE  key'[i] = k \/ \E j \in UsedSlots : key[j] = key'[i]
<1>1. k \in Keys /\ dictionary_set(k, v) /\ heap = "usable"
  BY EnterStores
<1>2. CASE heap' = "usable"
  <2>1. DictInv'
    BY <1>1, DictNextInv DEF DictNext
  <2>2. key'[i] \in DOMAIN Contents'
    BY <1>2, <2>1, KeyNext
  <2>3. key'[i] = k \/ key'[i] \in DOMAIN Contents
    BY <2>2, EnterStores
  <2> QED BY <1>1, <2>3, ContentsKeys
<1>3. CASE heap' # "usable"
  BY <1>1, <1>3, SetContents
<1> QED BY <1>2, <1>3

(* Every step of the parser is one of the dictionary, or leaves it alone.  *)
LEMMA LineEntered ==
    ASSUME ParserTypeOK, LineRead
    PROVE  \/ UNCHANGED dictionaryVars /\ intact' = intact
           \/ \E k : \E v \in Values \cup {NULL} : Enter(k, v)
<1>1. ThisLine \in IniLine
  BY ReadingLine DEF LineRead
<1>2. ThisLine.val \in Values \cup {NULL}
  BY <1>1 DEF IniLine
<1>3. CASE Enter(ThisLine.key, NULL)
  BY <1>3
<1>4. CASE Enter(section \o ThisLine.key, ThisLine.val)
  BY <1>2, <1>4
<1> QED BY <1>3, <1>4 DEF LineRead

LEMMA LineOfTable ==
    ASSUME DictInv, ParserTypeOK, LineRead, heap' = "usable", intact'
    PROVE  heap = "usable" /\ intact
<1>1. CASE UNCHANGED dictionaryVars /\ intact' = intact
  BY <1>1 DEF dictionaryVars
<1>2. CASE \E k : \E v \in Values \cup {NULL} : Enter(k, v)
  BY <1>2, EnterStores
<1> QED BY <1>1, <1>2, LineEntered

LEMMA ParserKeepsDictionary ==
    DictInv /\ ParserTypeOK /\ [IniNext]_iniparserVars
    => [DictNext]_dictionaryVars
<1> SUFFICES ASSUME DictInv, ParserTypeOK, [IniNext]_iniparserVars
             PROVE  [DictNext]_dictionaryVars
  OBVIOUS
<1>1. ASSUME NEW k, NEW v \in Values \cup {NULL}, Enter(k, v)
      PROVE  DictNext
  BY <1>1 DEF Enter, DictNext
<1>2. CASE LoadBegin
  BY <1>2 DEF LoadBegin, DictNext
<1>3. CASE LineTooLong
  BY <1>3 DEF LineTooLong, DictNext
<1>4. CASE LineGoesOn
  BY <1>4 DEF LineGoesOn
<1>5. CASE LineRead
  BY <1>1, <1>5, LineEntered
<1>6. CASE LoadEnd
  BY <1>6 DEF LoadEnd, DictNext
<1>7. CASE OpenForWriting
  BY <1>7 DEF OpenForWriting
<1>8. ASSUME NEW k \in EditKeys, NEW v \in EditValues, iniparser_set(k, v)
      PROVE  DictNext
  <2>1. v \in Values \cup {NULL}
    BY IniAssumption
  <2> QED BY <1>1, <1>8, <2>1 DEF iniparser_set
<1>9. ASSUME NEW k \in EditKeys, iniparser_unset(k)
      PROVE  DictNext
  <2>1. k \in Keys
    BY IniAssumption
  <2> QED BY <1>9, <2>1 DEF iniparser_unset, DictNext
<1>10. CASE Dump
  BY <1>10 DEF Dump, DictNext
<1>11. CASE Crash
  BY <1>11 DEF Crash
<1>12. CASE UNCHANGED iniparserVars
  BY <1>12 DEF iniparserVars
<1> QED
  BY <1>2, <1>3, <1>4, <1>5, <1>6, <1>7, <1>8, <1>9, <1>10, <1>11, <1>12
  DEF IniNext, IniLoad, IniEdit

-----------------------------------------------------------------------------
(* The invariant, part by part. *)

LEMMA NoSectionTypes == NoSection \in Seq(Words) \ {<<>>} /\ Len(NoSection) = 1
<1>1. NoSection \in Seq(Words) /\ Len(NoSection) = 1
  <2> DEFINE empty == ""
  <2>1. empty \in Words
    BY IniAssumption, Zenon
  <2>2. NoSection = <<empty>>
    BY DEF NoSection
  <2> HIDE DEF empty
  <2> QED BY <2>1, <2>2
<1>2. NoSection # <<>>
  BY <1>1, EmptySeq
<1> QED BY <1>1, <1>2

LEMMA TypesAtFirst == IniInit => ParserTypeOK
<1> SUFFICES ASSUME IniInit PROVE ParserTypeOK
  OBVIOUS
<1>1. /\ NoSection \in Seq(Words) \ {<<>>} /\ NoLine \in IniLine
  BY NoSectionTypes, LineTypes
<1>2. file \in Seq(IniLine)
  BY IniAssumption DEF IniInit
<1>3. heap = "none" /\ ipc = "idle" /\ edited = FALSE /\ intact = TRUE
  BY DEF IniInit, DictInit
<1>4. lineno = 0 /\ errs = 0 /\ section = NoSection /\ last = NoLine
  BY DEF IniInit
<1>5. edited \in BOOLEAN /\ intact \in BOOLEAN
  BY <1>3
<1> QED BY <1>1, <1>2, <1>3, <1>4, <1>5 DEF ParserTypeOK

LEMMA DumpTypes ==
    ASSUME DictInv
    PROVE  IniLines \in Seq(IniLine)
<1>1. CASE Heads = {}
  BY <1>1, BareDump
<1>2. CASE Heads # {}
  BY <1>2, DumpTells
<1> QED BY <1>1, <1>2

LEMMA TypesKept ==
    DictInv /\ ParserTypeOK /\ [IniNext]_iniparserVars => ParserTypeOK'
<1> SUFFICES ASSUME DictInv, ParserTypeOK, [IniNext]_iniparserVars
             PROVE  ParserTypeOK'
  OBVIOUS
<1>1. /\ NoSection \in Seq(Words) \ {<<>>} /\ NoLine \in IniLine
      /\ <<>> \in Seq(IniLine) /\ Len(file) \in Nat
  BY NoSectionTypes, LineTypes DEF ParserTypeOK
<1>2. CASE LoadBegin
  <2>1. ipc' \in {"reading", "loaded"}
    BY <1>2 DEF LoadBegin
  <2>2. /\ file' = file /\ before' = file /\ lineno' = 0 /\ errs' = 0
        /\ section' = NoSection /\ last' = NoLine
    BY <1>2 DEF LoadBegin
  <2>3. /\ edited' \in BOOLEAN /\ intact' \in BOOLEAN
        /\ heap' \in {"unhashed", "broken"} => ~intact'
        /\ ipc' = "reading" => heap' # "none"
    BY <1>2 DEF LoadBegin, dictionary_new
  <2>4. file' \in Seq(IniLine)
    BY <2>2 DEF ParserTypeOK
  <2> QED BY <1>1, <2>1, <2>2, <2>3, <2>4 DEF ParserTypeOK
<1>3. CASE LineTooLong
  BY <1>3 DEF LineTooLong, dictionary_del, loadVars, historyVars, ParserTypeOK
<1>4. CASE LineGoesOn
  <2>1. ThisLine \in IniLine /\ lineno + 1 \in 1..Len(file)
    BY <1>4, ReadingLine DEF LineGoesOn
  <2>2. lineno' \in Nat /\ lineno' <= Len(file)
    BY <1>1, <1>4, <2>1 DEF LineGoesOn
  <2>3. last' \in IniLine
    BY <1>4, <2>1, BecomingTypes DEF LineGoesOn
  <2> QED BY <1>4, <2>2, <2>3
          DEF LineGoesOn, Reading, dictionaryVars, historyVars, ParserTypeOK
<1>5. CASE LineRead
  <2>1. /\ ThisLine \in IniLine /\ lineno + 1 \in 1..Len(file)
        /\ ipc = "reading"
    BY <1>5, ReadingLine DEF LineRead
  <2>2. lineno' \in Nat /\ lineno' <= Len(file) /\ last' = NoLine
        /\ UNCHANGED <<ipc, file, before, edited>>
    BY <1>1, <1>5, <2>1 DEF LineRead
  <2>3. /\ intact' \in BOOLEAN /\ heap' # "none"
        /\ heap' \in {"unhashed", "broken"} => ~intact'
    <3>1. CASE UNCHANGED dictionaryVars /\ intact' = intact
      BY <2>1, <3>1 DEF dictionaryVars, ParserTypeOK
    <3>2. CASE \E k : \E v \in Values \cup {NULL} : Enter(k, v)
      BY <3>2, EnterStores
    <3> QED BY <1>5, <3>1, <3>2, LineEntered
  <2>4. section' \in Seq(Words) \ {<<>>}
    <3>1. ThisLine.kind = "section"
             => ThisLine.key \in Seq(Words) /\ ThisLine.key # <<>>
      BY <2>1 DEF IniLine
    <3> QED BY <1>5, <3>1 DEF LineRead, ParserTypeOK
  <2>5. errs' \in Int
    BY <1>5 DEF LineRead, ErrsAfterSet, ParserTypeOK
  <2> QED BY <1>1, <2>1, <2>2, <2>3, <2>4, <2>5 DEF ParserTypeOK
<1>6. CASE LoadEnd
  BY <1>6 DEF LoadEnd, dictionary_del, dictionaryVars, loadVars, historyVars,
              ParserTypeOK
<1>7. CASE OpenForWriting
  <2> QED BY <1>1, <1>7
          DEF OpenForWriting, dictionaryVars, loadVars, historyVars, ParserTypeOK
<1>8. ASSUME NEW k \in EditKeys, NEW v \in EditValues, iniparser_set(k, v)
      PROVE  ParserTypeOK'
  <2>1. intact' \in BOOLEAN /\ (heap' \in {"unhashed", "broken"} => ~intact')
    BY <1>8, IniAssumption, EnterStores DEF iniparser_set
  <2> QED BY <1>8, <2>1 DEF iniparser_set, Editing, loadVars, ParserTypeOK
<1>9. ASSUME NEW k \in EditKeys, iniparser_unset(k)
      PROVE  ParserTypeOK'
  BY <1>9 DEF iniparser_unset, dictionary_unset, Editing, loadVars, ParserTypeOK
<1>10. CASE Dump
  <2>1. file' \in Seq(IniLine)
    BY <1>10, DumpTypes DEF Dump
  <2> QED BY <1>10, <2>1
          DEF Dump, dictionary_del, loadVars, historyVars, ParserTypeOK
<1>11. CASE Crash
  BY <1>11 DEF Crash, dictionaryVars, loadVars, historyVars, ParserTypeOK
<1>12. CASE UNCHANGED iniparserVars
  BY <1>12 DEF iniparserVars, parserVars, dictionaryVars, loadVars,
               historyVars, ParserTypeOK
<1> QED
  BY <1>2, <1>3, <1>4, <1>5, <1>6, <1>7, <1>8, <1>9, <1>10, <1>11, <1>12
  DEF IniNext, IniLoad, IniEdit

(* errs is the verdict on the last lines.                                  *)
LEMMA VerdictKept ==
    DictInv /\ ParserTypeOK /\ VerdictInv /\ [IniNext]_iniparserVars
    => VerdictInv'
<1> SUFFICES ASSUME DictInv, ParserTypeOK, VerdictInv, [IniNext]_iniparserVars,
                    (ipc = "reading" /\ Unjoined(file))'
             PROVE  VerdictInv'
  BY DEF VerdictInv
<1>1. CASE LoadBegin
  <2>1. lineno' = 0 /\ errs' = 0 /\ last' = NoLine
    BY <1>1 DEF LoadBegin
  <2>2. \A i : i \notin 1..lineno'
    BY <2>1
  <2>3. n' # size'
    <3>1. dictionary_new \/ ipc' = "loaded"
      BY <1>1 DEF LoadBegin
    <3> QED BY <3>1, DictAssumption DEF dictionary_new
  <2> QED BY <2>1, <2>2, <2>3 DEF VerdictInv
<1>2. CASE LineGoesOn
  <2>1. ThisLine.more = file[lineno+1].more /\ ThisLine.more
        /\ lineno + 1 \in DOMAIN file /\ file' = file
    BY <1>2, ReadingLine DEF LineGoesOn
  <2> QED BY <2>1 DEF Unjoined
<1>3. CASE LineRead
  <2>1. /\ lineno + 1 \in DOMAIN file /\ lineno \in Nat
        /\ ipc = "reading" /\ errs \in Int /\ errs >= 0
        /\ file' = file /\ lineno' = lineno + 1 /\ last' = NoLine
        /\ file[lineno+1].kind # "cut"
    BY <1>3, ReadingLine DEF LineRead, NextIsCut, ParserTypeOK
  <2>2. Unjoined(file)
    BY <2>1
  <2>3. /\ last = NoLine
        /\ \A i \in 1..lineno : file[i].kind # "cut"
        /\ heap = "usable" \/ n # size
        /\ errs # 0 <=> \E i \in BadLines(file) \cap 1..lineno :
                           \A j \in GoodLines(file) \cap 1..lineno : j < i
    BY <2>1, <2>2 DEF VerdictInv
  <2>4. ThisLine = file[lineno+1]
    BY <1>3, <2>3, ReadingLine DEF LineRead
  <2> DEFINE new == lineno + 1
             kind == file[new].kind
             Bad(m) == BadLines(file) \cap 1..m
             Good(m) == GoodLines(file) \cap 1..m
             Wrong(m) == \E i \in Bad(m) : \A j \in Good(m) : j < i
  <2>5. /\ \A i \in 1..new : i \in 1..lineno \/ i = new
        /\ \A i \in 1..lineno : i \in 1..new /\ i < new /\ ~(new < i)
        /\ new \in 1..new /\ ~(new < new)
    BY <2>1
  <2>6. \A i \in 1..new : file[i].kind # "cut"
    BY <2>1, <2>3, <2>5
  <2>7. new \in DOMAIN file /\ errs \in Int
        /\ (errs # 0 <=> Wrong(lineno)) /\ errs >= 0
    BY <2>1, <2>3
  <2> HIDE DEF new
  <2>8. CASE kind \in {"section", "value"}
    <3>1. new \in Good(new)
      BY <2>5, <2>7, <2>8 DEF GoodLines
    <3>2. \A i \in Bad(new) : ~(new < i)
      BY <2>5
    <3>3. ~Wrong(new)
      BY <3>1, <3>2
    <3>4. errs' = IF heap' = "usable" THEN 0 ELSE -1
      BY <1>3, <2>4, <2>8 DEF LineRead, ErrsAfterSet, new
    <3>5. heap' = "usable" \/ n' = size'
      <4>1. \E k : \E v \in Values \cup {NULL} : Enter(k, v)
        <5>1. ThisLine.val \in Values \cup {NULL}
          BY <1>3, ReadingLine DEF LineRead, IniLine
        <5>2. Enter(ThisLine.key, NULL)
              \/ Enter(section \o ThisLine.key, ThisLine.val)
          BY <1>3, <2>4, <2>8 DEF LineRead, new
        <5> QED BY <5>1, <5>2
      <4> QED BY <4>1, EnterStores
    <3>6. /\ errs' < 0 <=> heap' # "usable" /\ n' = size'
          /\ errs' >= 0 => (errs' # 0 <=> Wrong(new))
      BY <3>3, <3>4, <3>5
    <3> QED BY <2>1, <2>6, <3>6 DEF VerdictInv, new
  <2>9. CASE kind \in {"blank", "comment"}
    <3>1. new \notin BadLines(file) /\ new \notin GoodLines(file)
      BY <2>9 DEF GoodLines, BadLines
    <3>2. Bad(new) = Bad(lineno) /\ Good(new) = Good(lineno)
      BY <2>5, <3>1, Zenon
    <3>3. errs' = errs /\ UNCHANGED <<heap, n, size>>
      BY <1>3, <2>4, <2>9 DEF LineRead, dictionaryVars, new
    <3>4. errs' >= 0 /\ (errs' # 0 <=> Wrong(new))
      BY <2>7, <3>2, <3>3
    <3>5. ~(errs' < 0) /\ ~(heap' # "usable" /\ n' = size')
      BY <2>3, <2>7, <3>3
    <3> QED BY <2>1, <2>6, <3>4, <3>5 DEF VerdictInv, new
  <2>10. CASE kind = "error"
    <3>1. new \in Bad(new)
      BY <2>5, <2>7, <2>10 DEF BadLines
    <3>2. \A j \in Good(new) : j < new
      BY <2>5, <2>10 DEF GoodLines
    <3>3. Wrong(new)
      BY <3>1, <3>2
    <3>4. errs' = errs + 1 /\ UNCHANGED <<heap, n, size>>
      BY <1>3, <2>4, <2>10 DEF LineRead, dictionaryVars, new
    <3>5. errs' >= 0 /\ (errs' # 0 <=> Wrong(new))
      BY <2>7, <3>3, <3>4
    <3>6. ~(errs' < 0) /\ ~(heap' # "usable" /\ n' = size')
      BY <2>3, <2>7, <3>4
    <3> QED BY <2>1, <2>6, <3>5, <3>6 DEF VerdictInv, new
  <2>11. kind \in {"section", "value", "blank", "comment", "error"}
    BY <1>3, <2>4 DEF LineRead, new
  <2> QED BY <2>8, <2>9, <2>10, <2>11
<1>4. CASE LineTooLong
  BY <1>4 DEF LineTooLong
<1>5. CASE LoadEnd
  BY <1>5 DEF LoadEnd
<1>6. CASE OpenForWriting
  BY <1>6 DEF OpenForWriting
<1>7. CASE IniEdit
  BY <1>7 DEF IniEdit, iniparser_set, iniparser_unset, Editing
<1>8. CASE Dump
  BY <1>8 DEF Dump
<1>9. CASE Crash
  BY <1>9 DEF Crash
<1>10. CASE UNCHANGED iniparserVars
  BY <1>10 DEF iniparserVars, parserVars, dictionaryVars, loadVars, VerdictInv
<1> QED
  BY <1>1, <1>2, <1>3, <1>4, <1>5, <1>6, <1>7, <1>8, <1>9, <1>10
  DEF IniNext, IniLoad

(* What can be got from the dictionary changes with its variables only.    *)
LEMMA SameContents == UNCHANGED dictionaryVars => Contents' = Contents
  BY DEF dictionaryVars, Contents, Matches, dictionary_get, Entry, Slots

(* A load that ends with a table has read its whole file.                  *)
LEMMA WholeFileRead ==
    ASSUME LoadEnd, heap' # "none"
    PROVE  /\ UNCHANGED dictionaryVars /\ errs = 0 /\ lineno = Len(file)
           /\ ipc = "reading"
<1>1. errs = 0 /\ UNCHANGED dictionaryVars
  BY DEF LoadEnd, dictionary_del
<1> QED BY <1>1 DEF LoadEnd, Ending

(* The table is what the lines say, and then what the edits made of it.    *)
LEMMA TableKept ==
    DictInv /\ ParserTypeOK /\ TableInv /\ [IniNext]_iniparserVars => TableInv'
<1> SUFFICES ASSUME DictInv, ParserTypeOK, TableInv, [IniNext]_iniparserVars,
                    (heap = "usable" /\ intact /\ Tidy(before))'
             PROVE  TableInv'
  BY DEF TableInv
<1>1. CASE LoadBegin
  <2>1. CASE dictionary_new /\ ipc' = "reading"
    <3>1. Contents' = [k \in {} |-> NULL]
      BY <2>1, NewEmpty
    <3>2. /\ MeaningUpTo(file, 0) = [k \in {} |-> NULL]
          /\ SectionAt(file, 0) = NoSection
      BY MeaningStep, SectionStep
    <3>3. /\ file' = file /\ lineno' = 0 /\ section' = NoSection
          /\ last' = NoLine /\ wanted' = Meaning(file)
      BY <1>1 DEF LoadBegin
    <3> QED BY <2>1, <3>1, <3>2, <3>3 DEF TableInv
  <2>2. CASE UNCHANGED dictionaryVars
    <3>1. heap' = "none"
      BY <1>1, <2>2 DEF LoadBegin, dictionaryVars, ParserTypeOK
    <3> QED BY <3>1
  <2> QED BY <1>1, <2>1, <2>2 DEF LoadBegin
<1>2. CASE LineTooLong
  BY <1>2 DEF LineTooLong, dictionary_del
<1>3. CASE LineGoesOn
  <2>1. /\ ThisLine.more = file[lineno+1].more /\ ThisLine.more
        /\ lineno + 1 \in DOMAIN file /\ ipc = "reading"
    BY <1>3, ReadingLine DEF LineGoesOn
  <2>2. before' = file
    BY <1>3, <2>1 DEF LineGoesOn, historyVars, ParserTypeOK
  <2> QED BY <2>1, <2>2 DEF Tidy
<1>4. CASE LineRead
  <2>0. heap = "usable"
    BY <1>4, LineOfTable
  <2>1. /\ lineno \in Nat /\ ipc = "reading"
        /\ lineno + 1 \in DOMAIN file
        /\ file' = file /\ lineno' = lineno + 1 /\ last' = NoLine
        /\ UNCHANGED <<ipc, before, wanted>>
    BY <1>4, ReadingLine DEF LineRead, ParserTypeOK
  <2>2. intact => /\ Contents = MeaningUpTo(file, lineno)
                  /\ section = SectionAt(file, lineno)
                  /\ last = NoLine
                  /\ wanted = Meaning(file)
    BY <2>0, <2>1 DEF TableInv
  <2> DEFINE new == lineno + 1
             line == file[new]
             entered == Contents' = Store(Contents, KeyAt(file, new), line.val)
             sect == SectionAt(file, new)
  <2>3. SectionAt(file, new) = IF line.kind = "section" THEN line.key
                               ELSE SectionAt(file, lineno)
    BY <2>1, SectionStep
  <2>4. MeaningUpTo(file, new) =
           IF new \in GoodLines(file)
           THEN Store(MeaningUpTo(file, lineno), KeyAt(file, new), line.val)
           ELSE MeaningUpTo(file, lineno)
    BY <2>1, MeaningStep
  <2>5. new \in GoodLines(file) <=> line.kind \in {"section", "value"}
    BY <2>1 DEF GoodLines
  <2>6. line \in IniLine /\ (last = NoLine => ThisLine = line)
    BY <1>4, ReadingLine DEF LineRead
  <2> HIDE DEF new
  <2>7. CASE ThisLine.kind = "section"
    <3>1. Enter(ThisLine.key, NULL) /\ section' = ThisLine.key
      BY <1>4, <2>7 DEF LineRead
    <3>2. intact /\ Contents' = Store(Contents, ThisLine.key, NULL)
      BY <3>1, EnterStores
    <3>3. ThisLine = line /\ line.val = NULL
      BY <2>2, <2>6, <2>7, <3>2 DEF IniLine
    <3>4. KeyAt(file, new) = line.key
      BY <2>7, <3>3 DEF KeyAt
    <3>5. Contents' = MeaningUpTo(file, new) /\ section' = SectionAt(file, new)
      BY <2>2, <2>3, <2>4, <2>5, <2>7, <3>1, <3>2, <3>3, <3>4
    <3> QED BY <2>1, <2>2, <3>2, <3>5 DEF TableInv, new
  <2>8. CASE ThisLine.kind = "value"
    <3>1. /\ Enter(section \o ThisLine.key, ThisLine.val)
          /\ section' = section
      BY <1>4, <2>8 DEF LineRead
    <3>2. ThisLine.val \in Values \cup {NULL}
      BY <1>4, ReadingLine DEF LineRead, IniLine
    <3>3. /\ intact
          /\ Contents' = Store(Contents, section \o ThisLine.key, ThisLine.val)
      BY <3>1, <3>2, EnterStores
    <3>4. ThisLine = line
      BY <2>2, <2>6, <3>3
    <3>5. SectionAt(file, new) = section
      BY <2>2, <2>3, <2>8, <3>3, <3>4
    <3>6. KeyAt(file, new) = section \o line.key
      BY <2>8, <3>4, <3>5 DEF KeyAt
    <3>7. Contents' = MeaningUpTo(file, new) /\ section' = SectionAt(file, new)
      BY <2>2, <2>4, <2>5, <2>8, <3>1, <3>3, <3>4, <3>5, <3>6
    <3> QED BY <2>1, <2>2, <3>3, <3>7 DEF TableInv, new
  <2>9. CASE ThisLine.kind \notin {"section", "value"}
    <3>1. UNCHANGED dictionaryVars /\ section' = section /\ intact' = intact
      BY <1>4, <2>9 DEF LineRead
    <3>2. Contents' = Contents /\ intact
      BY <3>1, SameContents
    <3>3. ThisLine = line
      BY <2>2, <2>6, <3>2
    <3>4. Contents' = MeaningUpTo(file, new) /\ section' = SectionAt(file, new)
      BY <2>2, <2>3, <2>4, <2>5, <2>9, <3>1, <3>2, <3>3
    <3> QED BY <2>1, <2>2, <3>2, <3>4 DEF TableInv, new
  <2> QED BY <2>7, <2>8, <2>9
<1>5. CASE LoadEnd
  <2>1. UNCHANGED dictionaryVars /\ lineno = Len(file) /\ ipc = "reading"
        /\ ipc' = "loaded" /\ UNCHANGED <<file, loadVars, historyVars>>
    BY <1>5, WholeFileRead DEF LoadEnd
  <2>2. Contents' = Contents /\ heap = "usable"
    BY <2>1, SameContents DEF dictionaryVars
  <2>3. Contents = MeaningUpTo(file, Len(file)) /\ wanted = Meaning(file)
    BY <2>1, <2>2 DEF TableInv, historyVars
  <2>4. Contents' = wanted'
    BY <2>1, <2>2, <2>3 DEF Meaning, historyVars
  <2> QED BY <2>1, <2>4 DEF TableInv
<1>6. CASE OpenForWriting
  <2>1. UNCHANGED <<dictionaryVars, historyVars>> /\ ipc = "loaded"
        /\ ipc' \in {"opened", "idle"}
    BY <1>6 DEF OpenForWriting
  <2>2. Contents' = Contents /\ heap = "usable"
    BY <2>1, SameContents DEF dictionaryVars
  <2>3. Contents' = wanted'
    BY <2>1, <2>2 DEF TableInv, historyVars
  <2> QED BY <2>1, <2>3 DEF TableInv
<1>7. ASSUME NEW k \in EditKeys, NEW v \in EditValues, iniparser_set(k, v)
      PROVE  TableInv'
  <2>1. /\ ipc = "opened" /\ ipc' = "opened" /\ before' = before
        /\ Enter(k, v) /\ wanted' = Store(wanted, k, v)
    BY <1>7 DEF iniparser_set, Editing
  <2>2. /\ heap = "usable" /\ intact
        /\ Contents' = Store(Contents, k, v)
    BY <2>1, IniAssumption, EnterStores
  <2>3. Contents = wanted
    BY <2>1, <2>2 DEF TableInv
  <2> QED BY <2>1, <2>2, <2>3 DEF TableInv
<1>8. ASSUME NEW k \in EditKeys, iniparser_unset(k)
      PROVE  TableInv'
  <2>1. /\ ipc = "opened" /\ ipc' = "opened" /\ before' = before
        /\ dictionary_unset(k) /\ intact' = intact /\ heap = "usable"
        /\ wanted' = [x \in DOMAIN wanted \ {k} |-> wanted[x]]
    BY <1>8 DEF iniparser_unset, Editing, dictionary_unset
  <2>2. Contents' = Restrict(Contents, DOMAIN Contents \ {k})
    BY <2>1, IniAssumption, UnsetCuts
  <2>3. Contents = wanted
    BY <2>1 DEF TableInv
  <2>4. Contents' = [x \in DOMAIN Contents \ {k} |-> Contents[x]]
    BY <2>2 DEF Restrict
  <2>5. Contents' = wanted'
    BY <2>1, <2>3, <2>4, Zenon
  <2> QED BY <2>1, <2>5 DEF TableInv
<1>9. CASE Dump
  BY <1>9 DEF Dump, dictionary_del
<1>10. CASE Crash
  BY <1>10 DEF Crash, dictionaryVars
<1>11. CASE UNCHANGED iniparserVars
  <2>1. Contents' = Contents
    BY <1>11, SameContents DEF iniparserVars
  <2> QED BY <1>11, <2>1 DEF iniparserVars, parserVars, dictionaryVars,
                             loadVars, historyVars, TableInv
<1> QED
  BY <1>1, <1>2, <1>3, <1>4, <1>5, <1>6, <1>7, <1>8, <1>9, <1>10, <1>11
  DEF IniNext, IniLoad, IniEdit

(* A file without sections leaves no section but those that were set.      *)
LEMMA LostKept ==
    DictInv /\ ParserTypeOK /\ LostInv /\ [IniNext]_iniparserVars => LostInv'
<1> DEFINE Known == \A i \in UsedSlots :
                       Len(key[i]) = 1 => key[i] \in DOMAIN wanted
           Sectionless == \A i \in DOMAIN before : ~MayBeSection(before[i])
<1> SUFFICES ASSUME DictInv, ParserTypeOK, LostInv, [IniNext]_iniparserVars,
                    Sectionless'
             PROVE  LostInv'
  BY DEF LostInv
<1>0. ASSUME before' = before
      PROVE  /\ ipc = "reading" => section = NoSection /\ ~MayBeSection(last)
             /\ heap # "none" => Known
  BY <1>0 DEF LostInv
<1>1. CASE LoadBegin
  <2>1. section' = NoSection /\ last' = NoLine
    BY <1>1 DEF LoadBegin
  <2>2. ~MayBeSection(last)'
    BY <2>1, NoLineNoSection DEF MayBeSection, Becoming
  <2>3. heap' # "none" => UsedSlots' = {}
    <3>1. CASE dictionary_new
      BY <3>1 DEF dictionary_new, UsedSlots, Slots
    <3>2. CASE UNCHANGED dictionaryVars
      BY <1>1, <3>2 DEF LoadBegin, dictionaryVars, ParserTypeOK
    <3> QED BY <1>1, <3>1, <3>2 DEF LoadBegin
  <2> QED BY <2>1, <2>2, <2>3 DEF LostInv
<1>2. CASE LineTooLong
  BY <1>2 DEF LineTooLong, dictionary_del, LostInv
<1>3. CASE LineGoesOn \/ LineRead
  <2>1. /\ ipc = "reading" /\ before = file /\ UNCHANGED <<before, wanted>>
        /\ lineno + 1 \in DOMAIN file /\ file[lineno+1] \in IniLine
        /\ last \in IniLine
    BY <1>3, ReadingLine DEF LineGoesOn, LineRead, historyVars, ParserTypeOK
  <2>2. /\ section = NoSection /\ ~MayBeSection(last)
        /\ heap # "none" => Known
    BY <1>0, <2>1
  <2>3. ~MayBeSection(ThisLine) /\ ThisLine \in IniLine
    <3>1. ~MayBeSection(file[lineno+1])
      BY <2>1
    <3>2. ThisLine \in IniLine
      BY <1>3, ReadingLine DEF LineGoesOn, LineRead
    <3> QED BY <2>1, <2>2, <3>1, <3>2, JoinedNoSection DEF ThisLine
  <2>4. ThisLine.kind # "section" /\ Becoming(ThisLine) = {ThisLine}
    BY <2>3, BecomingTypes
  <2>5. CASE LineGoesOn
    <3>1. section' = section /\ last' = ThisLine /\ UNCHANGED dictionaryVars
      BY <2>4, <2>5 DEF LineGoesOn
    <3>2. UsedSlots' = UsedSlots /\ key' = key /\ heap' = heap
      BY <3>1 DEF dictionaryVars, UsedSlots, Slots
    <3>3. ~MayBeSection(last)'
      BY <2>3, <3>1 DEF MayBeSection, Becoming
    <3> QED BY <2>1, <2>2, <3>1, <3>2, <3>3 DEF LostInv
  <2>6. CASE LineRead
    <3>1. section' = section /\ last' = NoLine /\ ipc' = ipc
      BY <2>4, <2>6 DEF LineRead
    <3>2. ~MayBeSection(last)'
      BY <3>1, NoLineNoSection DEF MayBeSection, Becoming
    <3>3. CASE ThisLine.kind = "value"
      <4> DEFINE k == section \o ThisLine.key
      <4>1. Enter(k, ThisLine.val) /\ ThisLine.val \in Values \cup {NULL}
        BY <2>3, <2>6, <3>3 DEF LineRead, IniLine
      <4>2. Len(k) # 1
        <5>1. /\ section \in Seq(Words) /\ Len(section) = 1
              /\ ThisLine.key \in Seq(Words) /\ ThisLine.key # <<>>
          BY <2>2, <2>3, <3>3, NoSectionTypes DEF IniLine
        <5>2. Len(k) = 1 + Len(ThisLine.key)
          <6> DEFINE tail == ThisLine.key
          <6>1. tail \in Seq(Words) /\ section \in Seq(Words)
            BY <5>1
          <6> HIDE DEF tail
          <6>2. Len(section \o tail) = Len(section) + Len(tail)
            BY <6>1
          <6> QED BY <5>1, <6>2 DEF tail
        <5>3. Len(ThisLine.key) # 0
          BY <5>1, EmptySeq
        <5> HIDE DEF k
        <5> QED BY <5>1, <5>2, <5>3
      <4> HIDE DEF k
      <4>3. heap = "usable" /\ Known
        BY <2>2, <4>1, EnterStores
      <4>4. \A i \in UsedSlots' : key'[i] = k \/ \E j \in UsedSlots : key[j] = key'[i]
        BY <4>1, EnterKeys
      <4>5. \A i \in UsedSlots' : Len(key'[i]) = 1 => key'[i] \in DOMAIN wanted
        BY <4>2, <4>3, <4>4
      <4> QED BY <2>1, <2>2, <3>1, <3>2, <4>5 DEF LostInv
    <3>4. CASE ThisLine.kind # "value"
      <4>1. UNCHANGED dictionaryVars
        BY <2>4, <2>6, <3>4 DEF LineRead
      <4>2. UsedSlots' = UsedSlots /\ key' = key /\ heap' = heap
        BY <4>1 DEF dictionaryVars, UsedSlots, Slots
      <4> QED BY <2>1, <2>2, <3>1, <3>2, <4>2 DEF LostInv
    <3> QED BY <3>3, <3>4
  <2> QED BY <1>3, <2>5, <2>6
<1>4. CASE LoadEnd
  <2>1. ipc' = "loaded" /\ UNCHANGED <<before, wanted>>
    BY <1>4 DEF LoadEnd, historyVars
  <2>2. CASE UNCHANGED dictionaryVars
    <3>1. UsedSlots' = UsedSlots /\ key' = key /\ heap' = heap
      BY <2>2 DEF dictionaryVars, UsedSlots, Slots
    <3> QED BY <1>0, <2>1, <3>1 DEF LostInv
  <2>3. CASE dictionary_del
    BY <2>1, <2>3 DEF dictionary_del, LostInv
  <2> QED BY <1>4, <2>2, <2>3 DEF LoadEnd
<1>5. CASE OpenForWriting \/ Crash
  <2>1. ipc' # "reading" /\ UNCHANGED <<dictionaryVars, before, wanted>>
    BY <1>5 DEF OpenForWriting, Crash, historyVars
  <2>2. UsedSlots' = UsedSlots /\ key' = key /\ heap' = heap
    BY <2>1 DEF dictionaryVars, UsedSlots, Slots
  <2> QED BY <1>0, <2>1, <2>2 DEF LostInv
<1>6. ASSUME NEW k \in EditKeys, NEW v \in EditValues, iniparser_set(k, v)
      PROVE  LostInv'
  <2>1. /\ ipc' = "opened" /\ before' = before
        /\ Enter(k, v) /\ wanted' = Store(wanted, k, v)
    BY <1>6 DEF iniparser_set, Editing
  <2>2. heap = "usable" /\ Known
    BY <1>0, <2>1, IniAssumption, EnterStores
  <2>3. \A i \in UsedSlots' : key'[i] = k \/ \E j \in UsedSlots : key[j] = key'[i]
    BY <2>1, IniAssumption, EnterKeys
  <2>4. DOMAIN wanted' = DOMAIN wanted \cup {k}
    BY <2>1 DEF Store
  <2>5. \A i \in UsedSlots' : Len(key'[i]) = 1 => key'[i] \in DOMAIN wanted'
    BY <2>2, <2>3, <2>4
  <2> QED BY <2>1, <2>5 DEF LostInv
<1>7. ASSUME NEW k \in EditKeys, iniparser_unset(k)
      PROVE  LostInv'
  <2>1. /\ ipc' = "opened" /\ before' = before
        /\ dictionary_unset(k) /\ heap = "usable" /\ heap' = "usable"
        /\ wanted' = [x \in DOMAIN wanted \ {k} |-> wanted[x]]
    BY <1>7 DEF iniparser_unset, Editing, dictionary_unset
  <2>2. Known /\ k \in Keys
    BY <1>0, <2>1, IniAssumption
  <2>3. Contents' = Restrict(Contents, DOMAIN Contents \ {k})
    BY <2>1, <2>2, UnsetCuts
  <2>4. DOMAIN Contents' = DOMAIN Contents \ {k}
    BY <2>3 DEF Restrict
  <2>5. DictInv'
    BY <2>1, <2>2, DictNextInv DEF DictNext
  <2>6. \A i \in UsedSlots' : key'[i] # k /\ \E j \in UsedSlots : key[j] = key'[i]
    BY <2>1, <2>4, <2>5, KeyNext, ContentsKeys
  <2>7. DOMAIN wanted' = DOMAIN wanted \ {k}
    BY <2>1
  <2>8. \A i \in UsedSlots' : Len(key'[i]) = 1 => key'[i] \in DOMAIN wanted'
    BY <2>2, <2>6, <2>7
  <2> QED BY <2>1, <2>8 DEF LostInv
<1>8. CASE Dump
  BY <1>8 DEF Dump, dictionary_del, LostInv
<1>9. CASE UNCHANGED iniparserVars
  <2>1. UNCHANGED <<dictionaryVars, ipc, section, last, before, wanted>>
    BY <1>9 DEF iniparserVars, parserVars, loadVars, historyVars
  <2>2. UsedSlots' = UsedSlots /\ key' = key /\ heap' = heap
    BY <2>1 DEF dictionaryVars, UsedSlots, Slots
  <2>3. MayBeSection(last)' = MayBeSection(last)
    BY <2>1 DEF MayBeSection, Becoming
  <2> QED BY <1>0, <2>1, <2>2, <2>3 DEF LostInv
<1> QED
  BY <1>1, <1>2, <1>3, <1>4, <1>5, <1>6, <1>7, <1>8, <1>9
  DEF IniNext, IniLoad, IniEdit

-----------------------------------------------------------------------------
(* A file that was dumped, as blocks of lines, one for each section. *)

(* An ascending enumeration of a set is the order of a loop over it.       *)
LEMMA AscendingIs ==
    ASSUME NEW m \in Nat, NEW T, T \subseteq 0..m-1,
           NEW c \in Nat, NEW f \in [1..c -> T],
           \A t \in T : \E i \in 1..c : f[i] = t,
           \A i, j \in 1..c : i < j => f[i] < f[j]
    PROVE  Cardinality(T) = c /\ InOrder(T) = f
<1> DEFINE rank(x) == Cardinality(Below(T, x))
           S == {i \in Nat : i + 1 \in 1..c => rank(f[i+1]) = i}
<1>1. T \subseteq Nat /\ IsFiniteSet(T)
  <2>1. IsFiniteSet(0..m-1)
    BY FS_Interval
  <2>2. T \subseteq Nat
    OBVIOUS
  <2> QED BY <2>1, <2>2, FS_Subset
<1>2. \A i, j \in 1..c : f[j] < f[i] <=> j < i
  <2> SUFFICES ASSUME NEW i \in 1..c, NEW j \in 1..c
               PROVE  f[j] < f[i] <=> j < i
    OBVIOUS
  <2> DEFINE a == f[i]
             b == f[j]
  <2>1. a \in Nat /\ b \in Nat
    BY <1>1
  <2>2. (i < j => a < b) /\ (j < i => b < a) /\ (i = j => a = b)
    OBVIOUS
  <2> HIDE DEF a, b
  <2>3. b < a <=> j < i
    BY <2>1, <2>2
  <2> QED BY <2>3 DEF a, b
<1>3. 0 \in S
  <2> SUFFICES ASSUME 1 \in 1..c PROVE rank(f[1]) = 0
    OBVIOUS
  <2>1. \A t \in T : ~(t < f[1])
    <3> SUFFICES ASSUME NEW j \in 1..c PROVE ~(f[j] < f[1])
      OBVIOUS
    <3>1. ~(j < 1)
      OBVIOUS
    <3> QED BY <1>2, <3>1
  <2>2. Below(T, f[1]) = {}
    BY <2>1, Zenon DEF Below
  <2> QED BY <2>2, FS_EmptySet
<1>4. ASSUME NEW i \in Nat, i \in S, (i + 1) + 1 \in 1..c
      PROVE  rank(f[(i + 1) + 1]) = i + 1
  <2> DEFINE a == i + 1
             b == (i + 1) + 1
  <2>1. a \in 1..c /\ b \in 1..c /\ \A j \in 1..c : j < b <=> j < a \/ j = a
    BY <1>4
  <2>2. rank(f[a]) = i
    BY <1>4, <2>1
  <2> HIDE DEF a, b
  <2>3. \A t \in T : t < f[b] <=> t < f[a] \/ t = f[a]
    <3> SUFFICES ASSUME NEW j \in 1..c
                 PROVE  f[j] < f[b] <=> f[j] < f[a] \/ f[j] = f[a]
      OBVIOUS
    <3>1. f[j] = f[a] => j = a
      <4>1. f[j] \in Nat /\ f[a] \in Nat
        BY <1>1, <2>1
      <4>2. f[j] = f[a] => ~(f[j] < f[a]) /\ ~(f[a] < f[j])
        BY <4>1
      <4>3. ~(j < a) /\ ~(a < j) => j = a
        BY <2>1
      <4> QED BY <1>2, <2>1, <4>2, <4>3
    <3> QED BY <1>2, <2>1, <3>1
  <2>4. /\ Below(T, f[b]) = Below(T, f[a]) \cup {f[a]}
        /\ f[a] \notin Below(T, f[a])
    <3>1. f[a] \in T
      BY <2>1
    <3>2. ~(f[a] < f[a])
      <4>1. f[a] \in Nat
        BY <1>1, <3>1
      <4> QED BY <4>1
    <3> QED BY <2>3, <3>1, <3>2, Zenon DEF Below
  <2>5. IsFiniteSet(Below(T, f[a]))
    BY <1>1, FS_Subset DEF Below
  <2>6. rank(f[b]) = rank(f[a]) + 1
    BY <2>4, <2>5, FS_AddElement
  <2> QED BY <2>2, <2>6 DEF a, b
<1>5. \A i \in Nat : i \in S => i + 1 \in S
  BY <1>4
<1> HIDE DEF S
<1>6. \A i \in Nat : i \in S
  BY <1>3, <1>5, SetInduction
<1>7. ASSUME NEW i \in 1..c PROVE rank(f[i]) = i - 1
  <2>1. i - 1 \in Nat /\ (i - 1) + 1 = i
    OBVIOUS
  <2>2. i - 1 \in S
    BY <1>6, <2>1
  <2> QED BY <2>1, <2>2 DEF S
<1>8. Cardinality(T) = c
  <2>1. CASE c = 0
    <3>1. T = {}
      BY <2>1
    <3> QED BY <2>1, <3>1, FS_EmptySet
  <2>2. CASE c # 0
    <3>1. c \in 1..c /\ f[c] \in T
      BY <2>2
    <3>2. \A t \in T : t < f[c] \/ t = f[c]
      <4> SUFFICES ASSUME NEW j \in 1..c PROVE f[j] < f[c] \/ f[j] = f[c]
        OBVIOUS
      <4>1. j < c \/ j = c
        OBVIOUS
      <4> QED BY <1>2, <3>1, <4>1
    <3>3. ~(f[c] < f[c])
      <4>1. f[c] \in Nat
        BY <1>1, <3>1
      <4> QED BY <4>1
    <3>4. T = Below(T, f[c]) \cup {f[c]} /\ f[c] \notin Below(T, f[c])
      BY <3>1, <3>2, <3>3, Zenon DEF Below
    <3>5. IsFiniteSet(Below(T, f[c]))
      BY <1>1, FS_Subset DEF Below
    <3>6. Cardinality(T) = rank(f[c]) + 1
      BY <3>4, <3>5, FS_AddElement
    <3>7. rank(f[c]) = c - 1
      BY <1>7, <3>1
    <3> HIDE DEF rank
    <3> QED BY <3>6, <3>7
  <2> QED BY <2>1, <2>2
<1>9. ASSUME NEW i \in 1..c
      PROVE  (CHOOSE x \in T : rank(x) = i - 1) = f[i]
  <2> DEFINE x == CHOOSE x \in T : rank(x) = i - 1
  <2>1. f[i] \in T /\ rank(f[i]) = i - 1
    BY <1>7
  <2>2. x \in T /\ rank(x) = i - 1
    BY <2>1
  <2> HIDE DEF x, rank
  <2>3. PICK j \in 1..c : f[j] = x
    BY <2>2
  <2>4. rank(x) = j - 1
    BY <1>7, <2>3
  <2>5. j = i
    BY <2>2, <2>4
  <2> QED BY <2>3, <2>5 DEF x, rank
<1>10. InOrder(T) = [i \in 1..c |-> CHOOSE x \in T : rank(x) = i - 1]
  BY <1>8 DEF InOrder, Below
<1> HIDE DEF rank
<1>11. InOrder(T) = [i \in 1..c |-> f[i]]
  BY <1>9, <1>10
<1> QED BY <1>8, <1>11

(* Where the blocks begin. *)
Layout(lines, blocks, off) ==
    LET c == Len(blocks) IN
    /\ lines \in Seq(IniLine)
    /\ off \in [1..c+1 -> Nat] /\ off[1] = 0
    /\ \A j \in 1..c :
          /\ off[j+1] = off[j] + Len(blocks[j])
          /\ \A i \in 1..Len(blocks[j]) : lines[off[j] + i] = blocks[j][i]
    /\ Len(lines) = off[c+1] + 1
    /\ lines[off[c+1] + 1] = BlankLine

LEMMA NeverFalls ==
    ASSUME NEW c \in Nat, NEW f \in [1..c -> Nat],
           \A j \in 1..c : j + 1 \in 1..c => f[j] <= f[j+1]
    PROVE  \A i, j \in 1..c : i <= j => f[i] <= f[j]
<1> SUFFICES ASSUME NEW i \in 1..c
             PROVE  \A j \in 1..c : i <= j => f[i] <= f[j]
  OBVIOUS
<1> DEFINE S == {x \in Nat : i + x \in 1..c => f[i] <= f[i+x]}
<1>1. 0 \in S
  OBVIOUS
<1>2. ASSUME NEW x \in Nat, x \in S, i + (x + 1) \in 1..c
      PROVE  f[i] <= f[i+(x+1)]
  <2> DEFINE y == i + x
  <2>1. y \in 1..c /\ y + 1 \in 1..c /\ i + (x + 1) = y + 1
    BY <1>2
  <2>2. f[i] <= f[y]
    BY <1>2, <2>1
  <2> HIDE DEF y
  <2>3. f[y] <= f[y+1] /\ f[i] \in Nat /\ f[y] \in Nat /\ f[y+1] \in Nat
    BY <2>1
  <2>4. f[i] <= f[y+1]
    BY <2>2, <2>3
  <2>5. f[i+(x+1)] = f[y+1]
    BY <2>1
  <2> QED BY <2>4, <2>5
<1>3. \A x \in Nat : x \in S => x + 1 \in S
  BY <1>2
<1> HIDE DEF S
<1>4. \A x \in Nat : x \in S
  BY <1>1, <1>3, SetInduction
<1>5. ASSUME NEW j \in 1..c, i <= j PROVE f[i] <= f[j]
  <2>1. j - i \in Nat /\ i + (j - i) = j
    BY <1>5
  <2>2. j - i \in S
    BY <1>4, <2>1
  <2> QED BY <2>1, <2>2 DEF S
<1> QED BY <1>5

LEMMA LayoutExists ==
    ASSUME NEW blocks \in Seq(Seq(IniLine)), Len(blocks) # 0
    PROVE  \E off : Layout(FlattenSeq(blocks) \o <<BlankLine>>, blocks, off)
<1> DEFINE c == Len(blocks)
           end == <<BlankLine>>
<1>1. PICK join : Joins(join, blocks, IniLine, c) /\ FlattenSeq(blocks) = join[c]
  BY Flattens
<1> DEFINE off == [j \in 1..c+1 |-> IF j = 1 THEN 0 ELSE Len(join[j-1])]
           At(m, j) == \A i \in 1..Len(blocks[j]) :
                          join[m][off[j] + i] = blocks[j][i]
           S == {m \in Nat : m + 1 \in 1..c => \A j \in 1..m+1 : At(m + 1, j)}
<1>2. c \in Nat /\ c \in 1..c /\ \A j \in 1..c : blocks[j] \in Seq(IniLine)
  OBVIOUS
<1>3. \A j \in 1..c : join[j] \in Seq(IniLine)
  BY <1>1 DEF Joins
<1>4. off[1] = 0 /\ \A j \in 1..c : off[j+1] = Len(join[j])
  <2> HIDE DEF c
  <2>1. off[1] = 0
    BY <1>2
  <2>2. \A j \in 1..c : j + 1 \in 1..c+1 /\ j + 1 # 1 /\ (j + 1) - 1 = j
    BY <1>2
  <2> QED BY <2>1, <2>2
<1>5. off \in [1..c+1 -> Nat]
  <2>1. \A j \in 1..c+1 : j # 1 => j - 1 \in 1..c
    BY <1>2
  <2>2. \A j \in 1..c : Len(join[j]) \in Nat
    BY <1>3
  <2> HIDE DEF c
  <2> QED BY <2>1, <2>2
<1> HIDE DEF off, c
<1>6. join[1] = blocks[1]
  <2>1. 1 \in 1..c
    BY <1>2
  <2> QED BY <1>1, <2>1 DEF Joins
<1>7. ASSUME NEW j \in 1..c, j + 1 \in 1..c
      PROVE  join[j+1] = join[j] \o blocks[j+1]
  <2>1. j + 1 # 1 /\ (j + 1) - 1 = j
    BY <1>2
  <2> QED BY <1>1, <1>7, <2>1 DEF Joins
<1>8. \A j \in 1..c : off[j+1] = off[j] + Len(blocks[j])
  <2> SUFFICES ASSUME NEW j \in 1..c
               PROVE  off[j+1] = off[j] + Len(blocks[j])
    OBVIOUS
  <2>1. CASE j = 1
    <3>1. Len(blocks[1]) \in Nat
      BY <1>2, <2>1
    <3> QED BY <1>4, <1>6, <2>1, <3>1
  <2>2. CASE j # 1
    <3> DEFINE k == j - 1
    <3>1. k \in 1..c /\ k + 1 = j
      BY <1>2, <2>2
    <3> HIDE DEF k
    <3>2. join[j] = join[k] \o blocks[j]
      BY <1>7, <3>1
    <3>3. join[k] \in Seq(IniLine) /\ blocks[j] \in Seq(IniLine)
      BY <1>2, <1>3, <3>1
    <3>4. Len(join[j]) = Len(join[k]) + Len(blocks[j])
      BY <3>2, <3>3
    <3> QED BY <1>4, <3>1, <3>4
  <2> QED BY <2>1, <2>2
<1>9. \A i, j \in 1..c+1 : i <= j => off[i] <= off[j]
  <2>1. \A j \in 1..c+1 : j + 1 \in 1..c+1 => off[j] <= off[j+1]
    <3> SUFFICES ASSUME NEW j \in 1..c PROVE off[j] <= off[j+1]
      BY <1>2
    <3>1. off[j] \in Nat /\ Len(blocks[j]) \in Nat
      BY <1>2, <1>5
    <3> QED BY <1>8, <3>1
  <2>2. c + 1 \in Nat
    BY <1>2
  <2> QED BY <1>5, <2>1, <2>2, NeverFalls
<1>10. 0 \in S
  <2> SUFFICES ASSUME NEW i \in 1..Len(blocks[1])
               PROVE  join[1][off[1] + i] = blocks[1][i]
    BY <1>2
  <2>1. off[1] + i = i
    BY <1>4
  <2> QED BY <1>6, <2>1
<1>11. ASSUME NEW m \in Nat, m \in S, (m + 1) + 1 \in 1..c,
              NEW j \in 1..(m+1)+1
       PROVE  At((m + 1) + 1, j)
  <2> DEFINE a == m + 1
             b == (m + 1) + 1
  <2>1. a \in 1..c /\ b \in 1..c /\ a + 1 = b /\ (j \in 1..a \/ j = b)
    BY <1>2, <1>11
  <2>2. \A x \in 1..a : At(a, x)
    BY <1>11, <2>1
  <2> HIDE DEF a, b
  <2>3. join[b] = join[a] \o blocks[b]
    BY <1>7, <2>1
  <2>4. join[a] \in Seq(IniLine) /\ blocks[b] \in Seq(IniLine)
    BY <1>2, <1>3, <2>1
  <2>5. \A i \in 1..Len(join[a]) : join[b][i] = join[a][i]
    <3>1. \A i \in 1..Len(join[a]) : (join[a] \o blocks[b])[i] = join[a][i]
      BY <2>4, FirstPart, Zenon
    <3> QED BY <2>3, <3>1
  <2>6. \A i \in 1..Len(blocks[b]) : join[b][Len(join[a]) + i] = blocks[b][i]
    <3> DEFINE p == join[a]
               q == blocks[b]
    <3>1. p \in Seq(IniLine) /\ q \in Seq(IniLine)
      BY <2>4
    <3> HIDE DEF p, q
    <3>2. \A i \in 1..Len(q) : (p \o q)[Len(p) + i] = q[i]
      BY <3>1, SecondPart, Zenon
    <3> QED BY <2>3, <3>2 DEF p, q
  <2>7. off[b] = Len(join[a])
    BY <1>4, <2>1
  <2>8. CASE j = b
    BY <2>6, <2>7, <2>8 DEF b
  <2>9. CASE j \in 1..a
    <3>1. j \in 1..c /\ At(a, j)
      BY <1>2, <2>1, <2>2, <2>9
    <3>2. ASSUME NEW i \in 1..Len(blocks[j])
          PROVE  off[j] + i \in 1..Len(join[a])
      <4>1. off[j+1] <= off[b] /\ off[j+1] = off[j] + Len(blocks[j])
        BY <1>2, <1>8, <1>9, <2>1, <2>9, <3>1
      <4>2. off[j] \in Nat /\ Len(blocks[j]) \in Nat /\ off[b] \in Nat
        BY <1>2, <1>5, <2>1, <3>1
      <4> DEFINE u == off[j]
                 w == off[b]
                 more == Len(blocks[j])
      <4>3. u + i \in 1..w
        <5>1. u \in Nat /\ w \in Nat /\ more \in Nat /\ u + more <= w
              /\ i \in 1..more
          BY <4>1, <4>2, Zenon
        <5> HIDE DEF u, w, more
        <5> QED BY <5>1
      <4> QED BY <2>7, <4>3, Zenon
    <3> QED BY <2>5, <3>1, <3>2 DEF b
  <2> QED BY <2>1, <2>8, <2>9
<1>12. ASSUME NEW m \in Nat, m \in S PROVE m + 1 \in S
  BY <1>11, <1>12
<1> HIDE DEF S
<1>13. c - 1 \in S
  <2>1. \A m \in Nat : m \in S
    BY <1>10, <1>12, SetInduction
  <2>2. c - 1 \in Nat
    BY <1>2
  <2> QED BY <2>1, <2>2
<1>14. \A j \in 1..c : At(c, j)
  <2>1. (c - 1) + 1 = c
    BY <1>2
  <2> QED BY <1>2, <1>13, <2>1 DEF S
<1> DEFINE all == join[c]
<1>15. /\ all \in Seq(IniLine) /\ end \in Seq(IniLine)
       /\ Len(end) = 1 /\ end[1] = BlankLine
  BY <1>2, <1>3, LineTypes
<1>16. off[c+1] = Len(all)
  BY <1>2, <1>4
<1> DEFINE lines == all \o end
<1> HIDE DEF all, end
<1>17. /\ lines \in Seq(IniLine) /\ Len(lines) = Len(all) + Len(end)
       /\ \A i \in 1..Len(all) : lines[i] = all[i]
  BY <1>15, FirstPart, Zenon
<1>18. \A i \in 1..Len(end) : lines[Len(all) + i] = end[i]
  <2>1. all \in Seq(IniLine) /\ end \in Seq(IniLine)
    BY <1>15
  <2> QED BY <2>1, SecondPart, Zenon
<1>19. lines[Len(all) + 1] = BlankLine /\ Len(lines) = Len(all) + 1
  <2>1. 1 \in 1..Len(end)
    BY <1>15
  <2> QED BY <1>15, <1>17, <1>18, <2>1
<1> HIDE DEF lines
<1>20. ASSUME NEW j \in 1..c, NEW i \in 1..Len(blocks[j])
       PROVE  lines[off[j] + i] = blocks[j][i]
  <2>1. off[j] + i \in 1..Len(all)
    <3>1. off[j+1] <= off[c+1] /\ off[j+1] = off[j] + Len(blocks[j])
      BY <1>2, <1>8, <1>9
    <3>2. off[j] \in Nat /\ Len(blocks[j]) \in Nat /\ off[c+1] \in Nat
      BY <1>2, <1>5
    <3> DEFINE u == off[j]
               w == off[c+1]
               more == Len(blocks[j])
    <3>3. u + i \in 1..w
      <4>1. u \in Nat /\ w \in Nat /\ more \in Nat /\ u + more <= w
            /\ i \in 1..more
        BY <3>1, <3>2, Zenon
      <4> HIDE DEF u, w, more
      <4> QED BY <4>1
    <3> QED BY <1>16, <3>3, Zenon
  <2> QED BY <1>14, <1>17, <2>1 DEF all
<1>21. Layout(lines, blocks, off)
  BY <1>4, <1>5, <1>8, <1>16, <1>17, <1>19, <1>20 DEF Layout, c
<1> QED BY <1>1, <1>21 DEF lines, all, end, c

-----------------------------------------------------------------------------
(* What iniparser_dump_ini writes: blocks that open different sections,    *)
(* each with different keys, whose values are read as they are written.    *)
IsBlock(block) ==
    /\ block \in Seq(IniLine) /\ Len(block) >= 2
    /\ block[1] = BlankLine
    /\ block[2] = SectionLine(block[2].key) /\ Len(block[2].key) = 1
    /\ \A i \in 3..Len(block) :
          /\ block[i] = ValueLine(block[i].key, block[i].val)
          /\ block[i].val \in Values /\ Reread[block[i].val] = block[i].val

Blocks(B) ==
    /\ B \in Seq(Seq(IniLine)) /\ Len(B) # 0
    /\ \A j \in 1..Len(B) : IsBlock(B[j])
    /\ \A i, j \in 1..Len(B) : B[i][2].key = B[j][2].key => i = j
    /\ \A j \in 1..Len(B) : \A x, y \in 3..Len(B[j]) :
          B[j][x].key = B[j][y].key => x = y

FileOf(B) == FlattenSeq(B) \o <<BlankLine>>

Written(lines) == \E B : Blocks(B) /\ lines = FileOf(B)

LEMMA BlockFacts ==
    ASSUME NEW B, Blocks(B), NEW j \in 1..Len(B)
    PROVE  /\ IsBlock(B[j]) /\ B[j] \in Seq(IniLine)
           /\ Len(B[j]) \in Nat /\ Len(B[j]) >= 2
           /\ B[j][1].kind = "blank"
           /\ B[j][2].kind = "section" /\ Len(B[j][2].key) = 1
           /\ B[j][2].key \in Seq(Words) /\ B[j][2].val = NULL
           /\ \A i \in 1..Len(B[j]) : B[j][i] \in IniLine /\ ~B[j][i].more
           /\ \A i \in 3..Len(B[j]) : /\ B[j][i].kind = "value"
                                      /\ B[j][i].key \in Seq(Words) \ {<<>>}
<1> DEFINE b == B[j]
<1>1. IsBlock(b)
  BY DEF Blocks
<1> HIDE DEF b
<1>2. b \in Seq(IniLine) /\ Len(b) \in Nat /\ Len(b) >= 2
  BY <1>1 DEF IsBlock
<1>3. \A i \in 1..Len(b) : b[i] \in IniLine
  BY <1>2
<1>4. /\ b[1].kind = "blank" /\ ~b[1].more
      /\ b[2].kind = "section" /\ ~b[2].more /\ b[2].val = NULL
      /\ Len(b[2].key) = 1
  BY <1>1 DEF IsBlock, BlankLine, SectionLine, Line
<1>5. \A i \in 3..Len(b) : b[i].kind = "value" /\ ~b[i].more
  <2> SUFFICES ASSUME NEW i \in 3..Len(b)
               PROVE  b[i].kind = "value" /\ ~b[i].more
    OBVIOUS
  <2>1. b[i] = ValueLine(b[i].key, b[i].val)
    BY <1>1 DEF IsBlock
  <2>2. \A k, v : /\ ValueLine(k, v).kind = "value"
                  /\ ~ValueLine(k, v).more
    BY DEF ValueLine, Line
  <2> QED BY <2>1, <2>2, Zenon
<1>6. \A i \in 1..Len(b) : i \in 3..Len(b) \/ i = 1 \/ i = 2
  BY <1>2
<1>7. \A i \in 1..Len(b) : ~b[i].more
  BY <1>4, <1>5, <1>6
<1>8. \A line \in IniLine :
         /\ line.kind \in {"section", "value"}
               => line.key \in Seq(Words) \ {<<>>}
         /\ line.key \in Seq(Words)
  BY DEF IniLine
<1>9. /\ b[2].key \in Seq(Words)
      /\ \A i \in 3..Len(b) : b[i].key \in Seq(Words) \ {<<>>}
  <2>1. 2 \in 1..Len(b) /\ \A i \in 3..Len(b) : i \in 1..Len(b)
    BY <1>2
  <2> QED BY <1>3, <1>5, <1>8, <2>1
<1> QED BY <1>1, <1>2, <1>3, <1>4, <1>5, <1>7, <1>9 DEF b

(* Where the lines of the blocks are. *)
LEMMA LinesOfBlocks ==
    ASSUME NEW B, Blocks(B), NEW lines, NEW off, Layout(lines, B, off)
    PROVE  /\ \A j \in 1..Len(B) : \A i \in 1..Len(B[j]) :
                 /\ off[j] + i \in DOMAIN lines
                 /\ lines[off[j] + i] = B[j][i]
                 /\ \A x \in 1..Len(B) : x > j => off[j] + i <= off[x]
           /\ \A x \in DOMAIN lines :
                 \/ x = Len(lines) /\ lines[x] = BlankLine
                 \/ \E j \in 1..Len(B) : \E i \in 1..Len(B[j]) : x = off[j] + i
<1> DEFINE c == Len(B)
<1>1. /\ lines \in Seq(IniLine) /\ off \in [1..c+1 -> Nat] /\ off[1] = 0
      /\ \A j \in 1..c :
            /\ off[j+1] = off[j] + Len(B[j])
            /\ \A i \in 1..Len(B[j]) : lines[off[j] + i] = B[j][i]
      /\ Len(lines) = off[c+1] + 1
      /\ lines[off[c+1] + 1] = BlankLine
  BY DEF Layout
<1>2. c \in Nat /\ c # 0 /\ \A j \in 1..c : Len(B[j]) \in Nat
  <2>1. B \in Seq(Seq(IniLine)) /\ c # 0
    BY DEF Blocks
  <2> QED BY <2>1, BlockFacts
<1>3. DOMAIN lines = 1..Len(lines)
  BY <1>1
<1> HIDE DEF c
<1>4. \A i, j \in 1..c+1 : i <= j => off[i] <= off[j]
  <2>1. \A j \in 1..c+1 : j + 1 \in 1..c+1 => off[j] <= off[j+1]
    <3> SUFFICES ASSUME NEW j \in 1..c PROVE off[j] <= off[j+1]
      BY <1>2
    <3>1. off[j] \in Nat /\ Len(B[j]) \in Nat
      BY <1>1, <1>2
    <3> QED BY <1>1, <3>1
  <2>2. c + 1 \in Nat
    BY <1>2
  <2> QED BY <1>1, <2>1, <2>2, NeverFalls
<1>5. ASSUME NEW j \in 1..c, NEW i \in 1..Len(B[j]), NEW x \in 1..c+1, x > j
      PROVE  off[j] + i <= off[x]
  <2>1. j + 1 \in 1..c+1 /\ j + 1 <= x
    BY <1>2, <1>5
  <2>2. off[j+1] <= off[x] /\ off[j+1] = off[j] + Len(B[j])
    BY <1>1, <1>4, <2>1
  <2>3. off[j] \in Nat /\ off[x] \in Nat /\ Len(B[j]) \in Nat
    BY <1>1, <1>2
  <2> QED BY <2>2, <2>3
<1>6. ASSUME NEW j \in 1..c, NEW i \in 1..Len(B[j])
      PROVE  off[j] + i \in DOMAIN lines
  <2>1. c + 1 \in 1..c+1 /\ c + 1 > j
    BY <1>2
  <2>2. off[j] + i <= off[c+1]
    BY <1>5, <2>1
  <2>3. off[j] \in Nat /\ off[c+1] \in Nat /\ Len(B[j]) \in Nat
    BY <1>1, <1>2, <2>1
  <2> QED BY <1>1, <1>3, <2>2, <2>3
<1>7. ASSUME NEW x \in DOMAIN lines, x # Len(lines)
      PROVE  \E j \in 1..c : \E i \in 1..Len(B[j]) : x = off[j] + i
  <2> DEFINE D == {j \in 1..c : off[j] < x}
             j == Max(D)
  <2>1. 1 \in D
    BY <1>1, <1>2, <1>3
  <2>2. j \in D /\ \A y \in D : y <= j
    <3>1. D \subseteq Nat /\ \A y \in D : y <= c
      BY <1>2
    <3> HIDE DEF D
    <3> QED BY <1>2, <2>1, <3>1, MaxExists
  <2>3. j \in 1..c /\ off[j] < x /\ ~(j + 1 \in D)
    BY <2>2
  <2> HIDE DEF j
  <2>4. x <= off[j+1]
    <3>1. CASE j = c
      <4>1. off[c+1] \in Nat
        BY <1>1, <1>2
      <4> QED BY <1>1, <1>3, <1>7, <3>1, <4>1
    <3>2. CASE j # c
      <4>1. j + 1 \in 1..c
        BY <1>2, <2>3, <3>2
      <4>2. ~(off[j+1] < x)
        BY <2>3, <4>1
      <4>3. off[j+1] \in Nat
        <5>1. j + 1 \in 1..c+1
          BY <1>2, <4>1
        <5> QED BY <1>1, <5>1
      <4>4. x \in Nat
        BY <1>1, <1>3
      <4> QED BY <4>2, <4>3, <4>4
    <3> QED BY <3>1, <3>2
  <2>5. x - off[j] \in 1..Len(B[j]) /\ x = off[j] + (x - off[j])
    <3>1. off[j+1] = off[j] + Len(B[j]) /\ off[j] \in Nat /\ x \in Nat
          /\ Len(B[j]) \in Nat
      BY <1>1, <1>2, <1>3, <2>3
    <3> DEFINE u == off[j]
               w == off[j+1]
               more == Len(B[j])
    <3>2. w = u + more /\ u < x /\ x <= w
          /\ u \in Nat /\ x \in Nat /\ more \in Nat
      BY <2>3, <2>4, <3>1, Zenon
    <3>3. x - u \in 1..more /\ x = u + (x - u)
      <4> HIDE DEF u, w, more
      <4> QED BY <3>2
    <3> QED BY <3>3, Zenon
  <2> QED BY <2>3, <2>5
<1>8. \A x \in DOMAIN lines : x = Len(lines) => lines[x] = BlankLine
  BY <1>1
<1>9. ASSUME NEW j \in 1..c, NEW i \in 1..Len(B[j]), NEW x \in 1..c, x > j
      PROVE  off[j] + i <= off[x]
  <2>1. x \in 1..c+1
    BY <1>2
  <2> QED BY <1>5, <1>9, <2>1, Zenon
<1> QED BY <1>1, <1>6, <1>7, <1>8, <1>9, Zenon DEF c

LEMMA HeadAndTail ==
    ASSUME NEW T, NEW s \in Seq(T), Len(s) = 1, NEW k \in Seq(T) \ {<<>>}
    PROVE  /\ s \o k \in Seq(T) /\ Len(s \o k) > 1
           /\ <<(s \o k)[1]>> = s /\ Tail(s \o k) = k
<1>1. Len(k) \in Nat /\ Len(k) # 0
  BY EmptySeq
<1>2. /\ s \o k \in Seq(T) /\ Len(s \o k) = Len(k) + 1
      /\ \A i \in 1..Len(s) : (s \o k)[i] = s[i]
      /\ \A i \in 1..Len(k) : (s \o k)[Len(s) + i] = k[i]
  <2>1. k \in Seq(T)
    OBVIOUS
  <2>2. /\ s \o k \in Seq(T) /\ Len(s \o k) = Len(s) + Len(k)
        /\ \A i \in 1..Len(s) : (s \o k)[i] = s[i]
    BY <2>1, FirstPart, Zenon
  <2>3. \A i \in 1..Len(k) : (s \o k)[Len(s) + i] = k[i]
    BY <2>1, SecondPart, Zenon
  <2> QED BY <1>1, <2>2, <2>3
<1> DEFINE sk == s \o k
<1>3. sk[1] = s[1]
  BY <1>2
<1>4. s = <<s[1]>>
  OBVIOUS
<1>5. \A i \in 1..Len(k) : sk[i + 1] = k[i]
  <2>1. \A i \in 1..Len(k) : Len(s) + i = i + 1
    BY <1>1
  <2> QED BY <1>2, <2>1
<1>6. Tail(sk) = k
  <2>1. sk \in Seq(T) /\ Len(sk) = Len(k) + 1
    BY <1>2
  <2> HIDE DEF sk
  <2>2. /\ Tail(sk) \in Seq(T) /\ Len(Tail(sk)) = Len(k)
        /\ \A i \in 1..Len(k) : Tail(sk)[i] = sk[i + 1]
    BY <1>1, <2>1
  <2> QED BY <1>5, <2>2
<1> QED BY <1>1, <1>2, <1>3, <1>4, <1>6

(* The section that a key lies in. *)
SectionOf(k) == <<k[1]>>

(* The key of a line of a block. *)
KeyIn(B, j, i) ==
    IF i = 2 THEN B[j][2].key ELSE B[j][2].key \o B[j][i].key

(* It tells the section and the line. *)
Locates(k, block, i) ==
    /\ k \in Seq(Words) \ {<<>>}
    /\ SectionOf(k) = block[2].key
    /\ Len(k) = 1 <=> i = 2
    /\ Len(k) > 1 <=> i # 2
    /\ i # 2 => Tail(k) = block[i].key

LEMMA KeyFacts ==
    ASSUME NEW B, Blocks(B), NEW j \in 1..Len(B), NEW i \in 2..Len(B[j])
    PROVE  Locates(KeyIn(B, j, i), B[j], i)
<1> DEFINE s == B[j][2].key
           k == B[j][i].key
<1>1. s \in Seq(Words) /\ Len(s) = 1
  BY BlockFacts
<1>2. CASE i = 2
  <2>1. KeyIn(B, j, i) = s
    BY <1>2 DEF KeyIn
  <2>2. s = <<s[1]>> /\ s # <<>>
    <3> HIDE DEF s
    <3> QED BY <1>1
  <2>3. Len(KeyIn(B, j, i)) = 1 /\ ~(Len(KeyIn(B, j, i)) > 1)
    <3>1. Len(KeyIn(B, j, i)) = 1
      BY <1>1, <2>1, Zenon
    <3> QED BY <3>1
  <2>4. SectionOf(KeyIn(B, j, i)) = s
    BY <2>1, <2>2 DEF SectionOf
  <2> QED BY <1>1, <1>2, <2>1, <2>2, <2>3, <2>4, Zenon DEF Locates
<1>3. CASE i # 2
  <2>1. i \in 3..Len(B[j])
    BY <1>3
  <2>2. k \in Seq(Words) \ {<<>>}
    BY <2>1, BlockFacts
  <2>3. KeyIn(B, j, i) = s \o k
    BY <1>3 DEF KeyIn
  <2> HIDE DEF s, k
  <2>4. /\ s \o k \in Seq(Words) /\ Len(s \o k) > 1
        /\ <<(s \o k)[1]>> = s /\ Tail(s \o k) = k
    BY <1>1, <2>2, HeadAndTail
  <2>5. s \o k # <<>> /\ Len(s \o k) # 1
    BY <2>4
  <2> QED BY <1>3, <2>3, <2>4, <2>5, Zenon DEF s, k, SectionOf, Locates
<1> QED BY <1>2, <1>3

LEMMA KeysApart ==
    ASSUME NEW B, Blocks(B),
           NEW j \in 1..Len(B), NEW i \in 2..Len(B[j]),
           NEW y \in 1..Len(B), NEW x \in 2..Len(B[y])
    PROVE  KeyIn(B, j, i) = KeyIn(B, y, x) => j = y /\ i = x
<1> DEFINE a == KeyIn(B, j, i)
           b == KeyIn(B, y, x)
<1>1. /\ SectionOf(a) = B[j][2].key
      /\ Len(a) = 1 <=> i = 2
      /\ i # 2 => Tail(a) = B[j][i].key
  <2>1. Locates(a, B[j], i)
    BY KeyFacts, Zenon
  <2> HIDE DEF a, b
  <2> QED BY <2>1, Zenon DEF Locates
<1>2. /\ SectionOf(b) = B[y][2].key
      /\ Len(b) = 1 <=> x = 2
      /\ x # 2 => Tail(b) = B[y][x].key
  <2>1. Locates(b, B[y], x)
    BY KeyFacts, Zenon
  <2> HIDE DEF a, b
  <2> QED BY <2>1, Zenon DEF Locates
<1> HIDE DEF a, b
<1> SUFFICES ASSUME a = b PROVE j = y /\ i = x
  BY DEF a, b
<1>3. j = y
  <2>1. B[j][2].key = B[y][2].key
    BY <1>1, <1>2
  <2> QED BY <2>1 DEF Blocks
<1>4. i = 2 <=> x = 2
  BY <1>1, <1>2
<1>5. CASE i # 2
  <2>1. B[j][i].key = B[j][x].key
    BY <1>1, <1>2, <1>3, <1>4, <1>5
  <2>2. i \in 3..Len(B[j]) /\ x \in 3..Len(B[j])
    BY <1>3, <1>4, <1>5
  <2>3. i = x
    BY <2>1, <2>2 DEF Blocks
  <2> QED BY <1>3, <2>3
<1> QED BY <1>3, <1>4, <1>5

(* What a line of a block means in the file. *)
LEMMA GoodOfBlocks ==
    ASSUME NEW B, Blocks(B), NEW lines, NEW off, Layout(lines, B, off)
    PROVE  /\ \A j \in 1..Len(B) : \A i \in 2..Len(B[j]) :
                 /\ off[j] + i \in GoodLines(lines)
                 /\ lines[off[j] + i] = B[j][i]
                 /\ KeyAt(lines, off[j] + i) = KeyIn(B, j, i)
           /\ \A x \in GoodLines(lines) :
                 \E j \in 1..Len(B) : \E i \in 2..Len(B[j]) : x = off[j] + i
<1>1. ASSUME NEW j \in 1..Len(B), NEW i \in 2..Len(B[j])
      PROVE  /\ off[j] + i \in GoodLines(lines)
             /\ lines[off[j] + i] = B[j][i]
             /\ KeyAt(lines, off[j] + i) = KeyIn(B, j, i)
  <2> DEFINE c == off[j]
             b == B[j]
             s == b[2].key
             H == {x \in 1..c+i : lines[x].kind = "section"}
  <2>1. Len(b) \in Nat /\ Len(b) >= 2
    BY BlockFacts
  <2>2. /\ b[2].kind = "section"
        /\ \A x \in 3..Len(b) : b[x].kind = "value"
    BY BlockFacts
  <2>3. c \in Nat
    <3>1. Len(B) \in Nat
      BY DEF Blocks
    <3>2. j \in 1..Len(B)+1
      BY <3>1
    <3> QED BY <3>2 DEF Layout
  <2>4. \A x \in 1..Len(b) : c + x \in DOMAIN lines /\ lines[c + x] = b[x]
    BY LinesOfBlocks
  <2> HIDE DEF b, c
  <2>5. c + 2 \in H
    <3>1. c + 2 \in 1..c+i /\ 2 \in 1..Len(b)
      BY <2>1, <2>3
    <3> QED BY <2>2, <2>4, <3>1
  <2>6. H \subseteq Nat
    BY <2>3
  <2>7. \A y \in H : y <= c + 2
    <3> SUFFICES ASSUME NEW y \in H, y > c + 2 PROVE FALSE
      BY <2>3, <2>6
    <3> DEFINE x == y - c
    <3>1. y \in 1..c+i /\ lines[y].kind = "section"
      BY Zenon
    <3> HIDE DEF H
    <3>2. x \in 3..Len(b) /\ x \in 1..Len(b) /\ y = c + x
      <4>1. i \in 2..Len(b)
        BY DEF b
      <4> QED BY <2>1, <2>3, <3>1, <4>1
    <3> HIDE DEF x
    <3> QED BY <2>2, <2>4, <3>1, <3>2
  <2>8. H # {} /\ Max(H) = c + 2
    <3> HIDE DEF H
    <3> QED BY <2>5, <2>6, <2>7, MaxIs
  <2>9. SectionAt(lines, c + i) = IF H = {} THEN NoSection
                                  ELSE lines[Max(H)].key
    BY DEF SectionAt
  <2> HIDE DEF H
  <2>10. lines[c + 2] = b[2] /\ lines[c + i] = b[i] /\ c + i \in DOMAIN lines
    <3>1. 2 \in 1..Len(b) /\ i \in 1..Len(b)
      BY <2>1 DEF b
    <3> QED BY <2>4, <3>1
  <2>11. SectionAt(lines, c + i) = s
    BY <2>8, <2>9, <2>10 DEF s
  <2>12. CASE i = 2
    <3>1. b[i].kind = "section"
      BY <2>2, <2>12
    <3> QED BY <2>10, <2>12, <3>1 DEF GoodLines, KeyAt, KeyIn, b, c
  <2>13. CASE i # 2
    <3>1. i \in 3..Len(b)
      BY <2>1, <2>13 DEF b
    <3>2. b[i].kind = "value"
      BY <2>2, <3>1
    <3>3. KeyAt(lines, c + i) = s \o b[i].key
      BY <2>10, <2>11, <3>2 DEF KeyAt
    <3> QED BY <2>10, <2>13, <3>2, <3>3 DEF GoodLines, KeyIn, b, c, s
  <2> QED BY <2>12, <2>13
<1>2. ASSUME NEW x \in GoodLines(lines)
      PROVE  \E j \in 1..Len(B) : \E i \in 2..Len(B[j]) : x = off[j] + i
  <2>1. x \in DOMAIN lines /\ lines[x].kind \in {"section", "value"}
    BY DEF GoodLines
  <2>2. lines[x] # BlankLine
    BY <2>1 DEF BlankLine, Line
  <2>3. PICK j \in 1..Len(B) : \E i \in 1..Len(B[j]) : x = off[j] + i
    BY <2>1, <2>2, LinesOfBlocks
  <2>4. PICK i \in 1..Len(B[j]) : x = off[j] + i
    BY <2>3
  <2>5. lines[x] = B[j][i]
    BY <2>4, LinesOfBlocks
  <2>6. i # 1
    BY <2>1, <2>5, BlockFacts
  <2>7. i \in 2..Len(B[j])
    BY <2>6
  <2> QED BY <2>4, <2>7
<1> QED BY <1>1, <1>2

LEMMA InOrderApart ==
    ASSUME DictInv, NEW T, T \subseteq UsedSlots
    PROVE  \A i, j \in DOMAIN InOrder(T) :
              InOrder(T)[i] = InOrder(T)[j] => i = j
<1> DEFINE f == InOrder(T)
           c == Cardinality(T)
<1>1. T \subseteq 0..size-1 /\ size \in Nat
  BY UsedTypes
<1>2. /\ c \in Nat /\ f \in [1..c -> T]
      /\ \A i, j \in 1..c : i < j => f[i] < f[j]
  BY <1>1, InOrderLists
<1>3. DOMAIN f = 1..c
  <2> HIDE DEF f
  <2> QED BY <1>2
<1> HIDE DEF f, c
<1>4. ASSUME NEW i \in 1..c, NEW j \in 1..c, f[i] = f[j] PROVE i = j
  <2>1. f[i] \in Nat
    <3>1. T \subseteq Nat
      BY <1>1
    <3> QED BY <1>2, <3>1
  <2>2. ~(f[i] < f[j]) /\ ~(f[j] < f[i])
    BY <1>4, <2>1
  <2>3. ~(i < j) /\ ~(j < i)
    BY <1>2, <2>2
  <2> QED BY <2>3
<1> QED BY <1>3, <1>4 DEF f

(* The dump of a section is a block. *)
LEMMA DumpedBlock ==
    ASSUME DictInv, \A v \in Values : Reread[Reread[v]] = Reread[v],
           NEW h \in Heads, NEW b, b = DumpSection(key[h])
    PROVE  /\ IsBlock(b) /\ b[2].key = key[h]
           /\ \A x, y \in 3..Len(b) : b[x].key = b[y].key => x = y
<1> DEFINE s == key[h]
           inside == InOrder(Inside(s))
           d == Len(inside)
<1>1. /\ b \in Seq(IniLine) /\ Len(b) = d + 2
      /\ b[1] = BlankLine /\ b[2] = SectionLine(s)
      /\ \A j \in DOMAIN inside : b[j + 2] = EntryLine(inside[j])
  BY Block DEF EntryLine
<1>2. s \in Seq(Words) \ {<<>>} /\ Len(s) = 1
  BY UsedTypes DEF Heads, IsSection
<1> HIDE DEF s
<1>3. Inside(s) \subseteq UsedSlots
  BY DEF Inside
<1>4. /\ d \in Nat /\ DOMAIN inside = 1..d
      /\ \A j \in DOMAIN inside : inside[j] \in Inside(s)
      /\ \A i, j \in DOMAIN inside : inside[i] = inside[j] => i = j
  <2>1. /\ inside \in Seq(Inside(s)) /\ DOMAIN inside = 1..Cardinality(Inside(s))
        /\ Len(inside) = Cardinality(Inside(s)) /\ Cardinality(Inside(s)) \in Nat
        /\ \A j \in DOMAIN inside : inside[j] \in Inside(s)
    BY <1>3, SomeInOrder
  <2>2. \A i, j \in DOMAIN inside : inside[i] = inside[j] => i = j
    BY <1>3, InOrderApart
  <2> HIDE DEF inside
  <2> QED BY <2>1, <2>2
<1> HIDE DEF inside
<1>5. ASSUME NEW t \in Inside(s)
      PROVE  /\ key[t] = s \o Tail(key[t])
             /\ t \in UsedSlots /\ val[t] \in Values \cup {NULL}
  <2> DEFINE k == key[t]
  <2>1. /\ t \in UsedSlots /\ k \in Seq(Words) \ {<<>>} /\ InSection(k, s)
        /\ val[t] \in Values \cup {NULL}
    BY UsedTypes DEF Inside
  <2> HIDE DEF k
  <2>2. Len(k) > 1 /\ s = <<k[1]>>
    BY <1>2, <2>1, SectionOfKey
  <2>3. <<k[1]>> \o Tail(k) = k
    BY <2>1, <2>2, TailOfLong
  <2> QED BY <2>1, <2>2, <2>3 DEF k
<1>6. ASSUME NEW x \in 3..Len(b)
      PROVE  /\ x - 2 \in DOMAIN inside
             /\ b[x] = EntryLine(inside[x - 2])
  <2>1. x - 2 \in 1..d /\ (x - 2) + 2 = x
    BY <1>1, <1>4
  <2> QED BY <1>1, <1>4, <2>1
<1>7. \A t : /\ EntryLine(t).key = Tail(key[t])
             /\ EntryLine(t).val = Printed(val[t], Empty)
             /\ EntryLine(t) = ValueLine(EntryLine(t).key, EntryLine(t).val)
  BY DEF EntryLine, ValueLine, Line
<1>8. ASSUME NEW v \in Values \cup {NULL}
      PROVE  /\ Printed(v, Empty) \in Values
             /\ Reread[Printed(v, Empty)] = Printed(v, Empty)
  BY IniAssumption DEF Printed
<1>9. IsBlock(b) /\ b[2].key = s
  <2>1. Len(b) >= 2
    BY <1>1, <1>4
  <2>2. b[2].key = s
    BY <1>1 DEF SectionLine, Line
  <2>3. ASSUME NEW x \in 3..Len(b)
        PROVE  /\ b[x] = ValueLine(b[x].key, b[x].val)
               /\ b[x].val \in Values /\ Reread[b[x].val] = b[x].val
    <3> DEFINE t == inside[x - 2]
    <3>1. t \in Inside(s) /\ b[x] = EntryLine(t)
      BY <1>4, <1>6
    <3> HIDE DEF t
    <3>2. val[t] \in Values \cup {NULL}
      BY <1>5, <3>1
    <3> QED BY <1>7, <1>8, <3>1, <3>2
  <2> QED BY <1>1, <1>2, <2>1, <2>2, <2>3 DEF IsBlock
<1>10. ASSUME NEW x \in 3..Len(b), NEW y \in 3..Len(b), b[x].key = b[y].key
       PROVE  x = y
  <2> DEFINE t == inside[x - 2]
             u == inside[y - 2]
  <2>1. /\ t \in Inside(s) /\ b[x] = EntryLine(t)
        /\ u \in Inside(s) /\ b[y] = EntryLine(u)
    BY <1>4, <1>6
  <2>2. t = u => x - 2 = y - 2
    BY <1>4, <1>6
  <2> HIDE DEF t, u
  <2>3. key[t] = key[u]
    <3>1. Tail(key[t]) = Tail(key[u])
      BY <1>7, <1>10, <2>1
    <3> QED BY <1>5, <2>1, <3>1
  <2>4. t = u
    BY <1>5, <2>1, <2>3 DEF DictInv, OneSlot
  <2> QED BY <2>2, <2>4
<1> QED BY <1>9, <1>10 DEF s

(* What a program writes to thj.ini is a file of blocks. *)
LEMMA DumpIsWritten ==
    ASSUME DictInv, Heads # {},
           \A v \in Values : Reread[Reread[v]] = Reread[v]
    PROVE  Written(IniLines)
<1> DEFINE heads == InOrder(Heads)
           c == Cardinality(Heads)
           B == [j \in 1..c |-> DumpSection(key[heads[j]])]
<1>1. SectionSlots = heads
  BY DEF SectionSlots, Heads
<1>2. Heads \subseteq UsedSlots
  BY DEF Heads
<1>3. /\ c \in Nat /\ DOMAIN heads = 1..c
      /\ Len(heads) = c
      /\ \A j \in 1..c : heads[j] \in Heads
      /\ \A h \in Heads : \E j \in 1..c : heads[j] = h
  BY <1>2, SomeInOrder
<1>4. \A i, j \in 1..c : heads[i] = heads[j] => i = j
  BY <1>2, <1>3, InOrderApart
<1> HIDE DEF heads, c
<1>5. c # 0
  <2>1. \E j \in 1..c : TRUE
    BY <1>3
  <2> QED BY <2>1
<1>6. \A j \in 1..c : B[j] = DumpSection(key[heads[j]])
  OBVIOUS
<1>7. B \in [1..c -> Seq(IniLine)]
  <2>1. \A j \in 1..c : DumpSection(key[heads[j]]) \in Seq(IniLine)
    BY <1>3, Block, Zenon
  <2> QED BY <2>1
<1>8. FileOf(B) = IniLines
  <2>1. SectionSlots # <<>>
    BY <1>1, <1>3, <1>5
  <2> QED BY <1>1, <1>3, <2>1 DEF IniLines, FileOf
<1> HIDE DEF B
<1>9. B \in Seq(Seq(IniLine)) /\ Len(B) = c
  BY <1>3, <1>7, FunctionIsSeq
<1>10. ASSUME NEW j \in 1..c
       PROVE  /\ IsBlock(B[j]) /\ B[j][2].key = key[heads[j]]
              /\ \A x, y \in 3..Len(B[j]) : B[j][x].key = B[j][y].key => x = y
  <2> DEFINE b == B[j]
             h == heads[j]
  <2>1. b = DumpSection(key[h]) /\ h \in Heads
    BY <1>3, <1>6
  <2> HIDE DEF b, h
  <2>2. /\ IsBlock(b) /\ b[2].key = key[h]
        /\ \A x, y \in 3..Len(b) : b[x].key = b[y].key => x = y
    BY <2>1, DumpedBlock
  <2> QED BY <2>2 DEF b, h
<1>11. ASSUME NEW i \in 1..c, NEW j \in 1..c, B[i][2].key = B[j][2].key
       PROVE  i = j
  <2>1. key[heads[i]] = key[heads[j]]
    BY <1>10, <1>11
  <2>2. heads[i] = heads[j]
    BY <1>2, <1>3, <2>1 DEF DictInv, OneSlot
  <2> QED BY <1>4, <2>2
<1>12. Blocks(B)
  BY <1>5, <1>9, <1>10, <1>11 DEF Blocks
<1> QED BY <1>8, <1>12 DEF Written

-----------------------------------------------------------------------------
(* Loading such a file puts its lines into the slots in their order. *)

LEMMA SlotOfLine ==
    ASSUME NEW lines \in Seq(IniLine)
    PROVE  /\ SlotOf(lines, 1) = 0
           /\ \A i \in Nat :
                 /\ SlotOf(lines, i) \in Nat
                 /\ SlotOf(lines, i + 1) = SlotOf(lines, i)
                       + (IF i \in GoodLines(lines) THEN 1 ELSE 0)
           /\ \A i, j \in GoodLines(lines) :
                 i < j => SlotOf(lines, i) < SlotOf(lines, j)
<1> DEFINE T == GoodLines(lines)
<1>1. T \subseteq 1..Len(lines) /\ Len(lines) \in Nat
  BY DEF GoodLines
<1>2. T \subseteq Nat /\ IsFiniteSet(T)
  <2>1. IsFiniteSet(1..Len(lines))
    BY <1>1, FS_Interval
  <2>2. 1..Len(lines) \subseteq Nat
    OBVIOUS
  <2> QED BY <1>1, <2>1, <2>2, FS_Subset
<1>3. \A i : SlotOf(lines, i) = Cardinality(Below(T, i))
  BY DEF SlotOf, Below
<1>4. Below(T, 1) = {}
  BY <1>1 DEF Below
<1> HIDE DEF T
<1>5. SlotOf(lines, 1) = 0
  BY <1>3, <1>4, FS_EmptySet
<1>6. ASSUME NEW i \in Nat
      PROVE  /\ SlotOf(lines, i) \in Nat
             /\ SlotOf(lines, i + 1)
                   = SlotOf(lines, i) + (IF i \in T THEN 1 ELSE 0)
  <2>1. /\ Cardinality(Below(T, i)) \in Nat
        /\ Cardinality(Below(T, i + 1))
              = Cardinality(Below(T, i)) + (IF i \in T THEN 1 ELSE 0)
    BY <1>2, BelowGrows, Zenon
  <2> QED BY <1>3, <2>1, Zenon
<1>7. ASSUME NEW i \in T, NEW j \in T, i < j
      PROVE  SlotOf(lines, i) < SlotOf(lines, j)
  <2>1. i \in Nat
    BY <1>2, Zenon
  <2>2. Cardinality(Below(T, i)) < Cardinality(Below(T, j))
    BY <1>2, <1>7, <2>1, BelowGrows, Zenon
  <2>3. /\ SlotOf(lines, i) = Cardinality(Below(T, i))
        /\ SlotOf(lines, j) = Cardinality(Below(T, j))
    BY <1>3
  <2> QED BY <2>2, <2>3
<1> QED BY <1>5, <1>6, <1>7 DEF T

(* The slots are used from the first on without a gap. *)
LEMMA SlotsOfLines ==
    ASSUME NEW lines \in Seq(IniLine), NEW m \in Nat
    PROVE  /\ \A i \in GoodLines(lines) \cap 1..m :
                 SlotOf(lines, i) \in 0..SlotOf(lines, m + 1)-1
           /\ \A s \in 0..SlotOf(lines, m + 1)-1 :
                 \E i \in GoodLines(lines) \cap 1..m : SlotOf(lines, i) = s
<1> DEFINE T == GoodLines(lines)
           slot(i) == SlotOf(lines, i)
           Listed(x) ==
              /\ \A i \in T \cap 1..x : slot(i) \in 0..slot(x + 1)-1
              /\ \A s \in 0..slot(x + 1)-1 : \E i \in T \cap 1..x : slot(i) = s
           S == {x \in Nat : Listed(x)}
<1>1. /\ slot(1) = 0
      /\ \A i \in Nat : /\ slot(i) \in Nat
                        /\ slot(i + 1) = slot(i) + (IF i \in T THEN 1 ELSE 0)
  BY SlotOfLine
<1> HIDE DEF T, slot
<1>2. Listed(0)
  <2>1. slot(0 + 1) = 0
    BY <1>1
  <2> QED BY <2>1
<1>3. ASSUME NEW x \in Nat, Listed(x) PROVE Listed(x + 1)
  <2> DEFINE y == x + 1
  <2>1. y \in Nat
    OBVIOUS
  <2>2. \A i : i \in 1..y <=> i \in 1..x \/ i = y
    OBVIOUS
  <2>3. /\ \A i \in T \cap 1..x : slot(i) \in 0..slot(y)-1
        /\ \A s \in 0..slot(y)-1 : \E i \in T \cap 1..x : slot(i) = s
    BY <1>3
  <2> HIDE DEF y
  <2>4. /\ slot(y) \in Nat
        /\ slot(y + 1) = slot(y) + (IF y \in T THEN 1 ELSE 0)
    BY <1>1, <2>1
  <2>5. ASSUME NEW i \in T \cap 1..y PROVE slot(i) \in 0..slot(y+1)-1
    <3>1. CASE i = y
      BY <2>4, <3>1
    <3>2. CASE i \in 1..x
      <4>1. slot(i) \in 0..slot(y)-1
        BY <2>3, <3>2
      <4> QED BY <2>4, <4>1
    <3> QED BY <2>2, <3>1, <3>2
  <2>6. ASSUME NEW s \in 0..slot(y+1)-1
        PROVE  \E i \in T \cap 1..y : slot(i) = s
    <3>1. CASE s \in 0..slot(y)-1
      BY <2>2, <2>3, <3>1
    <3>2. CASE ~(s \in 0..slot(y)-1)
      <4>1. y \in T /\ s = slot(y)
        BY <2>4, <3>2
      <4>2. y \in T \cap 1..y
        BY <2>2, <4>1
      <4> QED BY <4>1, <4>2
    <3> QED BY <3>1, <3>2
  <2> QED BY <2>5, <2>6 DEF y
<1>4. \A x \in Nat : x \in S => x + 1 \in S
  <2>1. \A x \in Nat : x + 1 \in Nat
    OBVIOUS
  <2> QED BY <1>3, <2>1, Zenon
<1>5. 0 \in S
  BY <1>2
<1> HIDE DEF S
<1>6. m \in S
  BY <1>4, <1>5, SetInduction
<1>7. Listed(m)
  BY <1>6 DEF S
<1> QED BY <1>7 DEF T, slot

(* Such a table is dumped as the file it was loaded from.                  *)
LEMMA LoadedSlots ==
    ASSUME DictInv, NEW B, Blocks(B), NEW lines \in Seq(IniLine),
           NEW off, Layout(lines, B, off), Filled(lines, Len(lines))
    PROVE  /\ \A j \in 1..Len(B) : \A i \in 2..Len(B[j]) :
                 /\ SlotOf(lines, off[j] + i) \in UsedSlots
                 /\ key[SlotOf(lines, off[j] + i)] = KeyIn(B, j, i)
                 /\ val[SlotOf(lines, off[j] + i)] = B[j][i].val
           /\ \A s \in UsedSlots : \E j \in 1..Len(B) :
                 \E i \in 2..Len(B[j]) : s = SlotOf(lines, off[j] + i)
           /\ \A j, y \in 1..Len(B) :
                 j < y => SlotOf(lines, off[j] + 2) < SlotOf(lines, off[y] + 2)
           /\ \A j \in 1..Len(B) : \A i, x \in 2..Len(B[j]) :
                 i < x => SlotOf(lines, off[j] + i) < SlotOf(lines, off[j] + x)
           /\ n \in Nat /\ UsedSlots \subseteq 0..n-1
<1> DEFINE m == Len(lines)
           Good == GoodLines(lines)
<1>1. m \in Nat /\ DOMAIN lines = 1..m
  OBVIOUS
<1>2. Good \cap 1..m = Good
  BY <1>1 DEF GoodLines
<1> HIDE DEF m
<1>3. /\ n = SlotOf(lines, m + 1) /\ UsedSlots = 0..n-1
      /\ \A i \in Good : /\ key[SlotOf(lines, i)] = KeyAt(lines, i)
                         /\ val[SlotOf(lines, i)] = lines[i].val
  BY <1>2 DEF Filled, m
<1>4. /\ \A i \in Good : SlotOf(lines, i) \in 0..n-1
      /\ \A s \in 0..n-1 : \E i \in Good : SlotOf(lines, i) = s
  BY <1>1, <1>2, <1>3, SlotsOfLines
<1>5. /\ \A j \in 1..Len(B) : \A i \in 2..Len(B[j]) :
            /\ off[j] + i \in Good
            /\ lines[off[j] + i] = B[j][i]
            /\ KeyAt(lines, off[j] + i) = KeyIn(B, j, i)
      /\ \A x \in Good :
            \E j \in 1..Len(B) : \E i \in 2..Len(B[j]) : x = off[j] + i
  BY GoodOfBlocks
<1> HIDE DEF Good
<1>6. ASSUME NEW j \in 1..Len(B), NEW i \in 2..Len(B[j])
      PROVE  /\ SlotOf(lines, off[j] + i) \in UsedSlots
             /\ key[SlotOf(lines, off[j] + i)] = KeyIn(B, j, i)
             /\ val[SlotOf(lines, off[j] + i)] = B[j][i].val
  <2> DEFINE x == off[j] + i
  <2>1. x \in Good /\ lines[x] = B[j][i] /\ KeyAt(lines, x) = KeyIn(B, j, i)
    BY <1>5
  <2> HIDE DEF x
  <2>2. /\ SlotOf(lines, x) \in UsedSlots
        /\ key[SlotOf(lines, x)] = KeyIn(B, j, i)
        /\ val[SlotOf(lines, x)] = B[j][i].val
    BY <1>3, <1>4, <2>1
  <2> QED BY <2>2 DEF x
<1>7. ASSUME NEW s \in UsedSlots
      PROVE  \E j \in 1..Len(B) : \E i \in 2..Len(B[j]) :
                s = SlotOf(lines, off[j] + i)
  <2>1. PICK x \in Good : SlotOf(lines, x) = s
    BY <1>3, <1>4
  <2> QED BY <1>5, <2>1
<1>8. ASSUME NEW j \in 1..Len(B), NEW y \in 1..Len(B),
             NEW i \in 2..Len(B[j]), NEW x \in 2..Len(B[y]),
             j < y \/ (j = y /\ i < x)
      PROVE  SlotOf(lines, off[j] + i) < SlotOf(lines, off[y] + x)
  <2>1. off[j] \in Nat /\ off[y] \in Nat
    <3>1. Len(B) \in Nat
      BY DEF Blocks
    <3>2. j \in 1..Len(B)+1 /\ y \in 1..Len(B)+1
      BY <3>1
    <3> QED BY <3>2 DEF Layout
  <2>2. j < y => off[j] + i <= off[y]
    <3>1. i \in 1..Len(B[j])
      OBVIOUS
    <3> QED BY <3>1, LinesOfBlocks
  <2>3. off[j] + i < off[y] + x
    BY <1>8, <2>1, <2>2
  <2>4. off[j] + i \in Good /\ off[y] + x \in Good
    BY <1>5
  <2> DEFINE a == off[j] + i
             b == off[y] + x
  <2>5. a < b /\ a \in Good /\ b \in Good
    BY <2>3, <2>4
  <2> HIDE DEF a, b
  <2>6. SlotOf(lines, a) < SlotOf(lines, b)
    BY <2>5, SlotOfLine DEF Good
  <2> QED BY <2>6 DEF a, b
<1>9. n \in Nat
  BY DEF DictInv, DictTypeOK
<1>10. ASSUME NEW j \in 1..Len(B), NEW y \in 1..Len(B), j < y
       PROVE  SlotOf(lines, off[j] + 2) < SlotOf(lines, off[y] + 2)
  <2>1. 2 \in 2..Len(B[j]) /\ 2 \in 2..Len(B[y])
    BY BlockFacts
  <2> QED BY <1>8, <1>10, <2>1
<1>11. ASSUME NEW j \in 1..Len(B),
              NEW i \in 2..Len(B[j]), NEW x \in 2..Len(B[j]), i < x
       PROVE  SlotOf(lines, off[j] + i) < SlotOf(lines, off[j] + x)
  BY <1>8, <1>11
<1> QED BY <1>3, <1>6, <1>7, <1>9, <1>10, <1>11

LEMMA BlockRestored ==
    ASSUME DictInv, NEW B, Blocks(B), NEW lines \in Seq(IniLine),
           NEW off, Layout(lines, B, off), Filled(lines, Len(lines)),
           NEW j \in 1..Len(B)
    PROVE  DumpSection(B[j][2].key) = B[j]
<1> DEFINE s == B[j][2].key
           d == Len(B[j]) - 2
           slot(y, x) == SlotOf(lines, off[y] + x)
           f == [i \in 1..d |-> slot(j, i + 2)]
           T == Inside(s)
           h == slot(j, 2)
<1>1. /\ \A y \in 1..Len(B) : \A x \in 2..Len(B[y]) :
            /\ slot(y, x) \in UsedSlots
            /\ key[slot(y, x)] = KeyIn(B, y, x)
            /\ val[slot(y, x)] = B[y][x].val
      /\ \A t \in UsedSlots : \E y \in 1..Len(B) :
            \E x \in 2..Len(B[y]) : t = slot(y, x)
      /\ \A i, x \in 2..Len(B[j]) : i < x => slot(j, i) < slot(j, x)
      /\ n \in Nat /\ UsedSlots \subseteq 0..n-1
  BY LoadedSlots
<1>2. /\ IsBlock(B[j]) /\ B[j] \in Seq(IniLine)
      /\ Len(B[j]) \in Nat /\ Len(B[j]) >= 2
      /\ s \in Seq(Words) /\ Len(s) = 1
  BY BlockFacts
<1>3. d \in Nat /\ \A i \in 1..d : i + 2 \in 3..Len(B[j])
  BY <1>2
<1> HIDE DEF slot, s, d
<1>4. ASSUME NEW y \in 1..Len(B), NEW x \in 2..Len(B[y])
      PROVE  slot(y, x) \in T <=> y = j /\ x # 2
  <2> DEFINE k == KeyIn(B, y, x)
  <2>1. /\ k \in Seq(Words) \ {<<>>} /\ SectionOf(k) = B[y][2].key
        /\ Len(k) > 1 <=> x # 2
    <3>1. Locates(k, B[y], x)
      BY KeyFacts, Zenon
    <3> HIDE DEF k
    <3> QED BY <3>1, Zenon DEF Locates
  <2>2. slot(y, x) \in UsedSlots /\ key[slot(y, x)] = k
    BY <1>1
  <2> HIDE DEF k
  <2>3. InSection(k, s) <=> Len(k) > 1 /\ s = SectionOf(k)
    BY <1>2, <2>1, SectionOfKey DEF SectionOf
  <2>4. s = B[y][2].key <=> y = j
    BY DEF Blocks, s
  <2> QED BY <2>1, <2>2, <2>3, <2>4 DEF Inside
<1>5. f \in [1..d -> T]
  <2>1. ASSUME NEW i \in 1..d PROVE slot(j, i + 2) \in T
    <3>1. i + 2 \in 2..Len(B[j]) /\ i + 2 # 2
      BY <1>2, <1>3
    <3> QED BY <1>4, <3>1
  <2> QED BY <2>1
<1>6. ASSUME NEW t \in T PROVE \E i \in 1..d : f[i] = t
  <2>1. t \in UsedSlots
    BY DEF Inside
  <2>2. PICK y \in 1..Len(B) : \E x \in 2..Len(B[y]) : t = slot(y, x)
    BY <1>1, <2>1
  <2>3. PICK x \in 2..Len(B[y]) : t = slot(y, x)
    BY <2>2
  <2>4. y = j /\ x # 2
    BY <1>4, <2>3
  <2>5. x - 2 \in 1..d /\ (x - 2) + 2 = x
    BY <1>2, <2>4 DEF d
  <2>6. f[x - 2] = slot(j, x)
    BY <2>5
  <2> QED BY <2>3, <2>4, <2>5, <2>6
<1>7. ASSUME NEW i \in 1..d, NEW x \in 1..d, i < x PROVE f[i] < f[x]
  <2>1. i + 2 \in 2..Len(B[j]) /\ x + 2 \in 2..Len(B[j]) /\ i + 2 < x + 2
    BY <1>2, <1>3, <1>7
  <2>2. slot(j, i + 2) < slot(j, x + 2)
    BY <1>1, <2>1
  <2> QED BY <2>2
<1>8. InOrder(T) = f
  <2>1. T \subseteq 0..n-1
    BY <1>1 DEF Inside
  <2>2. n \in Nat /\ d \in Nat
    BY <1>1, <1>3
  <2> HIDE DEF T, f
  <2>3. \A i, x \in 1..d : i < x => f[i] < f[x]
    BY <1>7
  <2> QED BY <1>5, <1>6, <2>1, <2>2, <2>3, AscendingIs
<1>9. h \in Heads /\ key[h] = s
  <2>1. 2 \in 2..Len(B[j])
    BY <1>2
  <2>2. h \in UsedSlots /\ key[h] = KeyIn(B, j, 2)
    BY <1>1, <2>1
  <2>3. KeyIn(B, j, 2) = s
    BY DEF KeyIn, s
  <2> QED BY <1>2, <2>2, <2>3 DEF Heads, IsSection
<1> DEFINE b == DumpSection(s)
<1>10. /\ b \in Seq(IniLine) /\ Len(b) = Len(f) + 2
       /\ b[1] = BlankLine /\ b[2] = SectionLine(s)
       /\ \A i \in DOMAIN f : b[i + 2] = EntryLine(f[i])
  <2> HIDE DEF f, T, h
  <2>1. LET inside == InOrder(Inside(key[h]))
            block == DumpSection(key[h])
        IN  /\ block \in Seq(IniLine)
            /\ Len(block) = Len(inside) + 2
            /\ block[1] = BlankLine
            /\ block[2] = SectionLine(key[h])
            /\ \A i \in DOMAIN inside : block[i + 2] = EntryLine(inside[i])
    BY <1>9, Block DEF EntryLine
  <2> QED BY <1>8, <1>9, <2>1 DEF T
<1>11. DOMAIN f = 1..d /\ Len(f) = d
  BY <1>3
<1>12. ASSUME NEW i \in 1..d PROVE EntryLine(f[i]) = B[j][i + 2]
  <2> DEFINE x == i + 2
             t == slot(j, x)
             line == B[j][x]
  <2>1. x \in 3..Len(B[j]) /\ x \in 2..Len(B[j]) /\ x # 2
    BY <1>2, <1>3
  <2>2. f[i] = t
    OBVIOUS
  <2> HIDE DEF x
  <2>3. key[t] = KeyIn(B, j, x) /\ val[t] = line.val
    BY <1>1, <2>1
  <2>4. Tail(KeyIn(B, j, x)) = line.key
    <3>1. Locates(KeyIn(B, j, x), B[j], x)
      BY <2>1, KeyFacts, Zenon
    <3> QED BY <2>1, <3>1, Zenon DEF Locates
  <2>5. /\ line = ValueLine(line.key, line.val)
        /\ line.val \in Values /\ Reread[line.val] = line.val
    BY <1>2, <2>1 DEF IsBlock
  <2> HIDE DEF t, line
  <2>6. line.val # NULL
    BY <2>5, DictAssumption
  <2>7. Printed(val[t], Empty) = line.val
    BY <2>3, <2>5, <2>6 DEF Printed
  <2>8. EntryLine(t) = line
    BY <2>3, <2>4, <2>5, <2>7 DEF EntryLine
  <2> QED BY <2>2, <2>8 DEF line, x
<1> HIDE DEF b, f
<1>13. Len(b) = Len(B[j])
  BY <1>2, <1>10, <1>11 DEF d
<1>14. ASSUME NEW x \in 1..Len(b) PROVE b[x] = B[j][x]
  <2>1. CASE x = 1
    BY <1>2, <1>10, <2>1 DEF IsBlock
  <2>2. CASE x = 2
    BY <1>2, <1>10, <2>2 DEF IsBlock, s
  <2>3. CASE x # 1 /\ x # 2
    <3> DEFINE i == x - 2
    <3>1. i \in 1..d /\ i + 2 = x
      BY <1>3, <1>10, <1>11, <2>3
    <3> HIDE DEF i
    <3>2. b[i + 2] = EntryLine(f[i])
      BY <1>10, <1>11, <3>1
    <3> QED BY <1>12, <3>1, <3>2
  <2> QED BY <2>1, <2>2, <2>3
<1>15. b = B[j]
  <2> DEFINE a == B[j]
  <2>1. /\ a \in Seq(IniLine) /\ b \in Seq(IniLine) /\ Len(b) = Len(a)
        /\ \A x \in 1..Len(b) : b[x] = a[x]
    BY <1>2, <1>10, <1>13, <1>14
  <2> HIDE DEF a
  <2>2. b = a
    BY <2>1
  <2> QED BY <2>2 DEF a
<1> QED BY <1>15 DEF b, s

LEMMA FileRestored ==
    ASSUME DictInv, NEW lines, Written(lines), Filled(lines, Len(lines))
    PROVE  IniLines = lines
<1>1. PICK B : Blocks(B) /\ lines = FileOf(B)
  BY DEF Written
<1>2. /\ B \in Seq(Seq(IniLine)) /\ Len(B) # 0 /\ Len(B) \in Nat
      /\ B = [j \in 1..Len(B) |-> B[j]]
  BY <1>1 DEF Blocks
<1>3. PICK off : Layout(lines, B, off)
  BY <1>1, <1>2, LayoutExists DEF FileOf
<1>4. lines \in Seq(IniLine)
  BY <1>3 DEF Layout
<1> DEFINE c == Len(B)
           slot(y, x) == SlotOf(lines, off[y] + x)
           f == [j \in 1..c |-> slot(j, 2)]
<1>5. \A j \in 1..c : Len(B[j]) \in Nat /\ 2 \in 2..Len(B[j])
  BY <1>1, BlockFacts
<1>6. /\ \A y \in 1..c : \A x \in 2..Len(B[y]) :
            /\ slot(y, x) \in UsedSlots
            /\ key[slot(y, x)] = KeyIn(B, y, x)
      /\ \A t \in UsedSlots : \E y \in 1..c :
            \E x \in 2..Len(B[y]) : t = slot(y, x)
      /\ \A j, y \in 1..c : j < y => slot(j, 2) < slot(y, 2)
      /\ n \in Nat /\ UsedSlots \subseteq 0..n-1
  BY <1>1, <1>3, <1>4, LoadedSlots
<1> HIDE DEF slot, c
<1>7. ASSUME NEW y \in 1..c, NEW x \in 2..Len(B[y])
      PROVE  slot(y, x) \in Heads <=> x = 2
  <2>1. Len(KeyIn(B, y, x)) = 1 <=> x = 2
    <3>1. Locates(KeyIn(B, y, x), B[y], x)
      BY <1>1, KeyFacts, Zenon DEF c
    <3> QED BY <3>1, Zenon DEF Locates
  <2> QED BY <1>6, <2>1 DEF Heads, IsSection
<1>8. f \in [1..c -> Heads]
  BY <1>5, <1>7
<1>9. ASSUME NEW t \in Heads PROVE \E j \in 1..c : f[j] = t
  <2>1. t \in UsedSlots
    BY DEF Heads
  <2>2. PICK y \in 1..c : \E x \in 2..Len(B[y]) : t = slot(y, x)
    BY <1>6, <2>1
  <2>3. PICK x \in 2..Len(B[y]) : t = slot(y, x)
    BY <2>2
  <2>4. x = 2
    BY <1>7, <2>3
  <2> QED BY <2>3, <2>4
<1>10. \A i, j \in 1..c : i < j => f[i] < f[j]
  BY <1>5, <1>6
<1>11. SectionSlots = f
  <2>1. n \in Nat /\ Heads \subseteq 0..n-1
    BY <1>6 DEF Heads
  <2>2. c \in Nat
    BY <1>2 DEF c
  <2> HIDE DEF f
  <2>3. InOrder(Heads) = f
    BY <1>8, <1>9, <1>10, <2>1, <2>2, AscendingIs, Zenon
  <2> QED BY <2>3 DEF SectionSlots, Heads
<1>12. ASSUME NEW j \in 1..c PROVE DumpSection(key[f[j]]) = B[j]
  <2>1. key[slot(j, 2)] = KeyIn(B, j, 2)
    BY <1>5, <1>6
  <2>2. KeyIn(B, j, 2) = B[j][2].key
    BY DEF KeyIn
  <2>3. f[j] = slot(j, 2)
    OBVIOUS
  <2>4. DumpSection(B[j][2].key) = B[j]
    BY <1>1, <1>3, <1>4, BlockRestored DEF c
  <2> QED BY <2>1, <2>2, <2>3, <2>4
<1>13. DOMAIN f = 1..c
  OBVIOUS
<1> HIDE DEF f
<1>14. [j \in DOMAIN f |-> DumpSection(key[f[j]])] = B
  BY <1>2, <1>12, <1>13 DEF c
<1>15. f # <<>>
  <2>1. 1 \in DOMAIN f
    BY <1>2, <1>13 DEF c
  <2>2. f = <<>> => DOMAIN f = {}
    OBVIOUS
  <2> QED BY <2>1, <2>2
<1> QED BY <1>1, <1>11, <1>14, <1>15 DEF IniLines, FileOf

(* A key that a table without gaps does not have takes its next slot.      *)
LEMMA SetAppends ==
    ASSUME DictInv, NEW k \in Keys, NEW v \in Values \cup {NULL},
           dictionary_set(k, v), heap' = "usable",
           k \in DOMAIN Contents', Contents'[k] = v,
           UsedSlots = 0..n-1, \A i \in UsedSlots : key[i] # k
    PROVE  /\ n' = n + 1 /\ UsedSlots' = 0..n'-1
           /\ key'[n] = k /\ val'[n] = v
           /\ \A i \in 0..n-1 : key'[i] = key[i] /\ val'[i] = val[i]
<1> DEFINE Inserted(sz, keys, vals, hashes) ==
              /\ Insertable(k, sz, keys, vals, hashes)
              /\ Insert(k, v, keys, vals, hashes)
              /\ sz \in Nat /\ size' = sz
              /\ Occupied(sz, keys) = UsedSlots
              /\ \A i \in UsedSlots : keys[i] = key[i] /\ vals[i] = val[i]
<1>0. k # NULL /\ n \in Nat /\ size \in Nat
  BY DictAssumption DEF DictInv, DictTypeOK
<1>1. ~Found(k)
  <2>1. Matches(k) = {}
    BY <1>0 DEF Matches, UsedSlots
  <2> QED BY <2>1 DEF Found
<1>2. \E sz, keys, vals, hashes : Inserted(sz, keys, vals, hashes)
  <2>1. CASE SetAdd(k, v)
    <3>1. /\ Insertable(k, size, key, val, hash)
          /\ Insert(k, v, key, val, hash) /\ size' = size
      BY <2>1, AddInsertable DEF SetAdd
    <3>2. Occupied(size, key) = UsedSlots
      BY DEF Occupied, UsedSlots, Slots
    <3>3. Inserted(size, key, val, hash)
      BY <1>0, <3>1, <3>2
    <3> HIDE DEF Inserted
    <3> QED BY <3>3
  <2>2. CASE SetGrow(k, v)
    <3> DEFINE keys == mem_double(key, NULL)
               vals == mem_double(val, NULL)
               hashes == mem_double(hash, 0)
    <3>1. Insertable(k, 2 * size, keys, vals, hashes)
      BY <2>2, GrowInsertable DEF dictionary_set
    <3>2. Insert(k, v, keys, vals, hashes) /\ size' = 2 * size
      BY <2>2 DEF SetGrow, Doubled
    <3>3. Occupied(2 * size, keys) = UsedSlots
      BY DoubleOccupied
    <3>4. \A i \in UsedSlots : keys[i] = key[i] /\ vals[i] = val[i]
      <4>1. \A i \in UsedSlots : i \in Slots
        BY DEF UsedSlots
      <4>2. \A i \in Slots : i < size /\ i \in 0..2*size-1
        BY <1>0 DEF Slots
      <4>3. \A i \in 0..2*size-1 : keys[i] = IF i < size THEN key[i] ELSE NULL
        BY DEF mem_double
      <4>4. \A i \in 0..2*size-1 : vals[i] = IF i < size THEN val[i] ELSE NULL
        BY DEF mem_double
      <4> HIDE DEF keys, vals
      <4> QED BY <4>1, <4>2, <4>3, <4>4
    <3>5. 2 * size \in Nat
      BY <1>0
    <3> HIDE DEF keys, vals, hashes
    <3>6. Inserted(2 * size, keys, vals, hashes)
      BY <3>1, <3>2, <3>3, <3>4, <3>5
    <3> HIDE DEF Inserted
    <3> QED BY <3>6
  <2>3. CASE SetGrowFails(k)
    BY <2>3 DEF SetGrowFails
  <2>4. CASE SetModify(k, v)
    BY <1>1, <2>4 DEF SetModify
  <2> HIDE DEF Inserted
  <2> QED BY <2>1, <2>2, <2>3, <2>4 DEF dictionary_set
<1>3. PICK sz, keys, vals, hashes : Inserted(sz, keys, vals, hashes)
  BY <1>2
<1>4. sz \in Nat /\ n < sz /\ n \in 0..sz-1
  BY <1>0, <1>3 DEF Insertable
<1>5. FirstEmpty(keys) = n
  <2>1. FirstEmpty(keys) \in 0..sz-1 /\ keys[FirstEmpty(keys)] = NULL
    BY <1>0, <1>3, EmptySlot
  <2> DEFINE empties == {i \in DOMAIN keys : keys[i] = NULL}
  <2>2. DOMAIN keys = 0..sz-1
    BY <1>3 DEF Insertable
  <2>3. n \notin 0..n-1
    BY <1>0
  <2>4. n \in empties
    BY <1>3, <1>4, <2>2, <2>3 DEF Occupied
  <2>5. empties \subseteq Nat
    BY <2>2
  <2>6. FirstEmpty(keys) = Min(empties)
    BY DEF FirstEmpty
  <2> HIDE DEF empties
  <2>7. FirstEmpty(keys) <= n
    BY <2>4, <2>5, <2>6, MinExists
  <2>8. FirstEmpty(keys) \notin 0..n-1
    BY <1>3, <2>1 DEF Occupied
  <2> DEFINE m == FirstEmpty(keys)
  <2>9. m \in 0..sz-1 /\ m <= n /\ m \notin 0..n-1
    BY <2>1, <2>7, <2>8
  <2> HIDE DEF m
  <2>10. m = n
    BY <1>0, <1>4, <2>9
  <2> QED BY <2>10 DEF m
<1>6. PICK copy \in xstrdup(k) : key' = [keys EXCEPT ![n] = copy]
  BY <1>3, <1>5 DEF Insert
<1>7. PICK vcopy \in xstrdup(v) : val' = [vals EXCEPT ![n] = vcopy]
  BY <1>3, <1>5 DEF Insert
<1>8. n' = n + 1 /\ Slots' = 0..sz-1
  BY <1>3 DEF Insert, Slots
<1>9. /\ key' \in [0..sz-1 -> Keys \cup {NULL}]
      /\ key'[n] = copy
      /\ \A i \in 0..sz-1 : i # n => key'[i] = keys[i]
      /\ val'[n] = vcopy
      /\ \A i \in 0..sz-1 : i # n => val'[i] = vals[i]
  BY <1>3, <1>4, <1>6, <1>7 DEF Insertable, xstrdup
<1>10. \A i \in 0..n-1 : i \in 0..sz-1 /\ i # n
  BY <1>0, <1>4
<1>11. \A i \in 0..n-1 : key'[i] = key[i] /\ val'[i] = val[i]
  BY <1>3, <1>9, <1>10
<1>12. \A i \in Matches(k)' : i = n
  <2> SUFFICES ASSUME NEW i \in 0..sz-1, key'[i] = k, i # n PROVE FALSE
    BY <1>8 DEF Matches
  <2>1. keys[i] = k
    BY <1>9
  <2>2. i \in Occupied(sz, keys)
    BY <1>0, <2>1 DEF Occupied
  <2> QED BY <1>3, <2>1, <2>2
<1>13. Matches(k)' # {} /\ Contents'[k] = val'[Min(Matches(k)')]
  BY DEF Contents, dictionary_get, Entry
<1>14. Matches(k)' = {n} /\ n \in Matches(k)'
  BY <1>12, <1>13
<1>15. key'[n] = k
  BY <1>14 DEF Matches
<1>16. Min(Matches(k)') = n
  <2> DEFINE M == {n}
  <2>1. M \subseteq Nat /\ M # {}
    BY <1>0
  <2>2. Min(M) \in M
    BY <2>1, MinExists
  <2>3. Min(M) = n
    BY <2>2
  <2> QED BY <1>14, <2>3
<1>17. val'[n] = v
  BY <1>13, <1>16
<1>18. UsedSlots' = 0..n'-1
  <2>1. UsedSlots' = {i \in 0..sz-1 : key'[i] # NULL}
    BY <1>8 DEF UsedSlots
  <2>2. ASSUME NEW i \in 0..sz-1
        PROVE  key'[i] # NULL <=> i \in 0..n-1 \/ i = n
    <3>1. CASE i = n
      BY <1>0, <1>15, <3>1
    <3>2. CASE i # n
      <4>1. key'[i] = keys[i]
        BY <1>9, <3>2
      <4>2. keys[i] # NULL <=> i \in 0..n-1
        BY <1>3 DEF Occupied
      <4> QED BY <3>2, <4>1, <4>2
    <3> QED BY <3>1, <3>2
  <2>3. \A i : i \in 0..n'-1 <=> i \in 0..n-1 \/ i = n
    <3>1. n' - 1 = n
      BY <1>0, <1>8
    <3>2. \A i : i \in 0..n <=> i \in 0..n-1 \/ i = n
      BY <1>0
    <3> QED BY <3>1, <3>2, Zenon
  <2> QED BY <1>4, <1>10, <2>1, <2>2, <2>3, Zenon
<1> QED BY <1>8, <1>11, <1>15, <1>17, <1>18

(* A file of blocks has no line that is refused, cut or goes on, and no    *)
(* key twice.                                                              *)
LEMMA WrittenFacts ==
    ASSUME NEW lines, Written(lines)
    PROVE  /\ lines \in Seq(IniLine) /\ Tidy(lines)
           /\ \A x, y \in GoodLines(lines) :
                 KeyAt(lines, x) = KeyAt(lines, y) => x = y
<1>1. PICK B : Blocks(B) /\ lines = FileOf(B)
  BY DEF Written
<1>2. B \in Seq(Seq(IniLine)) /\ Len(B) # 0
  BY <1>1 DEF Blocks
<1>3. PICK off : Layout(lines, B, off)
  BY <1>1, <1>2, LayoutExists DEF FileOf
<1>4. lines \in Seq(IniLine)
  BY <1>3 DEF Layout
<1>5. ASSUME NEW x \in DOMAIN lines
      PROVE  lines[x].kind \notin {"error", "cut"} /\ ~lines[x].more
  <2>1. CASE lines[x] = BlankLine
    BY <2>1 DEF BlankLine, Line
  <2>2. CASE lines[x] # BlankLine
    <3>1. PICK j \in 1..Len(B) : \E i \in 1..Len(B[j]) : x = off[j] + i
      BY <1>1, <1>3, <2>2, LinesOfBlocks, SMTT(20)
    <3>2. PICK i \in 1..Len(B[j]) : x = off[j] + i
      BY <3>1
    <3>3. lines[x] = B[j][i]
      BY <1>1, <1>3, <3>2, LinesOfBlocks
    <3>4. /\ Len(B[j]) \in Nat
          /\ B[j][1].kind = "blank" /\ B[j][2].kind = "section"
          /\ ~B[j][i].more
          /\ \A y \in 3..Len(B[j]) : B[j][y].kind = "value"
      BY <1>1, BlockFacts
    <3>5. i = 1 \/ i = 2 \/ i \in 3..Len(B[j])
      BY <3>4
    <3>6. B[j][i].kind \in {"blank", "section", "value"}
      BY <3>4, <3>5
    <3> QED BY <3>3, <3>4, <3>6
  <2> QED BY <2>1, <2>2
<1>6. ASSUME NEW x \in GoodLines(lines), NEW y \in GoodLines(lines),
             KeyAt(lines, x) = KeyAt(lines, y)
      PROVE  x = y
  <2>1. PICK j \in 1..Len(B) : \E i \in 2..Len(B[j]) : x = off[j] + i
    BY <1>1, <1>3, GoodOfBlocks, SMTT(20)
  <2>2. PICK i \in 2..Len(B[j]) : x = off[j] + i
    BY <2>1
  <2>3. PICK b \in 1..Len(B) : \E a \in 2..Len(B[b]) : y = off[b] + a
    BY <1>1, <1>3, GoodOfBlocks, SMTT(20)
  <2>4. PICK a \in 2..Len(B[b]) : y = off[b] + a
    BY <2>3
  <2>5. /\ KeyAt(lines, off[j] + i) = KeyIn(B, j, i)
        /\ KeyAt(lines, off[b] + a) = KeyIn(B, b, a)
    BY <1>1, <1>3, GoodOfBlocks
  <2>6. KeyIn(B, j, i) = KeyIn(B, b, a)
    BY <1>6, <2>2, <2>4, <2>5, Zenon
  <2>7. j = b /\ i = a
    BY <1>1, <2>6, KeysApart
  <2> QED BY <2>2, <2>4, <2>7
<1> QED BY <1>4, <1>5, <1>6 DEF Tidy

(* What a good line of such a file enters.                                 *)
LEMMA LineEnters ==
    ASSUME ParserTypeOK, TableInv, LineRead, heap = "usable", intact,
           Tidy(before), lineno + 1 \in GoodLines(file)
    PROVE  Enter(KeyAt(file, lineno + 1), file[lineno + 1].val)
<1> DEFINE m == lineno
           line == file[m + 1]
<1>1. /\ line \in IniLine /\ ipc = "reading"
      /\ last = NoLine => ThisLine = line
  BY ReadingLine DEF LineRead
<1>2. section = SectionAt(file, m) /\ ThisLine = line
  BY <1>1 DEF TableInv
<1>3. line.kind \in {"section", "value"} /\ m \in Nat
  BY DEF GoodLines, ParserTypeOK
<1>4. SectionAt(file, m + 1) = IF line.kind = "section" THEN line.key
                               ELSE SectionAt(file, m)
  BY <1>3, SectionStep
<1>5. KeyAt(file, m + 1) = IF line.kind = "section" THEN line.key
                           ELSE SectionAt(file, m + 1) \o line.key
  BY DEF KeyAt
<1> HIDE DEF m, line
<1>6. CASE line.kind = "section"
  <2>1. line.val = NULL
    BY <1>1, <1>6 DEF IniLine
  <2>2. Enter(line.key, NULL)
    BY <1>2, <1>6 DEF LineRead
  <2> QED BY <1>5, <1>6, <2>1, <2>2 DEF m, line
<1>7. CASE line.kind = "value"
  <2>1. Enter(section \o line.key, line.val)
    BY <1>2, <1>7 DEF LineRead
  <2> QED BY <1>2, <1>4, <1>5, <1>7, <2>1 DEF m, line
<1> QED BY <1>3, <1>6, <1>7

LEMMA LineFills ==
    ASSUME DictInv, ParserTypeOK, TableInv, LineRead, heap = "usable",
           heap' = "usable", intact', before = file, Written(file),
           Filled(file, lineno)
    PROVE  Filled(file, lineno)'
<1> DEFINE m == lineno
           slot(i) == SlotOf(file, i)
           good == GoodLines(file)
<1>1. /\ ipc = "reading" /\ m + 1 \in DOMAIN file
      /\ file' = file /\ lineno' = m + 1 /\ m \in Nat
      /\ file[m+1] \in IniLine
      /\ last = NoLine => ThisLine = file[m+1]
  BY ReadingLine DEF LineRead, ParserTypeOK
<1>2. /\ file \in Seq(IniLine) /\ Tidy(file)
      /\ \A x, y \in good : KeyAt(file, x) = KeyAt(file, y) => x = y
  BY WrittenFacts
<1>3. intact
  BY LineOfTable
<1>4. ThisLine = file[m+1]
  BY <1>1, <1>2, <1>3 DEF TableInv
<1>5. /\ n = slot(m + 1) /\ UsedSlots = 0..n-1
      /\ \A i \in good \cap 1..m : /\ key[slot(i)] = KeyAt(file, i)
                                   /\ val[slot(i)] = file[i].val
  BY DEF Filled
<1>6. /\ \A i \in Nat : slot(i) \in Nat
      /\ slot((m + 1) + 1) = slot(m + 1) + (IF m + 1 \in good THEN 1 ELSE 0)
  <2>1. m + 1 \in Nat
    BY <1>1
  <2>2. \A i \in Nat : /\ slot(i) \in Nat
                       /\ slot(i + 1) = slot(i) + (IF i \in good THEN 1 ELSE 0)
    BY <1>2, SlotOfLine
  <2> HIDE DEF slot, good, m
  <2> QED BY <2>1, <2>2
<1>7. /\ \A i \in good \cap 1..m : slot(i) \in 0..n-1
      /\ \A s \in 0..n-1 : \E i \in good \cap 1..m : slot(i) = s
  BY <1>1, <1>2, <1>5, SlotsOfLines
<1>8. \A i : i \in 1..m+1 <=> i \in 1..m \/ i = m + 1
  BY <1>1
<1>9. m + 1 \notin 1..m
  BY <1>1
<1>10. SUFFICES /\ n' = slot((m + 1) + 1) /\ UsedSlots' = 0..n'-1
                /\ \A i \in good \cap 1..m+1 :
                      /\ key'[slot(i)] = KeyAt(file, i)
                      /\ val'[slot(i)] = file[i].val
  <2>1. /\ (SlotOf(file, lineno + 1))' = SlotOf(file, (m + 1) + 1)
        /\ GoodLines(file)' = good
        /\ \A i : /\ SlotOf(file, i)' = slot(i)
                  /\ KeyAt(file, i)' = KeyAt(file, i)
    BY <1>1 DEF SlotOf, GoodLines, KeyAt, SectionAt
  <2> QED BY <1>1, <2>1 DEF Filled
<1> HIDE DEF m, slot, good
<1>11. CASE m + 1 \notin good
  <2>1. file[m+1].kind \notin {"section", "value", "error"}
    BY <1>1, <1>2, <1>11 DEF good, GoodLines, Tidy
  <2>2. UNCHANGED dictionaryVars
    BY <1>4, <2>1 DEF LineRead
  <2>3. n' = n /\ key' = key /\ val' = val /\ UsedSlots' = UsedSlots
    BY <2>2 DEF dictionaryVars, UsedSlots, Slots
  <2>4. slot((m + 1) + 1) = slot(m + 1)
    <3>1. slot(m + 1) \in Nat
      BY <1>1, <1>6
    <3> QED BY <1>6, <1>11, <3>1
  <2>5. \A i \in good \cap 1..m+1 : i \in good \cap 1..m
    BY <1>8, <1>11
  <2> QED BY <1>5, <2>3, <2>4, <2>5
<1>12. CASE m + 1 \in good
  <2> DEFINE k == KeyAt(file, m + 1)
             v == file[m+1].val
  <2>1. Enter(k, v)
    BY <1>2, <1>3, <1>12, LineEnters DEF m, good
  <2>2. v \in Values \cup {NULL}
    BY <1>1 DEF IniLine
  <2>3. \A s \in UsedSlots : key[s] # k
    <3> SUFFICES ASSUME NEW s \in UsedSlots, key[s] = k PROVE FALSE
      OBVIOUS
    <3>1. PICK i \in good \cap 1..m : slot(i) = s
      BY <1>5, <1>7
    <3>2. KeyAt(file, i) = k
      BY <1>5, <3>1
    <3>3. i = m + 1
      BY <1>2, <1>12, <3>2
    <3> QED BY <1>9, <3>3
  <2> HIDE DEF k, v
  <2>4. /\ k \in Keys /\ dictionary_set(k, v)
        /\ k \in DOMAIN Contents' /\ Contents'[k] = v
    BY <2>1 DEF Enter
  <2>5. /\ n' = n + 1 /\ UsedSlots' = 0..n'-1
        /\ key'[n] = k /\ val'[n] = v
        /\ \A i \in 0..n-1 : key'[i] = key[i] /\ val'[i] = val[i]
    BY <1>5, <2>2, <2>3, <2>4, SetAppends
  <2>6. n' = slot((m + 1) + 1)
    <3>1. slot((m + 1) + 1) = slot(m + 1) + 1
      BY <1>6, <1>12
    <3> QED BY <1>5, <2>5, <3>1, Zenon
  <2>7. ASSUME NEW i \in good \cap 1..m+1
        PROVE  key'[slot(i)] = KeyAt(file, i) /\ val'[slot(i)] = file[i].val
    <3>1. CASE i \in 1..m
      BY <1>5, <1>7, <2>5, <3>1
    <3>2. CASE i = m + 1
      BY <1>5, <2>5, <3>2 DEF k, v
    <3> QED BY <1>8, <3>1, <3>2
  <2> QED BY <2>5, <2>6, <2>7
<1> QED BY <1>11, <1>12

(* A value is cut but once: what is read of it is read again as it is.     *)
CutOnce == \A v \in Values : Reread[Reread[v]] = Reread[v]

(* What is in the file and what was loaded, unless somebody wrote it by    *)
(* hand, came from a dump.                                                 *)
Origin ==
    /\ FromDump(file) => Written(file)
    /\ FromDump(before) => Written(before)

LEMMA OriginKept ==
    ASSUME CutOnce, DictInv, ParserTypeOK, Origin, [IniNext]_iniparserVars
    PROVE  Origin'
<1>1. CASE file' = file /\ before' \in {file, before}
  BY <1>1 DEF Origin, FromDump, Written, HasSection
<1>2. CASE OpenForWriting
  BY <1>2 DEF OpenForWriting, historyVars, Origin, FromDump, Written, HasSection
<1>3. CASE Dump
  <2>1. file' = IniLines /\ before' = before
    BY <1>3 DEF Dump, historyVars
  <2>2. CASE Heads # {}
    <3>1. Written(IniLines)
      BY <2>2, DumpIsWritten DEF CutOnce
    <3> QED BY <2>1, <3>1 DEF Origin, FromDump, Written, HasSection
  <2>3. CASE Heads = {}
    <3>1. ~HasSection(IniLines)
      BY <2>3, BareDump DEF HasSection
    <3> QED BY <2>1, <3>1 DEF Origin, FromDump, Written, HasSection
  <2> QED BY <2>2, <2>3
<1> QED
  BY <1>1, <1>2, <1>3
  DEF IniNext, IniLoad, LoadBegin, LineTooLong, LineGoesOn, LineRead, LoadEnd,
      IniEdit, iniparser_set, iniparser_unset, Editing, Crash, iniparserVars,
      parserVars, historyVars

LEMMA SameFill ==
    ASSUME UNCHANGED dictionaryVars, before' = before
    PROVE  /\ lineno' = lineno
                 => Filled(before, lineno)' = Filled(before, lineno)
           /\ Filled(before, Len(before))' = Filled(before, Len(before))
<1>1. n' = n /\ key' = key /\ val' = val /\ UsedSlots' = UsedSlots
  BY DEF dictionaryVars, UsedSlots, Slots
<1>2. /\ GoodLines(before)' = GoodLines(before)
      /\ Len(before)' = Len(before)
      /\ \A i : /\ SlotOf(before, i)' = SlotOf(before, i)
                /\ KeyAt(before, i)' = KeyAt(before, i)
  BY DEF SlotOf, GoodLines, KeyAt, SectionAt
<1>3. /\ lineno' = lineno
            => SlotOf(before, lineno + 1)' = SlotOf(before, lineno + 1)
      /\ SlotOf(before, Len(before) + 1)' = SlotOf(before, Len(before) + 1)
  BY DEF SlotOf, GoodLines
<1> QED BY <1>1, <1>2, <1>3 DEF Filled

(* The slots of a table that was loaded from a dump are in the order of    *)
(* its lines.                                                              *)
LEMMA OrderKept ==
    ASSUME DictInv, ParserTypeOK, TableInv, Origin, OrderInv,
           [IniNext]_iniparserVars
    PROVE  OrderInv'
<1> SUFFICES ASSUME heap' = "usable", intact', ~edited', FromDump(before)'
             PROVE  /\ ipc' = "reading" => Filled(before, lineno)'
                    /\ ipc' \in {"loaded", "opened"}
                          => Filled(before, Len(before))'
  BY DEF OrderInv
<1>1. CASE LoadBegin
  <2>1. heap = "none" /\ before' = file /\ lineno' = 0 /\ file \in Seq(IniLine)
    BY <1>1 DEF LoadBegin, ParserTypeOK
  <2>2. dictionary_new /\ ipc' = "reading"
    BY <1>1, <2>1 DEF LoadBegin, dictionaryVars
  <2>3. n' = 0 /\ UsedSlots' = {}
    BY <2>2 DEF dictionary_new, UsedSlots, Slots
  <2>4. SlotOf(before, lineno + 1)' = 0
    <3>1. SlotOf(file, 1) = 0
      BY <2>1, SlotOfLine
    <3>2. SlotOf(file, 0 + 1) = 0
      BY <3>1
    <3> QED BY <2>1, <3>2 DEF SlotOf, GoodLines
  <2> QED BY <2>1, <2>2, <2>3, <2>4 DEF Filled
<1>2. ASSUME ipc = "reading", before' = before, intact, ~edited,
             heap = "usable"
      PROVE  /\ before = file /\ Written(file) /\ Tidy(file) /\ last = NoLine
             /\ Filled(file, lineno)
  <2>1. before = file /\ FromDump(before)
    BY <1>2 DEF ParserTypeOK, FromDump, HasSection
  <2>2. Written(file) /\ Tidy(file)
    BY <2>1, WrittenFacts DEF Origin
  <2> QED BY <1>2, <2>1, <2>2 DEF TableInv, OrderInv
<1>3. CASE LineGoesOn
  <2>1. Reading /\ ThisLine.more /\ UNCHANGED <<dictionaryVars, historyVars>>
    BY <1>3 DEF LineGoesOn
  <2>2. Tidy(file) /\ last = NoLine
    BY <1>2, <2>1 DEF Reading, dictionaryVars, historyVars
  <2>3. ThisLine = file[lineno+1] /\ lineno + 1 \in DOMAIN file
    BY <2>1, <2>2, ReadingLine
  <2> QED BY <2>1, <2>2, <2>3 DEF Tidy
<1>4. CASE LineRead
  <2>1. /\ Reading /\ file' = file /\ before' = before /\ edited' = edited
        /\ ipc' = ipc
    BY <1>4 DEF LineRead
  <2>2. heap = "usable" /\ intact
    BY <1>4, LineOfTable
  <2>3. before = file /\ Written(file) /\ Filled(file, lineno)
    BY <1>2, <2>1, <2>2 DEF Reading
  <2>4. Filled(file, lineno)'
    BY <1>4, <2>2, <2>3, LineFills
  <2>5. Filled(before, lineno)'
    <3>1. before' = file'
      BY <2>1, <2>3
    <3>2. /\ GoodLines(before)' = GoodLines(file)'
          /\ SlotOf(before, lineno + 1)' = SlotOf(file, lineno + 1)'
          /\ \A i : /\ SlotOf(before, i)' = SlotOf(file, i)'
                    /\ KeyAt(before, i)' = KeyAt(file, i)'
      BY <3>1 DEF SlotOf, GoodLines, KeyAt, SectionAt
    <3> QED BY <2>4, <3>1, <3>2 DEF Filled
  <2> QED BY <2>1, <2>5 DEF Reading
<1>5. CASE LoadEnd
  <2>1. /\ UNCHANGED <<dictionaryVars, historyVars>> /\ ipc = "reading"
        /\ ipc' = "loaded" /\ lineno = Len(file)
    BY <1>5, WholeFileRead DEF LoadEnd
  <2>2. before = file /\ Filled(file, lineno) /\ heap = "usable"
    BY <1>2, <2>1 DEF historyVars, dictionaryVars
  <2>3. Filled(before, Len(before))
    BY <2>1, <2>2
  <2> QED BY <2>1, <2>3, SameFill DEF historyVars
<1>6. CASE OpenForWriting
  <2>1. /\ UNCHANGED <<dictionaryVars, historyVars>> /\ ipc = "loaded"
        /\ ipc' \in {"opened", "idle"}
    BY <1>6 DEF OpenForWriting
  <2>2. Filled(before, Len(before))
    BY <2>1 DEF OrderInv, historyVars, dictionaryVars, FromDump, HasSection
  <2> QED BY <2>1, <2>2, SameFill DEF historyVars
<1>7. CASE UNCHANGED iniparserVars
  <2>1. UNCHANGED <<dictionaryVars, historyVars, ipc, lineno>>
    BY <1>7 DEF iniparserVars, parserVars, loadVars
  <2>2. /\ ipc = "reading" => Filled(before, lineno)
        /\ ipc \in {"loaded", "opened"} => Filled(before, Len(before))
    BY <2>1 DEF OrderInv, historyVars, dictionaryVars, FromDump, HasSection
  <2> QED BY <2>1, <2>2, SameFill DEF historyVars
<1>8. CASE LineTooLong
  BY <1>8 DEF LineTooLong, dictionary_del
<1>9. CASE IniEdit
  BY <1>9 DEF IniEdit, iniparser_set, iniparser_unset, Editing
<1>10. CASE Dump
  BY <1>10 DEF Dump, dictionary_del
<1>11. CASE Crash
  BY <1>11 DEF Crash
<1> QED
  BY <1>1, <1>3, <1>4, <1>5, <1>6, <1>7, <1>8, <1>9, <1>10, <1>11
  DEF IniNext, IniLoad

-----------------------------------------------------------------------------
(* The theorems. *)

(* What the verdict, the table and the sections of a file are while it is  *)
(* read and edited (iniparser.c:530-629), and that the table keeps its     *)
(* types and its invariant.                                                *)
THEOREM ParserInvariant == IniSpec => [](DictInv /\ ParserInv)
<1>1. IniInit => DictInv /\ ParserInv
  <2> SUFFICES ASSUME IniInit PROVE DictInv /\ ParserInv
    OBVIOUS
  <2>1. DictInv
    BY InitInv DEF IniInit
  <2>2. ipc = "idle" /\ heap = "none"
    BY DEF IniInit, DictInit
  <2> QED BY <2>1, <2>2, TypesAtFirst
          DEF ParserInv, VerdictInv, TableInv, LostInv
<1>2. DictInv /\ ParserInv /\ [IniNext]_iniparserVars => (DictInv /\ ParserInv)'
  <2> SUFFICES ASSUME DictInv, ParserInv, [IniNext]_iniparserVars
               PROVE  (DictInv /\ ParserInv)'
    OBVIOUS
  <2>1. DictInv'
    BY ParserKeepsDictionary, DictNextInv DEF ParserInv
  <2>2. ParserTypeOK' /\ VerdictInv' /\ TableInv' /\ LostInv'
    BY TypesKept, VerdictKept, TableKept, LostKept DEF ParserInv
  <2> QED BY <2>1, <2>2 DEF ParserInv
<1> QED BY <1>1, <1>2, PTL DEF IniSpec

(* iniparser.c uses the dictionary by its calls alone: whatever is proved  *)
(* of the dictionary holds of the table of every program.                  *)
THEOREM ParserIsACaller == IniSpec => DictSpec
<1>1. IniInit => DictInit
  BY DEF IniInit
<1>2. DictInv /\ ParserInv /\ [IniNext]_iniparserVars
         => [DictNext]_dictionaryVars
  BY ParserKeepsDictionary DEF ParserInv
<1> QED BY <1>1, <1>2, ParserInvariant, PTL DEF IniSpec, DictSpec

(* So the table that thj.ini is loaded into has its types, a slot for the  *)
(* next key and one slot for each, and is a map (dictionary.c:181-330).    *)
THEOREM TableOfAProgram ==
    IniSpec => []DictTypeOK /\ []SlotLeft /\ []OneSlot /\ MapImplemented
<1>1. DictInv => DictTypeOK
  BY DEF DictInv
<1> QED BY <1>1, ParserIsACaller, DictInvariant, SlotAlwaysLeft,
           OneSlotForAKey, TableIsAMap, PTL

(* A load that returns has refused its file for a line that is cut, for an *)
(* error after the last line that was stored, or for a table that could    *)
(* not grow for want of its hashes alone (iniparser.c:560-629).            *)
THEOREM LastVerdictCounts == IniSpec => RefusedForLast
<1> DEFINE Cut == \E i \in DOMAIN file : file[i].kind = "cut"
           Wrong == \E i \in BadLines(file) : \A j \in GoodLines(file) : j < i
<1>1. ASSUME DictInv /\ ParserInv, [IniNext]_iniparserVars,
             ipc = "reading", ipc' = "loaded",
             \A i \in DOMAIN file : ~file[i].more
      PROVE  heap' = "none" <=> Cut \/ Wrong \/ GrowthFailed
  <2>1. LineTooLong \/ LoadEnd
    BY <1>1 DEF IniNext, IniLoad, LoadBegin, LineGoesOn, LineRead,
                OpenForWriting, IniEdit, iniparser_set, iniparser_unset,
                Editing, Dump, Crash, iniparserVars, parserVars
  <2>2. CASE LineTooLong
    <3>1. heap' = "none" /\ file[lineno+1].kind = "cut"
          /\ lineno + 1 \in DOMAIN file
      BY <1>1, <2>2, ReadingLine
      DEF LineTooLong, NextIsCut, dictionary_del, ParserInv
    <3> QED BY <3>1
  <2>3. CASE LoadEnd
    <3>1. /\ errs < 0 <=> heap # "usable" /\ n = size
          /\ \A i \in 1..lineno : file[i].kind # "cut"
          /\ errs >= 0 => (errs # 0 <=> \E i \in BadLines(file) \cap 1..lineno :
                              \A j \in GoodLines(file) \cap 1..lineno : j < i)
          /\ errs \in Int /\ file \in Seq(IniLine)
      BY <1>1 DEF ParserInv, ParserTypeOK, VerdictInv, Unjoined
    <3>2. /\ heap # "none" /\ (lineno = Len(file) \/ errs < 0)
          /\ IF errs # 0 THEN dictionary_del ELSE UNCHANGED dictionaryVars
      BY <1>1, <2>3 DEF LoadEnd, Ending, ParserInv, ParserTypeOK
    <3>3. heap' = "none" <=> errs # 0
      BY <3>2 DEF dictionary_del, dictionaryVars
    <3>4. CASE errs < 0
      <4>1. errs # 0
        BY <3>1, <3>4
      <4>2. dictionary_del /\ heap # "usable" /\ n = size
        BY <3>1, <3>2, <3>4, <4>1
      <4>3. GrowthFailed
        BY <4>2 DEF GrowthFailed, dictionary_del
      <4> QED BY <3>3, <4>1, <4>3
    <3>5. CASE ~(errs < 0)
      <4>1. lineno = Len(file) /\ ~GrowthFailed
        BY <3>1, <3>2, <3>5 DEF GrowthFailed
      <4>2. errs >= 0
        BY <3>1, <3>5
      <4>3. DOMAIN file = 1..lineno
        BY <3>1, <4>1
      <4>4. /\ BadLines(file) \cap 1..lineno = BadLines(file)
            /\ GoodLines(file) \cap 1..lineno = GoodLines(file)
        BY <4>3 DEF BadLines, GoodLines
      <4>5. errs # 0 <=> Wrong
        BY <3>1, <4>2, <4>4, Zenon
      <4>6. ~Cut
        BY <3>1, <4>3
      <4> QED BY <3>3, <4>1, <4>5, <4>6
    <3> QED BY <3>4, <3>5
  <2> QED BY <2>1, <2>2, <2>3
<1>2. DictInv /\ ParserInv /\ [IniNext]_iniparserVars
         => [ipc = "reading" /\ ipc' = "loaded"
             /\ (\A i \in DOMAIN file : ~file[i].more)
             => (heap' = "none" <=> \/ Cut
                                   \/ Wrong
                                   \/ GrowthFailed)]_iniparserVars
  BY <1>1
<1> QED BY <1>2, ParserInvariant, PTL DEF IniSpec, RefusedForLast

LEMMA OnlyDumps == [IniNext]_iniparserVars /\ Dumped => Dump
  BY DEF Dumped, IniNext, IniLoad, LoadBegin, LineTooLong, LineGoesOn, LineRead,
         LoadEnd, OpenForWriting, IniEdit, iniparser_set, iniparser_unset,
         Editing, Crash, iniparserVars, parserVars

(* A program that loads a tidy file, sets some keys and dumps it changes   *)
(* what the file means in these keys only, whatever the order of its       *)
(* lines, the slots and the growth of the table (iniparser.c:214-252).     *)
THEOREM EditsAreExact == IniSpec => UpdateExact
<1>1. ASSUME DictInv /\ ParserInv, [IniNext]_iniparserVars,
             Dumped, Tidy(before), intact, Proper(wanted)
      PROVE  Meaning(file') = wanted
  <2>1. Dump
    BY <1>1, OnlyDumps
  <2>2. heap = "usable" /\ ipc = "opened" /\ file' = IniLines
    BY <1>1, <2>1 DEF Dump, dictionary_del, ParserInv, ParserTypeOK
  <2>3. Contents = wanted
    BY <1>1, <2>2 DEF ParserInv, TableInv
  <2>4. Meaning(IniLines) = Contents
    BY <1>1, <2>2, <2>3, DumpMeans
  <2> QED BY <2>2, <2>3, <2>4
<1>2. DictInv /\ ParserInv /\ [IniNext]_iniparserVars
         => [Dumped /\ Tidy(before) /\ intact /\ Proper(wanted)
             => Meaning(file') = wanted]_iniparserVars
  BY <1>1
<1> QED BY <1>2, ParserInvariant, PTL DEF IniSpec, UpdateExact

(* A file without sections, and without lines that become one when they    *)
(* are joined, gets none by setting keys of sections in it                 *)
(* (iniparser.c:225-233).                                                  *)
THEOREM SectionsAreLost == IniSpec => LostForGood
<1>1. ASSUME DictInv /\ ParserInv, [IniNext]_iniparserVars, Dumped,
             \A i \in DOMAIN before : ~MayBeSection(before[i]),
             \A k \in DOMAIN wanted : ~Len(k) = 1
      PROVE  ~HasSection(file')
  <2>1. Dump
    BY <1>1, OnlyDumps
  <2>2. heap # "none" /\ file' = IniLines
    BY <2>1 DEF Dump, dictionary_del
  <2>3. \A i \in UsedSlots : Len(key[i]) # 1
    BY <1>1, <2>2 DEF ParserInv, LostInv
  <2>4. Heads = {}
    BY <2>3 DEF Heads, IsSection
  <2>5. \A i \in DOMAIN IniLines : IniLines[i].kind = "value"
    BY <1>1, <2>4, BareDump
  <2> QED BY <2>2, <2>5 DEF HasSection
<1>2. DictInv /\ ParserInv /\ [IniNext]_iniparserVars
         => [Dumped /\ (\A i \in DOMAIN before : ~MayBeSection(before[i]))
             /\ (\A k \in DOMAIN wanted : ~Len(k) = 1)
             => ~HasSection(file')]_iniparserVars
  BY <1>1
<1> QED BY <1>2, ParserInvariant, PTL DEF IniSpec, LostForGood

(* Both hold in every state.                                               *)
LEMMA OrderInvariant ==
    ASSUME CutOnce
    PROVE  IniSpec => [](Origin /\ OrderInv)
<1>1. IniInit => Origin /\ OrderInv
  BY DEF IniInit, DictInit, Origin, FromDump, OrderInv
<1>2. DictInv /\ ParserInv /\ Origin /\ OrderInv /\ [IniNext]_iniparserVars
         => (Origin /\ OrderInv)'
  BY OriginKept, OrderKept DEF ParserInv
<1> QED BY <1>1, <1>2, ParserInvariant, PTL DEF IniSpec

(* A thj.ini that a program wrote, loaded and dumped with nothing set in   *)
(* it, is the same line by line, whatever the number of its sections, the  *)
(* hashes of the keys and the growth of the table (iniparser.c:214-252,    *)
(* 530-629), as long as a value is cut but once.                           *)
THEOREM RewritesAreStable ==
    ASSUME CutOnce
    PROVE  IniSpec => RewriteKeepsLines
<1>1. ASSUME DictInv /\ ParserInv, Origin /\ OrderInv,
             [IniNext]_iniparserVars, Dumped, intact, ~edited,
             before # <<>>, HasSection(before), before \notin HandFiles
      PROVE  file' = before
  <2>1. heap = "usable" /\ ipc = "opened" /\ file' = IniLines
    BY <1>1, OnlyDumps DEF Dump, dictionary_del, ParserInv, ParserTypeOK
  <2>2. FromDump(before)
    BY <1>1 DEF FromDump
  <2>3. Written(before) /\ Filled(before, Len(before))
    BY <1>1, <2>1, <2>2 DEF Origin, OrderInv
  <2>4. IniLines = before
    BY <1>1, <2>3, FileRestored
  <2> QED BY <2>1, <2>4
<1>2. DictInv /\ ParserInv /\ Origin /\ OrderInv /\ [IniNext]_iniparserVars
         => [Dumped /\ intact /\ ~edited /\ before # <<>>
             /\ HasSection(before) /\ before \notin HandFiles
             => file' = before]_iniparserVars
  BY <1>1
<1> QED BY <1>2, ParserInvariant, OrderInvariant, PTL
        DEF IniSpec, RewriteKeepsLines

=============================================================================
