---------------------------- MODULE ServerProofs ----------------------------
(* Proofs about the parts of the server that run on their own: what the loop that  *)
(* downsamples a block yields, for blocks of any length, and the daemon's key file. *)
EXTENDS Downsample, Daemon, FiniteSetTheorems, WellFoundedInduction, TLAPS

\* After count values: the accumulator of Min is the least known value so far, or
\* infinite if there is none; that of Max is the greatest, or still zero.
Prefix ==
    /\ valid_count = 0 <=> KnownRows(count) = {}
    /\ mode = "Min" /\ valid_count = 0 => next_value = Infinity
    /\ mode = "Min" /\ valid_count # 0 =>
          /\ \E i \in KnownRows(count) : block[i] = next_value
          /\ \A i \in KnownRows(count) : next_value <= block[i]
    /\ mode # "Min" => next_value \in Int
    /\ mode = "Max" /\ valid_count = 0 => next_value = 0
    /\ mode = "Max" /\ valid_count # 0 /\ (\A i \in KnownRows(count) : block[i] >= 0) =>
          /\ \E i \in KnownRows(count) : block[i] = next_value
          /\ \A i \in KnownRows(count) : next_value >= block[i]

Inv ==
    /\ TypeOK
    /\ pc = "loop" => Prefix /\ over = 1
    /\ UnknownStaysUnknown
    /\ MinIsLeast
    /\ MaxOfNonNegative

LEMMA InitHolds == Init => Inv
<1> SUFFICES ASSUME Init PROVE Inv
  OBVIOUS
<1>1. block \in Seq(Numbers \union {NaN}) /\ Len(block) \in Nat
  BY DownsampleAssumption DEF Init
<1>2. KnownRows(0) = {}
  BY DEF KnownRows
<1> QED
  BY <1>1, <1>2, DownsampleAssumption
  DEF Init, Inv, TypeOK, Prefix, Start, UnknownStaysUnknown, MinIsLeast, MaxOfNonNegative,
      Finished

\* A value of the block is a number or unknown, and one more row is one more
\* position that may be known.
LEMMA OneMore ==
    ASSUME TypeOK, count < Len(block)
    PROVE  /\ count + 1 \in 1..Len(block)
           /\ block[count + 1] # NaN => block[count + 1] \in Int
           /\ block[count + 1] = NaN => KnownRows(count + 1) = KnownRows(count)
           /\ block[count + 1] # NaN => KnownRows(count + 1) = KnownRows(count) \union {count + 1}
           /\ \A i \in KnownRows(count) : i \in 1..count /\ block[i] \in Int
<1>1. /\ block \in Seq(Numbers \union {NaN}) /\ Len(block) \in Nat /\ count \in Nat
      /\ count <= Len(block)
  BY DEF TypeOK
<1>2. \A i \in 1..Len(block) : block[i] \in Numbers \union {NaN}
  BY <1>1
<1>3. count + 1 \in 1..Len(block) /\ \A i \in 1..count : i \in 1..Len(block)
  BY <1>1
<1>4. block[count + 1] # NaN => block[count + 1] \in Int
  BY <1>2, <1>3, DownsampleAssumption
<1>5. 1..(count + 1) = (1..count) \union {count + 1}
  BY <1>1
<1>6. KnownRows(count + 1) = {i \in (1..count) \union {count + 1} : block[i] # NaN}
  BY <1>5 DEF KnownRows
<1>7. /\ block[count + 1] = NaN => KnownRows(count + 1) = KnownRows(count)
      /\ block[count + 1] # NaN => KnownRows(count + 1) = KnownRows(count) \union {count + 1}
  BY <1>6 DEF KnownRows
<1>8. ASSUME NEW i \in KnownRows(count) PROVE i \in 1..count /\ block[i] \in Int
  <2>1. i \in 1..count /\ block[i] # NaN
    BY DEF KnownRows
  <2> QED
    BY <2>1, <1>2, <1>3, DownsampleAssumption
<1> QED
  BY <1>3, <1>4, <1>7, <1>8

LEMMA StepHolds == Inv /\ [Next]_vars => Inv'
<1> SUFFICES ASSUME Inv, [Next]_vars PROVE Inv'
  OBVIOUS
<1> USE DEF Inv
<1>1. CASE Skip
  <2>1. count < Len(block) /\ block[count + 1] = NaN /\ pc = "loop"
    BY <1>1 DEF Skip
  <2>2. KnownRows(count)' = KnownRows(count)
    <3>1. count' = count + 1 /\ block' = block
      BY <1>1 DEF Skip
    <3>2. KnownRows(count)' = KnownRows(count + 1)
      BY <3>1 DEF KnownRows
    <3> QED
      BY <2>1, <3>2, OneMore
  <2>3. TypeOK'
    BY <1>1, <2>1 DEF Skip, TypeOK
  <2>4. Prefix'
    <3>1. /\ block' = block /\ mode' = mode /\ next_value' = next_value
          /\ valid_count' = valid_count /\ Prefix
      BY <1>1, <2>1 DEF Skip
    <3> QED
      BY <2>2, <3>1 DEF Prefix
  <2> QED
    BY <1>1, <2>3, <2>4 DEF Skip, UnknownStaysUnknown, MinIsLeast, MaxOfNonNegative, Finished
<1>2. CASE Take
  <2> DEFINE v == block[count + 1]
  <2>1. count < Len(block) /\ v # NaN /\ pc = "loop" /\ Prefix
    BY <1>2 DEF Take
  <2>2. v \in Int /\ count + 1 \in 1..Len(block)
    BY <2>1, OneMore
  <2>3. KnownRows(count)' = KnownRows(count) \union {count + 1}
    <3>1. count' = count + 1 /\ block' = block
      BY <1>2 DEF Take
    <3>2. KnownRows(count)' = KnownRows(count + 1)
      BY <3>1 DEF KnownRows
    <3> QED
      BY <2>1, <3>2, OneMore
  <2>4. \A i \in KnownRows(count) : block[i] \in Int
    BY <2>1, OneMore
  <2>5. valid_count \in Nat /\ valid_count + 1 \in Nat /\ valid_count' = valid_count + 1
        /\ valid_count' # 0 /\ block' = block /\ mode' = mode
        /\ next_value' = Accumulated(next_value, v)
    BY <1>2 DEF Take, TypeOK
  <2>6. mode = "Min" => (next_value = Infinity \/ next_value \in Int)
    BY <2>1, <2>4 DEF Prefix
  <2>7. next_value' \in Int
    BY <2>1, <2>2, <2>5, <2>6 DEF Prefix, Accumulated, Less
  <2>8. TypeOK'
    BY <1>2, <2>1, <2>2, <2>5, <2>7 DEF Take, TypeOK
  <2>9. mode = "Min" =>
           /\ \E i \in KnownRows(count) \union {count + 1} : block[i] = next_value'
           /\ \A i \in KnownRows(count) \union {count + 1} : next_value' <= block[i]
    <3> SUFFICES ASSUME mode = "Min"
                 PROVE  /\ \E i \in KnownRows(count) \union {count + 1} : block[i] = next_value'
                        /\ \A i \in KnownRows(count) \union {count + 1} : next_value' <= block[i]
      OBVIOUS
    <3>1. next_value' = IF next_value = Infinity \/ v < next_value THEN v ELSE next_value
      BY <2>5 DEF Accumulated, Less
    <3>2. CASE valid_count = 0
      BY <2>1, <2>2, <3>1, <3>2 DEF Prefix
    <3>3. CASE valid_count # 0
      <4>1. next_value \in Int /\ next_value # Infinity
        BY <2>1, <2>4, <3>3, DownsampleAssumption DEF Prefix
      <4> QED
        BY <2>1, <2>2, <2>4, <3>1, <3>3, <4>1 DEF Prefix
    <3> QED
      BY <3>2, <3>3
  <2>10. mode = "Max" /\ (\A i \in KnownRows(count) \union {count + 1} : block[i] >= 0) =>
           /\ \E i \in KnownRows(count) \union {count + 1} : block[i] = next_value'
           /\ \A i \in KnownRows(count) \union {count + 1} : next_value' >= block[i]
    <3> SUFFICES ASSUME mode = "Max",
                        \A i \in KnownRows(count) \union {count + 1} : block[i] >= 0
                 PROVE  /\ \E i \in KnownRows(count) \union {count + 1} : block[i] = next_value'
                        /\ \A i \in KnownRows(count) \union {count + 1} : next_value' >= block[i]
      OBVIOUS
    <3>1. next_value \in Int /\ v >= 0
      BY <2>1 DEF Prefix
    <3>2. next_value' = IF next_value < v THEN v ELSE next_value
      BY <2>2, <2>5, <3>1, DownsampleAssumption DEF Accumulated, Less
    <3>3. CASE valid_count = 0
      BY <2>1, <2>2, <3>1, <3>2, <3>3 DEF Prefix
    <3>4. CASE valid_count # 0
      BY <2>1, <2>2, <2>4, <3>1, <3>2, <3>4 DEF Prefix
    <3> QED
      BY <3>3, <3>4
  <2>11. Prefix'
    BY <2>3, <2>5, <2>7, <2>9, <2>10 DEF Prefix
  <2> QED
    BY <1>2, <2>8, <2>11 DEF Take, UnknownStaysUnknown, MinIsLeast, MaxOfNonNegative, Finished
<1>3. CASE Complete
  <2>1. /\ pc = "loop" /\ pc' = "done" /\ count = Len(block) /\ Prefix
        /\ next_value' = IF valid_count = 0 THEN NaN ELSE next_value
        /\ block' = block /\ mode' = mode /\ count' = count /\ valid_count' = valid_count
    BY <1>3 DEF Complete
  <2>2. KnownRows(Len(block))' = KnownRows(Len(block))
    BY <2>1 DEF KnownRows
  <2>3. valid_count # 0 => next_value \in Int
    <3>1. Len(block) \in Nat /\ block \in Seq(Numbers \union {NaN})
      BY DEF TypeOK
    <3>2. \A i \in KnownRows(Len(block)) : block[i] \in Int
      <4>1. \A i \in 1..Len(block) : block[i] \in Numbers \union {NaN}
        BY <3>1
      <4>2. ASSUME NEW i \in KnownRows(Len(block)) PROVE i \in 1..Len(block) /\ block[i] # NaN
        BY DEF KnownRows
      <4> QED
        BY <4>1, <4>2, DownsampleAssumption
    <3> QED
      BY <2>1, <3>2 DEF Prefix
  <2>4. TypeOK'
    BY <1>3, <2>1, <2>3 DEF Complete, TypeOK
  <2>5. UnknownStaysUnknown'
    BY <2>1, <2>2, <2>3, DownsampleAssumption DEF UnknownStaysUnknown, Prefix
  <2>6. MinIsLeast'
    BY <2>1, <2>2 DEF MinIsLeast, Finished, Least, Prefix
  <2>7. MaxOfNonNegative'
    BY <2>1, <2>2 DEF MaxOfNonNegative, Finished, Greatest, Prefix
  <2> QED
    BY <2>1, <2>4, <2>5, <2>6, <2>7
<1>4. CASE UNCHANGED vars
  BY <1>4 DEF vars, TypeOK, Prefix, UnknownStaysUnknown, MinIsLeast, MaxOfNonNegative,
     Finished, Least, Greatest, KnownRows
<1> QED
  BY <1>1, <1>2, <1>3, <1>4 DEF Next

LEMMA InvHolds == Spec => []Inv
  BY InitHolds, StepHolds, PTL DEF Spec

\* A block yields an unknown value exactly if it has no known one, in every mode.
THEOREM UnknownIsKept == Spec => []UnknownStaysUnknown
<1>1. Inv => UnknownStaysUnknown
  BY DEF Inv
<1> QED
  BY <1>1, InvHolds, PTL

\* Min yields the least known value of a block.
THEOREM MinIsRight == Spec => []MinIsLeast
<1>1. Inv => MinIsLeast
  BY DEF Inv
<1> QED
  BY <1>1, InvHolds, PTL

\* Max yields the greatest known value of a block without negative values.
THEOREM MaxIsRightFromZero == Spec => []MaxOfNonNegative
<1>1. Inv => MaxOfNonNegative
  BY DEF Inv
<1> QED
  BY <1>1, InvHolds, PTL

\* Both, with the type of what is computed, of any block and in every mode.
THEOREM BlocksAreRight == Spec => []BlockIsRight
<1>1. Inv => BlockIsRight
  BY DEF Inv, BlockIsRight
<1> QED
  BY <1>1, InvHolds, PTL

-----------------------------------------------------------------------------
(* Sums over a set, in whichever order the community modules' fold takes its    *)
(* members.                                                                     *)

Any(s) == CHOOSE x \in s : TRUE

\* g sums f over every subset of S.
Adds(g, f, S) ==
    g = [s \in SUBSET S |-> IF s = {} THEN 0 ELSE f[Any(s)] + g[s \ {Any(s)}]]

Sums(f, S) == CHOOSE g : Adds(g, f, S)

\* A set of numbers that is not empty has a least one.
LEMMA LeastOf ==
    ASSUME NEW S \in SUBSET Nat, S # {}
    PROVE  \E n \in S : \A m \in S : n <= m
<1> DEFINE R == OpToRel(<, Nat)
<1>1. IsWellFoundedOn(R, Nat)
  BY NatLessThanWellFounded
<1>2. \A x, y \in Nat : <<x, y>> \in R <=> x < y
  BY DEF OpToRel
<1> HIDE DEF R
<1>3. PICK n \in S : \A m \in S : ~ (<<m, n>> \in R)
  BY <1>1, WFMin
<1>4. ASSUME NEW m \in S PROVE n <= m
  <2>1. <<m, n>> \in R <=> m < n
    BY <1>2
  <2> QED
    BY <1>3, <2>1
<1> QED
  BY <1>4

\* To show something of all subsets of a finite set it is enough to look at one of which
\* all smaller ones have it: of the sets that do not, one has the fewest members.
LEMMA SmallestOf ==
    ASSUME NEW S, IsFiniteSet(S), NEW B \in SUBSET (SUBSET S), B # {}
    PROVE  \E s \in B : \A r \in SUBSET S : Cardinality(r) < Cardinality(s) => r \notin B
<1> DEFINE C == {Cardinality(s) : s \in B}
<1>1. \A s \in SUBSET S : Cardinality(s) \in Nat
  BY FS_Subset, FS_CardinalityType
<1>2. C \in SUBSET Nat /\ C # {}
  BY <1>1
<1>3. PICK n \in C : \A m \in C : n <= m
  <2> HIDE DEF C
  <2> QED
    BY <1>2, LeastOf
<1>4. PICK s \in B : n = Cardinality(s)
  BY <1>3
<1>5. ASSUME NEW r \in SUBSET S, Cardinality(r) < Cardinality(s) PROVE r \notin B
  BY <1>1, <1>3, <1>4, <1>5
<1> QED
  BY <1>4, <1>5

\* What is left of a set without one of its members.
LEMMA OneLess ==
    ASSUME NEW S, IsFiniteSet(S), NEW s \in SUBSET S, NEW x \in s
    PROVE  /\ s \ {x} \in SUBSET S
           /\ Cardinality(s) \in Nat /\ Cardinality(s) > 0
           /\ Cardinality(s \ {x}) = Cardinality(s) - 1
           /\ Cardinality(s \ {x}) \in Nat
<1>1. IsFiniteSet(s) /\ s # {}
  BY FS_Subset
<1>2. IsFiniteSet(s \ {x}) /\ Cardinality(s \ {x}) = Cardinality(s) - 1
  BY <1>1, FS_RemoveElement
<1>3. Cardinality(s) \in Nat /\ Cardinality(s \ {x}) \in Nat
  BY <1>1, <1>2, FS_CardinalityType
<1> QED
  BY <1>1, <1>2, <1>3

LEMMA AnyIsOne == \A s : s # {} => Any(s) \in s
  BY DEF Any

\* The sums are the same whichever set they are found from.
LEMMA SumsAgree ==
    ASSUME NEW f, NEW T, NEW S \in SUBSET T, IsFiniteSet(T), NEW g, NEW h,
           Adds(g, f, S), Adds(h, f, T)
    PROVE  \A s \in SUBSET S : g[s] = h[s]
<1> DEFINE B == {s \in SUBSET S : g[s] # h[s]}
<1>1. IsFiniteSet(S)
  BY FS_Subset
<1>2. /\ \A s \in SUBSET S : g[s] = IF s = {} THEN 0 ELSE f[Any(s)] + g[s \ {Any(s)}]
      /\ \A s \in SUBSET S : h[s] = IF s = {} THEN 0 ELSE f[Any(s)] + h[s \ {Any(s)}]
  <2>1. \A s \in SUBSET S : g[s] = IF s = {} THEN 0 ELSE f[Any(s)] + g[s \ {Any(s)}]
    BY Zenon DEF Adds
  <2>2. \A s \in SUBSET T : h[s] = IF s = {} THEN 0 ELSE f[Any(s)] + h[s \ {Any(s)}]
    BY Zenon DEF Adds
  <2>3. \A s \in SUBSET S : s \in SUBSET T
    OBVIOUS
  <2> QED
    BY <2>1, <2>2, <2>3, Zenon
<1>3. SUFFICES ASSUME B # {} PROVE FALSE
  OBVIOUS
<1>4. PICK s \in B : \A r \in SUBSET S : Cardinality(r) < Cardinality(s) => r \notin B
  <2>1. B \in SUBSET (SUBSET S)
    OBVIOUS
  <2> HIDE DEF B
  <2> QED
    BY <1>1, <1>3, <2>1, SmallestOf
<1>5. s \in SUBSET S /\ g[s] # h[s]
  BY <1>4
<1>6. s # {}
  BY <1>2, <1>5, Zenon
<1>7. s \ {Any(s)} \notin B /\ s \ {Any(s)} \in SUBSET S
  <2>1. Any(s) \in s
    BY <1>6, AnyIsOne
  <2> QED
    BY <1>1, <1>4, <1>5, <2>1, OneLess
<1> QED
  BY <1>2, <1>5, <1>6, <1>7

\* There are such sums, and they are numbers.
LEMMA SumsExist ==
    ASSUME NEW f, NEW S, IsFiniteSet(S), \A x \in S : f[x] \in Int
    PROVE  \E g \in [SUBSET S -> Int] : Adds(g, f, S)
<1> DEFINE Rule(g, s) == g[s] = IF s = {} THEN 0 ELSE f[Any(s)] + g[s \ {Any(s)}]
           Upto(n) == \E g \in [SUBSET S -> Int] :
                         \A s \in SUBSET S : Cardinality(s) <= n => Rule(g, s)
           B == {n \in Nat : ~Upto(n)}
<1>1. \A s \in SUBSET S : Cardinality(s) \in Nat /\ (Cardinality(s) = 0 <=> s = {})
  BY FS_Subset, FS_CardinalityType, FS_EmptySet
<1>2. ASSUME NEW s \in SUBSET S, s # {}
      PROVE  /\ s \ {Any(s)} \in SUBSET S /\ f[Any(s)] \in Int
             /\ Cardinality(s \ {Any(s)}) = Cardinality(s) - 1
  BY <1>2, AnyIsOne, OneLess
<1>3. Upto(0)
  <2> DEFINE g == [s \in SUBSET S |-> 0]
  <2>1. g \in [SUBSET S -> Int]
    OBVIOUS
  <2>2. \A s \in SUBSET S : Cardinality(s) <= 0 => Rule(g, s)
    BY <1>1
  <2> QED
    BY <2>1, <2>2
<1>4. ASSUME NEW n \in Nat, Upto(n) PROVE Upto(n + 1)
  <2>1. PICK h \in [SUBSET S -> Int] : \A s \in SUBSET S : Cardinality(s) <= n => Rule(h, s)
    BY <1>4
  <2> DEFINE g == [s \in SUBSET S |-> IF Cardinality(s) = n + 1 THEN f[Any(s)] + h[s \ {Any(s)}]
                                      ELSE h[s]]
  <2>2. g \in [SUBSET S -> Int]
    <3> SUFFICES ASSUME NEW s \in SUBSET S
                 PROVE  (IF Cardinality(s) = n + 1 THEN f[Any(s)] + h[s \ {Any(s)}] ELSE h[s]) \in Int
      OBVIOUS
    <3>1. Cardinality(s) = n + 1 => s # {}
      BY <1>1
    <3>2. s # {} => f[Any(s)] \in Int /\ h[s \ {Any(s)}] \in Int
      BY <1>2
    <3>3. h[s] \in Int
      OBVIOUS
    <3> QED
      BY <3>1, <3>2, <3>3
  <2>3. \A s \in SUBSET S : g[s] = IF Cardinality(s) = n + 1 THEN f[Any(s)] + h[s \ {Any(s)}]
                                   ELSE h[s]
    OBVIOUS
  <2> HIDE DEF g
  <2>4. ASSUME NEW s \in SUBSET S, Cardinality(s) <= n + 1 PROVE Rule(g, s)
    <3>1. CASE s = {}
      <4>1. Cardinality(s) = 0 /\ g[s] = h[s] /\ Rule(h, s)
        BY <1>1, <2>1, <2>3, <3>1
      <4> QED
        BY <3>1, <4>1
    <3>2. CASE s # {}
      <4>1. /\ s \ {Any(s)} \in SUBSET S /\ Cardinality(s) \in Nat
            /\ Cardinality(s \ {Any(s)}) = Cardinality(s) - 1
        BY <1>1, <1>2, <3>2
      <4>2. g[s \ {Any(s)}] = h[s \ {Any(s)}]
        <5>1. PICK r : r = s \ {Any(s)}
          OBVIOUS
        <5>2. r \in SUBSET S /\ Cardinality(r) # n + 1
          BY <2>4, <4>1, <5>1
        <5>3. g[r] = h[r]
          BY <2>3, <5>2
        <5> QED
          BY <5>1, <5>3
      <4>3. CASE Cardinality(s) = n + 1
        BY <2>3, <3>2, <4>2, <4>3
      <4>4. CASE Cardinality(s) <= n
        <5>1. g[s] = h[s] /\ Rule(h, s)
          BY <2>1, <2>3, <4>1, <4>4
        <5> QED
          BY <3>2, <4>2, <5>1
      <4> QED
        BY <2>4, <4>1, <4>3, <4>4
    <3> QED
      BY <3>1, <3>2
  <2> QED
    BY <2>2, <2>4
<1>5. \A n \in Nat : Upto(n)
  <2> HIDE DEF Upto
  <2>1. SUFFICES ASSUME B # {} PROVE FALSE
    OBVIOUS
  <2>2. PICK n \in B : \A m \in B : n <= m
    <3>1. B \in SUBSET Nat
      OBVIOUS
    <3> HIDE DEF B
    <3> QED
      BY <2>1, <3>1, LeastOf
  <2>3. n \in Nat /\ ~Upto(n) /\ n # 0
    BY <1>3, <2>2
  <2>4. n - 1 \in Nat /\ (n - 1) + 1 = n /\ n - 1 \notin B
    BY <2>2, <2>3
  <2> QED
    BY <1>4, <2>3, <2>4
<1>6. PICK g \in [SUBSET S -> Int] :
         \A s \in SUBSET S : Cardinality(s) <= Cardinality(S) => Rule(g, s)
  <2>1. Upto(Cardinality(S))
    BY <1>5, FS_CardinalityType
  <2> QED
    BY <2>1
<1>7. \A s \in SUBSET S : Rule(g, s)
  BY <1>6, FS_Subset
<1>8. Adds(g, f, S)
  BY <1>7 DEF Adds
<1> QED
  BY <1>8

LEMMA SumsAdd ==
    ASSUME NEW f, NEW S, IsFiniteSet(S), \A x \in S : f[x] \in Int
    PROVE  /\ Adds(Sums(f, S), f, S)
           /\ \A s \in SUBSET S : Sums(f, S)[s] \in Int
<1>1. PICK g \in [SUBSET S -> Int] : Adds(g, f, S)
  BY SumsExist
<1>2. Adds(Sums(f, S), f, S)
  BY <1>1, Zenon DEF Sums
<1>3. \A s \in SUBSET S : Sums(f, S)[s] = g[s]
  <2>1. S \in SUBSET S
    OBVIOUS
  <2> QED
    BY <1>1, <1>2, <2>1, SumsAgree
<1> QED
  BY <1>1, <1>2, <1>3

\* Any member may be taken first.
LEMMA SumsSplit ==
    ASSUME NEW f, NEW S, IsFiniteSet(S), \A x \in S : f[x] \in Int,
           NEW g, Adds(g, f, S), \A s \in SUBSET S : g[s] \in Int,
           NEW t \in SUBSET S, NEW u \in t, NEW rest, rest = t \ {u}
    PROVE  g[t] = f[u] + g[rest]
<1> DEFINE B == {s \in SUBSET S : \E x \in s : g[s] # f[x] + g[s \ {x}]}
<1>1. \A s \in SUBSET S : g[s] = IF s = {} THEN 0 ELSE f[Any(s)] + g[s \ {Any(s)}]
  BY Zenon DEF Adds
<1>2. SUFFICES ASSUME B # {} PROVE FALSE
  BY Zenon
<1>3. PICK s \in B : \A r \in SUBSET S : Cardinality(r) < Cardinality(s) => r \notin B
  <2>1. B \in SUBSET (SUBSET S)
    OBVIOUS
  <2> HIDE DEF B
  <2> QED
    BY <1>2, <2>1, SmallestOf
<1>4. PICK x \in s : g[s] # f[x] + g[s \ {x}]
  BY <1>3
<1>5. s \in SUBSET S /\ s # {} /\ Any(s) \in s
  BY <1>3, <1>4, AnyIsOne
<1>6. PICK c : c = Any(s)
  OBVIOUS
<1>7. c \in s /\ g[s] = f[c] + g[s \ {c}] /\ c # x
  BY <1>1, <1>4, <1>5, <1>6
<1>8. /\ s \ {c} \in SUBSET S /\ s \ {c} \notin B
      /\ s \ {x} \in SUBSET S /\ s \ {x} \notin B
  <2>1. ASSUME NEW y \in s PROVE s \ {y} \in SUBSET S /\ s \ {y} \notin B
    <3>1. s \ {y} \in SUBSET S /\ Cardinality(s \ {y}) < Cardinality(s)
      BY <1>5, OneLess
    <3> HIDE DEF B
    <3> QED
      BY <1>3, <3>1
  <2> QED
    BY <1>4, <1>7, <2>1
<1>9. /\ g[s \ {c}] = f[x] + g[(s \ {c}) \ {x}]
      /\ g[s \ {x}] = f[c] + g[(s \ {x}) \ {c}]
  <2>1. x \in s \ {c} /\ c \in s \ {x}
    BY <1>4, <1>7
  <2> QED
    BY <1>8, <2>1
<1>10. (s \ {c}) \ {x} = (s \ {x}) \ {c} /\ (s \ {c}) \ {x} \in SUBSET S
  BY <1>5
<1>11. f[x] \in Int /\ f[c] \in Int /\ g[(s \ {c}) \ {x}] \in Int
  BY <1>4, <1>5, <1>7, <1>10
<1>12. PICK q \in Int : q = g[(s \ {c}) \ {x}]
  BY <1>11
<1>13. g[s] = f[c] + (f[x] + q) /\ g[s \ {x}] = f[c] + q
  BY <1>7, <1>9, <1>10, <1>12
<1>14. f[c] + (f[x] + q) = f[x] + (f[c] + q)
  BY <1>11
<1> QED
  BY <1>4, <1>13, <1>14

\* One more member adds its value.
LEMMA SumGrows ==
    ASSUME NEW f, NEW S, NEW x, x \notin S, IsFiniteSet(S), \A y \in S \union {x} : f[y] \in Int
    PROVE  Sums(f, S \union {x})[S \union {x}] = f[x] + Sums(f, S)[S]
<1> DEFINE T == S \union {x}
           g == Sums(f, T)
<1>1. IsFiniteSet(T) /\ \A y \in T : f[y] \in Int
  BY FS_AddElement
<1>2. Adds(g, f, T) /\ \A s \in SUBSET T : g[s] \in Int
  BY <1>1, SumsAdd
<1>4. g[T] = f[x] + g[T \ {x}]
  <2>1. T \in SUBSET T /\ x \in T
    OBVIOUS
  <2> HIDE DEF g, T
  <2> QED
    BY <1>1, <1>2, <2>1, SumsSplit
<1>5. T \ {x} = S
  OBVIOUS
<1>6. Sums(f, S)[S] = g[S]
  <2>1. Adds(Sums(f, S), f, S)
    BY SumsAdd
  <2>2. S \in SUBSET T /\ S \in SUBSET S
    OBVIOUS
  <2> HIDE DEF T
  <2>3. \A s \in SUBSET S : Sums(f, S)[s] = g[s]
    <3> HIDE DEF g
    <3> QED
      BY <1>1, <1>2, <2>1, <2>2, SumsAgree
  <2> QED
    BY <2>2, <2>3
<1> QED
  BY <1>4, <1>5, <1>6

LEMMA SumOfNone == ASSUME NEW f PROVE Sums(f, {})[{}] = 0
<1>1. Adds(Sums(f, {}), f, {})
  BY SumsAdd, FS_EmptySet
<1>2. {} \in SUBSET {}
  OBVIOUS
<1> QED
  BY <1>1, <1>2, Zenon DEF Adds

\* The reference of Sum and Mean in these terms.
LEMMA SumOfIs == \A n : SumOf(n) = Sums(block, KnownRows(n))[KnownRows(n)]
  BY Zenon DEF SumOf, MapThenSumSet, MapThenFoldSet, Sums, Adds, Any

\* What the loop has added up, and how many values that were.
Total ==
    /\ valid_count = Cardinality(KnownRows(count))
    /\ mode \in {"Sum", "Mean"} => next_value = SumOf(count)

SumInv == Inv /\ (pc = "loop" => Total) /\ SumAndMean

LEMMA RowsAreFinite ==
    ASSUME NEW n \in Nat
    PROVE  IsFiniteSet(KnownRows(n)) /\ KnownRows(n) \subseteq 1..n
<1>1. KnownRows(n) \in SUBSET (1..n)
  BY DEF KnownRows
<1>2. IsFiniteSet(1..n)
  BY FS_Interval
<1> QED
  BY <1>1, <1>2, FS_Subset

LEMMA TotalStep ==
    ASSUME SumInv, Take \/ Skip
    PROVE  Total'
<1>1. /\ TypeOK /\ Total /\ count < Len(block) /\ count \in Nat
      /\ block' = block /\ count' = count + 1 /\ mode' = mode
  BY DEF SumInv, Inv, TypeOK, Take, Skip
<1>2. PICK K : K = KnownRows(count)
  OBVIOUS
<1>3. /\ IsFiniteSet(K) /\ K \subseteq 1..count /\ count + 1 \notin K
      /\ \A i \in K : block[i] \in Int
  BY <1>1, <1>2, RowsAreFinite, OneMore
<1>4. /\ KnownRows(count)' = KnownRows(count + 1)
      /\ SumOf(count)' = Sums(block, KnownRows(count + 1))[KnownRows(count + 1)]
  <2>1. KnownRows(count)' = KnownRows(count + 1)
    BY <1>1 DEF KnownRows
  <2>2. SumOf(count)' = Sums(block', KnownRows(count)')[KnownRows(count)']
    BY Zenon DEF SumOf, MapThenSumSet, MapThenFoldSet, Sums, Adds, Any
  <2> QED
    BY <1>1, <2>1, <2>2, Zenon
<1>5. CASE Skip
  <2>1. KnownRows(count + 1) = K
    BY <1>1, <1>2, <1>5, OneMore DEF Skip
  <2>2. SumOf(count)' = SumOf(count)
    BY <1>2, <1>4, <2>1, SumOfIs
  <2> QED
    BY <1>1, <1>2, <1>4, <1>5, <2>1, <2>2 DEF Skip, Total
<1>6. CASE Take
  <2>1. KnownRows(count + 1) = K \union {count + 1} /\ block[count + 1] \in Int
    BY <1>1, <1>2, <1>6, OneMore DEF Take
  <2>2. Cardinality(KnownRows(count + 1)) = Cardinality(K) + 1
    BY <1>3, <2>1, FS_AddElement
  <2>3. SumOf(count)' = block[count + 1] + SumOf(count)
    <3>1. Sums(block, K \union {count + 1})[K \union {count + 1}]
             = block[count + 1] + Sums(block, K)[K]
      BY <1>3, <2>1, SumGrows
    <3> QED
      BY <1>2, <1>4, <2>1, <3>1, SumOfIs
  <2>4. Sums(block, K)[K] \in Int
    BY <1>3, SumsAdd
  <2>5. SumOf(count) \in Int
    BY <1>2, <2>4, SumOfIs
  <2>6. mode \in {"Sum", "Mean"} =>
           next_value' = next_value + block[count + 1] /\ next_value = SumOf(count)
    BY <1>1, <1>6 DEF Take, Accumulated, Total
  <2>7. mode \in {"Sum", "Mean"} => next_value' = SumOf(count)'
    BY <2>1, <2>3, <2>5, <2>6
  <2> QED
    BY <1>1, <1>2, <1>4, <1>6, <2>2, <2>7 DEF Take, Total
<1> QED
  BY <1>5, <1>6

LEMMA SumHolds == Spec => []SumInv
<1>1. Init => SumInv
  <2> SUFFICES ASSUME Init PROVE SumInv
    OBVIOUS
  <2>1. KnownRows(0) = {} /\ count = 0 /\ pc = "loop" /\ valid_count = 0
        /\ (mode \in {"Sum", "Mean"} => next_value = 0)
    BY DEF Init, KnownRows, Start
  <2>2. SumOf(0) = 0
    BY <2>1, SumOfIs, SumOfNone
  <2>3. Total
    BY <2>1, <2>2, FS_EmptySet DEF Total
  <2> QED
    BY <2>1, <2>3, InitHolds DEF SumInv, SumAndMean, Finished
<1>2. SumInv /\ [Next]_vars => SumInv'
  <2> SUFFICES ASSUME SumInv, [Next]_vars PROVE SumInv'
    OBVIOUS
  <2>1. Inv'
    BY StepHolds DEF SumInv
  <2>2. CASE Skip \/ Take
    <3>1. pc' = "loop"
      BY <2>2 DEF Skip, Take
    <3> QED
      BY <2>1, <2>2, <3>1, TotalStep DEF SumInv, SumAndMean, Finished
  <2>3. CASE Complete
    <3>1. /\ pc = "loop" /\ pc' = "done" /\ count = Len(block) /\ Total
          /\ next_value' = IF valid_count = 0 THEN NaN ELSE next_value
          /\ over' = IF mode = "Mean" /\ valid_count # 0 THEN valid_count ELSE 1
          /\ block' = block /\ mode' = mode /\ Len(block) \in Nat
      BY <2>3 DEF Complete, SumInv, Inv, TypeOK
    <3>2. /\ KnownRows(Len(block))' = KnownRows(Len(block))
          /\ SumOf(Len(block))' = SumOf(Len(block))
      <4>1. KnownRows(Len(block))' = KnownRows(Len(block))
        BY <3>1 DEF KnownRows
      <4>2. SumOf(Len(block))' = Sums(block', KnownRows(Len(block))')[KnownRows(Len(block))']
        BY Zenon DEF SumOf, MapThenSumSet, MapThenFoldSet, Sums, Adds, Any
      <4> QED
        BY <3>1, <4>1, <4>2, SumOfIs, Zenon
    <3>3. KnownRows(Len(block)) # {} => valid_count # 0
      BY <3>1, RowsAreFinite, FS_EmptySet DEF Total
    <3>4. SumAndMean'
      BY <3>1, <3>2, <3>3 DEF SumAndMean, Finished, Total
    <3> QED
      BY <2>1, <3>1, <3>4 DEF SumInv
  <2>4. CASE UNCHANGED vars
    <3>1. /\ KnownRows(count)' = KnownRows(count) /\ block' = block
          /\ KnownRows(Len(block))' = KnownRows(Len(block))
      BY <2>4 DEF vars, KnownRows
    <3>2. /\ SumOf(count)' = Sums(block', KnownRows(count)')[KnownRows(count)']
          /\ SumOf(Len(block))' = Sums(block', KnownRows(Len(block))')[KnownRows(Len(block))']
      BY Zenon DEF SumOf, MapThenSumSet, MapThenFoldSet, Sums, Adds, Any
    <3>3. SumOf(count)' = SumOf(count) /\ SumOf(Len(block))' = SumOf(Len(block))
      BY <3>1, <3>2, SumOfIs, Zenon
    <3> QED
      BY <2>1, <2>4, <3>1, <3>3 DEF SumInv, vars, Total, SumAndMean, Finished
  <2> QED
    BY <2>2, <2>3, <2>4 DEF Next
<1> QED
  BY <1>1, <1>2, PTL DEF Spec

\* Sum yields the sum of the known values of a block of any length, and Mean divides it by
\* their number, wherever unknown values lie between.
THEOREM SumsAndMeansAreRight == Spec => []SumAndMean
<1>1. SumInv => SumAndMean
  BY DEF SumInv
<1> QED
  BY <1>1, SumHolds, PTL

-----------------------------------------------------------------------------
(* The daemon, for one instance at a time, started and restarted in any order,   *)
(* killed at any step and with failing calls.                                  *)

\* What an instance has in memory fits what it has seen or made of the file.
KeyFits == \A p \in Instances :
    /\ stage[p] = "open" => key[p] = arg[p].now
    /\ stage[p] = "write" => file = Short /\ key[p] = arg[p].now
    /\ stage[p] \in {"bind", "serve"} => file \in {key[p], Short}
    /\ stage[p] = "read" => file # Absent
    /\ stage[p] \in {"generate", "open"} /\ arg[p].persistent => file = Short \/ misread[p]

DaemonInv == HostTypeOK /\ KeyFits

LEMMA DaemonInit == HostInit => DaemonInv
  BY DaemonAssumption DEF HostInit, DaemonInv, HostTypeOK, KeyFits, Keys

\* Every step of the one instance keeps the invariant.
LEMMA DaemonStep ==
    ASSUME \A p, q \in Instances : p = q, DaemonInv, [HostNext]_host
    PROVE  DaemonInv'
<1> USE DaemonAssumption DEF DaemonInv, HostTypeOK, KeyFits, Keys, Goto
<1>1. CASE UNCHANGED host
  BY <1>1 DEF host
<1>2. CASE Tick
  BY <1>2 DEF Tick
<1>3. ASSUME NEW p \in Instances, NEW persistent \in BOOLEAN, StartServer(p, persistent) PROVE DaemonInv'
  BY <1>3 DEF StartServer
<1>4. ASSUME NEW p \in Instances, Look(p) PROVE DaemonInv'
  BY <1>4 DEF Look
<1>5. ASSUME NEW p \in Instances, Read(p) PROVE DaemonInv'
  <2>1. CASE stage'[p] = "bind"
    BY <1>5, <2>1 DEF Read
  <2>2. CASE stage'[p] = "generate"
    <3>1. /\ stage' = [stage EXCEPT ![p] = "generate"] /\ key' = key /\ file' = file
          /\ arg' = arg /\ clock' = clock
          /\ misread' = [misread EXCEPT ![p] = file # Short]
      BY <1>5, <2>2 DEF Read
    <3>2. misread' \in [Instances -> BOOLEAN]
      <4>1. (file # Short) \in BOOLEAN
        OBVIOUS
      <4> QED
        BY <3>1, <4>1
    <3>3. file = Short \/ misread'[p]
      BY <3>1
    <3> QED
      BY <3>1, <3>2, <3>3
  <2> QED
    BY <1>5, <2>1, <2>2 DEF Read
<1>6. ASSUME NEW p \in Instances, Generate(p) PROVE DaemonInv'
  BY <1>6 DEF Generate
<1>7. ASSUME NEW p \in Instances, OpenFile(p) PROVE DaemonInv'
  BY <1>7 DEF OpenFile
<1>8. ASSUME NEW p \in Instances, WriteFile(p) PROVE DaemonInv'
  BY <1>8 DEF WriteFile
<1>9. ASSUME NEW p \in Instances, Bind(p) PROVE DaemonInv'
  BY <1>9 DEF Bind
<1>10. ASSUME NEW p \in Instances, Stop(p) \/ Kill(p) PROVE DaemonInv'
  BY <1>10 DEF Stop, Kill
<1> QED
  BY <1>1, <1>2, <1>3, <1>4, <1>5, <1>6, <1>7, <1>8, <1>9, <1>10 DEF HostNext, Run

\* The file never tells another key than that of the server that runs.
THEOREM FileIsRight ==
    ASSUME \A p, q \in Instances : p = q
    PROVE  HostSpec => []KeyFileIsRight
<1>1. DaemonInv => KeyFileIsRight
  BY DEF DaemonInv, KeyFits, FileTellsKey, KeyFileIsRight
<1>2. DaemonInv /\ [HostNext]_host => DaemonInv'
  BY DaemonStep
<1> QED
  BY DaemonInit, <1>1, <1>2, PTL DEF HostSpec

\* A known key is replaced only by a start without -a, or by one whose read of it failed.
THEOREM KnownKeyIsKept ==
    ASSUME \A p, q \in Instances : p = q
    PROVE  HostSpec => KeyKept
<1>1. ASSUME DaemonInv, [HostNext]_host
      PROVE  [file' # file /\ file \in Keys =>
                 \E p \in Instances : stage[p] = "open" /\ (~arg[p].persistent \/ misread[p])]_host
  <2>1. SUFFICES ASSUME HostNext, file' # file, file \in Keys
                 PROVE  \E p \in Instances : stage[p] = "open" /\ (~arg[p].persistent \/ misread[p])
    BY <1>1 DEF host
  <2>2. PICK p \in Instances : OpenFile(p) \/ WriteFile(p)
    BY <2>1 DEF HostNext, Tick, StartServer, Run, Look, Read, Generate, Bind, Stop, Kill
  <2>3. file # Short
    BY <2>1, DaemonAssumption DEF Keys
  <2>4. stage[p] = "open"
    BY <1>1, <2>2, <2>3 DEF DaemonInv, KeyFits, OpenFile, WriteFile
  <2> QED
    BY <1>1, <2>3, <2>4 DEF DaemonInv, KeyFits
<1>2. DaemonInv /\ [HostNext]_host => DaemonInv'
  BY DaemonStep
<1> QED
  BY DaemonInit, <1>1, <1>2, PTL DEF HostSpec, KeyKept
=============================================================================
