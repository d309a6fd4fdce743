---------------------------- MODULE DeferredProofs ----------------------------
(* Proofs about Deferred: what is promised of jQuery's deferreds and of             *)
(* jQuery.when, for any number of them, any callbacks and any depth of calls        *)
(* within calls, with exceptions at any time.                                      *)
EXTENDS Deferred, FiniteSetTheorems, SequenceTheorems, WellFoundedInduction, TLAPS

Callback == [is : {"cancel"}, n : {0}] \union [is : {"part"}, n : Nat]
            \union [is : {"reject"}, n : {0}] \union [is : {"user"}, n : Callbacks]

\* The places of a list: all but the last, and the last.
LEMMA Places ==
    \A k \in Nat : /\ \A n \in 1..k : (n \in 1..(k - 1) \/ n = k) /\ n \in 1..(k + 1)
                   /\ \A n \in 1..(k - 1) : n \in 1..k /\ n # k
                   /\ \A n \in 1..(k + 1) : n \in 1..k \/ n = k + 1
                   /\ k > 0 => k \in 1..k
                   /\ k + 1 \in 1..(k + 1)
  OBVIOUS

\* How many there are from one place to another.
LEMMA Spans ==
    \A k \in Nat : /\ k > 0 => (IF 1 <= k - 1 THEN k - 1 - 1 + 1 ELSE 0) = k - 1
                   /\ \A m \in 0..k : (IF m + 1 <= k THEN k - (m + 1) + 1 ELSE 0) = k - m
  OBVIOUS

-----------------------------------------------------------------------------
(* The functions of the page among the callbacks of a list.                      *)

\* A set that holds 0, and with a number the next, holds all of them.
LEMMA AllNumbers ==
    ASSUME NEW S \in SUBSET Nat, 0 \in S, \A n \in S : n + 1 \in S
    PROVE  S = Nat
<1> SUFFICES ASSUME Nat \ S # {} PROVE FALSE
  OBVIOUS
<1> DEFINE R == OpToRel(<, Nat)
<1>1. IsWellFoundedOn(R, Nat)
  BY NatLessThanWellFounded
<1>2. \A x, y \in Nat : <<x, y>> \in R <=> x < y
  BY DEF OpToRel
<1> HIDE DEF R
<1>3. PICK n \in Nat \ S : \A m \in Nat \ S : ~ (<<m, n>> \in R)
  BY <1>1, WFMin
<1>4. n # 0 /\ n - 1 \in Nat
  BY <1>3
<1>5. n - 1 \in S
  <2>1. <<n - 1, n>> \in R
    BY <1>2, <1>4
  <2> QED
    BY <1>3, <1>4, <2>1
<1> QED
  BY <1>3, <1>4, <1>5

\* first tells the page's functions among the first n callbacks of cs.
Firsts(cs, first) ==
    first = [n \in 0..Len(cs) |->
                IF n = 0 THEN <<>>
                ELSE IF cs[n].is = "user" THEN Append(first[n - 1], cs[n].n) ELSE first[n - 1]]

LEMMA UserOnlyIs == \A cs : UserOnly(cs) = (CHOOSE first : Firsts(cs, first))[Len(cs)]
  BY DEF UserOnly, Firsts

LEMMA FirstsOfNone == Firsts(<<>>, [n \in {0} |-> <<>>])
<1>1. 0..Len(<<>>) = {0}
  OBVIOUS
<1> QED
  BY <1>1 DEF Firsts

\* One callback more.
LEMMA FirstsOfAppend ==
    ASSUME NEW cs \in Seq(Callback), NEW c \in Callback, NEW first, Firsts(cs, first)
    PROVE  LET last == IF c.is = "user" THEN Append(first[Len(cs)], c.n) ELSE first[Len(cs)]
           IN  Firsts(Append(cs, c), [n \in 0..(Len(cs) + 1) |-> IF n = Len(cs) + 1 THEN last ELSE first[n]])
<1> DEFINE ds == Append(cs, c)
           last == IF c.is = "user" THEN Append(first[Len(cs)], c.n) ELSE first[Len(cs)]
           g == [n \in 0..(Len(cs) + 1) |-> IF n = Len(cs) + 1 THEN last ELSE first[n]]
<1>1. Len(ds) = Len(cs) + 1 /\ Len(cs) \in Nat
      /\ (\A n \in 1..Len(cs) : ds[n] = cs[n]) /\ ds[Len(cs) + 1] = c
  BY AppendProperties
<1> HIDE DEF ds
<1>2. ASSUME NEW n \in 0..Len(cs)
      PROVE  first[n] = IF n = 0 THEN <<>>
                        ELSE IF cs[n].is = "user" THEN Append(first[n - 1], cs[n].n) ELSE first[n - 1]
  BY Zenon DEF Firsts
<1>3. ASSUME NEW n \in 0..(Len(cs) + 1)
      PROVE  g[n] = IF n = 0 THEN <<>>
                    ELSE IF ds[n].is = "user" THEN Append(g[n - 1], ds[n].n) ELSE g[n - 1]
  <2>1. CASE n = 0
    BY <2>1, <1>1, <1>2
  <2>2. CASE n \in 1..Len(cs)
    <3>1. g[n] = first[n] /\ g[n - 1] = first[n - 1] /\ ds[n] = cs[n] /\ n # 0 /\ n \in 0..Len(cs)
      BY <2>2, <1>1
    <3> QED
      BY <3>1, <1>2, Zenon
  <2>3. CASE n = Len(cs) + 1
    <3>1. g[n] = last /\ g[n - 1] = first[Len(cs)] /\ ds[n] = c /\ n # 0
      BY <2>3, <1>1
    <3> QED
      BY <3>1, Zenon
  <2> QED
    BY <1>1, <2>1, <2>2, <2>3
<1>4. g = [n \in 0..(Len(cs) + 1) |->
             IF n = 0 THEN <<>>
             ELSE IF ds[n].is = "user" THEN Append(g[n - 1], ds[n].n) ELSE g[n - 1]]
  BY <1>3
<1>5. Firsts(ds, g)
  BY <1>1, <1>4 DEF Firsts
<1> QED
  BY <1>5 DEF ds

LEMMA FirstsExist == \A cs \in Seq(Callback) : \E first : Firsts(cs, first)
<1> DEFINE S == {m \in Nat : \A cs \in Seq(Callback) : Len(cs) = m => \E first : Firsts(cs, first)}
<1>1. 0 \in S
  BY EmptySeq, FirstsOfNone
<1>2. ASSUME NEW m \in S PROVE m + 1 \in S
  <2> SUFFICES ASSUME NEW cs \in Seq(Callback), Len(cs) = m + 1 PROVE \E first : Firsts(cs, first)
    OBVIOUS
  <2>1. PICK front \in Seq(Callback), c \in Callback : cs = Append(front, c)
    <3>1. cs # <<>>
      OBVIOUS
    <3> QED
      BY <3>1, SequenceEmptyOrAppend
  <2>2. Len(front) = m
    BY <2>1, AppendProperties
  <2>3. PICK first : Firsts(front, first)
    BY <2>2
  <2> QED
    BY <2>1, <2>3, FirstsOfAppend, Zenon
<1> HIDE DEF S
<1>3. S = Nat
  <2>1. S \in SUBSET Nat
    BY DEF S
  <2> QED
    BY <1>1, <1>2, <2>1, AllNumbers
<1> QED
  BY <1>3 DEF S

LEMMA FirstsAgree ==
    ASSUME NEW cs \in Seq(Callback), NEW f, Firsts(cs, f), NEW g, Firsts(cs, g)
    PROVE  f[Len(cs)] = g[Len(cs)]
<1> DEFINE S == {n \in Nat : n <= Len(cs) => f[n] = g[n]}
<1>1. ASSUME NEW n \in 0..Len(cs)
      PROVE  /\ f[n] = IF n = 0 THEN <<>>
                       ELSE IF cs[n].is = "user" THEN Append(f[n - 1], cs[n].n) ELSE f[n - 1]
             /\ g[n] = IF n = 0 THEN <<>>
                       ELSE IF cs[n].is = "user" THEN Append(g[n - 1], cs[n].n) ELSE g[n - 1]
  BY Zenon DEF Firsts
<1>2. 0 \in S
  BY <1>1
<1>3. ASSUME NEW n \in S PROVE n + 1 \in S
  <2> SUFFICES ASSUME n + 1 <= Len(cs) PROVE f[n + 1] = g[n + 1]
    BY <1>3
  <2>1. f[n] = g[n] /\ n + 1 \in 0..Len(cs) /\ n + 1 # 0 /\ (n + 1) - 1 = n
    BY <1>3
  <2> QED
    BY <1>1, <2>1, Zenon
<1> HIDE DEF S
<1>4. S = Nat
  <2>1. S \in SUBSET Nat
    BY DEF S
  <2> QED
    BY <1>2, <1>3, <2>1, AllNumbers
<1> QED
  BY <1>4 DEF S

LEMMA UserOnlyFirsts ==
    ASSUME NEW cs \in Seq(Callback), NEW first, Firsts(cs, first)
    PROVE  UserOnly(cs) = first[Len(cs)]
<1> DEFINE chosen == CHOOSE f : Firsts(cs, f)
<1>1. Firsts(cs, chosen)
  OBVIOUS
<1> HIDE DEF chosen
<1>2. chosen[Len(cs)] = first[Len(cs)]
  BY <1>1, FirstsAgree
<1> QED
  BY <1>2, UserOnlyIs DEF chosen

LEMMA UserOnlyEmpty == UserOnly(<<>>) = <<>>
<1>1. <<>> \in Seq(Callback) /\ Len(<<>>) = 0
  BY EmptySeq
<1> QED
  BY <1>1, FirstsOfNone, UserOnlyFirsts

LEMMA UserOnlyAppend ==
    ASSUME NEW cs \in Seq(Callback), NEW c \in Callback
    PROVE  UserOnly(Append(cs, c)) = IF c.is = "user" THEN Append(UserOnly(cs), c.n) ELSE UserOnly(cs)
<1>1. PICK first : Firsts(cs, first)
  BY FirstsExist
<1> DEFINE last == IF c.is = "user" THEN Append(first[Len(cs)], c.n) ELSE first[Len(cs)]
           g == [n \in 0..(Len(cs) + 1) |-> IF n = Len(cs) + 1 THEN last ELSE first[n]]
<1>2. Firsts(Append(cs, c), g)
  BY <1>1, FirstsOfAppend, Zenon
<1>3. Append(cs, c) \in Seq(Callback) /\ Len(Append(cs, c)) = Len(cs) + 1 /\ Len(cs) \in Nat
  BY AppendProperties
<1> HIDE DEF g
<1>4. UserOnly(Append(cs, c)) = g[Len(cs) + 1]
  BY <1>2, <1>3, UserOnlyFirsts
<1>5. g[Len(cs) + 1] = last
  BY <1>3 DEF g
<1>6. UserOnly(cs) = first[Len(cs)]
  BY <1>1, UserOnlyFirsts
<1> QED
  BY <1>4, <1>5, <1>6

LEMMA UserOnlyType == \A cs \in Seq(Callback) : UserOnly(cs) \in Seq(Callbacks)
<1> DEFINE S == {m \in Nat : \A cs \in Seq(Callback) : Len(cs) = m => UserOnly(cs) \in Seq(Callbacks)}
<1>1. 0 \in S
  BY EmptySeq, UserOnlyEmpty
<1>2. ASSUME NEW m \in S PROVE m + 1 \in S
  <2> SUFFICES ASSUME NEW cs \in Seq(Callback), Len(cs) = m + 1 PROVE UserOnly(cs) \in Seq(Callbacks)
    OBVIOUS
  <2>1. PICK front \in Seq(Callback), c \in Callback : cs = Append(front, c)
    <3>1. cs # <<>>
      OBVIOUS
    <3> QED
      BY <3>1, SequenceEmptyOrAppend
  <2>2. Len(front) = m
    BY <2>1, AppendProperties
  <2>3. UserOnly(front) \in Seq(Callbacks)
    BY <2>2
  <2>4. UserOnly(cs) = IF c.is = "user" THEN Append(UserOnly(front), c.n) ELSE UserOnly(front)
    BY <2>1, UserOnlyAppend
  <2>5. c.is = "user" => c.n \in Callbacks
    BY DEF Callback
  <2> QED
    BY <2>3, <2>4, <2>5
<1> HIDE DEF S
<1>3. S = Nat
  <2>1. S \in SUBSET Nat
    BY DEF S
  <2> QED
    BY <1>1, <1>2, <2>1, AllNumbers
<1> QED
  BY <1>3 DEF S

LEMMA CallbacksConcat ==
    \A s, t, u \in Seq(Callbacks) : (s \o t) \o u = s \o (t \o u)
<1> SUFFICES ASSUME NEW s \in Seq(Callbacks), NEW t \in Seq(Callbacks), NEW u \in Seq(Callbacks)
             PROVE  (s \o t) \o u = s \o (t \o u)
  OBVIOUS
<1> QED
  BY ConcatAssociative

LEMMA UserOnlyConcat ==
    \A cs, ds \in Seq(Callback) : UserOnly(cs \o ds) = UserOnly(cs) \o UserOnly(ds)
<1> SUFFICES ASSUME NEW cs \in Seq(Callback)
             PROVE  \A ds \in Seq(Callback) : UserOnly(cs \o ds) = UserOnly(cs) \o UserOnly(ds)
  OBVIOUS
<1> DEFINE S == {m \in Nat : \A ds \in Seq(Callback) : Len(ds) = m => UserOnly(cs \o ds) = UserOnly(cs) \o UserOnly(ds)}
<1>0. UserOnly(cs) \in Seq(Callbacks)
  BY UserOnlyType
<1>1. 0 \in S
  <2> SUFFICES ASSUME NEW ds \in Seq(Callback), Len(ds) = 0 PROVE UserOnly(cs \o ds) = UserOnly(cs) \o UserOnly(ds)
    OBVIOUS
  <2>1. ds = <<>>
    BY EmptySeq
  <2>2. cs \o ds = cs /\ UserOnly(cs) \o <<>> = UserOnly(cs)
    BY <1>0, <2>1, ConcatEmptySeq
  <2> QED
    BY <2>1, <2>2, UserOnlyEmpty
<1>2. ASSUME NEW m \in S PROVE m + 1 \in S
  <2> SUFFICES ASSUME NEW ds \in Seq(Callback), Len(ds) = m + 1
               PROVE  UserOnly(cs \o ds) = UserOnly(cs) \o UserOnly(ds)
    OBVIOUS
  <2>1. PICK front \in Seq(Callback), c \in Callback : ds = Append(front, c)
    <3>1. ds # <<>>
      OBVIOUS
    <3> QED
      BY <3>1, SequenceEmptyOrAppend
  <2>2. Len(front) = m
    BY <2>1, AppendProperties
  <2>3. UserOnly(cs \o front) = UserOnly(cs) \o UserOnly(front) /\ UserOnly(front) \in Seq(Callbacks)
    BY <2>2, UserOnlyType
  <2>4. cs \o ds = Append(cs \o front, c) /\ cs \o front \in Seq(Callback)
    <3>1. ds = front \o <<c>> /\ <<c>> \in Seq(Callback) /\ cs \o front \in Seq(Callback)
      BY <2>1, AppendIsConcat
    <3>2. cs \o ds = (cs \o front) \o <<c>>
      BY <3>1, ConcatAssociative
    <3> QED
      BY <3>1, <3>2, AppendIsConcat
  <2>5. UserOnly(cs \o ds) = IF c.is = "user" THEN Append(UserOnly(cs \o front), c.n) ELSE UserOnly(cs \o front)
    BY <2>4, UserOnlyAppend
  <2>6. UserOnly(ds) = IF c.is = "user" THEN Append(UserOnly(front), c.n) ELSE UserOnly(front)
    BY <2>1, UserOnlyAppend
  <2>7. CASE c.is = "user"
    <3>1. c.n \in Callbacks
      BY <2>7 DEF Callback
    <3>2. UserOnly(ds) = UserOnly(front) \o <<c.n>> /\ <<c.n>> \in Seq(Callbacks)
      BY <2>3, <2>6, <2>7, <3>1, AppendIsConcat
    <3>3. UserOnly(cs) \o UserOnly(front) \in Seq(Callbacks)
      BY <1>0, <2>3, ConcatProperties
    <3>4. UserOnly(cs \o ds) = (UserOnly(cs) \o UserOnly(front)) \o <<c.n>>
      BY <2>3, <2>5, <2>7, <3>1, <3>3, AppendIsConcat
    <3>5. <<c.n>> \in Seq(Callbacks) /\ UserOnly(cs) \in Seq(Callbacks) /\ UserOnly(front) \in Seq(Callbacks)
      BY <1>0, <2>3, <3>2
    <3>6. (UserOnly(cs) \o UserOnly(front)) \o <<c.n>> = UserOnly(cs) \o (UserOnly(front) \o <<c.n>>)
      BY <3>5, CallbacksConcat, Zenon
    <3> QED
      BY <3>2, <3>4, <3>6, Zenon
  <2> QED
    BY <2>3, <2>5, <2>6, <2>7
<1> HIDE DEF S
<1>3. S = Nat
  <2>1. S \in SUBSET Nat
    BY DEF S
  <2> QED
    BY <1>1, <1>2, <2>1, AllNumbers
<1> QED
  BY <1>3 DEF S

LEMMA UserOnlyOne ==
    \A c \in Callback : UserOnly(<<c>>) = IF c.is = "user" THEN <<c.n>> ELSE <<>>
<1> SUFFICES ASSUME NEW c \in Callback PROVE UserOnly(<<c>>) = IF c.is = "user" THEN <<c.n>> ELSE <<>>
  OBVIOUS
<1>1. <<c>> = Append(<<>>, c) /\ <<c.n>> = Append(<<>>, c.n) /\ <<>> \in Seq(Callback)
  OBVIOUS
<1> QED
  BY <1>1, UserOnlyAppend, UserOnlyEmpty

\* What is left when the first has been taken.
LEMMA UserOnlyTail ==
    ASSUME NEW cs \in Seq(Callback), cs # <<>>
    PROVE  UserOnly(cs) = IF Head(cs).is = "user" THEN <<Head(cs).n>> \o UserOnly(Tail(cs)) ELSE UserOnly(Tail(cs))
<1>1. Head(cs) \in Callback /\ Tail(cs) \in Seq(Callback) /\ <<Head(cs)>> \in Seq(Callback)
  BY HeadTailProperties
<1>2. cs = <<Head(cs)>> \o Tail(cs)
  BY <1>1
<1>3. UserOnly(cs) = UserOnly(<<Head(cs)>>) \o UserOnly(Tail(cs))
  BY <1>1, <1>2, UserOnlyConcat
<1>4. UserOnly(Tail(cs)) \in Seq(Callbacks)
  BY <1>1, UserOnlyType
<1>5. <<>> \o UserOnly(Tail(cs)) = UserOnly(Tail(cs))
  BY <1>4, ConcatEmptySeq
<1> QED
  BY <1>1, <1>3, <1>5, UserOnlyOne

\* What the page registers are functions of the page.
LEMMA UserOnlyUsers ==
    \A cs \in Seq(Callbacks) : /\ [n \in DOMAIN cs |-> User(cs[n])] \in Seq(Callback)
                               /\ UserOnly([n \in DOMAIN cs |-> User(cs[n])]) = cs
<1> DEFINE users(cs) == [n \in DOMAIN cs |-> User(cs[n])]
           S == {m \in Nat : \A cs \in Seq(Callbacks) : Len(cs) = m => UserOnly(users(cs)) = cs}
<1>0. ASSUME NEW cs \in Seq(Callbacks)
      PROVE  users(cs) \in Seq(Callback) /\ Len(users(cs)) = Len(cs)
  <2>1. \A n \in 1..Len(cs) : User(cs[n]) \in Callback
    BY DEF User, Callback
  <2>2. DOMAIN cs = 1..Len(cs) /\ Len(cs) \in Nat
    OBVIOUS
  <2> QED
    BY <2>1, <2>2, IsASeq
<1>1. 0 \in S
  <2> SUFFICES ASSUME NEW cs \in Seq(Callbacks), Len(cs) = 0 PROVE UserOnly(users(cs)) = cs
    OBVIOUS
  <2>1. cs = <<>>
    BY EmptySeq
  <2>2. Len(users(cs)) = 0 /\ users(cs) \in Seq(Callback)
    BY <1>0
  <2>3. users(cs) = <<>>
    BY <2>2, EmptySeq
  <2> QED
    BY <2>1, <2>3, UserOnlyEmpty
<1>2. ASSUME NEW m \in S PROVE m + 1 \in S
  <2> SUFFICES ASSUME NEW cs \in Seq(Callbacks), Len(cs) = m + 1 PROVE UserOnly(users(cs)) = cs
    OBVIOUS
  <2>1. PICK front \in Seq(Callbacks), c \in Callbacks : cs = Append(front, c)
    <3>1. cs # <<>>
      OBVIOUS
    <3> QED
      BY <3>1, SequenceEmptyOrAppend
  <2>2. Len(front) = m /\ (\A n \in 1..m : cs[n] = front[n]) /\ cs[m + 1] = c
    BY <2>1, AppendProperties
  <2>3. UserOnly(users(front)) = front
    BY <2>2
  <2>4. users(cs) = Append(users(front), User(c))
    <3>1. /\ users(cs) \in Seq(Callback) /\ Len(users(cs)) = m + 1
          /\ users(front) \in Seq(Callback) /\ Len(users(front)) = m
      BY <1>0, <2>2
    <3>2. User(c) \in Callback
      BY DEF User, Callback
    <3>3. /\ Append(users(front), User(c)) \in Seq(Callback)
          /\ Len(Append(users(front), User(c))) = m + 1
          /\ \A n \in 1..m : Append(users(front), User(c))[n] = users(front)[n]
          /\ Append(users(front), User(c))[m + 1] = User(c)
      BY <3>1, <3>2, AppendProperties
    <3>4. DOMAIN cs = 1..(m + 1) /\ DOMAIN front = 1..m
      BY <2>2
    <3>5. ASSUME NEW n \in 1..(m + 1) PROVE users(cs)[n] = Append(users(front), User(c))[n]
      <4>1. users(cs)[n] = User(cs[n])
        BY <3>4
      <4>2. CASE n \in 1..m
        BY <2>2, <3>3, <3>4, <4>1, <4>2
      <4>3. CASE n = m + 1
        BY <2>2, <3>3, <4>1, <4>3
      <4>4. n \in 1..m \/ n = m + 1
        <5>1. m \in Nat
          OBVIOUS
        <5> HIDE DEF S
        <5> QED
          BY <5>1, Places
      <4> QED
        BY <4>2, <4>3, <4>4
    <3> HIDE DEF users
    <3> QED
      BY <3>1, <3>3, <3>5, SeqEqual
  <2>5. User(c) \in Callback /\ User(c).is = "user" /\ User(c).n = c
    BY DEF User, Callback
  <2>6. users(front) \in Seq(Callback)
    BY <1>0
  <2> HIDE DEF users
  <2> QED
    BY <2>1, <2>3, <2>4, <2>5, <2>6, UserOnlyAppend
<1> HIDE DEF S
<1>3. S = Nat
  <2>1. S \in SUBSET Nat
    BY DEF S
  <2> QED
    BY <1>1, <1>2, <2>1, AllNumbers
<1>4. ASSUME NEW cs \in Seq(Callbacks) PROVE UserOnly(users(cs)) = cs
  <2>1. Len(cs) \in S
    BY <1>3
  <2> QED
    BY <2>1 DEF S
<1> QED
  BY <1>0, <1>4

-----------------------------------------------------------------------------
(* Stacks: the frames of lists that fire, with their values, whatever they call.  *)

\* The list of d for o fires with v.
Has(s, d, o, v) ==
    \E n \in DOMAIN s : s[n].is = "fire" /\ s[n].d = d /\ s[n].o = o /\ s[n].value = v

\* A list has one frame.
Unique(s) ==
    \A m, n \in DOMAIN s : s[m].is = "fire" /\ s[n].is = "fire" /\ s[m].d = s[n].d /\ s[m].o = s[n].o => m = n

\* The same lists fire with the same values.
Alike(s, t) == Unique(t) /\ \A d, o, v : Has(s, d, o, v) <=> Has(t, d, o, v)

LEMMA OneHas ==
    ASSUME NEW s, Unique(s), NEW d, NEW o, NEW v, NEW w, Has(s, d, o, v), Has(s, d, o, w)
    PROVE  v = w
<1>1. PICK m \in DOMAIN s : s[m].is = "fire" /\ s[m].d = d /\ s[m].o = o /\ s[m].value = v
  BY Zenon DEF Has
<1>2. PICK n \in DOMAIN s : s[n].is = "fire" /\ s[n].d = d /\ s[n].o = o /\ s[n].value = w
  BY Zenon DEF Has
<1>3. m = n
  BY <1>1, <1>2, Zenon DEF Unique
<1> QED
  BY <1>1, <1>2, <1>3

LEMMA FrontLast ==
    ASSUME NEW F, NEW s \in Seq(F), s # <<>>
    PROVE  /\ Len(s) \in Nat /\ Len(s) > 0 /\ Len(s) \in DOMAIN s
           /\ Last(s) \in F /\ Last(s) = s[Len(s)]
           /\ Front(s) \in Seq(F) /\ Len(Front(s)) = Len(s) - 1
           /\ \A n \in 1..(Len(s) - 1) : Front(s)[n] = s[n]
<1>1. /\ Len(s) \in Nat /\ Len(s) > 0 /\ DOMAIN s = 1..Len(s)
      /\ \A n \in 1..Len(s) : s[n] \in F
  OBVIOUS
<1>2. /\ Front(s) \in Seq(F) /\ Len(Front(s)) = Len(s) - 1
      /\ \A n \in 1..(Len(s) - 1) : Front(s)[n] = s[n]
  <2>1. 1 \in Int /\ Len(s) - 1 \in Int /\ \A n \in 1..(Len(s) - 1) : s[n] \in F
    BY <1>1
  <2>2. /\ SubSeq(s, 1, Len(s) - 1) \in Seq(F)
        /\ Len(SubSeq(s, 1, Len(s) - 1)) = IF 1 <= Len(s) - 1 THEN Len(s) - 1 - 1 + 1 ELSE 0
        /\ \A i \in 1..(Len(s) - 1 - 1 + 1) : SubSeq(s, 1, Len(s) - 1)[i] = s[1 + i - 1]
    BY <2>1, SubSeqProperties
  <2>3. Len(s) - 1 - 1 + 1 = Len(s) - 1 /\ \A i \in 1..(Len(s) - 1) : 1 + i - 1 = i
    BY <1>1
  <2>4. Len(SubSeq(s, 1, Len(s) - 1)) = Len(s) - 1
    BY <1>1, <2>2, Spans, Zenon
  <2> QED
    BY <2>2, <2>3, <2>4, Zenon DEF Front
<1> QED
  BY <1>1, <1>2 DEF Last

\* A frame at the end, and the frames below it.
LEMMA HasAppend ==
    ASSUME NEW F, NEW s \in Seq(F), NEW f \in F, NEW d, NEW o, NEW v
    PROVE  Has(Append(s, f), d, o, v) <=> Has(s, d, o, v) \/ (f.is = "fire" /\ f.d = d /\ f.o = o /\ f.value = v)
<1>1. /\ Len(s) \in Nat /\ DOMAIN s = 1..Len(s)
      /\ DOMAIN Append(s, f) = 1..(Len(s) + 1)
      /\ \A n \in 1..Len(s) : Append(s, f)[n] = s[n]
      /\ Append(s, f)[Len(s) + 1] = f
  BY AppendProperties
<1> DEFINE t == Append(s, f)
<1> HIDE DEF t
<1>2. \A n \in 1..(Len(s) + 1) : n \in 1..Len(s) \/ n = Len(s) + 1
  BY <1>1, Places
<1>3. \A n \in 1..Len(s) : n \in 1..(Len(s) + 1)
  BY <1>1, Places
<1>4. Len(s) + 1 \in 1..(Len(s) + 1)
  BY <1>1, Places
<1> QED
  BY <1>1, <1>2, <1>3, <1>4, Zenon DEF Has

LEMMA HasFront ==
    ASSUME NEW F, NEW s \in Seq(F), s # <<>>, NEW d, NEW o, NEW v
    PROVE  Has(s, d, o, v) <=>
               Has(Front(s), d, o, v)
               \/ (Last(s).is = "fire" /\ Last(s).d = d /\ Last(s).o = o /\ Last(s).value = v)
<1>1. /\ Len(s) \in Nat /\ Len(s) > 0 /\ DOMAIN s = 1..Len(s) /\ Last(s) = s[Len(s)]
      /\ DOMAIN Front(s) = 1..(Len(s) - 1)
      /\ \A n \in 1..(Len(s) - 1) : Front(s)[n] = s[n]
  BY FrontLast
<1>2. \A n \in 1..Len(s) : n \in 1..(Len(s) - 1) \/ n = Len(s)
  BY <1>1, Places
<1>3. \A n \in 1..(Len(s) - 1) : n \in 1..Len(s)
  BY <1>1, Places
<1>4. Len(s) \in 1..Len(s)
  BY <1>1, Places
<1> QED
  BY <1>1, <1>2, <1>3, <1>4, Zenon DEF Has

LEMMA UniqueFront ==
    ASSUME NEW F, NEW s \in Seq(F), s # <<>>, Unique(s)
    PROVE  /\ Unique(Front(s))
           /\ Last(s).is = "fire" => \A v : ~Has(Front(s), Last(s).d, Last(s).o, v)
<1>1. /\ Len(s) \in Nat /\ Len(s) > 0 /\ DOMAIN s = 1..Len(s) /\ Last(s) = s[Len(s)]
      /\ DOMAIN Front(s) = 1..(Len(s) - 1)
      /\ \A n \in 1..(Len(s) - 1) : Front(s)[n] = s[n]
  BY FrontLast
<1>2. \A n \in 1..(Len(s) - 1) : n \in 1..Len(s) /\ n # Len(s)
  BY <1>1, Places
<1>3. Len(s) \in 1..Len(s)
  BY <1>1, Places
<1>4. Unique(Front(s))
  BY <1>1, <1>2, Zenon DEF Unique
<1>5. ASSUME Last(s).is = "fire", NEW v, Has(Front(s), Last(s).d, Last(s).o, v) PROVE FALSE
  <2>1. PICK n \in 1..(Len(s) - 1) : s[n].is = "fire" /\ s[n].d = Last(s).d /\ s[n].o = Last(s).o
    BY <1>1, <1>5 DEF Has
  <2>2. n = Len(s)
    BY <1>1, <1>2, <1>3, <1>5, <2>1, Zenon DEF Unique
  <2> QED
    BY <1>2, <2>2
<1> QED
  BY <1>4, <1>5

LEMMA UniqueAppend ==
    ASSUME NEW F, NEW s \in Seq(F), NEW f \in F, Unique(s),
           f.is = "fire" => \A v : ~Has(s, f.d, f.o, v)
    PROVE  Unique(Append(s, f))
<1>1. /\ Len(s) \in Nat /\ DOMAIN s = 1..Len(s)
      /\ DOMAIN Append(s, f) = 1..(Len(s) + 1)
      /\ \A n \in 1..Len(s) : Append(s, f)[n] = s[n]
      /\ Append(s, f)[Len(s) + 1] = f
  BY AppendProperties
<1> DEFINE t == Append(s, f)
<1> HIDE DEF t
<1>2. \A n \in 1..(Len(s) + 1) : n \in 1..Len(s) \/ n = Len(s) + 1
  BY <1>1, Places
<1>3. ASSUME NEW n \in 1..Len(s), s[n].is = "fire", f.is = "fire", s[n].d = f.d, s[n].o = f.o PROVE FALSE
  <2>1. Has(s, f.d, f.o, s[n].value)
    BY <1>1, <1>3, Zenon DEF Has
  <2> QED
    BY <1>3, <2>1
<1>4. ASSUME NEW m \in DOMAIN t, NEW n \in DOMAIN t,
             t[m].is = "fire", t[n].is = "fire", t[m].d = t[n].d, t[m].o = t[n].o
      PROVE  m = n
  <2>1. CASE m \in 1..Len(s) /\ n \in 1..Len(s)
    BY <1>1, <1>4, <2>1, Zenon DEF t, Unique
  <2>2. CASE m \in 1..Len(s) /\ n = Len(s) + 1
    BY <1>1, <1>3, <1>4, <2>2, Zenon DEF t
  <2>3. CASE n \in 1..Len(s) /\ m = Len(s) + 1
    BY <1>1, <1>3, <1>4, <2>3, Zenon DEF t
  <2> QED
    BY <1>1, <1>2, <1>4, <2>1, <2>2, <2>3 DEF t
<1>5. Unique(t)
  BY <1>4, Zenon DEF Unique
<1> QED
  BY <1>5 DEF t

\* What goes on below the top one, and at it, without a list's beginning or ending.
LEMMA AlikeTop ==
    ASSUME NEW F, NEW s \in Seq(F), s # <<>>, Unique(s), NEW f \in F,
           f.is = "fire" => /\ Last(s).is = "fire" /\ Last(s).d = f.d /\ Last(s).o = f.o
                            /\ Last(s).value = f.value,
           Last(s).is = "fire" => f.is = "fire"
    PROVE  Alike(s, Append(Front(s), f))
<1>1. Front(s) \in Seq(F)
  BY FrontLast
<1>2. Unique(Front(s)) /\ (Last(s).is = "fire" => \A v : ~Has(Front(s), Last(s).d, Last(s).o, v))
  BY UniqueFront
<1>3. f.is = "fire" => \A v : ~Has(Front(s), f.d, f.o, v)
  BY <1>2
<1>4. Unique(Append(Front(s), f))
  BY <1>1, <1>2, <1>3, UniqueAppend
<1>5. ASSUME NEW d, NEW o, NEW v PROVE Has(s, d, o, v) <=> Has(Append(Front(s), f), d, o, v)
  <2>1. Has(Append(Front(s), f), d, o, v)
        <=> Has(Front(s), d, o, v) \/ (f.is = "fire" /\ f.d = d /\ f.o = o /\ f.value = v)
    BY <1>1, HasAppend
  <2>2. Has(s, d, o, v) <=>
               Has(Front(s), d, o, v)
               \/ (Last(s).is = "fire" /\ Last(s).d = d /\ Last(s).o = o /\ Last(s).value = v)
    BY HasFront
  <2> QED
    BY <2>1, <2>2
<1> QED
  BY <1>4, <1>5 DEF Alike

LEMMA AlikePushed ==
    ASSUME NEW F, NEW s \in Seq(F), Unique(s), NEW f \in F, f.is # "fire"
    PROVE  Alike(s, Append(s, f))
<1>1. Unique(Append(s, f))
  BY UniqueAppend
<1>2. \A d, o, v : Has(s, d, o, v) <=> Has(Append(s, f), d, o, v)
  BY HasAppend
<1> QED
  BY <1>1, <1>2 DEF Alike

LEMMA AlikePopped ==
    ASSUME NEW F, NEW s \in Seq(F), s # <<>>, Unique(s), Last(s).is # "fire"
    PROVE  Alike(s, Front(s))
<1>1. Unique(Front(s))
  BY UniqueFront
<1>2. \A d, o, v : Has(s, d, o, v) <=> Has(Front(s), d, o, v)
  BY HasFront
<1> QED
  BY <1>1, <1>2 DEF Alike

\* The stack above a depth is unwound.
LEMMA UnwindingPlaces ==
    ASSUME NEW F, NEW s \in Seq(F), NEW depth \in 0..Len(s)
    PROVE  LET kept == SubSeq(s, 1, depth)
               unwound == SubSeq(s, depth + 1, Len(s))
           IN  /\ kept \in Seq(F) /\ unwound \in Seq(F)
               /\ Len(kept) = depth /\ Len(unwound) = Len(s) - depth
               /\ \A n \in 1..depth : kept[n] = s[n]
               /\ \A n \in 1..(Len(s) - depth) : unwound[n] = s[depth + n]
<1> DEFINE kept == SubSeq(s, 1, depth)
           unwound == SubSeq(s, depth + 1, Len(s))
<1>1. Len(s) \in Nat /\ depth \in Nat /\ depth <= Len(s) /\ DOMAIN s = 1..Len(s)
  OBVIOUS
<1>2. kept \in Seq(F) /\ Len(kept) = depth /\ \A n \in 1..depth : kept[n] = s[n]
  <2>1. 1 \in Int /\ depth \in Int /\ \A n \in 1..depth : s[n] \in F
    BY <1>1
  <2>2. /\ SubSeq(s, 1, depth) \in Seq(F)
        /\ Len(SubSeq(s, 1, depth)) = IF 1 <= depth THEN depth - 1 + 1 ELSE 0
        /\ \A i \in 1..(depth - 1 + 1) : SubSeq(s, 1, depth)[i] = s[1 + i - 1]
    BY <2>1, SubSeqProperties
  <2> QED
    BY <1>1, <2>2
<1>3. /\ unwound \in Seq(F) /\ Len(unwound) = Len(s) - depth
      /\ \A n \in 1..(Len(s) - depth) : unwound[n] = s[depth + n]
  <2>1. depth + 1 \in Int /\ Len(s) \in Int /\ \A n \in (depth + 1)..Len(s) : s[n] \in F
    BY <1>1
  <2>2. /\ SubSeq(s, depth + 1, Len(s)) \in Seq(F)
        /\ Len(SubSeq(s, depth + 1, Len(s))) = IF depth + 1 <= Len(s) THEN Len(s) - (depth + 1) + 1 ELSE 0
        /\ \A i \in 1..(Len(s) - (depth + 1) + 1) : SubSeq(s, depth + 1, Len(s))[i] = s[depth + 1 + i - 1]
    BY <2>1, SubSeqProperties
  <2>3. Len(s) - (depth + 1) + 1 = Len(s) - depth
        /\ \A i \in 1..(Len(s) - depth) : depth + 1 + i - 1 = depth + i
    BY <1>1
  <2>4. Len(SubSeq(s, depth + 1, Len(s))) = Len(s) - depth
    BY <1>1, <2>2, Spans, Zenon
  <2> QED
    BY <2>2, <2>3, <2>4, Zenon
<1> QED
  BY <1>2, <1>3, Zenon

LEMMA Unwinding ==
    ASSUME NEW F, NEW s \in Seq(F), Unique(s), NEW depth \in 0..Len(s)
    PROVE  LET kept == SubSeq(s, 1, depth)
               unwound == SubSeq(s, depth + 1, Len(s))
           IN  /\ kept \in Seq(F) /\ unwound \in Seq(F)
               /\ Len(kept) = depth /\ Len(unwound) = Len(s) - depth
               /\ \A n \in 1..depth : kept[n] = s[n]
               /\ \A n \in 1..(Len(s) - depth) : unwound[n] = s[depth + n]
               /\ Unique(kept) /\ Unique(unwound)
               /\ \A d, o, v : Has(s, d, o, v) <=> Has(kept, d, o, v) \/ Has(unwound, d, o, v)
               /\ \A d, o, v, w : ~(Has(kept, d, o, v) /\ Has(unwound, d, o, w))
<1> DEFINE kept == SubSeq(s, 1, depth)
           unwound == SubSeq(s, depth + 1, Len(s))
<1>1. Len(s) \in Nat /\ depth \in Nat /\ depth <= Len(s) /\ DOMAIN s = 1..Len(s)
  OBVIOUS
<1>2. kept \in Seq(F) /\ Len(kept) = depth /\ \A n \in 1..depth : kept[n] = s[n]
  BY UnwindingPlaces
<1>3. /\ unwound \in Seq(F) /\ Len(unwound) = Len(s) - depth
      /\ \A n \in 1..(Len(s) - depth) : unwound[n] = s[depth + n]
  BY UnwindingPlaces
<1>4. DOMAIN kept = 1..depth /\ DOMAIN unwound = 1..(Len(s) - depth)
  BY <1>2, <1>3
<1> HIDE DEF kept, unwound
<1>5. \A n \in 1..depth : n \in 1..Len(s)
  BY <1>1
<1>6. \A n \in 1..(Len(s) - depth) : depth + n \in 1..Len(s)
  BY <1>1
<1>7. Unique(kept)
  BY <1>1, <1>2, <1>4, <1>5, Zenon DEF Unique
<1>8. Unique(unwound)
  <2> SUFFICES ASSUME NEW m \in DOMAIN unwound, NEW n \in DOMAIN unwound,
                      unwound[m].is = "fire", unwound[n].is = "fire",
                      unwound[m].d = unwound[n].d, unwound[m].o = unwound[n].o
               PROVE  m = n
    BY Zenon DEF Unique
  <2>1. unwound[m] = s[depth + m] /\ unwound[n] = s[depth + n]
    BY <1>3, <1>4, Zenon
  <2>2. depth + m \in 1..Len(s) /\ depth + n \in 1..Len(s)
    BY <1>4, <1>6, Zenon
  <2>3. depth + m = depth + n
    BY <1>1, <2>1, <2>2, Zenon DEF Unique
  <2> QED
    BY <1>1, <1>4, <2>3
<1>9. ASSUME NEW d, NEW o, NEW v
      PROVE  Has(s, d, o, v) <=> Has(kept, d, o, v) \/ Has(unwound, d, o, v)
  <2>1. ASSUME Has(kept, d, o, v) PROVE Has(s, d, o, v)
    BY <1>1, <1>2, <1>4, <1>5, <2>1, Zenon DEF Has
  <2>2. ASSUME Has(unwound, d, o, v) PROVE Has(s, d, o, v)
    BY <1>1, <1>3, <1>4, <1>6, <2>2, Zenon DEF Has
  <2>3. ASSUME Has(s, d, o, v) PROVE Has(kept, d, o, v) \/ Has(unwound, d, o, v)
    <3>1. PICK n \in 1..Len(s) : s[n].is = "fire" /\ s[n].d = d /\ s[n].o = o /\ s[n].value = v
      BY <1>1, <2>3, Zenon DEF Has
    <3>2. CASE n \in 1..depth
      BY <1>2, <1>4, <3>1, <3>2, Zenon DEF Has
    <3>3. CASE n > depth
      <4>1. n - depth \in 1..(Len(s) - depth) /\ depth + (n - depth) = n
        BY <1>1, <3>3
      <4>2. unwound[n - depth] = s[n]
        BY <1>3, <4>1
      <4> QED
        BY <1>4, <3>1, <4>1, <4>2, Zenon DEF Has
    <3> QED
      BY <1>1, <3>2, <3>3
  <2> QED
    BY <2>1, <2>2, <2>3
<1>10. ASSUME NEW d, NEW o, NEW v, NEW w, Has(kept, d, o, v), Has(unwound, d, o, w) PROVE FALSE
  <2>1. PICK m \in 1..depth : s[m].is = "fire" /\ s[m].d = d /\ s[m].o = o
    BY <1>2, <1>4, <1>10, Zenon DEF Has
  <2>2. PICK n \in 1..(Len(s) - depth) : s[depth + n].is = "fire" /\ s[depth + n].d = d /\ s[depth + n].o = o
    BY <1>3, <1>4, <1>10, Zenon DEF Has
  <2>3. m \in 1..Len(s) /\ depth + n \in 1..Len(s)
    BY <1>5, <1>6, Zenon
  <2>4. m = depth + n
    BY <1>1, <2>1, <2>2, <2>3, Zenon DEF Unique
  <2> QED
    BY <1>1, <2>4
<1> QED
  BY <1>2, <1>3, <1>7, <1>8, <1>9, <1>10, Zenon DEF kept, unwound

-----------------------------------------------------------------------------
(* What the variables hold.                                                    *)

Results == Values \union Arrays

\* jQuery.when is called once.
OneWhen(s) == \A m, n \in DOMAIN s : s[m].is = "when" /\ s[n].is = "when" => m = n

Whenless(s) == \A n \in DOMAIN s : s[n].is # "when"

\* What a deferred is settled with.
Fit(d, o) == IF d \in Parts \/ o = "fail" THEN Values ELSE Arrays

FireFrame ==
    {f \in [is : {"fire"}, d : Deferreds, o : Outcomes, value : Results, calls : Callbacks \union {None}] :
        f.value \in Fit(f.d, f.o)}

\* A call of jQuery.when that has not returned, and the place of its loop.
WhenFrame ==
    {f \in [is : {"when"}, n : Nat, half : Outcomes] :
        /\ promise = "making" /\ f.n <= Len(args)
        /\ f.half = "fail" => f.n > 0 /\ args[f.n] \in Parts}

Frame == FireFrame \union WhenFrame

\* What may hang on a deferred: callbacks of jQuery.when only where it was called with it.
Hangs(d, o) ==
    {c \in Callback :
        /\ c.is = "part" => o = "done" /\ d \in Parts /\ c.n \in DOMAIN args /\ args[c.n] = d
        /\ c.is = "reject" => o = "fail" /\ d \in Parts /\ \E n \in DOMAIN args : args[n] = d}

Lists(S) == [Deferreds -> [Outcomes -> S]]

ListsOK ==
    /\ callbacks \in Lists(Seq(Callback))
    /\ \A d \in Deferreds, o \in Outcomes : callbacks[d][o] \in Seq(Hangs(d, o))
    /\ fired \in Lists(Results \union {None})
    /\ \A d \in Deferreds, o \in Outcomes : fired[d][o] # None => fired[d][o] \in Fit(d, o)
    /\ firing \in Lists(BOOLEAN) /\ cancelled \in Lists(BOOLEAN)

LocalsOK ==
    /\ promise \in {"no", "making", "yes", "lost"} /\ count \in Int
    /\ promise = "no" => args = <<>> /\ array = <<>>
    /\ promise # "no" => args \in Arguments /\ array \in [DOMAIN args -> Values \union ToSet(args)]

StackOK ==
    /\ stack \in Seq(Frame)
    /\ OneWhen(stack)

HistoryOK ==
    /\ added \in Lists(Seq(Callbacks))
    /\ ran \in Lists(Seq([callback : Callbacks, value : Results]))

Typed == ListsOK /\ LocalsOK /\ StackOK /\ HistoryOK

LEMMA Distinct ==
    ASSUME DeferredConstants
    PROVE  /\ None \notin Callbacks /\ None \notin Values /\ None \notin Arrays
           /\ Parts \cap Values = {} /\ Master \notin Parts
           /\ \A a \in Arguments : Len(a) \in Nat /\ DOMAIN a = 1..Len(a)
           /\ \A cs \in Registrations : cs \in Seq(Callbacks)
  BY DEF DeferredConstants

LEMMA FitResults == \A d, o : Fit(d, o) \subseteq Results
  BY DEF Fit, Results

LEMMA InitTyped == Init => Typed
<1> SUFFICES ASSUME Init PROVE Typed
  OBVIOUS
<1>1. <<Cancel>> \in Seq(Callback) /\ \A d, o : <<Cancel>> \in Seq(Hangs(d, o))
  BY DEF Cancel, Callback, Hangs
<1>2. ListsOK
  BY <1>1 DEF Init, Each, Built, ListsOK, Lists
<1>3. LocalsOK
  BY DEF Init, LocalsOK
<1>4. StackOK
  BY DEF Init, StackOK, OneWhen
<1>5. HistoryOK
  BY DEF Init, Each, HistoryOK, Lists
<1> QED
  BY <1>2, <1>3, <1>4, <1>5 DEF Typed

\* Wherever jQuery.when stands, what hangs may stay.
LEMMA HangsStays ==
    ASSUME Typed, promise # "no" => args' = args
    PROVE  \A d, o : Hangs(d, o) \subseteq Hangs(d, o)'
<1>1. CASE args' = args
  BY <1>1 DEF Hangs
<1>2. CASE promise = "no"
  <2>1. args = <<>>
    BY <1>2 DEF Typed, LocalsOK
  <2> QED
    BY <2>1 DEF Hangs
<1> QED
  BY <1>1, <1>2

\* A list that goes on with what it has, or with less.
LEMMA ShiftTyped ==
    ASSUME ListsOK, NEW d \in Deferreds, NEW o \in Outcomes, callbacks[d][o] # <<>>
    PROVE  /\ [callbacks EXCEPT ![d][o] = Tail(@)] \in Lists(Seq(Callback))
           /\ \A e \in Deferreds, w \in Outcomes :
                 [callbacks EXCEPT ![d][o] = Tail(@)][e][w] \in Seq(Hangs(e, w))
           /\ Head(callbacks[d][o]) \in Hangs(d, o)
<1>1. Head(callbacks[d][o]) \in Hangs(d, o) /\ Tail(callbacks[d][o]) \in Seq(Hangs(d, o))
  BY HeadTailProperties DEF ListsOK
<1>2. Tail(callbacks[d][o]) \in Seq(Callback)
  BY HeadTailProperties DEF ListsOK, Lists
<1> QED
  BY <1>1, <1>2 DEF ListsOK, Lists

LEMMA ListsExcept ==
    ASSUME NEW S, NEW f \in Lists(S), NEW d \in Deferreds, NEW o \in Outcomes, NEW x \in S
    PROVE  /\ [f EXCEPT ![d][o] = x] \in Lists(S)
           /\ \A e \in Deferreds, w \in Outcomes :
                 [f EXCEPT ![d][o] = x][e][w] = IF e = d /\ w = o THEN x ELSE f[e][w]
  BY DEF Lists

LEMMA FrameExcept ==
    ASSUME NEW f \in FireFrame, NEW c \in Callbacks \union {None}
    PROVE  /\ [f EXCEPT !.calls = c] \in FireFrame
           /\ [f EXCEPT !.calls = c].is = "fire" /\ [f EXCEPT !.calls = c].d = f.d
           /\ [f EXCEPT !.calls = c].o = f.o /\ [f EXCEPT !.calls = c].value = f.value
           /\ [f EXCEPT !.calls = c].calls = c
  BY DEF FireFrame

LEMMA WhenFront ==
    ASSUME NEW F, NEW s \in Seq(F), s # <<>>, OneWhen(s)
    PROVE  OneWhen(Front(s)) /\ (Last(s).is = "when" => Whenless(Front(s)))
<1>1. /\ Len(s) \in Nat /\ Len(s) > 0 /\ DOMAIN s = 1..Len(s) /\ Last(s) = s[Len(s)]
      /\ DOMAIN Front(s) = 1..(Len(s) - 1)
      /\ \A n \in 1..(Len(s) - 1) : Front(s)[n] = s[n]
  BY FrontLast
<1>2. \A n \in 1..(Len(s) - 1) : n \in 1..Len(s) /\ n # Len(s)
  BY <1>1, Places
<1>3. Len(s) \in 1..Len(s)
  BY <1>1, Places
<1> QED
  BY <1>1, <1>2, <1>3, Zenon DEF OneWhen, Whenless

LEMMA WhenAppend ==
    ASSUME NEW F, NEW s \in Seq(F), NEW f \in F, OneWhen(s), f.is = "when" => Whenless(s)
    PROVE  OneWhen(Append(s, f)) /\ (f.is # "when" /\ Whenless(s) => Whenless(Append(s, f)))
<1>1. /\ Len(s) \in Nat /\ DOMAIN s = 1..Len(s)
      /\ DOMAIN Append(s, f) = 1..(Len(s) + 1)
      /\ \A n \in 1..Len(s) : Append(s, f)[n] = s[n]
      /\ Append(s, f)[Len(s) + 1] = f
  BY AppendProperties
<1> DEFINE t == Append(s, f)
<1> HIDE DEF t
<1>2. \A n \in 1..(Len(s) + 1) : n \in 1..Len(s) \/ n = Len(s) + 1
  BY <1>1, Places
<1>3. ASSUME NEW m \in DOMAIN t, NEW n \in DOMAIN t, t[m].is = "when", t[n].is = "when" PROVE m = n
  <2>1. CASE m \in 1..Len(s) /\ n \in 1..Len(s)
    BY <1>1, <1>3, <2>1, Zenon DEF t, OneWhen
  <2>2. CASE m \in 1..Len(s) /\ n = Len(s) + 1
    BY <1>1, <1>3, <2>2, Zenon DEF t, Whenless
  <2>3. CASE n \in 1..Len(s) /\ m = Len(s) + 1
    BY <1>1, <1>3, <2>3, Zenon DEF t, Whenless
  <2> QED
    BY <1>1, <1>2, <1>3, <2>1, <2>2, <2>3, Zenon DEF t
<1>4. OneWhen(t)
  BY <1>3, Zenon DEF OneWhen
<1>5. ASSUME f.is # "when", Whenless(s) PROVE Whenless(t)
  BY <1>1, <1>2, <1>5, Zenon DEF t, Whenless
<1> QED
  BY <1>4, <1>5, Zenon DEF t

LEMMA FiringFrame ==
    ASSUME NEW d \in Deferreds, NEW o \in Outcomes, NEW v \in Fit(d, o)
    PROVE  Firing(d, o, v) \in FireFrame /\ Firing(d, o, v).is = "fire"
<1>1. v \in Results
  BY FitResults
<1> QED
  BY <1>1 DEF Firing, FireFrame

\* What goes on the stack when a deferred is settled.
LEMMA SettleTyped ==
    ASSUME ListsOK, NEW d \in Deferreds, NEW o \in Outcomes, NEW v \in Fit(d, o),
           NEW F, FireFrame \subseteq F, NEW below \in Seq(F), OneWhen(below), Settle(d, o, v, below)
    PROVE  /\ firing' \in Lists(BOOLEAN)
           /\ stack' \in Seq(F) /\ OneWhen(stack') /\ (Whenless(below) => Whenless(stack'))
<1>1. Firing(d, o, v) \in F /\ Firing(d, o, v).is = "fire"
  BY FiringFrame
<1>2. /\ Append(below, Firing(d, o, v)) \in Seq(F) /\ OneWhen(Append(below, Firing(d, o, v)))
      /\ (Whenless(below) => Whenless(Append(below, Firing(d, o, v))))
  BY <1>1, WhenAppend
<1>3. firing' \in Lists(BOOLEAN)
  <2>1. firing' = firing \/ firing' = [firing EXCEPT ![d][o] = TRUE]
    BY Zenon DEF Settle
  <2>2. [firing EXCEPT ![d][o] = TRUE] \in Lists(BOOLEAN)
    BY ListsExcept, Zenon DEF ListsOK
  <2> QED
    BY <2>1, <2>2, Zenon DEF ListsOK
<1> QED
  BY <1>2, <1>3, Zenon DEF Settle

\* What is hung on a list, and what goes on the stack.
LEMMA AddTyped ==
    ASSUME Typed, DeferredConstants, args' = args, NEW d \in Deferreds, NEW o \in Outcomes,
           NEW new \in Seq(Hangs(d, o)),
           NEW F, FireFrame \subseteq F, NEW below \in Seq(F), OneWhen(below), Add(d, o, new, below)
    PROVE  /\ ListsOK' /\ added' \in Lists(Seq(Callbacks))
           /\ stack' \in Seq(F) /\ OneWhen(stack')
<1>1. \A e, w : Hangs(e, w)' = Hangs(e, w)
  BY DEF Hangs
<1>2. CASE cancelled[d][o]
  <2>1. UNCHANGED <<callbacks, fired, firing, cancelled, added>> /\ stack' = below
    BY <1>2 DEF Add, lists
  <2> QED
    BY <1>1, <2>1 DEF Typed, ListsOK, HistoryOK, Lists
<1>3. CASE ~cancelled[d][o]
  <2>1. /\ callbacks' = [callbacks EXCEPT ![d][o] = @ \o new]
        /\ added' = [added EXCEPT ![d][o] = @ \o UserOnly(new)]
        /\ fired' = [fired EXCEPT ![d][o] = None]
        /\ cancelled' = cancelled
    BY <1>3 DEF Add
  <2>2. new \in Seq(Callback)
    BY DEF Hangs
  <2>3. callbacks[d][o] \o new \in Seq(Callback) /\ callbacks[d][o] \o new \in Seq(Hangs(d, o))
    BY <2>2, ConcatProperties DEF Typed, ListsOK, Lists
  <2>4. callbacks' \in Lists(Seq(Callback))
    BY <2>1, <2>3 DEF Typed, ListsOK, Lists
  <2>5. ASSUME NEW e \in Deferreds, NEW w \in Outcomes PROVE callbacks'[e][w] \in Seq(Hangs(e, w))
    BY <2>1, <2>3 DEF Typed, ListsOK, Lists
  <2>6. fired' \in Lists(Results \union {None})
    BY <2>1 DEF Typed, ListsOK, Lists
  <2>7. ASSUME NEW e \in Deferreds, NEW w \in Outcomes, fired'[e][w] # None PROVE fired'[e][w] \in Fit(e, w)
    BY <2>1, <2>7 DEF Typed, ListsOK, Lists
  <2>8. firing' \in Lists(BOOLEAN)
    <3>1. firing' = firing \/ firing' = [firing EXCEPT ![d][o] = TRUE]
      BY <1>3, Zenon DEF Add
    <3>2. [firing EXCEPT ![d][o] = TRUE] \in Lists(BOOLEAN)
      BY ListsExcept, Zenon DEF Typed, ListsOK
    <3> QED
      BY <3>1, <3>2, Zenon DEF Typed, ListsOK
  <2>9. added' \in Lists(Seq(Callbacks))
    <3>1. UserOnly(new) \in Seq(Callbacks)
      BY <2>2, UserOnlyType
    <3>2. added[d][o] \o UserOnly(new) \in Seq(Callbacks)
      BY <3>1, ConcatProperties DEF Typed, HistoryOK, Lists
    <3> QED
      BY <2>1, <3>2 DEF Typed, HistoryOK, Lists
  <2>10. stack' \in Seq(F) /\ OneWhen(stack')
    <3>1. CASE fired[d][o] = None
      BY <1>3, <3>1 DEF Add
    <3>2. CASE fired[d][o] # None
      <4>1. fired[d][o] \in Fit(d, o)
        BY <3>2 DEF Typed, ListsOK
      <4>2. Firing(d, o, fired[d][o]) \in F /\ Firing(d, o, fired[d][o]).is = "fire"
        BY <4>1, FiringFrame
      <4>3. stack' = Append(below, Firing(d, o, fired[d][o]))
        BY <1>3, <3>2, Zenon DEF Add
      <4> QED
        BY <4>2, <4>3, WhenAppend
    <3> QED
      BY <3>1, <3>2
  <2>11. cancelled' \in Lists(BOOLEAN)
    BY <2>1 DEF Typed, ListsOK
  <2> QED
    BY <1>1, <2>4, <2>5, <2>6, <2>7, <2>8, <2>9, <2>10, <2>11 DEF ListsOK
<1> QED
  BY <1>2, <1>3

\* What an exception, or the end of a loop, leaves of the lists.
LEMMA LeftTyped ==
    ASSUME ListsOK, NEW frames \in Seq(Frame), Left(frames)
    PROVE  /\ fired' \in Lists(Results \union {None}) /\ firing' \in Lists(BOOLEAN)
           /\ \A d \in Deferreds, o \in Outcomes : fired'[d][o] # None => fired'[d][o] \in Fit(d, o)
<1> DEFINE of(d, o) == {n \in DOMAIN frames : frames[n].is = "fire" /\ frames[n].d = d /\ frames[n].o = o}
           value(d, o) == IF of(d, o) = {} THEN fired[d][o] ELSE frames[CHOOSE n \in of(d, o) : TRUE].value
<1>1. ASSUME NEW d \in Deferreds, NEW o \in Outcomes
      PROVE  /\ value(d, o) \in Results \union {None}
             /\ value(d, o) # None => value(d, o) \in Fit(d, o)
  <2>1. CASE of(d, o) = {}
    BY <2>1 DEF ListsOK, Lists
  <2>2. CASE of(d, o) # {}
    <3> DEFINE n == CHOOSE m \in of(d, o) : TRUE
    <3>1. n \in of(d, o)
      BY <2>2
    <3>2. frames[n] \in Frame /\ frames[n].is = "fire" /\ frames[n].d = d /\ frames[n].o = o
      BY <3>1
    <3>3. frames[n].value \in Results /\ frames[n].value \in Fit(d, o)
      BY <3>2 DEF Frame, FireFrame, WhenFrame
    <3> QED
      BY <2>2, <3>3
  <2> QED
    BY <2>1, <2>2
<1>2. fired' = [d \in Deferreds |-> [o \in Outcomes |-> value(d, o)]]
  BY Zenon DEF Left
<1>3. firing' = [d \in Deferreds |-> [o \in Outcomes |-> firing[d][o] /\ of(d, o) = {}]]
  BY Zenon DEF Left
<1>4. fired' \in Lists(Results \union {None})
  <2> HIDE DEF value, of
  <2>1. \A d \in Deferreds, o \in Outcomes : value(d, o) \in Results \union {None}
    BY <1>1, Zenon
  <2> QED
    BY <1>2, <2>1, Zenon DEF Lists
<1>5. firing' \in Lists(BOOLEAN)
  <2>1. \A d \in Deferreds, o \in Outcomes : (firing[d][o] /\ of(d, o) = {}) \in BOOLEAN
    BY Zenon
  <2> QED
    BY <1>3, <2>1, Zenon DEF Lists
<1>6. ASSUME NEW d \in Deferreds, NEW o \in Outcomes PROVE fired'[d][o] = value(d, o)
  BY <1>2, Zenon
<1> HIDE DEF value, of
<1>7. ASSUME NEW d \in Deferreds, NEW o \in Outcomes, fired'[d][o] # None PROVE fired'[d][o] \in Fit(d, o)
  BY <1>1, <1>6, <1>7, Zenon
<1> QED
  BY <1>4, <1>5, <1>7, Zenon

\* The top of the stack, and what is below it.
LEMMA TopTyped ==
    ASSUME StackOK, stack # <<>>
    PROVE  /\ top \in Frame /\ rest \in Seq(Frame) /\ OneWhen(rest)
           /\ top.is = "when" => top \in WhenFrame /\ Whenless(rest)
           /\ top.is # "when" => top \in FireFrame
<1>1. top \in Frame /\ rest \in Seq(Frame)
  BY FrontLast DEF top, rest, StackOK
<1>2. OneWhen(rest) /\ (top.is = "when" => Whenless(rest))
  BY WhenFront DEF top, rest, StackOK
<1> QED
  BY <1>1, <1>2 DEF Frame, FireFrame, WhenFrame

LEMMA WhenTyped ==
    ASSUME NEW n \in Nat, NEW half \in Outcomes, promise = "making", n <= Len(args),
           half = "fail" => n > 0 /\ args[n] \in Parts
    PROVE  When(n, half) \in Frame
  BY DEF When, Frame, WhenFrame, Outcomes

LEMMA UnwindingWhens ==
    ASSUME NEW F, NEW s \in Seq(F), OneWhen(s), NEW depth \in 0..Len(s)
    PROVE  LET kept == SubSeq(s, 1, depth)
               unwound == SubSeq(s, depth + 1, Len(s))
           IN  OneWhen(kept) /\ (Whenless(kept) \/ Whenless(unwound))
<1> DEFINE kept == SubSeq(s, 1, depth)
           unwound == SubSeq(s, depth + 1, Len(s))
<1>1. Len(s) \in Nat /\ depth \in Nat /\ depth <= Len(s) /\ DOMAIN s = 1..Len(s)
  OBVIOUS
<1>2. kept \in Seq(F) /\ Len(kept) = depth /\ \A n \in 1..depth : kept[n] = s[n]
  BY UnwindingPlaces
<1>3. /\ unwound \in Seq(F) /\ Len(unwound) = Len(s) - depth
      /\ \A n \in 1..(Len(s) - depth) : unwound[n] = s[depth + n]
  BY UnwindingPlaces
<1>4. DOMAIN kept = 1..depth /\ DOMAIN unwound = 1..(Len(s) - depth)
  BY <1>2, <1>3
<1> HIDE DEF kept, unwound
<1>5. \A n \in 1..depth : n \in 1..Len(s)
  BY <1>1
<1>6. \A m \in 1..depth, n \in 1..(Len(s) - depth) : depth + n \in 1..Len(s) /\ depth + n # m
  BY <1>1
<1>7. OneWhen(kept)
  BY <1>1, <1>2, <1>4, <1>5, Zenon DEF OneWhen
<1>8. ASSUME NEW m \in 1..depth, kept[m].is = "when", NEW n \in 1..(Len(s) - depth), unwound[n].is = "when"
      PROVE  FALSE
  <2>1. s[m].is = "when" /\ s[depth + n].is = "when" /\ m \in DOMAIN s /\ depth + n \in DOMAIN s
    BY <1>1, <1>2, <1>3, <1>5, <1>6, <1>8
  <2>2. m = depth + n
    BY <2>1, Zenon DEF OneWhen
  <2> QED
    BY <1>6, <2>2
<1> QED
  BY <1>4, <1>7, <1>8, Zenon DEF Whenless, kept, unwound

\* The page calls.
LEMMA PageTyped ==
    ASSUME Typed, DeferredConstants, Page PROVE Typed'
<1> USE DEF Typed
<1>0. /\ None \notin Callbacks /\ Master \in Deferreds /\ Parts \subseteq Deferreds
      /\ \A a \in Arguments : Len(a) \in Nat /\ DOMAIN a = 1..Len(a)
  BY Distinct DEF Deferreds
<1>1. ASSUME NEW d \in Deferreds, NEW o \in Outcomes, NEW cs \in Registrations, CallAdd(d, o, cs)
      PROVE  Typed'
  <2> DEFINE new == [n \in DOMAIN cs |-> User(cs[n])]
  <2>1. cs \in Seq(Callbacks)
    BY Distinct
  <2>2. new \in Seq(Hangs(d, o))
    <3>1. DOMAIN cs = 1..Len(cs) /\ Len(cs) \in Nat /\ \A n \in 1..Len(cs) : cs[n] \in Callbacks
      BY <2>1
    <3>2. \A n \in 1..Len(cs) : User(cs[n]) \in Hangs(d, o)
      BY <3>1 DEF User, Callback, Hangs
    <3> QED
      BY <3>1, <3>2, IsASeq
  <2>3. UNCHANGED <<promise, args, array, count, ran>> /\ Add(d, o, new, stack)
    BY <1>1 DEF CallAdd, locals
  <2> HIDE DEF new
  <2>4. FireFrame \subseteq Frame /\ stack \in Seq(Frame) /\ OneWhen(stack)
    BY DEF Frame, StackOK
  <2>5. ListsOK' /\ added' \in Lists(Seq(Callbacks)) /\ stack' \in Seq(Frame) /\ OneWhen(stack')
    BY <2>2, <2>3, <2>4, AddTyped
  <2>6. Frame' = Frame
    BY <2>3 DEF Frame, FireFrame, WhenFrame
  <2> QED
    BY <2>3, <2>5, <2>6 DEF LocalsOK, StackOK, HistoryOK
<1>2. ASSUME NEW d \in Parts, NEW o \in Outcomes, NEW v \in Values, CallSettle(d, o, v)
      PROVE  Typed'
  <2>1. /\ UNCHANGED <<callbacks, fired, cancelled, promise, args, array, count, added, ran>>
        /\ Settle(d, o, v, stack)
    BY <1>2 DEF CallSettle, locals, history
  <2>2. FireFrame \subseteq Frame /\ stack \in Seq(Frame) /\ OneWhen(stack)
    BY DEF Frame, StackOK
  <2>3. v \in Fit(d, o) /\ d \in Deferreds
    BY <1>0 DEF Fit
  <2>4. firing' \in Lists(BOOLEAN) /\ stack' \in Seq(Frame) /\ OneWhen(stack')
    BY <2>1, <2>2, <2>3, SettleTyped
  <2>5. Frame' = Frame /\ \A e, w : Hangs(e, w)' = Hangs(e, w)
    BY <2>1 DEF Frame, FireFrame, WhenFrame, Hangs
  <2> QED
    BY <2>1, <2>4, <2>5 DEF ListsOK, LocalsOK, StackOK, HistoryOK
<1>3. ASSUME NEW a \in Arguments, CallWhen(a) PROVE Typed'
  <2>1. /\ promise = "no" /\ promise' = "making" /\ args' = a /\ array' = a /\ count' = Len(a)
        /\ stack' = Append(stack, When(Len(a), "done"))
        /\ UNCHANGED <<callbacks, fired, firing, cancelled, added, ran>>
    BY <1>3 DEF CallWhen, lists, history
  <2>2. \A e, w : Hangs(e, w) \subseteq Hangs(e, w)'
    BY <2>1, HangsStays
  <2>3. ListsOK'
    <3>1. ASSUME NEW e \in Deferreds, NEW w \in Outcomes PROVE callbacks'[e][w] \in Seq(Hangs(e, w)')
      BY <2>1, <2>2, SeqMonotonic DEF ListsOK
    <3> QED
      BY <2>1, <3>1 DEF ListsOK, Lists
  <2>4. LocalsOK'
    <3>1. a \in [DOMAIN a -> Values \union ToSet(a)]
      <4>1. a = [n \in 1..Len(a) |-> a[n]]
        BY DEF DeferredConstants
      <4> QED
        BY <1>0, <4>1 DEF ToSet
    <3> QED
      BY <1>0, <2>1, <3>1 DEF LocalsOK
  <2>5. Whenless(stack)
    <3>1. \A n \in DOMAIN stack : stack[n] \in Frame
      BY DEF StackOK
    <3> QED
      BY <2>1, <3>1 DEF Whenless, Frame, FireFrame, WhenFrame
  <2>6. stack \in Seq(Frame') /\ When(Len(a), "done") \in Frame' /\ When(Len(a), "done").is = "when"
    <3>1. \A f \in Frame : f \in FireFrame
      BY <2>1 DEF Frame, WhenFrame
    <3>2. FireFrame' = FireFrame
      BY DEF FireFrame
    <3>3. Frame \subseteq Frame'
      BY <3>1, <3>2 DEF Frame
    <3>4. When(Len(a), "done") \in Frame'
      BY <1>0, <2>1 DEF When, Frame, WhenFrame, Outcomes
    <3> QED
      BY <3>3, <3>4, SeqMonotonic DEF When, StackOK
  <2>7. stack' \in Seq(Frame') /\ OneWhen(stack')
    BY <2>1, <2>5, <2>6, WhenAppend, AppendProperties DEF StackOK
  <2> QED
    BY <2>1, <2>3, <2>4, <2>7 DEF StackOK, HistoryOK
<1>4. CASE Return
  <2>1. /\ stack # <<>> /\ top.is = "fire" /\ stack' = Append(rest, [top EXCEPT !.calls = None])
        /\ UNCHANGED <<callbacks, fired, firing, cancelled, promise, args, array, count, added, ran>>
    BY <1>4 DEF Return, PageRuns, lists, locals, history
  <2>2. rest \in Seq(Frame) /\ OneWhen(rest) /\ top \in FireFrame
    BY <2>1, TopTyped
  <2> DEFINE f == [top EXCEPT !.calls = None]
  <2>3. f \in Frame /\ f.is = "fire"
    <3>1. None \in Callbacks \union {None}
      OBVIOUS
    <3> QED
      BY <2>2, <3>1, FrameExcept, Zenon DEF Frame
  <2>4. stack' \in Seq(Frame) /\ OneWhen(stack')
    <3>1. stack' = Append(rest, f)
      BY <2>1
    <3> HIDE DEF f
    <3> QED
      BY <2>2, <2>3, <3>1, WhenAppend, AppendProperties
  <2>5. Frame' = Frame /\ \A e, w : Hangs(e, w)' = Hangs(e, w)
    BY <2>1 DEF Frame, FireFrame, WhenFrame, Hangs
  <2> QED
    BY <2>1, <2>4, <2>5 DEF ListsOK, LocalsOK, StackOK, HistoryOK
<1>5. ASSUME NEW depth \in 0..Len(stack) - 1, Throw(depth) PROVE Typed'
  <2> DEFINE unwound == SubSeq(stack, depth + 1, Len(stack))
             kept == SubSeq(stack, 1, depth)
  <2>1. /\ stack' = kept /\ Left(unwound)
        /\ promise' = IF \E n \in DOMAIN unwound : unwound[n].is = "when" THEN "lost" ELSE promise
        /\ UNCHANGED <<callbacks, cancelled, args, array, count, added, ran>>
    BY <1>5 DEF Throw, history
  <2>2. stack \in Seq(Frame) /\ Len(stack) \in Nat /\ depth \in 0..Len(stack)
    BY DEF StackOK
  <2>3. /\ kept \in Seq(Frame) /\ unwound \in Seq(Frame)
        /\ Len(kept) = depth /\ Len(unwound) = Len(stack) - depth
        /\ \A n \in 1..depth : kept[n] = stack[n]
        /\ \A n \in 1..(Len(stack) - depth) : unwound[n] = stack[depth + n]
    BY <2>2, UnwindingPlaces
  <2> HIDE DEF unwound, kept
  <2>4. /\ fired' \in Lists(Results \union {None}) /\ firing' \in Lists(BOOLEAN)
        /\ \A d \in Deferreds, o \in Outcomes : fired'[d][o] # None => fired'[d][o] \in Fit(d, o)
    BY <2>1, <2>3, LeftTyped
  <2>5. \A e, w : Hangs(e, w)' = Hangs(e, w)
    BY <2>1 DEF Hangs
  <2>6. ListsOK'
    BY <2>1, <2>4, <2>5 DEF ListsOK, Lists
  <2>7. DOMAIN kept = 1..depth /\ DOMAIN unwound = 1..(Len(stack) - depth)
    BY <2>2, <2>3
  <2>8. OneWhen(kept) /\ (Whenless(kept) \/ Whenless(unwound))
    BY <2>2, UnwindingWhens DEF StackOK, kept, unwound
  <2>9. kept \in Seq(Frame')
    <3>1. FireFrame' = FireFrame
      BY DEF FireFrame
    <3>2. CASE \E n \in DOMAIN unwound : unwound[n].is = "when"
      <4>2. ASSUME NEW m \in 1..depth PROVE kept[m].is # "when"
        BY <2>7, <2>8, <3>2, Zenon DEF Whenless
      <4>3. ASSUME NEW m \in 1..depth PROVE kept[m] \in Frame'
        <5>1. kept[m] \in Frame
          BY <2>3, <2>7
        <5> QED
          BY <3>1, <4>2, <5>1 DEF Frame, WhenFrame
      <4> QED
        BY <2>3, <2>7, <4>3
    <3>3. CASE ~\E n \in DOMAIN unwound : unwound[n].is = "when"
      <4>1. promise' = promise
        BY <2>1, <3>3
      <4>2. Frame' = Frame
        BY <2>1, <4>1 DEF Frame, FireFrame, WhenFrame
      <4> QED
        BY <2>3, <4>2
    <3> QED
      BY <3>2, <3>3
  <2>10. LocalsOK'
    <3>1. promise = "no" => promise' = "no"
      <4> SUFFICES ASSUME promise = "no" PROVE ~\E n \in DOMAIN unwound : unwound[n].is = "when"
        BY <2>1
      <4> QED
        BY <2>3, <2>7 DEF Frame, FireFrame, WhenFrame
    <3> QED
      BY <2>1, <3>1 DEF LocalsOK
  <2> QED
    BY <2>1, <2>6, <2>8, <2>9, <2>10 DEF StackOK, HistoryOK
<1> QED
  BY <1>1, <1>2, <1>3, <1>4, <1>5 DEF Page

\* jQuery's own steps.
LEMMA LibraryTyped ==
    ASSUME Typed, DeferredConstants, Library PROVE Typed'
<1> USE DEF Typed
<1>0. /\ Master \in Deferreds /\ Parts \subseteq Deferreds /\ FireFrame \subseteq Frame
      /\ "done" \in Outcomes /\ "fail" \in Outcomes /\ Values \subseteq Fit(Master, "fail")
      /\ Fit(Master, "done") = Arrays /\ \A o \in Outcomes : Other(o) \in Outcomes /\ Other(o) # o
  BY Distinct DEF Deferreds, Outcomes, Fit, Frame, Other
<1>1. ASSUME Loop, callbacks[top.d][top.o] # <<>>
      PROVE  /\ top \in FireFrame /\ rest \in Seq(Frame) /\ OneWhen(rest)
             /\ Shifted \in Lists(Seq(Callback))
             /\ \A e \in Deferreds, w \in Outcomes : Shifted[e][w] \in Seq(Hangs(e, w))
             /\ Head(callbacks[top.d][top.o]) \in Hangs(top.d, top.o)
             /\ top.d \in Deferreds /\ top.o \in Outcomes /\ top.value \in Fit(top.d, top.o)
             /\ stack \in Seq(Frame) /\ OneWhen(stack)
  <2>1. top \in FireFrame /\ rest \in Seq(Frame) /\ OneWhen(rest) /\ stack \in Seq(Frame) /\ OneWhen(stack)
    BY <1>1, TopTyped DEF Loop, StackOK
  <2>2. top.d \in Deferreds /\ top.o \in Outcomes /\ top.value \in Fit(top.d, top.o)
    BY <2>1 DEF FireFrame
  <2> QED
    BY <1>1, <2>1, <2>2, ShiftTyped DEF Shifted
<1>2. CASE RunCancel
  <2>1. /\ Loop /\ callbacks[top.d][top.o] # <<>>
        /\ callbacks' = [Shifted EXCEPT ![top.d][Other(top.o)] = <<>>]
        /\ cancelled' = [cancelled EXCEPT ![top.d][Other(top.o)] = TRUE]
        /\ UNCHANGED <<fired, firing, stack, promise, args, array, count, added, ran>>
    BY <1>2 DEF RunCancel, Heads, locals, history
  <2>2. callbacks' \in Lists(Seq(Callback))
    BY <1>0, <1>1, <2>1, ListsExcept, EmptySeq
  <2>3. ASSUME NEW e \in Deferreds, NEW w \in Outcomes PROVE callbacks'[e][w] \in Seq(Hangs(e, w))
    <3>1. callbacks'[e][w] = IF e = top.d /\ w = Other(top.o) THEN <<>> ELSE Shifted[e][w]
      <4> DEFINE S == Shifted
                 x == Other(top.o)
                 after == [S EXCEPT ![top.d][x] = <<>>]
      <4>1. <<>> \in Seq(Callback) /\ x \in Outcomes /\ top.d \in Deferreds /\ S \in Lists(Seq(Callback))
        BY <1>0, <1>1, <2>1, EmptySeq
      <4>2. callbacks' = after
        BY <2>1
      <4> HIDE DEF S, x
      <4>3. after[e][w] = IF e = top.d /\ w = x THEN <<>> ELSE S[e][w]
        BY <4>1 DEF Lists
      <4> QED
        BY <4>2, <4>3, Zenon DEF S, x
    <3> QED
      BY <1>1, <2>1, <3>1, EmptySeq
  <2>4. cancelled' \in Lists(BOOLEAN)
    BY <1>0, <1>1, <2>1, ListsExcept, Zenon DEF ListsOK
  <2>5. Frame' = Frame /\ \A e, w : Hangs(e, w)' = Hangs(e, w)
    BY <2>1 DEF Frame, FireFrame, WhenFrame, Hangs
  <2> QED
    BY <2>1, <2>2, <2>3, <2>4, <2>5 DEF ListsOK, LocalsOK, StackOK, HistoryOK
<1>3. ASSUME NEW n \in DOMAIN args, RunPart(n) PROVE Typed'
  <2>1. /\ Loop /\ callbacks[top.d][top.o] # <<>> /\ Head(callbacks[top.d][top.o]) = Part(n)
        /\ callbacks' = Shifted
        /\ array' = [array EXCEPT ![n] = top.value]
        /\ count' = count - 1
        /\ Settle(Master, "done", array', stack) \/ UNCHANGED <<firing, stack>>
        /\ UNCHANGED <<fired, cancelled, promise, args, added, ran>>
    BY <1>3 DEF RunPart, Heads, history
  <2>2. top.d \in Parts
    <3>1. Part(n) \in Hangs(top.d, top.o) /\ Part(n).is = "part"
      BY <1>1, <2>1, Zenon DEF Part
    <3> QED
      BY <3>1, Zenon DEF Hangs
  <2>3. promise # "no"
    BY DEF LocalsOK
  <2>4. array' \in [DOMAIN args -> Values \union ToSet(args)] /\ args \in Arguments
    <3>1. top.value \in Values
      BY <1>1, <2>1, <2>2 DEF Fit
    <3> QED
      BY <2>1, <2>3, <3>1 DEF LocalsOK
  <2>5. array' \in Fit(Master, "done")
    BY <1>0, <2>4 DEF Arrays
  <2>6. firing' \in Lists(BOOLEAN) /\ stack' \in Seq(Frame) /\ OneWhen(stack')
    <3>1. CASE Settle(Master, "done", array', stack)
      BY <1>0, <1>1, <2>1, <2>5, <3>1, SettleTyped
    <3>2. CASE UNCHANGED <<firing, stack>>
      BY <1>1, <2>1, <3>2 DEF ListsOK
    <3> QED
      BY <2>1, <3>1, <3>2
  <2>7. Frame' = Frame /\ \A e, w : Hangs(e, w)' = Hangs(e, w)
    BY <2>1 DEF Frame, FireFrame, WhenFrame, Hangs
  <2>8. ListsOK'
    BY <1>1, <2>1, <2>6, <2>7 DEF ListsOK
  <2>9. LocalsOK'
    BY <2>1, <2>3, <2>4 DEF LocalsOK
  <2> QED
    BY <2>1, <2>6, <2>7, <2>8, <2>9 DEF StackOK, HistoryOK
<1>4. CASE RunReject
  <2>1. /\ Loop /\ callbacks[top.d][top.o] # <<>> /\ Head(callbacks[top.d][top.o]) = Reject
        /\ callbacks' = Shifted
        /\ Settle(Master, "fail", top.value, stack)
        /\ UNCHANGED <<fired, cancelled, promise, args, array, count, added, ran>>
    BY <1>4 DEF RunReject, Heads, locals, history
  <2>2. top.d \in Parts
    BY <1>1, <2>1 DEF Hangs, Reject
  <2>3. top.value \in Fit(Master, "fail")
    BY <1>0, <1>1, <2>1, <2>2 DEF Fit
  <2>4. firing' \in Lists(BOOLEAN) /\ stack' \in Seq(Frame) /\ OneWhen(stack')
    BY <1>0, <1>1, <2>1, <2>3, SettleTyped
  <2>5. Frame' = Frame /\ \A e, w : Hangs(e, w)' = Hangs(e, w)
    BY <2>1 DEF Frame, FireFrame, WhenFrame, Hangs
  <2>6. ListsOK'
    BY <1>1, <2>1, <2>4, <2>5 DEF ListsOK
  <2> QED
    BY <2>1, <2>4, <2>5, <2>6 DEF LocalsOK, StackOK, HistoryOK
<1>5. ASSUME NEW c \in Callbacks, RunUser(c) PROVE Typed'
  <2> DEFINE f == [top EXCEPT !.calls = c]
             call == [callback |-> c, value |-> top.value]
  <2>1. /\ Loop /\ callbacks[top.d][top.o] # <<>>
        /\ callbacks' = Shifted
        /\ stack' = Append(rest, f)
        /\ ran' = [ran EXCEPT ![top.d][top.o] = Append(@, call)]
        /\ UNCHANGED <<fired, firing, cancelled, promise, args, array, count, added>>
    BY <1>5 DEF RunUser, Heads, locals
  <2>2. f \in Frame /\ f.is = "fire"
    <3>1. c \in Callbacks \union {None}
      OBVIOUS
    <3> QED
      BY <1>1, <2>1, <3>1, FrameExcept, Zenon DEF Frame
  <2>3. call \in [callback : Callbacks, value : Results]
    BY <1>1, <2>1, FitResults
  <2> HIDE DEF f, call
  <2>4. stack' \in Seq(Frame) /\ OneWhen(stack')
    BY <1>1, <2>1, <2>2, WhenAppend, AppendProperties
  <2>5. ran' \in Lists(Seq([callback : Callbacks, value : Results]))
    <3>1. ran[top.d][top.o] \in Seq([callback : Callbacks, value : Results])
      BY <1>1, <2>1 DEF HistoryOK, Lists
    <3>2. Append(ran[top.d][top.o], call) \in Seq([callback : Callbacks, value : Results])
      BY <2>3, <3>1, AppendProperties
    <3> QED
      <4> DEFINE calls == Append(ran[top.d][top.o], call)
      <4>1. ran' = [ran EXCEPT ![top.d][top.o] = calls]
        BY <2>1
      <4>2. calls \in Seq([callback : Callbacks, value : Results]) /\ top.d \in Deferreds /\ top.o \in Outcomes
            /\ ran \in Lists(Seq([callback : Callbacks, value : Results]))
        BY <1>1, <2>1, <3>2 DEF HistoryOK
      <4> HIDE DEF calls
      <4> QED
        BY <4>1, <4>2, ListsExcept, Zenon
  <2>6. Frame' = Frame /\ \A e, w : Hangs(e, w)' = Hangs(e, w)
    BY <2>1 DEF Frame, FireFrame, WhenFrame, Hangs
  <2>7. ListsOK'
    BY <1>1, <2>1, <2>6 DEF ListsOK
  <2> QED
    BY <2>1, <2>4, <2>5, <2>6, <2>7 DEF LocalsOK, StackOK, HistoryOK
<1>6. CASE Finish
  <2>1. /\ Loop /\ Left(<<top>>) /\ stack' = rest
        /\ UNCHANGED <<callbacks, cancelled, promise, args, array, count, added, ran>>
    BY <1>6 DEF Finish, locals, history
  <2>2. top \in Frame /\ rest \in Seq(Frame) /\ OneWhen(rest)
    BY <2>1, TopTyped DEF Loop
  <2>3. /\ fired' \in Lists(Results \union {None}) /\ firing' \in Lists(BOOLEAN)
        /\ \A d \in Deferreds, o \in Outcomes : fired'[d][o] # None => fired'[d][o] \in Fit(d, o)
    <3>1. <<top>> \in Seq(Frame)
      BY <2>2
    <3> QED
      BY <2>1, <3>1, LeftTyped
  <2>4. Frame' = Frame /\ \A e, w : Hangs(e, w)' = Hangs(e, w)
    BY <2>1 DEF Frame, FireFrame, WhenFrame, Hangs
  <2>5. ListsOK'
    BY <2>1, <2>3, <2>4 DEF ListsOK
  <2> QED
    BY <2>1, <2>2, <2>4, <2>5 DEF LocalsOK, StackOK, HistoryOK
<1>7. ASSUME NEW half \in Outcomes, Looping(half)
      PROVE  /\ top \in WhenFrame /\ rest \in Seq(Frame) /\ OneWhen(rest) /\ Whenless(rest)
             /\ promise = "making" /\ top.n \in DOMAIN args /\ top.half = half /\ top.n <= Len(args)
             /\ top.n \in Nat /\ top.n - 1 \in Nat /\ top.n - 1 <= Len(args) /\ Len(args) \in Nat
  <2>1. top \in WhenFrame /\ rest \in Seq(Frame) /\ OneWhen(rest) /\ Whenless(rest)
    BY <1>7, TopTyped DEF Looping
  <2>2. promise = "making" /\ top.n \in Nat /\ top.n <= Len(args) /\ top.n > 0 /\ top.half = half
    BY <1>7, <2>1 DEF WhenFrame, Looping
  <2>3. Len(args) \in Nat /\ DOMAIN args = 1..Len(args)
    BY <2>2, Distinct DEF LocalsOK
  <2> QED
    BY <2>1, <2>2, <2>3
<1>8. ASSUME NEW d \in Deferreds, NEW o \in Outcomes, NEW new \in Seq(Hangs(d, o)),
             NEW below \in Seq(Frame), OneWhen(below), Add(d, o, new, below), UNCHANGED <<locals, ran>>
      PROVE  Typed'
  <2>1. ListsOK' /\ added' \in Lists(Seq(Callbacks)) /\ stack' \in Seq(Frame) /\ OneWhen(stack')
    BY <1>0, <1>8, AddTyped DEF locals
  <2>2. Frame' = Frame
    BY <1>8 DEF Frame, FireFrame, WhenFrame, locals
  <2> QED
    BY <1>8, <2>1, <2>2 DEF LocalsOK, StackOK, HistoryOK, locals
<1>9. CASE WhenPart
  <2>1. /\ Looping("done") /\ args[top.n] \in Parts
        /\ Add(args[top.n], "done", <<Part(top.n)>>, Append(rest, When(top.n, "fail")))
        /\ UNCHANGED <<locals, ran>>
    BY <1>9 DEF WhenPart
  <2>2. When(top.n, "fail") \in Frame
    BY <1>0, <1>7, <2>1, WhenTyped
  <2>3. Append(rest, When(top.n, "fail")) \in Seq(Frame) /\ OneWhen(Append(rest, When(top.n, "fail")))
    BY <1>0, <1>7, <2>1, <2>2, WhenAppend, AppendProperties
  <2>4. <<Part(top.n)>> \in Seq(Hangs(args[top.n], "done"))
    <3>1. Part(top.n) \in Hangs(args[top.n], "done")
      BY <1>0, <1>7, <2>1 DEF Part, Hangs, Callback
    <3> QED
      BY <3>1
  <2> QED
    BY <1>0, <1>8, <2>1, <2>3, <2>4
<1>10. CASE WhenReject
  <2>1. /\ Looping("fail")
        /\ Add(args[top.n], "fail", <<Reject>>, Append(rest, When(top.n - 1, "done")))
        /\ UNCHANGED <<locals, ran>>
    BY <1>10 DEF WhenReject
  <2>2. args[top.n] \in Parts
    BY <1>0, <1>7, <2>1 DEF WhenFrame
  <2>3. When(top.n - 1, "done") \in Frame
    BY <1>0, <1>7, <2>1, WhenTyped
  <2>4. Append(rest, When(top.n - 1, "done")) \in Seq(Frame) /\ OneWhen(Append(rest, When(top.n - 1, "done")))
    BY <1>0, <1>7, <2>1, <2>3, WhenAppend, AppendProperties
  <2>5. <<Reject>> \in Seq(Hangs(args[top.n], "fail"))
    <3>1. Reject \in Hangs(args[top.n], "fail")
      BY <1>0, <1>7, <2>1, <2>2 DEF Reject, Hangs, Callback
    <3> QED
      BY <3>1
  <2> QED
    BY <1>0, <1>8, <2>1, <2>2, <2>4, <2>5
<1>11. CASE WhenPlain
  <2>1. /\ Looping("done") /\ count' = count - 1
        /\ stack' = Append(rest, When(top.n - 1, "done"))
        /\ UNCHANGED <<callbacks, fired, firing, cancelled, promise, args, array, added, ran>>
    BY <1>11 DEF WhenPlain, lists, history
  <2>2. When(top.n - 1, "done") \in Frame
    BY <1>0, <1>7, <2>1, WhenTyped
  <2>3. stack' \in Seq(Frame) /\ OneWhen(stack')
    BY <1>0, <1>7, <2>1, <2>2, WhenAppend, AppendProperties
  <2>4. Frame' = Frame /\ \A e, w : Hangs(e, w)' = Hangs(e, w)
    BY <2>1 DEF Frame, FireFrame, WhenFrame, Hangs
  <2> QED
    BY <2>1, <2>3, <2>4 DEF ListsOK, LocalsOK, StackOK, HistoryOK
<1>12. CASE WhenReturn
  <2>1. /\ stack # <<>> /\ top.is = "when" /\ promise' = "yes"
        /\ Settle(Master, "done", array, rest) \/ (stack' = rest /\ UNCHANGED firing)
        /\ UNCHANGED <<callbacks, fired, cancelled, args, array, count, added, ran>>
    BY <1>12 DEF WhenReturn, history
  <2>2. top \in WhenFrame /\ rest \in Seq(Frame) /\ OneWhen(rest) /\ Whenless(rest)
    BY <2>1, TopTyped
  <2>3. promise = "making" /\ args \in Arguments /\ array \in [DOMAIN args -> Values \union ToSet(args)]
    BY <2>2 DEF WhenFrame, LocalsOK
  <2>4. array \in Fit(Master, "done")
    BY <1>0, <2>3 DEF Arrays
  <2>5. rest \in Seq(FireFrame)
    <3>1. \A n \in DOMAIN rest : rest[n] \in FireFrame
      BY <2>2 DEF Whenless, Frame, FireFrame, WhenFrame
    <3> QED
      BY <2>2, <3>1
  <2>6. firing' \in Lists(BOOLEAN) /\ stack' \in Seq(FireFrame) /\ OneWhen(stack')
    <3>1. CASE Settle(Master, "done", array, rest)
      BY <1>0, <2>2, <2>4, <2>5, <3>1, SettleTyped
    <3>2. CASE stack' = rest /\ UNCHANGED firing
      BY <2>2, <2>5, <3>2 DEF ListsOK
    <3> QED
      BY <2>1, <3>1, <3>2
  <2>7. FireFrame \subseteq Frame' /\ \A e, w : Hangs(e, w)' = Hangs(e, w)
    BY <2>1 DEF Frame, FireFrame, Hangs
  <2>8. stack' \in Seq(Frame')
    BY <2>6, <2>7, SeqMonotonic
  <2>9. ListsOK'
    BY <2>1, <2>6, <2>7 DEF ListsOK
  <2> QED
    BY <2>1, <2>3, <2>6, <2>8, <2>9 DEF LocalsOK, StackOK, HistoryOK
<1> QED
  BY <1>2, <1>3, <1>4, <1>5, <1>6, <1>9, <1>10, <1>11, <1>12 DEF Library

LEMMA TypedStep == DeferredConstants /\ Typed /\ [Next]_vars => Typed'
<1>1. ASSUME Typed, UNCHANGED vars PROVE Typed'
  BY <1>1 DEF vars, lists, locals, history, Typed, ListsOK, LocalsOK, StackOK, HistoryOK, Hangs,
              Frame, FireFrame, WhenFrame
<1> QED
  BY <1>1, PageTyped, LibraryTyped DEF Next

-----------------------------------------------------------------------------
(* A deferred is settled one way, with one value.                                *)

\* A list that fires has a frame, and has not fired.
OneFrame ==
    /\ Unique(stack)
    /\ \A d \in Deferreds, o \in Outcomes :
          /\ firing[d][o] <=> \E v \in Results : Has(stack, d, o, v)
          /\ firing[d][o] => fired[d][o] = None

\* The two lists of a deferred know of each other: what a list calls first is the cancel of
\* the other.
CancelFirst ==
    \A d \in Deferreds, o \in Outcomes :
        /\ cancelled[d][o] => callbacks[d][o] = <<>>
        /\ ~cancelled[d][o] /\ ~cancelled[d][Other(o)] =>
              callbacks[d][o] # <<>> /\ Head(callbacks[d][o]) = Cancel

\* The top of the stack is a list that has just begun to fire.
Begun(d, o) == stack # <<>> /\ top.is = "fire" /\ top.d = d /\ top.o = o /\ top.calls = None

\* A list is cancelled as soon as the other one fires, before anything else happens.
OneWay ==
    \A d \in Deferreds, o \in Outcomes :
        /\ cancelled[d][o] => ~Settled(d, o) /\ Settled(d, Other(o))
        /\ Settled(d, o) /\ ~cancelled[d][Other(o)] => Begun(d, o)

DeferredInv == DeferredConstants /\ Typed /\ OneFrame /\ CancelFirst /\ OneWay

\* The list fires, or has fired, with v.
FiresWith(d, o, v) == fired[d][o] = v \/ Has(stack, d, o, v)

LEMMA HasTyped ==
    ASSUME StackOK, NEW d, NEW o, NEW v, Has(stack, d, o, v)
    PROVE  d \in Deferreds /\ o \in Outcomes /\ v \in Fit(d, o) /\ v \in Results
<1>1. PICK n \in DOMAIN stack :
          stack[n].is = "fire" /\ stack[n].d = d /\ stack[n].o = o /\ stack[n].value = v
  BY DEF Has
<1>2. stack[n] \in Frame
  BY DEF StackOK
<1> QED
  BY <1>1, <1>2 DEF Frame, FireFrame, WhenFrame

LEMMA NotNone ==
    ASSUME DeferredConstants PROVE None \notin Results /\ \A d, o : None \notin Fit(d, o)
  BY Distinct DEF Results, Fit

LEMMA SettledWith ==
    ASSUME DeferredConstants, ListsOK, StackOK, OneFrame, NEW d \in Deferreds, NEW o \in Outcomes
    PROVE  /\ Settled(d, o) <=> \E v \in Results : FiresWith(d, o, v)
           /\ Settled(d, o) <=> \E v \in Fit(d, o) : FiresWith(d, o, v)
<1>1. fired[d][o] # None => fired[d][o] \in Fit(d, o)
  BY DEF ListsOK
<1>2. \A v : Has(stack, d, o, v) => v \in Fit(d, o)
  BY HasTyped
<1>3. Fit(d, o) \subseteq Results
  BY FitResults
<1> QED
  BY <1>1, <1>2, <1>3, NotNone DEF Settled, FiresWith, OneFrame

\* There is one such value.
LEMMA OneValue ==
    ASSUME DeferredConstants, ListsOK, StackOK, OneFrame, NEW d \in Deferreds, NEW o \in Outcomes,
           NEW v \in Results, FiresWith(d, o, v)
    PROVE  ValueOf(d, o) = v
<1>1. CASE fired[d][o] # None
  <2>1. ~firing[d][o]
    BY <1>1 DEF OneFrame
  <2>2. fired[d][o] = v
    BY <2>1 DEF OneFrame, FiresWith
  <2> QED
    BY <1>1, <2>2 DEF ValueOf
<1>2. CASE fired[d][o] = None
  <2>1. Has(stack, d, o, v)
    BY <1>2, NotNone DEF FiresWith
  <2> DEFINE is(n) == stack[n].is = "fire" /\ stack[n].d = d /\ stack[n].o = o
             m == CHOOSE n \in DOMAIN stack : is(n)
  <2>2. PICK n \in DOMAIN stack : is(n) /\ stack[n].value = v
    BY <2>1 DEF Has
  <2>3. m \in DOMAIN stack /\ is(m)
    BY <2>2
  <2>4. m = n
    BY <2>2, <2>3 DEF OneFrame, Unique
  <2>5. ValueOf(d, o) = stack[m].value
    BY <1>2, Zenon DEF ValueOf
  <2> QED
    BY <2>2, <2>4, <2>5
<1> QED
  BY <1>1, <1>2

\* What the deferreds are settled with stays.
Keeps ==
    /\ OneFrame'
    /\ \A d \in Deferreds, o \in Outcomes, v \in Results : FiresWith(d, o, v)' <=> FiresWith(d, o, v)

\* A list begins to fire with v.
Begins(d, o, v) ==
    /\ OneFrame'
    /\ ~cancelled[d][o] /\ ~Settled(d, o) /\ Begun(d, o)'
    /\ \A e \in Deferreds, w \in Outcomes, x \in Results :
          FiresWith(e, w, x)' <=> FiresWith(e, w, x) \/ (e = d /\ w = o /\ x = v)

LEMMA SameKeeps ==
    ASSUME OneFrame, Alike(stack, stack'), firing' = firing,
           \A d \in Deferreds, o \in Outcomes : fired'[d][o] = fired[d][o]
    PROVE  Keeps
<1>1. Unique(stack') /\ \A d, o, v : Has(stack, d, o, v) <=> Has(stack', d, o, v)
  BY DEF Alike
<1>2. OneFrame'
  BY <1>1 DEF OneFrame, Results, Arrays
<1>3. \A d \in Deferreds, o \in Outcomes, v \in Results : FiresWith(d, o, v)' <=> FiresWith(d, o, v)
  BY <1>1 DEF FiresWith
<1> QED
  BY <1>2, <1>3 DEF Keeps

\* A frame for a list that did not fire.
LEMMA OneMoreFrame ==
    ASSUME DeferredConstants, StackOK, OneFrame, NEW d \in Deferreds, NEW o \in Outcomes, NEW v \in Fit(d, o),
           NEW F, FireFrame \subseteq F, NEW below \in Seq(F), Alike(stack, below), ~firing[d][o],
           stack' = Append(below, Firing(d, o, v))
    PROVE  /\ Unique(stack')
           /\ \A e, w, x : Has(stack', e, w, x) <=> Has(stack, e, w, x) \/ (e = d /\ w = o /\ x = v)
           /\ Begun(d, o)'
<1> DEFINE f == Firing(d, o, v)
<1>1. f \in F /\ f.is = "fire"
  BY FiringFrame
<1>2. f.d = d /\ f.o = o /\ f.value = v /\ f.calls = None
  BY DEF Firing
<1> HIDE DEF f
<1>3. Unique(below) /\ \A e, w, x : Has(stack, e, w, x) <=> Has(below, e, w, x)
  BY DEF Alike
<1>4. \A x : ~Has(stack, d, o, x)
  BY HasTyped DEF OneFrame
<1>5. Unique(Append(below, f))
  BY <1>1, <1>2, <1>3, <1>4, UniqueAppend
<1>6. ASSUME NEW e, NEW w, NEW x
      PROVE  Has(Append(below, f), e, w, x) <=> Has(stack, e, w, x) \/ (e = d /\ w = o /\ x = v)
  BY <1>1, <1>2, <1>3, HasAppend
<1>7. Last(Append(below, f)) = f /\ Append(below, f) # <<>>
  BY <1>1, AppendProperties DEF Last
<1> QED
  <2>1. stack' = Append(below, f)
    BY DEF f
  <2>2. Begun(d, o)'
    BY <1>1, <1>2, <1>7, <2>1 DEF Begun, top
  <2> QED
    BY <1>5, <1>6, <2>1, <2>2

\* done and fail: a list that fires again does so with the value that it has.
LEMMA AddKeeps ==
    ASSUME DeferredConstants, ListsOK, StackOK, OneFrame, NEW d \in Deferreds, NEW o \in Outcomes, NEW new,
           NEW F, FireFrame \subseteq F, NEW below \in Seq(F), Alike(stack, below), Add(d, o, new, below)
    PROVE  Keeps
<1>1. CASE cancelled[d][o]
  <2>1. UNCHANGED <<fired, firing>> /\ stack' = below
    BY <1>1 DEF Add, lists
  <2> QED
    BY <2>1, SameKeeps
<1>2. CASE ~cancelled[d][o] /\ fired[d][o] = None
  <2>1. fired' = [fired EXCEPT ![d][o] = None] /\ stack' = below /\ firing' = firing
    BY <1>2, Zenon DEF Add
  <2>2. \A e \in Deferreds, w \in Outcomes : fired'[e][w] = fired[e][w]
    BY <1>2, <2>1 DEF ListsOK, Lists
  <2> QED
    BY <2>1, <2>2, SameKeeps
<1>3. CASE ~cancelled[d][o] /\ fired[d][o] # None
  <2> DEFINE v == fired[d][o]
  <2>1. /\ fired' = [fired EXCEPT ![d][o] = None] /\ firing' = [firing EXCEPT ![d][o] = TRUE]
        /\ stack' = Append(below, Firing(d, o, v))
    BY <1>3, Zenon DEF Add
  <2>2. v \in Fit(d, o) /\ v \in Results /\ v # None /\ ~firing[d][o]
    BY <1>3, FitResults DEF ListsOK, OneFrame
  <2>3. \A e \in Deferreds, w \in Outcomes : fired'[e][w] = IF e = d /\ w = o THEN None ELSE fired[e][w]
    BY <2>1 DEF ListsOK, Lists
  <2>4. \A e \in Deferreds, w \in Outcomes : firing'[e][w] <=> (firing[e][w] \/ (e = d /\ w = o))
    BY <2>1, Zenon DEF ListsOK, Lists
  <2> HIDE DEF v
  <2>5. /\ Unique(stack')
        /\ \A e, w, x : Has(stack', e, w, x) <=> Has(stack, e, w, x) \/ (e = d /\ w = o /\ x = v)
    BY <2>1, <2>2, OneMoreFrame
  <2>6. Results' = Results
    BY DEF Results, Arrays
  <2>7. OneFrame'
    BY <2>2, <2>3, <2>4, <2>5, <2>6 DEF OneFrame
  <2>8. ASSUME NEW e \in Deferreds, NEW w \in Outcomes, NEW x \in Results
        PROVE  FiresWith(e, w, x)' <=> FiresWith(e, w, x)
    <3>1. x # None
      BY NotNone
    <3>2. CASE e = d /\ w = o
      <4>1. fired[d][o] = v /\ fired'[d][o] = None /\ ~Has(stack, d, o, x)
        BY <2>2, <2>3 DEF OneFrame, v
      <4> QED
        BY <2>5, <3>1, <3>2, <4>1 DEF FiresWith
    <3>3. CASE ~(e = d /\ w = o)
      BY <2>3, <2>5, <3>3 DEF FiresWith
    <3> QED
      BY <3>2, <3>3
  <2> QED
    BY <2>7, <2>8 DEF Keeps
<1> QED
  BY <1>1, <1>2, <1>3

\* resolveWith and rejectWith: only a deferred that is not settled.
LEMMA SettleBegins ==
    ASSUME DeferredConstants, ListsOK, StackOK, OneFrame, NEW d \in Deferreds, NEW o \in Outcomes,
           NEW v \in Fit(d, o),
           NEW F, FireFrame \subseteq F, NEW below \in Seq(F), Alike(stack, below),
           Settle(d, o, v, below), fired' = fired
    PROVE  Keeps \/ Begins(d, o, v)
<1>1. CASE cancelled[d][o] \/ fired[d][o] # None \/ firing[d][o]
  <2>1. stack' = below /\ firing' = firing
    BY <1>1, Zenon DEF Settle
  <2> QED
    BY <2>1, SameKeeps
<1>2. CASE ~cancelled[d][o] /\ fired[d][o] = None /\ ~firing[d][o]
  <2>1. firing' = [firing EXCEPT ![d][o] = TRUE] /\ stack' = Append(below, Firing(d, o, v))
    BY <1>2, Zenon DEF Settle
  <2>2. \A e \in Deferreds, w \in Outcomes : firing'[e][w] <=> (firing[e][w] \/ (e = d /\ w = o))
    BY <2>1, Zenon DEF ListsOK, Lists
  <2>3. /\ Unique(stack') /\ Begun(d, o)'
        /\ \A e, w, x : Has(stack', e, w, x) <=> Has(stack, e, w, x) \/ (e = d /\ w = o /\ x = v)
    BY <1>2, <2>1, OneMoreFrame
  <2>4. v \in Results /\ Results' = Results
    BY FitResults DEF Results, Arrays
  <2>5. OneFrame'
    BY <1>2, <2>2, <2>3, <2>4 DEF OneFrame
  <2>6. \A e \in Deferreds, w \in Outcomes, x \in Results :
           FiresWith(e, w, x)' <=> FiresWith(e, w, x) \/ (e = d /\ w = o /\ x = v)
    BY <2>3 DEF FiresWith
  <2> QED
    BY <1>2, <2>3, <2>5, <2>6 DEF Begins, Settled
<1> QED
  BY <1>1, <1>2

\* The end of a loop, or an exception: what fires on the frames that go has fired.
LEMMA UnwindKeeps ==
    ASSUME DeferredConstants, ListsOK, StackOK, OneFrame, NEW depth \in 0..Len(stack),
           Left(SubSeq(stack, depth + 1, Len(stack))), stack' = SubSeq(stack, 1, depth)
    PROVE  Keeps
<1> DEFINE frames == SubSeq(stack, depth + 1, Len(stack))
           kept == SubSeq(stack, 1, depth)
           of(d, o) == {n \in DOMAIN frames : frames[n].is = "fire" /\ frames[n].d = d /\ frames[n].o = o}
           value(d, o) == IF of(d, o) = {} THEN fired[d][o] ELSE frames[CHOOSE n \in of(d, o) : TRUE].value
<1>1. /\ frames \in Seq(Frame) /\ Unique(kept)
      /\ \A d, o, v : Has(stack, d, o, v) <=> Has(kept, d, o, v) \/ Has(frames, d, o, v)
      /\ \A d, o, v, w : ~(Has(kept, d, o, v) /\ Has(frames, d, o, w))
  BY Unwinding DEF StackOK, OneFrame
<1>2. fired' = [d \in Deferreds |-> [o \in Outcomes |-> value(d, o)]]
  BY Zenon DEF Left
<1>3. firing' = [d \in Deferreds |-> [o \in Outcomes |-> firing[d][o] /\ of(d, o) = {}]]
  BY Zenon DEF Left
<1>4. ASSUME NEW d \in Deferreds, NEW o \in Outcomes
      PROVE  fired'[d][o] = value(d, o) /\ (firing'[d][o] <=> firing[d][o] /\ of(d, o) = {})
  BY <1>2, <1>3, Zenon
<1>5. ASSUME NEW d \in Deferreds, NEW o \in Outcomes
      PROVE  of(d, o) = {} <=> \A v : ~Has(frames, d, o, v)
  BY Zenon DEF Has
<1>6. ASSUME NEW d \in Deferreds, NEW o \in Outcomes, of(d, o) # {}
      PROVE  Has(frames, d, o, value(d, o))
  <2> DEFINE n == CHOOSE m \in of(d, o) : TRUE
  <2>1. n \in of(d, o)
    BY <1>6
  <2>2. value(d, o) = frames[n].value
    BY <1>6, Zenon
  <2>3. n \in DOMAIN frames /\ frames[n].is = "fire" /\ frames[n].d = d /\ frames[n].o = o
    BY <2>1
  <2> HIDE DEF n, frames, value
  <2> QED
    BY <2>2, <2>3, Zenon DEF Has
<1>7. ASSUME NEW d \in Deferreds, NEW o \in Outcomes, of(d, o) = {} PROVE value(d, o) = fired[d][o]
  BY <1>7, Zenon
<1>8. Results' = Results /\ stack' = kept
  BY DEF Results, Arrays
<1> HIDE DEF frames, kept, of, value
<1>9. OneFrame'
  <2>1. ASSUME NEW d \in Deferreds, NEW o \in Outcomes
        PROVE  /\ firing'[d][o] <=> \E v \in Results : Has(kept, d, o, v)
               /\ firing'[d][o] => fired'[d][o] = None
    <3>1. CASE of(d, o) = {}
      <4>1. \A v : Has(stack, d, o, v) <=> Has(kept, d, o, v)
        BY <1>1, <1>5, <3>1
      <4> QED
        BY <1>4, <1>7, <3>1, <4>1 DEF OneFrame
    <3>2. CASE of(d, o) # {}
      BY <1>1, <1>4, <1>6, <3>2
    <3> QED
      BY <3>1, <3>2
  <2>2. Unique(stack')
    BY <1>1, <1>8
  <2>3. ASSUME NEW d \in Deferreds, NEW o \in Outcomes
        PROVE  /\ firing'[d][o] <=> \E v \in Results' : Has(stack', d, o, v)
               /\ firing'[d][o] => fired'[d][o] = None
    BY <1>8, <2>1
  <2> QED
    BY <2>2, <2>3, Zenon DEF OneFrame
<1>10. ASSUME NEW d \in Deferreds, NEW o \in Outcomes, NEW v \in Results
       PROVE  FiresWith(d, o, v)' <=> FiresWith(d, o, v)
  <2>1. FiresWith(d, o, v)' <=> value(d, o) = v \/ Has(kept, d, o, v)
    BY <1>4, <1>8 DEF FiresWith
  <2>2. CASE of(d, o) = {}
    <3>1. Has(stack, d, o, v) <=> Has(kept, d, o, v)
      BY <1>1, <1>5, <2>2
    <3> QED
      BY <1>7, <2>1, <2>2, <3>1 DEF FiresWith
  <2>3. CASE of(d, o) # {}
    <3>1. Has(frames, d, o, value(d, o)) /\ Has(stack, d, o, value(d, o)) /\ ~Has(kept, d, o, v)
      BY <1>1, <1>6, <2>3
    <3>2. fired[d][o] = None /\ v # None
      <4>1. value(d, o) \in Results
        BY <3>1, HasTyped
      <4> QED
        BY <3>1, <4>1, NotNone DEF OneFrame
    <3>3. Has(stack, d, o, v) => v = value(d, o)
      <4>1. Unique(stack)
        BY DEF OneFrame
      <4> QED
        BY <3>1, <4>1, OneHas
    <3> QED
      BY <2>1, <3>1, <3>2, <3>3 DEF FiresWith
  <2> QED
    BY <2>2, <2>3
<1> QED
  BY <1>9, <1>10 DEF Keeps

\* No list has just begun to fire.
Quiet == \A d \in Deferreds, o \in Outcomes : Settled(d, o) => cancelled[d][Other(o)]

LEMMA QuietOutside ==
    ASSUME DeferredInv, \A d, o : ~Begun(d, o) PROVE Quiet
  BY DEF DeferredInv, OneWay, Quiet

LEMMA QuietPage == DeferredInv /\ PageRuns => Quiet
<1> SUFFICES ASSUME DeferredInv, PageRuns PROVE Quiet
  OBVIOUS
<1>1. \A d, o : ~Begun(d, o)
  BY DEF PageRuns, Begun
<1> QED
  BY <1>1, QuietOutside

LEMMA QuietWhen == DeferredInv /\ stack # <<>> /\ top.is = "when" => Quiet
<1> SUFFICES ASSUME DeferredInv, stack # <<>>, top.is = "when" PROVE Quiet
  OBVIOUS
<1>1. \A d, o : ~Begun(d, o)
  BY DEF Begun
<1> QED
  BY <1>1, QuietOutside

\* The list at the top fires.
LEMMA TopFires ==
    ASSUME DeferredInv, stack # <<>>, top.is = "fire"
    PROVE  /\ top \in FireFrame /\ top.d \in Deferreds /\ top.o \in Outcomes
           /\ top.value \in Fit(top.d, top.o) /\ top.value \in Results
           /\ Has(stack, top.d, top.o, top.value)
           /\ firing[top.d][top.o] /\ Settled(top.d, top.o) /\ ~cancelled[top.d][top.o]
<1>1. top \in FireFrame
  BY TopTyped DEF DeferredInv, Typed
<1>2. /\ top.d \in Deferreds /\ top.o \in Outcomes
      /\ top.value \in Fit(top.d, top.o) /\ top.value \in Results
  BY <1>1 DEF FireFrame
<1>3. Has(stack, top.d, top.o, top.value)
  <2>1. Last(stack) = stack[Len(stack)] /\ Len(stack) \in DOMAIN stack
    BY FrontLast DEF DeferredInv, Typed, StackOK
  <2> QED
    BY <2>1, Zenon DEF Has, top
<1>4. firing[top.d][top.o]
  BY <1>2, <1>3 DEF DeferredInv, OneFrame
<1> QED
  BY <1>1, <1>2, <1>3, <1>4 DEF Settled, DeferredInv, OneWay

\* A loop that is past the cancel of the other list.
LEMMA QuietLoop ==
    ASSUME DeferredInv, Loop,
           callbacks[top.d][top.o] = <<>> \/ Head(callbacks[top.d][top.o]) # Cancel
    PROVE  Quiet /\ cancelled[top.d][Other(top.o)]
<1>1. /\ top.d \in Deferreds /\ top.o \in Outcomes
      /\ Settled(top.d, top.o) /\ ~cancelled[top.d][top.o]
  BY TopFires DEF Loop
<1>2. cancelled[top.d][Other(top.o)]
  BY <1>1 DEF DeferredInv, CancelFirst
<1>3. ASSUME NEW d \in Deferreds, NEW o \in Outcomes, Settled(d, o) PROVE cancelled[d][Other(o)]
  <2>1. ~cancelled[d][Other(o)] => d = top.d /\ o = top.o
    BY <1>3 DEF DeferredInv, OneWay, Begun
  <2> QED
    BY <1>2, <2>1
<1> QED
  BY <1>2, <1>3 DEF Quiet

\* What is hung on a list goes behind the cancel.
LEMMA AddCancelFirst ==
    ASSUME DeferredInv, NEW d \in Deferreds, NEW o \in Outcomes, NEW new \in Seq(Callback), NEW below,
           Add(d, o, new, below)
    PROVE  CancelFirst' /\ cancelled' = cancelled
<1>1. CASE cancelled[d][o]
  <2>1. UNCHANGED <<callbacks, cancelled>>
    BY <1>1 DEF Add, lists
  <2> QED
    BY <2>1 DEF DeferredInv, CancelFirst
<1>2. CASE ~cancelled[d][o]
  <2>1. callbacks' = [callbacks EXCEPT ![d][o] = @ \o new] /\ cancelled' = cancelled
    BY <1>2, Zenon DEF Add
  <2>2. \A e \in Deferreds, w \in Outcomes :
           callbacks'[e][w] = IF e = d /\ w = o THEN callbacks[e][w] \o new ELSE callbacks[e][w]
    BY <2>1 DEF DeferredInv, Typed, ListsOK, Lists
  <2>3. callbacks[d][o] # <<>> => callbacks[d][o] \o new # <<>> /\ Head(callbacks[d][o] \o new) = Head(callbacks[d][o])
    <3>1. callbacks[d][o] \in Seq(Callback)
      BY DEF DeferredInv, Typed, ListsOK, Lists
    <3> QED
      BY <3>1
  <2> QED
    BY <1>2, <2>1, <2>2, <2>3 DEF DeferredInv, CancelFirst
<1> QED
  BY <1>1, <1>2

LEMMA ShiftCancelFirst ==
    ASSUME DeferredInv, NEW d \in Deferreds, NEW o \in Outcomes, ~cancelled[d][o], cancelled[d][Other(o)],
           callbacks' = [callbacks EXCEPT ![d][o] = Tail(@)], cancelled' = cancelled
    PROVE  CancelFirst'
<1>1. \A e \in Deferreds, w \in Outcomes :
         callbacks'[e][w] = IF e = d /\ w = o THEN Tail(callbacks[e][w]) ELSE callbacks[e][w]
  BY DEF DeferredInv, Typed, ListsOK, Lists
<1>2. \A w \in Outcomes : Other(w) \in Outcomes /\ (w = o \/ w = Other(o)) /\ Other(Other(w)) = w
  BY DEF Outcomes, Other
<1> QED
  BY <1>1, <1>2 DEF DeferredInv, CancelFirst

\* A step after which the deferreds are settled as before, or one more is.
Settling == Keeps \/ \E d \in Deferreds, o \in Outcomes : \E v \in Fit(d, o) : Begins(d, o, v)

Moves == Quiet /\ CancelFirst' /\ cancelled' = cancelled

LEMMA OthersAre == \A o \in Outcomes : Other(o) \in Outcomes /\ Other(o) # o /\ Other(Other(o)) = o
  BY DEF Outcomes, Other

LEMMA AddMoves ==
    ASSUME DeferredInv, Quiet, NEW d \in Deferreds, NEW o \in Outcomes, NEW new \in Seq(Callback),
           NEW below \in Seq(Frame), Alike(stack, below), Add(d, o, new, below)
    PROVE  Moves /\ Keeps
<1>1. Keeps
  BY AddKeeps DEF DeferredInv, Typed, Frame
<1> QED
  BY <1>1, AddCancelFirst DEF Moves

LEMMA SettleMoves ==
    ASSUME DeferredInv, Quiet, NEW d \in Deferreds, NEW o \in Outcomes, NEW v \in Fit(d, o),
           NEW below \in Seq(Frame), Alike(stack, below), Settle(d, o, v, below),
           UNCHANGED <<callbacks, fired, cancelled>>
    PROVE  Moves /\ Settling
<1>1. Keeps \/ Begins(d, o, v)
  BY SettleBegins DEF DeferredInv, Typed, Frame
<1>2. CancelFirst'
  BY DEF DeferredInv, CancelFirst
<1> QED
  BY <1>1, <1>2 DEF Moves, Settling

LEMMA StillMoves ==
    ASSUME DeferredInv, Quiet, Alike(stack, stack'), UNCHANGED lists
    PROVE  Moves /\ Keeps
<1>1. Keeps
  BY SameKeeps DEF DeferredInv, lists
<1>2. CancelFirst'
  BY DEF DeferredInv, CancelFirst, lists
<1> QED
  BY <1>1, <1>2 DEF Moves, lists

LEMMA UnwindMoves ==
    ASSUME DeferredInv, Quiet, NEW depth \in 0..Len(stack),
           Left(SubSeq(stack, depth + 1, Len(stack))), stack' = SubSeq(stack, 1, depth),
           UNCHANGED <<callbacks, cancelled>>
    PROVE  Moves /\ Keeps
<1>1. Keeps
  BY UnwindKeeps DEF DeferredInv, Typed
<1>2. CancelFirst'
  BY DEF DeferredInv, CancelFirst
<1> QED
  BY <1>1, <1>2 DEF Moves

\* A stack is like itself.
LEMMA AlikeSelf == DeferredInv => Alike(stack, stack) /\ stack \in Seq(Frame) /\ Unique(stack)
  BY DEF DeferredInv, OneFrame, Alike, Typed, StackOK

\* The frame of jQuery.when at the top stands for another one, or goes.
LEMMA AlikeWhen ==
    ASSUME DeferredInv, stack # <<>>, top.is = "when"
    PROVE  /\ rest \in Seq(Frame) /\ Alike(stack, rest)
           /\ \A f \in Frame : f.is = "when" => Append(rest, f) \in Seq(Frame) /\ Alike(stack, Append(rest, f))
<1>1. rest \in Seq(Frame) /\ stack \in Seq(Frame) /\ Unique(stack) /\ Last(stack).is # "fire"
  BY TopTyped, AlikeSelf DEF DeferredInv, Typed, top
<1>2. Alike(stack, rest)
  BY <1>1, AlikePopped DEF rest
<1>3. ASSUME NEW f \in Frame, f.is = "when" PROVE Alike(stack, Append(rest, f))
  BY <1>1, <1>3, AlikeTop DEF rest
<1> QED
  BY <1>1, <1>2, <1>3, AppendProperties

\* The frame at the top goes on.
LEMMA AlikeFire ==
    ASSUME DeferredInv, stack # <<>>, top.is = "fire", NEW c \in Callbacks \union {None}
    PROVE  Alike(stack, Append(rest, [top EXCEPT !.calls = c]))
<1> DEFINE f == [top EXCEPT !.calls = c]
<1>1. stack \in Seq(Frame) /\ Unique(stack) /\ top \in FireFrame
  BY TopTyped, AlikeSelf DEF DeferredInv, Typed
<1>2. f \in Frame /\ f.is = "fire" /\ f.d = top.d /\ f.o = top.o /\ f.value = top.value
  BY <1>1, FrameExcept, Zenon DEF Frame
<1> HIDE DEF f
<1>3. Alike(stack, Append(rest, f))
  BY <1>1, <1>2, AlikeTop DEF rest, top
<1> QED
  BY <1>3 DEF f

-----------------------------------------------------------------------------
(* The steps.                                                                  *)

LEMMA CallAddMoves ==
    ASSUME DeferredInv, NEW d \in Deferreds, NEW o \in Outcomes, NEW cs \in Registrations, CallAdd(d, o, cs)
    PROVE  Moves /\ Keeps
<1> DEFINE new == [n \in DOMAIN cs |-> User(cs[n])]
<1>1. new \in Seq(Callback)
  BY UserOnlyUsers, Distinct DEF DeferredInv
<1>2. PageRuns /\ Add(d, o, new, stack)
  BY DEF CallAdd
<1> HIDE DEF new
<1> QED
  BY <1>1, <1>2, QuietPage, AlikeSelf, AddMoves

LEMMA CallSettleMoves ==
    ASSUME DeferredInv, NEW d \in Parts, NEW o \in Outcomes, NEW v \in Values, CallSettle(d, o, v)
    PROVE  Moves /\ Settling
<1>1. v \in Fit(d, o) /\ d \in Deferreds
  BY DEF Fit, Deferreds
<1>2. PageRuns /\ Settle(d, o, v, stack) /\ UNCHANGED <<callbacks, fired, cancelled>>
  BY DEF CallSettle
<1> QED
  BY <1>1, <1>2, QuietPage, AlikeSelf, SettleMoves

LEMMA CallWhenMoves ==
    ASSUME DeferredInv, NEW a \in Arguments, CallWhen(a)
    PROVE  Moves /\ Keeps
<1> DEFINE f == When(Len(a), "done")
<1>1. PageRuns /\ stack' = Append(stack, f) /\ UNCHANGED lists /\ f.is # "fire"
  BY DEF CallWhen, When
<1> HIDE DEF f
<1>2. Alike(stack, Append(stack, f))
  <2>1. stack \in Seq(Frame \union {f}) /\ Unique(stack)
    BY AlikeSelf, SeqMonotonic
  <2> QED
    BY <1>1, <2>1, AlikePushed
<1> QED
  BY <1>1, <1>2, QuietPage, StillMoves

LEMMA ReturnMoves == DeferredInv /\ Return => Moves /\ Keeps
<1> SUFFICES ASSUME DeferredInv, Return PROVE Moves /\ Keeps
  OBVIOUS
<1>1. /\ PageRuns /\ stack # <<>> /\ top.is = "fire" /\ UNCHANGED lists
      /\ stack' = Append(rest, [top EXCEPT !.calls = None])
  BY DEF Return, PageRuns
<1>2. None \in Callbacks \union {None}
  OBVIOUS
<1>3. Alike(stack, stack')
  BY <1>1, <1>2, AlikeFire, Zenon
<1> QED
  BY <1>1, <1>3, QuietPage, StillMoves

LEMMA ThrowMoves ==
    ASSUME DeferredInv, NEW depth \in 0..Len(stack) - 1, Throw(depth) PROVE Moves /\ Keeps
<1>1. /\ PageRuns /\ Left(SubSeq(stack, depth + 1, Len(stack))) /\ stack' = SubSeq(stack, 1, depth)
      /\ UNCHANGED <<callbacks, cancelled>>
  BY DEF Throw
<1>2. depth \in 0..Len(stack)
  <2>1. Len(stack) \in Nat
    BY AlikeSelf
  <2> QED
    BY <2>1
<1> QED
  BY <1>1, <1>2, QuietPage, UnwindMoves

LEMMA FinishMoves == DeferredInv /\ Finish => Moves /\ Keeps
<1> SUFFICES ASSUME DeferredInv, Finish PROVE Moves /\ Keeps
  OBVIOUS
<1>1. /\ Loop /\ callbacks[top.d][top.o] = <<>> /\ Left(<<top>>) /\ stack' = rest
      /\ UNCHANGED <<callbacks, cancelled>>
  BY DEF Finish
<1> DEFINE depth == Len(stack) - 1
           t == SubSeq(stack, depth + 1, Len(stack))
<1>2. stack \in Seq(Frame) /\ stack # <<>>
  BY <1>1, AlikeSelf DEF Loop
<1>3. Len(stack) \in Nat /\ Len(stack) > 0 /\ top = stack[Len(stack)] /\ top \in Frame
  BY <1>2, FrontLast DEF top
<1>4. depth \in 0..Len(stack) /\ depth + 1 = Len(stack) /\ Len(stack) - depth = 1
  BY <1>3
<1>5. t = <<top>>
  <2>1. t \in Seq(Frame) /\ Len(t) = Len(stack) - depth /\ \A n \in 1..(Len(stack) - depth) : t[n] = stack[depth + n]
    BY <1>2, <1>4, UnwindingPlaces, ZenonT(90)
  <2>2. Len(t) = 1 /\ t[1] = top
    BY <1>3, <1>4, <2>1
  <2> HIDE DEF t
  <2> QED
    BY <1>3, <2>1, <2>2
<1>6. stack' = SubSeq(stack, 1, depth)
  BY <1>1 DEF rest, Front
<1> HIDE DEF depth
<1> QED
  BY <1>1, <1>4, <1>5, <1>6, QuietLoop, UnwindMoves

LEMMA RunUserMoves ==
    ASSUME DeferredInv, NEW c \in Callbacks, RunUser(c) PROVE Moves /\ Keeps
<1>1. /\ Loop /\ Head(callbacks[top.d][top.o]) = User(c) /\ callbacks' = Shifted
      /\ stack' = Append(rest, [top EXCEPT !.calls = c]) /\ UNCHANGED <<fired, firing, cancelled>>
  BY DEF RunUser, Heads
<1>2. Quiet /\ cancelled[top.d][Other(top.o)] /\ ~cancelled[top.d][top.o]
      /\ top.d \in Deferreds /\ top.o \in Outcomes /\ stack # <<>> /\ top.is = "fire"
  <2>1. User(c) # Cancel
    BY DEF User, Cancel
  <2> QED
    BY <1>1, <2>1, QuietLoop, TopFires DEF Loop
<1>3. CancelFirst'
  BY <1>1, <1>2, ShiftCancelFirst DEF Shifted
<1>4. Alike(stack, stack')
  BY <1>1, <1>2, AlikeFire, Zenon
<1>5. Keeps
  BY <1>1, <1>4, SameKeeps DEF DeferredInv
<1> QED
  BY <1>1, <1>2, <1>3, <1>5 DEF Moves

\* The callbacks of jQuery.when settle its deferred, or do not.
LEMMA TellMoves ==
    ASSUME DeferredInv, Loop, callbacks[top.d][top.o] # <<>>, Head(callbacks[top.d][top.o]) # Cancel,
           callbacks' = Shifted, UNCHANGED <<fired, cancelled>>,
           NEW o \in Outcomes, NEW v \in Fit(Master, o),
           Settle(Master, o, v, stack) \/ UNCHANGED <<firing, stack>>
    PROVE  Moves /\ (Keeps \/ Begins(Master, o, v))
<1>1. Quiet /\ cancelled[top.d][Other(top.o)] /\ ~cancelled[top.d][top.o]
      /\ top.d \in Deferreds /\ top.o \in Outcomes
  BY QuietLoop, TopFires DEF Loop
<1>2. CancelFirst'
  BY <1>1, ShiftCancelFirst DEF Shifted
<1>3. Alike(stack, stack) /\ stack \in Seq(Frame) /\ Master \in Deferreds
  BY AlikeSelf DEF Deferreds
<1>4. CASE Settle(Master, o, v, stack)
  <2>1. Keeps \/ Begins(Master, o, v)
    BY <1>3, <1>4, SettleBegins DEF DeferredInv, Typed, Frame
  <2> QED
    BY <1>1, <1>2, <2>1 DEF Moves
<1>5. CASE UNCHANGED <<firing, stack>>
  <2>1. Keeps
    BY <1>3, <1>5, SameKeeps DEF DeferredInv
  <2> QED
    BY <1>1, <1>2, <2>1 DEF Moves
<1> QED
  BY <1>4, <1>5

LEMMA RunPartMoves ==
    ASSUME DeferredInv, NEW n \in DOMAIN args, RunPart(n)
    PROVE  Moves /\ (Keeps \/ Begins(Master, "done", array')) /\ array' \in Fit(Master, "done")
<1>1. /\ Loop /\ callbacks[top.d][top.o] # <<>> /\ Head(callbacks[top.d][top.o]) = Part(n)
      /\ callbacks' = Shifted /\ UNCHANGED <<fired, cancelled, promise, args>>
      /\ Settle(Master, "done", array', stack) \/ UNCHANGED <<firing, stack>>
  BY DEF RunPart, Heads
<1>2. Part(n) # Cancel /\ "done" \in Outcomes
  BY DEF Part, Cancel, Outcomes
<1>3. array' \in Fit(Master, "done")
  <2>1. Typed'
    BY LibraryTyped DEF DeferredInv, Library
  <2>2. promise # "no"
    BY DEF DeferredInv, Typed, LocalsOK
  <2>3. args \in Arguments /\ array' \in [DOMAIN args -> Values \union ToSet(args)]
    BY <1>1, <2>1, <2>2 DEF Typed, LocalsOK
  <2> QED
    BY <2>3, Distinct DEF Fit, Arrays, DeferredInv
<1> QED
  BY <1>1, <1>2, <1>3, TellMoves

LEMMA RunRejectMoves ==
    ASSUME DeferredInv, RunReject
    PROVE  /\ Moves /\ (Keeps \/ Begins(Master, "fail", top.value))
           /\ top.value \in Fit(Master, "fail") /\ top.d \in Parts /\ top.o = "fail"
<1>1. /\ Loop /\ callbacks[top.d][top.o] # <<>> /\ Head(callbacks[top.d][top.o]) = Reject
      /\ callbacks' = Shifted /\ UNCHANGED <<fired, cancelled>>
      /\ Settle(Master, "fail", top.value, stack)
  BY DEF RunReject, Heads
<1>2. Reject # Cancel /\ "fail" \in Outcomes
  BY DEF Reject, Cancel, Outcomes
<1>3. top.value \in Fit(Master, "fail") /\ top.d \in Parts /\ top.o = "fail"
  <2>1. top.d \in Deferreds /\ top.o \in Outcomes /\ top.value \in Fit(top.d, top.o)
    BY <1>1, TopFires DEF Loop
  <2>2. Head(callbacks[top.d][top.o]) \in Hangs(top.d, top.o)
    BY <1>1, <2>1, ShiftTyped DEF DeferredInv, Typed
  <2>3. top.d \in Parts /\ top.o = "fail"
    BY <1>1, <2>2 DEF Hangs, Reject
  <2> QED
    BY <2>1, <2>3 DEF Fit
<1> QED
  BY <1>1, <1>2, <1>3, TellMoves

LEMMA WhenPartMoves == DeferredInv /\ WhenPart => Moves /\ Keeps
<1> SUFFICES ASSUME DeferredInv, WhenPart PROVE Moves /\ Keeps
  OBVIOUS
<1>1. /\ stack # <<>> /\ top.is = "when" /\ top.n > 0 /\ args[top.n] \in Parts
      /\ Add(args[top.n], "done", <<Part(top.n)>>, Append(rest, When(top.n, "fail")))
  BY DEF WhenPart, Looping
<1>2. top \in WhenFrame /\ args[top.n] \in Deferreds /\ "done" \in Outcomes
  BY <1>1, TopTyped DEF DeferredInv, Typed, Deferreds, Outcomes
<1>3. When(top.n, "fail") \in Frame /\ When(top.n, "fail").is = "when"
  <2>1. promise = "making" /\ top.n \in Nat /\ top.n <= Len(args) /\ "fail" \in Outcomes
    BY <1>2 DEF WhenFrame, Outcomes
  <2> QED
    BY <1>1, <2>1, WhenTyped DEF When
<1>4. <<Part(top.n)>> \in Seq(Callback)
  BY <1>2 DEF WhenFrame, Part, Callback
<1> QED
  BY <1>1, <1>2, <1>3, <1>4, AlikeWhen, QuietWhen, AddMoves

LEMMA WhenRejectMoves == DeferredInv /\ WhenReject => Moves /\ Keeps
<1> SUFFICES ASSUME DeferredInv, WhenReject PROVE Moves /\ Keeps
  OBVIOUS
<1>1. /\ stack # <<>> /\ top.is = "when" /\ top.n > 0 /\ top.half = "fail"
      /\ Add(args[top.n], "fail", <<Reject>>, Append(rest, When(top.n - 1, "done")))
  BY DEF WhenReject, Looping
<1>2. top \in WhenFrame
  BY <1>1, TopTyped DEF DeferredInv, Typed
<1>3. args[top.n] \in Deferreds /\ "fail" \in Outcomes
  BY <1>1, <1>2 DEF WhenFrame, Deferreds, Outcomes
<1>4. When(top.n - 1, "done") \in Frame /\ When(top.n - 1, "done").is = "when"
  <2>1. promise = "making" /\ top.n \in Nat /\ top.n <= Len(args) /\ "done" \in Outcomes
    BY <1>2 DEF WhenFrame, Outcomes
  <2>2. args \in Arguments
    BY <2>1 DEF DeferredInv, Typed, LocalsOK
  <2>3. Len(args) \in Nat
    BY <2>2, Distinct DEF DeferredInv
  <2>4. top.n - 1 \in Nat /\ top.n - 1 <= Len(args)
    BY <1>1, <2>1, <2>3
  <2> QED
    BY <2>1, <2>4, WhenTyped DEF When
<1>5. <<Reject>> \in Seq(Callback)
  BY DEF Reject, Callback
<1> QED
  BY <1>1, <1>3, <1>4, <1>5, AlikeWhen, QuietWhen, AddMoves

LEMMA WhenPlainMoves == DeferredInv /\ WhenPlain => Moves /\ Keeps
<1> SUFFICES ASSUME DeferredInv, WhenPlain PROVE Moves /\ Keeps
  OBVIOUS
<1> DEFINE f == When(top.n - 1, "done")
<1>1. /\ stack # <<>> /\ top.is = "when" /\ top.n > 0 /\ stack' = Append(rest, f) /\ UNCHANGED lists
  BY DEF WhenPlain, Looping
<1>2. top \in WhenFrame
  BY <1>1, TopTyped DEF DeferredInv, Typed
<1>3. f \in Frame /\ f.is = "when"
  <2>1. promise = "making" /\ top.n \in Nat /\ top.n <= Len(args) /\ "done" \in Outcomes
    BY <1>2 DEF WhenFrame, Outcomes
  <2>2. args \in Arguments
    BY <2>1 DEF DeferredInv, Typed, LocalsOK
  <2>3. Len(args) \in Nat
    BY <2>2, Distinct DEF DeferredInv
  <2>4. top.n - 1 \in Nat /\ top.n - 1 <= Len(args)
    BY <1>1, <2>1, <2>3
  <2> QED
    BY <2>1, <2>4, WhenTyped DEF When
<1> HIDE DEF f
<1> QED
  BY <1>1, <1>3, AlikeWhen, QuietWhen, StillMoves

LEMMA WhenReturnMoves ==
    DeferredInv /\ WhenReturn => Moves /\ (Keeps \/ Begins(Master, "done", array)) /\ array \in Fit(Master, "done")
<1> SUFFICES ASSUME DeferredInv, WhenReturn
             PROVE  Moves /\ (Keeps \/ Begins(Master, "done", array)) /\ array \in Fit(Master, "done")
  OBVIOUS
<1>1. /\ stack # <<>> /\ top.is = "when" /\ UNCHANGED <<callbacks, fired, cancelled>>
      /\ Settle(Master, "done", array, rest) \/ (stack' = rest /\ UNCHANGED firing)
  BY DEF WhenReturn
<1>2. Quiet /\ rest \in Seq(Frame) /\ Alike(stack, rest)
  BY <1>1, QuietWhen, AlikeWhen
<1>3. Moves
  BY <1>1, <1>2 DEF Moves, DeferredInv, CancelFirst
<1>4. array \in Fit(Master, "done")
  <2>1. top \in WhenFrame
    BY <1>1, TopTyped DEF DeferredInv, Typed
  <2>2. args \in Arguments /\ array \in [DOMAIN args -> Values \union ToSet(args)]
    BY <2>1 DEF WhenFrame, DeferredInv, Typed, LocalsOK
  <2> QED
    BY <2>2, Distinct DEF Fit, Arrays, DeferredInv
<1>5. CASE Settle(Master, "done", array, rest)
  <2>1. Master \in Deferreds /\ "done" \in Outcomes
    BY DEF Deferreds, Outcomes
  <2>2. Keeps \/ Begins(Master, "done", array)
    BY <1>1, <1>2, <1>4, <1>5, <2>1, SettleBegins DEF DeferredInv, Typed, Frame
  <2> QED
    BY <1>3, <1>4, <2>2
<1>6. CASE stack' = rest /\ UNCHANGED firing
  <2>1. Keeps
    BY <1>1, <1>2, <1>6, SameKeeps DEF DeferredInv
  <2> QED
    BY <1>3, <1>4, <2>1
<1> QED
  BY <1>1, <1>5, <1>6

\* The cancel of the other list: nothing is settled by it.
LEMMA RunCancelKeeps == DeferredInv /\ RunCancel => Keeps
<1> SUFFICES ASSUME DeferredInv, RunCancel PROVE Keeps
  OBVIOUS
<1>1. UNCHANGED <<fired, firing, stack>>
  BY DEF RunCancel
<1> QED
  BY <1>1, AlikeSelf, SameKeeps DEF DeferredInv

-----------------------------------------------------------------------------
(* The invariant is one.                                                       *)

\* What a deferred is settled with is a value of its, and the only one.
SettledAsFits ==
    \A d \in Deferreds, o \in Outcomes :
        /\ Settled(d, o) <=> \E v \in Results : FiresWith(d, o, v)
        /\ Settled(d, o) <=> \E v \in Fit(d, o) : FiresWith(d, o, v)
        /\ \A v \in Results : FiresWith(d, o, v) => ValueOf(d, o) = v

LEMMA SettledFits == DeferredConstants /\ Typed /\ OneFrame => SettledAsFits
  BY SettledWith, OneValue DEF SettledAsFits, Typed

LEMMA SettledFitsNext == (DeferredConstants /\ Typed /\ OneFrame)' => SettledAsFits'
  BY SettledFits, PTL

LEMMA OneWayStep ==
    ASSUME DeferredInv, Moves, Settling, Typed' PROVE OneFrame' /\ OneWay'
<1>1. OneFrame'
  BY DEF Settling, Keeps, Begins
<1>2. SettledAsFits /\ SettledAsFits'
  BY <1>1, SettledFits, SettledFitsNext DEF DeferredInv, DeferredConstants
<1>3. Results' = Results
  BY DEF Results, Arrays
<1>4. CASE Keeps
  <2>1. \A d \in Deferreds, o \in Outcomes : Settled(d, o)' <=> Settled(d, o)
    BY <1>2, <1>3, <1>4 DEF SettledAsFits, Keeps
  <2> QED
    BY <1>1, <2>1, OthersAre DEF DeferredInv, OneWay, Moves, Quiet
<1>5. ASSUME NEW d \in Deferreds, NEW o \in Outcomes, NEW v \in Fit(d, o), Begins(d, o, v) PROVE OneWay'
  <2>1. v \in Results
    BY FitResults
  <2>2. \A e \in Deferreds, w \in Outcomes : Settled(e, w)' <=> Settled(e, w) \/ (e = d /\ w = o)
    BY <1>2, <1>3, <1>5, <2>1 DEF SettledAsFits, Begins
  <2>3. ~cancelled[d][o] /\ Begun(d, o)'
    BY <1>5 DEF Begins
  <2> QED
    BY <2>2, <2>3, OthersAre DEF DeferredInv, OneWay, Moves, Quiet
<1> QED
  BY <1>1, <1>4, <1>5 DEF Settling

LEMMA CancelStep ==
    ASSUME DeferredInv, RunCancel, Typed' PROVE OneFrame' /\ CancelFirst' /\ OneWay'
<1> DEFINE d == top.d
           o == top.o
           other == Other(top.o)
<1>1. /\ Loop /\ callbacks[d][o] # <<>>
      /\ callbacks' = [Shifted EXCEPT ![d][other] = <<>>]
      /\ cancelled' = [cancelled EXCEPT ![d][other] = TRUE]
  BY DEF RunCancel, Heads
<1>2. /\ d \in Deferreds /\ o \in Outcomes /\ Settled(d, o) /\ ~cancelled[d][o] /\ stack # <<>>
      /\ other \in Outcomes /\ other # o /\ Other(other) = o
  BY <1>1, TopFires, OthersAre DEF Loop
<1>3. Keeps
  BY RunCancelKeeps
<1>4. OneFrame'
  BY <1>3 DEF Keeps
<1>5. SettledAsFits /\ SettledAsFits'
  BY <1>4, SettledFits, SettledFitsNext DEF DeferredInv, DeferredConstants
<1>6. Results' = Results
  BY DEF Results, Arrays
<1>7. \A e \in Deferreds, w \in Outcomes : Settled(e, w)' <=> Settled(e, w)
  BY <1>3, <1>5, <1>6 DEF SettledAsFits, Keeps
<1>8. ~Settled(d, other)
  <2>1. ~Begun(d, other)
    BY <1>2 DEF Begun
  <2> QED
    BY <1>2, <2>1 DEF DeferredInv, OneWay
<1>9. \A e \in Deferreds, w \in Outcomes :
         cancelled'[e][w] <=> cancelled[e][w] \/ (e = d /\ w = other)
  <2> HIDE DEF d, other
  <2> QED
    BY <1>1, <1>2, Zenon DEF DeferredInv, Typed, ListsOK, Lists
<1>10. \A e \in Deferreds, w \in Outcomes :
          callbacks'[e][w] = IF e = d THEN IF w = other THEN <<>> ELSE Tail(callbacks[d][o]) ELSE callbacks[e][w]
  <2>1. Shifted = [callbacks EXCEPT ![d][o] = Tail(@)] /\ callbacks \in Lists(Seq(Callback))
    BY DEF Shifted, DeferredInv, Typed, ListsOK
  <2> HIDE DEF d, o, other
  <2>2. \A w \in Outcomes : w = o \/ w = other
    BY <1>2 DEF Outcomes, Other
  <2>3. \A e \in Deferreds, w \in Outcomes :
           Shifted[e][w] = IF e = d /\ w = o THEN Tail(callbacks[d][o]) ELSE callbacks[e][w]
    BY <1>2, <2>1 DEF Lists
  <2>4. \A e \in Deferreds, w \in Outcomes :
           callbacks'[e][w] = IF e = d /\ w = other THEN <<>> ELSE Shifted[e][w]
    BY <1>1, <1>2, <2>1 DEF Lists
  <2> QED
    BY <1>2, <2>2, <2>3, <2>4
<1> HIDE DEF d, o, other
<1>11. \A w \in Outcomes : w = o \/ w = other
  BY <1>2 DEF Outcomes, Other
<1>12. CancelFirst'
  BY <1>2, <1>9, <1>10, <1>11, OthersAre DEF DeferredInv, CancelFirst
<1>13. OneWay'
  <2>1. ASSUME NEW e \in Deferreds, NEW w \in Outcomes, cancelled'[e][w]
        PROVE  ~Settled(e, w)' /\ Settled(e, Other(w))'
    BY <1>2, <1>7, <1>8, <1>9, <2>1, OthersAre DEF DeferredInv, OneWay
  <2>2. ASSUME NEW e \in Deferreds, NEW w \in Outcomes, Settled(e, w)' PROVE cancelled'[e][Other(w)]
    <3>1. Settled(e, w) /\ Other(w) \in Outcomes
      BY <1>7, <2>2, OthersAre
    <3>2. CASE e = d
      <4>1. w = o
        BY <1>8, <1>11, <3>1, <3>2
      <4> QED
        BY <1>9, <3>1, <3>2, <4>1 DEF o, other
    <3>3. CASE e # d
      <4>1. ~Begun(e, w)
        BY <3>3 DEF Begun, d
      <4> QED
        BY <1>9, <3>1, <4>1 DEF DeferredInv, OneWay
    <3> QED
      BY <3>2, <3>3
  <2> QED
    BY <2>1, <2>2 DEF OneWay
<1> QED
  BY <1>4, <1>12, <1>13

LEMMA DeferredInit == DeferredConstants /\ Init => DeferredInv
<1> SUFFICES ASSUME DeferredConstants, Init PROVE DeferredInv
  OBVIOUS
<1>1. \A d, o, v : ~Has(stack, d, o, v)
  BY DEF Init, Has
<1>2. OneFrame
  BY <1>1 DEF Init, OneFrame, Unique, Each
<1>3. CancelFirst
  BY OthersAre DEF Init, CancelFirst, Each, Built
<1>4. OneWay
  BY OthersAre DEF Init, OneWay, Settled, Each
<1> QED
  BY <1>2, <1>3, <1>4, InitTyped DEF DeferredInv

\* What a step does to what the deferreds are settled with.
LEMMA StepMoves == DeferredInv /\ Next => (Moves /\ Settling) \/ (RunCancel /\ Keeps)
<1> SUFFICES ASSUME DeferredInv, Next PROVE (Moves /\ Settling) \/ (RunCancel /\ Keeps)
  OBVIOUS
<1>1. ASSUME NEW d \in Deferreds, NEW o \in Outcomes, NEW cs \in Registrations, CallAdd(d, o, cs)
      PROVE  Moves /\ Settling
  BY <1>1, CallAddMoves DEF Settling
<1>2. ASSUME NEW d \in Parts, NEW o \in Outcomes, NEW v \in Values, CallSettle(d, o, v)
      PROVE  Moves /\ Settling
  BY <1>2, CallSettleMoves
<1>3. ASSUME NEW a \in Arguments, CallWhen(a) PROVE Moves /\ Settling
  BY <1>3, CallWhenMoves DEF Settling
<1>4. ASSUME NEW depth \in 0..Len(stack) - 1, Throw(depth) PROVE Moves /\ Settling
  BY <1>4, ThrowMoves DEF Settling
<1>5. CASE Return \/ Finish \/ WhenPart \/ WhenReject \/ WhenPlain
  BY <1>5, ReturnMoves, FinishMoves, WhenPartMoves, WhenRejectMoves, WhenPlainMoves DEF Settling
<1>6. ASSUME NEW c \in Callbacks, RunUser(c) PROVE Moves /\ Settling
  BY <1>6, RunUserMoves DEF Settling
<1>7. Master \in Deferreds /\ "done" \in Outcomes /\ "fail" \in Outcomes
  BY DEF Deferreds, Outcomes
<1>8. ASSUME NEW n \in DOMAIN args, RunPart(n) PROVE Moves /\ Settling
  BY <1>7, <1>8, RunPartMoves DEF Settling
<1>9. CASE RunReject
  BY <1>7, <1>9, RunRejectMoves DEF Settling
<1>10. CASE WhenReturn
  BY <1>7, <1>10, WhenReturnMoves DEF Settling
<1>11. CASE RunCancel
  BY <1>11, RunCancelKeeps
<1> QED
  BY <1>1, <1>2, <1>3, <1>4, <1>5, <1>6, <1>8, <1>9, <1>10, <1>11 DEF Next, Page, Library

LEMMA DeferredStep == DeferredInv /\ [Next]_vars => DeferredInv'
<1> SUFFICES ASSUME DeferredInv, [Next]_vars PROVE DeferredInv'
  OBVIOUS
<1>1. Typed'
  BY TypedStep DEF DeferredInv
<1>2. CASE Next
  <2>1. OneFrame' /\ CancelFirst' /\ OneWay'
    BY <1>1, <1>2, StepMoves, OneWayStep, CancelStep DEF Moves
  <2> QED
    BY <1>1, <2>1 DEF DeferredInv, DeferredConstants
<1>3. CASE UNCHANGED vars
  <2>1. UNCHANGED <<callbacks, fired, firing, cancelled, stack>>
    BY <1>3 DEF vars, lists
  <2>2. Results' = Results /\ top' = top
    BY <2>1 DEF Results, Arrays, top
  <2>3. OneFrame'
    BY <2>1, <2>2 DEF DeferredInv, OneFrame
  <2>4. CancelFirst'
    BY <2>1 DEF DeferredInv, CancelFirst
  <2>5. OneWay'
    BY <2>1, <2>2 DEF DeferredInv, OneWay, Settled, Begun
  <2> QED
    BY <1>1, <2>3, <2>4, <2>5 DEF DeferredInv, DeferredConstants
<1> QED
  BY <1>2, <1>3

THEOREM DeferredInvHolds == ASSUME DeferredConstants PROVE Spec => []DeferredInv
<1>1. Init => DeferredInv
  BY DeferredInit
<1> QED
  BY <1>1, DeferredStep, PTL DEF Spec

-----------------------------------------------------------------------------
(* The abstract promise.                                                       *)

\* What the variables of Promise stand for.
Waiting == [d \in Deferreds |-> [o \in Outcomes |-> UserOnly(callbacks[d][o])]]

OutcomeIs ==
    \A d \in Deferreds :
        /\ (\A o \in Outcomes : ~Settled(d, o)) => outcome[d] = None
        /\ \A o \in Outcomes, v \in Results :
              FiresWith(d, o, v) => Settled(d, o) /\ outcome[d] = [way |-> o, value |-> v]

LEMMA OutcomeFits == DeferredInv => OutcomeIs
<1> SUFFICES ASSUME DeferredInv, NEW d \in Deferreds
             PROVE  /\ (\A o \in Outcomes : ~Settled(d, o)) => outcome[d] = None
                    /\ \A o \in Outcomes, v \in Results :
                          FiresWith(d, o, v) => Settled(d, o) /\ outcome[d] = [way |-> o, value |-> v]
  BY DEF OutcomeIs
<1> DEFINE w == CHOOSE u \in Outcomes : Settled(d, u)
<1>1. outcome[d] = IF \A o \in Outcomes : ~Settled(d, o) THEN None
                   ELSE [way |-> w, value |-> ValueOf(d, w)]
  BY Zenon DEF outcome
<1>2. ASSUME NEW o \in Outcomes, NEW v \in Results, FiresWith(d, o, v)
      PROVE  Settled(d, o) /\ outcome[d] = [way |-> o, value |-> v]
  <2>1. Settled(d, o) /\ ValueOf(d, o) = v
    BY <1>2, SettledFits DEF SettledAsFits, DeferredInv
  <2>2. w \in Outcomes /\ Settled(d, w)
    BY <2>1
  <2>3. w = o
    <3> SUFFICES ASSUME w # o PROVE FALSE
      OBVIOUS
    <3>1. Other(o) = w /\ Other(w) = o
      BY <2>2 DEF Outcomes, Other
    <3>2. ~cancelled[d][w] /\ ~cancelled[d][o]
      BY <2>1, <2>2 DEF DeferredInv, OneWay
    <3>3. Begun(d, o) /\ Begun(d, w)
      BY <2>1, <2>2, <3>1, <3>2 DEF DeferredInv, OneWay
    <3> QED
      BY <3>3 DEF Begun
  <2> QED
    BY <1>1, <2>1, <2>2, <2>3
<1> QED
  BY <1>1, <1>2

LEMMA OutcomeFitsNext == DeferredInv' => OutcomeIs'
  BY OutcomeFits, PTL

LEMMA OutcomeKeeps == DeferredInv /\ DeferredInv' /\ Keeps => outcome' = outcome
<1> SUFFICES ASSUME DeferredInv, DeferredInv', Keeps PROVE outcome' = outcome
  OBVIOUS
<1>1. OutcomeIs /\ OutcomeIs' /\ SettledAsFits /\ SettledAsFits' /\ Results' = Results
  BY OutcomeFits, OutcomeFitsNext, SettledFits, SettledFitsNext DEF DeferredInv, Results, Arrays
<1>2. ASSUME NEW d \in Deferreds PROVE outcome'[d] = outcome[d]
  <2>1. CASE \A o \in Outcomes : ~Settled(d, o)
    <3>1. \A o \in Outcomes : ~Settled(d, o)'
      BY <1>1, <2>1 DEF Keeps, SettledAsFits
    <3> QED
      BY <1>1, <2>1, <3>1 DEF OutcomeIs
  <2>2. ASSUME NEW o \in Outcomes, Settled(d, o) PROVE outcome'[d] = outcome[d]
    <3>1. PICK v \in Results : FiresWith(d, o, v)
      BY <1>1, <2>2 DEF SettledAsFits
    <3>2. FiresWith(d, o, v)'
      BY <3>1 DEF Keeps
    <3>3. outcome[d] = [way |-> o, value |-> v]
      BY <1>1, <3>1 DEF OutcomeIs
    <3>4. outcome'[d] = [way |-> o, value |-> v]
      BY <1>1, <3>2 DEF OutcomeIs
    <3> QED
      BY <3>3, <3>4
  <2> QED
    BY <2>1, <2>2
<1>3. outcome = [d \in Deferreds |-> outcome[d]] /\ outcome' = [d \in Deferreds |-> outcome'[d]]
  BY DEF outcome
<1> QED
  BY <1>2, <1>3, Zenon

LEMMA OutcomeBegins ==
    ASSUME DeferredInv, DeferredInv', NEW d \in Deferreds, NEW o \in Outcomes, NEW v \in Fit(d, o),
           Begins(d, o, v)
    PROVE  /\ outcome[d] = None
           /\ outcome' = [outcome EXCEPT ![d] = [way |-> o, value |-> v]]
<1>1. OutcomeIs /\ OutcomeIs' /\ SettledAsFits /\ SettledAsFits' /\ Results' = Results /\ v \in Results
  BY OutcomeFits, OutcomeFitsNext, SettledFits, SettledFitsNext, FitResults DEF DeferredInv, Results, Arrays
<1>2. FiresWith(d, o, v)'
  BY <1>1 DEF Begins
<1>3. outcome'[d] = [way |-> o, value |-> v]
  BY <1>1, <1>2 DEF OutcomeIs
<1>4. outcome[d] = None
  <2>1. ASSUME NEW w \in Outcomes, Settled(d, w) PROVE FALSE
    <3>1. PICK x \in Results : FiresWith(d, w, x)
      BY <1>1, <2>1 DEF SettledAsFits
    <3>2. FiresWith(d, w, x)'
      BY <3>1 DEF Begins
    <3>3. outcome'[d] = [way |-> w, value |-> x]
      BY <1>1, <3>2 DEF OutcomeIs
    <3>4. w = o
      BY <1>3, <3>3
    <3> QED
      BY <2>1, <3>4 DEF Begins
  <2> QED
    BY <1>1, <2>1 DEF OutcomeIs
<1>5. ASSUME NEW e \in Deferreds, e # d PROVE outcome'[e] = outcome[e]
  <2>1. CASE \A w \in Outcomes : ~Settled(e, w)
    <3>1. \A w \in Outcomes : ~Settled(e, w)'
      BY <1>1, <1>5, <2>1 DEF Begins, SettledAsFits
    <3> QED
      BY <1>1, <2>1, <3>1 DEF OutcomeIs
  <2>2. ASSUME NEW w \in Outcomes, Settled(e, w) PROVE outcome'[e] = outcome[e]
    <3>1. PICK x \in Results : FiresWith(e, w, x)
      BY <1>1, <2>2 DEF SettledAsFits
    <3>2. FiresWith(e, w, x)'
      BY <3>1 DEF Begins
    <3>3. outcome[e] = [way |-> w, value |-> x]
      BY <1>1, <3>1 DEF OutcomeIs
    <3>4. outcome'[e] = [way |-> w, value |-> x]
      BY <1>1, <3>2 DEF OutcomeIs
    <3> QED
      BY <3>3, <3>4
  <2> QED
    BY <2>1, <2>2
<1>6. outcome = [e \in Deferreds |-> outcome[e]] /\ outcome' = [e \in Deferreds |-> outcome'[e]]
  BY DEF outcome
<1>7. [outcome EXCEPT ![d] = [way |-> o, value |-> v]]
      = [e \in Deferreds |-> IF e = d THEN [way |-> o, value |-> v] ELSE outcome[e]]
  BY <1>6
<1>8. [e \in Deferreds |-> outcome'[e]]
      = [e \in Deferreds |-> IF e = d THEN [way |-> o, value |-> v] ELSE outcome[e]]
  BY <1>3, <1>5
<1> QED
  BY <1>4, <1>6, <1>7, <1>8

\* What is registered waits.
LEMMA WaitingAdd ==
    ASSUME DeferredInv, NEW d \in Deferreds, NEW o \in Outcomes, NEW new \in Seq(Callback), NEW below,
           Add(d, o, new, below)
    PROVE  /\ cancelled[d][o] => Waiting' = Waiting /\ added' = added
           /\ ~cancelled[d][o] =>
                 /\ Waiting' = [Waiting EXCEPT ![d][o] = @ \o UserOnly(new)]
                 /\ added' = [added EXCEPT ![d][o] = @ \o UserOnly(new)]
<1>1. CASE cancelled[d][o]
  BY <1>1 DEF Add, lists, Waiting
<1>2. CASE ~cancelled[d][o]
  <2>1. callbacks' = [callbacks EXCEPT ![d][o] = @ \o new]
        /\ added' = [added EXCEPT ![d][o] = @ \o UserOnly(new)]
    BY <1>2, Zenon DEF Add
  <2>2. \A e \in Deferreds, w \in Outcomes :
           callbacks'[e][w] = IF e = d /\ w = o THEN callbacks[d][o] \o new ELSE callbacks[e][w]
    BY <2>1 DEF DeferredInv, Typed, ListsOK, Lists
  <2>3. UserOnly(callbacks[d][o] \o new) = UserOnly(callbacks[d][o]) \o UserOnly(new)
    BY UserOnlyConcat DEF DeferredInv, Typed, ListsOK, Lists
  <2>4. \A e \in Deferreds, w \in Outcomes :
           UserOnly(callbacks'[e][w]) = IF e = d /\ w = o THEN UserOnly(callbacks[d][o]) \o UserOnly(new)
                                        ELSE UserOnly(callbacks[e][w])
    BY <2>2, <2>3
  <2>5. Waiting' = [Waiting EXCEPT ![d][o] = @ \o UserOnly(new)]
    BY <2>4 DEF Waiting
  <2> QED
    BY <1>2, <2>1, <2>5
<1> QED
  BY <1>1, <1>2

\* A list that goes on with the next.
LEMMA WaitingShift ==
    ASSUME DeferredInv, NEW d \in Deferreds, NEW o \in Outcomes, callbacks[d][o] # <<>>,
           callbacks' = [callbacks EXCEPT ![d][o] = Tail(@)]
    PROVE  /\ Head(callbacks[d][o]).is # "user" => Waiting' = Waiting
           /\ Head(callbacks[d][o]).is = "user" =>
                 /\ Waiting[d][o] = <<Head(callbacks[d][o]).n>> \o Waiting'[d][o]
                 /\ Waiting[d][o] # <<>> /\ Head(Waiting[d][o]) = Head(callbacks[d][o]).n
                 /\ Waiting' = [Waiting EXCEPT ![d][o] = Tail(@)]
                 /\ Waiting'[d][o] \in Seq(Callbacks)
<1> DEFINE c == Head(callbacks[d][o])
           left == UserOnly(Tail(callbacks[d][o]))
<1>1. callbacks[d][o] \in Seq(Callback) /\ Tail(callbacks[d][o]) \in Seq(Callback) /\ c \in Callback
  BY HeadTailProperties DEF DeferredInv, Typed, ListsOK, Lists
<1>2. \A e \in Deferreds, w \in Outcomes :
         callbacks'[e][w] = IF e = d /\ w = o THEN Tail(callbacks[d][o]) ELSE callbacks[e][w]
  BY DEF DeferredInv, Typed, ListsOK, Lists
<1>3. UserOnly(callbacks[d][o]) = IF c.is = "user" THEN <<c.n>> \o left ELSE left
  BY <1>1, UserOnlyTail
<1>4. left \in Seq(Callbacks)
  BY <1>1, UserOnlyType
<1>5. \A e \in Deferreds, w \in Outcomes :
         /\ Waiting[e][w] = UserOnly(callbacks[e][w])
         /\ Waiting'[e][w] = IF e = d /\ w = o THEN left ELSE UserOnly(callbacks[e][w])
  BY <1>2 DEF Waiting
<1>6. Waiting = [e \in Deferreds |-> [w \in Outcomes |-> Waiting[e][w]]]
      /\ Waiting' = [e \in Deferreds |-> [w \in Outcomes |-> Waiting'[e][w]]]
  BY DEF Waiting
<1> HIDE DEF c, left
<1>7. CASE c.is # "user"
  <2>1. \A e \in Deferreds, w \in Outcomes : Waiting'[e][w] = Waiting[e][w]
    BY <1>3, <1>5, <1>7
  <2>2. Waiting' = Waiting
    BY <1>6, <2>1
  <2> QED
    BY <1>7, <2>2 DEF c
<1>8. CASE c.is = "user"
  <2>1. c.n \in Callbacks
    BY <1>1, <1>8 DEF Callback
  <2>2. Waiting[d][o] = <<c.n>> \o left /\ Waiting'[d][o] = left
    BY <1>3, <1>5, <1>8
  <2>3. <<c.n>> \o left # <<>> /\ Head(<<c.n>> \o left) = c.n /\ Tail(<<c.n>> \o left) = left
    BY <1>4, <2>1
  <2>4. \A e \in Deferreds, w \in Outcomes :
           Waiting'[e][w] = IF e = d /\ w = o THEN Tail(Waiting[d][o]) ELSE Waiting[e][w]
    BY <1>5, <2>2, <2>3
  <2>5. Waiting' = [Waiting EXCEPT ![d][o] = Tail(@)]
    <3>1. [Waiting EXCEPT ![d][o] = Tail(@)]
          = [e \in Deferreds |-> [w \in Outcomes |-> IF e = d /\ w = o THEN Tail(Waiting[d][o]) ELSE Waiting[e][w]]]
      BY <1>6
    <3>2. [e \in Deferreds |-> [w \in Outcomes |-> Waiting'[e][w]]]
          = [e \in Deferreds |-> [w \in Outcomes |-> IF e = d /\ w = o THEN Tail(Waiting[d][o]) ELSE Waiting[e][w]]]
      BY <2>4
    <3> QED
      BY <1>6, <3>1, <3>2, Zenon
  <2> QED
    BY <1>4, <1>8, <2>2, <2>3, <2>5 DEF c
<1> QED
  BY <1>7, <1>8

\* A callback of jQuery.when is none of the page's.
LEMMA AddSilent ==
    ASSUME DeferredInv, NEW d \in Deferreds, NEW o \in Outcomes, NEW c \in Callback, c.is # "user",
           NEW below, Add(d, o, <<c>>, below)
    PROVE  Waiting' = Waiting /\ added' = added
<1> DEFINE new == <<c>>
<1>1. new \in Seq(Callback)
  OBVIOUS
<1>2. UserOnly(new) = <<>>
  BY UserOnlyOne
<1>3. Add(d, o, new, below)
  OBVIOUS
<1> HIDE DEF new
<1>4. /\ cancelled[d][o] => Waiting' = Waiting /\ added' = added
      /\ ~cancelled[d][o] =>
            /\ Waiting' = [Waiting EXCEPT ![d][o] = @ \o UserOnly(new)]
            /\ added' = [added EXCEPT ![d][o] = @ \o UserOnly(new)]
  BY <1>1, <1>3, WaitingAdd
<1>5. CASE cancelled[d][o]
  BY <1>4, <1>5
<1>6. CASE ~cancelled[d][o]
  <2>1. /\ Waiting' = [Waiting EXCEPT ![d][o] = @ \o <<>>]
        /\ added' = [added EXCEPT ![d][o] = @ \o <<>>]
    BY <1>2, <1>4, <1>6
  <2>2. Waiting \in Lists(Seq(Callbacks)) /\ added \in Lists(Seq(Callbacks))
    BY UserOnlyType DEF DeferredInv, Typed, ListsOK, HistoryOK, Lists, Waiting
  <2>3. \A w \in Lists(Seq(Callbacks)) : [w EXCEPT ![d][o] = @ \o <<>>] = w
    <3>1. ASSUME NEW w \in Lists(Seq(Callbacks)) PROVE [w EXCEPT ![d][o] = @ \o <<>>] = w
      <4>1. w[d][o] \in Seq(Callbacks)
        BY <3>1 DEF Lists
      <4>2. w[d][o] \o <<>> = w[d][o]
        BY <4>1, ConcatEmptySeq
      <4> QED
        BY <3>1, <4>2 DEF Lists
    <3> QED
      BY <3>1
  <2> QED
    BY <2>1, <2>2, <2>3, Zenon
<1> QED
  BY <1>5, <1>6

\* The steps that neither register nor call a function of the page.
Silent == Moves /\ Settling /\ Waiting' = Waiting /\ added' = added /\ ran' = ran

LEMMA SilentPage ==
    ASSUME DeferredInv,
           \/ \E d \in Parts, o \in Outcomes, v \in Values : CallSettle(d, o, v)
           \/ \E a \in Arguments : CallWhen(a)
           \/ Return
           \/ \E depth \in 0..Len(stack) - 1 : Throw(depth)
    PROVE  Silent
<1>1. Moves /\ Settling
  BY CallSettleMoves, CallWhenMoves, ReturnMoves, ThrowMoves DEF Settling
<1>2. callbacks' = callbacks /\ added' = added /\ ran' = ran
  BY DEF CallSettle, CallWhen, Return, Throw, lists, history
<1> QED
  BY <1>1, <1>2 DEF Silent, Waiting

LEMMA SilentLibrary ==
    ASSUME DeferredInv, Library, ~RunCancel, \A c \in Callbacks : ~RunUser(c)
    PROVE  Silent
<1>1. Moves /\ Settling
  <2>1. ~(RunCancel /\ Keeps)
    OBVIOUS
  <2> QED
    BY <2>1, StepMoves DEF Next
<1>2. ASSUME Loop, callbacks[top.d][top.o] # <<>>, Head(callbacks[top.d][top.o]).is # "user",
             callbacks' = Shifted, added' = added, ran' = ran
      PROVE  Silent
  <2>1. top.d \in Deferreds /\ top.o \in Outcomes
    BY <1>2, TopFires DEF Loop
  <2>2. Waiting' = Waiting
    BY <1>2, <2>1, WaitingShift DEF Shifted
  <2> QED
    BY <1>1, <1>2, <2>2 DEF Silent
<1>3. ASSUME NEW n \in DOMAIN args, RunPart(n) PROVE Silent
  BY <1>2, <1>3 DEF RunPart, Heads, Part, history
<1>4. CASE RunReject
  BY <1>2, <1>4 DEF RunReject, Heads, Reject, history
<1>5. CASE Finish \/ WhenPlain \/ WhenReturn
  <2>1. callbacks' = callbacks /\ added' = added /\ ran' = ran
    BY <1>5 DEF Finish, WhenPlain, WhenReturn, lists, history
  <2> QED
    BY <1>1, <2>1 DEF Silent, Waiting
<1>6. CASE WhenPart
  <2>1. /\ stack # <<>> /\ top.is = "when" /\ top.n > 0 /\ args[top.n] \in Parts /\ ran' = ran
        /\ Add(args[top.n], "done", <<Part(top.n)>>, Append(rest, When(top.n, "fail")))
    BY <1>6 DEF WhenPart, Looping
  <2>2. top \in WhenFrame /\ args[top.n] \in Deferreds /\ "done" \in Outcomes
    BY <2>1, TopTyped DEF DeferredInv, Typed, Deferreds, Outcomes
  <2>3. Part(top.n) \in Callback /\ Part(top.n).is # "user"
    BY <2>2 DEF WhenFrame, Part, Callback
  <2>4. Waiting' = Waiting /\ added' = added
    BY <2>1, <2>2, <2>3, AddSilent
  <2> QED
    BY <1>1, <2>1, <2>4 DEF Silent
<1>7. CASE WhenReject
  <2>1. /\ stack # <<>> /\ top.is = "when" /\ top.n > 0 /\ top.half = "fail" /\ ran' = ran
        /\ Add(args[top.n], "fail", <<Reject>>, Append(rest, When(top.n - 1, "done")))
    BY <1>7 DEF WhenReject, Looping
  <2>2. top \in WhenFrame
    BY <2>1, TopTyped DEF DeferredInv, Typed
  <2>3. args[top.n] \in Deferreds /\ "fail" \in Outcomes
    BY <2>1, <2>2 DEF WhenFrame, Deferreds, Outcomes
  <2>4. Reject \in Callback /\ Reject.is # "user"
    BY DEF Reject, Callback
  <2>5. Waiting' = Waiting /\ added' = added
    BY <2>1, <2>3, <2>4, AddSilent
  <2> QED
    BY <1>1, <2>1, <2>5 DEF Silent
<1> QED
  BY <1>3, <1>4, <1>5, <1>6, <1>7 DEF Library

\* The page registers: nothing is settled, and what is registered waits, if it may come about.
LEMMA CallAddIs ==
    ASSUME DeferredInv, NEW d \in Deferreds, NEW o \in Outcomes, NEW cs \in Registrations, CallAdd(d, o, cs)
    PROVE  /\ Moves /\ Keeps /\ ran' = ran /\ cs \in Seq(Callbacks)
           /\ cancelled[d][o] => Waiting' = Waiting /\ added' = added
           /\ ~cancelled[d][o] => /\ Waiting' = [Waiting EXCEPT ![d][o] = @ \o cs]
                                  /\ added' = [added EXCEPT ![d][o] = @ \o cs]
<1> DEFINE new == [n \in DOMAIN cs |-> User(cs[n])]
<1>1. cs \in Seq(Callbacks) /\ new \in Seq(Callback) /\ UserOnly(new) = cs
  BY UserOnlyUsers, Distinct DEF DeferredInv
<1>2. Add(d, o, new, stack) /\ ran' = ran
  BY DEF CallAdd
<1> HIDE DEF new
<1>3. /\ cancelled[d][o] => Waiting' = Waiting /\ added' = added
      /\ ~cancelled[d][o] => /\ Waiting' = [Waiting EXCEPT ![d][o] = @ \o UserOnly(new)]
                             /\ added' = [added EXCEPT ![d][o] = @ \o UserOnly(new)]
  <2>1. /\ cancelled[d][o] => Waiting' = Waiting /\ added' = added
        /\ ~cancelled[d][o] =>
              /\ Waiting' = [Waiting EXCEPT ![d][o] = @ \o UserOnly(new)]
              /\ added' = [added EXCEPT ![d][o] = @ \o UserOnly(new)]
    BY <1>1, <1>2, WaitingAdd, SMTT(60)
  <2> QED
    BY <2>1, Zenon
<1> QED
  BY <1>1, <1>2, <1>3, CallAddMoves

\* A function is called: the first that waits, with what the deferred is settled with.
LEMMA RunUserIs ==
    ASSUME DeferredInv, NEW c \in Callbacks, RunUser(c)
    PROVE  LET d == top.d
               o == top.o
           IN  /\ Moves /\ Keeps /\ d \in Deferreds /\ o \in Outcomes
               /\ outcome[d] = [way |-> o, value |-> top.value]
               /\ Waiting[d][o] # <<>> /\ Head(Waiting[d][o]) = c
               /\ Waiting[d][o] = <<c>> \o Waiting'[d][o] /\ Waiting'[d][o] \in Seq(Callbacks)
               /\ Waiting' = [Waiting EXCEPT ![d][o] = Tail(@)]
               /\ ran' = [ran EXCEPT ![d][o] = Append(@, [callback |-> c, value |-> top.value])]
               /\ added' = added /\ top.value \in Results
<1>1. /\ Loop /\ callbacks[top.d][top.o] # <<>> /\ Head(callbacks[top.d][top.o]) = User(c)
      /\ callbacks' = [callbacks EXCEPT ![top.d][top.o] = Tail(@)]
      /\ ran' = [ran EXCEPT ![top.d][top.o] = Append(@, [callback |-> c, value |-> top.value])]
      /\ added' = added
  BY DEF RunUser, Heads, Shifted
<1>2. /\ top.d \in Deferreds /\ top.o \in Outcomes /\ top.value \in Results
      /\ Has(stack, top.d, top.o, top.value)
  BY <1>1, TopFires DEF Loop
<1>3. outcome[top.d] = [way |-> top.o, value |-> top.value]
  BY <1>2, OutcomeFits DEF OutcomeIs, FiresWith
<1>4. Head(callbacks[top.d][top.o]).is = "user" /\ Head(callbacks[top.d][top.o]).n = c
  BY <1>1 DEF User
<1>5. /\ Waiting[top.d][top.o] = <<c>> \o Waiting'[top.d][top.o]
      /\ Waiting[top.d][top.o] # <<>> /\ Head(Waiting[top.d][top.o]) = c
      /\ Waiting' = [Waiting EXCEPT ![top.d][top.o] = Tail(@)]
      /\ Waiting'[top.d][top.o] \in Seq(Callbacks)
  BY <1>1, <1>2, <1>4, WaitingShift
<1> QED
  BY <1>1, <1>2, <1>3, <1>5, RunUserMoves

\* The other list is cancelled: what waits there is dropped.
LEMMA RunCancelIs ==
    ASSUME DeferredInv, RunCancel
    PROVE  LET d == top.d
               other == Other(top.o)
           IN  /\ Keeps /\ d \in Deferreds /\ other \in Outcomes
               /\ outcome[d] = [way |-> top.o, value |-> top.value] /\ other # top.o /\ outcome[d] # None
               /\ Waiting' = [Waiting EXCEPT ![d][other] = <<>>]
               /\ cancelled'[d][other]
               /\ \A e \in Deferreds, w \in Outcomes : cancelled[e][w] => cancelled'[e][w]
               /\ added' = added /\ ran' = ran
<1> DEFINE d == top.d
           o == top.o
           other == Other(top.o)
<1>1. /\ Loop /\ callbacks[d][o] # <<>> /\ Head(callbacks[d][o]) = Cancel
      /\ callbacks' = [Shifted EXCEPT ![d][other] = <<>>]
      /\ cancelled' = [cancelled EXCEPT ![d][other] = TRUE]
      /\ added' = added /\ ran' = ran
  BY DEF RunCancel, Heads, history
<1>2. /\ d \in Deferreds /\ o \in Outcomes /\ other \in Outcomes /\ other # o
      /\ top.value \in Results /\ Has(stack, d, o, top.value) /\ Settled(d, o)
  BY <1>1, TopFires, OthersAre DEF Loop
<1>3. outcome[d] = [way |-> o, value |-> top.value]
  BY <1>2, OutcomeFits DEF OutcomeIs, FiresWith
<1>4. outcome[d] # None
  <2>1. [way |-> o, value |-> top.value] \in [way : Outcomes, value : Values \union Arrays]
    BY <1>2 DEF Results
  <2>2. None \notin [way : Outcomes, value : Values \union Arrays]
    BY DEF DeferredInv, DeferredConstants
  <2> QED
    BY <1>3, <2>1, <2>2, Zenon
<1>5. /\ cancelled'[d][other]
      /\ \A e \in Deferreds, w \in Outcomes : cancelled[e][w] => cancelled'[e][w]
  <2> HIDE DEF d, other
  <2> QED
    BY <1>1, <1>2, Zenon DEF DeferredInv, Typed, ListsOK, Lists
<1>6. Waiting' = [Waiting EXCEPT ![d][other] = <<>>]
  <2>1. callbacks \in Lists(Seq(Callback)) /\ callbacks[d][o] \in Seq(Callback)
        /\ Shifted = [callbacks EXCEPT ![d][o] = Tail(@)]
    BY <1>2 DEF DeferredInv, Typed, ListsOK, Shifted, Lists
  <2> HIDE DEF d, o, other
  <2>2. UserOnly(callbacks[d][o]) = UserOnly(Tail(callbacks[d][o]))
    <3>1. Head(callbacks[d][o]).is # "user"
      BY <1>1 DEF Cancel
    <3> QED
      BY <1>1, <2>1, <3>1, UserOnlyTail
  <2>3. \A e \in Deferreds, w \in Outcomes :
           Shifted[e][w] = IF e = d /\ w = o THEN Tail(callbacks[d][o]) ELSE callbacks[e][w]
    BY <1>2, <2>1 DEF Lists
  <2>4. \A e \in Deferreds, w \in Outcomes :
           callbacks'[e][w] = IF e = d /\ w = other THEN <<>> ELSE Shifted[e][w]
    BY <1>1, <1>2, <2>1 DEF Lists
  <2>5. \A e \in Deferreds, w \in Outcomes :
           UserOnly(callbacks'[e][w]) = IF e = d /\ w = other THEN <<>> ELSE UserOnly(callbacks[e][w])
    BY <2>2, <2>3, <2>4, UserOnlyEmpty
  <2>6. Waiting' = [e \in Deferreds |-> [w \in Outcomes |-> IF e = d /\ w = other THEN <<>> ELSE UserOnly(callbacks[e][w])]]
    BY <2>5 DEF Waiting
  <2>7. [Waiting EXCEPT ![d][other] = <<>>]
        = [e \in Deferreds |-> [w \in Outcomes |-> IF e = d /\ w = other THEN <<>> ELSE UserOnly(callbacks[e][w])]]
    BY <1>2 DEF Waiting
  <2> QED
    BY <2>6, <2>7
<1> QED
  BY <1>1, <1>2, <1>3, <1>4, <1>5, <1>6, RunCancelKeeps

\* Every step is silent, or one of the three that concern the functions of the page.
LEMMA StepIs ==
    ASSUME DeferredInv, Next
    PROVE  \/ Silent
           \/ \E d \in Deferreds, o \in Outcomes, cs \in Registrations : CallAdd(d, o, cs)
           \/ \E c \in Callbacks : RunUser(c)
           \/ RunCancel
<1>1. CASE Page
  BY <1>1, SilentPage DEF Page
<1>2. CASE Library
  BY <1>2, SilentLibrary
<1> QED
  BY <1>1, <1>2 DEF Next

-----------------------------------------------------------------------------
(* None is forgotten.                                                          *)

Called(d, o) == [n \in DOMAIN ran[d][o] |-> ran[d][o][n].callback]

LEMMA CalledTyped ==
    ASSUME Typed, NEW d \in Deferreds, NEW o \in Outcomes
    PROVE  Called(d, o) \in Seq(Callbacks) /\ Len(Called(d, o)) = Len(ran[d][o])
<1>1. ran[d][o] \in Seq([callback : Callbacks, value : Results])
  BY DEF Typed, HistoryOK, Lists
<1>2. DOMAIN ran[d][o] = 1..Len(ran[d][o]) /\ Len(ran[d][o]) \in Nat
      /\ \A n \in 1..Len(ran[d][o]) : ran[d][o][n].callback \in Callbacks
  <2>1. ASSUME NEW n \in 1..Len(ran[d][o]) PROVE ran[d][o][n] \in [callback : Callbacks, value : Results]
    <3> DEFINE calls == [callback : Callbacks, value : Results]
    <3>1. ran[d][o] \in Seq(calls)
      BY <1>1
    <3> HIDE DEF calls
    <3>2. ran[d][o][n] \in calls
      BY <2>1, <3>1
    <3> QED
      BY <3>2 DEF calls
  <2>2. \A call \in [callback : Callbacks, value : Results] : call.callback \in Callbacks
    OBVIOUS
  <2>3. DOMAIN ran[d][o] = 1..Len(ran[d][o]) /\ Len(ran[d][o]) \in Nat
    BY <1>1
  <2> QED
    BY <2>1, <2>2, <2>3
<1>3. Called(d, o) = [n \in 1..Len(ran[d][o]) |-> ran[d][o][n].callback]
  BY <1>2 DEF Called
<1>4. Called(d, o) \in [1..Len(ran[d][o]) -> Callbacks]
  BY <1>2, <1>3
<1> HIDE DEF Called
<1> QED
  BY <1>2, <1>4

LEMMA CalledAppend ==
    ASSUME Typed, NEW d \in Deferreds, NEW o \in Outcomes, NEW c \in Callbacks, NEW v \in Results,
           ran' = [ran EXCEPT ![d][o] = Append(@, [callback |-> c, value |-> v])]
    PROVE  /\ Called(d, o)' = Called(d, o) \o <<c>>
           /\ \A e \in Deferreds, w \in Outcomes : e # d \/ w # o => Called(e, w)' = Called(e, w)
<1>1. ran \in Lists(Seq([callback : Callbacks, value : Results]))
  BY DEF Typed, HistoryOK
<1>2. /\ ran'[d][o] = Append(ran[d][o], [callback |-> c, value |-> v])
      /\ \A e \in Deferreds, w \in Outcomes : e # d \/ w # o => ran'[e][w] = ran[e][w]
  BY <1>1 DEF Lists
<1>3. ran[d][o] \in Seq([callback : Callbacks, value : Results])
  BY <1>1 DEF Lists
<1>4. Called(d, o)' = [n \in 1..(Len(ran[d][o]) + 1) |-> IF n = Len(ran[d][o]) + 1 THEN c ELSE ran[d][o][n].callback]
  <2>1. [callback |-> c, value |-> v] \in [callback : Callbacks, value : Results]
    OBVIOUS
  <2>2. /\ DOMAIN ran'[d][o] = 1..(Len(ran[d][o]) + 1)
        /\ \A n \in 1..(Len(ran[d][o]) + 1) :
              ran'[d][o][n].callback = IF n = Len(ran[d][o]) + 1 THEN c ELSE ran[d][o][n].callback
    BY <1>2, <1>3, <2>1
  <2> QED
    BY <2>2 DEF Called
<1>5. Called(d, o) \o <<c>>
      = [n \in 1..(Len(ran[d][o]) + 1) |-> IF n = Len(ran[d][o]) + 1 THEN c ELSE ran[d][o][n].callback]
  <2>1. Called(d, o) \in Seq(Callbacks) /\ Len(Called(d, o)) = Len(ran[d][o]) /\ Len(ran[d][o]) \in Nat
    BY <1>3, CalledTyped
  <2>2. \A n \in 1..Len(ran[d][o]) : Called(d, o)[n] = ran[d][o][n].callback
    BY <1>3 DEF Called
  <2> HIDE DEF Called
  <2>3. Called(d, o) \o <<c>>
        = [n \in 1..(Len(ran[d][o]) + 1) |-> IF n <= Len(ran[d][o]) THEN Called(d, o)[n] ELSE c]
    BY <2>1
  <2> QED
    BY <2>1, <2>2, <2>3
<1>6. \A e \in Deferreds, w \in Outcomes : e # d \/ w # o => Called(e, w)' = Called(e, w)
  BY <1>2 DEF Called
<1> QED
  BY <1>4, <1>5, <1>6

\* Of one list that is not cancelled: what was accepted is what was called and what waits.
KeptOf(d, o) == added[d][o] = Called(d, o) \o Waiting[d][o]

Kept == \A d \in Deferreds, o \in Outcomes : ~cancelled[d][o] => KeptOf(d, o)

LEMMA ForgottenIs == NoneForgotten <=> Kept
<1>1. \A d \in Deferreds, o \in Outcomes :
         KeptOf(d, o) <=> added[d][o] = [n \in DOMAIN ran[d][o] |-> ran[d][o][n].callback] \o UserOnly(callbacks[d][o])
  BY Zenon DEF KeptOf, Called, Waiting
<1> QED
  BY <1>1, Zenon DEF NoneForgotten, Kept

LEMMA ForgottenIsNext == NoneForgotten' <=> Kept'
  BY ForgottenIs, PTL

LEMMA KeptStep == DeferredInv /\ NoneForgotten /\ [Next]_vars => NoneForgotten'
<1> SUFFICES ASSUME DeferredInv, NoneForgotten, [Next]_vars,
                    NEW e \in Deferreds, NEW w \in Outcomes, ~cancelled'[e][w]
             PROVE  KeptOf(e, w)'
  BY ForgottenIsNext DEF Kept
<1>1. ~cancelled[e][w] => KeptOf(e, w)
  BY ForgottenIs DEF Kept
<1>2. added \in Lists(Seq(Callbacks)) /\ Waiting \in Lists(Seq(Callbacks)) /\ Called(e, w) \in Seq(Callbacks)
  <2>1. added \in Lists(Seq(Callbacks)) /\ Called(e, w) \in Seq(Callbacks)
    BY CalledTyped DEF DeferredInv, Typed, HistoryOK
  <2>2. \A d \in Deferreds, o \in Outcomes : UserOnly(callbacks[d][o]) \in Seq(Callbacks)
    BY UserOnlyType DEF DeferredInv, Typed, ListsOK, Lists
  <2> QED
    BY <2>1, <2>2 DEF Lists, Waiting
<1>3. CASE Silent \/ UNCHANGED vars
  <2>1. Waiting' = Waiting /\ added' = added /\ ran' = ran /\ cancelled' = cancelled
    BY <1>3 DEF Silent, Moves, vars, lists, history, Waiting
  <2> QED
    BY <1>1, <2>1 DEF KeptOf, Called
<1>4. ASSUME NEW d \in Deferreds, NEW o \in Outcomes, NEW cs \in Registrations, CallAdd(d, o, cs)
      PROVE  KeptOf(e, w)'
  <2>1. /\ cancelled' = cancelled /\ ran' = ran /\ cs \in Seq(Callbacks)
        /\ cancelled[d][o] => Waiting' = Waiting /\ added' = added
        /\ ~cancelled[d][o] => /\ Waiting' = [Waiting EXCEPT ![d][o] = @ \o cs]
                               /\ added' = [added EXCEPT ![d][o] = @ \o cs]
    BY <1>4, CallAddIs DEF Moves
  <2>2. KeptOf(e, w) /\ Called(e, w)' = Called(e, w)
    BY <1>1, <2>1 DEF Called
  <2>3. CASE cancelled[d][o]
    BY <2>1, <2>2, <2>3 DEF KeptOf
  <2>4. CASE ~cancelled[d][o] /\ (e # d \/ w # o)
    <3>1. added'[e][w] = added[e][w] /\ Waiting'[e][w] = Waiting[e][w]
      BY <1>2, <2>1, <2>4 DEF Lists
    <3> QED
      BY <2>2, <3>1 DEF KeptOf
  <2>5. CASE ~cancelled[d][o] /\ e = d /\ w = o
    <3>1. added'[e][w] = added[e][w] \o cs /\ Waiting'[e][w] = Waiting[e][w] \o cs
      BY <1>2, <2>1, <2>5 DEF Lists
    <3>2. Waiting[e][w] \in Seq(Callbacks)
      BY <1>2 DEF Lists
    <3>3. (Called(e, w) \o Waiting[e][w]) \o cs = Called(e, w) \o (Waiting[e][w] \o cs)
      BY <1>2, <2>1, <3>2, CallbacksConcat, Zenon
    <3> QED
      BY <2>2, <3>1, <3>3 DEF KeptOf
  <2> QED
    BY <2>3, <2>4, <2>5
<1>5. ASSUME NEW c \in Callbacks, RunUser(c) PROVE KeptOf(e, w)'
  <2>1. PICK d \in Deferreds, o \in Outcomes, v \in Results :
           /\ cancelled' = cancelled /\ added' = added
           /\ Waiting[d][o] = <<c>> \o Waiting'[d][o] /\ Waiting'[d][o] \in Seq(Callbacks)
           /\ Waiting' = [Waiting EXCEPT ![d][o] = Tail(@)]
           /\ ran' = [ran EXCEPT ![d][o] = Append(@, [callback |-> c, value |-> v])]
    <3> DEFINE d == top.d
               o == top.o
               v == top.value
    <3>1. /\ d \in Deferreds /\ o \in Outcomes /\ v \in Results /\ cancelled' = cancelled /\ added' = added
          /\ Waiting[d][o] = <<c>> \o Waiting'[d][o] /\ Waiting'[d][o] \in Seq(Callbacks)
          /\ Waiting' = [Waiting EXCEPT ![d][o] = Tail(@)]
          /\ ran' = [ran EXCEPT ![d][o] = Append(@, [callback |-> c, value |-> v])]
      BY <1>5, RunUserIs DEF Moves
    <3> HIDE DEF d, o, v
    <3> QED
      BY <3>1
  <2>2. /\ Called(d, o)' = Called(d, o) \o <<c>>
        /\ e # d \/ w # o => Called(e, w)' = Called(e, w)
    <3>1. Typed
      BY DEF DeferredInv
    <3> QED
      BY <2>1, <3>1, CalledAppend, ZenonT(90)
  <2>3. KeptOf(e, w)
    BY <1>1, <2>1
  <2>4. CASE e # d \/ w # o
    <3>1. Waiting'[e][w] = Waiting[e][w]
      BY <1>2, <2>1, <2>4 DEF Lists
    <3> QED
      BY <2>1, <2>2, <2>3, <2>4, <3>1 DEF KeptOf
  <2>5. CASE e = d /\ w = o
    <3>1. (Called(d, o) \o <<c>>) \o Waiting'[d][o] = Called(d, o) \o (<<c>> \o Waiting'[d][o])
      <4>1. <<c>> \in Seq(Callbacks) /\ Called(d, o) \in Seq(Callbacks)
        BY <1>2, <2>5
      <4> QED
        BY <2>1, <4>1, CallbacksConcat, Zenon
    <3>2. /\ KeptOf(d, o)' <=> added'[d][o] = Called(d, o)' \o Waiting'[d][o]
          /\ KeptOf(d, o) => added[d][o] = Called(d, o) \o Waiting[d][o]
      BY Zenon DEF KeptOf
    <3>3. KeptOf(d, o)'
      BY <2>1, <2>2, <2>3, <2>5, <3>1, <3>2
    <3> QED
      BY <2>5, <3>3
  <2> QED
    BY <2>4, <2>5
<1>6. CASE RunCancel
  <2> DEFINE d == top.d
             other == Other(top.o)
  <2>1. /\ d \in Deferreds /\ other \in Outcomes /\ added' = added /\ ran' = ran
        /\ Waiting' = [Waiting EXCEPT ![d][other] = <<>>] /\ cancelled'[d][other]
        /\ cancelled[e][w] => cancelled'[e][w]
    BY <1>6, RunCancelIs
  <2> HIDE DEF d, other
  <2>2. Waiting'[e][w] = Waiting[e][w]
    BY <1>2, <2>1 DEF Lists
  <2> QED
    BY <1>1, <2>1, <2>2 DEF KeptOf, Called
<1> QED
  BY <1>3, <1>4, <1>5, <1>6, StepIs

\* A callback that throws takes none with it for good: in every behaviour what a list has
\* accepted has been called or is still in it, in that order, until the list is cancelled.
THEOREM AllKept == ASSUME DeferredConstants PROVE Spec => []NoneForgotten
<1>1. Init => NoneForgotten
  <2>1. ASSUME Init, NEW d \in Deferreds, NEW o \in Outcomes PROVE KeptOf(d, o)
    <3>1. added[d][o] = <<>> /\ ran[d][o] = <<>> /\ callbacks[d][o] = <<Cancel>>
      BY <2>1 DEF Init, Each, Built
    <3>2. Cancel \in Callback /\ Cancel.is # "user"
      BY DEF Cancel, Callback
    <3>3. UserOnly(<<Cancel>>) = <<>>
      BY <3>2, UserOnlyOne, Zenon
    <3>4. Called(d, o) = <<>> /\ Waiting[d][o] = <<>>
      BY <3>1, <3>3 DEF Called, Waiting
    <3> QED
      BY <3>1, <3>4 DEF KeptOf
  <2> QED
    BY <2>1, ForgottenIs DEF Kept
<1>2. Init => DeferredInv
  BY DeferredInit
<1> QED
  BY <1>1, <1>2, DeferredStep, KeptStep, PTL DEF Spec

-----------------------------------------------------------------------------
(* The deferreds implement the promise: outcome, Waiting and ran are its variables. *)

LEMMA FitPromised == \A d, o : Fit(d, o) \subseteq Values \union Arrays
  BY DEF Fit

LEMMA PromisedSettle ==
    ASSUME NEW d \in Deferreds, NEW o \in Outcomes, NEW v \in Values \union Arrays, outcome[d] = None,
           outcome' = [outcome EXCEPT ![d] = [way |-> o, value |-> v]], Waiting' = Waiting, ran' = ran
    PROVE  Promised!Next
<1>1. Promised!Settle(d, o, v)
  BY DEF Promised!Settle, Waiting
<1> QED
  BY <1>1 DEF Promised!Next

LEMMA PromisedRegister ==
    ASSUME NEW d \in Deferreds, NEW o \in Outcomes, NEW cs \in Registrations,
           Waiting' = [Waiting EXCEPT ![d][o] = @ \o cs], outcome' = outcome, ran' = ran
    PROVE  Promised!Next
<1>1. Promised!Register(d, o, cs)
  BY DEF Promised!Register, Waiting
<1> QED
  BY <1>1 DEF Promised!Next

LEMMA PromisedDrop ==
    ASSUME NEW d \in Deferreds, NEW o \in Outcomes, outcome[d] # None, outcome[d].way # o,
           Waiting' = [Waiting EXCEPT ![d][o] = <<>>], outcome' = outcome, ran' = ran
    PROVE  Promised!Next
<1>1. Promised!Drop(d, o)
  BY DEF Promised!Drop, Waiting
<1> QED
  BY <1>1 DEF Promised!Next

LEMMA PromisedCall ==
    ASSUME NEW d \in Deferreds, outcome[d] # None, NEW o \in Outcomes, outcome[d].way = o,
           Waiting[d][o] # <<>>, Waiting' = [Waiting EXCEPT ![d][o] = Tail(@)],
           ran' = [ran EXCEPT ![d][o] =
                      Append(@, [callback |-> Head(Waiting[d][o]), value |-> outcome[d].value])],
           outcome' = outcome
    PROVE  Promised!Next
<1>1. Promised!CallNext(d)
  BY DEF Promised!CallNext, Waiting
<1> QED
  BY <1>1 DEF Promised!Next

LEMMA PromisedStays ==
    ASSUME outcome' = outcome, Waiting' = Waiting, ran' = ran PROVE UNCHANGED Promised!vars
  BY DEF Promised!vars, Waiting

LEMMA PromisedInit == DeferredInv /\ Init => Promised!Init
<1> SUFFICES ASSUME DeferredInv, Init PROVE Promised!Init
  OBVIOUS
<1>1. outcome = [d \in Deferreds |-> None]
  <2>1. \A d \in Deferreds, o \in Outcomes : ~Settled(d, o)
    BY DEF Init, Settled, Each
  <2> QED
    BY <2>1, Zenon DEF outcome
<1>2. UserOnly(<<Cancel>>) = <<>>
  <2>1. Cancel \in Callback /\ Cancel.is # "user"
    BY DEF Cancel, Callback
  <2> QED
    BY <2>1, UserOnlyOne, Zenon
<1>3. \A d \in Deferreds, o \in Outcomes : callbacks[d][o] = <<Cancel>>
  BY DEF Init, Each, Built
<1>4. Waiting = [d \in Deferreds |-> [o \in Outcomes |-> <<>>]]
  BY <1>2, <1>3 DEF Waiting
<1>5. ran = [d \in Deferreds |-> [o \in Outcomes |-> <<>>]]
  BY DEF Init, Each
<1> QED
  BY <1>1, <1>4, <1>5 DEF Promised!Init, Waiting

LEMMA PromiseStep == DeferredInv /\ DeferredInv' /\ [Next]_vars => [Promised!Next]_(Promised!vars)
<1> SUFFICES ASSUME DeferredInv, DeferredInv', [Next]_vars
             PROVE  Promised!Next \/ UNCHANGED Promised!vars
  OBVIOUS
<1>1. CASE Silent
  <2>1. CASE Keeps
    BY <1>1, <2>1, OutcomeKeeps, PromisedStays DEF Silent
  <2>2. ASSUME NEW d \in Deferreds, NEW o \in Outcomes, NEW v \in Fit(d, o), Begins(d, o, v)
        PROVE  Promised!Next
    <3>1. v \in Values \union Arrays
      BY FitPromised
    <3>2. outcome[d] = None /\ outcome' = [outcome EXCEPT ![d] = [way |-> o, value |-> v]]
      BY <2>2, OutcomeBegins
    <3>3. Waiting' = Waiting /\ ran' = ran
      BY <1>1 DEF Silent
    <3> QED
      BY <3>1, <3>2, <3>3, PromisedSettle
  <2> QED
    BY <1>1, <2>1, <2>2 DEF Silent, Settling
<1>2. ASSUME NEW d \in Deferreds, NEW o \in Outcomes, NEW cs \in Registrations, CallAdd(d, o, cs)
      PROVE  Promised!Next \/ UNCHANGED Promised!vars
  <2>1. /\ Keeps /\ ran' = ran
        /\ cancelled[d][o] => Waiting' = Waiting
        /\ ~cancelled[d][o] => Waiting' = [Waiting EXCEPT ![d][o] = @ \o cs]
    BY <1>2, CallAddIs
  <2>2. outcome' = outcome
    BY <2>1, OutcomeKeeps
  <2>3. CASE cancelled[d][o]
    BY <2>1, <2>2, <2>3, PromisedStays
  <2>4. CASE ~cancelled[d][o]
    BY <2>1, <2>2, <2>4, PromisedRegister
  <2> QED
    BY <2>3, <2>4
<1>3. ASSUME NEW c \in Callbacks, RunUser(c) PROVE Promised!Next
  <2> DEFINE d == top.d
             o == top.o
             v == top.value
  <2>1. /\ Keeps /\ d \in Deferreds /\ o \in Outcomes /\ v \in Results
        /\ outcome[d] = [way |-> o, value |-> v]
        /\ Waiting[d][o] # <<>> /\ Head(Waiting[d][o]) = c
        /\ Waiting' = [Waiting EXCEPT ![d][o] = Tail(@)]
        /\ ran' = [ran EXCEPT ![d][o] = Append(@, [callback |-> c, value |-> v])]
    BY <1>3, RunUserIs
  <2> HIDE DEF d, o, v
  <2>2. outcome' = outcome
    BY <2>1, OutcomeKeeps
  <2>3. outcome[d] # None /\ outcome[d].way = o /\ outcome[d].value = v
    <3>1. [way |-> o, value |-> v] \in [way : Outcomes, value : Values \union Arrays]
      BY <2>1 DEF Results
    <3>2. None \notin [way : Outcomes, value : Values \union Arrays]
      BY DEF DeferredInv, DeferredConstants
    <3>3. outcome[d] # None
      BY <2>1, <3>1, <3>2, Zenon
    <3> QED
      BY <2>1, <3>3
  <2> QED
    BY <2>1, <2>2, <2>3, PromisedCall
<1>4. CASE RunCancel
  <2> DEFINE d == top.d
             o == top.o
             other == Other(top.o)
             v == top.value
  <2>1. /\ Keeps /\ d \in Deferreds /\ other \in Outcomes
        /\ outcome[d] = [way |-> o, value |-> v] /\ other # o /\ outcome[d] # None
        /\ Waiting' = [Waiting EXCEPT ![d][other] = <<>>] /\ ran' = ran
    BY <1>4, RunCancelIs
  <2> HIDE DEF d, o, other, v
  <2>2. outcome' = outcome
    BY <2>1, OutcomeKeeps
  <2>3. outcome[d].way # other
    BY <2>1
  <2> QED
    BY <2>1, <2>2, <2>3, PromisedDrop
<1>5. CASE UNCHANGED vars
  <2>1. UNCHANGED <<callbacks, fired, firing, stack, ran>>
    BY <1>5 DEF vars, lists, history
  <2>2. outcome' = outcome
    BY <2>1 DEF outcome, Settled, ValueOf
  <2> QED
    BY <2>1, <2>2, PromisedStays DEF Waiting
<1> QED
  BY <1>1, <1>2, <1>3, <1>4, <1>5, StepIs

\* However callbacks call the deferreds again, nested in each other or throwing: every
\* behaviour is one of the promise, in which a deferred is settled once, one way, with one
\* value, and every callback is called at most once, with that value, in the order of
\* registration, and none for the other outcome.
THEOREM DeferredImplementsPromise == ASSUME DeferredConstants PROVE Spec => ImplementsPromise
<1>1. Init => DeferredInv
  BY DeferredInit
<1>2. Init => Promised!Init
  BY <1>1, PromisedInit
<1> QED
  BY <1>1, <1>2, DeferredStep, PromiseStep, PTL DEF Spec, ImplementsPromise, Promised!Spec

-----------------------------------------------------------------------------
(* jQuery.when: where its loop is, and what is still to be told.               *)

\* x is in the list s, and at most once.
In(s, x) == \E i \in DOMAIN s : s[i] = x

Once(s, x) == \A i, j \in DOMAIN s : s[i] = x /\ s[j] = x => i = j

\* The arguments that the loop of jQuery.when has still to come to; those where it has hung its
\* callback for done, or counted a plain value; those where it has hung both.
Ahead(n) ==
    \E m \in DOMAIN stack : stack[m].is = "when" /\ (n < stack[m].n \/ (n = stack[m].n /\ stack[m].half = "done"))

Passed(n) ==
    \/ promise = "yes"
    \/ \E m \in DOMAIN stack : stack[m].is = "when" /\ (stack[m].n < n \/ (n = stack[m].n /\ stack[m].half = "fail"))

Gone(n) == promise = "yes" \/ \E m \in DOMAIN stack : stack[m].is = "when" /\ stack[m].n < n

Hung(n)    == In(callbacks[args[n]]["done"], Part(n))
Rejects(n) == In(callbacks[args[n]]["fail"], Reject)

MasterSettled == \E o \in Outcomes, v \in Results : FiresWith(Master, o, v)

\* Parts hang where the loop has been, once, and are there until they are called or cancelled.
HangsRight ==
    \A n \in DOMAIN args : args[n] \in Parts =>
        /\ Once(callbacks[args[n]]["done"], Part(n))
        /\ Ahead(n) => ~Hung(n)
        /\ Gone(n) => Rejects(n) \/ cancelled[args[n]]["fail"] \/ MasterSettled

\* The place of n has what its argument is settled with, or is.
Fills(n, v) == IF args[n] \in Parts THEN v[n] \in Results /\ FiresWith(args[n], "done", v[n]) ELSE v[n] = args[n]

\* count is how many have still to tell: all but U have their value in the array.
Untold(U) ==
    /\ count = Cardinality(U)
    /\ \A n \in DOMAIN args :
          /\ args[n] \notin Parts \/ n \notin U => Fills(n, array)
          /\ Ahead(n) \/ (args[n] \in Parts /\ Hung(n)) => n \in U
          /\ Passed(n) /\ n \in U => args[n] \in Parts /\ (Hung(n) \/ cancelled[args[n]]["done"])

DoneAsAll ==
    \A v \in Results : FiresWith(Master, "done", v) => \A n \in DOMAIN args : Fills(n, v)

FailedAsOne ==
    \A v \in Results : FiresWith(Master, "fail", v) =>
        \E n \in DOMAIN args : args[n] \in Parts /\ FiresWith(args[n], "fail", v)

WhenInv ==
    /\ HangsRight
    /\ \E U \in SUBSET (DOMAIN args) : Untold(U)
    /\ DoneAsAll /\ FailedAsOne
    /\ promise = "no" => ~MasterSettled
    /\ promise = "yes" /\ count = 0 => MasterSettled

\* What two lists have, their concatenation has.
LEMMA InConcat ==
    ASSUME NEW S, NEW s \in Seq(S), NEW t \in Seq(S), NEW x
    PROVE  /\ In(s \o t, x) <=> In(s, x) \/ In(t, x)
           /\ Once(s, x) /\ ~In(t, x) => Once(s \o t, x)
           /\ ~In(s, x) /\ Once(t, x) => Once(s \o t, x)
<1> DEFINE u == s \o t
<1>1. /\ Len(s) \in Nat /\ Len(t) \in Nat /\ DOMAIN s = 1..Len(s) /\ DOMAIN t = 1..Len(t)
      /\ DOMAIN u = 1..(Len(s) + Len(t))
      /\ \A i \in 1..Len(s) : u[i] = s[i]
      /\ \A i \in 1..Len(t) : u[Len(s) + i] = t[i]
  <2>1. u \in Seq(S) /\ Len(u) = Len(s) + Len(t)
    BY ConcatProperties
  <2>2. \A i \in 1..Len(s) : u[i] = s[i]
    BY ConcatProperties
  <2>3. \A i \in 1..Len(t) : u[Len(s) + i] = t[i]
    OBVIOUS
  <2>4. Len(s) \in Nat /\ Len(t) \in Nat /\ DOMAIN s = 1..Len(s) /\ DOMAIN t = 1..Len(t)
    OBVIOUS
  <2> HIDE DEF u
  <2> QED
    BY <2>1, <2>2, <2>3, <2>4
<1> HIDE DEF u
<1>2. \A i \in 1..(Len(s) + Len(t)) : i \in 1..Len(s) \/ \E k \in 1..Len(t) : i = Len(s) + k
  <2>1. \A i \in 1..(Len(s) + Len(t)) : i \in 1..Len(s) \/ (i - Len(s) \in 1..Len(t) /\ i = Len(s) + (i - Len(s)))
    BY <1>1
  <2> QED
    BY <2>1
<1>3. \A i \in 1..Len(s) : i \in 1..(Len(s) + Len(t))
  BY <1>1
<1>4. \A i \in 1..Len(t) : Len(s) + i \in 1..(Len(s) + Len(t))
  BY <1>1
<1>5. In(u, x) <=> In(s, x) \/ In(t, x)
  <2>1. ASSUME NEW i \in DOMAIN u, u[i] = x PROVE In(s, x) \/ In(t, x)
    <3>1. CASE i \in 1..Len(s)
      BY <1>1, <2>1, <3>1 DEF In
    <3>2. ASSUME NEW k \in 1..Len(t), i = Len(s) + k PROVE In(t, x)
      BY <1>1, <2>1, <3>2 DEF In
    <3> QED
      BY <1>1, <1>2, <2>1, <3>1, <3>2
  <2>2. ASSUME NEW i \in DOMAIN s, s[i] = x PROVE In(u, x)
    BY <1>1, <1>3, <2>2 DEF In
  <2>3. ASSUME NEW i \in DOMAIN t, t[i] = x PROVE In(u, x)
    BY <1>1, <1>4, <2>3 DEF In
  <2> QED
    BY <2>1, <2>2, <2>3, Zenon DEF In
<1>6. ASSUME Once(s, x), ~In(t, x) PROVE Once(u, x)
  <2>1. \A i \in DOMAIN u : u[i] = x => i \in 1..Len(s) /\ s[i] = x
    <3> SUFFICES ASSUME NEW i \in DOMAIN u, u[i] = x PROVE i \in 1..Len(s) /\ s[i] = x
      OBVIOUS
    <3>1. ASSUME NEW k \in 1..Len(t), i = Len(s) + k PROVE FALSE
      BY <1>1, <1>6, <3>1 DEF In
    <3> QED
      BY <1>1, <1>2, <3>1
  <2> QED
    BY <1>1, <1>6, <2>1, Zenon DEF Once
<1>7. ASSUME ~In(s, x), Once(t, x) PROVE Once(u, x)
  <2>1. \A i \in DOMAIN u : u[i] = x => \E k \in 1..Len(t) : i = Len(s) + k /\ t[k] = x
    <3> SUFFICES ASSUME NEW i \in DOMAIN u, u[i] = x PROVE \E k \in 1..Len(t) : i = Len(s) + k /\ t[k] = x
      OBVIOUS
    <3>1. i \notin 1..Len(s)
      BY <1>1, <1>7 DEF In
    <3>2. PICK k \in 1..Len(t) : i = Len(s) + k
      BY <1>1, <1>2, <3>1
    <3> QED
      BY <1>1, <3>2
  <2>2. ASSUME NEW i \in DOMAIN u, NEW j \in DOMAIN u, u[i] = x, u[j] = x PROVE i = j
    <3>1. PICK k \in 1..Len(t) : i = Len(s) + k /\ t[k] = x
      BY <2>1, <2>2
    <3>2. PICK m \in 1..Len(t) : j = Len(s) + m /\ t[m] = x
      BY <2>1, <2>2
    <3>3. k = m
      BY <1>1, <1>7, <3>1, <3>2 DEF Once
    <3> QED
      BY <3>1, <3>2, <3>3
  <2> QED
    BY <2>2 DEF Once
<1> QED
  BY <1>5, <1>6, <1>7 DEF u

LEMMA InOne == \A x, y : (In(<<y>>, x) <=> x = y) /\ Once(<<y>>, x)
  BY DEF In, Once

LEMMA InEmpty == \A x : ~In(<<>>, x) /\ Once(<<>>, x)
  BY DEF In, Once

\* What a list has, when its first is taken.
LEMMA InTail ==
    ASSUME NEW S, NEW s \in Seq(S), s # <<>>, NEW x
    PROVE  /\ In(s, x) <=> Head(s) = x \/ In(Tail(s), x)
           /\ Once(s, x) => Once(Tail(s), x) /\ (Head(s) = x => ~In(Tail(s), x))
<1>1. /\ Len(s) \in Nat /\ Len(s) > 0 /\ DOMAIN s = 1..Len(s) /\ Head(s) = s[1]
      /\ DOMAIN Tail(s) = 1..(Len(s) - 1)
      /\ \A i \in 1..(Len(s) - 1) : Tail(s)[i] = s[i + 1]
  <2>1. Len(s) \in Nat /\ Len(s) > 0 /\ DOMAIN s = 1..Len(s)
    OBVIOUS
  <2>2. Head(s) = s[1] /\ Tail(s) \in Seq(S) /\ Len(Tail(s)) = Len(s) - 1
    BY HeadTailProperties
  <2>3. \A i \in 1..Len(Tail(s)) : Tail(s)[i] = s[i + 1]
    BY HeadTailProperties
  <2> QED
    BY <2>1, <2>2, <2>3
<1> DEFINE t == Tail(s)
<1> HIDE DEF t
<1>2. /\ 1 \in 1..Len(s)
      /\ \A i \in 1..(Len(s) - 1) : i + 1 \in 1..Len(s) /\ i + 1 # 1
      /\ \A i \in 1..Len(s) : i = 1 \/ \E k \in 1..(Len(s) - 1) : i = k + 1
      /\ \A i, k \in 1..(Len(s) - 1) : i + 1 = k + 1 => i = k
  <2>1. \A i \in 1..Len(s) : i = 1 \/ (i - 1 \in 1..(Len(s) - 1) /\ i = (i - 1) + 1)
    BY <1>1
  <2>2. \A i \in 1..Len(s) : i = 1 \/ \E k \in 1..(Len(s) - 1) : i = k + 1
    BY <2>1
  <2> QED
    BY <1>1, <2>2
<1>3. In(s, x) <=> Head(s) = x \/ In(t, x)
  <2>1. ASSUME NEW i \in DOMAIN s, s[i] = x, Head(s) # x PROVE In(t, x)
    <3>1. PICK k \in 1..(Len(s) - 1) : i = k + 1
      BY <1>1, <1>2, <2>1
    <3>2. t[k] = x /\ k \in DOMAIN t
      BY <1>1, <2>1, <3>1 DEF t
    <3> QED
      BY <3>2, Zenon DEF In
  <2>2. ASSUME NEW k \in DOMAIN t, t[k] = x PROVE In(s, x)
    <3>1. k + 1 \in DOMAIN s /\ s[k + 1] = x
      BY <1>1, <1>2, <2>2 DEF t
    <3> QED
      BY <3>1, Zenon DEF In
  <2>3. Head(s) = x => In(s, x)
    BY <1>1, <1>2, Zenon DEF In
  <2> QED
    BY <2>1, <2>2, <2>3, Zenon DEF In
<1>4. ASSUME Once(s, x) PROVE Once(t, x) /\ (Head(s) = x => ~In(t, x))
  <2>1. \A k \in DOMAIN t : k + 1 \in DOMAIN s /\ k + 1 # 1 /\ s[k + 1] = t[k]
    BY <1>1, <1>2 DEF t
  <2>2. ASSUME NEW i \in DOMAIN t, NEW k \in DOMAIN t, t[i] = x, t[k] = x PROVE i = k
    <3>1. i + 1 = k + 1
      BY <1>4, <2>1, <2>2, Zenon DEF Once
    <3> QED
      BY <1>1, <1>2, <2>2, <3>1 DEF t
  <2>3. ASSUME Head(s) = x, NEW k \in DOMAIN t, t[k] = x PROVE FALSE
    BY <1>1, <1>2, <1>4, <2>1, <2>3, Zenon DEF Once
  <2> QED
    BY <2>2, <2>3, Zenon DEF Once, In
<1> QED
  BY <1>3, <1>4 DEF t

\* What t has of jQuery.when, s has.
SubWhens(s, t) == \A f : f.is = "when" /\ In(t, f) => In(s, f)

LEMMA InAppend ==
    ASSUME NEW F, NEW s \in Seq(F), NEW f, NEW g
    PROVE  In(Append(s, f), g) <=> In(s, g) \/ f = g
<1>1. s \in Seq(F \union {f}) /\ <<f>> \in Seq(F \union {f})
  BY SeqMonotonic
<1>2. Append(s, f) = s \o <<f>>
  BY AppendIsConcat
<1>3. In(s \o <<f>>, g) <=> In(s, g) \/ In(<<f>>, g)
  BY <1>1, InConcat
<1> QED
  BY <1>2, <1>3, InOne

LEMMA WhensPushed ==
    ASSUME NEW F, NEW s \in Seq(F), NEW f, f.is # "when"
    PROVE  SubWhens(s, Append(s, f))
<1>1. \A g : In(Append(s, f), g) => In(s, g) \/ f = g
  BY InAppend
<1> QED
  BY <1>1, Zenon DEF SubWhens

LEMMA WhensKept ==
    ASSUME NEW F, NEW s \in Seq(F), NEW depth \in 0..Len(s)
    PROVE  SubWhens(s, SubSeq(s, 1, depth))
<1> DEFINE t == SubSeq(s, 1, depth)
<1>1. t \in Seq(F) /\ Len(t) = depth /\ \A n \in 1..depth : t[n] = s[n]
  BY UnwindingPlaces
<1>2. DOMAIN t = 1..depth /\ \A n \in 1..depth : n \in DOMAIN s
  <2>1. DOMAIN t = 1..Len(t) /\ DOMAIN s = 1..Len(s) /\ Len(s) \in Nat
    BY <1>1
  <2> QED
    BY <1>1, <2>1
<1> HIDE DEF t
<1>3. SubWhens(s, t)
  BY <1>1, <1>2, Zenon DEF SubWhens, In
<1> QED
  BY <1>3 DEF t

LEMMA WhensFront ==
    ASSUME NEW F, NEW s \in Seq(F), s # <<>>
    PROVE  SubWhens(s, Front(s))
<1>1. /\ DOMAIN s = 1..Len(s) /\ Len(s) \in Nat /\ DOMAIN Front(s) = 1..(Len(s) - 1)
      /\ \A n \in 1..(Len(s) - 1) : Front(s)[n] = s[n]
  BY FrontLast
<1>2. \A n \in 1..(Len(s) - 1) : n \in 1..Len(s)
  BY <1>1
<1> QED
  BY <1>1, <1>2, Zenon DEF SubWhens, In

LEMMA WhensFollow ==
    \A s, t, u : SubWhens(s, t) /\ SubWhens(t, u) => SubWhens(s, u)
  BY Zenon DEF SubWhens

LEMMA WhensSame == \A s : SubWhens(s, s)
  BY DEF SubWhens

\* Calls into the deferreds put at most a list on the stack.
LEMMA WhensOfCalls ==
    ASSUME NEW F, NEW below \in Seq(F), NEW d, NEW o, NEW x,
           Add(d, o, x, below) \/ Settle(d, o, x, below)
    PROVE  SubWhens(below, stack')
<1>1. stack' = below \/ \E v : stack' = Append(below, Firing(d, o, v))
  BY DEF Add, Settle
<1>2. \A v : Firing(d, o, v).is # "when"
  BY DEF Firing
<1> QED
  BY <1>1, <1>2, WhensPushed, WhensSame

\* The places of the loop, when no call of jQuery.when is new.
LEMMA AheadStays ==
    ASSUME SubWhens(stack, stack'), promise' = "yes" => promise = "yes"
    PROVE  \A n : (Ahead(n)' => Ahead(n)) /\ (Passed(n)' => Passed(n)) /\ (Gone(n)' => Gone(n))
<1>1. \A m \in DOMAIN stack' : stack'[m].is = "when" => \E k \in DOMAIN stack : stack[k] = stack'[m]
  BY Zenon DEF SubWhens, In
<1>2. ASSUME NEW n PROVE Ahead(n)' => Ahead(n)
  BY <1>1 DEF Ahead
<1>3. ASSUME NEW n PROVE Passed(n)' => Passed(n)
  BY <1>1 DEF Passed
<1>4. ASSUME NEW n PROVE Gone(n)' => Gone(n)
  BY <1>1 DEF Gone
<1> QED
  BY <1>2, <1>3, <1>4

\* The loop of jQuery.when is at the top.
LEMMA AheadOfTop ==
    ASSUME DeferredInv, stack # <<>>, top.is = "when"
    PROVE  \A n : /\ n < top.n \/ (n = top.n /\ top.half = "done") => Ahead(n)
                  /\ top.n < n \/ (n = top.n /\ top.half = "fail") => Passed(n)
                  /\ top.n < n => Gone(n)
<1>1. Len(stack) \in DOMAIN stack /\ stack[Len(stack)] = top
  BY FrontLast DEF top, DeferredInv, Typed, StackOK
<1> QED
  BY <1>1, Zenon DEF Ahead, Passed, Gone

\* It goes on: the only call of jQuery.when is now at k.
OnlyWhen(s, k, half) == \A f : f.is = "when" /\ In(s, f) => f.n = k /\ f.half = half

LEMMA OnlyWhenIs ==
    ASSUME DeferredInv, stack # <<>>, top.is = "when", NEW k, NEW half,
           NEW t, SubWhens(Append(rest, When(k, half)), t)
    PROVE  OnlyWhen(t, k, half)
<1>1. rest \in Seq(Frame) /\ Whenless(rest)
  BY TopTyped DEF DeferredInv, Typed
<1>2. \A f : f.is = "when" => ~In(rest, f)
  BY <1>1, Zenon DEF Whenless, In
<1>3. \A f : In(Append(rest, When(k, half)), f) <=> In(rest, f) \/ When(k, half) = f
  BY <1>1, InAppend
<1>4. When(k, half).n = k /\ When(k, half).half = half
  BY DEF When
<1> QED
  BY <1>2, <1>3, <1>4, Zenon DEF OnlyWhen, SubWhens

\* The places of the loop after a step to k.
LEMMA AheadOfOnly ==
    ASSUME NEW k, NEW half, OnlyWhen(stack', k, half), promise' # "yes"
    PROVE  \A n : /\ Ahead(n)' => n < k \/ (n = k /\ half = "done")
                  /\ Passed(n)' => k < n \/ (n = k /\ half = "fail")
                  /\ Gone(n)' => k < n
<1>1. \A m \in DOMAIN stack' : stack'[m].is = "when" => stack'[m].n = k /\ stack'[m].half = half
  BY Zenon DEF OnlyWhen, In
<1>2. ASSUME NEW n PROVE Ahead(n)' => n < k \/ (n = k /\ half = "done")
  BY <1>1, Zenon DEF Ahead
<1>3. ASSUME NEW n PROVE Passed(n)' => k < n \/ (n = k /\ half = "fail")
  BY <1>1, Zenon DEF Passed
<1>4. ASSUME NEW n PROVE Gone(n)' => k < n
  BY <1>1, Zenon DEF Gone
<1> QED
  BY <1>2, <1>3, <1>4

-----------------------------------------------------------------------------
(* What a step does to what hangs and to what is settled.                      *)

\* A step leaves what jQuery.when has hung as it is, but for a list that is cancelled.
HangsOn ==
    \A d \in Deferreds, o \in Outcomes :
        /\ cancelled[d][o] => cancelled'[d][o]
        /\ \A c : c.is \in {"part", "reject"} =>
              /\ In(callbacks'[d][o], c) => In(callbacks[d][o], c)
              /\ In(callbacks[d][o], c) => In(callbacks'[d][o], c) \/ cancelled'[d][o]
              /\ Once(callbacks[d][o], c) => Once(callbacks'[d][o], c)

LEMMA HangsSame == UNCHANGED <<callbacks, cancelled>> => HangsOn
  BY DEF HangsOn

\* What is added to a list.
LEMMA HangsMore ==
    ASSUME DeferredInv, NEW d \in Deferreds, NEW o \in Outcomes, NEW new \in Seq(Callback), NEW below,
           Add(d, o, new, below)
    PROVE  /\ cancelled' = cancelled
           /\ \A e \in Deferreds, w \in Outcomes : \A c :
                 /\ In(callbacks'[e][w], c) <=> \/ In(callbacks[e][w], c)
                                                \/ e = d /\ w = o /\ ~cancelled[d][o] /\ In(new, c)
                 /\ (e # d \/ w # o \/ ~In(new, c)) /\ Once(callbacks[e][w], c) => Once(callbacks'[e][w], c)
                 /\ ~In(callbacks[e][w], c) /\ Once(new, c) => Once(callbacks'[e][w], c)
<1>1. CASE cancelled[d][o]
  <2>1. UNCHANGED <<callbacks, cancelled>>
    BY <1>1 DEF Add, lists
  <2>2. \A e \in Deferreds, w \in Outcomes : \A c : ~In(callbacks[e][w], c) => Once(callbacks[e][w], c)
    BY Zenon DEF In, Once
  <2> QED
    BY <1>1, <2>1, <2>2
<1>2. CASE ~cancelled[d][o]
  <2>1. callbacks' = [callbacks EXCEPT ![d][o] = @ \o new] /\ cancelled' = cancelled
    BY <1>2, Zenon DEF Add
  <2>2. callbacks \in Lists(Seq(Callback)) /\ callbacks[d][o] \in Seq(Callback)
    BY DEF DeferredInv, Typed, ListsOK, Lists
  <2>3. \A e \in Deferreds, w \in Outcomes :
           callbacks'[e][w] = IF e = d /\ w = o THEN callbacks[d][o] \o new ELSE callbacks[e][w]
    BY <2>1, <2>2 DEF Lists
  <2>4. \A c : /\ In(callbacks[d][o] \o new, c) <=> In(callbacks[d][o], c) \/ In(new, c)
               /\ Once(callbacks[d][o], c) /\ ~In(new, c) => Once(callbacks[d][o] \o new, c)
               /\ ~In(callbacks[d][o], c) /\ Once(new, c) => Once(callbacks[d][o] \o new, c)
    BY <2>2, InConcat
  <2>5. \A e \in Deferreds, w \in Outcomes : \A c : ~In(callbacks[e][w], c) => Once(callbacks[e][w], c)
    BY Zenon DEF In, Once
  <2>6. ASSUME NEW e \in Deferreds, NEW w \in Outcomes, NEW c
        PROVE  /\ In(callbacks'[e][w], c) <=> \/ In(callbacks[e][w], c)
                                              \/ e = d /\ w = o /\ ~cancelled[d][o] /\ In(new, c)
               /\ (e # d \/ w # o \/ ~In(new, c)) /\ Once(callbacks[e][w], c) => Once(callbacks'[e][w], c)
               /\ ~In(callbacks[e][w], c) /\ Once(new, c) => Once(callbacks'[e][w], c)
    <3>1. CASE e = d /\ w = o
      BY <1>2, <2>3, <2>4, <3>1
    <3>2. CASE e # d \/ w # o
      <4>1. callbacks'[e][w] = callbacks[e][w]
        BY <2>3, <3>2
      <4> QED
        BY <2>5, <3>2, <4>1
    <3> QED
      BY <3>1, <3>2
  <2> QED
    BY <2>1, <2>6
<1> QED
  BY <1>1, <1>2

LEMMA HangsUsers ==
    ASSUME DeferredInv, NEW d \in Deferreds, NEW o \in Outcomes, NEW cs \in Registrations, CallAdd(d, o, cs)
    PROVE  HangsOn
<1> DEFINE new == [n \in DOMAIN cs |-> User(cs[n])]
<1>1. new \in Seq(Callback) /\ Add(d, o, new, stack)
  BY UserOnlyUsers, Distinct DEF DeferredInv, CallAdd
<1>2. ASSUME NEW c, c.is \in {"part", "reject"} PROVE ~In(new, c)
  <2>1. \A n \in DOMAIN new : new[n].is = "user"
    BY DEF User
  <2> QED
    BY <1>2, <2>1 DEF In
<1> HIDE DEF new
<1> QED
  BY <1>1, <1>2, HangsMore DEF HangsOn

\* The first of a list is taken.
LEMMA HangsFewer ==
    ASSUME DeferredInv, Loop, callbacks[top.d][top.o] # <<>>, callbacks' = Shifted, cancelled' = cancelled
    PROVE  \A e \in Deferreds, w \in Outcomes : \A c :
              /\ In(callbacks'[e][w], c) => In(callbacks[e][w], c)
              /\ In(callbacks[e][w], c) =>
                    \/ In(callbacks'[e][w], c)
                    \/ e = top.d /\ w = top.o /\ Head(callbacks[e][w]) = c
              /\ Once(callbacks[e][w], c) =>
                    /\ Once(callbacks'[e][w], c)
                    /\ e = top.d /\ w = top.o /\ Head(callbacks[e][w]) = c => ~In(callbacks'[e][w], c)
<1>1. top.d \in Deferreds /\ top.o \in Outcomes
  BY TopFires DEF Loop
<1> DEFINE d == top.d
           o == top.o
<1>2. callbacks \in Lists(Seq(Callback)) /\ callbacks[d][o] \in Seq(Callback)
  BY <1>1 DEF DeferredInv, Typed, ListsOK, Lists
<1>3. \A e \in Deferreds, w \in Outcomes :
         callbacks'[e][w] = IF e = d /\ w = o THEN Tail(callbacks[d][o]) ELSE callbacks[e][w]
  BY <1>1, <1>2 DEF Lists, Shifted
<1>4. \A c : /\ In(callbacks[d][o], c) <=> Head(callbacks[d][o]) = c \/ In(Tail(callbacks[d][o]), c)
             /\ Once(callbacks[d][o], c) =>
                   /\ Once(Tail(callbacks[d][o]), c)
                   /\ Head(callbacks[d][o]) = c => ~In(Tail(callbacks[d][o]), c)
  BY <1>2, InTail
<1> HIDE DEF d, o
<1>5. ASSUME NEW e \in Deferreds, NEW w \in Outcomes, NEW c
      PROVE  /\ In(callbacks'[e][w], c) => In(callbacks[e][w], c)
             /\ In(callbacks[e][w], c) => In(callbacks'[e][w], c) \/ (e = d /\ w = o /\ Head(callbacks[e][w]) = c)
             /\ Once(callbacks[e][w], c) =>
                   /\ Once(callbacks'[e][w], c)
                   /\ e = d /\ w = o /\ Head(callbacks[e][w]) = c => ~In(callbacks'[e][w], c)
  <2>1. CASE e = d /\ w = o
    BY <1>3, <1>4, <2>1
  <2>2. CASE e # d \/ w # o
    BY <1>3, <2>2
  <2> QED
    BY <2>1, <2>2
<1> QED
  BY <1>5, Zenon DEF d, o

LEMMA HangsShift ==
    ASSUME DeferredInv, Loop, callbacks[top.d][top.o] # <<>>, callbacks' = Shifted, cancelled' = cancelled,
           Head(callbacks[top.d][top.o]).is \notin {"part", "reject"}
    PROVE  HangsOn
  BY HangsFewer DEF HangsOn

LEMMA HangsCancel == DeferredInv /\ RunCancel => HangsOn
<1> SUFFICES ASSUME DeferredInv, RunCancel PROVE HangsOn
  OBVIOUS
<1> DEFINE d == top.d
           o == top.o
           other == Other(top.o)
<1>1. /\ Loop /\ callbacks[d][o] # <<>> /\ Head(callbacks[d][o]).is = "cancel"
      /\ callbacks' = [Shifted EXCEPT ![d][other] = <<>>]
      /\ cancelled' = [cancelled EXCEPT ![d][other] = TRUE]
  BY DEF RunCancel, Heads, Cancel
<1>2. d \in Deferreds /\ o \in Outcomes /\ other \in Outcomes /\ other # o
  BY <1>1, TopFires, OthersAre DEF Loop
<1>3. callbacks \in Lists(Seq(Callback)) /\ callbacks[d][o] \in Seq(Callback) /\ cancelled \in Lists(BOOLEAN)
      /\ Shifted = [callbacks EXCEPT ![d][o] = Tail(@)]
  BY <1>2 DEF DeferredInv, Typed, ListsOK, Lists, Shifted
<1>4. \A c : c.is \in {"part", "reject"} =>
         /\ In(callbacks[d][o], c) <=> In(Tail(callbacks[d][o]), c)
         /\ Once(callbacks[d][o], c) => Once(Tail(callbacks[d][o]), c)
  <2>1. \A c : /\ In(callbacks[d][o], c) <=> Head(callbacks[d][o]) = c \/ In(Tail(callbacks[d][o]), c)
               /\ Once(callbacks[d][o], c) => Once(Tail(callbacks[d][o]), c)
    BY <1>1, <1>3, InTail
  <2> QED
    BY <1>1, <2>1
<1> HIDE DEF d, o, other
<1>5. \A e \in Deferreds, w \in Outcomes :
         /\ callbacks'[e][w] = IF e = d /\ w = other THEN <<>>
                               ELSE IF e = d /\ w = o THEN Tail(callbacks[d][o]) ELSE callbacks[e][w]
         /\ cancelled'[e][w] = IF e = d /\ w = other THEN TRUE ELSE cancelled[e][w]
  BY <1>1, <1>2, <1>3 DEF Lists
<1>6. ASSUME NEW e \in Deferreds, NEW w \in Outcomes
      PROVE  /\ cancelled[e][w] => cancelled'[e][w]
             /\ \A c : c.is \in {"part", "reject"} =>
                   /\ In(callbacks'[e][w], c) => In(callbacks[e][w], c)
                   /\ In(callbacks[e][w], c) => In(callbacks'[e][w], c) \/ cancelled'[e][w]
                   /\ Once(callbacks[e][w], c) => Once(callbacks'[e][w], c)
  <2>1. CASE e = d /\ w = other
    BY <1>5, <2>1, InEmpty
  <2>2. CASE e = d /\ w = o
    <3>1. callbacks'[d][o] = Tail(callbacks[d][o]) /\ cancelled'[d][o] = cancelled[d][o]
      BY <1>2, <1>5
    <3> QED
      BY <1>4, <2>2, <3>1
  <2>3. CASE e # d \/ (w # o /\ w # other)
    BY <1>5, <2>3
  <2> QED
    BY <2>1, <2>2, <2>3
<1> QED
  BY <1>6, Zenon DEF HangsOn

\* What is settled stays so.
Grow == \A d \in Deferreds, o \in Outcomes, v \in Results : FiresWith(d, o, v) => FiresWith(d, o, v)'

\* The deferred of jQuery.when is not settled by this step.
MasterStays == \A o \in Outcomes, v \in Results : FiresWith(Master, o, v)' => FiresWith(Master, o, v)

\* What the steps do to what is settled.
LEMMA KeepsGrow == Keeps => Grow /\ MasterStays
<1>1. Master \in Deferreds
  BY DEF Deferreds
<1> QED
  BY <1>1 DEF Keeps, Grow, MasterStays

LEMMA BeginsGrow ==
    ASSUME NEW d, NEW o, NEW v, Begins(d, o, v)
    PROVE  /\ Grow /\ (d # Master => MasterStays)
           /\ d = Master => \A w \in Outcomes, x \in Results :
                 FiresWith(Master, w, x)' => FiresWith(Master, w, x) \/ (w = o /\ x = v)
<1>1. Master \in Deferreds
  BY DEF Deferreds
<1> QED
  BY <1>1 DEF Begins, Grow, MasterStays

\* What the places are filled with stays.
LEMMA FillsStay ==
    ASSUME Grow, args' = args, \A n \in DOMAIN args : args[n] \in Parts => "done" \in Outcomes
    PROVE  \A n \in DOMAIN args : \A v : Fills(n, v) => Fills(n, v)'
<1>1. Results' = Results /\ Parts \subseteq Deferreds /\ "done" \in Outcomes
  BY DEF Results, Arrays, Deferreds, Outcomes
<1> QED
  BY <1>1 DEF Fills, Grow

LEMMA MasterSettledStays == Grow /\ MasterSettled => MasterSettled'
<1>1. Results' = Results /\ Master \in Deferreds
  BY DEF Results, Arrays, Deferreds
<1> QED
  BY <1>1 DEF Grow, MasterSettled

\* jQuery.when has not settled its deferred in this step, or rightly.
LEMMA ResultsStay ==
    ASSUME WhenInv, Grow, args' = args,
           \A v \in Results : FiresWith(Master, "done", v)' =>
              FiresWith(Master, "done", v) \/ \A n \in DOMAIN args : Fills(n, v),
           \A v \in Results : FiresWith(Master, "fail", v)' =>
              FiresWith(Master, "fail", v) \/ \E n \in DOMAIN args : args[n] \in Parts /\ FiresWith(args[n], "fail", v)
    PROVE  DoneAsAll' /\ FailedAsOne'
<1>1. Results' = Results /\ Parts \subseteq Deferreds /\ "done" \in Outcomes /\ "fail" \in Outcomes
  BY DEF Results, Arrays, Deferreds, Outcomes
<1>2. \A n \in DOMAIN args : \A v : Fills(n, v) => Fills(n, v)'
  BY <1>1, FillsStay
<1>3. ASSUME NEW v \in Results, FiresWith(Master, "done", v)', NEW n \in DOMAIN args PROVE Fills(n, v)'
  BY <1>2, <1>3 DEF WhenInv, DoneAsAll
<1>4. ASSUME NEW v \in Results, FiresWith(Master, "fail", v)'
      PROVE  (\E n \in DOMAIN args : args[n] \in Parts /\ FiresWith(args[n], "fail", v))'
  <2>1. PICK n \in DOMAIN args : args[n] \in Parts /\ FiresWith(args[n], "fail", v)
    BY <1>4 DEF WhenInv, FailedAsOne
  <2>2. FiresWith(args[n], "fail", v)'
    BY <1>1, <2>1 DEF Grow
  <2> QED
    BY <2>1, <2>2
<1>5. DoneAsAll'
  <2>1. ASSUME NEW v \in Results, FiresWith(Master, "done", v)'
        PROVE  (\A n \in DOMAIN args : Fills(n, v))'
    BY <1>3, <2>1
  <2> QED
    BY <1>1, <2>1 DEF DoneAsAll
<1>6. FailedAsOne'
  BY <1>1, <1>4 DEF FailedAsOne
<1> QED
  BY <1>5, <1>6

\* What hangs stays, and nothing but that.
LEMMA HangsRightStays ==
    ASSUME WhenInv, HangsOn, Grow, SubWhens(stack, stack'), promise' = "yes" => promise = "yes", args' = args
    PROVE  HangsRight'
<1>1. \A n : (Ahead(n)' => Ahead(n)) /\ (Gone(n)' => Gone(n))
  BY AheadStays
<1>2. MasterSettled => MasterSettled'
  BY MasterSettledStays
<1> SUFFICES ASSUME NEW n \in DOMAIN args, args[n] \in Parts
             PROVE  /\ Once(callbacks'[args[n]]["done"], Part(n))
                    /\ Ahead(n)' => ~Hung(n)'
                    /\ Gone(n)' => Rejects(n)' \/ cancelled'[args[n]]["fail"] \/ MasterSettled'
  BY DEF HangsRight
<1>3. args[n] \in Deferreds /\ "done" \in Outcomes /\ "fail" \in Outcomes
  BY DEF Deferreds, Outcomes
<1>4. /\ Once(callbacks[args[n]]["done"], Part(n))
      /\ Ahead(n) => ~Hung(n)
      /\ Gone(n) => Rejects(n) \/ cancelled[args[n]]["fail"] \/ MasterSettled
  BY DEF WhenInv, HangsRight
<1>5. Part(n).is = "part" /\ Reject.is = "reject"
  BY DEF Part, Reject
<1>6. /\ Once(callbacks'[args[n]]["done"], Part(n))
      /\ Hung(n)' => Hung(n)
      /\ Rejects(n) => Rejects(n)' \/ cancelled'[args[n]]["fail"]
      /\ cancelled[args[n]]["fail"] => cancelled'[args[n]]["fail"]
  BY <1>3, <1>4, <1>5 DEF HangsOn, Hung, Rejects
<1> QED
  BY <1>1, <1>2, <1>4, <1>6

\* Who has still to tell stays so.
LEMMA UntoldStays ==
    ASSUME HangsOn, Grow, SubWhens(stack, stack'), promise' = "yes" => promise = "yes",
           UNCHANGED <<args, array, count>>, NEW U, Untold(U)
    PROVE  Untold(U)'
<1>1. \A n : (Ahead(n)' => Ahead(n)) /\ (Passed(n)' => Passed(n))
  BY AheadStays
<1>2. \A n \in DOMAIN args : \A v : Fills(n, v) => Fills(n, v)'
  BY FillsStay DEF Outcomes
<1>3. ASSUME NEW n \in DOMAIN args, args[n] \in Parts
      PROVE  /\ Hung(n)' => Hung(n)
             /\ Hung(n) => Hung(n)' \/ cancelled'[args[n]]["done"]
             /\ cancelled[args[n]]["done"] => cancelled'[args[n]]["done"]
  <2>1. args[n] \in Deferreds /\ "done" \in Outcomes
    BY <1>3 DEF Deferreds, Outcomes
  <2>2. Part(n).is = "part"
    BY DEF Part
  <2> QED
    BY <2>1, <2>2 DEF HangsOn, Hung
<1>4. ASSUME NEW n \in DOMAIN args
      PROVE  /\ args[n] \notin Parts \/ n \notin U => Fills(n, array)'
             /\ Ahead(n)' \/ (args[n] \in Parts /\ Hung(n)') => n \in U
             /\ Passed(n)' /\ n \in U => args[n] \in Parts /\ (Hung(n)' \/ cancelled'[args[n]]["done"])
  <2>1. Fills(n, array) => Fills(n, array)'
    <3>1. \A v : v = array => (Fills(n, v)' <=> Fills(n, array)')
      BY DEF Fills
    <3> QED
      BY <1>2, <3>1
  <2>2. /\ args[n] \notin Parts \/ n \notin U => Fills(n, array)
        /\ Ahead(n) \/ (args[n] \in Parts /\ Hung(n)) => n \in U
        /\ Passed(n) /\ n \in U => args[n] \in Parts /\ (Hung(n) \/ cancelled[args[n]]["done"])
    BY DEF Untold
  <2> QED
    BY <1>1, <1>3, <2>1, <2>2
<1> QED
  BY <1>4 DEF Untold

\* Steps that do not concern jQuery.when.
LEMMA WhenStays ==
    ASSUME WhenInv, HangsOn, Grow, MasterStays, SubWhens(stack, stack'),
           UNCHANGED <<args, array, count>>, promise' \in {promise, "lost"}
    PROVE  WhenInv'
<1>1. promise' = "yes" => promise = "yes"
  OBVIOUS
<1>2. HangsRight'
  BY <1>1, HangsRightStays
<1>3. \E U \in SUBSET (DOMAIN args') : Untold(U)'
  <2>1. PICK U \in SUBSET (DOMAIN args) : Untold(U)
    BY DEF WhenInv
  <2> QED
    BY <1>1, <2>1, UntoldStays
<1>4. DoneAsAll' /\ FailedAsOne'
  BY ResultsStay DEF MasterStays, Outcomes
<1>5. MasterSettled => MasterSettled'
  BY MasterSettledStays
<1>6. MasterSettled' => MasterSettled
  <2>1. Results' = Results
    BY DEF Results, Arrays
  <2> QED
    BY <2>1 DEF MasterSettled, MasterStays
<1>7. /\ promise' = "no" => ~MasterSettled'
      /\ promise' = "yes" /\ count' = 0 => MasterSettled'
  BY <1>1, <1>5, <1>6 DEF WhenInv
<1> QED
  BY <1>2, <1>3, <1>4, <1>7 DEF WhenInv

-----------------------------------------------------------------------------
(* The steps.                                                                  *)

\* After a step after which the right things hang.
LEMMA WhenRest ==
    ASSUME WhenInv, Grow, args' = args, promise' # "no",
           \A v \in Results : FiresWith(Master, "done", v)' =>
              FiresWith(Master, "done", v) \/ \A n \in DOMAIN args : Fills(n, v),
           \A v \in Results : FiresWith(Master, "fail", v)' =>
              FiresWith(Master, "fail", v) \/ \E n \in DOMAIN args : args[n] \in Parts /\ FiresWith(args[n], "fail", v),
           HangsRight', NEW U \in SUBSET (DOMAIN args), Untold(U)',
           promise' = "yes" /\ count' = 0 => MasterSettled'
    PROVE  WhenInv'
<1>1. DoneAsAll' /\ FailedAsOne'
  BY ResultsStay
<1>2. \E V \in SUBSET (DOMAIN args') : Untold(V)'
  OBVIOUS
<1> QED
  BY <1>1, <1>2 DEF WhenInv

\* The steps that do not concern jQuery.when.
LEMMA WhenPage ==
    ASSUME DeferredInv, WhenInv,
           \/ \E d \in Deferreds, o \in Outcomes, cs \in Registrations : CallAdd(d, o, cs)
           \/ \E d \in Parts, o \in Outcomes, v \in Values : CallSettle(d, o, v)
           \/ Return
           \/ \E depth \in 0..Len(stack) - 1 : Throw(depth)
    PROVE  WhenInv'
<1>1. stack \in Seq(Frame)
  BY AlikeSelf
<1>2. ASSUME NEW d \in Deferreds, NEW o \in Outcomes, NEW cs \in Registrations, CallAdd(d, o, cs)
      PROVE  WhenInv'
  <2>1. SubWhens(stack, stack') /\ UNCHANGED <<args, array, count, promise>>
    BY <1>1, <1>2, WhensOfCalls DEF CallAdd, locals
  <2>2. Grow /\ MasterStays /\ HangsOn
    BY <1>2, CallAddMoves, KeepsGrow, HangsUsers
  <2> QED
    BY <2>1, <2>2, WhenStays
<1>3. ASSUME NEW d \in Parts, NEW o \in Outcomes, NEW v \in Values, CallSettle(d, o, v)
      PROVE  WhenInv'
  <2>1. /\ PageRuns /\ Settle(d, o, v, stack) /\ UNCHANGED <<callbacks, fired, cancelled>>
        /\ UNCHANGED <<args, array, count, promise>>
    BY <1>3 DEF CallSettle, locals
  <2>2. v \in Fit(d, o) /\ d \in Deferreds /\ d # Master
    BY DEF Fit, Deferreds, DeferredInv, DeferredConstants
  <2>3. Keeps \/ Begins(d, o, v)
    BY <2>1, <2>2, AlikeSelf, SettleBegins DEF DeferredInv, Typed, Frame
  <2>4. Grow /\ MasterStays /\ HangsOn
    BY <2>1, <2>2, <2>3, KeepsGrow, BeginsGrow, HangsSame
  <2>5. SubWhens(stack, stack')
    BY <1>1, <2>1, WhensOfCalls
  <2> QED
    BY <2>1, <2>4, <2>5, WhenStays
<1>4. CASE Return
  <2>1. /\ stack # <<>> /\ top.is = "fire" /\ UNCHANGED <<callbacks, cancelled, args, array, count, promise>>
        /\ stack' = Append(rest, [top EXCEPT !.calls = None])
    BY <1>4 DEF Return, PageRuns, lists, locals
  <2>2. [top EXCEPT !.calls = None].is = "fire" /\ rest \in Seq(Frame)
    BY <2>1, TopTyped, FrameExcept DEF DeferredInv, Typed
  <2>3. SubWhens(stack, rest)
    BY <1>1, <2>1, WhensFront DEF rest
  <2>4. SubWhens(rest, stack')
    BY <2>1, <2>2, WhensPushed
  <2>5. Grow /\ MasterStays /\ HangsOn
    BY <1>4, <2>1, ReturnMoves, KeepsGrow, HangsSame
  <2> QED
    BY <2>1, <2>3, <2>4, <2>5, WhensFollow, WhenStays
<1>5. ASSUME NEW depth \in 0..Len(stack) - 1, Throw(depth) PROVE WhenInv'
  <2>1. /\ stack' = SubSeq(stack, 1, depth) /\ UNCHANGED <<callbacks, cancelled, args, array, count>>
        /\ promise' \in {promise, "lost"}
    BY <1>5 DEF Throw
  <2>2. depth \in 0..Len(stack)
    <3>1. Len(stack) \in Nat
      BY <1>1
    <3> QED
      BY <3>1
  <2>3. SubWhens(stack, stack')
    BY <1>1, <2>1, <2>2, WhensKept
  <2>4. Grow /\ MasterStays /\ HangsOn
    BY <1>5, <2>1, ThrowMoves, KeepsGrow, HangsSame
  <2> QED
    BY <2>1, <2>3, <2>4, WhenStays
<1> QED
  BY <1>2, <1>3, <1>4, <1>5

\* The steps of a list that fires which call nothing of jQuery.when.
LEMMA WhenLoop ==
    ASSUME DeferredInv, WhenInv, RunCancel \/ Finish \/ \E c \in Callbacks : RunUser(c)
    PROVE  WhenInv'
<1>1. stack \in Seq(Frame)
  BY AlikeSelf
<1>2. CASE RunCancel
  <2>1. stack' = stack /\ UNCHANGED <<args, array, count, promise>>
    BY <1>2 DEF RunCancel, locals
  <2>2. Grow /\ MasterStays /\ HangsOn /\ SubWhens(stack, stack')
    BY <1>2, <2>1, RunCancelKeeps, KeepsGrow, HangsCancel, WhensSame
  <2> QED
    BY <2>1, <2>2, WhenStays
<1>3. CASE Finish
  <2>1. /\ stack # <<>> /\ stack' = rest /\ UNCHANGED <<callbacks, cancelled, args, array, count, promise>>
    BY <1>3 DEF Finish, Loop, locals
  <2>2. SubWhens(stack, stack')
    BY <1>1, <2>1, WhensFront DEF rest
  <2>3. Grow /\ MasterStays /\ HangsOn
    BY <1>3, <2>1, FinishMoves, KeepsGrow, HangsSame
  <2> QED
    BY <2>1, <2>2, <2>3, WhenStays
<1>4. ASSUME NEW c \in Callbacks, RunUser(c) PROVE WhenInv'
  <2>1. /\ Loop /\ callbacks[top.d][top.o] # <<>> /\ Head(callbacks[top.d][top.o]) = User(c)
        /\ callbacks' = Shifted /\ cancelled' = cancelled
        /\ stack' = Append(rest, [top EXCEPT !.calls = c]) /\ UNCHANGED <<args, array, count, promise>>
    BY <1>4 DEF RunUser, Heads, locals
  <2>2. HangsOn
    BY <2>1, HangsShift DEF User
  <2>3. [top EXCEPT !.calls = c].is = "fire" /\ rest \in Seq(Frame) /\ stack # <<>>
    BY <2>1, TopTyped, FrameExcept DEF DeferredInv, Typed, Loop
  <2>4. SubWhens(stack, rest)
    BY <1>1, <2>3, WhensFront DEF rest
  <2>5. SubWhens(rest, stack')
    BY <2>1, <2>3, WhensPushed
  <2>6. Grow /\ MasterStays
    BY <1>4, RunUserMoves, KeepsGrow
  <2> QED
    BY <2>1, <2>2, <2>4, <2>5, <2>6, WhensFollow, WhenStays
<1> QED
  BY <1>2, <1>3, <1>4

\* Who settles the deferred of jQuery.when finds it settled, now or before.
LEMMA SettleTells ==
    ASSUME DeferredInv, Grow, NEW o \in Outcomes, NEW v \in Fit(Master, o), NEW below \in Seq(Frame),
           Settle(Master, o, v, below)
    PROVE  MasterSettled'
<1>1. Master \in Deferreds /\ Other(o) \in Outcomes /\ v \in Results /\ Results' = Results
  BY OthersAre, FitResults DEF Deferreds, Results, Arrays
<1>2. CASE cancelled[Master][o] \/ fired[Master][o] # None \/ firing[Master][o]
  <2>1. PICK w \in Outcomes : Settled(Master, w)
    BY <1>1, <1>2 DEF DeferredInv, OneWay, Settled
  <2>2. PICK x \in Results : FiresWith(Master, w, x)
    BY <1>1, <2>1, SettledFits DEF DeferredInv, SettledAsFits
  <2>3. FiresWith(Master, w, x)'
    BY <1>1, <2>2 DEF Grow
  <2> QED
    BY <1>1, <2>3 DEF MasterSettled
<1>3. CASE ~(cancelled[Master][o] \/ fired[Master][o] # None \/ firing[Master][o])
  <2>1. stack' = Append(below, Firing(Master, o, v))
    BY <1>3 DEF Settle
  <2> DEFINE f == Firing(Master, o, v)
  <2>2. Len(below) + 1 \in DOMAIN Append(below, f) /\ Append(below, f)[Len(below) + 1] = f
    <3>1. Len(below) \in Nat /\ DOMAIN Append(below, f) = 1..(Len(below) + 1)
          /\ Append(below, f)[Len(below) + 1] = f
      BY AppendProperties
    <3> QED
      BY <3>1
  <2>3. f.is = "fire" /\ f.d = Master /\ f.o = o /\ f.value = v
    BY DEF Firing
  <2> HIDE DEF f
  <2>4. Has(stack', Master, o, v)
    BY <2>1, <2>2, <2>3, Zenon DEF Has, f
  <2>5. FiresWith(Master, o, v)'
    BY <2>4 DEF FiresWith
  <2> QED
    BY <1>1, <2>5 DEF MasterSettled
<1> QED
  BY <1>2, <1>3

\* The places of the arguments.
LEMMA ArgumentsOK ==
    ASSUME DeferredInv
    PROVE  \E k \in Nat : DOMAIN args = 1..k /\ Len(args) = k
<1>1. CASE promise = "no"
  BY <1>1 DEF DeferredInv, Typed, LocalsOK
<1>2. CASE promise # "no"
  BY <1>2, Distinct DEF DeferredInv, Typed, LocalsOK
<1> QED
  BY <1>1, <1>2

\* How many have still to tell, when one tells.
LEMMA OneLess ==
    ASSUME DeferredInv, NEW U \in SUBSET (DOMAIN args), NEW n \in U
    PROVE  /\ Cardinality(U) \in Nat /\ Cardinality(U \ {n}) = Cardinality(U) - 1
           /\ Cardinality(U) = 1 => U = {n}
<1>1. IsFiniteSet(U)
  <2>1. PICK k \in Nat : DOMAIN args = 1..k
    BY ArgumentsOK
  <2>2. IsFiniteSet(1..k)
    BY FS_Interval
  <2> QED
    BY <2>1, <2>2, FS_Subset
<1>2. IsFiniteSet(U \ {n}) /\ Cardinality(U \ {n}) = Cardinality(U) - 1 /\ Cardinality(U) \in Nat
  BY <1>1, FS_RemoveElement, FS_CardinalityType
<1>3. ASSUME Cardinality(U) = 1 PROVE U = {n}
  <2>1. Cardinality(U \ {n}) = 0
    BY <1>2, <1>3
  <2>2. U \ {n} = {}
    BY <1>2, <2>1, FS_EmptySet
  <2> QED
    BY <2>2
<1> QED
  BY <1>2, <1>3

\* What hangs on a list that fires: where it was called with.
LEMMA HeadHangs ==
    ASSUME DeferredInv, Loop, callbacks[top.d][top.o] # <<>>
    PROVE  Head(callbacks[top.d][top.o]) \in Hangs(top.d, top.o)
<1>1. top.d \in Deferreds /\ top.o \in Outcomes
  BY TopFires DEF Loop
<1> QED
  BY <1>1, ShiftTyped DEF DeferredInv, Typed

\* A part that is done tells of it.
LEMMA WhenTold ==
    ASSUME DeferredInv, WhenInv, NEW n \in DOMAIN args, RunPart(n)
    PROVE  WhenInv'
<1>1. /\ Loop /\ callbacks[top.d][top.o] # <<>> /\ Head(callbacks[top.d][top.o]) = Part(n)
      /\ callbacks' = Shifted /\ array' = [array EXCEPT ![n] = top.value] /\ count' = count - 1
      /\ UNCHANGED <<fired, cancelled, promise, args>>
      /\ count = 1 => Settle(Master, "done", array', stack)
      /\ count # 1 => UNCHANGED <<firing, stack>>
  BY DEF RunPart, Heads
<1>2. top.d = args[n] /\ top.o = "done" /\ args[n] \in Parts /\ args[n] \in Deferreds
  <2>1. Part(n) \in Hangs(top.d, top.o)
    BY <1>1, HeadHangs
  <2>2. Part(n).is = "part" /\ Part(n).n = n
    BY DEF Part
  <2> QED
    BY <2>1, <2>2, Zenon DEF Hangs, Deferreds
<1>3. top.value \in Results /\ FiresWith(args[n], "done", top.value)
  BY <1>1, <1>2, TopFires DEF Loop, FiresWith
<1>4. Keeps \/ Begins(Master, "done", array')
  BY RunPartMoves
<1>5. /\ Grow
      /\ \A v \in Results : /\ FiresWith(Master, "done", v)' => FiresWith(Master, "done", v) \/ v = array'
                            /\ FiresWith(Master, "fail", v)' => FiresWith(Master, "fail", v)
  BY <1>4, KeepsGrow, BeginsGrow DEF MasterStays, Outcomes
<1>6. SubWhens(stack, stack')
  BY <1>1, WhensOfCalls, WhensSame, AlikeSelf
<1>7. array \in [DOMAIN args -> Results \union ToSet(args)] /\ promise # "no"
  BY DEF DeferredInv, Typed, LocalsOK, Results
<1>8. array'[n] = top.value /\ \A m \in DOMAIN args : m # n => array'[m] = array[m]
  BY <1>1, <1>7
<1>9. PICK U \in SUBSET (DOMAIN args) : Untold(U)
  BY DEF WhenInv
<1>10. \A m : (Ahead(m)' => Ahead(m)) /\ (Passed(m)' => Passed(m)) /\ (Gone(m)' => Gone(m))
  BY <1>1, <1>6, AheadStays
<1>11. ASSUME NEW m \in DOMAIN args, args[m] \in Parts
       PROVE  /\ Once(callbacks'[args[m]]["done"], Part(m))
              /\ Hung(m)' => Hung(m) /\ m # n
              /\ Hung(m) => Hung(m)' \/ m = n
              /\ Rejects(m) <=> Rejects(m)'
  <2>1. args[m] \in Deferreds /\ "done" \in Outcomes /\ "fail" \in Outcomes
    BY <1>11 DEF Deferreds, Outcomes
  <2>2. Once(callbacks[args[m]]["done"], Part(m))
    BY <1>11 DEF WhenInv, HangsRight
  <2>3. (Part(m) = Part(n) <=> m = n) /\ Part(n) # Reject
    BY DEF Part, Reject
  <2>4. /\ In(callbacks'[args[m]]["done"], Part(m)) => In(callbacks[args[m]]["done"], Part(m))
        /\ In(callbacks[args[m]]["done"], Part(m)) =>
              In(callbacks'[args[m]]["done"], Part(m)) \/ Head(callbacks[top.d][top.o]) = Part(m)
        /\ Once(callbacks'[args[m]]["done"], Part(m))
        /\ args[m] = top.d /\ "done" = top.o /\ Head(callbacks[args[m]]["done"]) = Part(m)
              => ~In(callbacks'[args[m]]["done"], Part(m))
    BY <1>1, <2>1, <2>2, HangsFewer
  <2>5. /\ In(callbacks'[args[m]]["fail"], Reject) => In(callbacks[args[m]]["fail"], Reject)
        /\ In(callbacks[args[m]]["fail"], Reject) =>
              In(callbacks'[args[m]]["fail"], Reject) \/ Head(callbacks[top.d][top.o]) = Reject
    BY <1>1, <2>1, HangsFewer
  <2>6. m = n => ~In(callbacks'[args[m]]["done"], Part(m))
    BY <1>1, <1>2, <2>4
  <2> QED
    BY <1>1, <2>3, <2>4, <2>5, <2>6 DEF Hung, Rejects
<1>12. Hung(n)
  <2>1. callbacks[args[n]]["done"] \in Seq(Callback)
    BY <1>2 DEF DeferredInv, Typed, ListsOK, Lists, Outcomes
  <2>2. In(callbacks[args[n]]["done"], Part(n))
    BY <1>1, <1>2, <2>1, InTail
  <2> QED
    BY <2>2 DEF Hung
<1>13. n \in U
  BY <1>2, <1>9, <1>12 DEF Untold
<1>14. /\ Cardinality(U) \in Nat /\ Cardinality(U \ {n}) = Cardinality(U) - 1
       /\ Cardinality(U) = 1 => U = {n}
  BY <1>13, OneLess
<1>15. \A m \in DOMAIN args : args[m] \notin Parts \/ m \notin U \ {n} => Fills(m, array')
  <2> SUFFICES ASSUME NEW m \in DOMAIN args, args[m] \notin Parts \/ m \notin U \ {n}
               PROVE  Fills(m, array')
    OBVIOUS
  <2>1. CASE m = n
    BY <1>2, <1>3, <1>8, <2>1 DEF Fills
  <2>2. CASE m # n
    <3>1. Fills(m, array)
      BY <1>9, <2>2 DEF Untold
    <3>2. array'[m] = array[m]
      BY <1>8, <2>2
    <3> QED
      BY <3>1, <3>2 DEF Fills
  <2> QED
    BY <2>1, <2>2
<1>16. Untold(U \ {n})'
  <2>1. count' = Cardinality(U \ {n})
    BY <1>1, <1>9, <1>14 DEF Untold
  <2>2. ASSUME NEW m \in DOMAIN args
        PROVE  /\ args[m] \notin Parts \/ m \notin U \ {n} => Fills(m, array)'
               /\ Ahead(m)' \/ (args[m] \in Parts /\ Hung(m)') => m \in U \ {n}
               /\ Passed(m)' /\ m \in U \ {n} => args[m] \in Parts /\ (Hung(m)' \/ cancelled'[args[m]]["done"])
    <3>1. args[m] \notin Parts \/ m \notin U \ {n} => Fills(m, array)'
      <4>1. \A v : Fills(m, v) => Fills(m, v)'
        BY <1>1, <1>5, FillsStay DEF Outcomes
      <4>2. \A v : v = array' => (Fills(m, v)' <=> Fills(m, array)')
        BY DEF Fills
      <4> QED
        BY <1>15, <4>1, <4>2
    <3>2. /\ Ahead(m) \/ (args[m] \in Parts /\ Hung(m)) => m \in U
          /\ Passed(m) /\ m \in U => args[m] \in Parts /\ (Hung(m) \/ cancelled[args[m]]["done"])
      BY <1>9 DEF Untold
    <3>3. Ahead(n) => ~Hung(n)
      BY <1>2 DEF WhenInv, HangsRight
    <3> QED
      BY <1>1, <1>10, <1>11, <1>12, <3>1, <3>2, <3>3
  <2> QED
    BY <1>1, <2>1, <2>2 DEF Untold
<1>17. HangsRight'
  <2>1. MasterSettled => MasterSettled'
    BY <1>5, MasterSettledStays
  <2>2. \A m \in DOMAIN args : args[m] \in Parts =>
           /\ Ahead(m) => ~Hung(m)
           /\ Gone(m) => Rejects(m) \/ cancelled[args[m]]["fail"] \/ MasterSettled
    BY DEF WhenInv, HangsRight
  <2>3. \A m \in DOMAIN args : args[m] \in Parts =>
           /\ Once(callbacks'[args[m]]["done"], Part(m))
           /\ Ahead(m)' => ~Hung(m)'
           /\ Gone(m)' => Rejects(m)' \/ cancelled'[args[m]]["fail"] \/ MasterSettled'
    BY <1>1, <1>10, <1>11, <2>1, <2>2
  <2> QED
    BY <1>1, <2>3 DEF HangsRight
<1>18. count = 1 => MasterSettled' /\ \A m \in DOMAIN args : Fills(m, array')
  <2>1. count = 1 => MasterSettled'
    BY <1>1, <1>5, RunPartMoves, AlikeSelf, SettleTells DEF Outcomes
  <2>2. count = 1 => U = {n}
    BY <1>9, <1>14 DEF Untold
  <2> QED
    BY <1>15, <2>1, <2>2
<1>19. count # 1 => MasterStays
  <2>1. ASSUME count # 1 PROVE fired' = fired /\ stack' = stack
    BY <1>1, <2>1
  <2> QED
    BY <2>1 DEF MasterStays, FiresWith, Has
<1>20. promise' = "yes" /\ count' = 0 => MasterSettled'
  <2>1. count \in Int
    BY DEF DeferredInv, Typed, LocalsOK
  <2> QED
    BY <1>1, <1>18, <2>1
<1>21. \A v \in Results : FiresWith(Master, "done", v)' =>
          FiresWith(Master, "done", v) \/ \A m \in DOMAIN args : Fills(m, v)
  BY <1>5, <1>18, <1>19 DEF MasterStays, Outcomes
<1> QED
  BY <1>1, <1>5, <1>7, <1>16, <1>17, <1>20, <1>21, WhenRest

\* A part that failed tells of it.
LEMMA WhenFails ==
    ASSUME DeferredInv, WhenInv, RunReject
    PROVE  WhenInv'
<1>1. /\ Loop /\ callbacks[top.d][top.o] # <<>> /\ Head(callbacks[top.d][top.o]) = Reject
      /\ callbacks' = Shifted /\ Settle(Master, "fail", top.value, stack)
      /\ UNCHANGED <<cancelled, promise, args, array, count>>
  BY DEF RunReject, Heads, locals
<1>2. PICK n \in DOMAIN args : args[n] = top.d
  BY <1>1, HeadHangs DEF Hangs, Reject
<1>3. /\ Keeps \/ Begins(Master, "fail", top.value)
      /\ top.value \in Fit(Master, "fail") /\ top.d \in Parts /\ top.o = "fail"
  BY RunRejectMoves
<1>4. FiresWith(args[n], "fail", top.value)
  BY <1>1, <1>2, <1>3, TopFires DEF Loop, FiresWith
<1>5. /\ Grow
      /\ \A v \in Results : /\ FiresWith(Master, "done", v)' => FiresWith(Master, "done", v)
                            /\ FiresWith(Master, "fail", v)' => FiresWith(Master, "fail", v) \/ v = top.value
  BY <1>3, KeepsGrow, BeginsGrow DEF MasterStays, Outcomes
<1>6. SubWhens(stack, stack')
  BY <1>1, WhensOfCalls, AlikeSelf
<1>7. MasterSettled'
  BY <1>1, <1>3, <1>5, AlikeSelf, SettleTells DEF Outcomes
<1>8. \A m : (Ahead(m)' => Ahead(m)) /\ (Passed(m)' => Passed(m))
  BY <1>1, <1>6, AheadStays
<1>9. ASSUME NEW m \in DOMAIN args, args[m] \in Parts
      PROVE  /\ Once(callbacks'[args[m]]["done"], Part(m))
             /\ Hung(m)' <=> Hung(m)
  <2>1. args[m] \in Deferreds /\ "done" \in Outcomes
    BY <1>9 DEF Deferreds, Outcomes
  <2>2. Once(callbacks[args[m]]["done"], Part(m))
    BY <1>9 DEF WhenInv, HangsRight
  <2>3. Part(m) # Reject
    BY DEF Part, Reject
  <2>4. /\ In(callbacks'[args[m]]["done"], Part(m)) => In(callbacks[args[m]]["done"], Part(m))
        /\ In(callbacks[args[m]]["done"], Part(m)) =>
              In(callbacks'[args[m]]["done"], Part(m)) \/ Head(callbacks[top.d][top.o]) = Part(m)
        /\ Once(callbacks'[args[m]]["done"], Part(m))
    BY <1>1, <2>1, <2>2, HangsFewer
  <2> QED
    BY <1>1, <2>3, <2>4 DEF Hung
<1>10. HangsRight'
  <2>1. \A m \in DOMAIN args : args[m] \in Parts => (Ahead(m) => ~Hung(m))
    BY DEF WhenInv, HangsRight
  <2>2. \A m \in DOMAIN args : args[m] \in Parts =>
           /\ Once(callbacks'[args[m]]["done"], Part(m))
           /\ Ahead(m)' => ~Hung(m)'
    BY <1>8, <1>9, <2>1
  <2> QED
    BY <1>1, <1>7, <2>2 DEF HangsRight
<1>11. PICK U \in SUBSET (DOMAIN args) : Untold(U)
  BY DEF WhenInv
<1>12. Untold(U)'
  <2>1. ASSUME NEW m \in DOMAIN args
        PROVE  /\ args[m] \notin Parts \/ m \notin U => Fills(m, array)'
               /\ Ahead(m)' \/ (args[m] \in Parts /\ Hung(m)') => m \in U
               /\ Passed(m)' /\ m \in U => args[m] \in Parts /\ (Hung(m)' \/ cancelled'[args[m]]["done"])
    <3>1. Fills(m, array) => Fills(m, array)'
      <4>1. \A v : Fills(m, v) => Fills(m, v)'
        BY <1>1, <1>5, FillsStay DEF Outcomes
      <4>2. \A v : v = array => (Fills(m, v)' <=> Fills(m, array)')
        BY <1>1 DEF Fills
      <4> QED
        BY <4>1, <4>2
    <3>2. /\ args[m] \notin Parts \/ m \notin U => Fills(m, array)
          /\ Ahead(m) \/ (args[m] \in Parts /\ Hung(m)) => m \in U
          /\ Passed(m) /\ m \in U => args[m] \in Parts /\ (Hung(m) \/ cancelled[args[m]]["done"])
      BY <1>11 DEF Untold
    <3> QED
      BY <1>1, <1>8, <1>9, <3>1, <3>2
  <2> QED
    BY <1>1, <1>11, <2>1 DEF Untold
<1>13. promise' # "no"
  BY <1>1, <1>2 DEF DeferredInv, Typed, LocalsOK
<1>14. \A v \in Results : FiresWith(Master, "fail", v)' =>
          FiresWith(Master, "fail", v) \/ \E m \in DOMAIN args : args[m] \in Parts /\ FiresWith(args[m], "fail", v)
  BY <1>2, <1>3, <1>4, <1>5
<1> QED
  BY <1>1, <1>5, <1>7, <1>10, <1>12, <1>13, <1>14, WhenRest

\* Where the loop of jQuery.when is.
LEMMA LoopAt ==
    ASSUME DeferredInv, stack # <<>>, top.is = "when"
    PROVE  /\ promise = "making" /\ top.n \in Nat /\ rest \in Seq(Frame) /\ Whenless(rest)
           /\ top.n > 0 => top.n \in DOMAIN args
           /\ top.half = "fail" => args[top.n] \in Parts
           /\ DOMAIN args \subseteq Nat \ {0}
<1>1. top \in WhenFrame /\ rest \in Seq(Frame) /\ Whenless(rest)
  BY TopTyped DEF DeferredInv, Typed
<1>2. PICK k \in Nat : DOMAIN args = 1..k /\ Len(args) = k
  BY ArgumentsOK
<1>3. promise = "making" /\ top.n \in Nat /\ top.n <= Len(args) /\ (top.half = "fail" => args[top.n] \in Parts)
  BY <1>1 DEF WhenFrame
<1> QED
  BY <1>1, <1>2, <1>3

\* The call of jQuery.when.
LEMMA WhenCalled ==
    ASSUME DeferredInv, WhenInv, NEW a \in Arguments, CallWhen(a)
    PROVE  WhenInv'
<1>1. /\ promise = "no" /\ promise' = "making" /\ args' = a /\ array' = a /\ count' = Len(a)
      /\ stack' = Append(stack, When(Len(a), "done")) /\ UNCHANGED <<callbacks, cancelled>>
  BY DEF CallWhen, lists
<1>2. Len(a) \in Nat /\ DOMAIN a = 1..Len(a)
  BY Distinct DEF DeferredInv
<1>3. args = <<>> /\ ~MasterSettled
  BY <1>1 DEF DeferredInv, Typed, LocalsOK, WhenInv
<1>4. ~MasterSettled'
  <2>1. MasterStays /\ Results' = Results
    BY CallWhenMoves, KeepsGrow DEF Results, Arrays
  <2> QED
    BY <1>3, <2>1 DEF MasterStays, MasterSettled
<1>5. OnlyWhen(stack', Len(a), "done")
  <2>1. \A f : f.is = "when" => ~In(stack, f)
    <3>1. stack \in Seq(Frame)
      BY AlikeSelf
    <3>2. \A m \in DOMAIN stack : stack[m] \in Frame
      BY <3>1
    <3>3. \A m \in DOMAIN stack : stack[m].is # "when"
      BY <1>1, <3>2 DEF Frame, FireFrame, WhenFrame
    <3> QED
      BY <3>3, Zenon DEF In
  <2>2. \A f : In(stack', f) <=> In(stack, f) \/ When(Len(a), "done") = f
    BY <1>1, AlikeSelf, InAppend
  <2>3. When(Len(a), "done").n = Len(a) /\ When(Len(a), "done").half = "done"
    BY DEF When
  <2> QED
    BY <2>1, <2>2, <2>3, Zenon DEF OnlyWhen
<1>6. \A n \in 1..Len(a) : ~Passed(n)' /\ ~Gone(n)'
  <2>1. \A n : /\ Passed(n)' => Len(a) < n \/ (n = Len(a) /\ "done" = "fail")
               /\ Gone(n)' => Len(a) < n
    BY <1>1, <1>5, AheadOfOnly
  <2> QED
    BY <1>2, <2>1
<1>7. ASSUME NEW d \in Deferreds, NEW o \in Outcomes, NEW c, c.is = "part" PROVE ~In(callbacks[d][o], c)
  <2>1. callbacks[d][o] \in Seq(Hangs(d, o))
    BY DEF DeferredInv, Typed, ListsOK
  <2>2. c \notin Hangs(d, o)
    BY <1>3, <1>7 DEF Hangs
  <2>3. \A i \in DOMAIN callbacks[d][o] : callbacks[d][o][i] \in Hangs(d, o)
    BY <2>1
  <2> QED
    BY <2>2, <2>3 DEF In
<1>8. ASSUME NEW n \in 1..Len(a), a[n] \in Parts
      PROVE  ~In(callbacks'[a[n]]["done"], Part(n)) /\ Once(callbacks'[a[n]]["done"], Part(n))
  <2>1. a[n] \in Deferreds /\ "done" \in Outcomes /\ Part(n).is = "part"
    BY <1>8 DEF Deferreds, Outcomes, Part
  <2>2. ~In(callbacks[a[n]]["done"], Part(n))
    BY <1>7, <2>1
  <2> QED
    BY <1>1, <2>2, Zenon DEF In, Once
<1>9. HangsRight'
  BY <1>1, <1>2, <1>6, <1>8 DEF HangsRight, Hung
<1>10. Untold(1..Len(a))'
  <2>1. Cardinality(1..Len(a)) = Len(a)
    <3>1. 1 \in Int /\ Len(a) \in Int
      BY <1>2
    <3>2. Cardinality(1..Len(a)) = IF 1 > Len(a) THEN 0 ELSE Len(a) - 1 + 1
      BY <3>1, FS_Interval
    <3> QED
      BY <1>2, <3>2
  <2>2. \A n \in 1..Len(a) : a[n] \notin Parts => Fills(n, array)'
    BY <1>1 DEF Fills
  <2> QED
    BY <1>1, <1>2, <1>6, <2>1, <2>2 DEF Untold
<1>11. DoneAsAll' /\ FailedAsOne'
  <2>1. \A o \in Outcomes, v \in Results' : ~FiresWith(Master, o, v)'
    BY <1>4 DEF MasterSettled
  <2> QED
    BY <2>1 DEF DoneAsAll, FailedAsOne, Outcomes
<1>12. 1..Len(a) \in SUBSET (DOMAIN args')
  BY <1>1, <1>2
<1> QED
  BY <1>1, <1>4, <1>9, <1>10, <1>11, <1>12 DEF WhenInv

\* jQuery.when hangs its callback for done on a part.
LEMMA WhenHangs ==
    ASSUME DeferredInv, WhenInv, WhenPart
    PROVE  WhenInv'
<1> DEFINE n == top.n
<1>1. /\ stack # <<>> /\ top.is = "when" /\ n > 0 /\ top.half = "done" /\ args[n] \in Parts
      /\ Add(args[n], "done", <<Part(n)>>, Append(rest, When(n, "fail")))
      /\ UNCHANGED <<args, array, count, promise>>
  BY DEF WhenPart, Looping, locals
<1>2. promise = "making" /\ n \in DOMAIN args /\ n \in Nat /\ rest \in Seq(Frame) /\ DOMAIN args \subseteq Nat \ {0}
  BY <1>1, LoopAt
<1>3. Grow /\ MasterStays
  BY WhenPartMoves, KeepsGrow
<1>4. \A m : /\ m < n \/ m = n => Ahead(m)
             /\ n < m => Passed(m) /\ Gone(m)
  BY <1>1, AheadOfTop
<1>5. \A m : /\ Ahead(m)' => m < n
             /\ Passed(m)' => n < m \/ m = n
             /\ Gone(m)' => n < m
  <2>1. SubWhens(Append(rest, When(n, "fail")), stack')
    <3>1. Append(rest, When(n, "fail")) \in Seq(Frame \union {When(n, "fail")})
      <4>1. rest \in Seq(Frame \union {When(n, "fail")})
        BY <1>2, SeqMonotonic
      <4> QED
        BY <4>1, AppendProperties
    <3> QED
      BY <1>1, <3>1, WhensOfCalls
  <2>2. OnlyWhen(stack', n, "fail")
    BY <1>1, <2>1, OnlyWhenIs
  <2>3. promise' # "yes"
    BY <1>1, <1>2
  <2> HIDE DEF n
  <2>4. \A m : /\ Ahead(m)' => m < n \/ (m = n /\ "fail" = "done")
               /\ Passed(m)' => n < m \/ (m = n /\ "fail" = "fail")
               /\ Gone(m)' => n < m
    <3>1. PICK k : k = n
      OBVIOUS
    <3>2. \A m : /\ Ahead(m)' => m < k \/ (m = k /\ "fail" = "done")
                 /\ Passed(m)' => k < m \/ (m = k /\ "fail" = "fail")
                 /\ Gone(m)' => k < m
      BY <2>2, <2>3, <3>1, AheadOfOnly
    <3> QED
      BY <3>1, <3>2
  <2> QED
    BY <2>4
<1> HIDE DEF n
<1>6. <<Part(n)>> \in Seq(Callback) /\ args[n] \in Deferreds /\ "done" \in Outcomes /\ "fail" \in Outcomes
  BY <1>1, <1>2 DEF Part, Callback, Deferreds, Outcomes
<1>7. /\ cancelled' = cancelled
      /\ \A e \in Deferreds, w \in Outcomes : \A c :
            /\ In(callbacks'[e][w], c) <=> \/ In(callbacks[e][w], c)
                                           \/ e = args[n] /\ w = "done" /\ ~cancelled[args[n]]["done"] /\ Part(n) = c
            /\ (e # args[n] \/ w # "done" \/ Part(n) # c) /\ Once(callbacks[e][w], c) => Once(callbacks'[e][w], c)
            /\ ~In(callbacks[e][w], c) => Once(callbacks'[e][w], c)
  <2> DEFINE new == <<Part(n)>>
             below == Append(rest, When(n, "fail"))
             d == args[n]
  <2>1. \A c : (In(new, c) <=> Part(n) = c) /\ Once(new, c)
    BY InOne
  <2>2. Add(d, "done", new, below) /\ new \in Seq(Callback) /\ d \in Deferreds
    BY <1>1, <1>6 DEF n
  <2> HIDE DEF new, below, d
  <2>3. /\ cancelled' = cancelled
        /\ \A e \in Deferreds, w \in Outcomes : \A c :
              /\ In(callbacks'[e][w], c) <=> \/ In(callbacks[e][w], c)
                                             \/ e = d /\ w = "done" /\ ~cancelled[d]["done"] /\ In(new, c)
              /\ (e # d \/ w # "done" \/ ~In(new, c)) /\ Once(callbacks[e][w], c) => Once(callbacks'[e][w], c)
              /\ ~In(callbacks[e][w], c) /\ Once(new, c) => Once(callbacks'[e][w], c)
    BY <1>6, <2>2, HangsMore
  <2> QED
    BY <2>1, <2>3 DEF d
<1>8. ASSUME NEW m \in DOMAIN args, args[m] \in Parts
      PROVE  /\ Hung(m)' <=> Hung(m) \/ (m = n /\ ~cancelled[args[m]]["done"])
             /\ Rejects(m) => Rejects(m)'
             /\ Once(callbacks'[args[m]]["done"], Part(m))
  <2>1. args[m] \in Deferreds
    BY <1>8 DEF Deferreds
  <2>2. (Part(n) = Part(m) <=> n = m) /\ Part(n) # Reject
    BY DEF Part, Reject
  <2>3. /\ Once(callbacks[args[m]]["done"], Part(m))
        /\ m = n => ~In(callbacks[args[m]]["done"], Part(m))
    BY <1>4, <1>8 DEF WhenInv, HangsRight, Hung
  <2>4. In(callbacks'[args[m]]["done"], Part(m)) <=>
           In(callbacks[args[m]]["done"], Part(m)) \/ (m = n /\ ~cancelled[args[m]]["done"])
    BY <1>6, <1>7, <2>1, <2>2
  <2>5. In(callbacks[args[m]]["fail"], Reject) => In(callbacks'[args[m]]["fail"], Reject)
    BY <1>6, <1>7, <2>1
  <2>6. Once(callbacks'[args[m]]["done"], Part(m))
    BY <1>6, <1>7, <2>1, <2>2, <2>3
  <2> QED
    BY <1>1, <2>4, <2>5, <2>6 DEF Hung, Rejects
<1>9. HangsRight'
  <2>1. MasterSettled => MasterSettled'
    BY <1>3, MasterSettledStays
  <2>2. \A m \in DOMAIN args : args[m] \in Parts =>
           /\ Ahead(m) => ~Hung(m)
           /\ Gone(m) => Rejects(m) \/ cancelled[args[m]]["fail"] \/ MasterSettled
    BY DEF WhenInv, HangsRight
  <2>3. ASSUME NEW m \in DOMAIN args, args[m] \in Parts
        PROVE  /\ Once(callbacks'[args[m]]["done"], Part(m))
               /\ Ahead(m)' => ~Hung(m)'
               /\ Gone(m)' => Rejects(m)' \/ cancelled'[args[m]]["fail"] \/ MasterSettled'
    <3>1. Ahead(m)' => m # n /\ Ahead(m)
      BY <1>2, <1>4, <1>5
    <3>2. Gone(m)' => Gone(m)
      BY <1>4, <1>5
    <3> QED
      BY <1>7, <1>8, <2>1, <2>2, <2>3, <3>1, <3>2
  <2> QED
    BY <1>1, <2>3 DEF HangsRight
<1>10. PICK U \in SUBSET (DOMAIN args) : Untold(U)
  BY DEF WhenInv
<1>11. Untold(U)'
  <2>1. ASSUME NEW m \in DOMAIN args
        PROVE  /\ args[m] \notin Parts \/ m \notin U => Fills(m, array)'
               /\ Ahead(m)' \/ (args[m] \in Parts /\ Hung(m)') => m \in U
               /\ Passed(m)' /\ m \in U => args[m] \in Parts /\ (Hung(m)' \/ cancelled'[args[m]]["done"])
    <3>1. Fills(m, array) => Fills(m, array)'
      <4>1. \A v : Fills(m, v) => Fills(m, v)'
        BY <1>1, <1>3, FillsStay DEF Outcomes
      <4>2. \A v : v = array => (Fills(m, v)' <=> Fills(m, array)')
        BY <1>1 DEF Fills
      <4> QED
        BY <4>1, <4>2
    <3>2. /\ args[m] \notin Parts \/ m \notin U => Fills(m, array)
          /\ Ahead(m) \/ (args[m] \in Parts /\ Hung(m)) => m \in U
          /\ Passed(m) /\ m \in U => args[m] \in Parts /\ (Hung(m) \/ cancelled[args[m]]["done"])
      BY <1>10 DEF Untold
    <3>3. /\ Ahead(m)' => Ahead(m)
          /\ Passed(m)' => Passed(m) \/ m = n
          /\ m = n => Ahead(m)
      BY <1>4, <1>5
    <3>4. args[n] \in Parts
      BY <1>1 DEF n
    <3> QED
      BY <1>7, <1>8, <3>1, <3>2, <3>3, <3>4
  <2> QED
    BY <1>1, <1>10, <2>1 DEF Untold
<1> QED
  BY <1>1, <1>2, <1>3, <1>9, <1>11, WhenRest DEF MasterStays, Outcomes

\* The loop of jQuery.when goes to the argument before.
LEMMA LoopNext ==
    ASSUME DeferredInv, stack # <<>>, top.is = "when", top.n > 0, promise' = promise,
           SubWhens(Append(rest, When(top.n - 1, "done")), stack')
    PROVE  \A m \in DOMAIN args : /\ Ahead(m)' => m < top.n
                                  /\ Passed(m)' \/ Gone(m)' => top.n < m \/ m = top.n
<1>1. promise' # "yes" /\ top.n \in Nat /\ DOMAIN args \subseteq Nat \ {0}
  BY LoopAt
<1>2. OnlyWhen(stack', top.n - 1, "done")
  BY OnlyWhenIs
<1>3. PICK k : k = top.n - 1
  OBVIOUS
<1>4. \A m : /\ Ahead(m)' => m < k \/ (m = k /\ "done" = "done")
             /\ Passed(m)' => k < m \/ (m = k /\ "done" = "fail")
             /\ Gone(m)' => k < m
  <2>1. OnlyWhen(stack', k, "done")
    BY <1>2, <1>3
  <2> QED
    BY <1>1, <2>1, AheadOfOnly
<1>5. ASSUME NEW m \in DOMAIN args
      PROVE  /\ m < k \/ m = k => m < top.n
             /\ k < m => top.n < m \/ m = top.n
  BY <1>1, <1>3
<1> QED
  BY <1>4, <1>5

\* jQuery.when hangs its callback for fail on a part.
LEMMA WhenRejects ==
    ASSUME DeferredInv, WhenInv, WhenReject
    PROVE  WhenInv'
<1>1. PICK n : n = top.n
  OBVIOUS
<1>2. /\ stack # <<>> /\ top.is = "when" /\ top.n > 0 /\ top.half = "fail"
      /\ Add(args[n], "fail", <<Reject>>, Append(rest, When(n - 1, "done")))
      /\ UNCHANGED <<args, array, count, promise>>
  BY <1>1 DEF WhenReject, Looping, locals
<1>3. promise = "making" /\ n \in DOMAIN args /\ args[n] \in Parts /\ rest \in Seq(Frame)
  BY <1>1, <1>2, LoopAt
<1>4. Grow /\ MasterStays
  BY WhenRejectMoves, KeepsGrow
<1>5. \A m : /\ m < n => Ahead(m)
             /\ n < m => Passed(m) /\ Gone(m)
             /\ m = n => Passed(m)
  BY <1>1, <1>2, AheadOfTop
<1>6. \A m \in DOMAIN args : /\ Ahead(m)' => m < n
                             /\ Passed(m)' \/ Gone(m)' => n < m \/ m = n
  <2>1. SubWhens(Append(rest, When(n - 1, "done")), stack')
    <3>1. Append(rest, When(n - 1, "done")) \in Seq(Frame \union {When(n - 1, "done")})
      <4>1. rest \in Seq(Frame \union {When(n - 1, "done")})
        BY <1>3, SeqMonotonic
      <4> QED
        BY <4>1, AppendProperties
    <3> QED
      BY <1>2, <3>1, WhensOfCalls
  <2> QED
    BY <1>1, <1>2, <2>1, LoopNext
<1>7. <<Reject>> \in Seq(Callback) /\ args[n] \in Deferreds /\ "done" \in Outcomes /\ "fail" \in Outcomes
  BY <1>3 DEF Reject, Callback, Deferreds, Outcomes
<1>8. /\ cancelled' = cancelled
      /\ \A e \in Deferreds, w \in Outcomes : \A c :
            /\ In(callbacks'[e][w], c) <=> \/ In(callbacks[e][w], c)
                                           \/ e = args[n] /\ w = "fail" /\ ~cancelled[args[n]]["fail"] /\ Reject = c
            /\ Reject # c /\ Once(callbacks[e][w], c) => Once(callbacks'[e][w], c)
  <2> DEFINE new == <<Reject>>
             below == Append(rest, When(n - 1, "done"))
             d == args[n]
  <2>1. \A c : In(new, c) <=> Reject = c
    BY InOne
  <2>2. Add(d, "fail", new, below) /\ new \in Seq(Callback) /\ d \in Deferreds
    BY <1>2, <1>7
  <2> HIDE DEF new, below, d
  <2>3. /\ cancelled' = cancelled
        /\ \A e \in Deferreds, w \in Outcomes : \A c :
              /\ In(callbacks'[e][w], c) <=> \/ In(callbacks[e][w], c)
                                             \/ e = d /\ w = "fail" /\ ~cancelled[d]["fail"] /\ In(new, c)
              /\ (e # d \/ w # "fail" \/ ~In(new, c)) /\ Once(callbacks[e][w], c) => Once(callbacks'[e][w], c)
    BY <1>7, <2>2, HangsMore
  <2> QED
    BY <2>1, <2>3 DEF d
<1>9. ASSUME NEW m \in DOMAIN args, args[m] \in Parts
      PROVE  /\ Hung(m)' <=> Hung(m)
             /\ Rejects(m) => Rejects(m)'
             /\ m = n => Rejects(m)' \/ cancelled'[args[m]]["fail"]
             /\ Once(callbacks'[args[m]]["done"], Part(m))
  <2>1. args[m] \in Deferreds
    BY <1>9 DEF Deferreds
  <2>2. Part(m) # Reject
    BY DEF Part, Reject
  <2>3. Once(callbacks[args[m]]["done"], Part(m))
    BY <1>9 DEF WhenInv, HangsRight
  <2>4. In(callbacks'[args[m]]["done"], Part(m)) <=> In(callbacks[args[m]]["done"], Part(m))
    BY <1>7, <1>8, <2>1, <2>2
  <2>5. /\ In(callbacks[args[m]]["fail"], Reject) => In(callbacks'[args[m]]["fail"], Reject)
        /\ m = n => In(callbacks'[args[m]]["fail"], Reject) \/ cancelled'[args[m]]["fail"]
    BY <1>7, <1>8, <2>1
  <2>6. Once(callbacks'[args[m]]["done"], Part(m))
    BY <1>7, <1>8, <2>1, <2>2, <2>3
  <2> QED
    BY <1>2, <2>4, <2>5, <2>6 DEF Hung, Rejects
<1>10. HangsRight'
  <2>1. MasterSettled => MasterSettled'
    BY <1>4, MasterSettledStays
  <2>2. \A m \in DOMAIN args : args[m] \in Parts =>
           /\ Ahead(m) => ~Hung(m)
           /\ Gone(m) => Rejects(m) \/ cancelled[args[m]]["fail"] \/ MasterSettled
    BY DEF WhenInv, HangsRight
  <2>3. ASSUME NEW m \in DOMAIN args, args[m] \in Parts
        PROVE  /\ Once(callbacks'[args[m]]["done"], Part(m))
               /\ Ahead(m)' => ~Hung(m)'
               /\ Gone(m)' => Rejects(m)' \/ cancelled'[args[m]]["fail"] \/ MasterSettled'
    <3>1. Ahead(m)' => Ahead(m)
      BY <1>5, <1>6
    <3>2. Gone(m)' => Gone(m) \/ m = n
      BY <1>5, <1>6
    <3> QED
      BY <1>8, <1>9, <2>1, <2>2, <2>3, <3>1, <3>2
  <2> QED
    BY <1>2, <2>3 DEF HangsRight
<1>11. PICK U \in SUBSET (DOMAIN args) : Untold(U)
  BY DEF WhenInv
<1>12. Untold(U)'
  <2>1. ASSUME NEW m \in DOMAIN args
        PROVE  /\ args[m] \notin Parts \/ m \notin U => Fills(m, array)'
               /\ Ahead(m)' \/ (args[m] \in Parts /\ Hung(m)') => m \in U
               /\ Passed(m)' /\ m \in U => args[m] \in Parts /\ (Hung(m)' \/ cancelled'[args[m]]["done"])
    <3>1. Fills(m, array) => Fills(m, array)'
      <4>1. \A v : Fills(m, v) => Fills(m, v)'
        BY <1>2, <1>4, FillsStay DEF Outcomes
      <4>2. \A v : v = array => (Fills(m, v)' <=> Fills(m, array)')
        BY <1>2 DEF Fills
      <4> QED
        BY <4>1, <4>2
    <3>2. /\ args[m] \notin Parts \/ m \notin U => Fills(m, array)
          /\ Ahead(m) \/ (args[m] \in Parts /\ Hung(m)) => m \in U
          /\ Passed(m) /\ m \in U => args[m] \in Parts /\ (Hung(m) \/ cancelled[args[m]]["done"])
      BY <1>11 DEF Untold
    <3>3. (Ahead(m)' => Ahead(m)) /\ (Passed(m)' => Passed(m))
      BY <1>5, <1>6
    <3> QED
      BY <1>8, <1>9, <3>1, <3>2, <3>3
  <2> QED
    BY <1>2, <1>11, <2>1 DEF Untold
<1> QED
  BY <1>2, <1>3, <1>4, <1>10, <1>12, WhenRest DEF MasterStays, Outcomes

\* jQuery.when counts a plain value.
LEMMA WhenCounts ==
    ASSUME DeferredInv, WhenInv, WhenPlain
    PROVE  WhenInv'
<1>1. PICK n : n = top.n
  OBVIOUS
<1>2. /\ stack # <<>> /\ top.is = "when" /\ top.n > 0 /\ top.half = "done" /\ args[n] \notin Parts
      /\ stack' = Append(rest, When(n - 1, "done")) /\ count' = count - 1
      /\ UNCHANGED <<args, array, promise, callbacks, cancelled>>
  BY <1>1 DEF WhenPlain, Looping, lists
<1>3. promise = "making" /\ n \in DOMAIN args
  BY <1>1, <1>2, LoopAt
<1>4. Grow /\ MasterStays
  BY WhenPlainMoves, KeepsGrow
<1>5. \A m : /\ m < n \/ m = n => Ahead(m)
             /\ n < m => Passed(m) /\ Gone(m)
  BY <1>1, <1>2, AheadOfTop
<1>6. \A m \in DOMAIN args : /\ Ahead(m)' => m < n
                             /\ Passed(m)' \/ Gone(m)' => n < m \/ m = n
  BY <1>1, <1>2, WhensSame, LoopNext
<1>7. \A m : (Hung(m)' <=> Hung(m)) /\ (Rejects(m)' <=> Rejects(m))
  BY <1>2 DEF Hung, Rejects
<1>8. \A m \in DOMAIN args : Ahead(m)' => Ahead(m) /\ m # n
  <2>1. n \in Nat
    BY <1>1, <1>2, LoopAt
  <2> QED
    BY <1>5, <1>6, <2>1
<1>9. HangsRight'
  <2>1. MasterSettled => MasterSettled'
    BY <1>4, MasterSettledStays
  <2>2. \A m \in DOMAIN args : args[m] \in Parts =>
           /\ Once(callbacks[args[m]]["done"], Part(m))
           /\ Ahead(m) => ~Hung(m)
           /\ Gone(m) => Rejects(m) \/ cancelled[args[m]]["fail"] \/ MasterSettled
    BY DEF WhenInv, HangsRight
  <2>3. ASSUME NEW m \in DOMAIN args, args[m] \in Parts
        PROVE  /\ Once(callbacks'[args[m]]["done"], Part(m))
               /\ Ahead(m)' => ~Hung(m)'
               /\ Gone(m)' => Rejects(m)' \/ cancelled'[args[m]]["fail"] \/ MasterSettled'
    <3>1. Gone(m)' => Gone(m)
      BY <1>2, <1>5, <1>6, <2>3
    <3> QED
      BY <1>2, <1>7, <1>8, <2>1, <2>2, <2>3, <3>1
  <2> QED
    BY <1>2, <2>3 DEF HangsRight
<1>10. PICK U \in SUBSET (DOMAIN args) : Untold(U)
  BY DEF WhenInv
<1>11. n \in U
  BY <1>3, <1>5, <1>10 DEF Untold
<1>12. Cardinality(U \ {n}) = Cardinality(U) - 1
  BY <1>11, OneLess
<1>13. Untold(U \ {n})'
  <2>1. count' = Cardinality(U \ {n})
    BY <1>2, <1>10, <1>12 DEF Untold
  <2>2. ASSUME NEW m \in DOMAIN args
        PROVE  /\ args[m] \notin Parts \/ m \notin U \ {n} => Fills(m, array)'
               /\ Ahead(m)' \/ (args[m] \in Parts /\ Hung(m)') => m \in U \ {n}
               /\ Passed(m)' /\ m \in U \ {n} => args[m] \in Parts /\ (Hung(m)' \/ cancelled'[args[m]]["done"])
    <3>1. Fills(m, array) => Fills(m, array)'
      <4>1. \A v : Fills(m, v) => Fills(m, v)'
        BY <1>2, <1>4, FillsStay DEF Outcomes
      <4>2. \A v : v = array => (Fills(m, v)' <=> Fills(m, array)')
        BY <1>2 DEF Fills
      <4> QED
        BY <4>1, <4>2
    <3>2. /\ args[m] \notin Parts \/ m \notin U => Fills(m, array)
          /\ Ahead(m) \/ (args[m] \in Parts /\ Hung(m)) => m \in U
          /\ Passed(m) /\ m \in U => args[m] \in Parts /\ (Hung(m) \/ cancelled[args[m]]["done"])
      BY <1>10 DEF Untold
    <3>3. Passed(m)' => Passed(m) \/ m = n
      BY <1>5, <1>6
    <3> QED
      BY <1>2, <1>7, <1>8, <3>1, <3>2, <3>3
  <2> QED
    BY <1>2, <2>1, <2>2 DEF Untold
<1> QED
  BY <1>2, <1>3, <1>4, <1>9, <1>13, WhenRest DEF MasterStays, Outcomes

\* jQuery.when returns: what is left to tell hangs on the parts.
LEMMA WhenReturned ==
    ASSUME DeferredInv, WhenInv, WhenReturn
    PROVE  WhenInv'
<1>1. /\ stack # <<>> /\ top.is = "when" /\ top.n = 0 /\ promise' = "yes"
      /\ UNCHANGED <<callbacks, fired, cancelled, args, array, count>>
      /\ count = 0 => Settle(Master, "done", array, rest)
      /\ count # 0 => stack' = rest /\ UNCHANGED firing
  BY DEF WhenReturn
<1>2. promise = "making" /\ rest \in Seq(Frame) /\ Whenless(rest) /\ DOMAIN args \subseteq Nat \ {0}
  BY <1>1, LoopAt
<1>3. /\ Keeps \/ Begins(Master, "done", array)
      /\ array \in Fit(Master, "done")
  BY WhenReturnMoves
<1>4. /\ Grow
      /\ \A v \in Results : /\ FiresWith(Master, "done", v)' => FiresWith(Master, "done", v) \/ v = array
                            /\ FiresWith(Master, "fail", v)' => FiresWith(Master, "fail", v)
  BY <1>3, KeepsGrow, BeginsGrow DEF MasterStays, Outcomes
<1>5. \A n \in DOMAIN args : Passed(n) /\ Gone(n)
  <2>1. \A n \in DOMAIN args : top.n < n
    BY <1>1, <1>2
  <2> QED
    BY <1>1, <2>1, AheadOfTop
<1>6. \A n : ~Ahead(n)'
  <2>1. SubWhens(rest, stack')
    BY <1>1, <1>2, WhensOfCalls, WhensSame
  <2>2. \A f : f.is = "when" => ~In(rest, f)
    BY <1>2, Zenon DEF Whenless, In
  <2>3. \A m \in DOMAIN stack' : stack'[m].is # "when"
    BY <2>1, <2>2, Zenon DEF SubWhens, In
  <2> QED
    BY <2>3, Zenon DEF Ahead
<1>7. \A n : (Hung(n)' <=> Hung(n)) /\ (Rejects(n)' <=> Rejects(n))
  BY <1>1 DEF Hung, Rejects
<1>8. HangsRight'
  <2>1. MasterSettled => MasterSettled'
    BY <1>4, MasterSettledStays
  <2>2. \A n \in DOMAIN args : args[n] \in Parts =>
           /\ Once(callbacks[args[n]]["done"], Part(n))
           /\ Rejects(n) \/ cancelled[args[n]]["fail"] \/ MasterSettled
    BY <1>5 DEF WhenInv, HangsRight
  <2>3. \A n \in DOMAIN args : args[n] \in Parts =>
           /\ Once(callbacks'[args[n]]["done"], Part(n))
           /\ Ahead(n)' => ~Hung(n)'
           /\ Gone(n)' => Rejects(n)' \/ cancelled'[args[n]]["fail"] \/ MasterSettled'
    BY <1>1, <1>6, <1>7, <2>1, <2>2
  <2> QED
    BY <1>1, <2>3 DEF HangsRight
<1>9. PICK U \in SUBSET (DOMAIN args) : Untold(U)
  BY DEF WhenInv
<1>10. Untold(U)'
  <2>1. ASSUME NEW m \in DOMAIN args
        PROVE  /\ args[m] \notin Parts \/ m \notin U => Fills(m, array)'
               /\ Ahead(m)' \/ (args[m] \in Parts /\ Hung(m)') => m \in U
               /\ Passed(m)' /\ m \in U => args[m] \in Parts /\ (Hung(m)' \/ cancelled'[args[m]]["done"])
    <3>1. Fills(m, array) => Fills(m, array)'
      <4>1. \A v : Fills(m, v) => Fills(m, v)'
        BY <1>1, <1>4, FillsStay DEF Outcomes
      <4>2. \A v : v = array => (Fills(m, v)' <=> Fills(m, array)')
        BY <1>1 DEF Fills
      <4> QED
        BY <4>1, <4>2
    <3>2. /\ args[m] \notin Parts \/ m \notin U => Fills(m, array)
          /\ Ahead(m) \/ (args[m] \in Parts /\ Hung(m)) => m \in U
          /\ m \in U => args[m] \in Parts /\ (Hung(m) \/ cancelled[args[m]]["done"])
      BY <1>5, <1>9 DEF Untold
    <3> QED
      BY <1>1, <1>6, <1>7, <3>1, <3>2
  <2> QED
    BY <1>1, <1>9, <2>1 DEF Untold
<1>11. CASE count = 0
  <2>1. MasterSettled'
    BY <1>1, <1>2, <1>3, <1>4, <1>11, SettleTells DEF Outcomes
  <2>2. U = {}
    <3>1. IsFiniteSet(U)
      <4>1. PICK k \in Nat : DOMAIN args = 1..k
        BY ArgumentsOK
      <4>2. IsFiniteSet(1..k)
        BY FS_Interval
      <4> QED
        BY <4>1, <4>2, FS_Subset
    <3> QED
      BY <1>9, <1>11, <3>1, FS_EmptySet DEF Untold
  <2>3. \A n \in DOMAIN args : Fills(n, array)
    BY <1>9, <2>2 DEF Untold
  <2>4. \A v \in Results : FiresWith(Master, "done", v)' =>
           FiresWith(Master, "done", v) \/ \A n \in DOMAIN args : Fills(n, v)
    BY <1>4, <2>3
  <2> QED
    BY <1>1, <1>4, <1>8, <1>10, <2>1, <2>4, WhenRest
<1>12. CASE count # 0
  <2>1. MasterStays
    <3>1. Keeps
      <4>1. Alike(stack, rest)
        BY <1>1, AlikeWhen
      <4> QED
        BY <1>1, <1>12, <4>1, SameKeeps DEF DeferredInv
    <3> QED
      BY <3>1, KeepsGrow
  <2> QED
    BY <1>1, <1>4, <1>8, <1>10, <1>12, <2>1, WhenRest DEF MasterStays, Outcomes
<1> QED
  BY <1>11, <1>12

-----------------------------------------------------------------------------
(* What jQuery.when promises.                                                  *)

\* The invariant of jQuery.when is one.
LEMMA WhenInit == DeferredConstants /\ Init => WhenInv
<1> SUFFICES ASSUME DeferredConstants, Init PROVE WhenInv
  OBVIOUS
<1>1. DOMAIN args = {} /\ count = 0 /\ promise = "no"
  BY DEF Init
<1>2. \A o \in Outcomes, v \in Results : ~FiresWith(Master, o, v)
  <2>1. \A d, o, v : ~Has(stack, d, o, v)
    BY DEF Init, Has
  <2>2. \A o \in Outcomes : fired[Master][o] = None
    BY DEF Init, Each, Deferreds
  <2> QED
    BY <2>1, <2>2, NotNone DEF FiresWith
<1>3. ~MasterSettled /\ DoneAsAll /\ FailedAsOne
  BY <1>2 DEF MasterSettled, DoneAsAll, FailedAsOne, Outcomes
<1>4. HangsRight
  BY <1>1 DEF HangsRight
<1>5. Untold({}) /\ {} \in SUBSET (DOMAIN args)
  BY <1>1, FS_EmptySet DEF Untold
<1> QED
  BY <1>1, <1>3, <1>4, <1>5 DEF WhenInv

LEMMA WhenStep == DeferredInv /\ WhenInv /\ [Next]_vars => WhenInv'
<1> SUFFICES ASSUME DeferredInv, WhenInv, [Next]_vars PROVE WhenInv'
  OBVIOUS
<1>1. CASE Page
  BY <1>1, WhenPage, WhenCalled DEF Page
<1>2. CASE Library
  BY <1>2, WhenLoop, WhenTold, WhenFails, WhenHangs, WhenRejects, WhenCounts, WhenReturned DEF Library
<1>3. CASE UNCHANGED vars
  <2>1. UNCHANGED <<callbacks, fired, firing, cancelled, stack, args, array, count, promise>>
    BY <1>3 DEF vars, lists, locals
  <2>2. Keeps
    BY <2>1, AlikeSelf, SameKeeps DEF DeferredInv
  <2> QED
    BY <2>1, <2>2, KeepsGrow, HangsSame, WhensSame, WhenStays
<1> QED
  BY <1>1, <1>2, <1>3 DEF Next

LEMMA WhenInvHolds == ASSUME DeferredConstants PROVE Spec => [](DeferredInv /\ WhenInv)
<1>1. Init => DeferredInv /\ WhenInv
  BY DeferredInit, WhenInit
<1>2. (DeferredInv /\ WhenInv) /\ [Next]_vars => (DeferredInv /\ WhenInv)'
  BY DeferredStep, WhenStep
<1> QED
  BY <1>1, <1>2, PTL DEF Spec

\* It says what jQuery.when promises.
LEMMA RightAsAll == DeferredInv /\ WhenInv => WhenIsAll
<1> SUFFICES ASSUME DeferredInv, WhenInv PROVE WhenIsAll
  OBVIOUS
<1>1. SettledAsFits /\ OutcomeIs
  BY SettledFits, OutcomeFits DEF DeferredInv
<1>2. Master \in Deferreds /\ Parts \subseteq Deferreds /\ "done" \in Outcomes /\ "fail" \in Outcomes
  BY DEF Deferreds, Outcomes
<1>3. ASSUME Settled(Master, "done"), NEW n \in DOMAIN args
      PROVE  LET v == ValueOf(Master, "done")[n]
             IN  IF args[n] \in Parts THEN outcome[args[n]] = [way |-> "done", value |-> v] ELSE v = args[n]
  <2>1. PICK x \in Results : FiresWith(Master, "done", x)
    BY <1>1, <1>2, <1>3 DEF SettledAsFits
  <2>2. ValueOf(Master, "done") = x
    BY <1>1, <1>2, <2>1 DEF SettledAsFits
  <2>3. Fills(n, x)
    BY <2>1 DEF WhenInv, DoneAsAll
  <2>4. args[n] \in Parts => outcome[args[n]] = [way |-> "done", value |-> x[n]]
    BY <1>1, <1>2, <2>3 DEF Fills, OutcomeIs
  <2>5. args[n] \notin Parts => x[n] = args[n]
    BY <2>3 DEF Fills
  <2> QED
    BY <2>2, <2>4, <2>5, Zenon
<1>4. ASSUME Settled(Master, "fail")
      PROVE  \E n \in DOMAIN args :
                args[n] \in Parts /\ outcome[args[n]] = [way |-> "fail", value |-> ValueOf(Master, "fail")]
  <2>1. PICK x \in Results : FiresWith(Master, "fail", x)
    BY <1>1, <1>2, <1>4 DEF SettledAsFits
  <2>2. ValueOf(Master, "fail") = x
    BY <1>1, <1>2, <2>1 DEF SettledAsFits
  <2>3. PICK n \in DOMAIN args : args[n] \in Parts /\ FiresWith(args[n], "fail", x)
    BY <2>1 DEF WhenInv, FailedAsOne
  <2>4. outcome[args[n]] = [way |-> "fail", value |-> x]
    BY <1>1, <1>2, <2>3 DEF OutcomeIs
  <2> QED
    BY <2>2, <2>3, <2>4
<1> QED
  BY <1>3, <1>4 DEF WhenIsAll

LEMMA RightTells == DeferredInv /\ WhenInv => WhenTells
<1> SUFFICES ASSUME DeferredInv, WhenInv, stack = <<>>, promise = "yes",
                    \A n \in DOMAIN args : args[n] \in Parts =>
                       \A o \in Outcomes : Settled(args[n], o) => callbacks[args[n]][o] = <<>>,
                    \A n \in DOMAIN args : args[n] \in Parts => \E o \in Outcomes : Settled(args[n], o),
                    \A o \in Outcomes : ~Settled(Master, o)
             PROVE  FALSE
  BY DEF WhenTells
<1>1. ~MasterSettled
  <2>1. Master \in Deferreds
    BY DEF Deferreds
  <2> QED
    BY <2>1, SettledFits DEF DeferredInv, SettledAsFits, MasterSettled
<1>2. PICK U \in SUBSET (DOMAIN args) : Untold(U)
  BY DEF WhenInv
<1>3. U # {}
  <2>1. count # 0
    BY <1>1 DEF WhenInv
  <2> QED
    BY <1>2, <2>1, FS_EmptySet DEF Untold
<1>4. PICK n \in U : TRUE
  BY <1>3
<1>5. Passed(n) /\ Gone(n)
  BY DEF Passed, Gone
<1>6. args[n] \in Parts /\ (Hung(n) \/ cancelled[args[n]]["done"])
  BY <1>2, <1>4, <1>5 DEF Untold
<1>7. Rejects(n) \/ cancelled[args[n]]["fail"]
  BY <1>1, <1>2, <1>4, <1>5, <1>6 DEF WhenInv, HangsRight
<1>8. args[n] \in Deferreds /\ "done" \in Outcomes /\ "fail" \in Outcomes
  BY <1>6 DEF Deferreds, Outcomes
<1>9. \A o \in Outcomes : Settled(args[n], o) => ~cancelled[args[n]][o]
  BY <1>8 DEF DeferredInv, OneWay
<1>10. ASSUME Settled(args[n], "done") PROVE FALSE
  <2>1. callbacks[args[n]]["done"] = <<>>
    BY <1>4, <1>6, <1>8, <1>10
  <2> QED
    BY <1>6, <1>8, <1>9, <1>10, <2>1, InEmpty DEF Hung
<1>11. ASSUME Settled(args[n], "fail") PROVE FALSE
  <2>1. callbacks[args[n]]["fail"] = <<>>
    BY <1>4, <1>6, <1>8, <1>11
  <2> QED
    BY <1>7, <1>8, <1>9, <1>11, <2>1, InEmpty DEF Rejects
<1> QED
  BY <1>4, <1>6, <1>10, <1>11 DEF Outcomes

\* What jQuery.when returns is resolved only when all parts are, with the value of each in its
\* place, and rejected only with the value of a part that is (jquery.js 919-956).
THEOREM WhenAllHolds == ASSUME DeferredConstants PROVE Spec => []WhenIsAll
  BY WhenInvHolds, RightAsAll, PTL

\* When every part is settled, has called what hangs on it and nothing is running, what
\* jQuery.when returned is settled too: no count is lost, whatever threw before (928-954).
THEOREM WhenTellsHolds == ASSUME DeferredConstants PROVE Spec => []WhenTells
  BY WhenInvHolds, RightTells, PTL

=============================================================================
