---------------------------- MODULE SeriesProofs ----------------------------
(* Proofs about Series: the points are in order, and none is missed if the        *)
(* periods are whole rows, for every number of layers and every decimation.  The  *)
(* facts about layers are by induction: LayerRows is recursive.                   *)
EXTENDS Series, WellFoundedInduction, TLAPS

\* A set of numbers that is not empty has a least one.
LEMMA Least ==
    ASSUME NEW S \in SUBSET Nat, S # {}
    PROVE  \E n \in S : \A m \in S : n <= m
<1> DEFINE R == OpToRel(<, Nat)
<1>1. IsWellFoundedOn(R, Nat)
  BY NatLessThanWellFounded
<1>2. \A x, y \in Nat : <<x, y>> \in R <=> x < y
  BY DEF OpToRel
<1> HIDE DEF R
<1>3. PICK n \in S : \A m \in S : ~ (<<m, n>> \in R)
  BY <1>1, WFMin
<1>4. ASSUME NEW m \in S PROVE n <= m
  <2>1. <<m, n>> \in R <=> m < n
    BY <1>2
  <2>2. ~ (m < n)
    BY <1>3, <2>1
  <2> QED
    BY <2>2
<1> QED
  BY <1>4

\* Induction, over a set.
LEMMA Induct ==
    ASSUME NEW S, 0 \in S, \A n \in Nat : n \in S => n + 1 \in S
    PROVE  Nat \subseteq S
<1> SUFFICES ASSUME Nat \ S # {} PROVE FALSE
  OBVIOUS
<1>1. PICK n \in Nat \ S : \A m \in Nat \ S : n <= m
  BY Least
<1>2. n # 0 /\ n - 1 \in Nat
  BY <1>1
<1>3. n - 1 \in S
  BY <1>1, <1>2
<1> QED
  BY <1>1, <1>2, <1>3

-----------------------------------------------------------------------------
LEMMA Times ==
    ASSUME NEW a \in Int, NEW b \in Int, NEW c \in Nat
    PROVE  /\ a <= b => a * c <= b * c
           /\ a * c < b * c => a < b
           /\ a < b /\ c # 0 => a * c < b * c
           /\ a * c \in Int
           /\ a >= 0 => a * c \in Nat
  OBVIOUS

LEMMA Division ==
    ASSUME NEW a \in Nat, NEW d \in Nat \ {0}
    PROVE  /\ a \div d \in Nat
           /\ (a \div d) * d <= a
           /\ a < (a \div d + 1) * d
  OBVIOUS

LEMMA DivAtLeast ==
    ASSUME NEW a \in Nat, NEW d \in Nat \ {0}, NEW q \in Nat, q * d <= a
    PROVE  q <= a \div d
<1> DEFINE p == a \div d
<1>1. p \in Nat /\ a < (p + 1) * d
  BY Division
<1> HIDE DEF p
<1>2. q * d < (p + 1) * d
  BY <1>1
<1>3. q < p + 1
  BY <1>1, <1>2, Times
<1>4. q <= p
  BY <1>1, <1>3
<1> QED
  BY <1>4 DEF p

LEMMA DivBelow ==
    ASSUME NEW a \in Nat, NEW d \in Nat \ {0}, NEW q \in Nat, a < q * d
    PROVE  a \div d < q
<1> DEFINE p == a \div d
<1>1. p \in Nat /\ p * d <= a
  BY Division
<1> HIDE DEF p
<1>2. p * d < q * d
  BY <1>1
<1>3. p < q
  BY <1>1, <1>2, Times
<1> QED
  BY <1>3 DEF p

LEMMA CeilIs ==
    ASSUME NEW n \in Nat, NEW d \in Nat \ {0}
    PROVE  /\ Ceil(n, d) \in Nat
           /\ Ceil(n, d) <= n
           /\ n # 0 => Ceil(n, d) # 0
           /\ Ceil(n, 1) = n
<1>1. n + d - 1 \in Nat /\ Ceil(n, d) = (n + d - 1) \div d
  BY DEF Ceil
<1>2. Ceil(n, d) \in Nat
  BY <1>1, Division
<1>3. Ceil(n, d) <= n
  <2>1. n + d - 1 < (n + 1) * d
    <3>1. n * 1 <= n * d
      OBVIOUS
    <3>2. (n + 1) * d = n * d + d
      OBVIOUS
    <3> QED
      BY <3>1, <3>2
  <2>2. Ceil(n, d) < n + 1
    BY <1>1, <2>1, DivBelow
  <2> QED
    BY <1>2, <2>2
<1>4. ASSUME n # 0 PROVE Ceil(n, d) # 0
  <2>1. 1 * d <= n + d - 1
    BY <1>4
  <2> QED
    BY <1>1, <2>1, DivAtLeast
<1>5. Ceil(n, 1) = n
  BY DEF Ceil
<1> QED
  BY <1>2, <1>3, <1>4, <1>5

LEMMA CeilGrows ==
    ASSUME NEW m \in Nat, NEW n \in Nat, m <= n, NEW d \in Nat \ {0}
    PROVE  Ceil(m, d) <= Ceil(n, d)
<1> DEFINE q == Ceil(m, d)
<1>1. m + d - 1 \in Nat /\ n + d - 1 \in Nat
  OBVIOUS
<1>2. q \in Nat /\ q * d <= m + d - 1
  BY <1>1, Division DEF Ceil
<1> HIDE DEF q
<1>3. q * d \in Int
  BY <1>2
<1>4. q * d <= n + d - 1
  BY <1>1, <1>2, <1>3
<1>5. q <= (n + d - 1) \div d
  BY <1>1, <1>2, <1>4, DivAtLeast
<1> QED
  BY <1>5 DEF Ceil, q

\* A row of the layer that is within the top-level rows.
LEMMA CeilAbove ==
    ASSUME NEW n \in Nat, NEW d \in Nat \ {0}, NEW q \in Nat, q * d < n
    PROVE  q < Ceil(n, d)
<1>1. q * d \in Nat /\ (q + 1) * d = q * d + d
  OBVIOUS
<1>2. (q + 1) * d <= n + d - 1
  BY <1>1
<1>3. q + 1 <= (n + d - 1) \div d /\ (n + d - 1) \div d \in Nat
  BY <1>2, DivAtLeast, Division
<1> QED
  BY <1>3 DEF Ceil

\* The row of a time within the range is within the table.
LEMMA RowInTable ==
    ASSUME NEW n \in Nat, NEW d \in Nat \ {0}, NEW t \in Nat, NEW i \in Nat \ {0}, t < n * i
    PROVE  t \div (i * d) < Ceil(n, d)
<1>1. i * d \in Nat \ {0}
  OBVIOUS
<1> DEFINE q == t \div (i * d)
<1>2. q \in Nat /\ q * (i * d) <= t
  BY <1>1, Division
<1> HIDE DEF q
<1>3. q * (i * d) = (q * d) * i /\ q * d \in Nat
  BY <1>2
<1>4. (q * d) * i < n * i
  BY <1>1, <1>2, <1>3
<1>5. q * d < n
  BY <1>3, <1>4, Times
<1> QED
  BY <1>2, <1>5, CeilAbove DEF q

-----------------------------------------------------------------------------
\* The rows of a layer follow from those of the layer above.
LEMMA LayerRowsIs ==
    LayerRows = [l \in Layers |->
                    IF l = 0 THEN 1 ELSE LayerRows[l - 1] * Decimation[l - 1]]
<1> DEFINE Good(g, n) == g = [l \in 0..n |-> IF l = 0 THEN 1 ELSE g[l - 1] * Decimation[l - 1]]
           S == {n \in Nat : n <= LastLayer => \E g : Good(g, n)}
<1>1. 0 \in S
  <2>1. Good([l \in 0..0 |-> 1], 0)
    OBVIOUS
  <2> QED
    BY <2>1
<1>2. ASSUME NEW n \in Nat, n \in S PROVE n + 1 \in S
  <2> SUFFICES ASSUME n + 1 <= LastLayer PROVE \E g : Good(g, n + 1)
    OBVIOUS
  <2>1. PICK g : Good(g, n)
    BY <1>2, SeriesAssumption
  <2> DEFINE h == [l \in 0..n+1 |-> IF l = n + 1 THEN g[n] * Decimation[n] ELSE g[l]]
  <2>2. ASSUME NEW l \in 0..n+1
        PROVE  h[l] = IF l = 0 THEN 1 ELSE h[l - 1] * Decimation[l - 1]
    <3>1. CASE l = n + 1
      BY <3>1
    <3>2. CASE l # n + 1
      <4>1. l \in 0..n /\ h[l] = g[l] /\ (l # 0 => l - 1 \in 0..n /\ h[l - 1] = g[l - 1])
        BY <3>2
      <4>2. g[l] = IF l = 0 THEN 1 ELSE g[l - 1] * Decimation[l - 1]
        BY <2>1, <4>1, Zenon
      <4> QED
        BY <4>1, <4>2
    <3> QED
      BY <3>1, <3>2
  <2> HIDE DEF h
  <2>3. h = [l \in 0..n+1 |-> h[l]]
    BY DEF h
  <2>4. Good(h, n + 1)
    BY <2>2, <2>3
  <2> QED
    BY <2>4
<1> HIDE DEF S
<1>3. Nat \subseteq S
  BY <1>1, <1>2, Induct
<1>4. LastLayer \in S
  BY <1>3, SeriesAssumption
<1>5. \E g : Good(g, LastLayer)
  BY <1>4, SeriesAssumption DEF S
<1> QED
  BY <1>5, Zenon DEF LayerRows, Layers

LEMMA LayerRowsType ==
    /\ \A l \in Layers : LayerRows[l] \in Nat \ {0}
    /\ LayerRows[0] = 1
<1> DEFINE S == {n \in Nat : n <= LastLayer => LayerRows[n] \in Nat \ {0}}
<1>1. \A l \in Layers :
          LayerRows[l] = IF l = 0 THEN 1 ELSE LayerRows[l - 1] * Decimation[l - 1]
  BY LayerRowsIs, Zenon
<1>2. 0 \in Layers
  BY SeriesAssumption DEF Layers
<1>3. LayerRows[0] = 1
  BY <1>1, <1>2
<1>4. 0 \in S
  BY <1>3
<1>5. ASSUME NEW n \in Nat, n \in S PROVE n + 1 \in S
  <2> SUFFICES ASSUME n + 1 <= LastLayer PROVE LayerRows[n + 1] \in Nat \ {0}
    OBVIOUS
  <2>1. n + 1 \in Layers /\ n \in 0..LastLayer-1 /\ LayerRows[n] \in Nat \ {0}
    BY <1>5, SeriesAssumption DEF Layers
  <2>2. LayerRows[n + 1] = LayerRows[n] * Decimation[n]
    BY <1>1, <2>1
  <2>3. Decimation[n] \in Nat \ {0}
    BY <2>1, SeriesAssumption
  <2> QED
    BY <2>1, <2>2, <2>3
<1> HIDE DEF S
<1>6. Nat \subseteq S
  BY <1>4, <1>5, Induct
<1>7. \A l \in Layers : l \in S /\ l \in Nat /\ l <= LastLayer
  BY <1>6, SeriesAssumption DEF Layers
<1>8. \A l \in Layers : LayerRows[l] \in Nat \ {0}
  BY <1>7 DEF S
<1> QED
  BY <1>3, <1>8

LEMMA LayerIntervalType ==
    \A l \in Layers : LayerInterval(l) \in Nat \ {0}
BY LayerRowsType, SeriesAssumption DEF LayerInterval

\* There is a layer for every output interval.
LEMMA LayerForType ==
    ASSUME NEW out \in Nat
    PROVE  LayerFor(out) \in Layers
<1> DEFINE Coarse(l) == l = LastLayer \/ LayerInterval(l + 1) > out
           Fits(l) == Coarse(l) /\ \A k \in 0..l-1 : LayerInterval(k + 1) <= out
           S == {l \in Nat : l \in Layers /\ Coarse(l)}
<1>1. LastLayer \in S
  BY SeriesAssumption DEF Layers
<1> HIDE DEF S
<1>2. S \in SUBSET Nat /\ S # {}
  BY <1>1 DEF S
<1>3. PICK l \in S : \A m \in S : l <= m
  BY <1>2, Least
<1>4. l \in Layers /\ Coarse(l) /\ l \in Nat /\ l <= LastLayer
  BY SeriesAssumption DEF S, Layers
<1>5. ASSUME NEW k \in 0..l-1 PROVE LayerInterval(k + 1) <= out
  <2>1. k \in Nat /\ k \in Layers /\ k + 1 \in Layers /\ ~ (l <= k)
    BY <1>4, SeriesAssumption DEF Layers
  <2>2. k \notin S
    BY <1>3, <2>1
  <2>3. ~ (LayerInterval(k + 1) > out)
    BY <2>1, <2>2 DEF S
  <2>4. LayerInterval(k + 1) \in Nat
    BY <2>1, LayerIntervalType
  <2> QED
    BY <2>3, <2>4
<1>6. Fits(l)
  BY <1>4, <1>5
<1>7. \E x \in Layers : Fits(x)
  BY <1>4, <1>6
<1>8. LayerFor(out) = CHOOSE x \in Layers : Fits(x)
  BY Zenon DEF LayerFor
<1> QED
  BY <1>7, <1>8, Zenon

-----------------------------------------------------------------------------
(* The invariant.                                                              *)

\* A committed row is in the table of every layer, and no table is ahead of the
\* top-level one.
Tables ==
    /\ npoints # 0
    /\ \A l \in Layers : Ceil(npoints, LayerRows[l]) <= rows[l] /\ rows[l] <= Ceil(rows[0], LayerRows[l])
    /\ gaps \subseteq 0..rows[0]-1

Running == pc \in {"check", "read"}

Averaged ==
    naverage = IF out_interval > LayerInterval(layer) THEN out_interval \div LayerInterval(layer) ELSE 1

\* The output times that are left are within the request.
OnItsWay ==
    /\ request.n # 0 /\ request.start <= request.end
    /\ left <= Outputs(request)
    /\ Averaged
    /\ left > 0 => start >= request.start /\ start + (left - 1) * out_interval <= request.end
    /\ DOMAIN layer_values = 1..naverage
    /\ request.n > 1 => out_interval # 0 /\ start = request.start + (Outputs(request) - left) * out_interval

\* The points lie before the current time, an output interval apart.
PointsInTurn ==
    /\ Len(points) + left <= request.n
    /\ out_interval = 0 => Len(points) + left <= 1
    /\ \A i \in DOMAIN points :
          /\ points[i].time >= request.start /\ points[i].time <= request.end
          /\ points[i].time >= StartTime /\ points[i].time + out_interval <= start
          /\ points[i].at = (points[i].time - StartTime) \div LayerInterval(layer)
    /\ \A i, j \in DOMAIN points : i < j => points[i].time + out_interval <= points[j].time
    /\ points # <<>> => Averaged

SeriesI ==
    /\ TypeOK
    /\ Tables
    /\ pc = "idle" => points = <<>> /\ left = 0
    /\ Running => OnItsWay
    /\ pc = "read" => left > 0 /\ InRange
    /\ PointsInTurn

-----------------------------------------------------------------------------
(* The writer.                                                                 *)

\* What the writer may do while a request is on its way.
Grows ==
    /\ TypeOK' /\ Tables'
    /\ npoints <= npoints' /\ rows[0] <= rows'[0]
    /\ \A l \in Layers : rows[l] <= rows'[l]
    /\ gaps' \subseteq gaps \union (rows[0]..MaxRows)
    /\ UNCHANGED <<plan, pc, start, left, layer_values, points>>

LEMMA WriterGrows ==
    ASSUME TypeOK, Tables, Writer
    PROVE  Grows
<1> USE SeriesAssumption
<1>1. /\ npoints \in Nat /\ npoints <= MaxRows /\ MaxRows \in Nat
      /\ rows \in [Layers -> 0..MaxRows] /\ 0 \in Layers
      /\ npoints <= rows[0] /\ rows[0] \in Nat /\ rows[0] <= MaxRows
  <2>1. 0 \in Layers /\ npoints \in Nat /\ rows[0] \in Nat
    BY DEF TypeOK, Layers
  <2>2. Ceil(npoints, LayerRows[0]) = npoints
    BY <2>1, LayerRowsType, CeilIs
  <2> QED
    BY <2>1, <2>2 DEF TypeOK, Tables
<1>2. UNCHANGED <<plan, pc, start, left, layer_values, points>>
  BY DEF Writer, Extend, Fill, ExtendBelow, Commit
<1>3. \A l \in Layers : LayerRows[l] \in Nat \ {0} /\ Ceil(rows[0], LayerRows[l]) \in Nat
                        /\ Ceil(rows[0], LayerRows[l]) <= rows[0]
  BY <1>1, LayerRowsType, CeilIs
<1>4. CASE Extend
  <2>1. PICK n \in npoints+1..MaxRows :
            /\ rows' = [rows EXCEPT ![0] = n]
            /\ \E G \in {{}, {n - 1}} : gaps' = gaps \union (npoints..n-2) \union G
    BY <1>4 DEF Extend
  <2>2. npoints' = npoints /\ rows[0] = npoints
    BY <1>4 DEF Extend
  <2>3. /\ rows' \in [Layers -> 0..MaxRows] /\ rows'[0] = n
        /\ \A l \in Layers : l # 0 => rows'[l] = rows[l]
    BY <1>1, <2>1
  <2>4. gaps' \subseteq gaps \union (rows[0]..MaxRows) /\ gaps' \subseteq 0..n-1
    <3>1. PICK G \in {{}, {n - 1}} : gaps' = gaps \union (npoints..n-2) \union G
      BY <2>1
    <3>2. rows[0] = npoints /\ gaps \subseteq 0..npoints-1 /\ n \in Nat /\ npoints < n /\ n <= MaxRows
      BY <1>1, <2>2 DEF Tables
    <3>3. ASSUME NEW k \in gaps'
          PROVE  k \in 0..n-1 /\ (k \in gaps \/ k \in rows[0]..MaxRows)
      <4>1. k \in gaps \/ k \in npoints..n-2 \/ k = n - 1
        BY <3>1
      <4>2. CASE k \in gaps
        BY <1>1, <3>2, <4>2
      <4>3. CASE k \in npoints..n-2 \/ k = n - 1
        BY <1>1, <3>2, <4>3
      <4> QED
        BY <4>1, <4>2, <4>3
    <3> QED
      BY <3>3
  <2>5. ASSUME NEW l \in Layers
        PROVE  Ceil(npoints, LayerRows[l]) <= rows'[l] /\ rows'[l] <= Ceil(n, LayerRows[l])
    <3>1. CASE l = 0
      BY <1>1, <2>1, <2>3, <3>1, LayerRowsType, CeilIs
    <3>2. CASE l # 0
      <4>1. Ceil(npoints, LayerRows[l]) <= rows[l] /\ rows[l] <= Ceil(rows[0], LayerRows[l])
        BY DEF Tables
      <4>2. Ceil(rows[0], LayerRows[l]) <= Ceil(n, LayerRows[l])
        <5>1. n \in Nat /\ rows[0] \in Nat /\ rows[0] <= n
          BY <1>1, <2>2
        <5> QED
          BY <1>1, <1>3, <5>1, CeilGrows
      <4>3. Ceil(n, LayerRows[l]) \in Nat
        <5>1. n \in Nat
          BY <1>1
        <5> QED
          BY <1>3, <5>1, CeilIs
      <4> QED
        BY <1>1, <1>3, <2>3, <3>2, <4>1, <4>2, <4>3
    <3> QED
      BY <3>1, <3>2
  <2>6. Tables'
    BY <2>2, <2>3, <2>4, <2>5 DEF Tables
  <2>7. TypeOK'
    BY <1>1, <1>2, <2>1, <2>2, <2>3, <2>4, SMTT(60) DEF TypeOK, plan
  <2> QED
    BY <1>1, <1>2, <2>1, <2>2, <2>3, <2>4, <2>6, <2>7 DEF Grows
<1>5. ASSUME NEW r \in 0..MaxRows-1, Fill(r) PROVE Grows
  BY <1>1, <1>2, <1>5 DEF Fill, Grows, TypeOK, Tables, plan
<1>6. ASSUME NEW l \in 1..LastLayer, ExtendBelow(l) PROVE Grows
  <2>1. l \in Layers /\ l # 0
    BY DEF Layers
  <2>2. npoints' = npoints /\ gaps' = gaps /\ rows' = [rows EXCEPT ![l] = Ceil(rows[0], LayerRows[l])]
    BY <1>6 DEF ExtendBelow
  <2>3. rows' \in [Layers -> 0..MaxRows] /\ rows'[0] = rows[0]
    BY <1>1, <1>3, <2>1, <2>2
  <2>4. rows[l] < rows'[l] /\ rows'[l] = Ceil(rows[0], LayerRows[l])
    BY <1>1, <1>6, <2>1, <2>2 DEF ExtendBelow
  <2>5. \A k \in Layers : k # l => rows'[k] = rows[k]
    BY <1>1, <2>2
  <2>6. ASSUME NEW k \in Layers
        PROVE  Ceil(npoints, LayerRows[k]) <= rows'[k] /\ rows'[k] <= Ceil(rows[0], LayerRows[k])
    <3>1. Ceil(npoints, LayerRows[k]) <= Ceil(rows[0], LayerRows[k])
      BY <1>1, <1>3, CeilGrows
    <3> QED
      BY <1>3, <2>4, <2>5, <3>1 DEF Tables
  <2>7. Tables'
    BY <2>2, <2>3, <2>6 DEF Tables
  <2>8. TypeOK'
    BY <1>2, <2>2, <2>3 DEF TypeOK, plan
  <2> QED
    BY <1>1, <1>2, <2>2, <2>3, <2>4, <2>5, <2>7, <2>8 DEF Grows
<1>7. CASE Commit
  <2>1. npoints' = rows[0] /\ UNCHANGED <<rows, gaps>> /\ npoints < rows[0]
    BY <1>7 DEF Commit
  <2>2. \A l \in Layers : rows[l] = Ceil(rows[0], LayerRows[l])
    BY <1>7 DEF Commit
  <2>3. Tables'
    BY <1>1, <1>3, <2>1, <2>2 DEF Tables
  <2>4. TypeOK'
    BY <1>1, <1>2, <2>1 DEF TypeOK, plan
  <2> QED
    BY <1>1, <1>2, <2>1, <2>3, <2>4 DEF Grows
<1> QED
  BY <1>4, <1>5, <1>6, <1>7 DEF Writer

LEMMA GrowsKeeps ==
    ASSUME SeriesI, Grows
    PROVE  SeriesI'
<1>1. UNCHANGED <<request, out_interval, layer, naverage, pc, start, left, layer_values, points>>
  BY DEF Grows, plan
<1>2. Running' = Running /\ OnItsWay' = OnItsWay /\ PointsInTurn' = PointsInTurn
  BY <1>1 DEF Running, OnItsWay, PointsInTurn, Averaged
<1>3. InRange => InRange'
  <2>1. npoints \in Nat /\ npoints' \in Nat /\ npoints <= npoints' /\ start \in Nat
    BY SeriesAssumption DEF Grows, SeriesI, TypeOK
  <2>2. \A a, b \in Nat : a <= b => a * Interval <= b * Interval /\ a * Interval \in Nat /\ b * Interval \in Nat
    BY SeriesAssumption
  <2>3. npoints * Interval <= npoints' * Interval /\ npoints * Interval \in Nat /\ npoints' * Interval \in Nat
    BY <2>1, <2>2
  <2>4. start' = start /\ StartTime \in Nat
    BY <1>1, SeriesAssumption
  <2> DEFINE a == npoints * Interval
             b == npoints' * Interval
  <2>5. InRange <=> (start >= StartTime /\ start < StartTime + a)
    BY DEF InRange
  <2>6. InRange' <=> (start >= StartTime /\ start < StartTime + b)
    BY <2>4 DEF InRange
  <2>7. a \in Nat /\ b \in Nat /\ a <= b
    BY <2>3
  <2> HIDE DEF a, b
  <2> QED
    BY <2>1, <2>4, <2>5, <2>6, <2>7
<1> QED
  BY <1>1, <1>2, <1>3 DEF SeriesI, Grows

-----------------------------------------------------------------------------
(* The reader.                                                                 *)

LEMMA RequestType ==
    ASSUME npoints \in Nat, NEW s \in Starts, NEW e \in Ends, NEW n \in Counts
    PROVE  Request(s, e, n) \in [start : Nat, end : Nat, n : Nat] /\ Request(s, e, n).n = n
<1> DEFINE from == IF s = NoTime THEN StartTime ELSE s
<1>1. from \in Nat
  BY SeriesAssumption
<1> HIDE DEF from
<1>2. from + npoints * Interval \in Nat
  BY <1>1, SeriesAssumption
<1>3. (IF e = NoTime THEN from + npoints * Interval ELSE e) \in Nat
  BY <1>2, SeriesAssumption
<1> QED
  BY <1>1, <1>3, SeriesAssumption DEF Request, from

LEMMA RefuseKeeps ==
    ASSUME SeriesI, NEW s \in Starts, NEW e \in Ends, NEW n \in Counts, Refuse(s, e, n)
    PROVE  SeriesI'
<1>1. npoints \in Nat /\ n \in Nat
  BY SeriesAssumption DEF SeriesI, TypeOK
<1>2. request' \in [start : Nat, end : Nat, n : Nat] /\ request'.n = n
  BY <1>1, RequestType DEF Refuse
<1>3. /\ pc = "idle" /\ pc' = "done" /\ points = <<>> /\ left = 0
      /\ UNCHANGED <<npoints, rows, gaps, out_interval, layer, naverage, known>>
      /\ UNCHANGED <<start, left, layer_values, points>>
  BY DEF Refuse, SeriesI, node
<1>4. TypeOK' /\ Tables'
  BY <1>2, <1>3 DEF SeriesI, TypeOK, Tables
<1>5. PointsInTurn'
  BY <1>1, <1>2, <1>3 DEF PointsInTurn
<1> QED
  BY <1>3, <1>4, <1>5 DEF SeriesI, Running

\* The output times of a request that is not refused: no more than there is room for,
\* and the last of them not after the end.
LEMMA OutputTimes ==
    ASSUME NEW q \in [start : Nat, end : Nat, n : Nat], q.start <= q.end, q.n > 1,
           NEW out, out = IF Tight(q) THEN 1 ELSE Span(q) \div (q.n - 1)
    PROVE  /\ out \in Nat \ {0} /\ Outputs(q) \in Nat \ {0} /\ Outputs(q) <= q.n
           /\ q.start + (Outputs(q) - 1) * out <= q.end
<1>1. Span(q) \in Nat /\ q.n - 1 \in Nat \ {0} /\ q.end = q.start + Span(q)
  BY DEF Span
<1>2. CASE Tight(q)
  BY <1>1, <1>2 DEF Tight, Outputs
<1>3. CASE ~ Tight(q)
  <2>1. Span(q) >= q.n - 1 /\ Outputs(q) = q.n /\ out = Span(q) \div (q.n - 1)
    BY <1>1, <1>3 DEF Tight, Outputs
  <2>2. out \in Nat /\ out * (q.n - 1) <= Span(q)
    BY <1>1, <2>1, Division
  <2>3. 1 <= out
    BY <1>1, <2>1, DivAtLeast
  <2>4. (q.n - 1) * out = out * (q.n - 1)
    BY <1>1, <2>2
  <2> QED
    BY <1>1, <2>1, <2>2, <2>3, <2>4
<1> QED
  BY <1>2, <1>3

LEMMA BeginKeeps ==
    ASSUME SeriesI, NEW s \in Starts, NEW e \in Ends, NEW n \in Counts, Begin(s, e, n)
    PROVE  SeriesI'
<1> DEFINE q == Request(s, e, n)
           out == IF n = 1 THEN 0 ELSE IF Tight(q) THEN 1 ELSE Span(q) \div (n - 1)
           l == LayerFor(out)
<1>1. npoints \in Nat /\ n \in Nat /\ n # 0 /\ npoints <= MaxRows /\ MaxRows \in Nat
  BY SeriesAssumption DEF SeriesI, TypeOK, Begin
<1>2. q \in [start : Nat, end : Nat, n : Nat] /\ q.n = n
  BY <1>1, RequestType
<1>3. /\ request' = q /\ Span(q) >= 0
      /\ start' = IF n = 1 THEN (q.start + q.end) \div 2 ELSE q.start
      /\ left' = Outputs(q) /\ out_interval' = out /\ layer' = l
      /\ known' = KnownRows(l)
      /\ naverage' = IF out > LayerInterval(l) THEN out \div LayerInterval(l) ELSE 1
      /\ layer_values' \in [1..naverage' -> {Unknown, Junk}]
      /\ pc' = "check" /\ points' = <<>>
      /\ UNCHANGED <<npoints, rows, gaps>>
  BY DEF Begin, SeriesI, node
<1> HIDE DEF q
<1>4. q.start \in Nat /\ q.end \in Nat /\ q.start <= q.end
  BY <1>2, <1>3 DEF Span
<1>5. n # 1 => /\ out \in Nat \ {0} /\ Outputs(q) \in Nat \ {0} /\ Outputs(q) <= n
               /\ q.start + (Outputs(q) - 1) * out <= q.end
  <2> SUFFICES ASSUME n # 1
               PROVE  /\ out \in Nat \ {0} /\ Outputs(q) \in Nat \ {0} /\ Outputs(q) <= n
                      /\ q.start + (Outputs(q) - 1) * out <= q.end
    OBVIOUS
  <2>1. q.n > 1 /\ out = IF Tight(q) THEN 1 ELSE Span(q) \div (q.n - 1)
    BY <1>1, <1>2
  <2> QED
    BY <1>2, <1>4, <2>1, OutputTimes
<1>6. n = 1 => out = 0 /\ Outputs(q) = 1
  BY <1>1, <1>2 DEF Outputs, Tight
<1> HIDE DEF out
<1>7. out \in Nat /\ Outputs(q) \in Nat \ {0} /\ Outputs(q) <= n
  BY <1>1, <1>5, <1>6
<1>8. l \in Layers /\ LayerInterval(l) \in Nat \ {0} /\ LayerRows[l] \in Nat \ {0}
  BY <1>7, LayerForType, LayerIntervalType, LayerRowsType
<1> HIDE DEF l
<1>9. naverage' \in Nat
  BY <1>3, <1>7, <1>8, Division
<1>10. start' \in Nat /\ start' >= q.start /\ start' <= q.end
  BY <1>3, <1>4
<1>11. known' \subseteq 0..MaxRows-1
  <2>1. Ceil(npoints, LayerRows[l]) \in Nat /\ Ceil(npoints, LayerRows[l]) <= npoints
    BY <1>1, <1>8, CeilIs
  <2> QED
    BY <1>1, <1>3, <2>1 DEF KnownRows
<1>12. TypeOK'
  <2>1. layer_values' \in Seq(Nat \union {Unknown, Junk})
    BY <1>3, <1>9
  <2>2. points' \in Seq([time : Nat, at : Nat, of : SUBSET (Nat \union {Junk})])
    BY <1>3
  <2> QED
    BY <1>2, <1>3, <1>7, <1>8, <1>9, <1>10, <1>11, <2>1, <2>2 DEF SeriesI, TypeOK
<1>13. Tables'
  BY <1>3 DEF SeriesI, Tables
<1>14. OnItsWay'
  <2>1. Averaged'
    BY <1>3 DEF Averaged
  <2>2. DOMAIN layer_values' = 1..naverage'
    BY <1>3
  <2>3. start' + (left' - 1) * out_interval' <= request'.end
    <3>1. CASE n = 1
      BY <1>3, <1>6, <1>10, <3>1, <1>4
    <3>2. CASE n # 1
      BY <1>3, <1>5, <3>2
    <3> QED
      BY <3>1, <3>2
  <2>4. request'.n > 1 =>
            /\ out_interval' # 0
            /\ start' = request'.start + (Outputs(request') - left') * out_interval'
    BY <1>1, <1>2, <1>3, <1>4, <1>5, <1>7
  <2> QED
    BY <1>1, <1>2, <1>3, <1>4, <1>7, <1>10, <2>1, <2>2, <2>3, <2>4 DEF OnItsWay
<1>15. PointsInTurn'
  BY <1>1, <1>2, <1>3, <1>5, <1>6, <1>7 DEF PointsInTurn
<1> QED
  BY <1>3, <1>12, <1>13, <1>14, <1>15 DEF SeriesI

LEMMA IsFunction ==
    ASSUME NEW T, NEW s \in Seq(T)
    PROVE  /\ Len(s) \in Nat /\ DOMAIN s = 1..Len(s)
           /\ \A i \in DOMAIN s : s[i] \in T
           /\ s \in [DOMAIN s -> T]
<1>1. Len(s) \in Nat /\ s \in [1..Len(s) -> T]
  OBVIOUS
<1>2. DOMAIN s = 1..Len(s)
  BY <1>1
<1> QED
  BY <1>1, <1>2

LEMMA PointType ==
    ASSUME points \in Seq([time : Nat, at : Nat, of : SUBSET (Nat \union {Junk})])
    PROVE  \A i \in DOMAIN points : points[i].time \in Nat /\ points[i].at \in Nat
<1>1. \A i \in DOMAIN points : points[i] \in [time : Nat, at : Nat, of : SUBSET (Nat \union {Junk})]
  BY IsFunction
<1> QED
  BY <1>1

\* One output time less.
LEMMA AdvanceIsOnItsWay ==
    ASSUME SeriesI, pc \in {"check", "read"}, left > 0, Advance,
           UNCHANGED <<request, out_interval, layer, naverage>>,
           DOMAIN layer_values' = 1..naverage
    PROVE  OnItsWay' /\ start' \in Nat /\ left' \in Nat
<1>1. /\ OnItsWay /\ left \in Nat /\ start \in Nat /\ out_interval \in Nat
      /\ request \in [start : Nat, end : Nat, n : Nat]
  BY DEF SeriesI, Running, TypeOK
<1>2. left' = left - 1 /\ left' \in Nat /\ start' = start + out_interval /\ start' \in Nat
  BY <1>1 DEF Advance
<1>3. (left - 1) * out_interval = out_interval + (left' - 1) * out_interval
  BY <1>1, <1>2
<1>4. (left' - 1) * out_interval \in Int
  BY <1>1, <1>2
<1>5. left' > 0 => start' >= request.start /\ start' + (left' - 1) * out_interval <= request.end
  BY <1>1, <1>2, <1>3, <1>4 DEF OnItsWay
<1>6. request.n > 1 => start' = request.start + (Outputs(request) - left') * out_interval
  <2> SUFFICES ASSUME request.n > 1
               PROVE  start' = request.start + (Outputs(request) - left') * out_interval
    OBVIOUS
  <2>1. Outputs(request) \in Int
    BY <1>1 DEF Outputs, Span
  <2> DEFINE a == Outputs(request) - left
  <2>2. a \in Int /\ Outputs(request) - left' = a + 1
    BY <1>1, <1>2, <2>1
  <2>3. start = request.start + a * out_interval
    BY <1>1 DEF OnItsWay
  <2> HIDE DEF a
  <2>4. (a + 1) * out_interval = a * out_interval + out_interval /\ a * out_interval \in Int
    BY <1>1, <2>2
  <2> QED
    BY <1>1, <1>2, <2>2, <2>3, <2>4
<1>7. left' <= Outputs(request)
  <2>1. Outputs(request) \in Int
    BY <1>1 DEF Outputs, Span
  <2> QED
    BY <1>1, <1>2, <2>1 DEF OnItsWay
<1>8. Averaged'
  BY <1>1 DEF OnItsWay, Averaged
<1> QED
  BY <1>1, <1>2, <1>5, <1>6, <1>7, <1>8 DEF OnItsWay

LEMMA StillInTurn ==
    ASSUME SeriesI, Advance, UNCHANGED <<request, out_interval, layer, naverage, points>>
    PROVE  PointsInTurn'
<1>1. /\ left \in Nat /\ start \in Nat /\ out_interval \in Nat /\ request.n \in Nat
      /\ points \in Seq([time : Nat, at : Nat, of : SUBSET (Nat \union {Junk})])
  BY DEF SeriesI, TypeOK
<1>2. left' = left - 1 /\ start' = start + out_interval
  BY DEF Advance
<1>3. Len(points) \in Nat /\ \A i \in DOMAIN points : points[i].time \in Nat
  BY <1>1, PointType
<1> QED
  BY <1>1, <1>2, <1>3, SMTT(60) DEF SeriesI, PointsInTurn, Averaged

LEMMA SkipKeeps ==
    ASSUME SeriesI, Skip
    PROVE  SeriesI'
<1>1. /\ pc = "check" /\ left > 0 /\ Advance /\ pc' = pc
      /\ UNCHANGED <<npoints, rows, gaps, request, out_interval, layer, naverage, known>>
      /\ UNCHANGED <<layer_values, points>>
  BY DEF Skip, node, plan
<1>2. OnItsWay' /\ start' \in Nat /\ left' \in Nat
  <2>1. DOMAIN layer_values' = 1..naverage
    BY <1>1 DEF SeriesI, Running, OnItsWay
  <2> QED
    BY <1>1, <2>1, AdvanceIsOnItsWay
<1>3. TypeOK' /\ Tables'
  BY <1>1, <1>2 DEF SeriesI, TypeOK, Tables
<1>4. PointsInTurn'
  BY <1>1, StillInTurn
<1> QED
  BY <1>1, <1>2, <1>3, <1>4 DEF SeriesI

LEMMA PassKeeps ==
    ASSUME SeriesI, Seek \/ FailRead \/ Finish
    PROVE  SeriesI'
<1>1. /\ UNCHANGED <<npoints, rows, gaps, request, out_interval, layer, naverage, known>>
      /\ UNCHANGED <<start, left, layer_values, points>>
  BY DEF Seek, FailRead, Finish, node, plan
<1>2. \/ pc = "check" /\ pc' = "read" /\ left > 0 /\ InRange
      \/ pc' \in {"failed", "done"}
  BY DEF Seek, FailRead, Finish
<1>3. TypeOK' /\ Tables'
  BY <1>1, <1>2 DEF SeriesI, TypeOK, Tables
<1>4. OnItsWay' = OnItsWay /\ PointsInTurn' = PointsInTurn
  BY <1>1 DEF OnItsWay, PointsInTurn, Averaged
<1>5. InRange' = InRange
  BY <1>1 DEF InRange
<1> QED
  BY <1>1, <1>2, <1>3, <1>4, <1>5 DEF SeriesI, Running

LEMMA Appended ==
    ASSUME NEW T, NEW s \in Seq(T), NEW x \in T
    PROVE  /\ Append(s, x) \in Seq(T)
           /\ Len(Append(s, x)) = Len(s) + 1 /\ Len(s) \in Nat
           /\ DOMAIN Append(s, x) = DOMAIN s \union {Len(s) + 1}
           /\ \A i \in DOMAIN s : Append(s, x)[i] = s[i]
           /\ Append(s, x)[Len(s) + 1] = x
           /\ DOMAIN s = 1..Len(s)
  OBVIOUS

LEMMA ReadKeeps ==
    ASSUME SeriesI, Read
    PROVE  SeriesI'
<1> DEFINE valid == {layer_values'[k] : k \in 1..naverage} \ {Unknown}
           T == [time : Nat, at : Nat, of : SUBSET (Nat \union {Junk})]
           p == [time |-> start, at |-> point, of |-> valid]
<1>1. /\ pc = "read" /\ pc' = "check" /\ Advance
      /\ UNCHANGED <<npoints, rows, gaps, request, out_interval, layer, naverage, known>>
      /\ points' = IF valid = {} THEN points ELSE Append(points, p)
      /\ layer_values' = [k \in 1..naverage |->
                             IF point + k <= rows[layer] THEN Cell(point + k - 1) ELSE layer_values[k]]
  BY DEF Read, node, plan
<1>2. /\ OnItsWay /\ left > 0 /\ InRange /\ PointsInTurn
      /\ left \in Nat /\ start \in Nat /\ out_interval \in Nat /\ naverage \in Nat
      /\ request \in [start : Nat, end : Nat, n : Nat]
      /\ points \in Seq(T) /\ layer \in Layers /\ rows[layer] \in Nat
  BY <1>1, SeriesAssumption DEF SeriesI, Running, TypeOK
<1>3. point \in Nat /\ start - StartTime \in Nat
  <2>1. start - StartTime \in Nat /\ LayerInterval(layer) \in Nat \ {0}
    BY <1>2, SeriesAssumption, LayerIntervalType DEF InRange
  <2> QED
    BY <2>1, Division DEF point
<1>4. layer_values' \in [1..naverage -> Nat \union {Unknown, Junk}]
  <2>1. layer_values \in [1..naverage -> Nat \union {Unknown, Junk}]
    <3>1. layer_values \in Seq(Nat \union {Unknown, Junk}) /\ DOMAIN layer_values = 1..naverage
      BY <1>2 DEF SeriesI, TypeOK, OnItsWay
    <3> QED
      BY <3>1, IsFunction
  <2>2. ASSUME NEW k \in 1..naverage
        PROVE  (IF point + k <= rows[layer] THEN Cell(point + k - 1) ELSE layer_values[k])
                   \in Nat \union {Unknown, Junk}
    <3>1. point + k - 1 \in Nat
      BY <1>3
    <3> QED
      BY <2>1, <3>1 DEF Cell
  <2> HIDE DEF valid, p
  <2> QED
    BY <1>1, <2>2
<1>5. valid \in SUBSET (Nat \union {Junk})
  BY <1>4
<1> HIDE DEF valid
<1>6. p \in T
  BY <1>2, <1>3, <1>5
<1>7. OnItsWay' /\ start' \in Nat /\ left' \in Nat
  <2>1. DOMAIN layer_values' = 1..naverage
    BY <1>4
  <2> QED
    BY <1>1, <1>2, <2>1, AdvanceIsOnItsWay
<1>8. points' \in Seq(T)
  <2> HIDE DEF T, p
  <2>1. Append(points, p) \in Seq(T)
    BY <1>2, <1>6, Appended
  <2> QED
    BY <1>1, <1>2, <2>1
<1>9. layer_values' \in Seq(Nat \union {Unknown, Junk})
  BY <1>2, <1>4
<1>10. TypeOK' /\ Tables'
  BY <1>1, <1>7, <1>8, <1>9 DEF SeriesI, TypeOK, Tables
<1>11. left' = left - 1 /\ start' = start + out_interval
  BY <1>1 DEF Advance
<1>12. Len(points) \in Nat /\ \A i \in DOMAIN points : points[i].time \in Nat
  BY <1>2, PointType
<1>13. start >= request.start /\ start <= request.end /\ start >= StartTime /\ Averaged
  <2> DEFINE a == (left - 1) * out_interval
  <2>1. a \in Nat
    BY <1>2
  <2>2. start >= request.start /\ start + a <= request.end /\ Averaged
    BY <1>2 DEF OnItsWay
  <2> HIDE DEF a
  <2>3. start <= request.end
    BY <1>2, <2>1, <2>2
  <2> QED
    BY <1>2, <2>2, <2>3 DEF InRange
<1>14. PointsInTurn'
  <2>1. CASE valid = {}
    <3>1. points' = points
      BY <1>1, <2>1
    <3> QED
      BY <1>1, <3>1, StillInTurn
  <2>2. CASE valid # {}
    <3>1. points' = Append(points, p)
      BY <1>1, <2>2
    <3>2. /\ Len(points') = Len(points) + 1 /\ Len(points) \in Nat
          /\ DOMAIN points' = DOMAIN points \union {Len(points) + 1}
          /\ \A i \in DOMAIN points : points'[i] = points[i]
          /\ points'[Len(points) + 1] = p
          /\ DOMAIN points = 1..Len(points)
      BY <1>2, <1>6, <3>1, Appended, SMTT(60)
    <3>3. p.time = start /\ p.at = point
      OBVIOUS
    <3> HIDE DEF p
    <3>4. Len(points') + left' <= request'.n /\ (out_interval' = 0 => Len(points') + left' <= 1)
      BY <1>1, <1>2, <1>11, <3>2 DEF PointsInTurn
    <3>5. ASSUME NEW i \in DOMAIN points'
          PROVE  /\ points'[i].time >= request.start /\ points'[i].time <= request.end
                 /\ points'[i].time >= StartTime /\ points'[i].time + out_interval <= start'
                 /\ points'[i].at = (points'[i].time - StartTime) \div LayerInterval(layer)
      <4>1. CASE i \in DOMAIN points
        <5>1. /\ points[i].time >= request.start /\ points[i].time <= request.end
              /\ points[i].time >= StartTime /\ points[i].time + out_interval <= start
              /\ points[i].at = (points[i].time - StartTime) \div LayerInterval(layer)
          BY <1>2, <4>1 DEF PointsInTurn
        <5>2. points[i].time + out_interval <= start'
          BY <1>2, <1>11, <1>12, <4>1, <5>1
        <5> QED
          BY <3>2, <4>1, <5>1, <5>2
      <4>2. CASE i = Len(points) + 1
        BY <1>2, <1>11, <1>13, <3>2, <3>3, <4>2 DEF point
      <4> QED
        BY <3>2, <4>1, <4>2
    <3>6. ASSUME NEW i \in DOMAIN points', NEW j \in DOMAIN points', i < j
          PROVE  points'[i].time + out_interval <= points'[j].time
      <4>1. i \in DOMAIN points
        BY <3>2, <3>6
      <4>2. CASE j \in DOMAIN points
        BY <1>2, <3>2, <3>6, <4>1, <4>2 DEF PointsInTurn
      <4>3. CASE j = Len(points) + 1
        BY <1>2, <3>2, <3>3, <4>1, <4>3 DEF PointsInTurn
      <4> QED
        BY <3>2, <4>2, <4>3
    <3>7. Averaged'
      BY <1>1, <1>13 DEF Averaged
    <3> QED
      BY <1>1, <3>4, <3>5, <3>6, <3>7 DEF PointsInTurn
  <2> QED
    BY <2>1, <2>2
<1> QED
  BY <1>1, <1>7, <1>10, <1>14 DEF SeriesI

-----------------------------------------------------------------------------
LEMMA Starting == Init => SeriesI
<1> SUFFICES ASSUME Init PROVE SeriesI
  OBVIOUS
<1> USE SeriesAssumption
<1>1. npoints \in Nat /\ npoints # 0 /\ npoints <= MaxRows /\ MaxRows \in Nat /\ 0 \in Layers
  BY DEF Init, Layers
<1>2. rows = [l \in Layers |-> Ceil(npoints, LayerRows[l])]
  BY DEF Init
<1>3. \A l \in Layers : LayerRows[l] \in Nat \ {0} /\ Ceil(npoints, LayerRows[l]) \in Nat
                        /\ Ceil(npoints, LayerRows[l]) <= npoints
  BY <1>1, LayerRowsType, CeilIs
<1>4. rows \in [Layers -> 0..MaxRows] /\ rows[0] = npoints
  BY <1>1, <1>2, <1>3, LayerRowsType, CeilIs
<1>5. TypeOK
  <2>1. gaps \subseteq 0..MaxRows-1
    BY <1>1 DEF Init
  <2> QED
    BY <1>1, <1>4, <2>1 DEF Init, TypeOK
<1>6. Tables
  BY <1>1, <1>2, <1>3, <1>4 DEF Init, Tables
<1>7. PointsInTurn
  BY DEF Init, PointsInTurn
<1> QED
  BY <1>5, <1>6, <1>7 DEF Init, SeriesI, Running

LEMMA Stepping == SeriesI /\ [Next]_vars => SeriesI'
<1> SUFFICES ASSUME SeriesI, [Next]_vars PROVE SeriesI'
  OBVIOUS
<1>1. CASE Writer
  <2>1. Grows
    BY <1>1, WriterGrows DEF SeriesI
  <2> QED
    BY <2>1, GrowsKeeps
<1>2. ASSUME NEW s \in Starts, NEW e \in Ends, NEW n \in Counts, Refuse(s, e, n) PROVE SeriesI'
  BY <1>2, RefuseKeeps
<1>3. ASSUME NEW s \in Starts, NEW e \in Ends, NEW n \in Counts, Begin(s, e, n) PROVE SeriesI'
  BY <1>3, BeginKeeps
<1>4. CASE Skip
  BY <1>4, SkipKeeps
<1>5. CASE Seek \/ FailRead \/ Finish
  BY <1>5, PassKeeps
<1>6. CASE Read
  BY <1>6, ReadKeeps
<1>7. CASE UNCHANGED vars
  BY <1>7 DEF vars, node, plan, SeriesI, TypeOK, Tables, Running, OnItsWay, Averaged, InRange, PointsInTurn
<1> QED
  BY <1>1, <1>2, <1>3, <1>4, <1>5, <1>6, <1>7 DEF Next, Reader

LEMMA InOrder == SeriesI => PointsInOrder
<1> SUFFICES ASSUME SeriesI PROVE PointsInOrder
  OBVIOUS
<1>1. /\ out_interval \in Nat /\ left \in Nat /\ start \in Nat /\ layer \in Layers /\ npoints \in Nat
      /\ points \in Seq([time : Nat, at : Nat, of : SUBSET (Nat \union {Junk})])
      /\ request \in [start : Nat, end : Nat, n : Nat] /\ rows[layer] \in Nat
  BY SeriesAssumption DEF SeriesI, TypeOK
<1>2. /\ Len(points) \in Nat /\ DOMAIN points = 1..Len(points)
      /\ \A i \in DOMAIN points : points[i].time \in Nat
  BY <1>1, PointType
<1>3. PointsInTurn
  BY DEF SeriesI
<1>4. TimesIncrease
  <2>1. Len(points) <= request.n
    BY <1>1, <1>2, <1>3 DEF PointsInTurn
  <2>2. ASSUME NEW i \in DOMAIN points, NEW j \in DOMAIN points, i < j
        PROVE  points[i].time < points[j].time
    <3>1. Len(points) > 1
      BY <1>2, <2>2
    <3>2. out_interval # 0
      BY <1>1, <1>2, <1>3, <3>1 DEF PointsInTurn
    <3>3. points[i].time + out_interval <= points[j].time
      BY <1>3, <2>2 DEF PointsInTurn
    <3>4. points[i].time \in Nat /\ points[j].time \in Nat
      BY <1>2
    <3>5. \A u, v \in Nat : u + out_interval <= v => u < v
      BY <1>1, <3>2
    <3> QED
      BY <3>3, <3>4, <3>5
  <2>3. \A i \in DOMAIN points : points[i].time \in request.start..request.end
    BY <1>1, <1>2, <1>3 DEF PointsInTurn
  <2> QED
    BY <2>1, <2>2, <2>3 DEF TimesIncrease
<1>5. FirstRowExists
  <2> SUFFICES ASSUME pc = "read" PROVE point < rows[layer]
    BY DEF FirstRowExists
  <2>1. InRange
    BY DEF SeriesI
  <2> DEFINE d == LayerRows[layer]
  <2>2. d \in Nat \ {0}
    BY <1>1, LayerRowsType
  <2>3. Ceil(npoints, d) <= rows[layer] /\ Ceil(npoints, d) \in Nat
    BY <1>1, <2>2, CeilIs DEF SeriesI, Tables
  <2> HIDE DEF d
  <2>4. start - StartTime \in Nat /\ start - StartTime < npoints * Interval
    <3> DEFINE a == npoints * Interval
    <3>1. start >= StartTime /\ start < StartTime + a
      BY <2>1 DEF InRange
    <3>2. a \in Nat
      BY <1>1, SeriesAssumption
    <3> HIDE DEF a
    <3>3. start - StartTime \in Nat /\ start - StartTime < a
      BY <1>1, <3>1, <3>2, SeriesAssumption
    <3> QED
      BY <3>3 DEF a
  <2>5. (start - StartTime) \div (Interval * d) < Ceil(npoints, d)
    BY <1>1, <2>2, <2>4, SeriesAssumption, RowInTable
  <2>6. point = (start - StartTime) \div (Interval * d)
    BY DEF point, LayerInterval, d
  <2>7. point \in Int
    BY <2>2, <2>4, <2>6, SeriesAssumption
  <2>8. point < Ceil(npoints, d)
    BY <2>5, <2>6
  <2> QED
    BY <1>1, <2>3, <2>7, <2>8
<1>6. WindowsDisjoint
  <2> SUFFICES ASSUME out_interval >= LayerInterval(layer),
                      NEW i \in DOMAIN points, NEW j \in DOMAIN points, i < j
               PROVE  points[i].at + naverage <= points[j].at
    BY DEF WindowsDisjoint
  <2> DEFINE d == LayerInterval(layer)
             a == points[i].time - StartTime
             b == points[j].time - StartTime
  <2>1. d \in Nat \ {0}
    BY <1>1, LayerIntervalType
  <2>2. /\ points[i].time >= StartTime /\ points[j].time >= StartTime
        /\ points[i].time + out_interval <= points[j].time
        /\ points[i].at = a \div d /\ points[j].at = b \div d
    BY <1>3 DEF PointsInTurn
  <2>3. points[i].time \in Nat /\ points[j].time \in Nat
    BY <1>2
  <2>4. a \in Nat /\ b \in Nat /\ a + out_interval <= b
    <3>1. \A u, v \in Nat : u >= StartTime /\ v >= StartTime /\ u + out_interval <= v
              => /\ u - StartTime \in Nat /\ v - StartTime \in Nat
                 /\ u - StartTime + out_interval <= v - StartTime
      BY <1>1, SeriesAssumption
    <3> QED
      BY <2>2, <2>3, <3>1
  <2>5. naverage = out_interval \div d
    <3>1. Averaged
      BY <1>3 DEF PointsInTurn
    <3> HIDE DEF d
    <3>2. naverage = IF out_interval > d THEN out_interval \div d ELSE 1
      BY <3>1 DEF Averaged, d
    <3>3. out_interval >= d
      BY DEF d
    <3>4. CASE out_interval = d
      BY <2>1, <3>2, <3>4
    <3>5. CASE out_interval # d
      BY <1>1, <2>1, <3>2, <3>3, <3>5
    <3> QED
      BY <3>4, <3>5
  <2> HIDE DEF a, b, d
  <2> DEFINE x == a \div d
             y == out_interval \div d
  <2>6. x \in Nat /\ y \in Nat /\ x * d <= a /\ y * d <= out_interval
    BY <1>1, <2>1, <2>4, Division
  <2> HIDE DEF x, y
  <2>7. (x + y) * d = x * d + y * d /\ x * d \in Nat /\ y * d \in Nat
    BY <2>1, <2>6
  <2>8. (x + y) * d <= b
    BY <1>1, <2>4, <2>6, <2>7
  <2>9. x + y <= b \div d
    <3>1. x + y \in Nat
      BY <2>6
    <3> QED
      BY <2>1, <2>4, <2>8, <3>1, DivAtLeast
  <2> QED
    BY <2>2, <2>5, <2>9 DEF x, y
<1> QED
  BY <1>4, <1>5, <1>6 DEF PointsInOrder, SeriesI

\* The points of a series are in order, within the request, no more of them than the
\* caller has room for, each of rows that are there, and no row in two of them: for
\* every node, request and number of layers, whatever the writer does meanwhile
\* (tsdb_get_series).
THEOREM SeriesInOrder == Spec => []PointsInOrder
<1>1. Spec => []SeriesI
  BY Starting, Stepping, PTL DEF Spec
<1> QED
  BY <1>1, InOrder, PTL

-----------------------------------------------------------------------------
(* Rows are not missed.                                                        *)

\* The rows that were known when the request began are known, and within the range.
StillKnown ==
    \A r \in known : r < Ceil(npoints, LayerRows[layer]) /\ IsKnown(layer, r)

Aligned ==
    /\ request.n > 1 /\ request.start >= StartTime
    /\ (request.start - StartTime) % LayerInterval(layer) = 0
    /\ out_interval # 0 /\ out_interval % LayerInterval(layer) = 0

\* Every row from the start of the request to the given time is in a point.
CoveredTo(time) ==
    \A r \in known :
        /\ StartTime + r * LayerInterval(layer) >= request.start
        /\ StartTime + r * LayerInterval(layer) < time
        => \E i \in DOMAIN points : r \in points[i].of

CoverI ==
    /\ SeriesI
    /\ StillKnown
    /\ pc = "idle" => out_interval = 0
    /\ Running /\ Aligned => CoveredTo(start)
    /\ pc = "done" /\ Aligned => CoveredTo(request.start + Outputs(request) * out_interval)

LEMMA GrowsKnown ==
    ASSUME SeriesI, StillKnown, Grows
    PROVE  StillKnown'
<1>1. /\ npoints \in Nat /\ npoints' \in Nat /\ npoints <= npoints' /\ layer \in Layers
      /\ rows[0] \in Nat /\ rows'[0] \in Nat /\ rows[0] <= rows'[0]
      /\ layer' = layer /\ known' = known /\ known \subseteq Nat
      /\ gaps' \subseteq gaps \union (rows[0]..MaxRows)
  BY SeriesAssumption DEF SeriesI, TypeOK, Grows, plan, Layers
<1>2. LayerRows[layer] \in Nat \ {0}
  BY <1>1, LayerRowsType
<1> SUFFICES ASSUME NEW r \in known
             PROVE  r < Ceil(npoints', LayerRows[layer]) /\ IsKnown(layer, r)'
  BY <1>1 DEF StillKnown
<1>3. r < Ceil(npoints', LayerRows[layer])
  <2>1. r < Ceil(npoints, LayerRows[layer])
    BY DEF StillKnown
  <2>2. /\ Ceil(npoints, LayerRows[layer]) <= Ceil(npoints', LayerRows[layer])
        /\ Ceil(npoints, LayerRows[layer]) \in Nat /\ Ceil(npoints', LayerRows[layer]) \in Nat
    BY <1>1, <1>2, CeilGrows, CeilIs
  <2>3. r \in Nat
    BY <1>1
  <2> QED
    BY <2>1, <2>2, <2>3
<1>4. PICK k \in r * LayerRows[layer]..(r + 1) * LayerRows[layer] - 1 : k < rows[0] /\ k \notin gaps
  BY DEF StillKnown, IsKnown
<1>5. k < rows'[0] /\ k \notin gaps'
  <2>1. k \in Int
    BY <1>4
  <2> QED
    BY <1>1, <1>4, <2>1
<1>6. IsKnown(layer, r)'
  BY <1>1, <1>4, <1>5 DEF IsKnown
<1> QED
  BY <1>3, <1>6

LEMMA GrowsCovers ==
    ASSUME CoverI, Grows
    PROVE  CoverI'
<1>1. SeriesI' /\ StillKnown'
  BY GrowsKeeps, GrowsKnown DEF CoverI
<1>2. UNCHANGED <<request, out_interval, layer, pc, start, points, known>>
  BY DEF Grows, plan
<1>3. Running' = Running /\ Aligned' = Aligned
  BY <1>2 DEF Running, Aligned
<1>4. CoveredTo(start)' = CoveredTo(start)
  BY <1>2 DEF CoveredTo
<1>5. CoveredTo(request.start + Outputs(request) * out_interval)'
        = CoveredTo(request.start + Outputs(request) * out_interval)
  BY <1>2 DEF CoveredTo
<1> QED
  BY <1>1, <1>2, <1>3, <1>4, <1>5 DEF CoverI

\* A row that was known lies before the end of the range.
LEMMA KnownInRange ==
    ASSUME CoverI, NEW r \in known
    PROVE  /\ r \in Nat /\ r < rows[layer]
           /\ r * LayerInterval(layer) \in Nat
           /\ r * LayerInterval(layer) < npoints * Interval
<1> DEFINE d == LayerRows[layer]
<1>1. layer \in Layers /\ npoints \in Nat /\ r \in Nat /\ rows[layer] \in Nat /\ npoints # 0
  BY SeriesAssumption DEF CoverI, SeriesI, TypeOK, Tables
<1>2. d \in Nat \ {0} /\ LayerInterval(layer) = Interval * d /\ Interval \in Nat \ {0}
  BY <1>1, LayerRowsType, SeriesAssumption DEF LayerInterval
<1>3. r < Ceil(npoints, d) /\ Ceil(npoints, d) <= rows[layer]
  BY <1>1 DEF CoverI, StillKnown, SeriesI, Tables
<1> HIDE DEF d
<1>4. Ceil(npoints, d) \in Nat /\ Ceil(npoints, d) * d <= npoints + d - 1
  <2>1. npoints + d - 1 \in Nat
    BY <1>1, <1>2
  <2> QED
    BY <1>2, <2>1, Division DEF Ceil
<1>5. r * d < npoints
  <2> DEFINE c == Ceil(npoints, d)
  <2>1. c \in Nat /\ r + 1 <= c /\ c * d <= npoints + d - 1
    BY <1>1, <1>3, <1>4
  <2> HIDE DEF c
  <2>2. (r + 1) * d <= c * d /\ (r + 1) * d = r * d + d /\ c * d \in Int /\ r * d \in Int
    BY <1>1, <1>2, <2>1
  <2> QED
    BY <1>1, <1>2, <2>1, <2>2
<1>6. r * (Interval * d) = (r * d) * Interval /\ r * d \in Nat
  BY <1>1, <1>2
<1>7. (r * d) * Interval < npoints * Interval /\ (r * d) * Interval \in Nat
  BY <1>1, <1>2, <1>5, <1>6
<1> QED
  BY <1>1, <1>2, <1>3, <1>4, <1>6, <1>7

LEMMA IdleCovers ==
    ASSUME CoverI, SeriesI', NEW s \in Starts, NEW e \in Ends, NEW n \in Counts,
           Refuse(s, e, n)
    PROVE  CoverI'
<1>1. /\ pc = "idle" /\ pc' = "done" /\ out_interval' = 0
      /\ UNCHANGED <<npoints, rows, gaps, layer, known>>
  BY DEF Refuse, CoverI, node
<1>2. ~ Aligned'
  BY <1>1 DEF Aligned
<1>3. StillKnown'
  BY <1>1 DEF CoverI, StillKnown, IsKnown
<1> QED
  BY <1>1, <1>2, <1>3 DEF CoverI, Running

LEMMA BeginCovers ==
    ASSUME CoverI, SeriesI', NEW s \in Starts, NEW e \in Ends, NEW n \in Counts,
           Begin(s, e, n)
    PROVE  CoverI'
<1> DEFINE l == layer'
<1>1. /\ pc' = "check" /\ request' = Request(s, e, n)
      /\ known' = KnownRows(l)
      /\ start' = IF n = 1 THEN (request'.start + request'.end) \div 2 ELSE request'.start
      /\ UNCHANGED <<npoints, rows, gaps>>
  BY DEF Begin, node
<1>2. npoints \in Nat /\ n \in Nat /\ l \in Layers /\ known' \subseteq Nat
  BY SeriesAssumption DEF SeriesI, TypeOK, CoverI
<1>3. request' \in [start : Nat, end : Nat, n : Nat] /\ request'.n = n
  BY <1>1, <1>2, RequestType
<1>4. StillKnown'
  <2>1. Ceil(npoints, LayerRows[l]) \in Nat
    BY <1>2, LayerRowsType, CeilIs
  <2>2. \A r \in known' : r < Ceil(npoints, LayerRows[l]) /\ IsKnown(l, r)
    BY <1>1, <2>1 DEF KnownRows
  <2>3. ASSUME NEW r \in known' PROVE IsKnown(layer, r)'
    BY <1>1, <2>2, <2>3 DEF IsKnown
  <2> QED
    BY <1>1, <2>2, <2>3 DEF StillKnown
<1>5. Aligned' => CoveredTo(start)'
  <2> SUFFICES ASSUME Aligned' PROVE CoveredTo(start)'
    OBVIOUS
  <2>1. start' = request'.start
    BY <1>1, <1>3 DEF Aligned
  <2>2. \A r \in known' : StartTime + r * LayerInterval(l) \in Nat
    BY <1>2, LayerIntervalType, SeriesAssumption
  <2>3. request'.start \in Nat
    BY <1>3
  <2>4. \A r \in known' : ~ (/\ StartTime + r * LayerInterval(l) >= request'.start
                             /\ StartTime + r * LayerInterval(l) < start')
    BY <2>1, <2>2, <2>3
  <2> QED
    BY <2>4 DEF CoveredTo
<1> QED
  BY <1>1, <1>4, <1>5 DEF CoverI

\* A time that is out of range has no row that was known.
LEMMA SkipCovers ==
    ASSUME CoverI, SeriesI', Skip
    PROVE  CoverI'
<1>1. /\ pc = "check" /\ pc' = pc /\ left > 0 /\ ~ InRange /\ Running
      /\ UNCHANGED <<npoints, rows, gaps, request, out_interval, layer, known, points>>
  BY DEF Skip, node, plan, Running
<1>2. StillKnown'
  BY <1>1 DEF CoverI, StillKnown, IsKnown
<1>3. Aligned => CoveredTo(start)'
  <2> SUFFICES ASSUME Aligned, NEW r \in known,
                      StartTime + r * LayerInterval(layer) >= request.start,
                      StartTime + r * LayerInterval(layer) < start'
               PROVE  \E i \in DOMAIN points : r \in points[i].of
    BY <1>1 DEF CoveredTo
  <2> DEFINE t == r * LayerInterval(layer)
             top == npoints * Interval
  <2>1. t \in Nat /\ t < top /\ top \in Nat
    <3>1. npoints \in Nat /\ Interval \in Nat
      BY SeriesAssumption DEF CoverI, SeriesI, TypeOK
    <3>2. top \in Nat
      BY <3>1
    <3> QED
      BY <3>2, KnownInRange
  <2>2. start >= StartTime + top
    <3>1. start \in Nat /\ request.start \in Nat /\ StartTime \in Nat
      BY SeriesAssumption DEF CoverI, SeriesI, TypeOK
    <3>2. start >= request.start /\ request.start >= StartTime
      BY <1>1 DEF CoverI, SeriesI, OnItsWay, Aligned
    <3>3. start >= StartTime
      BY <3>1, <3>2
    <3>4. ~ (start < StartTime + top)
      BY <1>1, <3>3 DEF InRange
    <3> HIDE DEF top
    <3> QED
      BY <2>1, <3>1, <3>4
  <2>3. start \in Nat /\ StartTime \in Nat
    BY SeriesAssumption DEF CoverI, SeriesI, TypeOK
  <2>4. CoveredTo(start)
    BY <1>1 DEF CoverI
  <2>5. StartTime + t >= request.start
    OBVIOUS
  <2> HIDE DEF t, top
  <2>6. StartTime + t < start
    BY <2>1, <2>2, <2>3
  <2> QED
    BY <2>4, <2>5, <2>6 DEF CoveredTo, t
<1>4. Aligned' = Aligned
  BY <1>1 DEF Aligned
<1> QED
  BY <1>1, <1>2, <1>3, <1>4 DEF CoverI

LEMMA PassCovers ==
    ASSUME CoverI, SeriesI', Seek \/ FailRead \/ Finish
    PROVE  CoverI'
<1>1. /\ Running
      /\ UNCHANGED <<npoints, rows, gaps, request, out_interval, layer, known, start, left, points>>
  BY DEF Seek, FailRead, Finish, node, plan, Running
<1>2. pc' = "read" \/ pc' = "failed" \/ (pc' = "done" /\ left = 0)
  BY DEF Seek, FailRead, Finish
<1>3. StillKnown'
  BY <1>1 DEF CoverI, StillKnown, IsKnown
<1>4. Aligned' = Aligned /\ (Aligned => CoveredTo(start))
  BY <1>1 DEF CoverI, Aligned
<1>5. CoveredTo(start)' = CoveredTo(start)
  BY <1>1 DEF CoveredTo
<1>6. pc' = "done" /\ Aligned => CoveredTo(request.start + Outputs(request) * out_interval)'
  <2> SUFFICES ASSUME pc' = "done", Aligned
               PROVE  CoveredTo(request.start + Outputs(request) * out_interval)'
    OBVIOUS
  <2>1. request \in [start : Nat, end : Nat, n : Nat] /\ out_interval \in Nat
    BY DEF CoverI, SeriesI, TypeOK
  <2>2. start = request.start + (Outputs(request) - left) * out_interval /\ left = 0
    BY <1>1, <1>2 DEF CoverI, SeriesI, OnItsWay, Aligned
  <2>3. Outputs(request) \in Int
    BY <2>1 DEF Outputs, Span
  <2>4. Outputs(request) - left = Outputs(request)
    BY <2>2, <2>3
  <2>5. start = request.start + Outputs(request) * out_interval
    BY <2>2, <2>4
  <2> QED
    BY <1>1, <1>4, <1>5, <2>5
<1> QED
  BY <1>2, <1>3, <1>4, <1>5, <1>6 DEF CoverI

-----------------------------------------------------------------------------
\* A multiple of a number.
LEMMA Multiple ==
    ASSUME NEW a \in Nat, NEW d \in Nat \ {0}, a % d = 0
    PROVE  a \div d \in Nat /\ a = (a \div d) * d
  OBVIOUS

LEMMA DivOfMultiple ==
    ASSUME NEW m \in Nat, NEW d \in Nat \ {0}
    PROVE  (m * d) \div d = m
<1>1. m * d \in Nat /\ (m + 1) * d = m * d + d
  OBVIOUS
<1>2. m <= (m * d) \div d
  BY <1>1, DivAtLeast
<1>3. (m * d) \div d < m + 1
  BY <1>1, DivBelow
<1>4. (m * d) \div d \in Nat
  BY <1>1, Division
<1> QED
  BY <1>2, <1>3, <1>4

\* The rows of an aligned output period are those that its point reads.
LEMMA AlignedPeriod ==
    ASSUME CoverI, Aligned, Running, left > 0
    PROVE  /\ start - StartTime = point * LayerInterval(layer)
           /\ out_interval = naverage * LayerInterval(layer)
           /\ point \in Nat /\ naverage \in Nat
<1> DEFINE d == LayerInterval(layer)
           a == request.start - StartTime
           k == Outputs(request) - left
<1>1. /\ d \in Nat \ {0} /\ out_interval \in Nat \ {0} /\ StartTime \in Nat /\ start \in Nat
      /\ request \in [start : Nat, end : Nat, n : Nat] /\ left \in Nat
  BY LayerIntervalType, SeriesAssumption DEF CoverI, SeriesI, TypeOK, Aligned
<1>2. a \in Nat /\ a % d = 0 /\ out_interval % d = 0
  BY <1>1 DEF Aligned
<1>3. k \in Nat /\ start = request.start + k * out_interval
  <2>1. Outputs(request) \in Int /\ left <= Outputs(request)
    BY <1>1 DEF Outputs, Span, CoverI, SeriesI, OnItsWay
  <2>2. start = request.start + k * out_interval
    BY DEF CoverI, SeriesI, OnItsWay, Aligned
  <2> QED
    BY <1>1, <2>1, <2>2
<1>4. Averaged
  BY DEF CoverI, SeriesI, OnItsWay
<1>5. request.start = a + StartTime
  BY <1>1
<1> DEFINE w == out_interval \div d
           m == a \div d
<1>6. w \in Nat /\ out_interval = w * d /\ m \in Nat /\ a = m * d
  BY <1>1, <1>2, Multiple
<1>7. naverage = IF out_interval > d THEN w ELSE 1
  BY <1>4 DEF Averaged
<1> HIDE DEF w, m, a, k, d
<1>8. w >= 1
  BY <1>1, <1>6
<1>9. out_interval = naverage * d /\ naverage \in Nat
  <2>1. CASE w = 1
    BY <1>1, <1>6, <1>7, <2>1
  <2>2. CASE w # 1
    <3>1. w >= 2
      BY <1>6, <1>8, <2>2
    <3>2. 2 * d <= w * d
      BY <1>1, <1>6, <3>1
    <3>3. out_interval > d
      BY <1>1, <1>6, <3>2
    <3> QED
      BY <1>6, <1>7, <3>3
  <2> QED
    BY <2>1, <2>2
<1>10. start - StartTime = (m + k * w) * d /\ m + k * w \in Nat
  <2>1. k * (w * d) = (k * w) * d /\ k * w \in Nat /\ (m + k * w) * d = m * d + (k * w) * d
    BY <1>1, <1>3, <1>6
  <2>2. start = m * d + StartTime + (k * w) * d
    BY <1>3, <1>5, <1>6, <2>1
  <2>3. (m + k * w) * d \in Int /\ m * d \in Int /\ (k * w) * d \in Int
    BY <1>1, <1>6, <2>1
  <2> QED
    BY <1>1, <1>6, <2>1, <2>2, <2>3
<1>11. ((m + k * w) * d) \div d = m + k * w
  BY <1>1, <1>10, DivOfMultiple
<1>12. point = m + k * w
  <2>1. point = (start - StartTime) \div d
    BY DEF point, d
  <2> QED
    BY <1>10, <1>11, <2>1
<1> QED
  BY <1>9, <1>10, <1>12 DEF d

LEMMA ReadCovers ==
    ASSUME CoverI, SeriesI', Read
    PROVE  CoverI'
<1> DEFINE valid == {layer_values'[k] : k \in 1..naverage} \ {Unknown}
           T == [time : Nat, at : Nat, of : SUBSET (Nat \union {Junk})]
           p == [time |-> start, at |-> point, of |-> valid]
<1>1. /\ pc = "read" /\ pc' = "check" /\ Running /\ Running' /\ Advance
      /\ UNCHANGED <<npoints, rows, gaps, request, out_interval, layer, naverage, known>>
      /\ points' = IF valid = {} THEN points ELSE Append(points, p)
      /\ layer_values' = [k \in 1..naverage |->
                             IF point + k <= rows[layer] THEN Cell(point + k - 1) ELSE layer_values[k]]
  BY DEF Read, node, plan, Running
<1>2. /\ left > 0 /\ points \in Seq(T) /\ points' \in Seq(T) /\ layer \in Layers
      /\ rows[layer] \in Nat /\ out_interval \in Nat /\ start \in Nat /\ StartTime \in Nat
  <2>1. left > 0 /\ points \in Seq(T) /\ layer \in Layers /\ out_interval \in Nat /\ start \in Nat
    BY <1>1 DEF CoverI, SeriesI, TypeOK
  <2>2. points' \in Seq(T)
    BY DEF SeriesI, TypeOK
  <2>3. rows[layer] \in Nat /\ StartTime \in Nat
    BY <2>1, SeriesAssumption DEF CoverI, SeriesI, TypeOK
  <2> QED
    BY <2>1, <2>2, <2>3
<1>3. StillKnown'
  BY <1>1 DEF CoverI, StillKnown, IsKnown
<1>4. Aligned' = Aligned
  BY <1>1 DEF Aligned
\* What was covered still is.
<1>5. /\ DOMAIN points \subseteq DOMAIN points'
      /\ \A i \in DOMAIN points : points'[i] = points[i]
      /\ valid # {} => \E i \in DOMAIN points' : points'[i].of = valid
  <2>1. CASE valid = {}
    BY <1>1, <2>1
  <2>2. CASE valid # {}
    <3>1. points' = Append(points, p) /\ Len(points) \in Nat
      BY <1>1, <1>2, <2>2, IsFunction
    <3>2. p.of = valid
      OBVIOUS
    <3> HIDE DEF p, valid
    <3>3. /\ DOMAIN points' = 1..Len(points) + 1 /\ DOMAIN points = 1..Len(points)
          /\ \A i \in DOMAIN points : points'[i] = points[i]
          /\ points'[Len(points) + 1] = p
      BY <1>2, <3>1
    <3> QED
      BY <3>1, <3>2, <3>3
  <2> QED
    BY <2>1, <2>2
<1>6. Aligned => CoveredTo(start)'
  <2> SUFFICES ASSUME Aligned, NEW r \in known,
                      StartTime + r * LayerInterval(layer) >= request.start,
                      StartTime + r * LayerInterval(layer) < start'
               PROVE  \E i \in DOMAIN points' : r \in points'[i].of
    BY <1>1 DEF CoveredTo
  <2>1. CASE StartTime + r * LayerInterval(layer) < start
    <3>1. \E i \in DOMAIN points : r \in points[i].of
      BY <1>1, <2>1 DEF CoverI, CoveredTo
    <3> HIDE DEF valid
    <3> QED
      BY <1>5, <3>1
  <2>2. CASE ~ (StartTime + r * LayerInterval(layer) < start)
    <3> DEFINE d == LayerInterval(layer)
               t == r * d
               m == point * d
               w == naverage * d
    <3>1. r \in Nat /\ r < rows[layer] /\ t \in Nat
      BY KnownInRange
    <3>2. d \in Nat \ {0}
      BY <1>2, LayerIntervalType
    <3>3. start - StartTime = m /\ out_interval = w /\ point \in Nat /\ naverage \in Nat
      BY <1>1, <1>2, AlignedPeriod
    <3>4. start' = start + out_interval
      BY <1>1 DEF Advance
    <3>5. m \in Nat /\ w \in Nat /\ (point + naverage) * d = m + w
      BY <3>2, <3>3
    <3>6. ~ (StartTime + t < start) /\ StartTime + t < start'
      BY <2>2
    <3> HIDE DEF t, m, w, d
    <3>7. m <= t /\ t < m + w
      BY <1>2, <3>1, <3>3, <3>4, <3>5, <3>6
    <3>8. point <= r
      BY <3>1, <3>2, <3>3, <3>7 DEF m, t
    <3>9. r < point + naverage
      <4>1. r * d < (point + naverage) * d
        BY <3>5, <3>7 DEF t
      <4> QED
        BY <3>1, <3>2, <3>3, <4>1
    <3> DEFINE k == r - point + 1
    <3>10. k \in 1..naverage /\ point + k <= rows[layer] /\ point + k - 1 = r
      BY <1>2, <3>1, <3>3, <3>8, <3>9
    <3> HIDE DEF k
    <3>11. layer_values'[k] = Cell(r)
      BY <1>1, <3>10
    <3>12. Cell(r) = r
      BY DEF Cell, CoverI, StillKnown
    <3>13. r # Unknown
      <4>1. Unknown \notin Int
        BY SeriesAssumption
      <4> QED
        BY <3>1, <4>1
    <3>14. r \in valid
      BY <3>10, <3>11, <3>12, <3>13
    <3> HIDE DEF valid
    <3> QED
      BY <1>5, <3>14
  <2> QED
    BY <2>1, <2>2
<1> QED
  BY <1>1, <1>3, <1>4, <1>6 DEF CoverI

LEMMA CoverStarting == Init => CoverI
<1> SUFFICES ASSUME Init PROVE CoverI
  OBVIOUS
<1>1. StillKnown
  BY DEF Init, StillKnown
<1> QED
  BY <1>1, Starting DEF Init, CoverI, Running

LEMMA CoverStepping == CoverI /\ [Next]_vars => CoverI'
<1> SUFFICES ASSUME CoverI, [Next]_vars PROVE CoverI'
  OBVIOUS
<1>1. SeriesI'
  BY Stepping DEF CoverI
<1>2. CASE Writer
  <2>1. Grows
    BY <1>2, WriterGrows DEF CoverI, SeriesI
  <2> QED
    BY <2>1, GrowsCovers
<1>3. ASSUME NEW s \in Starts, NEW e \in Ends, NEW n \in Counts, Refuse(s, e, n) PROVE CoverI'
  BY <1>1, <1>3, IdleCovers
<1>4. ASSUME NEW s \in Starts, NEW e \in Ends, NEW n \in Counts, Begin(s, e, n) PROVE CoverI'
  BY <1>1, <1>4, BeginCovers
<1>5. CASE Skip
  BY <1>1, <1>5, SkipCovers
<1>6. CASE Seek \/ FailRead \/ Finish
  BY <1>1, <1>6, PassCovers
<1>7. CASE Read
  BY <1>1, <1>7, ReadCovers
<1>8. CASE UNCHANGED vars
  BY <1>1, <1>8 DEF vars, node, plan, CoverI, StillKnown, IsKnown, Running, Aligned, CoveredTo
<1> QED
  BY <1>2, <1>3, <1>4, <1>5, <1>6, <1>7, <1>8 DEF Next, Reader

\* A row that was known when the request began is in some point, if the output periods
\* are whole rows and begin on one: however fast the node grows, whatever gaps are
\* filled meanwhile (tsdb_get_series).
THEOREM SeriesCovers == Spec => []AlignedCovers
<1>1. Spec => []CoverI
  BY CoverStarting, CoverStepping, PTL DEF Spec
<1>2. CoverI => AlignedCovers
  BY DEF CoverI, CoveredTo, Aligned, AlignedCovers, Covered
<1> QED
  BY <1>1, <1>2, PTL
=============================================================================
