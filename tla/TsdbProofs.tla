----------------------------- MODULE TsdbProofs -----------------------------
(* Proofs about the storage engine (Tsdb), for every value of its constants.   *)
EXTENDS Tsdb, TLAPS, SequenceTheorems, WellFoundedInduction

-----------------------------------------------------------------------------
(* Arithmetic of blocks.                                                       *)

\* The quotient of two natural numbers.
LEMMA Quotient ==
    ASSUME NEW a \in Nat, NEW d \in Nat \ {0}
    PROVE  /\ a \div d \in Nat
           /\ d * (a \div d) <= a
           /\ a < d * (a \div d) + d
  BY Z3

\* The quotient is the only number of which that is true.
LEMMA QuotientUnique ==
    ASSUME NEW a \in Nat, NEW d \in Nat \ {0}, NEW q \in Nat,
           d * q <= a, a < d * q + d
    PROVE  a \div d = q
  BY Z3

\* The rows of a block are those whose quotient is the number of the block.
LEMMA BlockRow ==
    ASSUME NEW d \in Nat \ {0}, NEW j \in Nat, NEW i \in 0..d-1
    PROVE  /\ j * d + i \in Nat
           /\ (j * d + i) \div d = j
  BY Z3

\* Rounding up is monotonic, and one more than the quotient of the last row.
LEMMA CeilNat ==
    ASSUME NEW n \in Nat, NEW d \in Nat \ {0}
    PROVE  Ceil(n, d) \in Nat
  BY Quotient DEF Ceil

LEMMA CeilOfExtended ==
    ASSUME NEW n \in Nat, NEW p \in Nat, NEW d \in Nat \ {0}
    PROVE  /\ p + 1 > n => Ceil(p + 1, d) = p \div d + 1
           /\ p < n => p \div d + 1 <= Ceil(n, d)
           /\ p >= n => Ceil(n, d) <= p \div d + 1
  BY Z3 DEF Ceil

\* A lower layer has no more rows than the one above.
LEMMA CeilShrinks ==
    ASSUME NEW n \in Nat, NEW d \in Nat \ {0}
    PROVE  Ceil(n, d) <= n
  BY Z3 DEF Ceil

-----------------------------------------------------------------------------
(* Rows and table files.                                                       *)

LEMMA RowTypes ==
    /\ UnknownRow \in Row
    /\ ZeroRow \in Row
    /\ PostedRow \subseteq Row
    /\ \A old, new \in Row : Merged(old, new) \in Row
  BY RowsAssumption DEF UnknownRow, ZeroRow, PostedRow, Merged, Row

\* What a write leaves in a file: its length and each of its rows.
LEMMA PwriteFile ==
    ASSUME NEW file \in Seq(Row), NEW at \in Nat, NEW n \in Nat, NEW row \in Row
    PROVE  /\ Pwrite(file, at, n, row) \in Seq(Row)
           /\ Len(Pwrite(file, at, n, row)) = IF at + n > Len(file) THEN at + n ELSE Len(file)
           /\ \A p \in Nat : p < Len(Pwrite(file, at, n, row)) =>
                 Pwrite(file, at, n, row)[p + 1] =
                    IF at <= p /\ p < at + n THEN row
                    ELSE IF p < Len(file) THEN file[p + 1] ELSE ZeroRow
<1> DEFINE N == IF at + n > Len(file) THEN at + n ELSE Len(file)
           F == Pwrite(file, at, n, row)
<1>1. N \in Nat
  OBVIOUS
<1>2. \A k \in 1..N : F[k] = IF at < k /\ k <= at + n THEN row
                            ELSE IF k <= Len(file) THEN file[k] ELSE ZeroRow
  BY DEF Pwrite
<1>3. \A k \in 1..N : F[k] \in Row
  BY <1>1, <1>2, RowTypes
<1>4. F \in [1..N -> Row]
  BY <1>1, <1>3 DEF Pwrite
<1>5. F \in Seq(Row)
  BY <1>1, <1>4, SeqDef
<1>6. Len(F) = N
  BY <1>1, <1>4, <1>5, LenProperties
<1> HIDE DEF F, N
<1>7. \A p \in Nat : p < N => F[p + 1] = IF at <= p /\ p < at + n THEN row
                                      ELSE IF p < Len(file) THEN file[p + 1] ELSE ZeroRow
  <2> SUFFICES ASSUME NEW p \in Nat, p < N
               PROVE  F[p + 1] = IF at <= p /\ p < at + n THEN row
                                 ELSE IF p < Len(file) THEN file[p + 1] ELSE ZeroRow
    OBVIOUS
  <2>1. p + 1 \in 1..N
    BY <1>1
  <2> QED
    BY <1>2, <2>1
<1> QED
  BY <1>5, <1>6, <1>7 DEF F, N

LEMMA CellType ==
    ASSUME table \in [Layers -> Seq(Row)], NEW l \in Layers, NEW p \in Nat
    PROVE  Cell(l, p) \in Row
<1>1. CASE p < Len(table[l])
  <2>1. p + 1 \in 1..Len(table[l])
    BY <1>1
  <2> QED
    BY <1>1, <2>1, ElementOfSeq DEF Cell
<1>2. CASE ~(p < Len(table[l]))
  BY <1>2, RowTypes DEF Cell
<1> QED
  BY <1>1, <1>2

LEMMA DownsampledType ==
    ASSUME table \in [Layers -> Seq(Row)], NEW l \in 0..LastLayer-1, NEW j \in Nat
    PROVE  Downsampled(l, j) \in Row
<1> DEFINE d == Decimation[l]
<1>1. l \in Layers /\ d \in Nat \ {0}
  BY TsdbAssumption DEF Layers
<1> SUFFICES ASSUME NEW m \in Metrics
             PROVE  Downsampled(l, j)[m] \in Values \union {NaN}
  BY DEF Downsampled, Row
<1> DEFINE K == Known(l, j, m)
           f == [i \in K |-> Cell(l, j * d + i)[m]]
<1>2. \A i \in 0..d-1 : Cell(l, j * d + i)[m] \in Values \union {NaN}
  BY <1>1, BlockRow, CellType DEF Row
<1>3. K \in SUBSET (0..d-1)
  BY DEF Known
<1>4. f \in [K -> Values]
  BY <1>2, <1>3 DEF Known
<1>5. K # {} => Agg(m, f) \in Values
  BY <1>3, <1>4, TsdbAssumption
<1> QED
  BY <1>5 DEF Downsampled

-----------------------------------------------------------------------------
(* Types, and where a thread can be.                                           *)

WriterLabels == {"idle", "check", "start", "locate", "size", "pad", "probe", "reread",
                 "write", "decimate", "test", "commit", "reply"}

ReaderLabels == {"idle", "stamp", "seek", "bound", "fetch"}

\* Times are on slot boundaries; a thread decimates only above the last layer; at
\* the top layer the point of the layer is the point of the post.
Shape ==
    /\ RoundDown(start_time) = start_time
    /\ \A w \in Writers :
          /\ pc[w] \in WriterLabels
          /\ RoundDown(frame[w].time) = frame[w].time
          /\ pc[w] = "decimate" => frame[w].layer < LastLayer
          /\ pc[w] \in {"check", "start", "locate", "size"} => frame[w].layer = 0
          /\ pc[w] \in {"size", "pad", "probe", "reread", "write", "decimate"}
                /\ frame[w].layer = 0 => frame[w].point = frame[w].top
    /\ \A r \in Readers : pc[r] \in ReaderLabels

LEMMA RoundDownFacts ==
    ASSUME NEW t \in Nat
    PROVE  /\ RoundDown(t) \in Nat
           /\ RoundDown(RoundDown(t)) = RoundDown(t)
           /\ \A s \in Nat : RoundDown(s) = s /\ s <= t => s <= RoundDown(t)
<1>1. Interval \in Nat \ {0}
  BY RowsAssumption
<1>2. t \div Interval \in Nat
  BY <1>1, Quotient
<1>3. RoundDown(t) \in Nat
  BY <1>1, <1>2, Z3 DEF RoundDown
<1>4. RoundDown(RoundDown(t)) = RoundDown(t)
  <2>1. ((t \div Interval) * Interval + 0) \div Interval = t \div Interval
    BY <1>1, <1>2, BlockRow, Z3
  <2> QED
    BY <1>3, <2>1, Z3 DEF RoundDown
<1>5. \A s \in Nat : RoundDown(s) = s /\ s <= t => s <= RoundDown(t)
  <2> SUFFICES ASSUME NEW s \in Nat, (s \div Interval) * Interval = s, s <= t
               PROVE  s <= (t \div Interval) * Interval
    BY DEF RoundDown
  <2>1. s \div Interval \in Nat
    BY <1>1, Quotient
  <2>2. t < Interval * (t \div Interval) + Interval
    BY <1>1, Quotient
  <2> DEFINE a == s \div Interval
             b == t \div Interval
  <2>3. a \in Nat /\ b \in Nat /\ a * Interval = s /\ t < Interval * b + Interval
    BY <1>2, <2>1, <2>2
  <2> HIDE DEF a, b
  <2>4. a * Interval < (b + 1) * Interval
    BY <1>1, <2>3, Z3
  <2>5. a < b + 1
    BY <1>1, <2>3, <2>4, Z3
  <2> QED
    BY <1>1, <2>3, <2>5, Z3 DEF a, b
<1> QED
  BY <1>3, <1>4, <1>5

TypeInv == TypeOK /\ Shape

LEMMA FrameTypes ==
    /\ NoFrame \in Frame
    /\ RoundDown(0) = 0
<1>1. 0 \in Layers
  BY TsdbAssumption DEF Layers
<1>2. RoundDown(0) = 0
  BY RowsAssumption, Z3 DEF RoundDown
<1> QED
  BY <1>1, <1>2, RowTypes DEF NoFrame, Frame

LEMMA TypeInit == Init => TypeInv
  BY FrameTypes, EmptySeq DEF Init, TypeInv, TypeOK, Shape, NoFrame, Labels, WriterLabels,
     ReaderLabels, Outcomes, Threads

\* What the assumptions say of the threads, the times and the layers.
LEMMA Constants ==
    /\ Writers \intersect Readers = {}
    /\ Times \subseteq Nat
    /\ LastLayer \in Nat
    /\ 0 \in Layers
    /\ Interval \in Nat \ {0}
    /\ \A l \in 0..LastLayer-1 : /\ Decimation[l] \in Nat \ {0}
                                 /\ l \in Layers
                                 /\ l + 1 \in Layers
<1>1. /\ Writers \intersect Readers = {}
      /\ Times \subseteq Nat
      /\ LastLayer \in Nat
      /\ Decimation \in [0..LastLayer-1 -> Nat \ {0}]
  BY TsdbAssumption
<1>2. Interval \in Nat \ {0}
  BY RowsAssumption
<1> QED
  BY <1>1, <1>2 DEF Layers

\* One step keeps types and shape.
LEMMA TypeStep ==
    ASSUME TypeInv, [Next]_vars
    PROVE  TypeInv'
<1> USE DEF TypeInv
<1>1. ASSUME NEW w \in Writers, NEW t \in Times, NEW v \in PostedRow, Post(w, t, v)
      PROVE  TypeInv'
  <2>1. [NoFrame EXCEPT !.time = RoundDown(t), !.posted = v, !.values = v] \in Frame
    BY Constants, FrameTypes, RoundDownFacts, RowTypes DEF Frame, NoFrame
  <2>2. TypeOK'
    BY <1>1, <2>1
    DEF Post, TypeOK, Labels, Outcomes, Threads, meta, At, Goto, Return
  <2>3. Shape'
    BY <1>1, <2>1, Constants, RoundDownFacts
    DEF Post, TypeOK, Shape, Threads, meta, At, Goto, Return, WriterLabels, NoFrame
  <2> QED
    BY <2>2, <2>3
<1>2. ASSUME NEW w \in Writers, CheckEmpty(w)
      PROVE  TypeInv'
  <2>1. TypeOK'
    BY <1>2, ZenonT(90)
    DEF CheckEmpty, TypeOK, Labels, Outcomes, Threads, meta, At, Goto, Return, Frame
  <2>2. Shape'
    BY <1>2, Constants
    DEF CheckEmpty, TypeOK, Shape, Threads, meta, At, Goto, Return, Frame, WriterLabels
  <2> QED
    BY <2>1, <2>2
<1>3. ASSUME NEW w \in Writers, SetStart(w)
      PROVE  TypeInv'
  <2>1. TypeOK'
    BY <1>3
    DEF SetStart, TypeOK, Labels, Outcomes, Threads, meta, At, Goto, Return, Frame
  <2>2. Shape'
    BY <1>3, Constants
    DEF SetStart, TypeOK, Shape, Threads, meta, At, Goto, Return, Frame, WriterLabels
  <2> QED
    BY <2>1, <2>2
<1>4. ASSUME NEW w \in Writers, Refuse(w)
      PROVE  TypeInv'
  <2>1. TypeOK'
    BY <1>4, FrameTypes
    DEF Refuse, TypeOK, Labels, Outcomes, Threads, meta, At, Goto, Return
  <2>2. Shape'
    BY <1>4, Constants, FrameTypes
    DEF Refuse, TypeOK, Shape, Threads, meta, At, Goto, Return, NoFrame, WriterLabels
  <2> QED
    BY <2>1, <2>2
<1>5. ASSUME NEW w \in Writers, Locate(w)
      PROVE  TypeInv'
  <2>1. frame[w].time - start_time \in Nat
    BY <1>5 DEF Locate, TypeOK, Threads, Frame
  <2>2. (frame[w].time - start_time) \div Interval \in Nat
    BY <2>1, Constants, Quotient
  <2>3. TypeOK'
    BY <1>5, <2>1, <2>2, ZenonT(90)
    DEF Locate, TypeOK, Labels, Outcomes, Threads, meta, At, Goto, Return, Frame
  <2>4. Shape'
    BY <1>5, <2>1, <2>2, Constants, SMTT(60)
    DEF Locate, TypeOK, Shape, Threads, meta, At, Goto, Return, Frame, WriterLabels
  <2> QED
    BY <2>3, <2>4
<1>6. ASSUME NEW w \in Writers, ReadSize(w)
      PROVE  TypeInv'
  <2>1. PICK n \in {npoints, frame[w].npoints} : frame' = [frame EXCEPT ![w].npoints = n]
    BY <1>6 DEF ReadSize
  <2>2. n \in Nat
    BY DEF TypeOK, Threads, Frame
  <2>3. frame' \in [Threads -> Frame]
    BY <2>1, <2>2 DEF TypeOK, Frame
  <2>4. pc[w] = "size" /\ pc' = [pc EXCEPT ![w] = "pad"] /\ UNCHANGED <<meta, table, rc>>
    BY <1>6 DEF ReadSize, At, Goto
  <2>5. TypeOK'
    BY <1>6, <2>1, <2>2, <2>3, <2>4
    DEF ReadSize, TypeOK, Labels, Outcomes, Threads, meta, At, Goto, Return
  <2>6. Shape'
    BY <1>6, <2>1, <2>2, <2>3, <2>4, Constants, SMTT(60)
    DEF ReadSize, TypeOK, Shape, Threads, meta, At, Goto, Return, Frame, WriterLabels
  <2> QED
    BY <2>5, <2>6
<1>7. ASSUME NEW w \in Writers, Pad(w)
      PROVE  TypeInv'
  <2>1. frame[w].point > frame[w].npoints => frame[w].point - frame[w].npoints \in Nat
    BY DEF TypeOK, Threads, Frame
  <2>2. frame[w].npoints \in Nat /\ frame[w].layer \in Layers
    BY DEF TypeOK, Threads, Frame
  <2>3. frame[w].point > frame[w].npoints =>
           Pwrite(table[frame[w].layer], frame[w].npoints, frame[w].point - frame[w].npoints, UnknownRow)
              \in Seq(Row)
    BY <2>1, <2>2, PwriteFile, RowTypes DEF TypeOK
  <2>4. table' \in [Layers -> Seq(Row)]
    BY <1>7, <2>2, <2>3 DEF Pad, TypeOK
  <2>5. TypeOK'
    BY <1>7, <2>1, <2>2, <2>3, <2>4
    DEF Pad, TypeOK, Labels, Outcomes, Threads, meta, At, Goto, Return
  <2>6. Shape'
    BY <1>7, <2>1, <2>2, <2>3, <2>4, Constants
    DEF Pad, TypeOK, Shape, Threads, meta, At, Goto, Return, WriterLabels
  <2> QED
    BY <2>5, <2>6
<1>8. ASSUME NEW w \in Writers, Probe(w)
      PROVE  TypeInv'
  <2>1. Merged(UnknownRow, frame[w].values) \in Row
    BY RowTypes DEF TypeOK, Threads, Frame
  <2>2. TypeOK'
    BY <1>8, <2>1, ZenonT(90)
    DEF Probe, TypeOK, Labels, Outcomes, Threads, meta, At, Goto, Return, Frame
  <2>3. Shape'
    BY <1>8, <2>1, Constants, SMTT(60)
    DEF Probe, TypeOK, Shape, Threads, meta, At, Goto, Return, Frame, WriterLabels
  <2> QED
    BY <2>2, <2>3
<1>9. ASSUME NEW w \in Writers, Reread(w)
      PROVE  TypeInv'
  <2>1. Cell(frame[w].layer, frame[w].point) \in Row
    BY CellType DEF TypeOK, Threads, Frame
  <2>2. Merged(Cell(frame[w].layer, frame[w].point), frame[w].values) \in Row
    BY <2>1, RowTypes DEF TypeOK, Threads, Frame
  <2>3. TypeOK'
    BY <1>9, <2>1, <2>2, ZenonT(90)
    DEF Reread, TypeOK, Labels, Outcomes, Threads, meta, At, Goto, Return, Frame
  <2>4. Shape'
    BY <1>9, <2>1, <2>2, Constants
    DEF Reread, TypeOK, Shape, Threads, meta, At, Goto, Return, Frame, WriterLabels
  <2> QED
    BY <2>3, <2>4
<1>10. ASSUME NEW w \in Writers, Write(w)
      PROVE  TypeInv'
  <2>1. table' \in [Layers -> Seq(Row)]
    BY <1>10, PwriteFile DEF Write, TypeOK, Threads, Frame
  <2>2. TypeOK'
    BY <1>10, <2>1
    DEF Write, TypeOK, Labels, Outcomes, Threads, meta, At, Goto, Return
  <2>3. Shape'
    BY <1>10, <2>1, Constants, TsdbAssumption
    DEF Write, TypeOK, Shape, Threads, meta, At, Goto, Return, Frame, Layers, WriterLabels
  <2> QED
    BY <2>2, <2>3
<1>11. ASSUME NEW w \in Writers, Decimate(w)
      PROVE  TypeInv'
  <2>1. frame[w].layer \in 0..LastLayer-1
    BY <1>11, Constants DEF Decimate, Shape, At, TypeOK, Threads, Frame, Layers
  <2>2. frame[w].layer + 1 \in Layers
    BY <2>1, Constants
  <2>3. frame[w].point \div Decimation[frame[w].layer] \in Nat
    BY <2>1, Constants, Quotient DEF TypeOK, Threads, Frame
  <2>4. Ceil(frame[w].npoints, Decimation[frame[w].layer]) \in Nat
    BY <2>1, Constants, CeilNat DEF TypeOK, Threads, Frame
  <2>5. Downsampled(frame[w].layer, frame[w].point \div Decimation[frame[w].layer]) \in Row
    BY <2>1, <2>3, DownsampledType DEF TypeOK
  <2>6. frame[w] \in Frame
    BY DEF TypeOK, Threads
  <2>7. frame' \in [Threads -> Frame]
    BY <1>11, <2>2, <2>3, <2>4, <2>5, <2>6, RowTypes DEF Decimate, TypeOK, Frame
  <2>8. /\ frame'[w].time = frame[w].time
        /\ frame'[w].layer > 0
        /\ pc'[w] = "pad"
    BY <1>11, <2>1, Constants DEF Decimate, Goto, TypeOK, Threads, Layers
  <2>9. \A t \in Threads : t # w => frame'[t] = frame[t] /\ pc'[t] = pc[t]
    BY <1>11 DEF Decimate, Goto, TypeOK
  <2>10. TypeOK'
    BY <1>11, <2>1, <2>2, <2>3, <2>4, <2>5, <2>6, <2>7, <2>8, <2>9
    DEF Decimate, TypeOK, Labels, Outcomes, Threads, meta, At, Goto, Return
  <2>11. Shape'
    <3>1. start_time' = start_time
      BY <1>11 DEF Decimate, meta
    <3>2. \A r \in Readers : pc'[r] \in ReaderLabels
      BY <2>9, Constants DEF Shape, Threads
    <3>3. ASSUME NEW u \in Writers
          PROVE  /\ pc'[u] \in WriterLabels
                 /\ RoundDown(frame'[u].time) = frame'[u].time
                 /\ pc'[u] = "decimate" => frame'[u].layer < LastLayer
                 /\ pc'[u] \in {"check", "start", "locate", "size"} => frame'[u].layer = 0
                 /\ pc'[u] \in {"size", "pad", "probe", "reread", "write", "decimate"}
                       /\ frame'[u].layer = 0 => frame'[u].point = frame'[u].top
      <4>1. CASE u = w
        BY <2>8, <4>1 DEF Shape, WriterLabels, Threads
      <4>2. CASE u # w
        BY <2>9, <4>2 DEF Shape, Threads
      <4> QED
        BY <4>1, <4>2
    <3> QED
      BY <3>1, <3>2, <3>3 DEF Shape
  <2> QED
    BY <2>10, <2>11
<1>12. ASSUME NEW w \in Writers, Test(w)
      PROVE  TypeInv'
  <2>1. TypeOK'
    BY <1>12
    DEF Test, TypeOK, Labels, Outcomes, Threads, meta, At, Goto, Return, Frame
  <2>2. Shape'
    BY <1>12, Constants
    DEF Test, TypeOK, Shape, Threads, meta, At, Goto, Return, Frame, WriterLabels
  <2> QED
    BY <2>1, <2>2
<1>13. ASSUME NEW w \in Writers, Commit(w)
      PROVE  TypeInv'
  <2>1. TypeOK'
    BY <1>13
    DEF Commit, TypeOK, Labels, Outcomes, Threads, meta, At, Goto, Return, Frame
  <2>2. Shape'
    BY <1>13, Constants
    DEF Commit, TypeOK, Shape, Threads, meta, At, Goto, Return, Frame, WriterLabels
  <2> QED
    BY <2>1, <2>2
<1>14. ASSUME NEW w \in Writers, Reply(w)
      PROVE  TypeInv'
  <2>1. TypeOK'
    BY <1>14, FrameTypes
    DEF Reply, TypeOK, Labels, Outcomes, Threads, meta, At, Goto, Return
  <2>2. Shape'
    BY <1>14, Constants, FrameTypes
    DEF Reply, TypeOK, Shape, Threads, meta, At, Goto, Return, NoFrame, WriterLabels
  <2> QED
    BY <2>1, <2>2
<1>15. ASSUME NEW w \in Writers, FailTop(w)
      PROVE  TypeInv'
  <2>1. TypeOK'
    BY <1>15, FrameTypes
    DEF FailTop, TypeOK, Labels, Outcomes, Threads, meta, At, Goto, Return
  <2>2. Shape'
    BY <1>15, Constants, FrameTypes
    DEF FailTop, TypeOK, Shape, Threads, meta, At, Goto, Return, NoFrame, WriterLabels
  <2> QED
    BY <2>1, <2>2
<1>16. ASSUME NEW w \in Writers, FailBelow(w)
      PROVE  TypeInv'
  <2>1. TypeOK'
    BY <1>16
    DEF FailBelow, TypeOK, Labels, Outcomes, Threads, meta, At, Goto, Return
  <2>2. Shape'
    BY <1>16, Constants
    DEF FailBelow, TypeOK, Shape, Threads, meta, At, Goto, Return, MakesCall, WriterLabels
  <2> QED
    BY <2>1, <2>2
<1>17. ASSUME NEW r \in Readers, NoLatest(r)
      PROVE  TypeInv'
  <2>1. TypeOK'
    BY <1>17, FrameTypes
    DEF NoLatest, TypeOK, Labels, Outcomes, Threads, meta, At, Goto, Return
  <2>2. Shape'
    BY <1>17, Constants, FrameTypes
    DEF NoLatest, TypeOK, Shape, Threads, meta, At, Goto, Return, NoFrame, ReaderLabels
  <2> QED
    BY <2>1, <2>2
<1>18. ASSUME NEW r \in Readers, GetLatest(r)
      PROVE  TypeInv'
  <2>1. npoints - 1 \in Nat
    BY <1>18 DEF GetLatest, TypeOK
  <2>2. TypeOK'
    BY <1>18, <2>1, ZenonT(90)
    DEF GetLatest, TypeOK, Labels, Outcomes, Threads, meta, At, Goto, Return, Frame
  <2>3. Shape'
    BY <1>18, <2>1, Constants
    DEF GetLatest, TypeOK, Shape, Threads, meta, At, Goto, Return, NoFrame, ReaderLabels
  <2> QED
    BY <2>2, <2>3
<1>19. ASSUME NEW r \in Readers, NEW t \in Times, GetValues(r, t)
      PROVE  TypeInv'
  <2>1. TypeOK'
    BY <1>19, Constants, ZenonT(90)
    DEF GetValues, TypeOK, Labels, Outcomes, Threads, meta, At, Goto, Return, Frame
  <2>2. Shape'
    BY <1>19, Constants
    DEF GetValues, TypeOK, Shape, Threads, meta, At, Goto, Return, ReaderLabels
  <2> QED
    BY <2>1, <2>2
<1>20. ASSUME NEW r \in Readers, Redirect(r)
      PROVE  TypeInv'
  <2>1. start_time + frame[r].top * Interval \in Nat
    BY Constants, Z3 DEF TypeOK, Threads, Frame
  <2>2. TypeOK'
    BY <1>20, <2>1, ZenonT(90)
    DEF Redirect, TypeOK, Labels, Outcomes, Threads, meta, At, Goto, Return, Frame
  <2>3. Shape'
    BY <1>20, <2>1, Constants
    DEF Redirect, TypeOK, Shape, Threads, meta, At, Goto, Return, ReaderLabels
  <2> QED
    BY <2>2, <2>3
<1>21. ASSUME NEW r \in Readers, TooOld(r)
      PROVE  TypeInv'
  <2>1. TypeOK'
    BY <1>21, FrameTypes
    DEF TooOld, TypeOK, Labels, Outcomes, Threads, meta, At, Goto, Return
  <2>2. Shape'
    BY <1>21, Constants, FrameTypes
    DEF TooOld, TypeOK, Shape, Threads, meta, At, Goto, Return, NoFrame, ReaderLabels
  <2> QED
    BY <2>1, <2>2
<1>22. ASSUME NEW r \in Readers, Seek(r)
      PROVE  TypeInv'
  <2>1. RoundDown(frame[r].time) - start_time \in Nat
    BY <1>22, RoundDownFacts DEF Seek, TypeOK, Threads, Frame, Shape
  <2>2. (RoundDown(frame[r].time) - start_time) \div Interval \in Nat
    BY <2>1, Constants, Quotient
  <2>3. TypeOK'
    BY <1>22, <2>1, <2>2, ZenonT(90)
    DEF Seek, TypeOK, Labels, Outcomes, Threads, meta, At, Goto, Return, Frame
  <2>4. Shape'
    BY <1>22, <2>1, <2>2, Constants
    DEF Seek, TypeOK, Shape, Threads, meta, At, Goto, Return, ReaderLabels
  <2> QED
    BY <2>3, <2>4
<1>23. ASSUME NEW r \in Readers, TooNew(r)
      PROVE  TypeInv'
  <2>1. TypeOK'
    BY <1>23, FrameTypes
    DEF TooNew, TypeOK, Labels, Outcomes, Threads, meta, At, Goto, Return
  <2>2. Shape'
    BY <1>23, Constants, FrameTypes
    DEF TooNew, TypeOK, Shape, Threads, meta, At, Goto, Return, NoFrame, ReaderLabels
  <2> QED
    BY <2>1, <2>2
<1>24. ASSUME NEW r \in Readers, Bound(r)
      PROVE  TypeInv'
  <2>1. TypeOK'
    BY <1>24, FrameTypes
    DEF Bound, TypeOK, Labels, Outcomes, Threads, meta, At, Goto, Return
  <2>2. Shape'
    BY <1>24, Constants
    DEF Bound, TypeOK, Shape, Threads, meta, At, Goto, Return, ReaderLabels
  <2> QED
    BY <2>1, <2>2
<1>25. ASSUME NEW r \in Readers, Fetch(r)
      PROVE  TypeInv'
  <2>1. TypeOK'
    BY <1>25, FrameTypes
    DEF Fetch, TypeOK, Labels, Outcomes, Threads, meta, At, Goto, Return
  <2>2. Shape'
    BY <1>25, Constants
    DEF Fetch, TypeOK, Shape, Threads, meta, At, Goto, Return, ReaderLabels
  <2> QED
    BY <2>1, <2>2
<1>26. ASSUME NEW r \in Readers, FetchRounded(r)
      PROVE  TypeInv'
  <2>1. TypeOK'
    BY <1>26, FrameTypes, RoundDownFacts
    DEF FetchRounded, TypeOK, Labels, Outcomes, Threads, meta, At, Goto, Return, Frame
  <2>2. Shape'
    BY <1>26, Constants
    DEF FetchRounded, TypeOK, Shape, Threads, meta, At, Goto, Return, ReaderLabels
  <2> QED
    BY <2>1, <2>2
<1>27. ASSUME NEW r \in Readers, FailFetch(r)
      PROVE  TypeInv'
  <2>1. TypeOK'
    BY <1>27, FrameTypes
    DEF FailFetch, TypeOK, Labels, Outcomes, Threads, meta, At, Goto, Return
  <2>2. Shape'
    BY <1>27, Constants
    DEF FailFetch, TypeOK, Shape, Threads, meta, At, Goto, Return, ReaderLabels
  <2> QED
    BY <2>1, <2>2
<1>28. CASE Crash
  <2>1. TypeOK'
    BY <1>28, FrameTypes
    DEF Crash, TypeOK, Labels, Outcomes, Threads, meta, At, Goto, Return
  <2>2. Shape'
    BY <1>28, Constants, FrameTypes
    DEF Crash, TypeOK, Shape, Threads, meta, At, Goto, Return, NoFrame, WriterLabels, ReaderLabels
  <2> QED
    BY <2>1, <2>2
<1>29. CASE UNCHANGED vars
  BY <1>29 DEF vars, TypeOK, Shape
<1> QED
  BY <1>1, <1>2, <1>3, <1>4, <1>5, <1>6, <1>7, <1>8, <1>9, <1>10, <1>11, <1>12, <1>13, <1>14, <1>15, <1>16, <1>17, <1>18, <1>19, <1>20, <1>21, <1>22, <1>23, <1>24, <1>25, <1>26, <1>27, <1>28, <1>29
  DEF Next, WriterStep, ReaderStep

\* Every variable stays in its type.
THEOREM TypeCorrect == Spec => []TypeOK
<1>1. Init => TypeInv
  BY TypeInit
<1>2. TypeInv /\ [Next]_vars => TypeInv'
  BY TypeStep
<1>3. TypeInv => TypeOK
  BY DEF TypeInv
<1> QED
  BY <1>1, <1>2, <1>3, PTL DEF Spec

-----------------------------------------------------------------------------
(* Reads that pass the bounds checks.                                          *)

\* The top-level table holds every row that is counted, every row whose writer
\* has got past the write, and every row that a reader is about to read.
Backed ==
    /\ npoints <= Len(table[0])
    /\ \A w \in Writers :
          pc[w] \in {"decimate", "test", "commit"} \/ frame[w].layer > 0
             => frame[w].top < Len(table[0])
    /\ \A r \in Readers : pc[r] = "fetch" => frame[r].point < Len(table[0])

ReadInv == TypeInv /\ Backed /\ NoShortRead

LEMMA TypeInvNow ==
    ASSUME TypeInv
    PROVE  /\ table \in [Layers -> Seq(Row)]
           /\ npoints \in Nat
           /\ \A l \in Layers : Len(table[l]) \in Nat
           /\ \A t \in Threads : frame[t] \in Frame
  BY LenProperties DEF TypeInv, TypeOK

LEMMA PwriteGrows ==
    ASSUME NEW file \in Seq(Row), NEW at \in Nat, NEW n \in Nat, NEW row \in Row
    PROVE  /\ Len(Pwrite(file, at, n, row)) >= Len(file)
           /\ Len(Pwrite(file, at, n, row)) >= at + n
<1>1. Len(Pwrite(file, at, n, row)) = IF at + n > Len(file) THEN at + n ELSE Len(file)
  BY PwriteFile
<1>2. Len(file) \in Nat
  BY LenProperties
<1> QED
  BY <1>1, <1>2

\* No step makes a table shorter.
LEMMA TablesGrow ==
    ASSUME TypeInv, [Next]_vars, NEW l \in Layers
    PROVE  Len(table'[l]) >= Len(table[l])
<1> USE TypeInvNow
<1>1. ASSUME NEW w \in Writers, Pad(w)
      PROVE  Len(table'[l]) >= Len(table[l])
  <2> DEFINE f == frame[w]
  <2>0. table[l] \in Seq(Row)
    OBVIOUS
  <2>1. f \in Frame
    BY DEF Threads
  <2>2. CASE f.point > f.npoints /\ l = f.layer
    <3>1. /\ f.npoints \in Nat
          /\ f.point - f.npoints \in Nat
      BY <2>1, <2>2 DEF Frame
    <3>2. Len(Pwrite(table[l], f.npoints, f.point - f.npoints, UnknownRow)) >= Len(table[l])
      BY <3>1, <2>0, PwriteGrows, RowTypes
    <3>3. table'[l] = Pwrite(table[l], f.npoints, f.point - f.npoints, UnknownRow)
      BY <1>1, <2>2 DEF Pad
    <3> QED
      BY <3>2, <3>3
  <2>3. CASE ~(f.point > f.npoints /\ l = f.layer)
    <3>1. table'[l] = table[l]
      BY <1>1, <2>3 DEF Pad
    <3> QED
      BY <3>1
  <2> QED
    BY <2>2, <2>3
<1>2. ASSUME NEW w \in Writers, Write(w)
      PROVE  Len(table'[l]) >= Len(table[l])
  <2> DEFINE f == frame[w]
  <2>0. table[l] \in Seq(Row)
    OBVIOUS
  <2>1. f \in Frame
    BY DEF Threads
  <2>2. CASE l = f.layer
    <3>1. Len(Pwrite(table[l], f.point, 1, f.row)) >= Len(table[l])
      BY <2>0, <2>1, PwriteGrows DEF Frame
    <3>2. table'[l] = Pwrite(table[l], f.point, 1, f.row)
      BY <1>2, <2>2 DEF Write
    <3> QED
      BY <3>1, <3>2
  <2>3. CASE l # f.layer
    <3>1. table'[l] = table[l]
      BY <1>2, <2>3 DEF Write
    <3> QED
      BY <3>1
  <2> QED
    BY <2>2, <2>3
<1>3. CASE UNCHANGED table
  BY <1>3
<1> QED
  BY <1>1, <1>2, <1>3
  DEF Next, vars, meta, WriterStep, ReaderStep, Post, CheckEmpty, SetStart, Refuse, Locate,
      ReadSize, Probe, Reread, Decimate, Test, Commit, Reply, FailTop, FailBelow, NoLatest,
      GetLatest, GetValues, Redirect, TooOld, Seek, TooNew, Bound, Fetch,
      FetchRounded, FailFetch, Crash

\* A step of one thread keeps Backed if it keeps it for that thread.
LEMMA BackedByThread ==
    ASSUME TypeInv, Backed, [Next]_vars, NEW t \in Threads,
           \A u \in Threads : u # t => pc'[u] = pc[u] /\ frame'[u] = frame[u],
           npoints' <= Len(table'[0]),
           t \in Writers /\ (pc'[t] \in {"decimate", "test", "commit"} \/ frame'[t].layer > 0)
              => frame'[t].top < Len(table'[0]),
           t \in Readers /\ pc'[t] = "fetch" => frame'[t].point < Len(table'[0])
    PROVE  Backed'
<1>1. Len(table'[0]) >= Len(table[0]) /\ Len(table'[0]) \in Nat /\ Len(table[0]) \in Nat
  BY TablesGrow, TypeInvNow, TypeStep, Constants, LenProperties DEF TypeInv, TypeOK
<1>2. ASSUME NEW w \in Writers, pc'[w] \in {"decimate", "test", "commit"} \/ frame'[w].layer > 0
      PROVE  frame'[w].top < Len(table'[0])
  <2>1. CASE w = t
    BY <1>2, <2>1
  <2>2. CASE w # t
    <3>1. pc'[w] = pc[w] /\ frame'[w] = frame[w]
      BY <2>2 DEF Threads
    <3>2. frame[w].top \in Nat
      BY TypeInvNow DEF Threads, Frame
    <3> QED
      BY <1>1, <1>2, <3>1, <3>2 DEF Backed
  <2> QED
    BY <2>1, <2>2
<1>3. ASSUME NEW r \in Readers, pc'[r] = "fetch"
      PROVE  frame'[r].point < Len(table'[0])
  <2>1. CASE r = t
    BY <1>3, <2>1
  <2>2. CASE r # t
    <3>1. pc'[r] = pc[r] /\ frame'[r] = frame[r]
      BY <2>2 DEF Threads
    <3>2. frame[r].point \in Nat
      BY TypeInvNow DEF Threads, Frame
    <3> QED
      BY <1>1, <1>3, <3>1, <3>2 DEF Backed
  <2> QED
    BY <2>1, <2>2
<1> QED
  BY <1>2, <1>3 DEF Backed

\* One step keeps reads backed.
LEMMA BackedStep ==
    ASSUME TypeInv, Backed, [Next]_vars
    PROVE  Backed'
<1>1. Len(table'[0]) >= Len(table[0]) /\ Len(table'[0]) \in Nat /\ Len(table[0]) \in Nat
  BY TablesGrow, TypeInvNow, TypeStep, Constants, LenProperties DEF TypeInv, TypeOK
<1>2. npoints \in Nat /\ npoints <= Len(table[0]) /\ npoints <= Len(table'[0])
  BY <1>1, TypeInvNow DEF Backed
<1>3. \A t \in Threads : /\ frame[t] \in Frame
                         /\ frame[t].top \in Nat
                         /\ frame[t].layer \in Nat
                         /\ frame[t].point \in Nat
  BY TypeInvNow DEF Frame, Layers
<1>4. pc \in [Threads -> Labels] /\ frame \in [Threads -> Frame]
  BY DEF TypeInv, TypeOK
<1>5. ASSUME NEW w \in Writers, NEW t \in Times, NEW v \in PostedRow, Post(w, t, v)
      PROVE  Backed'
  <2>1. w \in Threads /\ w \notin Readers
    BY Constants DEF Threads
  <2>2. \A u \in Threads : u # w => pc'[u] = pc[u] /\ frame'[u] = frame[u]
    BY <1>5, <1>4 DEF Post, Goto, Return
  <2>3. npoints' <= Len(table'[0])
    BY <1>5, <1>1, <1>2, <1>3, <2>1 DEF Post, meta, At, Backed
  <2>4. pc'[w] \in {"decimate", "test", "commit"} \/ frame'[w].layer > 0
           => frame'[w].top < Len(table'[0])
    BY <1>5, <1>1, <1>3, <1>4, <2>1 DEF Post, Backed, At, Goto, Return, NoFrame
  <2> QED
    BY <2>1, <2>2, <2>3, <2>4, BackedByThread
<1>6. ASSUME NEW w \in Writers, CheckEmpty(w)
      PROVE  Backed'
  <2>1. w \in Threads /\ w \notin Readers
    BY Constants DEF Threads
  <2>2. \A u \in Threads : u # w => pc'[u] = pc[u] /\ frame'[u] = frame[u]
    BY <1>6, <1>4 DEF CheckEmpty, Goto, Return
  <2>3. npoints' <= Len(table'[0])
    BY <1>6, <1>1, <1>2, <1>3, <2>1 DEF CheckEmpty, meta, At, Backed
  <2>4. pc'[w] \in {"decimate", "test", "commit"} \/ frame'[w].layer > 0
           => frame'[w].top < Len(table'[0])
    BY <1>6, <1>1, <1>3, <1>4, <2>1 DEF CheckEmpty, Backed, At, Goto, Return, NoFrame
  <2> QED
    BY <2>1, <2>2, <2>3, <2>4, BackedByThread
<1>7. ASSUME NEW w \in Writers, SetStart(w)
      PROVE  Backed'
  <2>1. w \in Threads /\ w \notin Readers
    BY Constants DEF Threads
  <2>2. \A u \in Threads : u # w => pc'[u] = pc[u] /\ frame'[u] = frame[u]
    BY <1>7, <1>4 DEF SetStart, Goto, Return
  <2>3. npoints' <= Len(table'[0])
    BY <1>7, <1>1, <1>2, <1>3, <2>1 DEF SetStart, meta, At, Backed
  <2>4. pc'[w] \in {"decimate", "test", "commit"} \/ frame'[w].layer > 0
           => frame'[w].top < Len(table'[0])
    BY <1>7, <1>1, <1>3, <1>4, <2>1 DEF SetStart, Backed, At, Goto, Return, NoFrame
  <2> QED
    BY <2>1, <2>2, <2>3, <2>4, BackedByThread
<1>8. ASSUME NEW w \in Writers, Refuse(w)
      PROVE  Backed'
  <2>1. w \in Threads /\ w \notin Readers
    BY Constants DEF Threads
  <2>2. \A u \in Threads : u # w => pc'[u] = pc[u] /\ frame'[u] = frame[u]
    BY <1>8, <1>4 DEF Refuse, Goto, Return
  <2>3. npoints' <= Len(table'[0])
    BY <1>8, <1>1, <1>2, <1>3, <2>1 DEF Refuse, meta, At, Backed
  <2>4. pc'[w] \in {"decimate", "test", "commit"} \/ frame'[w].layer > 0
           => frame'[w].top < Len(table'[0])
    BY <1>8, <1>1, <1>3, <1>4, <2>1 DEF Refuse, Backed, At, Goto, Return, NoFrame
  <2> QED
    BY <2>1, <2>2, <2>3, <2>4, BackedByThread
<1>9. ASSUME NEW w \in Writers, Locate(w)
      PROVE  Backed'
  <2>1. w \in Threads /\ w \notin Readers
    BY Constants DEF Threads
  <2>2. \A u \in Threads : u # w => pc'[u] = pc[u] /\ frame'[u] = frame[u]
    BY <1>9, <1>4 DEF Locate, Goto, Return
  <2>3. npoints' <= Len(table'[0])
    BY <1>9, <1>1, <1>2, <1>3, <2>1 DEF Locate, meta, At, Backed
  <2>4. pc'[w] \in {"decimate", "test", "commit"} \/ frame'[w].layer > 0
           => frame'[w].top < Len(table'[0])
    BY <1>9, <1>1, <1>3, <1>4, <2>1 DEF Locate, TypeInv, Shape, Backed, At, Goto, Return, NoFrame
  <2> QED
    BY <2>1, <2>2, <2>3, <2>4, BackedByThread
<1>10. ASSUME NEW w \in Writers, ReadSize(w)
      PROVE  Backed'
  <2>1. w \in Threads /\ w \notin Readers
    BY Constants DEF Threads
  <2>2. \A u \in Threads : u # w => pc'[u] = pc[u] /\ frame'[u] = frame[u]
    BY <1>10, <1>4 DEF ReadSize, Goto, Return
  <2>3. npoints' <= Len(table'[0])
    BY <1>10, <1>1, <1>2, <1>3, <2>1 DEF ReadSize, meta, At, Backed
  <2>4. pc'[w] \in {"decimate", "test", "commit"} \/ frame'[w].layer > 0
           => frame'[w].top < Len(table'[0])
    BY <1>10, <1>1, <1>3, <1>4, <2>1 DEF ReadSize, Backed, At, Goto, Return, NoFrame
  <2> QED
    BY <2>1, <2>2, <2>3, <2>4, BackedByThread
<1>11. ASSUME NEW w \in Writers, Pad(w)
      PROVE  Backed'
  <2>1. w \in Threads /\ w \notin Readers
    BY Constants DEF Threads
  <2>2. \A u \in Threads : u # w => pc'[u] = pc[u] /\ frame'[u] = frame[u]
    BY <1>11, <1>4 DEF Pad, Goto, Return
  <2>3. npoints' <= Len(table'[0])
    BY <1>11, <1>1, <1>2, <1>3, <2>1 DEF Pad, meta, At, Backed
  <2>4. pc'[w] \in {"decimate", "test", "commit"} \/ frame'[w].layer > 0
           => frame'[w].top < Len(table'[0])
    BY <1>11, <1>1, <1>3, <1>4, <2>1 DEF Pad, Backed, At, Goto, Return, NoFrame
  <2> QED
    BY <2>1, <2>2, <2>3, <2>4, BackedByThread
<1>12. ASSUME NEW w \in Writers, Probe(w)
      PROVE  Backed'
  <2>1. w \in Threads /\ w \notin Readers
    BY Constants DEF Threads
  <2>2. \A u \in Threads : u # w => pc'[u] = pc[u] /\ frame'[u] = frame[u]
    BY <1>12, <1>4 DEF Probe, Goto, Return
  <2>3. npoints' <= Len(table'[0])
    BY <1>12, <1>1, <1>2, <1>3, <2>1 DEF Probe, meta, At, Backed
  <2>4. pc'[w] \in {"decimate", "test", "commit"} \/ frame'[w].layer > 0
           => frame'[w].top < Len(table'[0])
    BY <1>12, <1>1, <1>3, <1>4, <2>1 DEF Probe, Backed, At, Goto, Return, NoFrame
  <2> QED
    BY <2>1, <2>2, <2>3, <2>4, BackedByThread
<1>13. ASSUME NEW w \in Writers, Reread(w)
      PROVE  Backed'
  <2>1. w \in Threads /\ w \notin Readers
    BY Constants DEF Threads
  <2>2. \A u \in Threads : u # w => pc'[u] = pc[u] /\ frame'[u] = frame[u]
    BY <1>13, <1>4 DEF Reread, Goto, Return
  <2>3. npoints' <= Len(table'[0])
    BY <1>13, <1>1, <1>2, <1>3, <2>1 DEF Reread, meta, At, Backed
  <2>4. pc'[w] \in {"decimate", "test", "commit"} \/ frame'[w].layer > 0
           => frame'[w].top < Len(table'[0])
    BY <1>13, <1>1, <1>3, <1>4, <2>1 DEF Reread, Backed, At, Goto, Return, NoFrame
  <2> QED
    BY <2>1, <2>2, <2>3, <2>4, BackedByThread
<1>14. ASSUME NEW w \in Writers, Write(w)
      PROVE  Backed'
  <2>1. w \in Threads /\ w \notin Readers
    BY Constants DEF Threads
  <2>2. \A u \in Threads : u # w => pc'[u] = pc[u] /\ frame'[u] = frame[u]
    BY <1>14, <1>4 DEF Write, Goto, Return
  <2>3. npoints' <= Len(table'[0])
    BY <1>14, <1>1, <1>2, <1>3, <2>1 DEF Write, meta, At, Backed
  <2>4. frame[w].layer = 0 => frame[w].top + 1 <= Len(table'[0])
    <3> SUFFICES ASSUME frame[w].layer = 0
                 PROVE  frame[w].top + 1 <= Len(table'[0])
      OBVIOUS
    <3>1. frame[w].point = frame[w].top
      BY <1>14 DEF Write, At, TypeInv, Shape
    <3>2. table[0] \in Seq(Row) /\ frame[w].row \in Row
      BY <1>3, <2>1, TypeInvNow, Constants DEF Frame
    <3>3. table'[0] = Pwrite(table[0], frame[w].point, 1, frame[w].row)
      BY <1>14, TypeInvNow, Constants DEF Write
    <3> QED
      BY <1>3, <2>1, <3>1, <3>2, <3>3, PwriteGrows
  <2>5. pc'[w] \in {"decimate", "test", "commit"} \/ frame'[w].layer > 0
           => frame'[w].top < Len(table'[0])
    BY <1>14, <1>1, <1>3, <1>4, <2>1, <2>4 DEF Write, Backed, At, Goto, Return, NoFrame
  <2> QED
    BY <2>1, <2>2, <2>3, <2>5, BackedByThread
<1>15. ASSUME NEW w \in Writers, Decimate(w)
      PROVE  Backed'
  <2>1. w \in Threads /\ w \notin Readers
    BY Constants DEF Threads
  <2>2. \A u \in Threads : u # w => pc'[u] = pc[u] /\ frame'[u] = frame[u]
    BY <1>15, <1>4 DEF Decimate, Goto, Return
  <2>3. npoints' <= Len(table'[0])
    BY <1>15, <1>1, <1>2, <1>3, <2>1 DEF Decimate, meta, At, Backed
  <2>4. pc'[w] \in {"decimate", "test", "commit"} \/ frame'[w].layer > 0
           => frame'[w].top < Len(table'[0])
    BY <1>15, <1>1, <1>3, <1>4, <2>1 DEF Decimate, Backed, At, Goto, Return, NoFrame
  <2> QED
    BY <2>1, <2>2, <2>3, <2>4, BackedByThread
<1>16. ASSUME NEW w \in Writers, Test(w)
      PROVE  Backed'
  <2>1. w \in Threads /\ w \notin Readers
    BY Constants DEF Threads
  <2>2. \A u \in Threads : u # w => pc'[u] = pc[u] /\ frame'[u] = frame[u]
    BY <1>16, <1>4 DEF Test, Goto, Return
  <2>3. npoints' <= Len(table'[0])
    BY <1>16, <1>1, <1>2, <1>3, <2>1 DEF Test, meta, At, Backed
  <2>4. pc'[w] \in {"decimate", "test", "commit"} \/ frame'[w].layer > 0
           => frame'[w].top < Len(table'[0])
    BY <1>16, <1>1, <1>3, <1>4, <2>1 DEF Test, Backed, At, Goto, Return, NoFrame
  <2> QED
    BY <2>1, <2>2, <2>3, <2>4, BackedByThread
<1>17. ASSUME NEW w \in Writers, Commit(w)
      PROVE  Backed'
  <2>1. w \in Threads /\ w \notin Readers
    BY Constants DEF Threads
  <2>2. \A u \in Threads : u # w => pc'[u] = pc[u] /\ frame'[u] = frame[u]
    BY <1>17, <1>4 DEF Commit, Goto, Return
  <2>3. npoints' <= Len(table'[0])
    BY <1>17, <1>1, <1>2, <1>3, <2>1 DEF Commit, meta, At, Backed
  <2>4. pc'[w] \in {"decimate", "test", "commit"} \/ frame'[w].layer > 0
           => frame'[w].top < Len(table'[0])
    BY <1>17, <1>1, <1>3, <1>4, <2>1 DEF Commit, Backed, At, Goto, Return, NoFrame
  <2> QED
    BY <2>1, <2>2, <2>3, <2>4, BackedByThread
<1>18. ASSUME NEW w \in Writers, Reply(w)
      PROVE  Backed'
  <2>1. w \in Threads /\ w \notin Readers
    BY Constants DEF Threads
  <2>2. \A u \in Threads : u # w => pc'[u] = pc[u] /\ frame'[u] = frame[u]
    BY <1>18, <1>4 DEF Reply, Goto, Return
  <2>3. npoints' <= Len(table'[0])
    BY <1>18, <1>1, <1>2, <1>3, <2>1 DEF Reply, meta, At, Backed
  <2>4. pc'[w] \in {"decimate", "test", "commit"} \/ frame'[w].layer > 0
           => frame'[w].top < Len(table'[0])
    BY <1>18, <1>1, <1>3, <1>4, <2>1 DEF Reply, Backed, At, Goto, Return, NoFrame
  <2> QED
    BY <2>1, <2>2, <2>3, <2>4, BackedByThread
<1>19. ASSUME NEW w \in Writers, FailTop(w)
      PROVE  Backed'
  <2>1. w \in Threads /\ w \notin Readers
    BY Constants DEF Threads
  <2>2. \A u \in Threads : u # w => pc'[u] = pc[u] /\ frame'[u] = frame[u]
    BY <1>19, <1>4 DEF FailTop, Goto, Return
  <2>3. npoints' <= Len(table'[0])
    BY <1>19, <1>1, <1>2, <1>3, <2>1 DEF FailTop, meta, At, Backed
  <2>4. pc'[w] \in {"decimate", "test", "commit"} \/ frame'[w].layer > 0
           => frame'[w].top < Len(table'[0])
    BY <1>19, <1>1, <1>3, <1>4, <2>1 DEF FailTop, Backed, At, Goto, Return, NoFrame
  <2> QED
    BY <2>1, <2>2, <2>3, <2>4, BackedByThread
<1>20. ASSUME NEW w \in Writers, FailBelow(w)
      PROVE  Backed'
  <2>1. w \in Threads /\ w \notin Readers
    BY Constants DEF Threads
  <2>2. \A u \in Threads : u # w => pc'[u] = pc[u] /\ frame'[u] = frame[u]
    BY <1>20, <1>4 DEF FailBelow, Goto, Return
  <2>3. npoints' <= Len(table'[0])
    BY <1>20, <1>1, <1>2, <1>3, <2>1 DEF FailBelow, meta, At, Backed
  <2>4. pc'[w] \in {"decimate", "test", "commit"} \/ frame'[w].layer > 0
           => frame'[w].top < Len(table'[0])
    BY <1>20, <1>1, <1>3, <1>4, <2>1 DEF FailBelow, Backed, At, Goto, Return, NoFrame
  <2> QED
    BY <2>1, <2>2, <2>3, <2>4, BackedByThread
<1>21. ASSUME NEW r \in Readers, NoLatest(r)
      PROVE  Backed'
  <2>1. r \in Threads /\ r \notin Writers
    BY Constants DEF Threads
  <2>2. \A u \in Threads : u # r => pc'[u] = pc[u] /\ frame'[u] = frame[u]
    BY <1>21, <1>4 DEF NoLatest, Goto, Return
  <2>3. npoints' <= Len(table'[0])
    BY <1>21, <1>1, <1>2, <1>3, <2>1 DEF NoLatest, meta, At, Backed
  <2>4. pc'[r] = "fetch" => frame'[r].point < Len(table'[0])
    BY <1>21, <1>1, <1>2, <1>3, <1>4, <2>1 DEF NoLatest, Backed, At, Goto, Return, NoFrame
  <2> QED
    BY <2>1, <2>2, <2>3, <2>4, BackedByThread
<1>22. ASSUME NEW r \in Readers, GetLatest(r)
      PROVE  Backed'
  <2>1. r \in Threads /\ r \notin Writers
    BY Constants DEF Threads
  <2>2. \A u \in Threads : u # r => pc'[u] = pc[u] /\ frame'[u] = frame[u]
    BY <1>22, <1>4 DEF GetLatest, Goto, Return
  <2>3. npoints' <= Len(table'[0])
    BY <1>22, <1>1, <1>2, <1>3, <2>1 DEF GetLatest, meta, At, Backed
  <2>4. pc'[r] = "fetch" => frame'[r].point < Len(table'[0])
    BY <1>22, <1>1, <1>2, <1>3, <1>4, <2>1 DEF GetLatest, Backed, At, Goto, Return, NoFrame
  <2> QED
    BY <2>1, <2>2, <2>3, <2>4, BackedByThread
<1>23. ASSUME NEW r \in Readers, NEW t \in Times, GetValues(r, t)
      PROVE  Backed'
  <2>1. r \in Threads /\ r \notin Writers
    BY Constants DEF Threads
  <2>2. \A u \in Threads : u # r => pc'[u] = pc[u] /\ frame'[u] = frame[u]
    BY <1>23, <1>4 DEF GetValues, Goto, Return
  <2>3. npoints' <= Len(table'[0])
    BY <1>23, <1>1, <1>2, <1>3, <2>1 DEF GetValues, meta, At, Backed
  <2>4. pc'[r] = "fetch" => frame'[r].point < Len(table'[0])
    BY <1>23, <1>1, <1>2, <1>3, <1>4, <2>1 DEF GetValues, Backed, At, Goto, Return, NoFrame
  <2> QED
    BY <2>1, <2>2, <2>3, <2>4, BackedByThread
<1>24. ASSUME NEW r \in Readers, Redirect(r)
      PROVE  Backed'
  <2>1. r \in Threads /\ r \notin Writers
    BY Constants DEF Threads
  <2>2. \A u \in Threads : u # r => pc'[u] = pc[u] /\ frame'[u] = frame[u]
    BY <1>24, <1>4 DEF Redirect, Goto, Return
  <2>3. npoints' <= Len(table'[0])
    BY <1>24, <1>1, <1>2, <1>3, <2>1 DEF Redirect, meta, At, Backed
  <2>4. pc'[r] = "fetch" => frame'[r].point < Len(table'[0])
    BY <1>24, <1>1, <1>2, <1>3, <1>4, <2>1 DEF Redirect, Backed, At, Goto, Return, NoFrame
  <2> QED
    BY <2>1, <2>2, <2>3, <2>4, BackedByThread
<1>25. ASSUME NEW r \in Readers, TooOld(r)
      PROVE  Backed'
  <2>1. r \in Threads /\ r \notin Writers
    BY Constants DEF Threads
  <2>2. \A u \in Threads : u # r => pc'[u] = pc[u] /\ frame'[u] = frame[u]
    BY <1>25, <1>4 DEF TooOld, Goto, Return
  <2>3. npoints' <= Len(table'[0])
    BY <1>25, <1>1, <1>2, <1>3, <2>1 DEF TooOld, meta, At, Backed
  <2>4. pc'[r] = "fetch" => frame'[r].point < Len(table'[0])
    BY <1>25, <1>1, <1>2, <1>3, <1>4, <2>1 DEF TooOld, Backed, At, Goto, Return, NoFrame
  <2> QED
    BY <2>1, <2>2, <2>3, <2>4, BackedByThread
<1>26. ASSUME NEW r \in Readers, Seek(r)
      PROVE  Backed'
  <2>1. r \in Threads /\ r \notin Writers
    BY Constants DEF Threads
  <2>2. \A u \in Threads : u # r => pc'[u] = pc[u] /\ frame'[u] = frame[u]
    BY <1>26, <1>4 DEF Seek, Goto, Return
  <2>3. npoints' <= Len(table'[0])
    BY <1>26, <1>1, <1>2, <1>3, <2>1 DEF Seek, meta, At, Backed
  <2>4. pc'[r] = "fetch" => frame'[r].point < Len(table'[0])
    BY <1>26, <1>1, <1>2, <1>3, <1>4, <2>1 DEF Seek, Backed, At, Goto, Return, NoFrame
  <2> QED
    BY <2>1, <2>2, <2>3, <2>4, BackedByThread
<1>27. ASSUME NEW r \in Readers, TooNew(r)
      PROVE  Backed'
  <2>1. r \in Threads /\ r \notin Writers
    BY Constants DEF Threads
  <2>2. \A u \in Threads : u # r => pc'[u] = pc[u] /\ frame'[u] = frame[u]
    BY <1>27, <1>4 DEF TooNew, Goto, Return
  <2>3. npoints' <= Len(table'[0])
    BY <1>27, <1>1, <1>2, <1>3, <2>1 DEF TooNew, meta, At, Backed
  <2>4. pc'[r] = "fetch" => frame'[r].point < Len(table'[0])
    BY <1>27, <1>1, <1>2, <1>3, <1>4, <2>1 DEF TooNew, Backed, At, Goto, Return, NoFrame
  <2> QED
    BY <2>1, <2>2, <2>3, <2>4, BackedByThread
<1>28. ASSUME NEW r \in Readers, Bound(r)
      PROVE  Backed'
  <2>1. r \in Threads /\ r \notin Writers
    BY Constants DEF Threads
  <2>2. \A u \in Threads : u # r => pc'[u] = pc[u] /\ frame'[u] = frame[u]
    BY <1>28, <1>4 DEF Bound, Goto, Return
  <2>3. npoints' <= Len(table'[0])
    BY <1>28, <1>1, <1>2, <1>3, <2>1 DEF Bound, meta, At, Backed
  <2>4. pc'[r] = "fetch" => frame'[r].point < Len(table'[0])
    BY <1>28, <1>1, <1>2, <1>3, <1>4, <2>1 DEF Bound, Backed, At, Goto, Return, NoFrame
  <2> QED
    BY <2>1, <2>2, <2>3, <2>4, BackedByThread
<1>29. ASSUME NEW r \in Readers, Fetch(r)
      PROVE  Backed'
  <2>1. r \in Threads /\ r \notin Writers
    BY Constants DEF Threads
  <2>2. \A u \in Threads : u # r => pc'[u] = pc[u] /\ frame'[u] = frame[u]
    BY <1>29, <1>4 DEF Fetch, Goto, Return
  <2>3. npoints' <= Len(table'[0])
    BY <1>29, <1>1, <1>2, <1>3, <2>1 DEF Fetch, meta, At, Backed
  <2>4. pc'[r] = "fetch" => frame'[r].point < Len(table'[0])
    BY <1>29, <1>1, <1>2, <1>3, <1>4, <2>1 DEF Fetch, Backed, At, Goto, Return, NoFrame
  <2> QED
    BY <2>1, <2>2, <2>3, <2>4, BackedByThread
<1>30. ASSUME NEW r \in Readers, FetchRounded(r)
      PROVE  Backed'
  <2>1. r \in Threads /\ r \notin Writers
    BY Constants DEF Threads
  <2>2. \A u \in Threads : u # r => pc'[u] = pc[u] /\ frame'[u] = frame[u]
    BY <1>30, <1>4 DEF FetchRounded, Goto, Return
  <2>3. npoints' <= Len(table'[0])
    BY <1>30, <1>1, <1>2, <1>3, <2>1 DEF FetchRounded, meta, At, Backed
  <2>4. pc'[r] = "fetch" => frame'[r].point < Len(table'[0])
    BY <1>30, <1>1, <1>2, <1>3, <1>4, <2>1 DEF FetchRounded, Backed, At, Goto, Return, NoFrame
  <2> QED
    BY <2>1, <2>2, <2>3, <2>4, BackedByThread
<1>31. ASSUME NEW r \in Readers, FailFetch(r)
      PROVE  Backed'
  <2>1. r \in Threads /\ r \notin Writers
    BY Constants DEF Threads
  <2>2. \A u \in Threads : u # r => pc'[u] = pc[u] /\ frame'[u] = frame[u]
    BY <1>31, <1>4 DEF FailFetch, Goto, Return
  <2>3. npoints' <= Len(table'[0])
    BY <1>31, <1>1, <1>2, <1>3, <2>1 DEF FailFetch, meta, At, Backed
  <2>4. pc'[r] = "fetch" => frame'[r].point < Len(table'[0])
    BY <1>31, <1>1, <1>2, <1>3, <1>4, <2>1 DEF FailFetch, Backed, At, Goto, Return, NoFrame
  <2> QED
    BY <2>1, <2>2, <2>3, <2>4, BackedByThread
<1>32. CASE Crash
  BY <1>32, <1>1, <1>2, Constants DEF Crash, Backed, NoFrame, meta, Threads
<1>33. CASE UNCHANGED vars
  BY <1>33 DEF vars, Backed
<1> QED
  BY <1>5, <1>6, <1>7, <1>8, <1>9, <1>10, <1>11, <1>12, <1>13, <1>14, <1>15, <1>16, <1>17, <1>18, <1>19, <1>20, <1>21, <1>22, <1>23, <1>24, <1>25, <1>26, <1>27, <1>28, <1>29, <1>30, <1>31, <1>32, <1>33
  DEF Next, WriterStep, ReaderStep

\* A fetch finds its row, so no step makes an answer short.
LEMMA NoShortStep ==
    ASSUME TypeInv, Backed, NoShortRead, [Next]_vars
    PROVE  NoShortRead'
<1>1. rc \in [Threads -> Outcomes]
  BY DEF TypeInv, TypeOK
<1>2. ASSUME NEW r \in Readers, Fetch(r)
      PROVE  NoShortRead'
  <2>1. frame[r].point < Len(table[0])
    BY <1>2 DEF Backed, Fetch, At
  <2> QED
    BY <1>1, <1>2, <2>1 DEF Fetch, Return, NoShortRead
<1>3. CASE Crash
  BY <1>1, <1>3 DEF Crash, NoShortRead
<1>4. ASSUME NEW t \in Threads, NEW outcome \in Outcomes \ {"short"},
             rc' = [rc EXCEPT ![t] = outcome]
      PROVE  NoShortRead'
  BY <1>1, <1>4 DEF NoShortRead
<1>5. CASE UNCHANGED rc
  BY <1>5 DEF NoShortRead
<1>6. {"past", "ok", "error", "empty", "future", "pending", "redirected", "rounded"}
         \subseteq Outcomes \ {"short"}
  BY DEF Outcomes
<1>7. ASSUME NEW w \in Writers, WriterStep(w) \/ FailTop(w) \/ FailBelow(w)
                                \/ \E t \in Times, v \in PostedRow : Post(w, t, v)
      PROVE  NoShortRead'
  BY <1>4, <1>5, <1>6, <1>7
  DEF WriterStep, Post, CheckEmpty, SetStart, Refuse, Locate, ReadSize, Pad, Probe, Reread,
      Write, Decimate, Test, Commit, Reply, FailTop, FailBelow, Return, Threads
<1>8. ASSUME NEW r \in Readers, NoLatest(r) \/ GetLatest(r) \/ ReaderStep(r) \/ FailFetch(r)
                                \/ \E t \in Times : GetValues(r, t)
      PROVE  NoShortRead'
  BY <1>2, <1>4, <1>5, <1>6, <1>8
  DEF ReaderStep, NoLatest, GetLatest, GetValues, Redirect, TooOld, Seek, TooNew, Bound,
      FetchRounded, FailFetch, Return, Threads
<1> QED
  BY <1>3, <1>5, <1>7, <1>8 DEF Next, vars

LEMMA ReadInit == Init => Backed /\ NoShortRead
<1> SUFFICES ASSUME Init PROVE Backed /\ NoShortRead
  OBVIOUS
<1>1. npoints = 0 /\ table[0] = <<>>
  BY Constants DEF Init
<1>2. Len(table[0]) = 0
  BY <1>1
<1> QED
  BY <1>1, <1>2 DEF Init, Backed, NoShortRead, NoFrame, Threads

\* No read meets the end of the table, whatever the number of writers and readers
\* and whichever faults happen: files never shrink, a post is counted after its
\* row is written, and a reader checks the count before it reads.
THEOREM ReadsAreWhole == Spec => []NoShortRead
<1>1. Init => ReadInv
  BY TypeInit, ReadInit DEF ReadInv
<1>2. ReadInv /\ [Next]_vars => ReadInv'
  BY TypeStep, BackedStep, NoShortStep DEF ReadInv
<1>3. ReadInv => NoShortRead
  BY DEF ReadInv
<1> QED
  BY <1>1, <1>2, <1>3, PTL DEF Spec

-----------------------------------------------------------------------------
(* One writer and no faults: how the steps on table files change cells.        *)

\* Padding from the end of a file changes no cell: beyond the end a read finds
\* nothing, and then it finds unknown rows.
LEMMA PadCells ==
    ASSUME table \in [Layers -> Seq(Row)], NEW l \in Layers, NEW n \in Nat,
           table' = [table EXCEPT ![l] = Pwrite(@, Len(table[l]), n, UnknownRow)]
    PROVE  /\ \A k \in Layers, p \in Nat : Cell(k, p)' = Cell(k, p)
           /\ Len(table'[l]) = Len(table[l]) + n
           /\ \A k \in Layers : k # l => table'[k] = table[k]
<1> DEFINE file == table[l]
           new  == Pwrite(file, Len(file), n, UnknownRow)
<1>1. file \in Seq(Row) /\ Len(file) \in Nat /\ UnknownRow \in Row
  BY LenProperties, RowTypes
<1>2. table'[l] = new /\ \A k \in Layers : k # l => table'[k] = table[k]
  OBVIOUS
<1> HIDE DEF file
<1>3. /\ Len(new) = Len(file) + n
      /\ \A p \in Nat : p < Len(file) + n =>
            new[p + 1] = IF Len(file) <= p /\ p < Len(file) + n THEN UnknownRow
                         ELSE IF p < Len(file) THEN file[p + 1] ELSE ZeroRow
  <2>1. /\ Len(new) = IF Len(file) + n > Len(file) THEN Len(file) + n ELSE Len(file)
        /\ \A p \in Nat : p < Len(new) =>
              new[p + 1] = IF Len(file) <= p /\ p < Len(file) + n THEN UnknownRow
                           ELSE IF p < Len(file) THEN file[p + 1] ELSE ZeroRow
    BY <1>1, PwriteFile, ZenonT(90)
  <2> HIDE DEF new
  <2> QED
    BY <1>1, <2>1
<1> HIDE DEF new
<1>4. \A p \in Nat : Cell(l, p)' = Cell(l, p)
  BY <1>1, <1>2, <1>3 DEF Cell, file
<1>5. \A k \in Layers, p \in Nat : k # l => Cell(k, p)' = Cell(k, p)
  BY <1>2 DEF Cell
<1> QED
  BY <1>2, <1>3, <1>4, <1>5 DEF file

\* Writing one row at or before the end of a file changes its cell and no other.
LEMMA WriteCells ==
    ASSUME table \in [Layers -> Seq(Row)], NEW l \in Layers, NEW p \in Nat, NEW row \in Row,
           p <= Len(table[l]),
           table' = [table EXCEPT ![l] = Pwrite(@, p, 1, row)]
    PROVE  /\ Cell(l, p)' = row
           /\ \A k \in Layers, q \in Nat : ~(k = l /\ q = p) => Cell(k, q)' = Cell(k, q)
           /\ Len(table'[l]) = IF p + 1 > Len(table[l]) THEN p + 1 ELSE Len(table[l])
           /\ \A k \in Layers : k # l => table'[k] = table[k]
<1> DEFINE file == table[l]
           new  == Pwrite(file, p, 1, row)
<1>1. file \in Seq(Row) /\ Len(file) \in Nat
  BY LenProperties
<1>2. table'[l] = new /\ \A k \in Layers : k # l => table'[k] = table[k]
  OBVIOUS
<1>0. p <= Len(file)
  OBVIOUS
<1> HIDE DEF file
<1>3. /\ Len(new) = IF p + 1 > Len(file) THEN p + 1 ELSE Len(file)
      /\ \A q \in Nat : q < Len(new) =>
            new[q + 1] = IF p <= q /\ q < p + 1 THEN row
                         ELSE IF q < Len(file) THEN file[q + 1] ELSE ZeroRow
  BY <1>1, PwriteFile
<1> HIDE DEF new
<1>5. Cell(l, p)' = row
  BY <1>1, <1>2, <1>3, <1>0 DEF Cell
<1>6. \A q \in Nat : q # p => Cell(l, q)' = Cell(l, q)
  <2> SUFFICES ASSUME NEW q \in Nat, q # p
               PROVE  Cell(l, q)' = Cell(l, q)
    OBVIOUS
  <2>1. CASE q < Len(file)
    BY <1>1, <1>2, <1>3, <2>1 DEF Cell, file
  <2>2. CASE ~(q < Len(file))
    <3>1. ~(q < Len(new))
      BY <1>1, <1>3, <1>0, <2>2
    <3> QED
      BY <1>2, <2>2, <3>1 DEF Cell, file
  <2> QED
    BY <2>1, <2>2
<1>7. \A k \in Layers, q \in Nat : k # l => Cell(k, q)' = Cell(k, q)
  BY <1>2 DEF Cell
<1> QED
  BY <1>2, <1>3, <1>5, <1>6, <1>7 DEF file

\* A downsampled row depends on nothing but the cells of its block.
LEMMA SameBlock ==
    ASSUME NEW k \in 0..LastLayer-1, NEW j \in Nat,
           \A i \in 0..Decimation[k]-1 :
              Cell(k, j * Decimation[k] + i)' = Cell(k, j * Decimation[k] + i)
    PROVE  Downsampled(k, j)' = Downsampled(k, j)
<1>1. \A m \in Metrics : Known(k, j, m)' = Known(k, j, m)
  BY DEF Known
<1>2. ASSUME NEW m \in Metrics
      PROVE  [i \in Known(k, j, m)' |-> Cell(k, j * Decimation[k] + i)'[m]]
              = [i \in Known(k, j, m) |-> Cell(k, j * Decimation[k] + i)[m]]
  BY <1>1 DEF Known
<1> QED
  BY <1>1, <1>2 DEF Downsampled

\* A write leaves alone every row downsampled from another block.
LEMMA OtherBlock ==
    ASSUME NEW l \in Layers, NEW p \in Nat,
           \A k \in Layers, q \in Nat : ~(k = l /\ q = p) => Cell(k, q)' = Cell(k, q),
           NEW k \in 0..LastLayer-1, NEW j \in Nat,
           ~(k = l /\ j = p \div Decimation[k])
    PROVE  Downsampled(k, j)' = Downsampled(k, j)
<1>1. k \in Layers /\ Decimation[k] \in Nat \ {0}
  BY Constants
<1>2. ASSUME NEW i \in 0..Decimation[k]-1
      PROVE  Cell(k, j * Decimation[k] + i)' = Cell(k, j * Decimation[k] + i)
  <2>1. /\ j * Decimation[k] + i \in Nat
        /\ (j * Decimation[k] + i) \div Decimation[k] = j
    BY <1>1, BlockRow
  <2> QED
    BY <1>1, <2>1
<1> QED
  BY <1>2, SameBlock

\* After a step, a downsampled value is unknown only if its whole block is.
LEMMA UnknownBlock ==
    ASSUME NEW k \in 0..LastLayer-1, NEW j \in Nat, NEW m \in Metrics,
           \A p \in Nat : Cell(k, p)' \in Row,
           Downsampled(k, j)'[m] = NaN
    PROVE  Known(k, j, m)' = {}
<1> DEFINE d == Decimation[k]
           K == Known(k, j, m)'
           f == [i \in K |-> Cell(k, j * d + i)'[m]]
<1>1. k \in Layers /\ d \in Nat \ {0}
  BY Constants
<1>2. \A i \in 0..d-1 : Cell(k, j * d + i)'[m] \in Values \union {NaN}
  BY <1>1, BlockRow DEF Row
<1>3. K \in SUBSET (0..d-1)
  BY DEF Known
<1>4. f \in [K -> Values]
  BY <1>2, <1>3 DEF Known
<1>5. K # {} => Agg(m, f) \in Values
  BY <1>3, <1>4, TsdbAssumption
<1>6. NaN \notin Values
  BY RowsAssumption
<1> QED
  BY <1>5, <1>6 DEF Downsampled

-----------------------------------------------------------------------------
(* The invariant of one writer.  While a post works its way down the layers,    *)
(* one row of one layer lags behind its block; everything else is consistent.   *)

Larger(a, b) == IF a > b THEN a ELSE b

InLayer(w) == pc[w] \in {"pad", "probe", "reread", "write"}

\* Row j of layer k + 1 is the one whose block has changed since it was written.
Pending(w, k, j) ==
    \/ InLayer(w) /\ k + 1 = frame[w].layer /\ j = frame[w].point
    \/ /\ pc[w] = "decimate"
       /\ k = frame[w].layer
       /\ j = frame[w].point \div Decimation[k]

\* The lengths of the tables, step by step.
Sizes(w) ==
    LET f == frame[w] IN
    /\ \A k \in 0..LastLayer-1 :
          \/ pc[w] \in {"probe", "reread", "write", "decimate"} /\ k = f.layer
          \/ InLayer(w) /\ k + 1 = f.layer
          \/ Len(table[k + 1]) = Ceil(Len(table[k]), Decimation[k])
    /\ pc[w] \in {"idle", "check", "start", "locate", "size", "reply"}
          => Len(table[0]) = npoints
    /\ pc[w] \in {"start", "locate", "size"} => f.npoints = npoints
    /\ InLayer(w) \/ pc[w] = "decimate"
          => f.npoints <= npoints /\ (f.layer = 0 => f.npoints = npoints)
    /\ pc[w] = "pad" => Len(table[f.layer]) = f.npoints
    /\ pc[w] \in {"probe", "reread", "write"}
          => Len(table[f.layer]) = Larger(f.npoints, f.point)
    /\ pc[w] = "decimate" => Len(table[f.layer]) = Larger(f.npoints, f.point + 1)
    /\ pc[w] \in {"probe", "reread", "write", "decimate"} /\ f.layer < LastLayer
          => Len(table[f.layer + 1]) = Ceil(f.npoints, Decimation[f.layer])
    /\ \A k \in 0..LastLayer-1 : InLayer(w) /\ k + 1 = f.layer
          => Ceil(Len(table[k]), Decimation[k]) = Larger(f.npoints, f.point + 1)
    /\ pc[w] \in {"decimate", "test", "commit"} \/ (InLayer(w) /\ f.layer > 0)
          => Len(table[0]) = Larger(npoints, f.top + 1)
    /\ pc[w] = "commit" => f.top >= npoints

\* A known value of a row is never replaced by an unknown one.
Keeps(new, old) == \A m \in Metrics : new[m] = NaN => old[m] = NaN

\* The contents of the tables, step by step.
Contents(w) ==
    LET f == frame[w] IN
    /\ \A k \in 0..LastLayer-1, j \in Nat :
          Pending(w, k, j) \/ Cell(k + 1, j) = Downsampled(k, j)
    /\ \A k \in 0..LastLayer-1 : InLayer(w) /\ k + 1 = f.layer
          => f.values = Downsampled(k, f.point) /\ Keeps(f.values, Cell(k + 1, f.point))
    /\ \A k \in 0..LastLayer-1 : pc[w] = "decimate" /\ k = f.layer
          => Keeps(Downsampled(k, f.point \div Decimation[k]),
                   Cell(k + 1, f.point \div Decimation[k]))
    /\ pc[w] = "write" => f.row = Merged(Cell(f.layer, f.point), f.values)

SerialInv(w) == Sizes(w) /\ Contents(w)

\* If no cell changes, no downsampled row does.
LEMMA SameCells ==
    ASSUME \A k \in Layers, p \in Nat : Cell(k, p)' = Cell(k, p)
    PROVE  \A k \in 0..LastLayer-1, j \in Nat : Downsampled(k, j)' = Downsampled(k, j)
<1> SUFFICES ASSUME NEW k \in 0..LastLayer-1, NEW j \in Nat
             PROVE  Downsampled(k, j)' = Downsampled(k, j)
  OBVIOUS
<1>1. k \in Layers /\ Decimation[k] \in Nat \ {0}
  BY Constants
<1>2. \A i \in 0..Decimation[k]-1 : j * Decimation[k] + i \in Nat
  BY <1>1, BlockRow
<1> QED
  BY <1>1, <1>2, SameBlock

\* The locals of a writer.
LEMMA FrameNow ==
    ASSUME TypeInv, NEW t \in Threads
    PROVE  /\ frame[t] \in Frame
           /\ frame[t].layer \in Layers
           /\ frame[t].point \in Nat
           /\ frame[t].npoints \in Nat
           /\ frame[t].top \in Nat
           /\ frame[t].row \in Row
           /\ frame[t].values \in Row
           /\ npoints \in Nat
           /\ table \in [Layers -> Seq(Row)]
           /\ \A l \in Layers : Len(table[l]) \in Nat
  BY TypeInvNow DEF Frame

LEMMA SerialPad ==
    ASSUME TypeInv, NEW w \in Writers, SerialInv(w), Pad(w)
    PROVE  SerialInv(w)'
<1>1. PICK L, P, N : L = frame[w].layer /\ P = frame[w].point /\ N = frame[w].npoints
  OBVIOUS
<1>2. /\ L \in Layers /\ P \in Nat /\ N \in Nat
      /\ table \in [Layers -> Seq(Row)]
      /\ \A l \in Layers : Len(table[l]) \in Nat
  BY <1>1, FrameNow DEF Threads
<1>3. /\ pc[w] = "pad" /\ pc'[w] = "probe"
      /\ frame' = frame /\ npoints' = npoints
  BY DEF Pad, At, Goto, meta, TypeInv, TypeOK, Threads
<1>4. Len(table[L]) = N
  BY <1>1, <1>3 DEF SerialInv, Sizes
<1>5. /\ \A k \in Layers, p \in Nat : Cell(k, p)' = Cell(k, p)
      /\ Len(table'[L]) = Larger(N, P)
      /\ \A k \in Layers : k # L => table'[k] = table[k]
  <2>1. CASE P > N
    <3>1. P - N \in Nat
      BY <1>2, <2>1
    <3>2. table' = [table EXCEPT ![L] = Pwrite(@, Len(table[L]), P - N, UnknownRow)]
      BY <1>1, <1>4, <2>1 DEF Pad
    <3>3. /\ \A k \in Layers, p \in Nat : Cell(k, p)' = Cell(k, p)
          /\ Len(table'[L]) = Len(table[L]) + (P - N)
          /\ \A k \in Layers : k # L => table'[k] = table[k]
      BY <1>2, <3>1, <3>2, PadCells
    <3> QED
      BY <1>2, <1>4, <2>1, <3>3 DEF Larger
  <2>2. CASE ~(P > N)
    <3>1. table' = table
      BY <1>1, <2>2 DEF Pad
    <3> QED
      BY <1>2, <1>4, <2>2, <3>1 DEF Larger, Cell
  <2> QED
    BY <2>1, <2>2
<1>6. \A k \in 0..LastLayer-1, j \in Nat : Downsampled(k, j)' = Downsampled(k, j)
  BY <1>5, SameCells
<1>7. Sizes(w)'
  <2>1. ASSUME NEW k \in 0..LastLayer-1
        PROVE  \/ k = L
               \/ k + 1 = L
               \/ Len(table'[k + 1]) = Ceil(Len(table'[k]), Decimation[k])
    BY <1>1, <1>3, <1>5, Constants DEF SerialInv, Sizes, InLayer
  <2>2. N <= npoints /\ (L = 0 => N = npoints)
    BY <1>1, <1>3 DEF SerialInv, Sizes, InLayer
  <2>3. L < LastLayer => Len(table'[L + 1]) = Ceil(N, Decimation[L])
    <3> SUFFICES ASSUME L < LastLayer
                 PROVE  Len(table'[L + 1]) = Ceil(N, Decimation[L])
      OBVIOUS
    <3>1. L \in 0..LastLayer-1 /\ L + 1 \in Layers /\ L + 1 # L
      BY <1>2, Constants DEF Layers
    <3>2. Len(table[L + 1]) = Ceil(Len(table[L]), Decimation[L])
      BY <1>1, <1>3, <3>1 DEF SerialInv, Sizes, InLayer
    <3> QED
      BY <1>4, <1>5, <3>1, <3>2
  <2>4. ASSUME NEW k \in 0..LastLayer-1, k + 1 = L
        PROVE  Ceil(Len(table'[k]), Decimation[k]) = Larger(N, P + 1)
    BY <1>1, <1>3, <1>5, <2>4, Constants DEF SerialInv, Sizes, InLayer
  <2>5. L > 0 => Len(table'[0]) = Larger(npoints, frame[w].top + 1)
    BY <1>1, <1>2, <1>3, <1>5, Constants DEF SerialInv, Sizes, InLayer
  <2> QED
    BY <1>1, <1>3, <1>5, <2>1, <2>2, <2>3, <2>4, <2>5 DEF Sizes, InLayer
<1>8. Contents(w)'
  <2>1. ASSUME NEW k \in 0..LastLayer-1, NEW j \in Nat, ~(k + 1 = L /\ j = P)
        PROVE  Cell(k + 1, j)' = Downsampled(k, j)'
    BY <1>1, <1>3, <1>5, <1>6, <2>1, Constants DEF SerialInv, Contents, InLayer, Pending
  <2>2. ASSUME NEW k \in 0..LastLayer-1, k + 1 = L
        PROVE  /\ frame[w].values = Downsampled(k, P)'
               /\ Keeps(frame[w].values, Cell(k + 1, P)')
    BY <1>1, <1>2, <1>3, <1>5, <1>6, <2>2, Constants DEF SerialInv, Contents, InLayer
  <2> QED
    BY <1>1, <1>3, <2>1, <2>2 DEF Contents, InLayer, Pending
<1> QED
  BY <1>7, <1>8 DEF SerialInv

LEMMA SerialWrite ==
    ASSUME TypeInv, NEW w \in Writers, SerialInv(w), Write(w)
    PROVE  SerialInv(w)'
<1>1. PICK L, P, N, R : /\ L = frame[w].layer /\ P = frame[w].point
                        /\ N = frame[w].npoints /\ R = frame[w].row
  OBVIOUS
<1>2. /\ L \in Layers /\ P \in Nat /\ N \in Nat /\ R \in Row
      /\ table \in [Layers -> Seq(Row)]
      /\ \A l \in Layers : Len(table[l]) \in Nat
      /\ frame[w].values \in Row
      /\ npoints \in Nat
  BY <1>1, FrameNow DEF Threads
<1>3. /\ pc[w] = "write" /\ pc'[w] = IF L < LastLayer THEN "decimate" ELSE "test"
      /\ frame' = frame /\ npoints' = npoints
      /\ table' = [table EXCEPT ![L] = Pwrite(@, P, 1, R)]
  BY <1>1 DEF Write, At, Goto, meta, TypeInv, TypeOK, Threads
<1>4. Len(table[L]) = Larger(N, P)
  BY <1>1, <1>3 DEF SerialInv, Sizes
<1>5. P <= Len(table[L])
  BY <1>2, <1>4 DEF Larger
<1>6. /\ Cell(L, P)' = R
      /\ \A k \in Layers, q \in Nat : ~(k = L /\ q = P) => Cell(k, q)' = Cell(k, q)
      /\ Len(table'[L]) = IF P + 1 > Len(table[L]) THEN P + 1 ELSE Len(table[L])
      /\ \A k \in Layers : k # L => table'[k] = table[k]
  BY <1>2, <1>3, <1>5, WriteCells
<1>7. Len(table'[L]) = Larger(N, P + 1)
  BY <1>2, <1>4, <1>6 DEF Larger
<1>8. ASSUME NEW k \in 0..LastLayer-1, NEW j \in Nat, ~(k = L /\ j = P \div Decimation[k])
      PROVE  Downsampled(k, j)' = Downsampled(k, j)
  BY <1>2, <1>6, <1>8, OtherBlock
<1>9. R = Merged(Cell(L, P), frame[w].values)
  BY <1>1, <1>3 DEF SerialInv, Contents
<1>10. Keeps(R, Cell(L, P))
  BY <1>2, <1>9 DEF Merged, Keeps
<1>11. Sizes(w)'
  <2>1. ASSUME NEW k \in 0..LastLayer-1, k # L
        PROVE  Len(table'[k + 1]) = Ceil(Len(table'[k]), Decimation[k])
    <3>1. CASE k + 1 = L
      <4>1. Ceil(Len(table[k]), Decimation[k]) = Larger(N, P + 1)
        BY <1>1, <1>3, <3>1 DEF SerialInv, Sizes, InLayer
      <4> QED
        BY <1>6, <1>7, <2>1, <3>1, <4>1, Constants
    <3>2. CASE k + 1 # L
      BY <1>1, <1>3, <1>6, <2>1, <3>2, Constants DEF SerialInv, Sizes, InLayer
    <3> QED
      BY <3>1, <3>2
  <2>2. N <= npoints /\ (L = 0 => N = npoints)
    BY <1>1, <1>3 DEF SerialInv, Sizes, InLayer
  <2>3. L < LastLayer => Len(table'[L + 1]) = Ceil(N, Decimation[L])
    <3> SUFFICES ASSUME L < LastLayer
                 PROVE  Len(table'[L + 1]) = Ceil(N, Decimation[L])
      OBVIOUS
    <3>1. L \in 0..LastLayer-1 /\ L + 1 \in Layers /\ L + 1 # L
      BY <1>2, Constants DEF Layers
    <3>2. Len(table[L + 1]) = Ceil(N, Decimation[L])
      BY <1>1, <1>3 DEF SerialInv, Sizes
    <3> QED
      BY <1>6, <3>1, <3>2
  <2>4. Len(table'[0]) = Larger(npoints, frame[w].top + 1)
    <3>1. CASE L = 0
      <4>1. frame[w].top = P
        BY <1>1, <1>3, <3>1 DEF TypeInv, Shape
      <4> QED
        BY <1>7, <2>2, <3>1, <4>1
    <3>2. CASE L # 0
      <4>1. L > 0
        BY <1>2, <3>2, Constants DEF Layers
      <4>2. Len(table[0]) = Larger(npoints, frame[w].top + 1)
        BY <1>1, <1>3, <4>1 DEF SerialInv, Sizes, InLayer
      <4> QED
        BY <1>6, <3>2, <4>2, Constants
    <3> QED
      BY <3>1, <3>2
  <2>5. CASE L < LastLayer
    BY <1>1, <1>3, <1>7, <2>1, <2>2, <2>3, <2>4, <2>5 DEF Sizes, InLayer
  <2>6. CASE ~(L < LastLayer)
    <3>1. \A k \in 0..LastLayer-1 : k # L
      BY <1>2, <2>6, Constants DEF Layers
    <3> QED
      BY <1>1, <1>3, <2>1, <2>4, <2>6, <3>1 DEF Sizes, InLayer
  <2> QED
    BY <2>5, <2>6
<1>12. Contents(w)'
  <2>1. ASSUME NEW k \in 0..LastLayer-1, k + 1 = L
        PROVE  Cell(k + 1, P)' = Downsampled(k, P)'
    <3>1. frame[w].values = Downsampled(k, P) /\ Keeps(frame[w].values, Cell(L, P))
      BY <1>1, <1>3, <2>1 DEF SerialInv, Contents, InLayer
    <3>2. R = frame[w].values
      <4>1. \A m \in Metrics : frame[w].values[m] = NaN => Cell(L, P)[m] = NaN
        BY <3>1 DEF Keeps
      <4>2. Merged(Cell(L, P), frame[w].values) = [m \in Metrics |-> frame[w].values[m]]
        BY <4>1 DEF Merged
      <4> QED
        BY <1>2, <1>9, <4>2 DEF Row
    <3>3. Downsampled(k, P)' = Downsampled(k, P)
      <4>1. k # L
        BY <2>1, Constants
      <4> QED
        BY <1>2, <1>8, <4>1
    <3> QED
      BY <1>6, <2>1, <3>1, <3>2, <3>3
  <2>2. ASSUME NEW k \in 0..LastLayer-1, NEW j \in Nat,
               ~(k + 1 = L /\ j = P), ~(k = L /\ j = P \div Decimation[k])
        PROVE  Cell(k + 1, j)' = Downsampled(k, j)'
    <3>1. Cell(k + 1, j) = Downsampled(k, j)
      BY <1>1, <1>3, <2>2 DEF SerialInv, Contents, InLayer, Pending
    <3>2. Cell(k + 1, j)' = Cell(k + 1, j)
      BY <1>6, <2>2, Constants
    <3> QED
      BY <1>8, <2>2, <3>1, <3>2
  <2>3. ASSUME NEW k \in 0..LastLayer-1, k = L
        PROVE  Keeps(Downsampled(k, P \div Decimation[k])', Cell(k + 1, P \div Decimation[k])')
    <3> DEFINE d == Decimation[k]
               Q == P \div d
    <3>1. d \in Nat \ {0} /\ Q \in Nat /\ k \in Layers /\ k + 1 \in Layers /\ k + 1 # L
      <4>1. d \in Nat \ {0} /\ k \in Layers /\ k + 1 \in Layers /\ k \in Nat
        BY <2>3, Constants
      <4>2. P \in Nat
        BY <1>2
      <4> HIDE DEF d
      <4>3. Q \in Nat
        BY <4>1, <4>2, Quotient
      <4> QED
        BY <2>3, <4>1, <4>3
    <3> HIDE DEF Q
    <3>2. Cell(k + 1, Q) = Downsampled(k, Q)
      BY <1>1, <1>3, <2>3, <3>1 DEF SerialInv, Contents, InLayer, Pending
    <3>3. Cell(k + 1, Q)' = Cell(k + 1, Q)
      BY <1>6, <3>1
    <3>4. \A p \in Nat : Cell(k, p)' \in Row
      BY <1>2, <1>6, <3>1, CellType
    <3>5. ASSUME NEW m \in Metrics, Downsampled(k, Q)'[m] = NaN
          PROVE  Downsampled(k, Q)[m] = NaN
      <4>1. Known(k, Q, m)' = {}
        BY <3>1, <3>4, <3>5, UnknownBlock
      <4>2. \A i \in 0..d-1 : Cell(k, Q * d + i)'[m] = NaN
        BY <4>1 DEF Known
      <4>3. \A i \in 0..d-1 : Q * d + i \in Nat
        BY <3>1, BlockRow
      <4>4. ASSUME NEW i \in 0..d-1
            PROVE  Cell(k, Q * d + i)[m] = NaN
        <5>1. CASE Q * d + i = P
          BY <1>6, <1>10, <2>3, <4>2, <5>1 DEF Keeps
        <5>2. CASE Q * d + i # P
          BY <1>6, <3>1, <4>2, <4>3, <5>2
        <5> QED
          BY <5>1, <5>2
      <4> QED
        BY <4>4 DEF Known, Downsampled
    <3> QED
      BY <3>2, <3>3, <3>5 DEF Keeps, Q
  <2>4. CASE L < LastLayer
    <3>1. \A k \in 0..LastLayer-1, j \in Nat :
             (k = L /\ j = P \div Decimation[k]) \/ Cell(k + 1, j)' = Downsampled(k, j)'
      BY <2>1, <2>2
    <3> QED
      BY <1>1, <1>3, <2>3, <2>4, <3>1 DEF Contents, InLayer, Pending
  <2>5. CASE ~(L < LastLayer)
    <3>1. \A k \in 0..LastLayer-1 : k # L
      BY <1>2, <2>5, Constants DEF Layers
    <3>2. \A k \in 0..LastLayer-1, j \in Nat : Cell(k + 1, j)' = Downsampled(k, j)'
      BY <2>1, <2>2, <3>1
    <3> QED
      BY <1>3, <2>5, <3>2 DEF Contents, InLayer, Pending
  <2> QED
    BY <2>4, <2>5
<1> QED
  BY <1>11, <1>12 DEF SerialInv

LEMMA SerialDecimate ==
    ASSUME TypeInv, NEW w \in Writers, SerialInv(w), Decimate(w)
    PROVE  SerialInv(w)'
<1>1. PICK L, P, N : L = frame[w].layer /\ P = frame[w].point /\ N = frame[w].npoints
  OBVIOUS
<1>2. /\ L \in Layers /\ P \in Nat /\ N \in Nat /\ npoints \in Nat
      /\ \A l \in Layers : Len(table[l]) \in Nat
  BY <1>1, FrameNow DEF Threads
<1>3. /\ pc[w] = "decimate" /\ pc'[w] = "pad"
      /\ table' = table /\ npoints' = npoints
  BY DEF Decimate, At, Goto, meta, TypeInv, TypeOK, Threads
<1>4. L \in 0..LastLayer-1
  BY <1>1, <1>2, <1>3, Constants DEF TypeInv, Shape, Layers
<1> DEFINE d == Decimation[L]
           Q == P \div d
<1>5. /\ d \in Nat \ {0} /\ Q \in Nat /\ L + 1 \in Layers
      /\ Ceil(N, d) \in Nat
  BY <1>2, <1>4, Constants, Quotient, CeilNat
<1>6. /\ frame'[w].layer = L + 1 /\ frame'[w].point = Q
      /\ frame'[w].npoints = Ceil(N, d)
      /\ frame'[w].values = Downsampled(L, Q)
      /\ frame'[w].top = frame[w].top
  BY <1>1 DEF Decimate, TypeInv, TypeOK, Threads
<1>7. \A k \in Layers, p \in Nat : Cell(k, p)' = Cell(k, p)
  BY <1>3 DEF Cell
<1>8. \A k \in 0..LastLayer-1, j \in Nat : Downsampled(k, j)' = Downsampled(k, j)
  BY <1>7, SameCells
<1> HIDE DEF Q
<1>9. Sizes(w)'
  <2>1. ASSUME NEW k \in 0..LastLayer-1, k # L
        PROVE  Len(table[k + 1]) = Ceil(Len(table[k]), Decimation[k])
    BY <1>1, <1>3, <2>1 DEF SerialInv, Sizes, InLayer
  <2>2. Ceil(N, d) <= npoints
    <3>1. N <= npoints
      BY <1>1, <1>3 DEF SerialInv, Sizes
    <3>2. Ceil(N, d) <= N
      BY <1>2, <1>5, CeilShrinks
    <3> QED
      BY <1>2, <1>5, <3>1, <3>2
  <2>3. Len(table[L + 1]) = Ceil(N, d)
    <3>1. L < LastLayer
      BY <1>4, Constants
    <3> QED
      BY <1>1, <1>3, <3>1 DEF SerialInv, Sizes
  <2>4. Ceil(Len(table[L]), d) = Larger(Ceil(N, d), Q + 1)
    <3>1. Len(table[L]) = Larger(N, P + 1)
      BY <1>1, <1>3 DEF SerialInv, Sizes
    <3>2. /\ P + 1 > N => Ceil(P + 1, d) = Q + 1
          /\ P < N => Q + 1 <= Ceil(N, d)
          /\ P >= N => Ceil(N, d) <= Q + 1
      BY <1>2, <1>5, CeilOfExtended DEF Q
    <3> QED
      BY <1>2, <1>5, <3>1, <3>2 DEF Larger
  <2>5. Len(table[0]) = Larger(npoints, frame[w].top + 1)
    BY <1>3 DEF SerialInv, Sizes
  <2>6. L + 1 > 0 /\ \A k \in 0..LastLayer-1 : k + 1 = L + 1 => k = L
    BY <1>4, Constants
  <2> QED
    BY <1>3, <1>6, <2>1, <2>2, <2>3, <2>4, <2>5, <2>6 DEF Sizes, InLayer
<1>10. Contents(w)'
  <2>1. \A k \in 0..LastLayer-1 : k + 1 = L + 1 <=> k = L
    BY <1>4, Constants
  <2>2. ASSUME NEW k \in 0..LastLayer-1, NEW j \in Nat, ~(k = L /\ j = Q)
        PROVE  Cell(k + 1, j)' = Downsampled(k, j)'
    <3>1. Cell(k + 1, j) = Downsampled(k, j)
      BY <1>1, <1>3, <2>2 DEF SerialInv, Contents, InLayer, Pending, Q
    <3> QED
      BY <1>7, <1>8, <3>1, Constants
  <2>3. Keeps(Downsampled(L, Q)', Cell(L + 1, Q)')
    <3>1. Keeps(Downsampled(L, Q), Cell(L + 1, Q))
      BY <1>1, <1>3, <1>4 DEF SerialInv, Contents, Q
    <3> QED
      BY <1>4, <1>5, <1>7, <1>8, <3>1 DEF Keeps
  <2>4. frame'[w].values = Downsampled(L, Q)'
    BY <1>4, <1>5, <1>6, <1>8
  <2> QED
    BY <1>3, <1>4, <1>6, <2>1, <2>2, <2>3, <2>4 DEF Contents, InLayer, Pending
<1> QED
  BY <1>9, <1>10 DEF SerialInv

\* The actions of a writer that touch no table, and its locals in no layer.
LEMMA SerialQuiet ==
    ASSUME TypeInv, NEW w \in Writers, SerialInv(w), [Next]_vars,
           \/ \E t \in Times, v \in PostedRow : Post(w, t, v)
           \/ CheckEmpty(w) \/ SetStart(w) \/ Refuse(w) \/ Locate(w) \/ ReadSize(w)
           \/ Test(w) \/ Commit(w) \/ Reply(w)
    PROVE  SerialInv(w)'
<1>1. /\ npoints \in Nat /\ frame[w].top \in Nat
      /\ \A l \in Layers : Len(table[l]) \in Nat
      /\ 0 \in Layers
      /\ pc \in [Threads -> Labels] /\ frame \in [Threads -> Frame] /\ w \in Threads
  BY FrameNow, Constants DEF Threads, TypeInv, TypeOK
<1>2. table' = table
  BY DEF Post, CheckEmpty, SetStart, Refuse, Locate, ReadSize, Test, Commit, Reply
<1>3. /\ pc[w] \in {"idle", "check", "start", "locate", "size", "test", "commit", "reply"}
      /\ pc'[w] \in {"idle", "check", "start", "locate", "size", "pad", "commit", "reply"}
  BY <1>1 DEF Post, CheckEmpty, SetStart, Refuse, Locate, ReadSize, Test, Commit, Reply,
              At, Goto, Return
<1>4. pc'[w] = "pad" => frame'[w].layer = 0
  <2>1. pc'[w] = "pad" => ReadSize(w)
    BY <1>1 DEF Post, CheckEmpty, SetStart, Refuse, Locate, Test, Commit, Reply, At, Goto, Return
  <2>2. ReadSize(w) => frame'[w].layer = frame[w].layer /\ frame[w].layer = 0
    BY <1>1 DEF ReadSize, At, TypeInv, Shape
  <2> QED
    BY <2>1, <2>2
<1>5. \A k \in Layers, p \in Nat : Cell(k, p)' = Cell(k, p)
  BY <1>2 DEF Cell
<1>6. \A k \in 0..LastLayer-1, j \in Nat : Downsampled(k, j)' = Downsampled(k, j)
  BY <1>5, SameCells
<1>7. \A k \in 0..LastLayer-1 : k + 1 # 0
  BY Constants
<1>8. Contents(w)'
  <2>1. ASSUME NEW k \in 0..LastLayer-1, NEW j \in Nat
        PROVE  Cell(k + 1, j)' = Downsampled(k, j)'
    <3>1. Cell(k + 1, j) = Downsampled(k, j)
      BY <1>3 DEF SerialInv, Contents, InLayer, Pending
    <3> QED
      BY <1>5, <1>6, <3>1, Constants
  <2> QED
    BY <1>3, <1>4, <1>7, <2>1 DEF Contents, InLayer, Pending
<1>9. Sizes(w)'
  <2>1. \A k \in 0..LastLayer-1 : Len(table'[k + 1]) = Ceil(Len(table'[k]), Decimation[k])
    BY <1>2, <1>3 DEF SerialInv, Sizes, InLayer
  <2>2. pc'[w] \in {"idle", "check", "start", "locate", "size", "pad", "reply"}
           => Len(table'[0]) = npoints'
    <3>1. CASE Test(w)
      BY <1>1, <1>2, <3>1 DEF Test, At, Goto, meta, SerialInv, Sizes, InLayer, Larger
    <3>2. CASE Commit(w)
      BY <1>1, <1>2, <3>2 DEF Commit, At, SerialInv, Sizes, InLayer, Larger
    <3>3. CASE npoints' = npoints /\ pc[w] \in {"idle", "check", "start", "locate", "size", "reply"}
      BY <1>2, <3>3 DEF SerialInv, Sizes
    <3> QED
      BY <3>1, <3>2, <3>3
      DEF Post, CheckEmpty, SetStart, Refuse, Locate, ReadSize, Reply, At, meta
  <2>3. pc'[w] \in {"start", "locate", "size", "pad"} => frame'[w].npoints = npoints'
    <3>1. CASE CheckEmpty(w)
      BY <1>1, <3>1 DEF CheckEmpty, meta
    <3>2. CASE SetStart(w)
      BY <1>1, <3>2 DEF SetStart, At, SerialInv, Sizes
    <3>3. CASE Locate(w)
      BY <1>1, <3>3 DEF Locate, At, meta, SerialInv, Sizes
    <3>4. CASE ReadSize(w)
      BY <1>1, <3>4 DEF ReadSize, At, meta, SerialInv, Sizes
    <3>5. CASE \/ \E t \in Times, v \in PostedRow : Post(w, t, v)
               \/ Refuse(w) \/ Test(w) \/ Commit(w) \/ Reply(w)
      BY <1>1, <3>5 DEF Post, Refuse, Test, Commit, Reply, Goto, Return
    <3> QED
      BY <3>1, <3>2, <3>3, <3>4, <3>5
  <2>4. pc'[w] = "commit" => Len(table'[0]) = Larger(npoints', frame'[w].top + 1)
                             /\ frame'[w].top >= npoints'
    BY <1>1, <1>2, <1>3 DEF SerialInv, Sizes, InLayer, Post, CheckEmpty, SetStart,
       Refuse, Locate, ReadSize, Test, Commit, Reply, At, Goto, Return, meta
  <2>5. npoints' \in Nat
    BY TypeStep DEF TypeInv, TypeOK
  <2> QED
    BY <1>3, <1>4, <1>7, <2>1, <2>2, <2>3, <2>4, <2>5 DEF Sizes, InLayer
<1> QED
  BY <1>8, <1>9 DEF SerialInv

\* Reading the old row changes nothing but the local row, and that becomes the
\* old row with the known values on top, also when the old row is not read: a
\* point that is not below the top-level count is beyond the end of its table.
LEMMA SerialMerge ==
    ASSUME TypeInv, NEW w \in Writers, SerialInv(w), Probe(w) \/ Reread(w)
    PROVE  SerialInv(w)'
<1>1. PICK L, P, N : L = frame[w].layer /\ P = frame[w].point /\ N = frame[w].npoints
  OBVIOUS
<1>2. /\ L \in Layers /\ P \in Nat /\ N \in Nat /\ npoints \in Nat
      /\ table \in [Layers -> Seq(Row)]
      /\ \A l \in Layers : Len(table[l]) \in Nat
  BY <1>1, FrameNow DEF Threads
<1>3. /\ pc[w] \in {"probe", "reread"} /\ pc'[w] \in {"reread", "write"}
      /\ table' = table /\ npoints' = npoints
      /\ frame'[w].layer = L /\ frame'[w].point = P /\ frame'[w].npoints = N
      /\ frame'[w].values = frame[w].values /\ frame'[w].top = frame[w].top
  <2>1. CASE Probe(w)
    <3>1. frame'[w] = [frame[w] EXCEPT !.row = Merged(UnknownRow, frame[w].values)]
      BY <2>1 DEF Probe, TypeInv, TypeOK, Threads
    <3>2. /\ pc[w] = "probe" /\ pc'[w] \in {"reread", "write"}
          /\ table' = table /\ npoints' = npoints
      BY <2>1 DEF Probe, At, Goto, meta, TypeInv, TypeOK, Threads
    <3> QED
      BY <1>1, <3>1, <3>2, FrameNow DEF Frame, Threads
  <2>2. CASE Reread(w)
    <3>1. frame'[w] = [frame[w] EXCEPT !.row =
                          Merged(Cell(frame[w].layer, frame[w].point), frame[w].values)]
      BY <2>2 DEF Reread, TypeInv, TypeOK, Threads
    <3>2. /\ pc[w] = "reread" /\ pc'[w] = "write"
          /\ table' = table /\ npoints' = npoints
      BY <2>2 DEF Reread, At, Goto, meta, TypeInv, TypeOK, Threads
    <3> QED
      BY <1>1, <3>1, <3>2, FrameNow DEF Frame, Threads
  <2> QED
    BY <2>1, <2>2
<1>4. \A k \in Layers, p \in Nat : Cell(k, p)' = Cell(k, p)
  BY <1>3 DEF Cell
<1>5. \A k \in 0..LastLayer-1, j \in Nat : Downsampled(k, j)' = Downsampled(k, j)
  BY <1>4, SameCells
<1>6. Sizes(w)'
  BY <1>1, <1>3 DEF SerialInv, Sizes, InLayer
<1>7. pc'[w] = "write" => frame'[w].row = Merged(Cell(L, P), frame[w].values)
  <2>1. CASE Reread(w)
    BY <1>1, <2>1 DEF Reread, TypeInv, TypeOK, Threads
  <2>2. CASE Probe(w) /\ pc'[w] = "write"
    <3>1. ~(P < npoints)
      BY <1>1, <2>2 DEF Probe, Goto, TypeInv, TypeOK, Threads
    <3>2. N <= npoints /\ Len(table[L]) = Larger(N, P)
      BY <1>1, <2>2 DEF Probe, At, SerialInv, Sizes, InLayer
    <3>3. ~(P < Len(table[L]))
      BY <1>2, <3>1, <3>2 DEF Larger
    <3>4. Cell(L, P) = UnknownRow
      BY <3>3 DEF Cell
    <3>5. frame'[w].row = Merged(UnknownRow, frame[w].values)
      BY <2>2 DEF Probe, TypeInv, TypeOK, Threads
    <3> QED
      BY <3>4, <3>5
  <2> QED
    BY <2>1, <2>2
<1>8. Contents(w)'
  <2>1. ASSUME NEW k \in 0..LastLayer-1, NEW j \in Nat, ~(k + 1 = L /\ j = P)
        PROVE  Cell(k + 1, j)' = Downsampled(k, j)'
    <3>1. Cell(k + 1, j) = Downsampled(k, j)
      BY <1>1, <1>3, <2>1 DEF SerialInv, Contents, InLayer, Pending
    <3> QED
      BY <1>4, <1>5, <3>1, Constants
  <2>2. ASSUME NEW k \in 0..LastLayer-1, k + 1 = L
        PROVE  /\ frame'[w].values = Downsampled(k, P)'
               /\ Keeps(frame'[w].values, Cell(k + 1, P)')
    <3>1. frame[w].values = Downsampled(k, P) /\ Keeps(frame[w].values, Cell(k + 1, P))
      BY <1>1, <1>3, <2>2 DEF SerialInv, Contents, InLayer
    <3> QED
      BY <1>2, <1>3, <1>4, <1>5, <3>1, Constants
  <2>3. pc'[w] = "write" => frame'[w].row = Merged(Cell(L, P)', frame'[w].values)
    BY <1>2, <1>3, <1>4, <1>7
  <2> QED
    BY <1>3, <2>1, <2>2, <2>3 DEF Contents, InLayer, Pending
<1> QED
  BY <1>6, <1>8 DEF SerialInv

\* A step that leaves the tables, the count and the writer alone.
LEMMA SerialOther ==
    ASSUME NEW w \in Writers, SerialInv(w), pc'[w] = pc[w], frame'[w] = frame[w],
           table' = table, npoints' = npoints
    PROVE  SerialInv(w)'
<1>1. \A k \in Layers, p \in Nat : Cell(k, p)' = Cell(k, p)
  BY DEF Cell
<1>2. \A k \in 0..LastLayer-1, j \in Nat : Downsampled(k, j)' = Downsampled(k, j)
  BY <1>1, SameCells
<1>3. Sizes(w)'
  BY DEF SerialInv, Sizes, InLayer
<1>4. Contents(w)'
  <2>1. ASSUME NEW k \in 0..LastLayer-1, NEW j \in Nat, ~Pending(w, k, j)
        PROVE  Cell(k + 1, j)' = Downsampled(k, j)'
    BY <1>1, <1>2, <2>1, Constants DEF SerialInv, Contents
  <2>2. ASSUME NEW k \in 0..LastLayer-1, NEW j
        PROVE  Cell(k, j)' = Cell(k, j) /\ Cell(k + 1, j)' = Cell(k + 1, j)
               /\ Downsampled(k, j)' = Downsampled(k, j)
    BY DEF Cell, Downsampled, Known
  <2>3. Cell(frame[w].layer, frame[w].point)' = Cell(frame[w].layer, frame[w].point)
    BY DEF Cell
  <2> QED
    BY <2>1, <2>2, <2>3 DEF SerialInv, Contents, InLayer, Pending
<1> QED
  BY <1>3, <1>4 DEF SerialInv

\* The engine with one connection that posts, and no failures.
SerialPosting(w) == Writers = {w} /\ Faults = {}

LEMMA SerialStep ==
    ASSUME NEW w, SerialPosting(w), TypeInv, SerialInv(w), [Next]_vars
    PROVE  SerialInv(w)'
<1>1. w \in Writers /\ \A u \in Writers : u = w
  BY DEF SerialPosting
<1>2. ~Crash /\ ~FailTop(w) /\ ~FailBelow(w)
  BY DEF SerialPosting, Crash, FailTop, FailBelow
<1>3. ASSUME NEW r \in Readers,
             \/ NoLatest(r) \/ GetLatest(r) \/ ReaderStep(r) \/ FailFetch(r)
             \/ \E t \in Times : GetValues(r, t)
      PROVE  SerialInv(w)'
  <2>1. w # r /\ w \in Threads /\ r \in Threads
    BY <1>1, Constants DEF Threads
  <2>2. pc'[w] = pc[w] /\ frame'[w] = frame[w]
    BY <1>3, <2>1 DEF ReaderStep, NoLatest, GetLatest, GetValues, Redirect, TooOld, Seek,
       TooNew, Bound, Fetch, FetchRounded, FailFetch, Goto, Return, TypeInv, TypeOK
  <2>3. table' = table /\ npoints' = npoints
    BY <1>3 DEF ReaderStep, NoLatest, GetLatest, GetValues, Redirect, TooOld, Seek,
       TooNew, Bound, Fetch, FetchRounded, FailFetch, Return, meta
  <2> QED
    BY <1>1, <2>2, <2>3, SerialOther
<1>4. CASE UNCHANGED vars
  BY <1>1, <1>4, SerialOther DEF vars
<1>5. CASE Pad(w)
  BY <1>1, <1>5, SerialPad
<1>6. CASE Probe(w) \/ Reread(w)
  BY <1>1, <1>6, SerialMerge
<1>7. CASE Write(w)
  BY <1>1, <1>7, SerialWrite
<1>8. CASE Decimate(w)
  BY <1>1, <1>8, SerialDecimate
<1>9. CASE \/ \E t \in Times, v \in PostedRow : Post(w, t, v)
           \/ CheckEmpty(w) \/ SetStart(w) \/ Refuse(w) \/ Locate(w) \/ ReadSize(w)
           \/ Test(w) \/ Commit(w) \/ Reply(w)
  BY <1>1, <1>9, SerialQuiet
<1> QED
  BY <1>1, <1>2, <1>3, <1>4, <1>5, <1>6, <1>7, <1>8, <1>9 DEF Next, WriterStep

LEMMA SerialInit ==
    ASSUME NEW w \in Writers, Init
    PROVE  SerialInv(w)
<1>1. /\ \A l \in Layers : Len(table[l]) = 0 /\ \A p \in Nat : Cell(l, p) = UnknownRow
      /\ pc[w] = "idle" /\ npoints = 0 /\ frame[w].layer = 0
      /\ 0 \in Layers
  <2>1. \A l \in Layers : Len(table[l]) = 0
    BY DEF Init
  <2> QED
    BY <2>1, Constants DEF Init, Threads, NoFrame, Cell
<1>2. Sizes(w)
  <2>1. ASSUME NEW k \in 0..LastLayer-1
        PROVE  Len(table[k + 1]) = Ceil(Len(table[k]), Decimation[k])
    <3>1. Ceil(0, Decimation[k]) = 0
      <4>1. Decimation[k] \in Nat \ {0}
        BY Constants
      <4>2. Ceil(0, Decimation[k]) \in Nat /\ Ceil(0, Decimation[k]) <= 0
        BY <4>1, CeilShrinks, CeilNat
      <4> QED
        BY <4>2
    <3> QED
      BY <1>1, <3>1, Constants
  <2> QED
    BY <1>1, <2>1 DEF Sizes, InLayer
<1>3. Contents(w)
  <2>1. ASSUME NEW k \in 0..LastLayer-1, NEW j \in Nat
        PROVE  Cell(k + 1, j) = Downsampled(k, j)
    <3>1. \A i \in 0..Decimation[k]-1 : j * Decimation[k] + i \in Nat
      BY Constants, BlockRow
    <3>2. \A i \in 0..Decimation[k]-1 : Cell(k, j * Decimation[k] + i) = UnknownRow
      BY <1>1, <3>1, Constants
    <3>3. \A m \in Metrics : Known(k, j, m) = {}
      BY <3>2 DEF Known, UnknownRow
    <3>4. Downsampled(k, j) = UnknownRow
      BY <3>3 DEF Downsampled, UnknownRow
    <3> QED
      BY <1>1, <3>4, Constants
  <2> QED
    BY <1>1, <2>1 DEF Contents, InLayer
<1> QED
  BY <1>2, <1>3 DEF SerialInv

\* With one connection that posts, any number that read, and no failures, every
\* lower layer is at rest exactly the downsampling of the layer above it.
THEOREM LayersAreConsistent ==
    ASSUME NEW w, SerialPosting(w)
    PROVE  Spec => []LayersConsistent
<1>1. w \in Writers
  BY DEF SerialPosting
<1>2. Init => TypeInv /\ SerialInv(w)
  BY <1>1, TypeInit, SerialInit
<1>3. TypeInv /\ SerialInv(w) /\ [Next]_vars => (TypeInv /\ SerialInv(w))'
  BY TypeStep, SerialStep
<1>4. TypeInv /\ SerialInv(w) => LayersConsistent
  <2> SUFFICES ASSUME TypeInv, SerialInv(w), Quiet, NEW l \in 0..LastLayer-1
               PROVE  /\ Len(table[l + 1]) = Ceil(Len(table[l]), Decimation[l])
                      /\ \A j \in 0..Len(table[l + 1])-1 : Cell(l + 1, j) = Downsampled(l, j)
    BY DEF LayersConsistent
  <2>1. pc[w] \in {"idle", "check", "start", "locate", "size", "test", "commit", "reply"}
    BY <1>1 DEF Quiet
  <2>2. Len(table[l + 1]) \in Nat
    BY Constants, TypeInvNow
  <2> QED
    BY <2>1, <2>2 DEF SerialInv, Sizes, Contents, InLayer, Pending
<1> QED
  BY <1>2, <1>3, <1>4, PTL DEF Spec

\* With one connection that posts and no failures, the count in the metadata is
\* at rest the number of rows of the top-level table.
THEOREM CountIsExact ==
    ASSUME NEW w, SerialPosting(w)
    PROVE  Spec => []CountIsTableSize
<1>1. w \in Writers
  BY DEF SerialPosting
<1>2. Init => TypeInv /\ SerialInv(w)
  BY <1>1, TypeInit, SerialInit
<1>3. TypeInv /\ SerialInv(w) /\ [Next]_vars => (TypeInv /\ SerialInv(w))'
  BY TypeStep, SerialStep
<1>4. TypeInv /\ SerialInv(w) => CountIsTableSize
  BY <1>1 DEF SerialInv, Sizes, CountIsTableSize, Idle, Threads
<1> QED
  BY <1>2, <1>3, <1>4, PTL DEF Spec

-----------------------------------------------------------------------------
(* No call fails: the layers keep up with the count.                           *)

\* The counts of rows, layer by layer, that some number of top-level rows calls for.
Counts ==
    {c \in [Layers -> Nat] : \A l \in 0..LastLayer-1 : c[l + 1] = Ceil(c[l], Decimation[l])}

\* The tables hold all that a number of top-level rows calls for, which is n rows at layer l.
Held(tables, l, n) ==
    \E c \in Counts : c[l] = n /\ \A k \in Layers : c[k] <= Len(tables[k])

\* The slot top is downsampled into row point of layer l, and the tables hold the rows it
\* is downsampled into at the first written layers.
Down(tables, top, l, point, written) ==
    \E p \in [Layers -> Nat] :
        /\ p[0] = top
        /\ p[l] = point
        /\ \A k \in 0..l-1 : p[k + 1] = p[k] \div Decimation[k]
        /\ \A k \in 0..written-1 : p[k] < Len(tables[k])

Descending == {"pad", "probe", "reread", "write", "decimate"}

\* What a writer at a label can rely on.
Sound(tables, f, label) ==
    /\ label \in {"start", "locate", "size"} \union Descending => Held(tables, f.layer, f.npoints)
    /\ label \in Descending \ {"decimate"} => Down(tables, f.top, f.layer, f.point, f.layer)
    /\ label \in {"decimate", "test", "commit"} =>
          Down(tables, f.top, f.layer, f.point, f.layer + 1)
    /\ label \in {"probe", "reread", "write"} => f.point <= Len(tables[f.layer])
    /\ label \in {"test", "commit"} => f.layer = LastLayer

Lag ==
    /\ Held(table, 0, npoints)
    /\ \A w \in Writers : Sound(table, frame[w], pc[w])

\* Tables that have grown hold at least as much.
LEMMA HeldGrows ==
    ASSUME NEW old \in [Layers -> Seq(Row)], NEW new \in [Layers -> Seq(Row)],
           \A l \in Layers : Len(new[l]) >= Len(old[l]),
           NEW l \in Layers, NEW n \in Nat, Held(old, l, n)
    PROVE  Held(new, l, n)
<1>1. PICK c \in Counts : c[l] = n /\ \A k \in Layers : c[k] <= Len(old[k])
  BY DEF Held
<1>2. ASSUME NEW k \in Layers PROVE c[k] <= Len(new[k])
  <2>1. c[k] \in Nat /\ Len(old[k]) \in Nat /\ Len(new[k]) \in Nat
    BY LenProperties DEF Counts
  <2> QED
    BY <1>1, <2>1
<1> QED
  BY <1>1, <1>2 DEF Held

LEMMA DownGrows ==
    ASSUME NEW old \in [Layers -> Seq(Row)], NEW new \in [Layers -> Seq(Row)],
           \A l \in Layers : Len(new[l]) >= Len(old[l]),
           NEW top, NEW l, NEW point, NEW written \in 0..LastLayer+1,
           Down(old, top, l, point, written)
    PROVE  Down(new, top, l, point, written)
<1>1. PICK p \in [Layers -> Nat] :
         /\ p[0] = top
         /\ p[l] = point
         /\ \A k \in 0..l-1 : p[k + 1] = p[k] \div Decimation[k]
         /\ \A k \in 0..written-1 : p[k] < Len(old[k])
  BY DEF Down
<1>2. ASSUME NEW k \in 0..written-1 PROVE p[k] < Len(new[k])
  <2>1. k \in Layers
    BY Constants DEF Layers
  <2>2. p[k] \in Nat /\ Len(old[k]) \in Nat /\ Len(new[k]) \in Nat
    BY <2>1, LenProperties
  <2> QED
    BY <1>1, <2>1, <2>2
<1> QED
  BY <1>1, <1>2 DEF Down

LEMMA SoundGrows ==
    ASSUME NEW old \in [Layers -> Seq(Row)], NEW new \in [Layers -> Seq(Row)],
           \A l \in Layers : Len(new[l]) >= Len(old[l]),
           NEW f \in Frame, NEW label, Sound(old, f, label)
    PROVE  Sound(new, f, label)
<1>1. /\ f.layer \in Layers /\ f.layer \in Nat /\ f.layer <= LastLayer
      /\ f.npoints \in Nat /\ f.point \in Nat
      /\ LastLayer \in Nat
  BY Constants DEF Frame, Layers
<1>2. Held(old, f.layer, f.npoints) => Held(new, f.layer, f.npoints)
  BY <1>1, HeldGrows
<1>3. Down(old, f.top, f.layer, f.point, f.layer) => Down(new, f.top, f.layer, f.point, f.layer)
  <2>1. f.layer \in 0..LastLayer+1
    BY <1>1
  <2> QED
    BY <2>1, DownGrows
<1>4. Down(old, f.top, f.layer, f.point, f.layer + 1)
         => Down(new, f.top, f.layer, f.point, f.layer + 1)
  <2>1. f.layer + 1 \in 0..LastLayer+1
    BY <1>1
  <2> QED
    BY <2>1, DownGrows
<1>5. f.point <= Len(old[f.layer]) => f.point <= Len(new[f.layer])
  <2>1. Len(old[f.layer]) \in Nat /\ Len(new[f.layer]) \in Nat
    BY <1>1, LenProperties
  <2> QED
    BY <1>1, <2>1
<1> QED
  BY <1>2, <1>3, <1>4, <1>5 DEF Sound

\* A step of one thread keeps Lag if it keeps it for that thread and the count.
LEMMA LagByThread ==
    ASSUME TypeInv, Lag, [Next]_vars, NEW t \in Threads,
           \A u \in Threads : u # t => pc'[u] = pc[u] /\ frame'[u] = frame[u],
           Held(table', 0, npoints'),
           t \in Writers => Sound(table', frame'[t], pc'[t])
    PROVE  Lag'
<1>1. ASSUME NEW w \in Writers PROVE Sound(table', frame'[w], pc'[w])
  <2>1. CASE w = t
    BY <2>1
  <2>2. CASE w # t
    <3>1. pc'[w] = pc[w] /\ frame'[w] = frame[w] /\ frame[w] \in Frame
      BY <2>2, TypeInvNow DEF Threads
    <3>2. table \in [Layers -> Seq(Row)] /\ table' \in [Layers -> Seq(Row)]
      BY TypeStep DEF TypeInv, TypeOK
    <3>3. \A l \in Layers : Len(table'[l]) >= Len(table[l])
      BY TablesGrow
    <3>4. Sound(table, frame[w], pc[w])
      BY DEF Lag
    <3>5. Sound(table', frame[w], pc[w])
      BY <3>1, <3>2, <3>3, <3>4, SoundGrows
    <3> QED
      BY <3>1, <3>5
  <2> QED
    BY <2>1, <2>2
<1> QED
  BY <1>1 DEF Lag

\* An empty table calls for nothing.
LEMMA LagInit == Init => Lag
<1> SUFFICES ASSUME Init PROVE Lag
  OBVIOUS
<1> DEFINE c == [l \in Layers |-> 0]
<1>1. c \in Counts
  <2>1. \A l \in 0..LastLayer-1 : Ceil(0, Decimation[l]) = 0
    <3> SUFFICES ASSUME NEW l \in 0..LastLayer-1 PROVE Ceil(0, Decimation[l]) = 0
      OBVIOUS
    <3>1. Decimation[l] \in Nat \ {0}
      BY Constants
    <3>2. Ceil(0, Decimation[l]) \in Nat /\ Ceil(0, Decimation[l]) <= 0
      BY <3>1, CeilNat, CeilShrinks
    <3> QED
      BY <3>2
  <2>2. \A l \in 0..LastLayer-1 : c[l] = 0 /\ c[l + 1] = 0
    BY Constants
  <2> HIDE DEF c
  <2>3. c \in [Layers -> Nat]
    BY DEF c
  <2> QED
    BY <2>1, <2>2, <2>3 DEF Counts
<1>2. c[0] = 0 /\ \A k \in Layers : c[k] = 0 /\ Len(table[k]) = 0
  BY Constants DEF Init
<1>3. Held(table, 0, npoints)
  <2> HIDE DEF c
  <2>1. npoints = 0
    BY DEF Init
  <2> QED
    BY <1>1, <1>2, <2>1 DEF Held
<1>4. \A w \in Writers : pc[w] = "idle"
  BY DEF Init, Threads
<1> QED
  BY <1>3, <1>4 DEF Lag, Sound, Descending

LEMMA SoundAtRest ==
    ASSUME NEW tables, NEW f, NEW label \in {"idle", "check", "reply"}
    PROVE  Sound(tables, f, label)
  BY DEF Sound, Descending

\* The row of a slot at the next layer.
LEMMA DownOne ==
    ASSUME NEW tables, NEW top, NEW l \in 0..LastLayer-1, NEW point \in Nat,
           Down(tables, top, l, point, l + 1)
    PROVE  Down(tables, top, l + 1, point \div Decimation[l], l + 1)
<1>1. PICK p \in [Layers -> Nat] :
         /\ p[0] = top
         /\ p[l] = point
         /\ \A k \in 0..l-1 : p[k + 1] = p[k] \div Decimation[k]
         /\ \A k \in 0..l : p[k] < Len(tables[k])
  BY DEF Down
<1>2. /\ l \in Layers /\ l + 1 \in Layers /\ Decimation[l] \in Nat \ {0} /\ LastLayer \in Nat
      /\ l \in Nat
  BY Constants
<1>3. point \div Decimation[l] \in Nat
  BY <1>2, Quotient
<1> DEFINE q == [p EXCEPT ![l + 1] = point \div Decimation[l]]
<1>4. q \in [Layers -> Nat] /\ q[l + 1] = point \div Decimation[l]
  BY <1>2, <1>3
<1>5. \A k \in 0..l : q[k] = p[k]
  BY <1>2 DEF Layers
<1> HIDE DEF q
<1>6. \A k \in 0..(l + 1)-1 : q[k + 1] = q[k] \div Decimation[k]
  <2> SUFFICES ASSUME NEW k \in 0..(l + 1)-1 PROVE q[k + 1] = q[k] \div Decimation[k]
    OBVIOUS
  <2>1. CASE k = l
    <3>1. q[k] = point
      BY <1>1, <1>2, <1>5, <2>1
    <3> QED
      BY <1>4, <2>1, <3>1
  <2>2. CASE k # l
    <3>1. k \in 0..l-1 /\ k \in 0..l /\ k + 1 \in 0..l
      BY <1>2, <2>2
    <3> QED
      BY <1>1, <1>5, <3>1
  <2> QED
    BY <2>1, <2>2
<1>7. \A k \in 0..(l + 1)-1 : q[k] < Len(tables[k])
  BY <1>1, <1>2, <1>5
<1>8. q[0] = top
  BY <1>1, <1>2, <1>5
<1> QED
  BY <1>4, <1>6, <1>7, <1>8 DEF Down

\* The count of the next layer.
LEMMA HeldOne ==
    ASSUME NEW tables, NEW l \in 0..LastLayer-1, NEW n \in Nat, Held(tables, l, n)
    PROVE  Held(tables, l + 1, Ceil(n, Decimation[l]))
  BY DEF Held, Counts

\* The first rows of a layer are those that the slots up to top are downsampled into.
LEMMA DownHeld ==
    ASSUME NEW tables \in [Layers -> Seq(Row)], NEW top \in Nat, NEW point \in Nat,
           Down(tables, top, LastLayer, point, LastLayer + 1)
    PROVE  Held(tables, 0, top + 1)
<1>1. PICK p \in [Layers -> Nat] :
         /\ p[0] = top
         /\ \A k \in 0..LastLayer-1 : p[k + 1] = p[k] \div Decimation[k]
         /\ \A k \in 0..(LastLayer + 1)-1 : p[k] < Len(tables[k])
  BY DEF Down
<1> DEFINE c == [l \in Layers |-> p[l] + 1]
<1>2. c \in [Layers -> Nat] /\ \A k \in Layers : c[k] = p[k] + 1
  OBVIOUS
<1> HIDE DEF c
<1>3. ASSUME NEW k \in 0..LastLayer-1 PROVE c[k + 1] = Ceil(c[k], Decimation[k])
  <2>1. k \in Layers /\ k + 1 \in Layers /\ Decimation[k] \in Nat \ {0}
    BY Constants
  <2>2. p[k] \in Nat /\ 0 \in Nat /\ p[k] + 1 > 0
    BY <2>1
  <2>3. Ceil(p[k] + 1, Decimation[k]) = p[k] \div Decimation[k] + 1
    BY <2>1, <2>2, CeilOfExtended
  <2> QED
    BY <1>1, <1>2, <2>1, <2>3
<1>4. c \in Counts
  BY <1>2, <1>3 DEF Counts
<1>5. ASSUME NEW k \in Layers PROVE c[k] <= Len(tables[k])
  <2>1. k \in 0..(LastLayer + 1)-1
    BY Constants DEF Layers
  <2>2. p[k] \in Nat /\ Len(tables[k]) \in Nat /\ p[k] < Len(tables[k])
    BY <1>1, <2>1, LenProperties
  <2> QED
    BY <1>2, <2>2
<1>6. c[0] = top + 1
  BY <1>1, <1>2, Constants
<1> QED
  BY <1>4, <1>5, <1>6 DEF Held

\* One step keeps the layers up, as long as no call fails.
LEMMA LagStep ==
    ASSUME TypeInv, Lag, "io" \notin Faults, [Next]_vars
    PROVE  Lag'
<1>1. pc \in [Threads -> Labels] /\ frame \in [Threads -> Frame]
  BY DEF TypeInv, TypeOK
<1>2. /\ table \in [Layers -> Seq(Row)]
      /\ table' \in [Layers -> Seq(Row)]
      /\ npoints \in Nat
  BY TypeStep DEF TypeInv, TypeOK
<1>3. \A l \in Layers : Len(table'[l]) >= Len(table[l])
  BY TablesGrow
<1>4. \A w \in Writers : /\ w \in Threads /\ w \notin Readers
                         /\ frame[w] \in Frame
                         /\ frame[w].npoints \in Nat
                         /\ frame[w].point \in Nat
                         /\ frame[w].top \in Nat
                         /\ frame[w].layer \in Layers
                         /\ frame[w].row \in Row
                         /\ Sound(table, frame[w], pc[w])
  BY <1>1, Constants DEF Threads, Frame, Lag
<1>5. \A r \in Readers : r \in Threads /\ r \notin Writers
  BY Constants DEF Threads
<1>6. npoints' = npoints => Held(table', 0, npoints')
  BY <1>2, <1>3, Constants, HeldGrows DEF Lag
<1>7. ASSUME NEW w \in Writers, pc' = [pc EXCEPT ![w] = pc'[w]], frame' = [frame EXCEPT ![w] = frame'[w]],
             Held(table', 0, npoints'), Sound(table', frame'[w], pc'[w])
      PROVE  Lag'
  <2>1. \A u \in Threads : u # w => pc'[u] = pc[u] /\ frame'[u] = frame[u]
    BY <1>1, <1>7
  <2> QED
    BY <1>4, <1>7, <2>1, LagByThread
<1>8. ASSUME NEW w \in Writers, NEW t \in Times, NEW v \in PostedRow, Post(w, t, v)
      PROVE  Lag'
  <2>1. pc'[w] = "check" /\ npoints' = npoints
    BY <1>1, <1>4, <1>8 DEF Post, Goto, meta
  <2>2. pc' = [pc EXCEPT ![w] = pc'[w]] /\ frame' = [frame EXCEPT ![w] = frame'[w]]
    BY <1>1, <1>4, <1>8 DEF Post, Goto
  <2> QED
    BY <1>6, <1>7, <2>1, <2>2, SoundAtRest
<1>9. ASSUME NEW w \in Writers, CheckEmpty(w)
      PROVE  Lag'
  <2>1. pc'[w] \in {"start", "locate"} /\ npoints' = npoints /\ table' = table
    BY <1>1, <1>4, <1>9 DEF CheckEmpty, Goto, meta
  <2>2. pc' = [pc EXCEPT ![w] = pc'[w]] /\ frame' = [frame EXCEPT ![w] = frame'[w]]
    BY <1>1, <1>4, <1>9 DEF CheckEmpty, Goto
  <2>3. frame'[w].npoints = npoints /\ frame'[w].layer = 0
    BY <1>1, <1>4, <1>9 DEF CheckEmpty, At, TypeInv, Shape, Frame
  <2>4. Sound(table', frame'[w], pc'[w])
    BY <2>1, <2>3 DEF Sound, Lag, Descending
  <2> QED
    BY <1>6, <1>7, <2>1, <2>2, <2>4
<1>10. ASSUME NEW w \in Writers, SetStart(w)
      PROVE  Lag'
  <2>1. pc[w] = "start" /\ pc'[w] = "locate" /\ npoints' = npoints /\ table' = table /\ frame' = frame
    BY <1>1, <1>4, <1>10 DEF SetStart, At, Goto, meta
  <2>2. pc' = [pc EXCEPT ![w] = pc'[w]] /\ frame' = [frame EXCEPT ![w] = frame'[w]]
    BY <1>1, <1>4, <1>10, <2>1 DEF SetStart, Goto
  <2>3. Sound(table', frame'[w], pc'[w])
    BY <1>4, <2>1 DEF Sound, Descending
  <2> QED
    BY <1>6, <1>7, <2>1, <2>2, <2>3
<1>11. ASSUME NEW w \in Writers, Refuse(w) \/ Reply(w)
      PROVE  Lag'
  <2>1. pc'[w] = "idle" /\ npoints' = npoints
    BY <1>1, <1>4, <1>11 DEF Refuse, Reply, Return, Goto, meta
  <2>2. pc' = [pc EXCEPT ![w] = pc'[w]] /\ frame' = [frame EXCEPT ![w] = frame'[w]]
    BY <1>1, <1>4, <1>11 DEF Refuse, Reply, Return, Goto
  <2> QED
    BY <1>6, <1>7, <2>1, <2>2, SoundAtRest
<1>12. ASSUME NEW w \in Writers, Locate(w)
      PROVE  Lag'
  <2>1. pc[w] = "locate" /\ pc'[w] = "size" /\ npoints' = npoints /\ table' = table
    BY <1>1, <1>4, <1>12 DEF Locate, At, Goto, meta
  <2>2. pc' = [pc EXCEPT ![w] = pc'[w]] /\ frame' = [frame EXCEPT ![w] = frame'[w]]
    BY <1>1, <1>4, <1>12 DEF Locate, Goto
  <2>3. frame'[w].npoints = frame[w].npoints /\ frame'[w].layer = frame[w].layer
    BY <1>1, <1>4, <1>12 DEF Locate, Frame
  <2>4. Sound(table', frame'[w], pc'[w])
    BY <1>4, <2>1, <2>3 DEF Sound, Descending
  <2> QED
    BY <1>6, <1>7, <2>1, <2>2, <2>4
<1>13. ASSUME NEW w \in Writers, ReadSize(w)
      PROVE  Lag'
  <2>1. pc[w] = "size" /\ pc'[w] = "pad" /\ npoints' = npoints /\ table' = table
    BY <1>1, <1>4, <1>13 DEF ReadSize, At, Goto, meta
  <2>2. pc' = [pc EXCEPT ![w] = pc'[w]] /\ frame' = [frame EXCEPT ![w] = frame'[w]]
    BY <1>1, <1>4, <1>13 DEF ReadSize, Goto
  <2>3. /\ frame'[w].npoints \in {npoints, frame[w].npoints}
        /\ frame'[w].layer = 0 /\ frame[w].layer = 0
        /\ frame'[w].top = frame[w].top
        /\ frame'[w].point = frame[w].top
    BY <1>1, <1>4, <1>13 DEF ReadSize, At, TypeInv, Shape, Frame
  <2>4. Held(table', frame'[w].layer, frame'[w].npoints)
    <3>1. Held(table, frame[w].layer, frame[w].npoints)
      BY <1>4, <2>1 DEF Sound
    <3> QED
      BY <2>1, <2>3, <3>1 DEF Lag
  <2>5. Down(table', frame'[w].top, frame'[w].layer, frame'[w].point, frame'[w].layer)
    <3> DEFINE p == [l \in Layers |-> frame[w].top]
    <3>1. p \in [Layers -> Nat] /\ p[0] = frame[w].top
      BY <1>4, Constants
    <3> HIDE DEF p
    <3> QED
      BY <2>3, <3>1 DEF Down
  <2>6. Sound(table', frame'[w], pc'[w])
    BY <2>1, <2>4, <2>5 DEF Sound, Descending
  <2> QED
    BY <1>6, <1>7, <2>1, <2>2, <2>6
<1>14. ASSUME NEW w \in Writers, Pad(w)
      PROVE  Lag'
  <2>1. pc[w] = "pad" /\ pc'[w] = "probe" /\ npoints' = npoints /\ frame' = frame
    BY <1>1, <1>4, <1>14 DEF Pad, At, Goto, meta
  <2>2. pc' = [pc EXCEPT ![w] = pc'[w]] /\ frame' = [frame EXCEPT ![w] = frame'[w]]
    BY <1>1, <1>4, <1>14, <2>1 DEF Pad, Goto
  <2> DEFINE f == frame[w]
  <2>3. Sound(table', f, "pad")
    BY <1>2, <1>3, <1>4, <2>1, SoundGrows
  <2>4. f.point <= Len(table'[f.layer])
    <3>0. table[f.layer] \in Seq(Row) /\ Len(table[f.layer]) \in Nat /\ Len(table'[f.layer]) \in Nat
      BY <1>2, <1>4, LenProperties
    <3>1. CASE f.point > f.npoints
      <4>1. table'[f.layer] = Pwrite(table[f.layer], f.npoints, f.point - f.npoints, UnknownRow)
        BY <1>2, <1>4, <1>14, <3>1 DEF Pad
      <4>2. f.point - f.npoints \in Nat /\ f.npoints + (f.point - f.npoints) = f.point
        BY <1>4, <3>1
      <4>3. Len(Pwrite(table[f.layer], f.npoints, f.point - f.npoints, UnknownRow))
               >= f.npoints + (f.point - f.npoints)
        BY <1>4, <3>0, <4>2, PwriteGrows, RowTypes
      <4> QED
        BY <1>4, <3>0, <4>1, <4>2, <4>3
    <3>2. CASE ~(f.point > f.npoints)
      <4>1. Held(table', f.layer, f.npoints)
        BY <2>3 DEF Sound, Descending
      <4>2. f.npoints <= Len(table'[f.layer])
        BY <1>4, <4>1 DEF Held
      <4> QED
        BY <1>4, <3>0, <3>2, <4>2
    <3> QED
      BY <3>1, <3>2
  <2>5. Sound(table', frame'[w], pc'[w])
    BY <2>1, <2>3, <2>4 DEF Sound, Descending
  <2> QED
    BY <1>6, <1>7, <2>1, <2>2, <2>5
<1>15. ASSUME NEW w \in Writers, Probe(w) \/ Reread(w)
      PROVE  Lag'
  <2>1. /\ pc[w] \in {"probe", "reread"} /\ pc'[w] \in {"reread", "write"}
        /\ npoints' = npoints /\ table' = table
    BY <1>1, <1>4, <1>15 DEF Probe, Reread, At, Goto, meta
  <2>2. pc' = [pc EXCEPT ![w] = pc'[w]] /\ frame' = [frame EXCEPT ![w] = frame'[w]]
    BY <1>1, <1>4, <1>15 DEF Probe, Reread, Goto
  <2>3. /\ frame'[w].npoints = frame[w].npoints
        /\ frame'[w].layer = frame[w].layer
        /\ frame'[w].point = frame[w].point
        /\ frame'[w].top = frame[w].top
    BY <1>1, <1>4, <1>15 DEF Probe, Reread, Frame
  <2>4. Sound(table', frame'[w], pc'[w])
    BY <1>4, <2>1, <2>3 DEF Sound, Descending
  <2> QED
    BY <1>6, <1>7, <2>1, <2>2, <2>4
<1>16. ASSUME NEW w \in Writers, Write(w)
      PROVE  Lag'
  <2> DEFINE f == frame[w]
  <2>1. /\ pc[w] = "write" /\ npoints' = npoints /\ frame' = frame
        /\ pc'[w] = IF f.layer < LastLayer THEN "decimate" ELSE "test"
    BY <1>1, <1>4, <1>16 DEF Write, At, Goto, meta
  <2>2. pc' = [pc EXCEPT ![w] = pc'[w]] /\ frame' = [frame EXCEPT ![w] = frame'[w]]
    BY <1>1, <1>4, <1>16, <2>1 DEF Write, Goto
  <2>3. Sound(table', f, "write")
    BY <1>2, <1>3, <1>4, <2>1, SoundGrows
  <2>4. f.point < Len(table'[f.layer])
    <3>0. table[f.layer] \in Seq(Row) /\ Len(table'[f.layer]) \in Nat
      BY <1>2, <1>4, LenProperties
    <3>1. table'[f.layer] = Pwrite(table[f.layer], f.point, 1, f.row)
      BY <1>2, <1>4, <1>16 DEF Write
    <3>2. Len(Pwrite(table[f.layer], f.point, 1, f.row)) >= f.point + 1
      BY <1>4, <3>0, PwriteGrows
    <3> QED
      BY <1>4, <3>0, <3>1, <3>2
  <2>5. Down(table', f.top, f.layer, f.point, f.layer + 1)
    <3>1. f.layer \in Nat
      BY <1>4, Constants DEF Layers
    <3>2. PICK p \in [Layers -> Nat] :
             /\ p[0] = f.top
             /\ p[f.layer] = f.point
             /\ \A k \in 0..f.layer-1 : p[k + 1] = p[k] \div Decimation[k]
             /\ \A k \in 0..f.layer-1 : p[k] < Len(table'[k])
      BY <2>3 DEF Sound, Descending, Down
    <3>3. ASSUME NEW k \in 0..(f.layer + 1)-1 PROVE p[k] < Len(table'[k])
      <4>1. k \in 0..f.layer-1 \/ k = f.layer
        BY <3>1
      <4> QED
        BY <2>4, <3>2, <4>1
    <3> QED
      BY <3>2, <3>3 DEF Down
  <2>6. f.layer < LastLayer \/ f.layer = LastLayer
    BY <1>4, Constants DEF Layers
  <2>7. Held(table', f.layer, f.npoints)
    BY <2>3 DEF Sound, Descending
  <2>8. Sound(table', f, pc'[w])
    BY <2>1, <2>5, <2>6, <2>7 DEF Sound, Descending
  <2>9. Sound(table', frame'[w], pc'[w])
    BY <2>1, <2>8
  <2> QED
    BY <1>6, <1>7, <2>1, <2>2, <2>9
<1>17. ASSUME NEW w \in Writers, Decimate(w)
      PROVE  Lag'
  <2> DEFINE f == frame[w]
  <2>1. pc[w] = "decimate" /\ pc'[w] = "pad" /\ npoints' = npoints /\ table' = table
    BY <1>1, <1>4, <1>17 DEF Decimate, At, Goto, meta
  <2>2. pc' = [pc EXCEPT ![w] = pc'[w]] /\ frame' = [frame EXCEPT ![w] = frame'[w]]
    BY <1>1, <1>4, <1>17 DEF Decimate, Goto
  <2>3. /\ frame'[w].npoints = Ceil(f.npoints, Decimation[f.layer])
        /\ frame'[w].layer = f.layer + 1
        /\ frame'[w].point = f.point \div Decimation[f.layer]
        /\ frame'[w].top = f.top
    BY <1>1, <1>4, <1>17 DEF Decimate
  <2>4. f.layer \in 0..LastLayer-1
    BY <1>4, <2>1, Constants DEF TypeInv, Shape, Layers
  <2>5. Held(table, f.layer, f.npoints) /\ Down(table, f.top, f.layer, f.point, f.layer + 1)
    BY <1>4, <2>1 DEF Sound, Descending
  <2>6. Held(table', frame'[w].layer, frame'[w].npoints)
    BY <1>4, <2>1, <2>3, <2>4, <2>5, HeldOne
  <2>7. Down(table', frame'[w].top, frame'[w].layer, frame'[w].point, frame'[w].layer)
    BY <1>4, <2>1, <2>3, <2>4, <2>5, DownOne
  <2>8. Sound(table', frame'[w], pc'[w])
    BY <2>1, <2>6, <2>7 DEF Sound, Descending
  <2> QED
    BY <1>6, <1>7, <2>1, <2>2, <2>8
<1>18. ASSUME NEW w \in Writers, Test(w)
      PROVE  Lag'
  <2>1. /\ pc[w] = "test" /\ pc'[w] \in {"commit", "reply"}
        /\ npoints' = npoints /\ table' = table /\ frame' = frame
    BY <1>1, <1>4, <1>18 DEF Test, At, Goto, meta
  <2>2. pc' = [pc EXCEPT ![w] = pc'[w]] /\ frame' = [frame EXCEPT ![w] = frame'[w]]
    BY <1>1, <1>4, <1>18, <2>1 DEF Test, Goto
  <2>3. Sound(table', frame'[w], pc'[w])
    BY <1>4, <2>1 DEF Sound, Descending
  <2> QED
    BY <1>6, <1>7, <2>1, <2>2, <2>3
<1>19. ASSUME NEW w \in Writers, Commit(w)
      PROVE  Lag'
  <2>1. /\ pc[w] = "commit" /\ pc'[w] = "reply"
        /\ npoints' = frame[w].top + 1 /\ table' = table /\ frame' = frame
    BY <1>1, <1>4, <1>19 DEF Commit, At, Goto
  <2>2. pc' = [pc EXCEPT ![w] = pc'[w]] /\ frame' = [frame EXCEPT ![w] = frame'[w]]
    BY <1>1, <1>4, <1>19, <2>1 DEF Commit, Goto
  <2>3. Down(table, frame[w].top, LastLayer, frame[w].point, LastLayer + 1)
    BY <1>4, <2>1 DEF Sound
  <2>4. Held(table', 0, npoints')
    BY <1>2, <1>4, <2>1, <2>3, DownHeld
  <2> QED
    BY <1>7, <2>1, <2>2, <2>4, SoundAtRest
<1>20. ASSUME NEW r \in Readers,
              \/ NoLatest(r) \/ GetLatest(r) \/ ReaderStep(r) \/ FailFetch(r)
              \/ \E t \in Times : GetValues(r, t)
      PROVE  Lag'
  <2>1. npoints' = npoints
    BY <1>20
    DEF NoLatest, GetLatest, GetValues, FailFetch, ReaderStep, Redirect, TooOld, Seek, TooNew,
        Bound, Fetch, FetchRounded, meta
  <2>2. \A u \in Threads : u # r => pc'[u] = pc[u] /\ frame'[u] = frame[u]
    BY <1>1, <1>20
    DEF NoLatest, GetLatest, GetValues, FailFetch, ReaderStep, Redirect, TooOld, Seek, TooNew,
        Bound, Fetch, FetchRounded, Return, Goto
  <2> QED
    BY <1>5, <1>6, <2>1, <2>2, LagByThread
<1>21. CASE Crash
  <2>1. npoints' = npoints /\ \A w \in Writers : pc'[w] = "idle"
    BY <1>21 DEF Crash, meta, Threads
  <2> QED
    BY <1>6, <2>1, SoundAtRest DEF Lag
<1>22. CASE UNCHANGED vars
  BY <1>22 DEF vars, meta, Lag
<1>23. \A w \in Writers : ~FailTop(w) /\ ~FailBelow(w)
  BY DEF FailTop, FailBelow
<1> QED
  BY <1>8, <1>9, <1>10, <1>11, <1>12, <1>13, <1>14, <1>15, <1>16, <1>17, <1>18, <1>19, <1>20,
     <1>21, <1>22, <1>23 DEF Next, WriterStep

\* A set of numbers that is not empty has a least one.
LEMMA Least ==
    ASSUME NEW S \in SUBSET Nat, S # {}
    PROVE  \E n \in S : \A m \in S : n <= m
<1> DEFINE R == OpToRel(<, Nat)
<1>1. IsWellFoundedOn(R, Nat)
  BY NatLessThanWellFounded
<1>2. \A x, y \in Nat : <<x, y>> \in R <=> x < y
  BY DEF OpToRel
<1> HIDE DEF R
<1>3. PICK n \in S : \A m \in S : ~ (<<m, n>> \in R)
  BY <1>1, WFMin
<1>4. ASSUME NEW m \in S PROVE n <= m
  <2>1. <<m, n>> \in R <=> m < n
    BY <1>2
  <2> QED
    BY <1>3, <2>1
<1> QED
  BY <1>4

\* The counts of a number of rows are the rows of the layers it is downsampled into.
LEMMA RowsForIs ==
    ASSUME NEW c \in Counts, c[0] = npoints
    PROVE  \A l \in Layers : RowsFor[l] = c[l]
<1> DEFINE Rest == {l \in Layers : RowsFor[l] # c[l]}
<1>1. \A l \in Layers : c[l] = IF l = 0 THEN npoints ELSE Ceil(c[l-1], Decimation[l-1])
  <2> SUFFICES ASSUME NEW l \in Layers, l # 0
               PROVE  c[l] = Ceil(c[l-1], Decimation[l-1])
    OBVIOUS
  <2>1. l - 1 \in 0..LastLayer-1 /\ (l - 1) + 1 = l
    BY Constants DEF Layers
  <2>2. c[(l - 1) + 1] = Ceil(c[l - 1], Decimation[l - 1])
    BY <2>1 DEF Counts
  <2> QED
    BY <2>1, <2>2
<1>2. c = [l \in Layers |-> IF l = 0 THEN npoints ELSE Ceil(c[l-1], Decimation[l-1])]
  <2>1. c = [l \in Layers |-> c[l]]
    BY DEF Counts
  <2> QED
    BY <1>1, <2>1
<1>3. RowsFor = [l \in Layers |->
                    IF l = 0 THEN npoints ELSE Ceil(RowsFor[l-1], Decimation[l-1])]
  BY <1>2, Zenon DEF RowsFor
<1>4. \A l \in Layers :
         RowsFor[l] = IF l = 0 THEN npoints ELSE Ceil(RowsFor[l-1], Decimation[l-1])
  BY <1>3, Zenon
<1>5. ASSUME Rest # {} PROVE FALSE
  <2>1. Rest \in SUBSET Nat
    BY Constants DEF Layers
  <2>2. PICK l \in Rest : \A k \in Rest : l <= k
    BY <1>5, <2>1, Least
  <2>3. l \in Layers /\ RowsFor[l] # c[l] /\ l \in Nat
    BY <2>1, <2>2
  <2>4. l # 0
    BY <1>1, <1>4, <2>3
  <2>5. l - 1 \in Layers /\ l - 1 \notin Rest
    BY <2>1, <2>2, <2>3, <2>4, Constants DEF Layers
  <2>6. RowsFor[l - 1] = c[l - 1]
    BY <2>5
  <2> QED
    BY <1>1, <1>4, <2>3, <2>4, <2>6
<1> QED
  BY <1>5

\* The rows that the count calls for are there, and no writer starts beyond an end.
LEMMA LagHolds ==
    ASSUME TypeInv, Lag
    PROVE  NoLayerLags
<1>1. LayersBacked
  <2>1. PICK c \in Counts : c[0] = npoints /\ \A k \in Layers : c[k] <= Len(table[k])
    BY DEF Lag, Held
  <2>2. \A l \in Layers : RowsFor[l] = c[l]
    BY <2>1, RowsForIs
  <2>3. \A l \in Layers : c[l] \in Nat /\ Len(table[l]) \in Nat
    BY TypeInvNow DEF Counts
  <2> QED
    BY <2>1, <2>2, <2>3 DEF LayersBacked
<1>2. ASSUME NEW w \in Writers
      PROVE  /\ At(w, "pad") => frame[w].npoints <= Len(table[frame[w].layer])
             /\ At(w, "write") => frame[w].point <= Len(table[frame[w].layer])
  <2>1. frame[w].layer \in Layers /\ Sound(table, frame[w], pc[w])
    BY TypeInvNow DEF Threads, Frame, Lag
  <2>2. CASE At(w, "pad")
    <3>1. Held(table, frame[w].layer, frame[w].npoints)
      BY <2>1, <2>2 DEF At, Sound, Descending
    <3> QED
      BY <2>1, <2>2, <3>1 DEF At, Held
  <2>3. CASE At(w, "write")
    BY <2>1, <2>3 DEF At, Sound
  <2> QED
    BY <2>2, <2>3
<1> QED
  BY <1>1, <1>2 DEF NoLayerLags, NoHoles

\* As long as no call fails, no layer is ever shorter than the committed count calls for
\* and no write starts beyond the end of its table, for any number of writers racing
\* without a lock, any decimation, and kills at any point: a writer leaves behind it, layer
\* by layer, the row its slot is downsampled into, and commits only below the last layer.
THEOREM LayersKeepUp ==
    ASSUME "io" \notin Faults
    PROVE  Spec => []NoLayerLags
<1> DEFINE IInv == TypeInv /\ Lag
<1>1. Init => IInv
  BY TypeInit, LagInit
<1>2. IInv /\ [Next]_vars => IInv'
  BY TypeStep, LagStep
<1>3. IInv => NoLayerLags
  BY LagHolds
<1> HIDE DEF IInv
<1> QED
  BY <1>1, <1>2, <1>3, PTL DEF Spec

-----------------------------------------------------------------------------
(* One connection that posts, and any faults: the grid and the count.          *)

\* Only the first post sets the start, and the count never goes back.
Serial(w) ==
    /\ pc[w] = "start" => npoints = 0
    /\ pc[w] = "commit" => frame[w].top >= npoints

\* The locals of all threads, and the label a step starts from.
LEMMA StateNow ==
    ASSUME TypeInv
    PROVE  /\ pc \in [Threads -> Labels]
           /\ frame \in [Threads -> Frame]
           /\ rc \in [Threads -> Outcomes]
           /\ npoints \in Nat /\ start_time \in Nat
           /\ table \in [Layers -> Seq(Row)]
           /\ \A t \in Threads : /\ frame[t] \in Frame
                                 /\ frame[t].time \in Nat
                                 /\ frame[t].top \in Nat
                                 /\ frame[t].point \in Nat
                                 /\ frame[t].npoints \in Nat
                                 /\ frame[t].layer \in Layers
                                 /\ frame[t].posted \in Row
                                 /\ frame[t].values \in Row
                                 /\ frame[t].row \in Row
  BY DEF TypeInv, TypeOK, Frame

\* What readers and kills leave alone.
LEMMA ReaderLeaves ==
    ASSUME TypeInv, NEW r \in Readers,
           \/ NoLatest(r) \/ GetLatest(r) \/ ReaderStep(r) \/ FailFetch(r)
           \/ \E t \in Times : GetValues(r, t)
    PROVE  /\ npoints' = npoints /\ start_time' = start_time /\ table' = table
           /\ \A t \in Threads : t # r => /\ pc'[t] = pc[t]
                                          /\ frame'[t] = frame[t]
                                          /\ rc'[t] = rc[t]
<1>1. npoints' = npoints /\ start_time' = start_time /\ table' = table
  BY DEF NoLatest, GetLatest, GetValues, FailFetch, ReaderStep, Redirect, TooOld, Seek, TooNew,
         Bound, Fetch, FetchRounded, meta
<1>2. \A t \in Threads : t # r => pc'[t] = pc[t] /\ frame'[t] = frame[t] /\ rc'[t] = rc[t]
  BY StateNow
  DEF NoLatest, GetLatest, GetValues, FailFetch, ReaderStep, Redirect, TooOld, Seek, TooNew,
      Bound, Fetch, FetchRounded, Return, Goto
<1> QED
  BY <1>1, <1>2

\* What the steps of a writer leave alone in the other threads.
LEMMA WriterLeaves ==
    ASSUME TypeInv, NEW w \in Writers,
           \/ WriterStep(w) \/ FailTop(w) \/ FailBelow(w)
           \/ \E t \in Times, v \in PostedRow : Post(w, t, v)
    PROVE  \A t \in Threads : t # w => /\ pc'[t] = pc[t]
                                       /\ frame'[t] = frame[t]
                                       /\ rc'[t] = rc[t]
  BY StateNow
  DEF WriterStep, Post, CheckEmpty, SetStart, Refuse, Locate, ReadSize, Pad, Probe, Reread,
      Write, Decimate, Test, Commit, Reply, FailTop, FailBelow, Return, Goto

LEMMA OneStep ==
    ASSUME NEW w, Writers = {w}, TypeInv, Serial(w), [Next]_vars
    PROVE  /\ Serial(w)'
           /\ npoints' = npoints \/ npoints' > npoints
           /\ npoints # 0 => start_time' = start_time
<1>1. w \in Writers /\ w \in Threads
  BY DEF Threads
<1>2. CASE \/ WriterStep(w) \/ FailTop(w) \/ FailBelow(w)
           \/ \E t \in Times, v \in PostedRow : Post(w, t, v)
  <2>1. CASE CheckEmpty(w)
    BY <1>1, <2>1, StateNow DEF CheckEmpty, Goto, At, Serial, meta
  <2>2. CASE Test(w)
    BY <1>1, <2>2, StateNow DEF Test, Goto, At, Serial, meta
  <2>3. CASE SetStart(w)
    BY <1>1, <2>3, StateNow DEF SetStart, Goto, At, Serial
  <2>4. CASE Commit(w)
    BY <1>1, <2>4, StateNow DEF Commit, Goto, At, Serial
  <2>5. CASE \/ Refuse(w) \/ Locate(w) \/ ReadSize(w) \/ Pad(w) \/ Probe(w) \/ Reread(w)
             \/ Write(w) \/ Decimate(w) \/ Reply(w) \/ FailTop(w) \/ FailBelow(w)
             \/ \E t \in Times, v \in PostedRow : Post(w, t, v)
    <3>1. npoints' = npoints /\ start_time' = start_time
      BY <2>5 DEF Refuse, Locate, ReadSize, Pad, Probe, Reread, Write, Decimate, Reply, FailTop,
                  FailBelow, Post, meta
    <3>2. pc'[w] # "start" /\ pc'[w] # "commit"
      BY <1>1, <2>5, StateNow
      DEF Refuse, Locate, ReadSize, Pad, Probe, Reread, Write, Decimate, Reply, FailTop,
          FailBelow, Post, Return, Goto
    <3> QED
      BY <3>1, <3>2 DEF Serial
  <2> QED
    BY <1>2, <2>1, <2>2, <2>3, <2>4, <2>5 DEF WriterStep
<1>3. ASSUME NEW r \in Readers,
             \/ NoLatest(r) \/ GetLatest(r) \/ ReaderStep(r) \/ FailFetch(r)
             \/ \E t \in Times : GetValues(r, t)
      PROVE  /\ Serial(w)'
             /\ npoints' = npoints /\ start_time' = start_time
  <2>1. w # r
    BY Constants
  <2> QED
    BY <1>1, <1>3, <2>1, ReaderLeaves DEF Serial
<1>4. CASE Crash
  BY <1>1, <1>4 DEF Crash, Serial, meta
<1>5. CASE UNCHANGED vars
  BY <1>5 DEF vars, meta, Serial
<1> QED
  BY <1>2, <1>3, <1>4, <1>5 DEF Next

LEMMA OneInit ==
    ASSUME NEW w, Writers = {w}, Init
    PROVE  Serial(w)
  BY DEF Init, Serial, Threads

\* With one connection that posts, a slot keeps its time whatever is killed or fails
\* between the two assignments of a first post: once a row counts, the start stays.
THEOREM GridStays ==
    ASSUME NEW w, Writers = {w}
    PROVE  Spec => GridFixed
<1>1. Init => TypeInv /\ Serial(w)
  BY TypeInit, OneInit
<1>2. TypeInv /\ Serial(w) /\ [Next]_vars => (TypeInv /\ Serial(w))'
  BY TypeStep, OneStep
<1>3. TypeInv /\ Serial(w) /\ [Next]_vars => [npoints # 0 => start_time' = start_time]_vars
  BY OneStep
<1> QED
  BY <1>1, <1>2, <1>3, PTL DEF Spec, GridFixed

-----------------------------------------------------------------------------
(* The redirect to the latest slot.                                            *)

\* A redirected reader is on its way to a slot that counts.
Sent(r) ==
    /\ pc[r] = "stamp" => frame[r].top < npoints
    /\ rc[r] = "redirected" =>
          /\ pc[r] \in {"seek", "bound", "fetch"}
          /\ frame[r].top < npoints
          /\ frame[r].time = start_time + frame[r].top * Interval
          /\ pc[r] \in {"bound", "fetch"} => frame[r].point = frame[r].top

LatestInv(w) == TypeInv /\ Backed /\ Serial(w) /\ \A r \in Readers : Sent(r)

\* The answers a redirected reader may get.
Leads == \A r \in Readers :
    rc[r] = "redirected" /\ rc'[r] # rc[r] => rc'[r] \in {"ok", "error", "lost"}

\* A slot counted from the start is on the grid.
LEMMA OnGrid ==
    ASSUME NEW s \in Nat, RoundDown(s) = s, NEW k \in Nat, NEW t, t = s + k * Interval
    PROVE  /\ t \in Nat
           /\ t >= s
           /\ RoundDown(t) = t
           /\ (t - s) \div Interval = k
<1>1. Interval \in Nat \ {0}
  BY Constants
<1>2. PICK q \in Nat : q = s \div Interval
  BY <1>1, Quotient
<1>3. q * Interval = s
  BY <1>2 DEF RoundDown
<1>4. k * Interval \in Nat /\ t = (q + k) * Interval /\ q + k \in Nat
  BY <1>1, <1>2, <1>3, Z3
<1>5. ((q + k) * Interval + 0) \div Interval = q + k /\ (k * Interval + 0) \div Interval = k
  BY <1>1, <1>2, <1>4, BlockRow
<1>6. t \div Interval = q + k /\ (k * Interval) \div Interval = k
  BY <1>1, <1>2, <1>4, <1>5
<1>7. RoundDown(t) = t
  BY <1>4, <1>6 DEF RoundDown
<1>8. t \in Nat /\ t >= s /\ t - s = k * Interval
  BY <1>4
<1> QED
  BY <1>6, <1>7, <1>8

LEMMA LatestStep ==
    ASSUME NEW w, Writers = {w}, LatestInv(w), [Next]_vars
    PROVE  (\A r \in Readers : Sent(r)') /\ Leads
<1> USE DEF LatestInv
<1>1. npoints' >= npoints /\ (npoints # 0 => start_time' = start_time) /\ npoints' \in Nat
  <2>1. TypeInv'
    BY TypeStep
  <2>2. npoints \in Nat /\ npoints' \in Nat
    BY <2>1 DEF TypeInv, TypeOK
  <2>3. /\ npoints' = npoints \/ npoints' > npoints
        /\ npoints # 0 => start_time' = start_time
    BY OneStep
  <2> QED
    BY <2>2, <2>3
<1>2. \A r \in Readers : /\ r \in Threads /\ r # w
                         /\ frame[r].top \in Nat
                         /\ frame[r].point \in Nat
                         /\ frame[r].time \in Nat
  BY StateNow, Constants DEF Threads
<1>3. ASSUME NEW r \in Readers, pc'[r] = pc[r], frame'[r] = frame[r], rc'[r] = rc[r]
      PROVE  Sent(r)'
  <2>1. frame[r].top < npoints => npoints # 0 /\ frame[r].top < npoints'
    BY <1>1, <1>2, StateNow
  <2> QED
    BY <1>1, <1>3, <2>1 DEF Sent
<1>4. CASE \/ WriterStep(w) \/ FailTop(w) \/ FailBelow(w)
           \/ \E t \in Times, v \in PostedRow : Post(w, t, v)
  BY <1>2, <1>3, <1>4, WriterLeaves DEF Leads
<1>5. ASSUME NEW r \in Readers,
             \/ NoLatest(r) \/ GetLatest(r) \/ ReaderStep(r) \/ FailFetch(r)
             \/ \E t \in Times : GetValues(r, t)
      PROVE  (\A u \in Readers : Sent(u)') /\ Leads
  <2>1. /\ npoints' = npoints /\ start_time' = start_time /\ table' = table
        /\ \A u \in Threads : u # r => pc'[u] = pc[u] /\ frame'[u] = frame[u] /\ rc'[u] = rc[u]
    BY <1>5, ReaderLeaves
  <2>2. /\ r \in Threads
        /\ pc \in [Threads -> Labels] /\ frame \in [Threads -> Frame]
        /\ rc \in [Threads -> Outcomes] /\ npoints \in Nat /\ start_time \in Nat
    BY <1>2, StateNow
  <2>3. SUFFICES Sent(r)'
                 /\ (rc[r] = "redirected" /\ rc'[r] # rc[r] => rc'[r] \in {"ok", "error", "lost"})
    <3>1. \A u \in Readers : u # r => Sent(u)' /\ rc'[u] = rc[u]
      BY <1>2, <1>3, <2>1
    <3> QED
      BY <2>3, <3>1 DEF Leads
  <2>4. Sent(r)
    OBVIOUS
  <2>5. CASE NoLatest(r) \/ FailFetch(r) \/ \E t \in Times : GetValues(r, t)
    BY <2>2, <2>4, <2>5 DEF NoLatest, FailFetch, GetValues, Return, Goto, At, Sent
  <2>6. CASE GetLatest(r)
    <3>1. /\ pc[r] = "idle" /\ pc'[r] = "stamp" /\ npoints # 0 /\ npoints' = npoints
          /\ frame'[r].top = npoints - 1
          /\ rc'[r] = "pending"
      BY <2>1, <2>2, <2>6 DEF GetLatest, Goto, At, Frame
    <3> QED
      BY <2>2, <2>4, <3>1 DEF Sent
  <2>7. CASE Redirect(r)
    <3>1. /\ pc[r] = "stamp" /\ pc'[r] = "seek"
          /\ frame'[r].top = frame[r].top
          /\ frame'[r].time = start_time + frame[r].top * Interval
          /\ rc'[r] = "redirected"
      BY <2>2, <2>7 DEF Redirect, Goto, At, Frame
    <3> QED
      BY <2>1, <2>4, <3>1 DEF Sent
  <2>8. CASE TooOld(r) \/ Seek(r)
    <3>1. pc[r] = "seek"
      BY <2>8 DEF TooOld, Seek, At
    <3>2. CASE rc[r] = "redirected"
      <4>1. /\ frame[r].top < npoints
            /\ frame[r].time = start_time + frame[r].top * Interval
        BY <2>4, <3>2 DEF Sent
      <4>2. RoundDown(start_time) = start_time
        BY DEF TypeInv, Shape
      <4>3. /\ frame[r].time >= start_time
            /\ RoundDown(frame[r].time) = frame[r].time
            /\ (frame[r].time - start_time) \div Interval = frame[r].top
        <5>1. frame[r].top \in Nat /\ start_time \in Nat
          BY <1>2, <2>2
        <5> QED
          BY <4>1, <4>2, <5>1, OnGrid, Zenon
      <4>4. Seek(r)
        BY <1>2, <2>2, <2>8, <4>3 DEF TooOld
      <4>5. /\ pc'[r] = "bound" /\ rc' = rc
            /\ frame'[r].top = frame[r].top
            /\ frame'[r].time = frame[r].time
            /\ frame'[r].point = frame[r].top
        BY <2>2, <4>3, <4>4 DEF Seek, Goto, Frame
      <4> QED
        BY <2>1, <3>2, <4>1, <4>5 DEF Sent
    <3>3. CASE rc[r] # "redirected"
      <4>1. pc'[r] \in {"idle", "bound"} /\ rc'[r] # "redirected"
        BY <2>2, <2>8, <3>3 DEF TooOld, Seek, Return, Goto
      <4> QED
        BY <3>3, <4>1 DEF Sent
    <3> QED
      BY <3>2, <3>3
  <2>9. CASE TooNew(r)
    <3>1. pc[r] = "bound" /\ pc'[r] = "idle" /\ rc'[r] = "future" /\ frame[r].point >= npoints
      BY <2>2, <2>9 DEF TooNew, Return, Goto, At
    <3>2. rc[r] # "redirected"
      BY <1>2, <2>2, <2>4, <3>1 DEF Sent
    <3> QED
      BY <3>1, <3>2 DEF Sent
  <2>10. CASE Bound(r)
    <3>1. pc[r] = "bound" /\ pc'[r] = "fetch" /\ rc' = rc /\ frame' = frame
      BY <2>2, <2>10 DEF Bound, Goto, At
    <3> QED
      BY <2>1, <2>4, <3>1 DEF Sent
  <2>11. CASE Fetch(r)
    <3>1. pc[r] = "fetch" /\ pc'[r] = "idle" /\ frame[r].point < Len(table[0])
      BY <2>2, <2>11 DEF Fetch, Return, Goto, At, Backed
    <3>2. rc'[r] = "ok"
      BY <2>2, <2>11, <3>1 DEF Fetch, Return
    <3> QED
      BY <3>1, <3>2 DEF Sent
  <2>12. CASE FetchRounded(r)
    <3>1. /\ pc[r] = "fetch" /\ pc'[r] = "seek" /\ rc'[r] = "rounded"
          /\ frame[r].time # RoundDown(frame[r].time)
      BY <2>2, <2>12 DEF FetchRounded, Goto, At
    <3>2. RoundDown(start_time) = start_time
      BY DEF TypeInv, Shape
    <3>3. rc[r] # "redirected"
      <4> SUFFICES ASSUME rc[r] = "redirected" PROVE FALSE
        OBVIOUS
      <4>1. frame[r].time = start_time + frame[r].top * Interval
        BY <2>4 DEF Sent
      <4>2. frame[r].top \in Nat /\ start_time \in Nat
        BY <1>2, <2>2
      <4>3. RoundDown(frame[r].time) = frame[r].time
        BY <3>2, <4>1, <4>2, OnGrid, ZenonT(90)
      <4> QED
        BY <3>1, <4>3
    <3> QED
      BY <3>1, <3>3 DEF Sent
  <2> QED
    BY <1>5, <2>5, <2>6, <2>7, <2>8, <2>9, <2>10, <2>11, <2>12 DEF ReaderStep
<1>6. CASE Crash
  <2>1. \A r \in Readers : /\ pc'[r] = "idle"
                           /\ rc'[r] = IF pc[r] = "idle" THEN rc[r] ELSE "lost"
    BY <1>2, <1>6 DEF Crash
  <2>2. \A r \in Readers : pc[r] = "idle" => rc[r] # "redirected"
    BY DEF Sent
  <2> QED
    BY <2>1, <2>2 DEF Sent, Leads
<1>7. CASE UNCHANGED vars
  BY <1>3, <1>7 DEF vars, Leads
<1> QED
  BY <1>4, <1>5, <1>6, <1>7 DEF Next

LEMMA LatestInit ==
    ASSUME NEW w, Writers = {w}, Init
    PROVE  LatestInv(w)
<1>1. TypeInv /\ Backed /\ Serial(w)
  BY TypeInit, ReadInit, OneInit
<1>2. \A r \in Readers : pc[r] = "idle" /\ rc[r] = "none"
  BY DEF Init, Threads
<1> QED
  BY <1>1, <1>2 DEF LatestInv, Sent

\* With one connection that posts, a redirect to the latest slot leads to that slot, however
\* much later it is followed and whatever fails meanwhile: the count never goes back and the
\* grid never moves, so the reader is not told that the slot is in the past or in the future.
THEOREM LatestLeads ==
    ASSUME NEW w, Writers = {w}
    PROVE  Spec => LatestReachable
<1>1. Init => LatestInv(w)
  BY LatestInit
<1>2. LatestInv(w) /\ [Next]_vars => LatestInv(w)'
  BY TypeStep, BackedStep, OneStep, LatestStep DEF LatestInv
<1>3. LatestInv(w) /\ [Next]_vars => [Leads]_vars
  BY LatestStep
<1>4. [Leads]_vars => [\A r \in Readers :
         rc[r] = "redirected" /\ rc'[r] # rc[r] => rc'[r] \in {"ok", "error", "lost"}]_vars
  BY DEF Leads
<1> QED
  BY <1>1, <1>2, <1>3, <1>4, PTL DEF Spec, LatestReachable

-----------------------------------------------------------------------------
(* One connection that posts, and kills: the rows on the way down.             *)

\* The row agrees with its block, but for the metrics that the block does not know.
Agrees(k, j) == \A m \in Metrics : Downsampled(k, j)[m] \in {Cell(k + 1, j)[m], NaN}

\* The rows that the slot of a post is downsampled into, down to where it is.
Way(p, f) ==
    /\ p[0] = f.top
    /\ p[f.layer] = f.point
    /\ \A k \in 0..f.layer-1 : p[k + 1] = p[k] \div Decimation[k]

OnItsWay == Descending \union {"test", "commit", "reply"}

\* A post has made every row above the one it is at agree, and brings the next one along.
Repairs(w) ==
    LET f == frame[w] IN
    pc[w] \in OnItsWay =>
        /\ \E p \in [Layers -> Nat] :
              /\ Way(p, f)
              /\ \A k \in 0..LastLayer-1 :
                    k + 1 < f.layer \/ (k + 1 = f.layer /\ ~InLayer(w)) => Agrees(k, p[k + 1])
        /\ \A k \in 0..LastLayer-1 : InLayer(w) /\ k + 1 = f.layer
              => f.values = Downsampled(k, f.point)
        /\ pc[w] = "write" => \A m \in Metrics : f.values[m] # NaN => f.row[m] = f.values[m]
        /\ pc[w] \in {"test", "commit", "reply"} => f.layer = LastLayer

\* Agreement is kept by what leaves both layers alone.
LEMMA SameLayers ==
    ASSUME NEW k \in 0..LastLayer-1, table'[k] = table[k]
    PROVE  /\ \A j \in Nat : Downsampled(k, j)' = Downsampled(k, j)
           /\ table'[k + 1] = table[k + 1] => \A j \in Nat : Agrees(k, j) => Agrees(k, j)'
<1>1. \A q \in Nat : Cell(k, q)' = Cell(k, q)
  BY DEF Cell
<1>2. k \in Layers /\ k + 1 \in Layers /\ Decimation[k] \in Nat \ {0}
  BY Constants
<1>3. ASSUME NEW j \in Nat PROVE Downsampled(k, j)' = Downsampled(k, j)
  <2>1. \A i \in 0..Decimation[k]-1 : j * Decimation[k] + i \in Nat
    BY <1>2, BlockRow
  <2> QED
    BY <1>1, <2>1, SameBlock
<1>4. ASSUME table'[k + 1] = table[k + 1], NEW j \in Nat, Agrees(k, j)
      PROVE  Agrees(k, j)'
  <2>1. Cell(k + 1, j)' = Cell(k + 1, j)
    BY <1>4 DEF Cell
  <2> QED
    BY <1>3, <1>4, <2>1 DEF Agrees
<1> QED
  BY <1>3, <1>4

\* A written row is there.
LEMMA WrittenCell ==
    ASSUME table \in [Layers -> Seq(Row)], NEW l \in Layers, NEW p \in Nat, NEW row \in Row,
           table' = [table EXCEPT ![l] = Pwrite(@, p, 1, row)]
    PROVE  /\ Cell(l, p)' = row
           /\ \A k \in Layers : k # l => table'[k] = table[k]
<1> DEFINE file == table[l]
           new  == Pwrite(file, p, 1, row)
<1>1. file \in Seq(Row) /\ Len(file) \in Nat
  BY LenProperties
<1>2. table'[l] = new /\ \A k \in Layers : k # l => table'[k] = table[k]
  OBVIOUS
<1> HIDE DEF file
<1>3. /\ Len(new) = IF p + 1 > Len(file) THEN p + 1 ELSE Len(file)
      /\ \A q \in Nat : q < Len(new) =>
            new[q + 1] = IF p <= q /\ q < p + 1 THEN row
                         ELSE IF q < Len(file) THEN file[q + 1] ELSE ZeroRow
  BY <1>1, PwriteFile
<1> HIDE DEF new
<1>4. p < Len(new) /\ new[p + 1] = row
  BY <1>1, <1>3
<1>5. Cell(l, p)' = row
  BY <1>2, <1>4 DEF Cell
<1> QED
  BY <1>2, <1>5

\* The way down goes on at the next layer.
LEMMA WayOn ==
    ASSUME NEW f \in Frame, f.layer \in 0..LastLayer-1, NEW p \in [Layers -> Nat], Way(p, f),
           NEW g, g.top = f.top, g.layer = f.layer + 1, g.point = f.point \div Decimation[f.layer]
    PROVE  \E q \in [Layers -> Nat] : Way(q, g) /\ \A k \in 0..f.layer : q[k] = p[k]
<1> DEFINE l == f.layer
           q == [p EXCEPT ![l + 1] = f.point \div Decimation[l]]
<1>1. /\ l \in Layers /\ l + 1 \in Layers /\ Decimation[l] \in Nat \ {0}
      /\ LastLayer \in Nat /\ l \in Nat /\ f.point \in Nat
  BY Constants DEF Frame
<1>2. f.point \div Decimation[l] \in Nat
  BY <1>1, Quotient
<1>3. q \in [Layers -> Nat] /\ q[l + 1] = f.point \div Decimation[l]
  BY <1>1, <1>2
<1>4. \A k \in 0..l : q[k] = p[k]
  BY <1>1 DEF Layers
<1> HIDE DEF q
<1>5. ASSUME NEW k \in 0..(l + 1)-1 PROVE q[k + 1] = q[k] \div Decimation[k]
  <2>1. CASE k = l
    <3>1. q[k] = f.point
      BY <1>1, <1>4, <2>1 DEF Way
    <3> QED
      BY <1>3, <2>1, <3>1
  <2>2. CASE k # l
    <3>1. k \in 0..l-1 /\ k \in 0..l /\ k + 1 \in 0..l
      BY <1>1, <2>2
    <3> QED
      BY <1>4, <3>1 DEF Way
  <2> QED
    BY <2>1, <2>2
<1>6. q[0] = g.top
  BY <1>1, <1>4 DEF Way
<1>7. Way(q, g)
  BY <1>3, <1>5, <1>6 DEF Way
<1> QED
  BY <1>3, <1>4, <1>7

\* The way down is the path of the slot.
LEMMA PathIs ==
    ASSUME NEW top \in Nat, NEW p \in [Layers -> Nat], p[0] = top,
           \A k \in 0..LastLayer-1 : p[k + 1] = p[k] \div Decimation[k]
    PROVE  \A l \in Layers : Path(top)[l] = p[l]
<1> DEFINE Rest == {l \in Layers : Path(top)[l] # p[l]}
<1>1. \A l \in Layers : p[l] = IF l = 0 THEN top ELSE p[l-1] \div Decimation[l-1]
  <2> SUFFICES ASSUME NEW l \in Layers, l # 0
               PROVE  p[l] = p[l-1] \div Decimation[l-1]
    OBVIOUS
  <2>1. l - 1 \in 0..LastLayer-1 /\ (l - 1) + 1 = l
    BY Constants DEF Layers
  <2>2. p[(l - 1) + 1] = p[l - 1] \div Decimation[l - 1]
    BY <2>1
  <2> QED
    BY <2>1, <2>2
<1>2. p = [l \in Layers |-> IF l = 0 THEN top ELSE p[l-1] \div Decimation[l-1]]
  <2>1. p = [l \in Layers |-> p[l]]
    OBVIOUS
  <2> QED
    BY <1>1, <2>1
<1>3. Path(top) = [l \in Layers |->
                      IF l = 0 THEN top ELSE Path(top)[l-1] \div Decimation[l-1]]
  BY <1>2, Zenon DEF Path
<1>4. \A l \in Layers :
         Path(top)[l] = IF l = 0 THEN top ELSE Path(top)[l-1] \div Decimation[l-1]
  BY <1>3, Zenon
<1>5. ASSUME Rest # {} PROVE FALSE
  <2>1. Rest \in SUBSET Nat
    BY Constants DEF Layers
  <2>2. PICK l \in Rest : \A k \in Rest : l <= k
    BY <1>5, <2>1, Least
  <2>3. l \in Layers /\ Path(top)[l] # p[l] /\ l \in Nat
    BY <2>1, <2>2
  <2>4. l # 0
    BY <1>1, <1>4, <2>3
  <2>5. l - 1 \in Layers /\ l - 1 \notin Rest
    BY <2>1, <2>2, <2>3, <2>4, Constants DEF Layers
  <2>6. Path(top)[l - 1] = p[l - 1]
    BY <2>5
  <2> QED
    BY <1>1, <1>4, <2>3, <2>4, <2>6
<1> QED
  BY <1>5

\* A step that leaves the tables and the way of the post alone.
LEMMA RepairsOn ==
    ASSUME TypeInv, NEW w \in Writers, Repairs(w), table' = table, pc[w] \in OnItsWay,
           frame'[w].top = frame[w].top, frame'[w].layer = frame[w].layer,
           frame'[w].point = frame[w].point, frame'[w].values = frame[w].values,
           InLayer(w)' <=> InLayer(w),
           pc'[w] = "write" => \A m \in Metrics :
               frame[w].values[m] # NaN => frame'[w].row[m] = frame[w].values[m],
           pc'[w] \in {"test", "commit", "reply"} => frame[w].layer = LastLayer
    PROVE  Repairs(w)'
<1> DEFINE f == frame[w]
<1>1. PICK p \in [Layers -> Nat] :
         /\ Way(p, f)
         /\ \A k \in 0..LastLayer-1 :
               k + 1 < f.layer \/ (k + 1 = f.layer /\ ~InLayer(w)) => Agrees(k, p[k + 1])
  BY DEF Repairs
<1>2. ASSUME NEW k \in 0..LastLayer-1
      PROVE  /\ \A j \in Nat : Downsampled(k, j)' = Downsampled(k, j)
             /\ \A j \in Nat : Agrees(k, j) => Agrees(k, j)'
  BY SameLayers
<1>3. Way(p, frame'[w])
  BY <1>1 DEF Way
<1>4. ASSUME NEW k \in 0..LastLayer-1,
             k + 1 < f.layer \/ (k + 1 = f.layer /\ ~InLayer(w))
      PROVE  Agrees(k, p[k + 1])'
  <2>1. p[k + 1] \in Nat
    BY Constants
  <2> QED
    BY <1>1, <1>2, <1>4, <2>1
<1>5. ASSUME NEW k \in 0..LastLayer-1, InLayer(w), k + 1 = f.layer
      PROVE  frame'[w].values = Downsampled(k, f.point)'
  <2>1. f.point \in Nat /\ f.values = Downsampled(k, f.point)
    BY <1>5, StateNow DEF Repairs, Threads
  <2> QED
    BY <1>2, <2>1
<1> QED
  BY <1>1, <1>3, <1>4, <1>5 DEF Repairs

LEMMA RepairsStep ==
    ASSUME NEW w, Writers = {w}, "io" \notin Faults, TypeInv, Repairs(w), [Next]_vars
    PROVE  Repairs(w)'
<1> DEFINE f == frame[w]
<1>1. w \in Writers /\ w \in Threads /\ LastLayer \in Nat
  BY Constants DEF Threads
<1>2. /\ pc \in [Threads -> Labels] /\ frame \in [Threads -> Frame]
      /\ table \in [Layers -> Seq(Row)]
      /\ f \in Frame /\ f.layer \in Layers /\ f.layer \in Nat /\ f.point \in Nat /\ f.top \in Nat
      /\ f.row \in Row /\ f.values \in Row
  BY <1>1, StateNow DEF Layers
<1>14. PICK L, P, R : L = f.layer /\ P = f.point /\ R = f.row /\ L \in Layers /\ P \in Nat /\ R \in Row
  BY <1>2
<1>3. CASE \/ CheckEmpty(w) \/ SetStart(w) \/ Refuse(w) \/ Locate(w) \/ Reply(w)
           \/ \E t \in Times, v \in PostedRow : Post(w, t, v)
  <2>1. pc'[w] \in {"idle", "check", "start", "locate", "size"}
    BY <1>1, <1>2, <1>3
    DEF CheckEmpty, SetStart, Refuse, Locate, Reply, Post, Return, Goto
  <2> QED
    BY <2>1 DEF Repairs, OnItsWay, Descending
<1>4. CASE ReadSize(w)
  <2>1. /\ pc'[w] = "pad" /\ frame'[w].layer = 0
        /\ frame'[w].top = f.top /\ frame'[w].point = f.top
    BY <1>1, <1>2, <1>4 DEF ReadSize, At, Goto, TypeInv, Shape, Frame
  <2>2. PICK p \in [Layers -> Nat] : p[0] = f.top
    <3>1. [l \in Layers |-> f.top] \in [Layers -> Nat] /\ [l \in Layers |-> f.top][0] = f.top
      BY <1>2, Constants
    <3> QED
      BY <3>1
  <2>3. Way(p, frame'[w])
    BY <2>1, <2>2 DEF Way
  <2>4. \A k \in 0..LastLayer-1 : ~(k + 1 < frame'[w].layer) /\ k + 1 # frame'[w].layer
    BY <1>1, <2>1
  <2> QED
    BY <2>1, <2>3, <2>4 DEF Repairs
<1>5. CASE Pad(w)
  <2>1. /\ pc[w] = "pad" /\ pc'[w] = "probe" /\ frame' = frame
        /\ \A k \in Layers : k # f.layer => table'[k] = table[k]
    BY <1>1, <1>2, <1>5 DEF Pad, At, Goto
  <2>2. InLayer(w) /\ InLayer(w)' /\ pc[w] \in OnItsWay
    BY <2>1 DEF InLayer, OnItsWay, Descending
  <2>3. PICK p \in [Layers -> Nat] :
           /\ Way(p, f)
           /\ \A k \in 0..LastLayer-1 : k + 1 < f.layer => Agrees(k, p[k + 1])
    BY <2>2 DEF Repairs
  <2>4. ASSUME NEW k \in 0..LastLayer-1, k + 1 < f.layer
        PROVE  Agrees(k, p[k + 1])'
    <3>1. k \in Layers /\ k + 1 \in Layers /\ p[k + 1] \in Nat
      BY Constants
    <3>2. table'[k] = table[k] /\ table'[k + 1] = table[k + 1]
      BY <1>2, <2>1, <2>4, <3>1
    <3> QED
      BY <2>3, <2>4, <3>1, <3>2, SameLayers
  <2>5. ASSUME NEW k \in 0..LastLayer-1, k + 1 = f.layer
        PROVE  f.values = Downsampled(k, P)'
    <3>1. k \in Layers /\ k # f.layer
      BY <1>2, <2>5, Constants, SMTT(60)
    <3>2. table'[k] = table[k]
      BY <2>1, <3>1
    <3>3. f.values = Downsampled(k, P)
      BY <1>14, <2>2, <2>5 DEF Repairs
    <3> QED
      BY <1>14, <3>2, <3>3, SameLayers
  <2>6. \A k \in 0..LastLayer-1 : InLayer(w)' /\ k + 1 = frame'[w].layer
           => (frame[w].values = Downsampled(k, frame[w].point))'
    BY <1>14, <2>1, <2>5
  <2>7. \A k \in 0..LastLayer-1 :
           k + 1 < frame'[w].layer \/ (k + 1 = frame'[w].layer /\ ~InLayer(w)')
              => Agrees(k, p[k + 1])'
    BY <2>1, <2>2, <2>4
  <2>8. Way(p, frame'[w])
    BY <2>1, <2>3
  <2> QED
    BY <2>1, <2>6, <2>7, <2>8 DEF Repairs
<1>6. CASE Probe(w) \/ Reread(w)
  <2>1. /\ pc[w] \in {"probe", "reread"} /\ pc'[w] \in {"reread", "write"} /\ table' = table
        /\ frame'[w].top = f.top /\ frame'[w].layer = f.layer
        /\ frame'[w].point = f.point /\ frame'[w].values = f.values
        /\ \E old \in Row : frame'[w].row = Merged(old, f.values)
    <3>1. Cell(f.layer, f.point) \in Row /\ UnknownRow \in Row
      BY <1>2, CellType, RowTypes
    <3> QED
      BY <1>1, <1>2, <1>6, <3>1 DEF Probe, Reread, At, Goto, Frame
  <2>2. InLayer(w) /\ InLayer(w)' /\ pc[w] \in OnItsWay
    BY <2>1 DEF InLayer, OnItsWay, Descending
  <2>3. \A m \in Metrics : f.values[m] # NaN => frame'[w].row[m] = f.values[m]
    BY <2>1 DEF Merged
  <2> QED
    BY <1>1, <2>1, <2>2, <2>3, RepairsOn
<1>7. CASE Write(w)
  <2>1. /\ pc[w] = "write" /\ frame' = frame
        /\ pc'[w] = IF f.layer < LastLayer THEN "decimate" ELSE "test"
        /\ table' = [table EXCEPT ![f.layer] = Pwrite(@, f.point, 1, f.row)]
    BY <1>1, <1>2, <1>7 DEF Write, At, Goto
  <2>2. InLayer(w) /\ ~InLayer(w)' /\ pc[w] \in OnItsWay
    BY <2>1 DEF InLayer, OnItsWay, Descending
  <2>3. PICK p \in [Layers -> Nat] :
           /\ Way(p, f)
           /\ \A k \in 0..LastLayer-1 : k + 1 < f.layer => Agrees(k, p[k + 1])
    BY <2>2 DEF Repairs
  <2>4. /\ Cell(L, P)' = R
        /\ \A k \in Layers : k # L => table'[k] = table[k]
    <3>1. table' = [table EXCEPT ![L] = Pwrite(@, P, 1, R)]
      BY <1>14, <2>1
    <3> QED
      BY <1>2, <1>14, <3>1, WrittenCell, ZenonT(90)
  <2>5. ASSUME NEW k \in 0..LastLayer-1, k + 1 < f.layer
        PROVE  Agrees(k, p[k + 1])'
    <3>1. k \in Layers /\ k + 1 \in Layers /\ p[k + 1] \in Nat
      BY Constants
    <3>2. table'[k] = table[k] /\ table'[k + 1] = table[k + 1]
      BY <1>2, <1>14, <2>4, <2>5, <3>1
    <3> QED
      BY <2>3, <2>5, <3>1, <3>2, SameLayers
  <2>6. ASSUME NEW k \in 0..LastLayer-1, k + 1 = f.layer
        PROVE  Agrees(k, p[k + 1])'
    <3>1. k \in Layers /\ k # L /\ k + 1 = L
      BY <1>2, <1>14, <2>6, Constants
    <3>2. table'[k] = table[k] /\ p[k + 1] = P
      BY <1>14, <2>3, <2>4, <2>6, <3>1 DEF Way
    <3>3. f.values = Downsampled(k, P)
      BY <1>14, <2>2, <2>6 DEF Repairs
    <3>4. Downsampled(k, P)' = Downsampled(k, P)
      BY <1>14, <3>2, SameLayers
    <3>5. \A m \in Metrics : f.values[m] # NaN => R[m] = f.values[m]
      BY <1>14, <2>1, <2>2 DEF Repairs
    <3>6. Cell(k + 1, P)' = R
      BY <2>4, <3>1
    <3> QED
      BY <3>2, <3>3, <3>4, <3>5, <3>6 DEF Agrees
  <2>7. pc'[w] = "test" => f.layer = LastLayer
    BY <1>1, <1>2, <2>1 DEF Layers
  <2>8. pc'[w] \in {"decimate", "test"}
    BY <2>1
  <2> QED
    BY <2>1, <2>2, <2>3, <2>5, <2>6, <2>7, <2>8 DEF Repairs
<1>8. CASE Decimate(w)
  <2>1. /\ pc[w] = "decimate" /\ pc'[w] = "pad" /\ table' = table
        /\ frame'[w].top = f.top
        /\ frame'[w].layer = f.layer + 1
        /\ frame'[w].point = f.point \div Decimation[f.layer]
        /\ frame'[w].values = Downsampled(f.layer, f.point \div Decimation[f.layer])
    BY <1>1, <1>2, <1>8 DEF Decimate, At, Goto
  <2>2. ~InLayer(w) /\ InLayer(w)' /\ pc[w] \in OnItsWay /\ pc'[w] # "write"
    BY <2>1 DEF InLayer, OnItsWay, Descending
  <2>3. f.layer \in 0..LastLayer-1
    BY <1>1, <1>2, <2>1 DEF TypeInv, Shape
  <2>4. PICK p \in [Layers -> Nat] :
           /\ Way(p, f)
           /\ \A k \in 0..LastLayer-1 : k + 1 < f.layer \/ k + 1 = f.layer => Agrees(k, p[k + 1])
    BY <2>2 DEF Repairs
  <2>5. PICK q \in [Layers -> Nat] : Way(q, frame'[w]) /\ \A k \in 0..f.layer : q[k] = p[k]
    BY <1>2, <2>1, <2>3, <2>4, WayOn
  <2>6. ASSUME NEW k \in 0..LastLayer-1, k + 1 < f.layer + 1
        PROVE  Agrees(k, q[k + 1])'
    <3>1. k + 1 \in 0..f.layer /\ (k + 1 < f.layer \/ k + 1 = f.layer)
      BY <1>2, <2>6
    <3>2. q[k + 1] = p[k + 1] /\ p[k + 1] \in Nat
      BY <2>5, <3>1, Constants
    <3> QED
      BY <2>1, <2>4, <3>1, <3>2, SameLayers
  <2>7. ASSUME NEW k \in 0..LastLayer-1, k + 1 = f.layer + 1
        PROVE  (frame[w].values = Downsampled(k, frame[w].point))'
    <3>1. k = f.layer
      BY <1>2, <2>7
    <3>2. f.point \div Decimation[f.layer] \in Nat
      BY <1>2, <2>3, Quotient, Constants
    <3>3. PICK J \in Nat : J = f.point \div Decimation[f.layer]
      BY <3>2
    <3>4. Downsampled(k, J)' = Downsampled(k, J)
      BY <2>1, SameLayers
    <3>5. frame'[w].point = J /\ frame'[w].values = Downsampled(k, J)
      BY <2>1, <3>1, <3>3
    <3> QED
      BY <3>4, <3>5
  <2> QED
    BY <2>1, <2>2, <2>5, <2>6, <2>7 DEF Repairs
<1>9. CASE Test(w) \/ Commit(w)
  <2>1. /\ pc[w] \in {"test", "commit"} /\ pc'[w] \in {"commit", "reply"}
        /\ table' = table /\ frame' = frame
    BY <1>1, <1>2, <1>9 DEF Test, Commit, At, Goto
  <2>2. ~InLayer(w) /\ ~InLayer(w)' /\ pc[w] \in OnItsWay /\ f.layer = LastLayer
    BY <2>1 DEF InLayer, OnItsWay, Repairs
  <2> QED
    BY <1>1, <2>1, <2>2, RepairsOn
<1>10. CASE FailTop(w) \/ FailBelow(w)
  BY <1>10 DEF FailTop, FailBelow
<1>11. ASSUME NEW r \in Readers,
              \/ NoLatest(r) \/ GetLatest(r) \/ ReaderStep(r) \/ FailFetch(r)
              \/ \E t \in Times : GetValues(r, t)
       PROVE  Repairs(w)'
  <2>1. table' = table /\ pc'[w] = pc[w] /\ frame'[w] = frame[w]
    BY <1>1, <1>11, ReaderLeaves, Constants
  <2>2. CASE pc[w] \in OnItsWay
    <3>1. InLayer(w)' <=> InLayer(w)
      BY <2>1 DEF InLayer
    <3> QED
      BY <1>1, <2>1, <2>2, <3>1, RepairsOn DEF Repairs
  <2>3. CASE pc[w] \notin OnItsWay
    BY <2>1, <2>3 DEF Repairs
  <2> QED
    BY <2>2, <2>3
<1>12. CASE Crash
  <2>1. pc'[w] = "idle"
    BY <1>1, <1>12 DEF Crash
  <2> QED
    BY <2>1 DEF Repairs, OnItsWay, Descending
<1>13. CASE UNCHANGED vars
  <2>1. table' = table /\ pc' = pc /\ frame' = frame
    BY <1>13 DEF vars
  <2>2. CASE pc[w] \in OnItsWay
    <3>1. InLayer(w)' <=> InLayer(w)
      BY <2>1 DEF InLayer
    <3> QED
      BY <1>1, <2>1, <2>2, <3>1, RepairsOn DEF Repairs
  <2>3. CASE pc[w] \notin OnItsWay
    BY <2>1, <2>3 DEF Repairs
  <2> QED
    BY <2>2, <2>3
<1> QED
  BY <1>3, <1>4, <1>5, <1>6, <1>7, <1>8, <1>9, <1>10, <1>11, <1>12, <1>13 DEF Next, WriterStep

LEMMA RepairsHolds ==
    ASSUME NEW w, Writers = {w}, TypeInv, Repairs(w)
    PROVE  PathRepaired
<1>1. w \in Threads /\ LastLayer \in Nat
  BY Constants DEF Threads
<1> SUFFICES ASSUME pc[w] = "reply", NEW l \in 0..LastLayer-1, NEW m \in Metrics
             PROVE  LET j == Path(frame[w].top)[l + 1]
                    IN  Downsampled(l, j)[m] \in {Cell(l + 1, j)[m], NaN}
  BY DEF PathRepaired, At
<1>2. PICK p \in [Layers -> Nat] :
         /\ Way(p, frame[w])
         /\ \A k \in 0..LastLayer-1 :
               k + 1 < frame[w].layer \/ (k + 1 = frame[w].layer /\ ~InLayer(w))
                  => Agrees(k, p[k + 1])
  BY DEF Repairs, OnItsWay
<1>3. frame[w].layer = LastLayer /\ ~InLayer(w) /\ frame[w].top \in Nat
  BY <1>1, StateNow DEF Repairs, OnItsWay, InLayer
<1>4. \A k \in Layers : Path(frame[w].top)[k] = p[k]
  BY <1>2, <1>3, PathIs DEF Way
<1>5. Path(frame[w].top)[l + 1] = p[l + 1]
  BY <1>4, Constants
<1>6. Agrees(l, p[l + 1])
  BY <1>1, <1>2, <1>3
<1> QED
  BY <1>5, <1>6 DEF Agrees

\* With one connection that posts and no failing call, the post that is answered has made every
\* row its slot is downsampled into the downsampling of its block, whatever an earlier post
\* that was killed had left there.
THEOREM PathIsRepaired ==
    ASSUME NEW w, Writers = {w}, "io" \notin Faults
    PROVE  Spec => []PathRepaired
<1>1. Init => TypeInv /\ Repairs(w)
  <2>1. Init => pc[w] = "idle"
    BY DEF Init, Threads
  <2> QED
    BY <2>1, TypeInit DEF Repairs, OnItsWay, Descending
<1>2. TypeInv /\ Repairs(w) /\ [Next]_vars => (TypeInv /\ Repairs(w))'
  BY TypeStep, RepairsStep
<1>3. TypeInv /\ Repairs(w) => PathRepaired
  BY RepairsHolds
<1> QED
  BY <1>1, <1>2, <1>3, PTL DEF Spec

-----------------------------------------------------------------------------
(* One connection that posts, and any faults: the engine implements the time    *)
(* series.                                                                      *)

Busy == {"locate", "size", "test", "commit"} \union Descending

\* The tables end with the row of the post, beyond the rows that count: the slots in
\* between are unknown.
Gap(file, n, top) == \A k \in Nat : n < k /\ k <= top => file[k] = UnknownRow

\* What the post of a writer has done to the top-level table.
Posted(w) ==
    LET f == frame[w] IN
    /\ pc[w] = "idle" => f = NoFrame
    /\ pc[w] \in Busy /\ npoints = 0 => f.time = start_time
    /\ pc[w] \in Busy \ {"locate"} =>
          f.time >= start_time /\ f.top = (f.time - start_time) \div Interval
    /\ f.layer = 0 =>
          /\ pc[w] # "idle" => f.values = f.posted
          /\ pc[w] \in {"start", "locate", "size", "pad"} => f.npoints = npoints
          /\ pc[w] \in {"probe", "reread", "write"} /\ f.top >= npoints =>
                f.top <= Len(table[0]) /\ Gap(table[0], npoints, f.top)
          /\ pc[w] = "reread" => f.top < npoints
          /\ pc[w] = "write" =>
                f.row = Merged(IF f.top < npoints THEN table[0][f.top + 1] ELSE UnknownRow,
                               f.posted)
    /\ /\ pc[w] \in {"decimate", "test", "commit"} \/ (f.layer > 0 /\ InLayer(w))
       /\ f.top >= npoints
       => /\ f.top < Len(table[0])
          /\ Gap(table[0], npoints, f.top)
          /\ table[0][f.top + 1] = Merged(UnknownRow, f.posted)
    /\ pc[w] = "reply" => f.top < npoints

SeriesInv(w) == TypeInv /\ Backed /\ Serial(w) /\ Posted(w)

\* The rows that count, as a function.
LEMMA Prefix ==
    ASSUME NEW file \in Seq(Row), NEW n \in Nat, n <= Len(file)
    PROVE  /\ SubSeq(file, 1, n) = [k \in 1..n |-> file[k]]
           /\ Len(SubSeq(file, 1, n)) = n
<1>1. n \in 0..Len(file) /\ Len(file) \in Nat
  BY LenProperties
<1> QED
  BY <1>1

LEMMA PrefixSame ==
    ASSUME NEW old \in Seq(Row), NEW new \in Seq(Row), NEW n \in Nat, n <= Len(old), n <= Len(new),
           \A k \in 1..n : new[k] = old[k]
    PROVE  SubSeq(new, 1, n) = SubSeq(old, 1, n)
<1>1. SubSeq(old, 1, n) = [k \in 1..n |-> old[k]]
  BY Prefix
<1>2. SubSeq(new, 1, n) = [k \in 1..n |-> new[k]]
  BY Prefix
<1> QED
  BY <1>1, <1>2

\* A post to a slot that counts is merged with its row.
LEMMA RecordedWithin ==
    ASSUME NEW old \in Seq(Row), NEW new \in Seq(Row), NEW n \in Nat, n <= Len(old), n <= Len(new),
           NEW top \in Nat, top < n, NEW v,
           new[top + 1] = Merged(old[top + 1], v),
           \A k \in 1..n : k # top + 1 => new[k] = old[k]
    PROVE  SubSeq(new, 1, n) = Abstract!Recorded(SubSeq(old, 1, n), top, v)
<1>1. SubSeq(old, 1, n) = [k \in 1..n |-> old[k]] /\ Len(SubSeq(old, 1, n)) = n
  BY Prefix
<1>2. SubSeq(new, 1, n) = [k \in 1..n |-> new[k]]
  BY Prefix
<1> DEFINE s == SubSeq(old, 1, n)
<1>3. Abstract!Recorded(s, top, v) =
         [k \in 1..n |-> IF k = top + 1 THEN Merged(IF k <= n THEN s[k] ELSE UnknownRow, v)
                         ELSE IF k <= n THEN s[k] ELSE UnknownRow]
  BY <1>1 DEF Abstract!Recorded, Abstract!Merged, Abstract!UnknownRow, Merged, UnknownRow
<1>4. \A k \in 1..n : s[k] = old[k]
  BY <1>1
<1> HIDE DEF s
<1>5. \A k \in 1..n : (IF k = top + 1 THEN Merged(IF k <= n THEN s[k] ELSE UnknownRow, v)
                       ELSE IF k <= n THEN s[k] ELSE UnknownRow) = new[k]
  BY <1>4
<1> QED
  BY <1>2, <1>3, <1>5 DEF s

\* A post to a later slot extends the series, with unknown rows in between.
LEMMA RecordedBeyond ==
    ASSUME NEW file \in Seq(Row), NEW n \in Nat, n <= Len(file),
           NEW top \in Nat, top >= n, top < Len(file), NEW v,
           Gap(file, n, top), file[top + 1] = Merged(UnknownRow, v)
    PROVE  SubSeq(file, 1, top + 1) = Abstract!Recorded(SubSeq(file, 1, n), top, v)
<1>0. Len(file) \in Nat
  BY LenProperties
<1>1. SubSeq(file, 1, n) = [k \in 1..n |-> file[k]] /\ Len(SubSeq(file, 1, n)) = n
  BY Prefix
<1>2. SubSeq(file, 1, top + 1) = [k \in 1..top+1 |-> file[k]]
  BY <1>0, Prefix
<1> DEFINE s == SubSeq(file, 1, n)
<1>3. Abstract!Recorded(s, top, v) =
         [k \in 1..top+1 |-> IF k = top + 1 THEN Merged(IF k <= n THEN s[k] ELSE UnknownRow, v)
                             ELSE IF k <= n THEN s[k] ELSE UnknownRow]
  <2> HIDE DEF s
  <2>1. Len(s) = n
    BY <1>1 DEF s
  <2>2. 1..(IF top < n THEN n ELSE top + 1) = 1..(top + 1)
    OBVIOUS
  <2>3. Abstract!Recorded(s, top, v) =
           [k \in 1..(IF top < n THEN n ELSE top + 1) |->
               IF k = top + 1 THEN Merged(IF k <= n THEN s[k] ELSE UnknownRow, v)
               ELSE IF k <= n THEN s[k] ELSE UnknownRow]
    BY <2>1 DEF Abstract!Recorded, Abstract!Merged, Abstract!UnknownRow, Merged, UnknownRow
  <2> QED
    BY <2>2, <2>3
<1>4. \A k \in 1..n : s[k] = file[k]
  BY <1>1
<1> HIDE DEF s
<1>5. \A k \in 1..top+1 : (IF k = top + 1 THEN Merged(IF k <= n THEN s[k] ELSE UnknownRow, v)
                           ELSE IF k <= n THEN s[k] ELSE UnknownRow) = file[k]
  BY <1>4 DEF Gap
<1> QED
  BY <1>2, <1>3, <1>5 DEF s

\* What a write of one row, and what padding, does to a file.
LEMMA WriteFile ==
    ASSUME NEW file \in Seq(Row), NEW p \in Nat, p <= Len(file), NEW row \in Row,
           NEW new, new = Pwrite(file, p, 1, row)
    PROVE  /\ new \in Seq(Row)
           /\ Len(new) >= Len(file) /\ Len(new) > p
           /\ new[p + 1] = row
           /\ \A k \in 1..Len(file) : k # p + 1 => new[k] = file[k]
<1>1. Len(file) \in Nat
  BY LenProperties
<1>2. /\ new \in Seq(Row)
      /\ Len(new) = IF p + 1 > Len(file) THEN p + 1 ELSE Len(file)
      /\ \A q \in Nat : q < Len(new) =>
            new[q + 1] = IF p <= q /\ q < p + 1 THEN row
                         ELSE IF q < Len(file) THEN file[q + 1] ELSE ZeroRow
  <2>1. 1 \in Nat
    OBVIOUS
  <2>2. /\ Pwrite(file, p, 1, row) \in Seq(Row)
        /\ Len(Pwrite(file, p, 1, row)) = IF p + 1 > Len(file) THEN p + 1 ELSE Len(file)
        /\ \A q \in Nat : q < Len(Pwrite(file, p, 1, row)) =>
              Pwrite(file, p, 1, row)[q + 1] =
                 IF p <= q /\ q < p + 1 THEN row
                 ELSE IF q < Len(file) THEN file[q + 1] ELSE ZeroRow
    BY <2>1, PwriteFile, ZenonT(90)
  <2> QED
    BY <2>2, Zenon
<1>3. ASSUME NEW k \in 1..Len(file), k # p + 1 PROVE new[k] = file[k]
  <2>1. k - 1 \in Nat /\ (k - 1) + 1 = k /\ k - 1 < Len(new) /\ k - 1 < Len(file)
        /\ ~(p <= k - 1 /\ k - 1 < p + 1)
    BY <1>1, <1>2, <1>3
  <2>2. new[(k - 1) + 1] = file[(k - 1) + 1]
    BY <1>2, <2>1
  <2> QED
    BY <2>1, <2>2
<1>4. new[p + 1] = row
  BY <1>1, <1>2
<1> QED
  BY <1>1, <1>2, <1>3, <1>4

LEMMA PadFile ==
    ASSUME NEW file \in Seq(Row), NEW at \in Nat, at <= Len(file),
           NEW n \in Nat, NEW new, new = Pwrite(file, at, n, UnknownRow)
    PROVE  /\ new \in Seq(Row)
           /\ Len(new) >= Len(file) /\ Len(new) >= at + n
           /\ \A k \in 1..at : new[k] = file[k]
           /\ Gap(new, at, at + n)
<1>1. Len(file) \in Nat
  BY LenProperties
<1>2. /\ new \in Seq(Row)
      /\ Len(new) = IF at + n > Len(file) THEN at + n ELSE Len(file)
      /\ \A q \in Nat : q < Len(new) =>
            new[q + 1] = IF at <= q /\ q < at + n THEN UnknownRow
                         ELSE IF q < Len(file) THEN file[q + 1] ELSE ZeroRow
  <2>1. UnknownRow \in Row
    BY RowTypes
  <2>2. /\ Pwrite(file, at, n, UnknownRow) \in Seq(Row)
        /\ Len(Pwrite(file, at, n, UnknownRow)) =
              IF at + n > Len(file) THEN at + n ELSE Len(file)
        /\ \A q \in Nat : q < Len(Pwrite(file, at, n, UnknownRow)) =>
              Pwrite(file, at, n, UnknownRow)[q + 1] =
                 IF at <= q /\ q < at + n THEN UnknownRow
                 ELSE IF q < Len(file) THEN file[q + 1] ELSE ZeroRow
    BY <2>1, PwriteFile, ZenonT(90)
  <2> QED
    BY <2>2, Zenon
<1>3. ASSUME NEW k \in 1..at PROVE new[k] = file[k]
  <2>1. k - 1 \in Nat /\ (k - 1) + 1 = k /\ k - 1 < Len(new) /\ k - 1 < Len(file) /\ ~(at <= k - 1)
    BY <1>1, <1>2
  <2>2. new[(k - 1) + 1] = file[(k - 1) + 1]
    BY <1>2, <2>1
  <2> QED
    BY <2>1, <2>2
<1>4. ASSUME NEW k \in Nat, at < k, k <= at + n PROVE new[k] = UnknownRow
  <2>1. k - 1 \in Nat /\ (k - 1) + 1 = k /\ k - 1 < Len(new) /\ at <= k - 1
        /\ k - 1 < at + n
    BY <1>1, <1>2, <1>4
  <2>2. new[(k - 1) + 1] = UnknownRow
    BY <1>2, <2>1
  <2> QED
    BY <2>1, <2>2
<1> QED
  BY <1>1, <1>2, <1>3, <1>4 DEF Gap

\* The abstract request and answer of the writer.
LEMMA Fields ==
    \A r, a, b, c : r = [stage |-> a, slot |-> b, values |-> c]
       => r.stage = a /\ r.slot = b /\ r.values = c
  OBVIOUS

LEMMA ViewNow ==
    ASSUME NEW w, Writers = {w}
    PROVE  /\ Posting[w].stage = Stage(w)
           /\ Posting[w].slot = frame[w].time
           /\ Posting[w].values = frame[w].posted
           /\ Posting[w] = [stage |-> Stage(w), slot |-> frame[w].time,
                            values |-> frame[w].posted]
           /\ Posting'[w] = [stage |-> Stage(w)', slot |-> frame'[w].time,
                             values |-> frame'[w].posted]
           /\ rc'[w] = rc[w] => Answered'[w] = Answered[w]
           /\ rc'[w] = "pending" => Answered'[w] = "none"
           /\ rc'[w] \in {"error", "lost"} => Answered'[w] = "failed"
           /\ rc'[w] \in {"ok", "past"} => Answered'[w] = rc'[w]
<1>1. /\ Posting[w] = [stage |-> Stage(w), slot |-> frame[w].time,
                       values |-> frame[w].posted]
      /\ Posting'[w] = [stage |-> Stage(w)', slot |-> frame'[w].time,
                        values |-> frame'[w].posted]
      /\ rc'[w] = rc[w] => Answered'[w] = Answered[w]
      /\ rc'[w] = "pending" => Answered'[w] = "none"
      /\ rc'[w] \in {"error", "lost"} => Answered'[w] = "failed"
      /\ rc'[w] \in {"ok", "past"} => Answered'[w] = rc'[w]
  BY Zenon DEF Posting, Answered
<1> QED
  BY <1>1, Fields

\* They are all there is to the functions of the writers.
LEMMA ViewWhole ==
    ASSUME NEW w, Writers = {w}
    PROVE  /\ Posting'[w] = Posting[w] => Posting' = Posting
           /\ Answered'[w] = Answered[w] => Answered' = Answered
           /\ \A x : Posting'[w] = x => Posting' = [Posting EXCEPT ![w] = x]
           /\ \A x : Answered'[w] = x => Answered' = [Answered EXCEPT ![w] = x]
<1>1. /\ Posting = [u \in {w} |-> Posting[u]] /\ Posting' = [u \in {w} |-> Posting'[u]]
      /\ Answered = [u \in {w} |-> Answered[u]] /\ Answered' = [u \in {w} |-> Answered'[u]]
  BY Zenon DEF Posting, Answered
<1> QED
  BY <1>1

LEMMA StutterMaps ==
    ASSUME NEW w, Writers = {w}, Stage(w)' = Stage(w),
           frame'[w].time = frame[w].time, frame'[w].posted = frame[w].posted,
           rc'[w] = rc[w], Committed' = Committed, FirstSlot' = FirstSlot
    PROVE  UNCHANGED Abstract!vars
<1>1. Posting'[w] = Posting[w] /\ Answered'[w] = Answered[w]
  BY ViewNow, ZenonT(90)
<1>2. Posting' = Posting /\ Answered' = Answered
  BY <1>1, ViewWhole
<1> QED
  BY <1>2 DEF Abstract!vars

LEMMA AnswerMaps ==
    ASSUME NEW w, Writers = {w}, NEW a, Answered'[w] = a,
           Stage(w) # "none", Stage(w)' = "none", frame'[w] = NoFrame,
           Committed' = Committed, FirstSlot' = FirstSlot
    PROVE  Abstract!Answer(w, a)
<1>1. Posting'[w] = Abstract!NoRequest
  <2>1. frame'[w].time = 0 /\ frame'[w].posted = UnknownRow
    BY DEF NoFrame
  <2>2. Abstract!NoRequest = [stage |-> "none", slot |-> 0, values |-> UnknownRow]
    BY DEF Abstract!NoRequest, Abstract!UnknownRow, UnknownRow
  <2> QED
    BY <2>1, <2>2, ViewNow
<1>2. Posting[w].stage # "none"
  BY ViewNow, Zenon
<1>3. Posting' = [Posting EXCEPT ![w] = Abstract!NoRequest]
  BY <1>1, ViewWhole
<1>4. Answered' = [Answered EXCEPT ![w] = a]
  BY ViewWhole
<1> QED
  BY <1>2, <1>3, <1>4 DEF Abstract!Answer

LEMMA RecordMaps ==
    ASSUME NEW w, Writers = {w}, NEW start,
           Stage(w) = "asked", Stage(w)' = "done",
           frame'[w].time = frame[w].time, frame'[w].posted = frame[w].posted,
           rc'[w] = rc[w],
           start = IF FirstSlot = 0 - 1 THEN frame[w].time ELSE FirstSlot,
           frame[w].time >= start,
           FirstSlot' = start,
           Committed' = Abstract!Recorded(Committed, (frame[w].time - start) \div Interval,
                                          frame[w].posted)
    PROVE  Abstract!Record(w)
<1>1. /\ Posting[w].stage = "asked"
      /\ Posting[w].slot = frame[w].time /\ Posting[w].values = frame[w].posted
  BY ViewNow, Zenon
<1>2. Abstract!Start(w) = start
  BY <1>1 DEF Abstract!Start
<1>3. Posting'[w] = [stage |-> "done", slot |-> Posting[w].slot, values |-> Posting[w].values]
  <2>1. Posting'[w] = [stage |-> Stage(w)', slot |-> frame'[w].time, values |-> frame'[w].posted]
    BY ViewNow, Zenon
  <2> QED
    BY <1>1, <2>1
<1>4. Posting' = [Posting EXCEPT ![w] = [stage |-> "done", slot |-> @.slot, values |-> @.values]]
  BY <1>3, ViewWhole
<1>5. Answered' = Answered
  BY ViewNow, ViewWhole
<1> QED
  BY <1>1, <1>2, <1>4, <1>5 DEF Abstract!Record

LEMMA ViewSame ==
    ASSUME npoints' = npoints, start_time' = start_time \/ npoints = 0, table'[0] = table[0]
    PROVE  Committed' = Committed /\ FirstSlot' = FirstSlot
  BY DEF Committed, FirstSlot

\* A step of the writer keeps what its post has done, and is a step of the abstract series.
LEMMA WriterMaps ==
    ASSUME NEW w, Writers = {w}, SeriesInv(w), [Next]_vars,
           \/ WriterStep(w) \/ FailTop(w) \/ FailBelow(w)
           \/ \E t \in Times, v \in PostedRow : Post(w, t, v)
    PROVE  Posted(w)' /\ [Abstract!Next]_Abstract!vars
<1> USE DEF SeriesInv
<1> DEFINE f == frame[w]
<1>1. w \in Writers /\ w \in Threads /\ 0 \in Layers
  BY Constants DEF Threads
<1>2. /\ pc \in [Threads -> Labels] /\ frame \in [Threads -> Frame] /\ rc \in [Threads -> Outcomes]
      /\ npoints \in Nat /\ start_time \in Nat
      /\ table \in [Layers -> Seq(Row)] /\ table[0] \in Seq(Row) /\ Len(table[0]) \in Nat
      /\ npoints <= Len(table[0])
  BY <1>1, StateNow, LenProperties DEF Backed
<1>3. /\ f \in Frame /\ f.time \in Nat /\ f.top \in Nat /\ f.point \in Nat /\ f.npoints \in Nat
      /\ f.layer \in Layers /\ f.layer \in Nat /\ f.row \in Row
  BY <1>1, StateNow, Constants DEF Layers
<1>4. Posted(w) /\ Serial(w)
  OBVIOUS
<1>5. /\ pc[w] \in {"check", "start", "locate", "size"} => f.layer = 0
      /\ pc[w] \in Descending /\ f.layer = 0 => f.point = f.top
  BY <1>1 DEF TypeInv, Shape, Descending
<1>6. ASSUME NEW t \in Times, NEW v \in PostedRow, Post(w, t, v)
      PROVE  Posted(w)' /\ [Abstract!Next]_Abstract!vars
  <2>1. /\ pc[w] = "idle" /\ pc'[w] = "check" /\ rc'[w] = "pending"
        /\ npoints' = npoints /\ start_time' = start_time /\ table' = table
        /\ frame'[w] = [NoFrame EXCEPT !.time = RoundDown(t), !.posted = v, !.values = v]
    BY <1>1, <1>2, <1>6 DEF Post, At, Goto, meta
  <2>2. /\ frame'[w].time = RoundDown(t) /\ frame'[w].posted = v /\ frame'[w].values = v
        /\ frame'[w].top = 0 /\ frame'[w].layer = 0
    BY <2>1 DEF NoFrame
  <2>3. Posted(w)'
    BY <2>1, <2>2 DEF Posted, Busy, Descending, InLayer
  <2>4. Stage(w) = "none" /\ Stage(w)' = "asked"
    BY <2>1, <2>2 DEF Stage, TookEffect, At
  <2>5. Posting[w].stage = "none" /\ Answered'[w] = "none"
    BY <2>1, <2>4, ViewNow, Zenon
  <2>6. Posting'[w] = [stage |-> "asked", slot |-> RoundDown(t), values |-> v]
    <3>1. Posting'[w] = [stage |-> Stage(w)', slot |-> frame'[w].time, values |-> frame'[w].posted]
      BY ViewNow, Zenon
    <3> QED
      BY <2>2, <2>4, <3>1
  <2>7. Posting' = [Posting EXCEPT ![w] = [stage |-> "asked", slot |-> RoundDown(t), values |-> v]]
    BY <2>6, ViewWhole
  <2>8. Answered' = [Answered EXCEPT ![w] = "none"]
    BY <2>5, ViewWhole
  <2>9. Committed' = Committed /\ FirstSlot' = FirstSlot
    BY <2>1, ViewSame
  <2>10. Abstract!Post(w, t, v)
    BY <2>5, <2>7, <2>8, <2>9 DEF Abstract!Post, Abstract!RoundDown, RoundDown
  <2> QED
    BY <1>1, <2>3, <2>10 DEF Abstract!Next, Abstract!PostedRow, PostedRow
<1>7. CASE CheckEmpty(w)
  <2>1. /\ pc[w] = "check" /\ pc'[w] = IF npoints = 0 THEN "start" ELSE "locate"
        /\ npoints' = npoints /\ start_time' = start_time /\ table' = table /\ rc' = rc
        /\ frame'[w].time = f.time /\ frame'[w].posted = f.posted /\ frame'[w].values = f.values
        /\ frame'[w].layer = f.layer /\ frame'[w].npoints = npoints /\ frame'[w].top = f.top
    BY <1>1, <1>2, <1>3, <1>7 DEF CheckEmpty, At, Goto, meta, Frame
  <2>2. Posted(w)'
    BY <1>4, <1>5, <2>1 DEF Posted, Busy, Descending, InLayer
  <2>3. Stage(w)' = Stage(w)
    BY <1>5, <2>1 DEF Stage, TookEffect, At
  <2> QED
    BY <2>1, <2>2, <2>3, ViewSame, StutterMaps
<1>8. CASE SetStart(w)
  <2>1. /\ pc[w] = "start" /\ pc'[w] = "locate" /\ npoints = 0
        /\ npoints' = npoints /\ start_time' = f.time /\ table' = table /\ rc' = rc
        /\ frame' = frame
    BY <1>1, <1>2, <1>4, <1>8 DEF SetStart, At, Goto, Serial
  <2>2. Posted(w)'
    BY <1>4, <1>5, <2>1 DEF Posted, Busy, Descending, InLayer
  <2>3. Stage(w)' = Stage(w)
    BY <1>5, <2>1 DEF Stage, TookEffect, At
  <2> QED
    BY <2>1, <2>2, <2>3, ViewSame, StutterMaps
<1>9. CASE Refuse(w)
  <2>1. /\ pc[w] = "locate" /\ pc'[w] = "idle" /\ f.time < start_time
        /\ npoints' = npoints /\ start_time' = start_time /\ table' = table /\ rc'[w] = "past"
        /\ frame'[w] = NoFrame
    BY <1>1, <1>2, <1>9 DEF Refuse, At, Return, Goto, meta
  <2>2. Posted(w)'
    BY <2>1 DEF Posted, Busy, Descending, InLayer, NoFrame
  <2>3. npoints # 0
    BY <1>2, <1>3, <1>4, <2>1 DEF Posted, Busy
  <2>4. Stage(w) # "none" /\ Stage(w)' = "none"
    BY <2>1 DEF Stage, At
  <2>5. Answered'[w] = "past"
    BY <2>1, ViewNow
  <2>6. Abstract!Answer(w, "past")
    BY <2>1, <2>4, <2>5, ViewSame, AnswerMaps
  <2>7. FirstSlot = start_time /\ FirstSlot # 0 - 1
    BY <1>2, <2>3 DEF FirstSlot
  <2>8. Posting[w].slot < FirstSlot
    BY <2>1, <2>7, ViewNow
  <2>9. Abstract!Refuse(w)
    BY <2>6, <2>7, <2>8 DEF Abstract!Refuse
  <2> QED
    BY <1>1, <2>2, <2>9 DEF Abstract!Next, Abstract!Progress
<1>10. CASE Locate(w)
  <2>1. /\ pc[w] = "locate" /\ pc'[w] = "size" /\ f.time >= start_time
        /\ npoints' = npoints /\ start_time' = start_time /\ table' = table /\ rc' = rc
        /\ frame'[w].time = f.time /\ frame'[w].posted = f.posted /\ frame'[w].values = f.values
        /\ frame'[w].layer = f.layer /\ frame'[w].npoints = f.npoints
        /\ frame'[w].top = (f.time - start_time) \div Interval
    BY <1>1, <1>2, <1>3, <1>10 DEF Locate, At, Goto, meta, Frame
  <2>2. Posted(w)'
    BY <1>4, <1>5, <2>1 DEF Posted, Busy, Descending, InLayer
  <2>3. Stage(w)' = Stage(w)
    BY <1>5, <2>1 DEF Stage, TookEffect, At
  <2> QED
    BY <2>1, <2>2, <2>3, ViewSame, StutterMaps
<1>11. CASE ReadSize(w)
  <2>1. /\ pc[w] = "size" /\ pc'[w] = "pad"
        /\ npoints' = npoints /\ start_time' = start_time /\ table' = table /\ rc' = rc
        /\ frame'[w].time = f.time /\ frame'[w].posted = f.posted /\ frame'[w].values = f.values
        /\ frame'[w].layer = f.layer /\ frame'[w].npoints \in {npoints, f.npoints}
        /\ frame'[w].top = f.top
    BY <1>1, <1>2, <1>3, <1>11 DEF ReadSize, At, Goto, meta, Frame
  <2>2. Posted(w)'
    BY <1>4, <1>5, <2>1 DEF Posted, Busy, Descending, InLayer
  <2>3. Stage(w)' = Stage(w)
    BY <1>5, <2>1 DEF Stage, TookEffect, At
  <2> QED
    BY <2>1, <2>2, <2>3, ViewSame, StutterMaps
<1>12. CASE Pad(w)
  <2>1. /\ pc[w] = "pad" /\ pc'[w] = "probe"
        /\ npoints' = npoints /\ start_time' = start_time /\ rc' = rc /\ frame' = frame
    BY <1>1, <1>2, <1>12 DEF Pad, At, Goto, meta
  <2>2. CASE f.layer = 0 /\ f.top > npoints
    <3>1. f.point = f.top /\ f.npoints = npoints
      BY <1>4, <1>5, <2>1, <2>2 DEF Posted, Descending
    <3>2. PICK n \in Nat : n = f.top - npoints /\ npoints + n = f.top
      BY <1>2, <1>3, <2>2, SMTT(60)
    <3>3. table'[0] = Pwrite(table[0], npoints, n, UnknownRow)
      BY <1>1, <1>2, <1>12, <2>2, <3>1, <3>2 DEF Pad
    <3>4. /\ table'[0] \in Seq(Row)
          /\ Len(table'[0]) >= Len(table[0]) /\ Len(table'[0]) >= npoints + n
          /\ \A k \in 1..npoints : table'[0][k] = table[0][k]
          /\ Gap(table'[0], npoints, npoints + n)
      <4>1. \A new : new = Pwrite(table[0], npoints, n, UnknownRow) =>
               /\ new \in Seq(Row)
               /\ Len(new) >= Len(table[0]) /\ Len(new) >= npoints + n
               /\ \A k \in 1..npoints : new[k] = table[0][k]
               /\ Gap(new, npoints, npoints + n)
        BY <1>2, <3>2, PadFile, Zenon
      <4> QED
        BY <3>3, <4>1, Zenon
    <3>5. Len(table'[0]) \in Nat
      BY <3>4, LenProperties
    <3>6. Posted(w)'
      BY <1>4, <2>1, <2>2, <3>2, <3>4 DEF Posted, Busy, Descending, InLayer
    <3>7. Committed' = Committed
      BY <1>2, <2>1, <3>4, <3>5, PrefixSame DEF Committed
    <3>8. FirstSlot' = FirstSlot
      BY <2>1 DEF FirstSlot
    <3>9. Stage(w)' = Stage(w)
      BY <2>1 DEF Stage, TookEffect, At
    <3> QED
      BY <2>1, <3>6, <3>7, <3>8, <3>9, StutterMaps
  <2>3. CASE ~(f.layer = 0 /\ f.top > npoints)
    <3>1. table'[0] = table[0]
      <4>1. f.layer = 0 => ~(f.point > f.npoints)
        BY <1>4, <1>5, <2>1, <2>3 DEF Posted, Descending
      <4> QED
        BY <1>1, <1>2, <1>12, <4>1 DEF Pad
    <3>2. f.layer = 0 /\ f.top >= npoints => f.top <= Len(table[0]) /\ Gap(table[0], npoints, f.top)
      BY <1>2, <1>3, <2>3 DEF Gap
    <3>3. Posted(w)'
      BY <1>3, <1>4, <2>1, <3>1, <3>2 DEF Posted, Busy, Descending, InLayer
    <3>4. Stage(w)' = Stage(w)
      BY <2>1 DEF Stage, TookEffect, At
    <3> QED
      BY <2>1, <3>1, <3>3, <3>4, ViewSame, StutterMaps
  <2> QED
    BY <2>2, <2>3
<1>13. CASE Probe(w)
  <2>1. /\ pc[w] = "probe" /\ pc'[w] = IF f.point < npoints THEN "reread" ELSE "write"
        /\ npoints' = npoints /\ start_time' = start_time /\ table' = table /\ rc' = rc
        /\ frame'[w].time = f.time /\ frame'[w].posted = f.posted /\ frame'[w].values = f.values
        /\ frame'[w].layer = f.layer /\ frame'[w].npoints = f.npoints
        /\ frame'[w].top = f.top /\ frame'[w].row = Merged(UnknownRow, f.values)
    BY <1>1, <1>2, <1>3, <1>13 DEF Probe, At, Goto, meta, Frame
  <2>2. Posted(w)'
    BY <1>3, <1>4, <1>5, <2>1 DEF Posted, Busy, Descending, InLayer
  <2>3. Stage(w)' = Stage(w)
    BY <2>1 DEF Stage, TookEffect, At
  <2> QED
    BY <2>1, <2>2, <2>3, ViewSame, StutterMaps
<1>14. CASE Reread(w)
  <2>1. /\ pc[w] = "reread" /\ pc'[w] = "write"
        /\ npoints' = npoints /\ start_time' = start_time /\ table' = table /\ rc' = rc
        /\ frame'[w].time = f.time /\ frame'[w].posted = f.posted /\ frame'[w].values = f.values
        /\ frame'[w].layer = f.layer /\ frame'[w].npoints = f.npoints
        /\ frame'[w].top = f.top /\ frame'[w].row = Merged(Cell(f.layer, f.point), f.values)
    BY <1>1, <1>2, <1>3, <1>14 DEF Reread, At, Goto, meta, Frame
  <2>2. f.layer = 0 => Cell(f.layer, f.point) = table[0][f.top + 1] /\ f.top < npoints
    BY <1>2, <1>3, <1>4, <1>5, <2>1 DEF Posted, Descending, Cell
  <2>3. Posted(w)'
    BY <1>3, <1>4, <2>1, <2>2 DEF Posted, Busy, Descending, InLayer
  <2>4. Stage(w)' = Stage(w)
    BY <2>1 DEF Stage, TookEffect, At
  <2> QED
    BY <2>1, <2>3, <2>4, ViewSame, StutterMaps
<1>15. CASE Write(w)
  <2>1. /\ pc[w] = "write" /\ pc'[w] \in {"decimate", "test"}
        /\ npoints' = npoints /\ start_time' = start_time /\ rc' = rc /\ frame' = frame
        /\ table' = [table EXCEPT ![f.layer] = Pwrite(@, f.point, 1, f.row)]
    BY <1>1, <1>2, <1>15 DEF Write, At, Goto, meta
  <2>2. CASE f.layer # 0
    <3>1. table'[0] = table[0]
      BY <1>1, <1>2, <1>3, <2>1, <2>2
    <3>2. Posted(w)'
      BY <1>3, <1>4, <2>1, <2>2, <3>1 DEF Posted, Busy, Descending, InLayer
    <3>3. Stage(w)' = Stage(w)
      BY <1>3, <2>1, <2>2 DEF Stage, TookEffect, At
    <3> QED
      BY <2>1, <3>1, <3>2, <3>3, ViewSame, StutterMaps
  <2>3. CASE f.layer = 0
    <3>1. /\ f.point = f.top
          /\ f.row = Merged(IF f.top < npoints THEN table[0][f.top + 1] ELSE UnknownRow, f.posted)
          /\ f.top >= npoints => f.top <= Len(table[0]) /\ Gap(table[0], npoints, f.top)
          /\ f.time >= start_time /\ f.top = (f.time - start_time) \div Interval
      BY <1>4, <1>5, <2>1, <2>3 DEF Posted, Busy, Descending
    <3>2. f.top <= Len(table[0])
      BY <1>2, <1>3, <3>1
    <3>3. table'[0] = Pwrite(table[0], f.top, 1, f.row)
      BY <1>1, <1>2, <2>1, <2>3, <3>1
    <3>4. /\ table'[0] \in Seq(Row)
          /\ Len(table'[0]) >= Len(table[0]) /\ Len(table'[0]) > f.top
          /\ table'[0][f.top + 1] = f.row
          /\ \A k \in 1..Len(table[0]) : k # f.top + 1 => table'[0][k] = table[0][k]
      <4>1. \A new : new = Pwrite(table[0], f.top, 1, f.row) =>
               /\ new \in Seq(Row)
               /\ Len(new) >= Len(table[0]) /\ Len(new) > f.top
               /\ new[f.top + 1] = f.row
               /\ \A k \in 1..Len(table[0]) : k # f.top + 1 => new[k] = table[0][k]
        <5> HIDE DEF f
        <5> QED
          BY <1>2, <1>3, <3>2, WriteFile, ZenonT(90)
      <4> QED
        BY <3>3, <4>1, Zenon
    <3>5. Len(table'[0]) \in Nat
      BY <3>4, LenProperties
    <3>6. FirstSlot' = FirstSlot
      BY <2>1 DEF FirstSlot
    <3>7. CASE f.top >= npoints
      <4>1. Gap(table'[0], npoints, f.top)
        <5>1. ASSUME NEW k \in Nat, npoints < k, k <= f.top PROVE table'[0][k] = UnknownRow
          <6>1. k \in 1..Len(table[0]) /\ k # f.top + 1
            BY <1>2, <1>3, <3>2, <5>1
          <6>2. table'[0][k] = table[0][k]
            BY <3>4, <6>1, Zenon
          <6>3. table[0][k] = UnknownRow
            BY <3>1, <3>7, <5>1, Zenon DEF Gap
          <6> QED
            BY <6>2, <6>3
        <5> QED
          BY <5>1, Zenon DEF Gap
      <4>2. Posted(w)'
        <5>1. table'[0][f.top + 1] = Merged(UnknownRow, f.posted)
          <6>1. f.row = Merged(UnknownRow, f.posted)
            BY <1>2, <1>3, <3>1, <3>7
          <6> QED
            BY <3>4, <6>1
        <5>2. f.top < Len(table'[0])
          BY <1>3, <3>4, <3>5
        <5>3. npoints = 0 => f.time = start_time
          BY <1>4, <2>1 DEF Posted, Busy, Descending
        <5>4. f.values = f.posted
          BY <1>4, <2>1, <2>3 DEF Posted
        <5> QED
          BY <2>1, <2>3, <3>1, <4>1, <5>1, <5>2, <5>3, <5>4
          DEF Posted, Busy, Descending, InLayer
      <4>3. Stage(w)' = Stage(w)
        BY <1>2, <1>3, <2>1, <2>3, <3>7 DEF Stage, TookEffect, At
      <4>4. Committed' = Committed
        <5>1. npoints <= Len(table'[0]) /\ \A k \in 1..npoints : table'[0][k] = table[0][k]
          <6>1. npoints <= Len(table'[0])
            BY <1>2, <3>4, <3>5
          <6>2. ASSUME NEW k \in 1..npoints PROVE table'[0][k] = table[0][k]
            <7>1. k \in 1..Len(table[0]) /\ k # f.top + 1
              BY <1>2, <1>3, <3>7
            <7> QED
              BY <3>4, <7>1, Zenon
          <6> QED
            BY <6>1, <6>2
        <5> QED
          BY <1>2, <2>1, <3>4, <5>1, PrefixSame DEF Committed
      <4> QED
        BY <2>1, <3>6, <4>2, <4>3, <4>4, StutterMaps
    <3>8. CASE f.top < npoints
      <4>1. Posted(w)'
        <5>1. npoints # 0 /\ ~(f.top >= npoints)
          BY <1>2, <1>3, <3>8
        <5>2. f.values = f.posted
          BY <1>4, <2>1, <2>3 DEF Posted
        <5> QED
          BY <2>1, <2>3, <3>1, <5>1, <5>2 DEF Posted, Busy, Descending, InLayer
      <4>2. Stage(w) = "asked" /\ Stage(w)' = "done"
        BY <1>3, <2>1, <2>3, <3>8 DEF Stage, TookEffect, At
      <4>3. FirstSlot = start_time /\ FirstSlot # 0 - 1
        BY <1>2, <1>3, <3>8 DEF FirstSlot
      <4>4. Committed' = Abstract!Recorded(Committed, f.top, f.posted)
        <5>1. /\ npoints <= Len(table'[0])
              /\ table'[0][f.top + 1] = Merged(table[0][f.top + 1], f.posted)
              /\ \A k \in 1..npoints : k # f.top + 1 => table'[0][k] = table[0][k]
          <6>1. npoints <= Len(table'[0])
            BY <1>2, <3>4, <3>5
          <6>2. f.row = Merged(table[0][f.top + 1], f.posted)
            BY <3>1, <3>8
          <6>3. ASSUME NEW k \in 1..npoints, k # f.top + 1 PROVE table'[0][k] = table[0][k]
            <7>1. k \in 1..Len(table[0])
              BY <1>2
            <7> QED
              BY <3>4, <6>3, <7>1, Zenon
          <6> QED
            BY <3>4, <6>1, <6>2, <6>3, Zenon
        <5> QED
          <6>1. npoints \in Nat /\ table[0] \in Seq(Row) /\ f.top \in Nat /\ npoints <= Len(table[0])
            BY <1>2, <1>3
          <6>2. \A new \in Seq(Row) :
                   /\ npoints <= Len(new) /\ new[f.top + 1] = Merged(table[0][f.top + 1], f.posted)
                   /\ \A k \in 1..npoints : k # f.top + 1 => new[k] = table[0][k]
                   => SubSeq(new, 1, npoints)
                         = Abstract!Recorded(SubSeq(table[0], 1, npoints), f.top, f.posted)
            <7>1. PICK old, n, i, v : old = table[0] /\ n = npoints /\ i = f.top /\ v = f.posted
              OBVIOUS
            <7>2. old \in Seq(Row) /\ n \in Nat /\ n <= Len(old) /\ i \in Nat /\ i < n
              BY <3>8, <6>1, <7>1
            <7>3. ASSUME NEW new \in Seq(Row), n <= Len(new), new[i + 1] = Merged(old[i + 1], v),
                         \A k \in 1..n : k # i + 1 => new[k] = old[k]
                  PROVE  SubSeq(new, 1, n) = Abstract!Recorded(SubSeq(old, 1, n), i, v)
              BY <7>2, <7>3, RecordedWithin
            <7> QED
              BY <7>1, <7>3, Zenon
          <6>3. SubSeq(table'[0], 1, npoints)
                   = Abstract!Recorded(SubSeq(table[0], 1, npoints), f.top, f.posted)
            BY <3>4, <5>1, <6>2, Zenon
          <6> QED
            BY <2>1, <6>3, Zenon DEF Committed
      <4>5. Abstract!Record(w)
        BY <2>1, <3>1, <3>6, <4>2, <4>3, <4>4, RecordMaps
      <4> QED
        BY <1>1, <4>1, <4>5 DEF Abstract!Next, Abstract!Progress
    <3> QED
      BY <1>2, <1>3, <3>7, <3>8
  <2> QED
    BY <2>2, <2>3
<1>16. CASE Decimate(w)
  <2>1. /\ pc[w] = "decimate" /\ pc'[w] = "pad"
        /\ npoints' = npoints /\ start_time' = start_time /\ table' = table /\ rc' = rc
        /\ frame'[w].time = f.time /\ frame'[w].posted = f.posted
        /\ frame'[w].layer = f.layer + 1 /\ frame'[w].top = f.top
    BY <1>1, <1>2, <1>16 DEF Decimate, At, Goto, meta
  <2>2. Posted(w)'
    BY <1>3, <1>4, <2>1 DEF Posted, Busy, Descending, InLayer
  <2>3. Stage(w)' = Stage(w)
    BY <1>3, <2>1 DEF Stage, TookEffect, At
  <2> QED
    BY <2>1, <2>2, <2>3, ViewSame, StutterMaps
<1>17. CASE Test(w)
  <2>1. /\ pc[w] = "test" /\ pc'[w] = IF f.top >= npoints THEN "commit" ELSE "reply"
        /\ npoints' = npoints /\ start_time' = start_time /\ table' = table /\ rc' = rc
        /\ frame' = frame
    BY <1>1, <1>2, <1>17 DEF Test, At, Goto, meta
  <2>2. Posted(w)'
    BY <1>2, <1>3, <1>4, <2>1 DEF Posted, Busy, Descending, InLayer
  <2>3. Stage(w)' = Stage(w)
    BY <1>2, <1>3, <2>1 DEF Stage, TookEffect, At
  <2> QED
    BY <2>1, <2>2, <2>3, ViewSame, StutterMaps
<1>18. CASE Commit(w)
  <2>1. /\ pc[w] = "commit" /\ pc'[w] = "reply" /\ f.top >= npoints
        /\ npoints' = f.top + 1 /\ start_time' = start_time /\ table' = table /\ rc' = rc
        /\ frame' = frame
    BY <1>1, <1>2, <1>4, <1>18 DEF Commit, At, Goto, Serial
  <2>2. /\ f.top < Len(table[0]) /\ Gap(table[0], npoints, f.top)
        /\ table[0][f.top + 1] = Merged(UnknownRow, f.posted)
        /\ npoints = 0 => f.time = start_time
        /\ f.time >= start_time /\ f.top = (f.time - start_time) \div Interval
    BY <1>4, <2>1 DEF Posted, Busy, Descending
  <2>3. Posted(w)'
    BY <1>3, <2>1 DEF Posted, Busy, Descending, InLayer
  <2>4. Stage(w) = "asked" /\ Stage(w)' = "done"
    BY <1>2, <1>3, <2>1 DEF Stage, TookEffect, At
  <2>5. /\ FirstSlot' = start_time
        /\ start_time = IF FirstSlot = 0 - 1 THEN f.time ELSE FirstSlot
    BY <1>2, <1>3, <2>1, <2>2 DEF FirstSlot
  <2>6. Committed' = Abstract!Recorded(Committed, f.top, f.posted)
    BY <1>2, <1>3, <2>1, <2>2, RecordedBeyond, SMTT(60) DEF Committed
  <2>7. Abstract!Record(w)
    BY <2>1, <2>2, <2>4, <2>5, <2>6, RecordMaps
  <2> QED
    BY <1>1, <2>3, <2>7 DEF Abstract!Next, Abstract!Progress
<1>19. CASE Reply(w)
  <2>1. /\ pc[w] = "reply" /\ pc'[w] = "idle"
        /\ npoints' = npoints /\ start_time' = start_time /\ table' = table /\ rc'[w] = "ok"
        /\ frame'[w] = NoFrame
    BY <1>1, <1>2, <1>19 DEF Reply, At, Return, Goto, meta
  <2>2. Posted(w)'
    BY <2>1 DEF Posted, Busy, Descending, InLayer, NoFrame
  <2>3. Stage(w) = "done" /\ Stage(w)' = "none"
    BY <2>1 DEF Stage, TookEffect, At
  <2>4. Answered'[w] = "ok"
    BY <2>1, ViewNow
  <2>5. Abstract!Answer(w, "ok")
    BY <2>1, <2>3, <2>4, ViewSame, AnswerMaps
  <2>6. Posting[w].stage = "done"
    BY <2>3, ViewNow, Zenon
  <2> QED
    BY <1>1, <2>2, <2>5, <2>6 DEF Abstract!Next, Abstract!Progress, Abstract!Acknowledge
<1>20. CASE FailTop(w)
  <2>1. /\ pc[w] # "idle" /\ pc'[w] = "idle"
        /\ npoints' = npoints /\ start_time' = start_time /\ table' = table /\ rc'[w] = "error"
        /\ frame'[w] = NoFrame
    BY <1>1, <1>2, <1>20 DEF FailTop, MakesCall, At, Return, Goto, meta
  <2>2. Posted(w)'
    BY <2>1 DEF Posted, Busy, Descending, InLayer, NoFrame
  <2>3. Stage(w) # "none" /\ Stage(w)' = "none"
    BY <2>1 DEF Stage, At
  <2>4. Answered'[w] = "failed"
    BY <2>1, ViewNow
  <2>5. Abstract!Answer(w, "failed")
    BY <2>1, <2>3, <2>4, ViewSame, AnswerMaps
  <2> QED
    BY <1>1, <2>2, <2>5 DEF Abstract!Next, Abstract!Fail
<1>21. CASE FailBelow(w)
  <2>1. /\ pc[w] \in {"pad", "reread", "write", "decimate"} /\ pc'[w] = "test" /\ f.layer > 0
        /\ npoints' = npoints /\ start_time' = start_time /\ table' = table /\ rc' = rc
        /\ frame' = frame
    BY <1>1, <1>2, <1>21 DEF FailBelow, MakesCall, At, Goto, meta
  <2>2. Posted(w)'
    BY <1>3, <1>4, <2>1 DEF Posted, Busy, Descending, InLayer
  <2>3. Stage(w)' = Stage(w)
    BY <1>3, <2>1 DEF Stage, TookEffect, At
  <2> QED
    BY <2>1, <2>2, <2>3, ViewSame, StutterMaps
<1> QED
  BY <1>6, <1>7, <1>8, <1>9, <1>10, <1>11, <1>12, <1>13, <1>14, <1>15, <1>16, <1>17, <1>18,
     <1>19, <1>20, <1>21 DEF WriterStep

\* What a kill or a reader does to the abstract series: nothing, or an answer that fails.
LEMMA OthersMap ==
    ASSUME NEW w, Writers = {w}, SeriesInv(w),
           \/ Crash
           \/ UNCHANGED vars
           \/ \E r \in Readers : \/ NoLatest(r) \/ GetLatest(r) \/ ReaderStep(r) \/ FailFetch(r)
                                 \/ \E t \in Times : GetValues(r, t)
    PROVE  Posted(w)' /\ [Abstract!Next]_Abstract!vars
<1> USE DEF SeriesInv
<1>1. w \in Writers /\ w \in Threads
  BY DEF Threads
<1>2. ASSUME npoints' = npoints, start_time' = start_time, table' = table,
             pc'[w] = pc[w], frame'[w] = frame[w], rc'[w] = rc[w]
      PROVE  Posted(w)' /\ [Abstract!Next]_Abstract!vars
  <2>1. Posted(w)'
    BY <1>2 DEF Posted, InLayer
  <2>2. Stage(w)' = Stage(w)
    BY <1>2 DEF Stage, TookEffect, At
  <2> QED
    BY <1>2, <2>1, <2>2, ViewSame, StutterMaps
<1>3. ASSUME NEW r \in Readers,
             \/ NoLatest(r) \/ GetLatest(r) \/ ReaderStep(r) \/ FailFetch(r)
             \/ \E t \in Times : GetValues(r, t)
      PROVE  Posted(w)' /\ [Abstract!Next]_Abstract!vars
  <2>1. w # r
    BY <1>1, Constants
  <2> QED
    BY <1>1, <1>2, <1>3, <2>1, ReaderLeaves
<1>4. CASE Crash
  <2>1. /\ pc'[w] = "idle" /\ frame'[w] = NoFrame
        /\ rc'[w] = IF pc[w] = "idle" THEN rc[w] ELSE "lost"
        /\ npoints' = npoints /\ start_time' = start_time /\ table' = table
    BY <1>1, <1>4 DEF Crash, meta
  <2>2. CASE pc[w] = "idle"
    <3>1. frame[w] = NoFrame
      BY <2>2 DEF Posted
    <3> QED
      BY <1>2, <2>1, <2>2, <3>1
  <2>3. CASE pc[w] # "idle"
    <3>1. Posted(w)'
      BY <2>1 DEF Posted, Busy, Descending, InLayer, NoFrame
    <3>2. Stage(w) # "none" /\ Stage(w)' = "none"
      BY <2>1, <2>3 DEF Stage, At
    <3>3. Answered'[w] = "failed"
      BY <2>1, <2>3, ViewNow
    <3>4. Abstract!Answer(w, "failed")
      BY <2>1, <3>2, <3>3, ViewSame, AnswerMaps
    <3> QED
      BY <1>1, <3>1, <3>4 DEF Abstract!Next, Abstract!Fail
  <2> QED
    BY <2>2, <2>3
<1>5. CASE UNCHANGED vars
  BY <1>2, <1>5 DEF vars, meta
<1> QED
  BY <1>3, <1>4, <1>5

LEMMA SeriesStep ==
    ASSUME NEW w, Writers = {w}, SeriesInv(w), [Next]_vars
    PROVE  SeriesInv(w)' /\ [Abstract!Next]_Abstract!vars
<1>1. Posted(w)' /\ [Abstract!Next]_Abstract!vars
  BY WriterMaps, OthersMap DEF Next
<1>2. TypeInv' /\ Backed' /\ Serial(w)'
  BY TypeStep, BackedStep, OneStep DEF SeriesInv
<1> QED
  BY <1>1, <1>2 DEF SeriesInv

LEMMA SeriesInit ==
    ASSUME NEW w, Writers = {w}, Init
    PROVE  SeriesInv(w) /\ Abstract!Init
<1>1. TypeInv /\ Backed /\ Serial(w)
  BY TypeInit, ReadInit, OneInit
<1>2. /\ pc[w] = "idle" /\ frame[w] = NoFrame /\ rc[w] = "none" /\ npoints = 0
      /\ table[0] = <<>>
  BY Constants DEF Init, Threads
<1>3. Posted(w)
  BY <1>2 DEF Posted, Busy, Descending, InLayer, NoFrame
<1>4. Committed = <<>> /\ FirstSlot = 0 - 1
  BY <1>2 DEF Committed, FirstSlot
<1>5. Posting = [u \in Writers |-> Abstract!NoRequest]
  <2>1. Stage(w) = "none"
    BY <1>2 DEF Stage, At
  <2>2. Abstract!NoRequest = [stage |-> Stage(w), slot |-> frame[w].time,
                              values |-> frame[w].posted]
    BY <1>2, <2>1 DEF Abstract!NoRequest, NoFrame, Abstract!UnknownRow, UnknownRow
  <2>3. Posting[w] = Abstract!NoRequest
    BY <2>2, ViewNow, Zenon
  <2>4. Posting = [u \in Writers |-> Posting[u]]
    BY Zenon DEF Posting
  <2> QED
    BY <2>3, <2>4
<1>6. Answered = [u \in Writers |-> "none"]
  <2>1. Answered[w] = "none"
    BY <1>2, Zenon DEF Answered
  <2>2. Answered = [u \in Writers |-> Answered[u]]
    BY Zenon DEF Answered
  <2> QED
    BY <2>1, <2>2
<1> QED
  BY <1>1, <1>3, <1>4, <1>5, <1>6 DEF SeriesInv, Abstract!Init

\* With one connection that posts, through kills and failing calls, the engine implements the
\* abstract time series: every post takes effect at one moment and whole, on the slot of its
\* time, an acknowledged post took effect, a refused one did not, and nothing else changes the
\* series. (That every post is answered is liveness, which TLC checks.)
THEOREM EngineImplementsTimeSeries ==
    ASSUME NEW w, Writers = {w}
    PROVE  Spec => Abstract!Safe
<1>1. Init => SeriesInv(w) /\ Abstract!Init
  BY SeriesInit
<1>2. SeriesInv(w) /\ [Next]_vars => SeriesInv(w)' /\ [Abstract!Next]_Abstract!vars
  BY SeriesStep
<1> QED
  BY <1>1, <1>2, PTL DEF Spec, Abstract!Safe
=============================================================================
