------------------------------- MODULE Series -------------------------------
(* A request for a series of one metric: tsdb_get_series, while another         *)
(* connection posts to the node, which has been posted to before.  A row stands  *)
(* for its value: a point is the set of the rows that its mean was taken over.   *)
EXTENDS Integers, Sequences

CONSTANTS Interval,      \* seconds per row of the top-level table
          LastLayer, Decimation,
          StartTime,     \* of the node
          NoTime,        \* TSDB_NO_TIMESTAMP
          Unknown,       \* NaN
          Junk,          \* a number that was in memory before
          MaxRows,       \* bound on the rows of the top-level table
          Starts, Ends,  \* what requests ask for
          Counts

ASSUME SeriesAssumption ==
    /\ Interval \in Nat \ {0} /\ LastLayer \in Nat /\ StartTime \in Nat /\ MaxRows \in Nat
    /\ Decimation \in [0..LastLayer-1 -> Nat \ {0}]
    /\ {Unknown, Junk, NoTime} \intersect Int = {}
    /\ Starts \union Ends \subseteq Nat \union {NoTime} /\ Counts \subseteq Nat

VARIABLES npoints,  \* metadata: rows that count
          rows,     \* the length of each layer's table
          gaps,     \* unknown rows of the top-level table
          request, pc,
          start, left,                \* the current output time, and how many are left
          out_interval, layer, naverage,
          layer_values,               \* the buffer that rows are read into
          points,                     \* the answer
          known                       \* history: rows of the layer that were known at first

node   == <<npoints, rows, gaps>>
plan   == <<request, out_interval, layer, naverage, known>>
vars   == <<node, plan, pc, start, left, layer_values, points>>

Layers == 0..LastLayer

Ceil(n, d) == (n + d - 1) \div d

LayerRows[l \in Layers] ==
    IF l = 0 THEN 1 ELSE LayerRows[l - 1] * Decimation[l - 1]

LayerInterval(l) == Interval * LayerRows[l]

\* A row of a lower layer is known if a row of its block is.
IsKnown(l, r) ==
    \E k \in r * LayerRows[l]..(r + 1) * LayerRows[l] - 1 : k < rows[0] /\ k \notin gaps

\* What a request of the layer at this moment finds, for the properties.
KnownRows(l) == {r \in 0..Ceil(npoints, LayerRows[l])-1 : IsKnown(l, r)}

\* The request, with the limits that were not given filled in.
Request(s, e, n) ==
    LET from == IF s = NoTime THEN StartTime ELSE s
    IN  [start |-> from,
         end   |-> IF e = NoTime THEN from + npoints * Interval ELSE e,
         n     |-> n]

Init ==
    /\ npoints \in 1..MaxRows
    /\ rows = [l \in Layers |-> Ceil(npoints, LayerRows[l])]
    /\ gaps \in SUBSET (0..npoints-1)
    /\ request = [start |-> 0, end |-> 0, n |-> 0]
    /\ known = {}
    /\ pc = "idle" /\ start = 0 /\ left = 0
    /\ out_interval = 0 /\ layer = 0 /\ naverage = 0
    /\ layer_values = <<>> /\ points = <<>>

-----------------------------------------------------------------------------
(* The reader.                                                                 *)

\* The request is refused, or asks for nothing.  (An unknown metric is refused likewise.)
Refuse(s, e, n) ==
    /\ pc = "idle"
    /\ request' = Request(s, e, n)
    /\ request'.end < request'.start \/ n = 0
    /\ pc' = "done"
    /\ UNCHANGED <<node, out_interval, layer, naverage, known, start, left, layer_values, points>>

\* The last layer whose rows are not longer than an output interval.
LayerFor(out) ==
    CHOOSE l \in Layers :
        /\ l = LastLayer \/ LayerInterval(l + 1) > out
        /\ \A k \in 0..l-1 : LayerInterval(k + 1) <= out

\* A range of fewer seconds than there are points to be is given a point a second.
Span(q)    == q.end - q.start
Tight(q)   == q.n > 1 /\ Span(q) < q.n - 1
Outputs(q) == IF Tight(q) THEN Span(q) + 1 ELSE q.n

\* One point in the middle, or points at equal intervals of a second or more.
Begin(s, e, n) ==
    /\ pc = "idle" /\ n # 0
    /\ request' = Request(s, e, n)
    /\ LET span == Span(request')
           out == IF n = 1 THEN 0 ELSE IF Tight(request') THEN 1 ELSE span \div (n - 1)
           l == LayerFor(out)
       IN  /\ span >= 0
           /\ start' = IF n = 1 THEN (request'.start + request'.end) \div 2 ELSE request'.start
           /\ left' = Outputs(request')
           /\ out_interval' = out
           /\ layer' = l
           /\ known' = KnownRows(l)
           /\ naverage' = IF out > LayerInterval(l) THEN out \div LayerInterval(l) ELSE 1
    /\ layer_values' \in [1..naverage' -> {Unknown, Junk}]
    /\ pc' = "check"
    /\ UNCHANGED <<node, points>>

InRangeShort ==   \* mutant: the latest row is out of range
    start >= StartTime /\ start < StartTime + (npoints - 1) * Interval

InRange == start >= StartTime /\ start < StartTime + npoints * Interval

Advance == start' = start + out_interval /\ left' = left - 1

SkipInPlace ==   \* mutant: continue does not get to the increments
    pc = "check" /\ left > 0 /\ ~InRange /\ UNCHANGED vars

Skip ==
    /\ pc = "check" /\ left > 0 /\ ~InRange
    /\ Advance
    /\ UNCHANGED <<node, plan, pc, layer_values, points>>

Seek ==
    /\ pc = "check" /\ left > 0 /\ InRange
    /\ pc' = "read"
    /\ UNCHANGED <<node, plan, start, left, layer_values, points>>

point == (start - StartTime) \div LayerInterval(layer)

\* What a row of the layer reads as.
Cell(r) == IF IsKnown(layer, r) THEN r ELSE Unknown

\* A read that meets the end of the table leaves the rest of the buffer as it was.
Read ==
    /\ pc = "read"
    /\ layer_values' = [k \in 1..naverage |->
                           IF point + k <= rows[layer] THEN Cell(point + k - 1)
                           ELSE layer_values[k]]
    /\ LET valid == {layer_values'[k] : k \in 1..naverage} \ {Unknown}
       IN  points' = IF valid = {} THEN points
                     ELSE Append(points, [time |-> start, at |-> point, of |-> valid])
    /\ Advance
    /\ pc' = "check"
    /\ UNCHANGED <<node, plan>>

FailRead ==
    /\ pc = "read"
    /\ pc' = "failed"
    /\ UNCHANGED <<node, plan, start, left, layer_values, points>>

Finish ==
    /\ pc = "check" /\ left = 0
    /\ pc' = "done"
    /\ UNCHANGED <<node, plan, start, left, layer_values, points>>

-----------------------------------------------------------------------------
(* The writer: a post to a later slot extends each layer, then commits; one to    *)
(* an earlier slot fills a gap.                                                *)

\* The rows up to the new one are padded, the new one may lack the metric.
Extend ==
    /\ rows[0] = npoints /\ rows[0] < MaxRows
    /\ \E n \in npoints+1..MaxRows :
          /\ rows' = [rows EXCEPT ![0] = n]
          /\ \E G \in {{}, {n - 1}} : gaps' = gaps \union (npoints..n-2) \union G
    /\ UNCHANGED <<npoints, plan, pc, start, left, layer_values, points>>

ExtendBelow(l) ==
    /\ \A k \in 0..l-1 : rows[k] = Ceil(rows[0], LayerRows[k])
    /\ rows[l] < Ceil(rows[0], LayerRows[l])
    /\ rows' = [rows EXCEPT ![l] = Ceil(rows[0], LayerRows[l])]
    /\ UNCHANGED <<npoints, gaps, plan, pc, start, left, layer_values, points>>

Fill(r) ==
    /\ rows[0] = npoints /\ r < npoints /\ r \in gaps
    /\ gaps' = gaps \ {r}
    /\ UNCHANGED <<npoints, rows, plan, pc, start, left, layer_values, points>>

CommitEarly ==   \* mutant: before the lower layers
    /\ npoints < rows[0]
    /\ npoints' = rows[0]
    /\ UNCHANGED <<rows, gaps, plan, pc, start, left, layer_values, points>>

Commit ==
    /\ npoints < rows[0] /\ \A l \in Layers : rows[l] = Ceil(rows[0], LayerRows[l])
    /\ npoints' = rows[0]
    /\ UNCHANGED <<rows, gaps, plan, pc, start, left, layer_values, points>>

Writer == Extend \/ (\E r \in 0..MaxRows-1 : Fill(r)) \/ (\E l \in 1..LastLayer : ExtendBelow(l)) \/ Commit

Reader ==
    \/ \E s \in Starts, e \in Ends, n \in Counts : Refuse(s, e, n) \/ Begin(s, e, n)
    \/ Skip \/ Seek \/ Read \/ FailRead \/ Finish

Next == Reader \/ Writer

\* The thread of the connection runs; nothing is assumed of the writer.
Spec == Init /\ [][Next]_vars /\ WF_vars(Reader)

-----------------------------------------------------------------------------
(* Properties.                                                                 *)

TypeOK ==
    /\ npoints \in 0..MaxRows /\ rows \in [Layers -> 0..MaxRows] /\ gaps \subseteq 0..MaxRows-1
    /\ request \in [start : Nat, end : Nat, n : Nat]
    /\ pc \in {"idle", "check", "read", "done", "failed"}
    /\ start \in Nat /\ left \in Nat
    /\ out_interval \in Nat /\ layer \in Layers /\ naverage \in Nat
    /\ layer_values \in Seq(Nat \union {Unknown, Junk})
    /\ points \in Seq([time : Nat, at : Nat, of : SUBSET (Nat \union {Junk})])
    /\ known \subseteq 0..MaxRows-1

\* The times of the points increase and stay within the request, and there are never
\* more of them than the caller has room for (tsdb.h:240-241).
TimesIncrease ==
    /\ Len(points) <= request.n
    /\ \A i, j \in DOMAIN points : i < j => points[i].time < points[j].time
    /\ \A i \in DOMAIN points : points[i].time \in request.start..request.end

\* A time that passes the range check has a row, in every layer and whatever the writer
\* is doing: no point is made of nothing but what the buffer held before.
FirstRowExists == pc = "read" => point < rows[layer]

\* Points of a downsampled series are made of different rows: none counts twice.
WindowsDisjoint ==
    out_interval >= LayerInterval(layer) =>
        \A i, j \in DOMAIN points :
            i < j => points[i].at + naverage <= points[j].at

\* A row between the start and the end of the output periods that was known from the
\* beginning is in some point.
Covered ==
    \A r \in known :
        LET t == StartTime + r * LayerInterval(layer)
        IN  t >= request.start /\ t < request.start + Outputs(request) * out_interval
            => \E i \in DOMAIN points : r \in points[i].of

\* Rows are not missed between points if the periods are whole rows and start on one.
AlignedCovers ==
    /\ pc = "done" /\ request.n > 1 /\ request.start >= StartTime
    /\ (request.start - StartTime) % LayerInterval(layer) = 0
    /\ out_interval # 0 /\ out_interval % LayerInterval(layer) = 0
    => Covered

\* A point is the mean of rows of its own period only.
OnlyItsPeriod ==
    \A i \in DOMAIN points : points[i].of \subseteq points[i].at..points[i].at + naverage - 1

\* The request comes to an end, however fast the node grows.
Answers == <>(pc \in {"done", "failed"})

\* The points of a series are in order, in the room that the caller made, each of rows
\* that exist and that no other point is made of.
PointsInOrder == TypeOK /\ TimesIncrease /\ FirstRowExists /\ WindowsDisjoint
=============================================================================
