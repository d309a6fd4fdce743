-------------------------------- MODULE Tsdb --------------------------------
(* The storage engine of one node (tsdb.c), as the HTTP server runs it: every   *)
(* connection is a thread, every request opens the node for itself, the         *)
(* metadata page is shared through mmap, and nothing is locked.  A step is one  *)
(* access to shared state: one read or write of a metadata field, one read or   *)
(* write system call on a table file.                                           *)
(*                                                                              *)
(* table[0] is the top-level table; every Decimation[l] rows of table[l] are    *)
(* downsampled into one row of table[l + 1].                                    *)
EXTENDS Rows

CONSTANTS Writers,     \* connections that post values
          Readers,     \* connections that read them
          Times,       \* the timestamps requests carry
          LastLayer,   \* the layer whose decimation is 0
          Decimation,  \* rows of a layer per row of the next
          Agg(_, _),   \* Agg(m, f): downsampling of the known values f of metric m,
                       \* f a function from positions in the block to values
          Faults       \* "crash": the process may be killed; "io": a call may fail

\* A function of every non-empty set of positions of a block is downsampled to a value.
ASSUME TsdbAssumption ==
    /\ Writers \intersect Readers = {}
    /\ Times \subseteq Nat
    /\ LastLayer \in Nat
    /\ Decimation \in [0..LastLayer-1 -> Nat \ {0}]
    /\ \A l \in 0..LastLayer-1, m \in Metrics :
          \A K \in SUBSET (0..Decimation[l]-1) :
              K # {} => \A f \in [K -> Values] : Agg(m, f) \in Values
    /\ Faults \subseteq {"crash", "io"}

VARIABLES npoints,     \* metadata: rows of the top-level table that count
          start_time,  \* metadata: time of the first of them
          table,       \* the table files, as sequences of rows
          pc,          \* where each thread is
          frame,       \* the local variables of each thread
          rc           \* the outcome of each thread's latest request

meta == <<npoints, start_time>>
vars == <<npoints, start_time, table, pc, frame, rc>>

Threads == Writers \union Readers
Layers  == 0..LastLayer

\* posted is the array the request came with, values the array handed to a layer.
Frame == [time : Nat, posted : Row, values : Row, top : Nat, layer : Layers,
          point : Nat, npoints : Nat, row : Row]

NoFrame == [time |-> 0, posted |-> UnknownRow, values |-> UnknownRow, top |-> 0,
            layer |-> 0, point |-> 0, npoints |-> 0, row |-> UnknownRow]

Init ==
    /\ npoints = 0
    /\ start_time = 0
    /\ table = [l \in Layers |-> <<>>]
    /\ pc = [t \in Threads |-> "idle"]
    /\ frame = [t \in Threads |-> NoFrame]
    /\ rc = [t \in Threads |-> "none"]

-----------------------------------------------------------------------------
(* Table files.                                                                *)

Ceil(n, d) == (n + d - 1) \div d

\* Rows at..at+n-1 become row; a gap between the end of the file and at is zero.
Pwrite(file, at, n, row) ==
    [k \in 1..(IF at + n > Len(file) THEN at + n ELSE Len(file)) |->
        IF at < k /\ k <= at + n THEN row
        ELSE IF k <= Len(file) THEN file[k] ELSE ZeroRow]

\* What a read of point p yields into a buffer of NaN: nothing beyond the end.
Cell(l, p) == IF p < Len(table[l]) THEN table[l][p + 1] ELSE UnknownRow

\* The positions of a block of layer l that hold a known value of metric m.
Known(l, j, m) ==
    {i \in 0..Decimation[l]-1 : Cell(l, j * Decimation[l] + i)[m] # NaN}

\* Row j of layer l + 1, computed from its block in layer l.
Downsampled(l, j) ==
    [m \in Metrics |->
        IF Known(l, j, m) = {} THEN NaN
        ELSE Agg(m, [i \in Known(l, j, m) |-> Cell(l, j * Decimation[l] + i)[m]])]

-----------------------------------------------------------------------------
(* Control of a thread.                                                        *)

At(t, label) == pc[t] = label

Goto(t, label) == pc' = [pc EXCEPT ![t] = label]

Return(t, outcome) ==
    /\ Goto(t, "idle")
    /\ frame' = [frame EXCEPT ![t] = NoFrame]
    /\ rc' = [rc EXCEPT ![t] = outcome]

-----------------------------------------------------------------------------
(* Posting values: tsdb_update_values and, per layer, tsdb_update_layer.       *)

Post(w, t, v) ==
    /\ At(w, "idle")
    /\ Goto(w, "check")
    /\ frame' = [frame EXCEPT ![w] =
                    [NoFrame EXCEPT !.time = RoundDown(t), !.posted = v, !.values = v]]
    /\ rc' = [rc EXCEPT ![w] = "pending"]
    /\ UNCHANGED <<meta, table>>

CheckEarliest(w) ==   \* mutant: a post before the first slot moves the start
    /\ At(w, "check")
    /\ frame' = [frame EXCEPT ![w].npoints = npoints]
    /\ Goto(w, IF npoints = 0 \/ frame[w].time < start_time THEN "start" ELSE "locate")
    /\ UNCHANGED <<meta, table, rc>>

CheckEmpty(w) ==
    /\ At(w, "check")
    /\ frame' = [frame EXCEPT ![w].npoints = npoints]
    /\ Goto(w, IF npoints = 0 THEN "start" ELSE "locate")
    /\ UNCHANGED <<meta, table, rc>>

SetStart(w) ==
    /\ At(w, "start")
    /\ start_time' = frame[w].time
    /\ Goto(w, "locate")
    /\ UNCHANGED <<npoints, table, frame, rc>>

\* Timestamp in the past.
Refuse(w) ==
    /\ At(w, "locate")
    /\ frame[w].time < start_time
    /\ Return(w, "past")
    /\ UNCHANGED <<meta, table>>

LocateUnchecked(w) ==   \* mutant: no refusal of the past
    /\ At(w, "locate")
    /\ LET p == (frame[w].time - start_time) \div Interval
       IN  frame' = [frame EXCEPT ![w].top = p, ![w].point = p]
    /\ Goto(w, "size")
    /\ UNCHANGED <<meta, table, rc>>

Locate(w) ==
    /\ At(w, "locate")
    /\ frame[w].time >= start_time
    /\ LET p == (frame[w].time - start_time) \div Interval
       IN  frame' = [frame EXCEPT ![w].top = p, ![w].point = p]
    /\ Goto(w, "size")
    /\ UNCHANGED <<meta, table, rc>>

\* The count passed down: read again, or kept in a register since CheckEmpty,
\* since nothing in between makes the compiler reload it.
ReadSize(w) ==
    /\ At(w, "size")
    /\ \E n \in {npoints, frame[w].npoints} : frame' = [frame EXCEPT ![w].npoints = n]
    /\ Goto(w, "pad")
    /\ UNCHANGED <<meta, table, rc>>

Pad(w) ==
    /\ At(w, "pad")
    /\ LET f == frame[w]
       IN  table' = IF f.point > f.npoints
                    THEN [table EXCEPT ![f.layer] =
                             Pwrite(@, f.npoints, f.point - f.npoints, UnknownRow)]
                    ELSE table
    /\ Goto(w, "probe")
    /\ UNCHANGED <<meta, frame, rc>>

\* Every layer asks the top-level count whether the point exists.
Probe(w) ==
    /\ At(w, "probe")
    /\ frame' = [frame EXCEPT ![w].row = Merged(UnknownRow, frame[w].values)]
    /\ Goto(w, IF frame[w].point < npoints THEN "reread" ELSE "write")
    /\ UNCHANGED <<meta, table, rc>>

RereadNothing(w) ==   \* mutant: the existing values are not kept
    /\ At(w, "reread")
    /\ frame' = [frame EXCEPT ![w].row = Merged(UnknownRow, frame[w].values)]
    /\ Goto(w, "write")
    /\ UNCHANGED <<meta, table, rc>>

Reread(w) ==
    /\ At(w, "reread")
    /\ LET f == frame[w]
       IN  frame' = [frame EXCEPT ![w].row = Merged(Cell(f.layer, f.point), f.values)]
    /\ Goto(w, "write")
    /\ UNCHANGED <<meta, table, rc>>

WriteStopsEarly(w) ==   \* mutant: the last layer is never reached
    /\ At(w, "write")
    /\ LET f == frame[w]
       IN  /\ table' = [table EXCEPT ![f.layer] = Pwrite(@, f.point, 1, f.row)]
           /\ Goto(w, IF f.layer + 1 < LastLayer THEN "decimate" ELSE "test")
    /\ UNCHANGED <<meta, frame, rc>>

Write(w) ==
    /\ At(w, "write")
    /\ LET f == frame[w]
       IN  /\ table' = [table EXCEPT ![f.layer] = Pwrite(@, f.point, 1, f.row)]
           /\ Goto(w, IF f.layer < LastLayer THEN "decimate" ELSE "test")
    /\ UNCHANGED <<meta, frame, rc>>

DecimateRoundedDown(w) ==   \* mutant: the count of the next layer is not rounded up
    /\ At(w, "decimate")
    /\ LET f == frame[w]
           d == Decimation[f.layer]
       IN  frame' = [frame EXCEPT ![w] =
                       [f EXCEPT !.layer = f.layer + 1, !.point = f.point \div d,
                                 !.npoints = f.npoints \div d,
                                 !.values = Downsampled(f.layer, f.point \div d),
                                 !.row = UnknownRow]]
    /\ Goto(w, "pad")
    /\ UNCHANGED <<meta, table, rc>>

DecimateRow(w) ==   \* mutant: the block is not the one of the row
    /\ At(w, "decimate")
    /\ LET f == frame[w]
           d == Decimation[f.layer]
       IN  frame' = [frame EXCEPT ![w] =
                       [f EXCEPT !.layer = f.layer + 1, !.point = f.point \div d,
                                 !.npoints = Ceil(f.npoints, d),
                                 !.values = Downsampled(f.layer, f.point),
                                 !.row = UnknownRow]]
    /\ Goto(w, "pad")
    /\ UNCHANGED <<meta, table, rc>>

Decimate(w) ==
    /\ At(w, "decimate")
    /\ LET f == frame[w]
           d == Decimation[f.layer]
       IN  frame' = [frame EXCEPT ![w] =
                       [time |-> f.time, posted |-> f.posted, top |-> f.top,
                        layer |-> f.layer + 1, point |-> f.point \div d,
                        npoints |-> Ceil(f.npoints, d),
                        values |-> Downsampled(f.layer, f.point \div d),
                        row |-> UnknownRow]]
    /\ Goto(w, "pad")
    /\ UNCHANGED <<meta, table, rc>>

\* The commit is a test and an assignment, not an atomic maximum.
Test(w) ==
    /\ At(w, "test")
    /\ Goto(w, IF frame[w].top >= npoints THEN "commit" ELSE "reply")
    /\ UNCHANGED <<meta, table, frame, rc>>

CommitIndex(w) ==   \* mutant: the index is taken for the count
    /\ At(w, "commit")
    /\ npoints' = frame[w].top
    /\ Goto(w, "reply")
    /\ UNCHANGED <<start_time, table, frame, rc>>

Commit(w) ==
    /\ At(w, "commit")
    /\ npoints' = frame[w].top + 1
    /\ Goto(w, "reply")
    /\ UNCHANGED <<start_time, table, frame, rc>>

Reply(w) ==
    /\ At(w, "reply")
    /\ Return(w, "ok")
    /\ UNCHANGED <<meta, table>>

WriterStep(w) ==
    \/ CheckEmpty(w) \/ SetStart(w) \/ Refuse(w) \/ Locate(w) \/ ReadSize(w)
    \/ Pad(w) \/ Probe(w) \/ Reread(w) \/ Write(w) \/ Decimate(w)
    \/ Test(w) \/ Commit(w) \/ Reply(w)

-----------------------------------------------------------------------------
(* Reading: the redirect to the latest slot, and the values of one slot.       *)

NoLatest(r) ==
    /\ At(r, "idle")
    /\ npoints = 0
    /\ Return(r, "empty")
    /\ UNCHANGED <<meta, table>>

GetLatestBeyond(r) ==   \* mutant: the count is taken for the last index
    /\ At(r, "idle")
    /\ npoints # 0
    /\ frame' = [frame EXCEPT ![r].top = npoints]
    /\ Goto(r, "stamp")
    /\ rc' = [rc EXCEPT ![r] = "pending"]
    /\ UNCHANGED <<meta, table>>

GetLatest(r) ==
    /\ At(r, "idle")
    /\ npoints # 0
    /\ frame' = [frame EXCEPT ![r].top = npoints - 1]
    /\ Goto(r, "stamp")
    /\ rc' = [rc EXCEPT ![r] = "pending"]
    /\ UNCHANGED <<meta, table>>

\* The client follows the redirect.
Redirect(r) ==
    /\ At(r, "stamp")
    /\ frame' = [frame EXCEPT ![r].time = start_time + frame[r].top * Interval]
    /\ Goto(r, "seek")
    /\ rc' = [rc EXCEPT ![r] = "redirected"]
    /\ UNCHANGED <<meta, table>>

GetValues(r, t) ==
    /\ At(r, "idle")
    /\ Goto(r, "seek")
    /\ frame' = [frame EXCEPT ![r].time = t]
    /\ rc' = [rc EXCEPT ![r] = "pending"]
    /\ UNCHANGED <<meta, table>>

TooOld(r) ==
    /\ At(r, "seek")
    /\ frame[r].time < start_time
    /\ Return(r, "past")
    /\ UNCHANGED <<meta, table>>

Seek(r) ==
    /\ At(r, "seek")
    /\ frame[r].time >= start_time
    /\ LET p == (RoundDown(frame[r].time) - start_time) \div Interval
       IN  frame' = [frame EXCEPT ![r].point = p]
    /\ Goto(r, "bound")
    /\ UNCHANGED <<meta, table, rc>>

TooNew(r) ==
    /\ At(r, "bound")
    /\ frame[r].point >= npoints
    /\ Return(r, "future")
    /\ UNCHANGED <<meta, table>>

BoundInclusive(r) ==   \* mutant: the slot after the last one passes
    /\ At(r, "bound")
    /\ frame[r].point <= npoints
    /\ Goto(r, "fetch")
    /\ UNCHANGED <<meta, table, frame, rc>>

Bound(r) ==
    /\ At(r, "bound")
    /\ frame[r].point < npoints
    /\ Goto(r, "fetch")
    /\ UNCHANGED <<meta, table, frame, rc>>

\* A read that meets the end of the file is not an error: the reply is then made
\* of whatever the caller's buffer held.
Fetch(r) ==
    /\ At(r, "fetch")
    /\ frame[r].time = RoundDown(frame[r].time)
    /\ Return(r, IF frame[r].point < Len(table[0]) THEN "ok" ELSE "short")
    /\ UNCHANGED <<meta, table>>

\* A time between two slots: what was read is dropped and the client is sent to
\* the slot the time was rounded down to.
FetchRounded(r) ==
    /\ At(r, "fetch")
    /\ frame[r].time # RoundDown(frame[r].time)
    /\ frame' = [frame EXCEPT ![r].time = RoundDown(frame[r].time)]
    /\ Goto(r, "seek")
    /\ rc' = [rc EXCEPT ![r] = "rounded"]
    /\ UNCHANGED <<meta, table>>

ReaderStep(r) ==
    \/ Redirect(r) \/ TooOld(r) \/ Seek(r) \/ TooNew(r) \/ Bound(r)
    \/ Fetch(r) \/ FetchRounded(r)

-----------------------------------------------------------------------------
(* Faults.                                                                     *)

\* The process is killed and restarted.  What was written is in the page cache
\* or in the mapped page and survives; the requests and their threads do not.
Crash ==
    /\ "crash" \in Faults
    /\ pc' = [t \in Threads |-> "idle"]
    /\ frame' = [t \in Threads |-> NoFrame]
    /\ rc' = [t \in Threads |-> IF pc[t] = "idle" THEN rc[t] ELSE "lost"]
    /\ UNCHANGED <<meta, table>>

MakesCall(w) ==
    \/ At(w, "pad") /\ frame[w].point > frame[w].npoints
    \/ pc[w] \in {"reread", "write", "decimate"}

\* A call fails at the top layer, and with it the request.
FailTop(w) ==
    /\ "io" \in Faults
    /\ MakesCall(w)
    /\ frame[w].layer = 0
    /\ Return(w, "error")
    /\ UNCHANGED <<meta, table>>

\* A call fails below the top layer: the caller ignores the return code and the
\* request goes on to its commit.
FailBelow(w) ==
    /\ "io" \in Faults
    /\ MakesCall(w)
    /\ frame[w].layer > 0
    /\ Goto(w, "test")
    /\ UNCHANGED <<meta, table, frame, rc>>

FailFetch(r) ==
    /\ "io" \in Faults
    /\ At(r, "fetch")
    /\ Return(r, "error")
    /\ UNCHANGED <<meta, table>>

Next ==
    \/ \E w \in Writers :
          \/ \E t \in Times, v \in PostedRow : Post(w, t, v)
          \/ WriterStep(w)
          \/ FailTop(w)
          \/ FailBelow(w)
    \/ \E r \in Readers :
          \/ NoLatest(r)
          \/ GetLatest(r)
          \/ \E t \in Times : GetValues(r, t)
          \/ ReaderStep(r)
          \/ FailFetch(r)
    \/ Crash

\* A thread is scheduled until it has answered its request.
Fairness ==
    /\ \A w \in Writers : WF_vars(WriterStep(w))
    /\ \A r \in Readers : WF_vars(ReaderStep(r))

Spec == Init /\ [][Next]_vars /\ Fairness

-----------------------------------------------------------------------------
(* Properties.                                                                 *)

Labels == {"idle", "check", "start", "locate", "size", "pad", "probe", "reread",
           "write", "decimate", "test", "commit", "reply",
           "stamp", "seek", "bound", "fetch"}

Outcomes == {"none", "pending", "redirected", "rounded", "ok", "past", "future", "empty",
             "short", "error", "lost"}

\* Every variable, and every local of a handler, stays in its type.
TypeOK ==
    /\ npoints \in Nat
    /\ start_time \in Nat
    /\ table \in [Layers -> Seq(Row)]
    /\ pc \in [Threads -> Labels]
    /\ frame \in [Threads -> Frame]
    /\ rc \in [Threads -> Outcomes]

\* A reader that passed the bounds checks of tsdb_get_values never meets the end
\* of the table, whatever other threads, failures and restarts do in between: the
\* unchecked length of its read never leaves stale memory in the reply.
NoShortRead == \A t \in Threads : rc[t] # "short"

\* The number of rows of each layer that npoints rows of the top one are
\* downsampled into.
RowsFor[l \in Layers] == IF l = 0 THEN npoints ELSE Ceil(RowsFor[l-1], Decimation[l-1])

\* No layer is ever shorter than the committed count calls for: the commit comes
\* after the writes to every layer, also when posts race and the process dies
\* (as long as no call fails).
LayersBacked == \A l \in Layers : Len(table[l]) >= RowsFor[l]

\* Nobody is between the first write of an update and the last one.
Quiet == \A w \in Writers :
    pc[w] \in {"idle", "check", "start", "locate", "size", "test", "commit", "reply"}

\* No write starts beyond the end of its table, also when posts race and the process
\* dies: a hole would read as 0.0, a value that nobody posted (as long as no call fails).
NoHoles == \A w \in Writers : LET f == frame[w] IN
    /\ At(w, "pad") /\ f.point > f.npoints => f.npoints <= Len(table[f.layer])
    /\ At(w, "write") => f.point <= Len(table[f.layer])

\* No layer lags behind the count, and none is written to beyond its end.
NoLayerLags == LayersBacked /\ NoHoles

\* The rows of the layers that a slot is downsampled into.
Path(top) == LET index[l \in Layers] == IF l = 0 THEN top ELSE index[l-1] \div Decimation[l-1]
             IN  index

\* One post at a time, and kills: whatever a killed post left in the layers, the next
\* post that completes makes every row on its way down the downsampling of its block
\* again (a metric that its block does not know keeps its value).
PathRepaired ==
    \A w \in Writers : At(w, "reply") =>
        \A l \in 0..LastLayer-1, m \in Metrics :
            LET j == Path(frame[w].top)[l + 1]
            IN  Downsampled(l, j)[m] \in {Cell(l + 1, j)[m], NaN}

\* A slot keeps its time: once a row counts, the grid never moves again, whatever is
\* killed between the two assignments of a first post (with one posting connection).
GridFixed == [][npoints # 0 => start_time' = start_time]_vars

\* One post at a time and no failure: every row of every lower layer is the
\* downsampling of exactly its block of the layer above, and no layer has a row
\* too few or too many, for every order of posting, gaps and overwrites included.
LayersConsistent ==
    Quiet => \A l \in 0..LastLayer-1 :
        /\ Len(table[l + 1]) = Ceil(Len(table[l]), Decimation[l])
        /\ \A j \in 0..Len(table[l + 1])-1 : Cell(l + 1, j) = Downsampled(l, j)

\* Nobody is inside a handler.
Idle == \A t \in Threads : pc[t] = "idle"

\* npoints is the number of points found in the top-level table (tsdb.h:120).
CountIsTableSize == Idle => Len(table[0]) = npoints

\* A redirect to the latest slot leads to that slot: the client that follows it,
\* however much later, is not told that the slot is in the past or in the future.
LatestReachable ==
    [][\A r \in Readers :
          rc[r] = "redirected" /\ rc'[r] # rc[r] => rc'[r] \in {"ok", "error", "lost"}]_vars

\* A value once committed stays known until another known value replaces it: a
\* NaN in a later post leaves the value in place (tsdb.h:197-199).
KnownStaysKnown ==
    [][\A k \in 1..npoints, m \in Metrics :
          k <= Len(table[0]) /\ table[0][k][m] # NaN =>
              k <= npoints' /\ table'[0][k][m] # NaN]_vars

-----------------------------------------------------------------------------
(* The refinement: the committed prefix of the top-level table is the series.  *)

TookEffect(w) ==
    \/ pc[w] = "reply"
    \/ /\ frame[w].top < npoints
       /\ pc[w] \in {"decimate", "test"} \/ frame[w].layer > 0

Committed == SubSeq(table[0], 1, npoints)

FirstSlot == IF npoints = 0 THEN 0 - 1 ELSE start_time

Stage(w) == IF At(w, "idle") THEN "none" ELSE IF TookEffect(w) THEN "done" ELSE "asked"

Posting == [w \in Writers |->
    [stage |-> Stage(w), slot |-> frame[w].time, values |-> frame[w].posted]]

Answered == [w \in Writers |->
    CASE rc[w] \in {"none", "pending"} -> "none"
      [] rc[w] \in {"error", "lost"}   -> "failed"
      [] OTHER                         -> rc[w]]

Abstract == INSTANCE TimeSeries WITH
    NoTime <- 0 - 1, series <- Committed, first <- FirstSlot, request <- Posting,
    reply  <- Answered

\* The engine implements the abstract time series, with one connection that posts,
\* through crashes and failing calls: a post takes effect at once and whole, an
\* acknowledged post took effect, and every post is answered.
ImplementsTimeSeries == Abstract!Spec
=============================================================================
