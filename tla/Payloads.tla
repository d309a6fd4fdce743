------------------------------ MODULE Payloads ------------------------------
(* From the body of a request to the metadata and back: the parsers of          *)
(* http_tsdb.c 73-253, what tsdb_create stores of a node's definition, what a    *)
(* GET of the node reads out of it, and how deep a post descends into the layers *)
(* that it defines.  A parsed JSON object is a sequence of fields, an array a    *)
(* sequence of items; what is no number is NotNumber, null is Null.              *)
EXTENDS Integers, Sequences, SequencesExt

CONSTANTS NodeBodies,  \* definitions of nodes that clients send
          PostBodies,  \* posts that they send
          MaxLayers, MaxMetrics,
          Now,         \* the time of the server, in seconds
          Null, NotNumber, NaN

VARIABLES pc, body,
          params,  \* the locals of the handler
          meta,    \* the metadata page
          layer,   \* the layer tsdb_update_layer is at
          answer   \* what a GET of the node describes

vars == <<pc, body, params, meta, layer, answer>>

Modes == [pad : 0..127, ds : 0..32767]

NoParams == [interval |-> 0, metrics |-> <<>>, decimation |-> [n \in 1..MaxLayers |-> 0],
             time |-> Now, values |-> <<>>, ok |-> TRUE]
NoMeta   == [interval |-> 0, flags |-> <<>>, decimation |-> <<>>]

Init ==
    /\ \/ body \in NodeBodies /\ pc = "put"
       \/ body \in PostBodies /\ pc = "post"
    /\ params = NoParams /\ meta = NoMeta /\ layer = 0 /\ answer = NoMeta

-----------------------------------------------------------------------------
(* The parsers.  Each goes through its fields in order, and what a field before  *)
(* the one that fails has set stays set; fields of other names are skipped.      *)

Failed(p) == [p EXCEPT !.ok = FALSE]

\* The range check shifts by the mask where it means the mask.
PadLimit == 2^7 - 1
DownsampleLimit == 2^15 - 1

MetricField(m, f) ==
    CASE f.name = "pad_mode" /\ f.value \in 0..PadLimit -> [m EXCEPT !.pad = f.value]
      [] f.name = "downsample_mode" /\ f.value \in 0..DownsampleLimit -> [m EXCEPT !.ds = f.value]
      [] f.name \in {"pad_mode", "downsample_mode"} -> [m EXCEPT !.ok = FALSE]
      [] OTHER -> m

\* Each metric starts from the defaults: pad with unknown, downsample by mean.
Metric(fields) ==
    FoldLeft(LAMBDA m, f : IF m.ok THEN MetricField(m, f) ELSE m,
             [pad |-> 0, ds |-> 0, ok |-> TRUE], fields)

Metrics(p, items) ==
    LET parsed == [n \in DOMAIN items |-> Metric(items[n])]
    IN  IF Len(items) > MaxMetrics \/ \E n \in DOMAIN items : ~parsed[n].ok
        THEN Failed(p)
        ELSE [p EXCEPT !.metrics =
                 [n \in DOMAIN items |-> [pad |-> parsed[n].pad, ds |-> parsed[n].ds]]]

\* An array that is given twice and shorter the second time keeps its old tail.
Decimations(p, items) ==
    IF Len(items) > MaxLayers \/ \E n \in DOMAIN items : items[n] \notin Nat
    THEN Failed(p)
    ELSE [p EXCEPT !.decimation =
             [n \in 1..MaxLayers |-> IF n <= Len(items) THEN items[n] ELSE @[n]]]

NodeField(p, f) ==
    CASE ~p.ok                 -> p
      [] f.name = "interval"   -> IF f.value \in Nat THEN [p EXCEPT !.interval = f.value] ELSE Failed(p)
      [] f.name = "decimation" -> Decimations(p, f.value)
      [] f.name = "metrics"    -> Metrics(p, f.value)
      [] OTHER                 -> p

\* The values of a second array go behind those of the first.
PostedValues(p, items) ==
    IF Len(items) + Len(p.values) > MaxMetrics \/ \E n \in DOMAIN items : items[n] = NotNumber
    THEN Failed(p)
    ELSE [p EXCEPT !.values = @ \o [n \in DOMAIN items |-> IF items[n] = Null THEN NaN ELSE items[n]]]

\* Times come in milliseconds.  The check for times in the future is not compiled: it
\* asks for another macro than the one that http_tsdb.h defines.
PostField(p, f) ==
    CASE ~p.ok                -> p
      [] f.name = "timestamp" -> IF f.value \in Nat THEN [p EXCEPT !.time = f.value \div 1000] ELSE Failed(p)
      [] f.name = "values"    -> PostedValues(p, f.value)
      [] OTHER                -> p

-----------------------------------------------------------------------------
(* The handlers.                                                               *)

ParseNode ==
    /\ pc = "put"
    /\ params' = FoldLeft(NodeField, params, body)
    /\ pc' = IF params'.ok /\ params'.interval # 0 /\ params'.metrics # <<>> THEN "create" ELSE "refused"
    /\ UNCHANGED <<body, meta, layer, answer>>

FlagsUnshifted(m) == m.pad + m.ds * 2^4   \* mutant: the shift is the one of the mask

\* Padding mode from bit 0, downsampling mode from bit 8.
Flags(m) == m.pad + m.ds * 2^8


\* The decimations that count are those before the first zero.
Steps(d) ==
    LET n == CHOOSE n \in 0..MaxLayers :
                 /\ \A i \in 1..n : d[i] # 0
                 /\ n < MaxLayers => d[n + 1] = 0
    IN  SubSeq(d, 1, n)

Create ==
    /\ pc = "create"
    /\ meta' = [interval |-> params.interval,
                flags |-> [n \in DOMAIN params.metrics |-> Flags(params.metrics[n])],
                decimation |-> Steps(params.decimation)]
    /\ pc' = "describe"
    /\ UNCHANGED <<body, params, layer, answer>>

PadMode(flags) == flags % 2^3
DownsampleMode(flags) == (flags \div 2^8) % 2^4

Describe ==
    /\ pc = "describe"
    /\ answer' = [interval |-> meta.interval, decimation |-> meta.decimation,
                  metrics |-> [n \in DOMAIN meta.flags |->
                                  [pad |-> PadMode(meta.flags[n]), ds |-> DownsampleMode(meta.flags[n])]]]
    /\ pc' = "update"
    /\ UNCHANGED <<body, params, meta, layer>>

\* tsdb_update_layer calls itself for the next layer as long as there is a decimation
\* step; the tables of a handle are those of layers 0 to MaxLayers - 1.
Descend ==
    /\ pc = "update"
    /\ layer < Len(meta.decimation)
    /\ layer' = layer + 1
    /\ UNCHANGED <<pc, body, params, meta, answer>>

ParsePost ==
    /\ pc = "post"
    /\ params' = FoldLeft(PostField, params, body)
    /\ pc' = IF params'.ok THEN "posted" ELSE "refused"
    /\ UNCHANGED <<body, meta, layer, answer>>

Next == ParseNode \/ Create \/ Describe \/ Descend \/ ParsePost

Spec == Init /\ [][Next]_vars

-----------------------------------------------------------------------------
(* Properties.                                                                 *)

Named(name) == {n \in DOMAIN body : body[n].name = name}
Single(name) == \E n \in DOMAIN body : Named(name) = {n}
Given(name) == body[CHOOSE n \in DOMAIN body : body[n].name = name].value

\* The value that the last field of a name gives, or the default.
LastOf(fields, name, default) ==
    IF \E n \in DOMAIN fields : fields[n].name = name
    THEN fields[CHOOSE n \in DOMAIN fields :
                    /\ fields[n].name = name
                    /\ \A i \in DOMAIN fields : fields[i].name = name => i <= n].value
    ELSE default

\* A node is described as it was defined: of an accepted definition that gives each
\* field once and modes that fit their masks, a GET tells the same interval, the modes of
\* every metric, and the decimations up to the first zero.  The modes of a metric do
\* not leak into each other on the way through the flags.
DefinitionKept ==
    pc = "update" /\ Single("interval") /\ Single("metrics") /\ Single("decimation") =>
        /\ answer.interval = Given("interval")
        /\ LET d == Given("decimation")
           IN  \E n \in 0..Len(d) :
                  /\ answer.decimation = SubSeq(d, 1, n)
                  /\ n < Len(d) => d[n + 1] = 0
        /\ LET items == Given("metrics")
           IN  /\ Len(answer.metrics) = Len(items)
               /\ \A n \in DOMAIN items :
                     LET pad == LastOf(items[n], "pad_mode", 0)
                         ds  == LastOf(items[n], "downsample_mode", 0)
                     IN  /\ pad < 2^3  => answer.metrics[n].pad = pad
                         /\ ds  < 2^4  => answer.metrics[n].ds = ds

\* A post is taken as it was sent: an accepted body yields the numbers of its arrays in
\* order, unknown where it says null, never more than there is room for.
ValuesKept ==
    pc = "posted" =>
        LET sent == FlattenSeq([n \in DOMAIN body |-> IF body[n].name = "values" THEN body[n].value ELSE <<>>])
        IN  /\ Len(params.values) = Len(sent) /\ Len(sent) <= MaxMetrics
            /\ \A n \in DOMAIN sent : params.values[n] = (IF sent[n] = Null THEN NaN ELSE sent[n])
=============================================================================
