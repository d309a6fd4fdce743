----------------------------- MODULE TimeSeries -----------------------------
(* What the engine promises to the clients that post to one node: a sequence   *)
(* of rows on a fixed grid of slots, the first slot being that of the first     *)
(* post.  A post takes effect at once, on the whole series, at some moment      *)
(* between the request and its reply, and only a post that took effect is       *)
(* acknowledged.  The files, the downsampled layers and the steps of the        *)
(* handlers do not appear: Tsdb is shown to implement this.                     *)
EXTENDS Rows

CONSTANTS Writers,   \* the connections that post
          Times,     \* the timestamps a client may send
          NoTime     \* the value of first while the series is empty

VARIABLES series,    \* the rows of the series, from the first slot on
          first,     \* the time of the first slot
          request,   \* the post each writer is working on
          reply      \* the last answer each writer was given

vars == <<series, first, request, reply>>

NoRequest == [stage |-> "none", slot |-> 0, values |-> UnknownRow]

Init ==
    /\ series = <<>>
    /\ first = NoTime
    /\ request = [w \in Writers |-> NoRequest]
    /\ reply = [w \in Writers |-> "none"]

Post(w, t, v) ==
    /\ request[w].stage = "none"
    /\ request' = [request EXCEPT ![w] = [stage |-> "asked", slot |-> RoundDown(t),
                                          values |-> v]]
    /\ reply' = [reply EXCEPT ![w] = "none"]
    /\ UNCHANGED <<series, first>>

\* Put a row at an index: a row that exists is merged with, the slots between
\* the end of the series and a later index are unknown.
Recorded(s, i, v) ==
    LET Old(k) == IF k <= Len(s) THEN s[k] ELSE UnknownRow
    IN  [k \in 1..(IF i < Len(s) THEN Len(s) ELSE i + 1) |->
            IF k = i + 1 THEN Merged(Old(k), v) ELSE Old(k)]

Start(w) == IF first = NoTime THEN request[w].slot ELSE first

Record(w) ==
    /\ request[w].stage = "asked"
    /\ request[w].slot >= Start(w)
    /\ first' = Start(w)
    /\ series' = Recorded(series, (request[w].slot - Start(w)) \div Interval, request[w].values)
    /\ request' = [request EXCEPT ![w] = [stage |-> "done", slot |-> @.slot,
                                          values |-> @.values]]
    /\ UNCHANGED reply

Answer(w, answer) ==
    /\ request[w].stage # "none"
    /\ request' = [request EXCEPT ![w] = NoRequest]
    /\ reply' = [reply EXCEPT ![w] = answer]
    /\ UNCHANGED <<series, first>>

Acknowledge(w) ==
    /\ request[w].stage = "done"
    /\ Answer(w, "ok")

\* A slot before the first one is refused and changes nothing.
Refuse(w) ==
    /\ first # NoTime
    /\ request[w].slot < first
    /\ Answer(w, "past")

\* An error, or no answer at all: the post may or may not have taken effect.
Fail(w) == Answer(w, "failed")

Progress(w) == Record(w) \/ Acknowledge(w) \/ Refuse(w)

Next == \E w \in Writers :
    \/ \E t \in Times, v \in PostedRow : Post(w, t, v)
    \/ Progress(w)
    \/ Fail(w)

Safe == Init /\ [][Next]_vars

Spec == Safe /\ \A w \in Writers : WF_vars(Progress(w))
=============================================================================
