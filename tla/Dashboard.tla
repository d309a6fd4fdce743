----------------------------- MODULE Dashboard -----------------------------
(* The page that shows a node (bandwidth.js): every poll asks for the series of the  *)
(* last hours and for the latest values, which the server answers with a redirect   *)
(* to the time of its latest row (Requests.tla).  Answers come in any order, or not *)
(* at all: a request that fails is not looked at again.                             *)
EXTENDS Integers, FiniteSets

CONSTANTS MaxRows,    \* bound: rows the node gets
          MaxOpen,    \* bound: requests of the page that are under way
          MaxFails    \* bound: requests that are lost

VARIABLES fails,
          rows,       \* how many rows the node has: the time of the latest, 0 with none
          interval,   \* the page polls
          open,       \* requests: what for, when asked, and what they are answered with
          shown       \* on the page, [at, asked] for the graph and for the values

vars == <<fails, rows, interval, open, shown>>

Kinds   == {"series", "values"}
Nothing == [at |-> 0, asked |-> 0]

Init ==
    /\ fails = 0 /\ rows \in {0, 1}
    /\ interval = FALSE
    /\ open = {}
    /\ shown = [k \in Kinds |-> Nothing]

-----------------------------------------------------------------------------

\* The time is that of the latest row: a poll can ask for no more.
Ask(kind) == [kind |-> kind, asked |-> rows, step |-> "sent", at |-> 0]

get_current == open' = open \union {Ask("series"), Ask("values")}

\* $(document).ready: the first poll, and the timer of the others.
Ready ==
    /\ ~interval
    /\ interval' = TRUE
    /\ get_current
    /\ UNCHANGED <<fails, rows, shown>>

Poll ==
    /\ interval /\ Cardinality(open) + 2 <= MaxOpen
    /\ get_current
    /\ UNCHANGED <<fails, rows, interval, shown>>

\* A row is posted to the node.
Post ==
    /\ rows < MaxRows
    /\ rows' = rows + 1
    /\ UNCHANGED <<fails, interval, open, shown>>

Told(request, step, at) == [kind |-> request.kind, asked |-> request.asked, step |-> step, at |-> at]

\* A bug: the redirect comes from the browser's memory once there was one.
AnswerRemembered(request) ==
    /\ request \in open /\ request.step = "sent"
    /\ LET latest   == IF shown["values"].at > 0 THEN shown["values"].at ELSE rows
           answered == IF request.kind = "series" THEN Told(request, "answered", request.asked)
                       ELSE Told(request, "redirected", latest)
       IN  open' = (open \ {request}) \union (IF rows = 0 THEN {} ELSE {answered})
    /\ UNCHANGED <<fails, rows, interval, shown>>

\* The series ends where the poll asked it to; a node without rows is refused, and no more is heard.
Answer(request) ==
    /\ request \in open /\ request.step = "sent"
    /\ LET answered == IF request.kind = "series" THEN Told(request, "answered", request.asked)
                       ELSE Told(request, "redirected", rows)
       IN  open' = (open \ {request}) \union (IF rows = 0 THEN {} ELSE {answered})
    /\ UNCHANGED <<fails, rows, interval, shown>>

\* The browser asks again, for the row of the time it was sent to.
Follow(request) ==
    /\ request \in open /\ request.step = "redirected"
    /\ open' = (open \ {request}) \union {[request EXCEPT !.step = "answered"]}
    /\ UNCHANGED <<fails, rows, interval, shown>>

\* onDataReceived: whichever answer comes last is what is shown.
Show(request) ==
    /\ request \in open /\ request.step = "answered"
    /\ open' = open \ {request}
    /\ shown' = [shown EXCEPT ![request.kind] = [at |-> request.at, asked |-> request.asked]]
    /\ UNCHANGED <<fails, rows, interval>>

Fail(request) ==
    /\ request \in open /\ fails < MaxFails
    /\ open' = open \ {request}
    /\ fails' = fails + 1
    /\ UNCHANGED <<rows, interval, shown>>

Next ==
    \/ Ready \/ Poll \/ Post
    \/ \E request \in open : Answer(request) \/ Follow(request) \/ Show(request) \/ Fail(request)

Of(kind, asked) == {request \in open : request.kind = kind /\ request.asked = asked}

Answers(kind, asked) == \E request \in Of(kind, asked) : Answer(request)
Follows(asked)       == \E request \in Of("values", asked) : Follow(request)
Shows(kind, asked)   == \E request \in Of(kind, asked) : Show(request)

\* The page goes on polling, and the polls of any one time do not wait for ever.
Fairness ==
    /\ WF_vars(Ready) /\ SF_vars(Poll)
    /\ \A kind \in Kinds, asked \in 0..MaxRows : WF_vars(Answers(kind, asked)) /\ WF_vars(Shows(kind, asked))
    /\ \A asked \in 0..MaxRows : WF_vars(Follows(asked))

Spec == Init /\ [][Next]_vars /\ Fairness

-----------------------------------------------------------------------------
\* The values shown are no older than the poll that brought them, and the graph ends at that
\* poll; either may be older than what was shown before, as answers pass each other.
AsFreshAsAsked ==
    /\ shown["values"].asked <= shown["values"].at /\ shown["values"].at <= rows
    /\ shown["series"].at = shown["series"].asked

UpToDate == rows > 0 => shown["values"].at = rows /\ shown["series"].at = rows

\* Once no more rows come, the page shows the latest for good: the answers of the polls from
\* before run out, and no later one can be older (get_current, setInterval).
CatchesUp == <>[]UpToDate
=============================================================================
