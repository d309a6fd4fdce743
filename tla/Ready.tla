------------------------------- MODULE Ready -------------------------------
(* The start of the page: $(f), the browser's events that jQuery.ready waits for, *)
(* those who hold it back, and the event "ready" (jquery.js 266-274, 396-475,      *)
(* 1047-1058).  The list of functions is a simple deferred.  Functions that run    *)
(* may do all the page may do, nested in the call that runs them, and may throw.  *)
EXTENDS Integers, Sequences, SequencesExt

CONSTANTS Functions,  \* what the page registers with $(f)
          Handlers,   \* what it binds to the event "ready"
          Holders,    \* those who hold ready back for a while, each once
          None

VARIABLES document,   \* "loading", "interactive" or "complete"
          body,       \* the document has one
          listening,  \* jQuery.ready listens to the browser's events
          timers,     \* calls of jQuery.ready that are due
          isReady, readyWait, readyBound,
          readyList, fired,   \* functions to call, and whether the list has fired
          handlers,   \* bound to "ready"
          stack,      \* the calls that are active: the list that fires, the event that is triggered
          holding, freed,            \* holders that hold it, or did
          added, bound, ran, early,  \* history: functions added, handlers bound, calls, who held at the first
          thrown                     \* history

browser == <<document, body, listening, timers>>
flags   == <<isReady, readyWait, readyBound>>
holders == <<holding, freed>>
history == <<added, bound, ran, early, thrown>>
vars    == <<browser, flags, readyList, fired, handlers, stack, holders, history>>

Init ==
    /\ document = "loading" /\ body = FALSE /\ listening = FALSE /\ timers = 0
    /\ isReady = FALSE /\ readyWait = 1 /\ readyBound = FALSE
    /\ readyList = <<>> /\ fired = FALSE /\ handlers = <<>>
    /\ stack = <<>>
    /\ holding = {} /\ freed = {}
    /\ added = <<>> /\ bound = {} /\ ran = <<>> /\ early = {} /\ thrown = FALSE

-----------------------------------------------------------------------------
(* jQuery.ready.  `below` is the stack it is called from, `due` the calls that    *)
(* remain due.                                                                 *)

Drain(trigger) == [is |-> "drain", todo |-> <<>>, trigger |-> trigger, calls |-> None]
Trigger        == [is |-> "event", todo |-> handlers, trigger |-> FALSE, calls |-> None]

IsFiring == \E n \in DOMAIN stack : stack[n].is = "drain"

GoWhenReady(wait, left) == left = 0 \/ ~wait   \* mutant: no test of isReady

Go(wait, left) == left = 0 \/ (~wait /\ ~isReady)

\* A holder that lets go passes wait; the browser's events and timers do not.
ready(wait, below, due) ==
    LET left    == IF wait THEN readyWait - 1 ELSE readyWait
        counted == IF wait THEN left ELSE left - 1
    IN  CASE ~Go(wait, left) ->
                readyWait' = left /\ timers' = due /\ stack' = below /\ UNCHANGED isReady
          [] Go(wait, left) /\ ~body ->
                readyWait' = left /\ timers' = due + 1 /\ stack' = below /\ UNCHANGED isReady
          [] Go(wait, left) /\ body ->
                /\ isReady' = TRUE
                /\ readyWait' = counted
                /\ stack' = IF ~wait /\ counted > 0 THEN below
                            ELSE Append(below, IF fired \/ IsFiring THEN Trigger ELSE Drain(TRUE))
                /\ timers' = due

bindListening ==   \* mutant: a document that is loaded already is not thought of
    IF readyBound
    THEN UNCHANGED <<readyBound, listening, timers>>
    ELSE readyBound' = TRUE /\ listening' = TRUE /\ UNCHANGED timers

bindReady ==
    IF readyBound
    THEN UNCHANGED <<readyBound, listening, timers>>
    ELSE /\ readyBound' = TRUE
         /\ IF document = "complete"
            THEN timers' = timers + 1 /\ UNCHANGED listening
            ELSE listening' = TRUE /\ UNCHANGED timers

-----------------------------------------------------------------------------
(* The page: its scripts, or a function that the library calls.                    *)

top  == Last(stack)
rest == Front(stack)

PageRuns == stack # <<>> => top.calls # None

\* $(f): a list that has fired fires again.
Register(f) ==
    /\ PageRuns /\ ~Contains(added, f)
    /\ bindReady
    /\ readyList' = Append(readyList, f) /\ added' = Append(added, f)
    /\ fired' = FALSE
    /\ stack' = IF fired THEN Append(stack, Drain(FALSE)) ELSE stack
    /\ UNCHANGED <<document, body, isReady, readyWait, handlers, holders, bound, ran, early, thrown>>

\* $(document).bind("ready", h)
Bind(h) ==
    /\ PageRuns /\ h \notin bound
    /\ bindReady
    /\ handlers' = Append(handlers, h) /\ bound' = bound \union {h}
    /\ UNCHANGED <<document, body, isReady, readyWait, readyList, fired, stack, holders, added, ran, early, thrown>>

Hold(o) ==
    /\ PageRuns /\ o \notin holding \union freed
    /\ readyWait' = readyWait + 1
    /\ holding' = holding \union {o}
    /\ UNCHANGED <<browser, isReady, readyBound, readyList, fired, handlers, stack, freed, history>>

LetGo(o) ==
    /\ PageRuns /\ o \in holding
    /\ ready(TRUE, stack, timers)
    /\ holding' = holding \ {o} /\ freed' = freed \union {o}
    /\ UNCHANGED <<document, body, listening, readyBound, readyList, fired, handlers, history>>

Return ==
    /\ stack # <<>> /\ PageRuns
    /\ stack' = Append(rest, [top EXCEPT !.calls = None])
    /\ UNCHANGED <<browser, flags, readyList, fired, handlers, holders, history>>

Throw ==
    /\ stack # <<>> /\ PageRuns
    /\ stack' = <<>>
    /\ fired' = (fired \/ IsFiring)
    /\ thrown' = TRUE
    /\ UNCHANGED <<browser, flags, readyList, handlers, holders, added, bound, ran, early>>

-----------------------------------------------------------------------------
(* The library goes through the list, then triggers the event and unbinds it.      *)

Call(f) ==
    /\ ran' = Append(ran, f)
    /\ early' = IF ran = <<>> THEN holding ELSE early

RunFunction ==
    /\ stack # <<>> /\ top.is = "drain" /\ top.calls = None /\ readyList # <<>>
    /\ readyList' = Tail(readyList)
    /\ stack' = Append(rest, [top EXCEPT !.calls = Head(readyList)])
    /\ Call(Head(readyList))
    /\ UNCHANGED <<browser, flags, fired, handlers, holders, added, bound, thrown>>

EndOfList ==
    /\ stack # <<>> /\ top.is = "drain" /\ top.calls = None /\ readyList = <<>>
    /\ fired' = TRUE
    /\ stack' = IF top.trigger THEN Append(rest, Trigger) ELSE rest
    /\ UNCHANGED <<browser, flags, readyList, handlers, holders, history>>

RunHandler ==
    /\ stack # <<>> /\ top.is = "event" /\ top.calls = None /\ top.todo # <<>>
    /\ stack' = Append(rest, [top EXCEPT !.todo = Tail(@), !.calls = Head(top.todo)])
    /\ Call(Head(top.todo))
    /\ UNCHANGED <<browser, flags, readyList, fired, handlers, holders, added, bound, thrown>>

EndOfEvent ==
    /\ stack # <<>> /\ top.is = "event" /\ top.calls = None /\ top.todo = <<>>
    /\ handlers' = <<>>
    /\ stack' = rest
    /\ UNCHANGED <<browser, flags, readyList, fired, holders, history>>

-----------------------------------------------------------------------------
(* The browser, when no script runs.                                              *)

Parse ==
    /\ stack = <<>> /\ ~body
    /\ body' = TRUE
    /\ UNCHANGED <<document, listening, timers, flags, readyList, fired, handlers, stack, holders, history>>

\* DOMContentLoaded, then load; the body is there by then, but may be missing at the first.
Load ==
    /\ stack = <<>> /\ document # "complete"
    /\ document' = IF document = "loading" THEN "interactive" ELSE "complete"
    /\ document = "interactive" => body
    /\ IF listening THEN ready(FALSE, stack, timers) ELSE UNCHANGED <<isReady, readyWait, timers, stack>>
    /\ UNCHANGED <<body, listening, readyBound, readyList, fired, handlers, holders, history>>

Timer ==
    /\ stack = <<>> /\ timers > 0
    /\ ready(FALSE, stack, timers - 1)
    /\ UNCHANGED <<document, body, listening, readyBound, readyList, fired, handlers, holders, history>>
-----------------------------------------------------------------------------

Page ==
    \/ \E f \in Functions : Register(f)
    \/ \E h \in Handlers : Bind(h)
    \/ \E o \in Holders : Hold(o)
    \/ Throw

Runs == RunFunction \/ EndOfList \/ RunHandler \/ EndOfEvent \/ Return

Next == Page \/ (\E o \in Holders : LetGo(o)) \/ Runs \/ Parse \/ Load \/ Timer

\* Functions return, the document is loaded, timers come, and who holds lets go.
Fairness ==
    /\ WF_vars(Runs) /\ WF_vars(Parse) /\ WF_vars(Load) /\ WF_vars(Timer)
    /\ \A o \in Holders : SF_vars(LetGo(o))

Spec == Init /\ [][Next]_vars /\ Fairness

-----------------------------------------------------------------------------
\* Functions and handlers are different things.
ReadyConstants == Functions \cap Handlers = {}

-----------------------------------------------------------------------------
(* Properties.                                                                 *)

\* Nothing runs before the document is loaded and has a body, nor while anyone holds it.
NotEarly == ran # <<>> => document # "loading" /\ body /\ early = {}

\* The first n functions that were added are called at those places, and none is at another.
CalledAt(n, at) ==
    /\ \A i \in 1..n : ran[at[i]] = added[i]
    /\ \A i, j \in 1..n : i < j => at[i] < at[j]
    /\ \A k \in DOMAIN ran : ran[k] \in Functions => \E i \in 1..n : at[i] = k

\* Functions run in the order of registration and each once, whichever of the events,
\* timers and releases come, in whatever order and out of whatever function.  (A handler
\* of the event "ready" may run twice: one that holds ready and lets go triggers it again.)
EachOnce == \E n \in 0..Len(added) : \E at \in [1..n -> DOMAIN ran] : CalledAt(n, at)

Added(f)  == Contains(added, f)
Called(f) == Contains(ran, f) \/ thrown

\* Whatever is registered, before or after, in the page or in a function that runs,
\* is called in the end, unless one of the functions threw.
AllCalled == \A f \in Functions : Added(f) ~> Called(f)
=============================================================================
