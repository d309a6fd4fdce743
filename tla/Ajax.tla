-------------------------------- MODULE Ajax --------------------------------
(* jQuery.ajax with its XMLHttpRequest transport (jquery.js 6408-6782,             *)
(* 7196-7412): requests of the page, answers, timeouts and aborts.  One thread;    *)
(* wherever the library calls functions of the page, these may do whatever the     *)
(* page may do, nested in the call, and may throw.  What is active is a stack of    *)
(* calls of ajax, of done, and of a synchronous send.                             *)
EXTENDS Integers, Sequences, SequencesExt, FiniteSets

CONSTANTS Requests,
          Settings  \* [global, timeout, async : BOOLEAN]

VARIABLES s,          \* the settings of each request that was made
          state,      \* of each: -1 before ajax is called, 0 before it is sent, 1 then, 2 done
          transport,  \* "none" yet, "ready", "gone"
          xhr,        \* "none", "open", "closed"
          callback,   \* it listens to its xhr
          handle,     \* its listener is in xhrCallbacks
          timeoutTimer,
          installed,  \* the callbacks of its settings are on its deferreds
          settled, completed,  \* its two deferreds
          active,     \* jQuery.active
          stack,
          gone,       \* the page was left
          ends,       \* history: how often each was done
          busy,       \* history: ajaxStart events not followed by an ajaxStop
          threw, abortedAtSend  \* history: a function threw, or aborted a request in its ajaxSend

one      == <<s, state, transport, installed>>
wire     == <<xhr, callback, handle, timeoutTimer>>
outcomes == <<settled, completed>>
history  == <<ends, busy, threw, abortedAtSend>>
vars     == <<one, wire, outcomes, active, stack, gone, history>>

NoSettings == [global |-> FALSE, timeout |-> FALSE, async |-> TRUE]

For(x) == [r \in Requests |-> x]

Init ==
    /\ s = For(NoSettings) /\ state = For(-1) /\ transport = For("none") /\ installed = For(FALSE)
    /\ xhr = For("none") /\ callback = For(FALSE) /\ handle = For(FALSE) /\ timeoutTimer = For(FALSE)
    /\ settled = For("no") /\ completed = For(FALSE)
    /\ active = 0 /\ stack = <<>> /\ gone = FALSE
    /\ ends = For(0) /\ busy = 0 /\ threw = FALSE /\ abortedAtSend = FALSE

\* A call of a request and where it is: at a place where functions of the page run, if
\* there are any.
At(r, at, code) == [r |-> r, at |-> at, code |-> code]

top  == Last(stack)
rest == Front(stack)

PageRuns == ~gone /\ (stack # <<>> => top.code)
IsAt(at) == stack # <<>> /\ top.at = at

Set(f, r, x) == f' = [f EXCEPT ![r] = x]

-----------------------------------------------------------------------------
(* done: the request is over.  Its deferred is settled, the global event, complete  *)
(* and its event follow, and then the counter of active requests.                 *)

Over(r, outcome, below) ==
    /\ Set(state, r, 2) /\ Set(transport, r, "gone") /\ Set(timeoutTimer, r, FALSE)
    /\ Set(ends, r, ends[r] + 1)
    /\ settled' = IF settled[r] = "no" THEN [settled EXCEPT ![r] = outcome] ELSE settled
    /\ stack' = Append(below, At(r, "settle", settled[r] = "no" /\ installed[r]))

OverAgain(r, outcome, below) == Over(r, outcome, below)   \* mutant: not only once

done(r, outcome, below) ==
    IF state[r] = 2
    THEN stack' = below /\ UNCHANGED <<state, transport, timeoutTimer, ends, settled>>
    ELSE Over(r, outcome, below)

AfterSettle ==
    /\ IsAt("settle")
    /\ stack' = Append(rest, At(top.r, "event", s[top.r].global))
    /\ UNCHANGED <<one, wire, outcomes, active, gone, history>>

AfterEvent ==
    /\ IsAt("event")
    /\ Set(completed, top.r, TRUE)
    /\ stack' = Append(rest, At(top.r, "complete", ~completed[top.r] /\ installed[top.r]))
    /\ UNCHANGED <<one, wire, settled, active, gone, history>>

AfterComplete ==
    /\ IsAt("complete")
    /\ stack' = IF s[top.r].global THEN Append(rest, At(top.r, "ajaxComplete", TRUE)) ELSE rest
    /\ UNCHANGED <<one, wire, outcomes, active, gone, history>>

AfterAjaxComplete ==
    /\ IsAt("ajaxComplete")
    /\ active' = active - 1
    /\ busy' = IF active = 1 THEN busy - 1 ELSE busy
    /\ stack' = Append(rest, At(top.r, "stop", active = 1))
    /\ UNCHANGED <<one, wire, outcomes, gone, ends, threw, abortedAtSend>>

Leave ==
    /\ IsAt("stop") \/ IsAt("send")
    /\ stack' = rest
    /\ UNCHANGED <<one, wire, outcomes, active, gone, history>>

-----------------------------------------------------------------------------
(* ajax.                                                                       *)

ajax(r, settings) ==
    /\ PageRuns /\ state[r] = -1
    /\ LET first == settings.global /\ active = 0
       IN  /\ active' = IF settings.global THEN active + 1 ELSE active
           /\ busy' = IF first THEN busy + 1 ELSE busy
           /\ stack' = Append(stack, At(r, "start", first))
    /\ Set(s, r, settings) /\ Set(state, r, 0)
    /\ UNCHANGED <<transport, installed, wire, outcomes, gone, ends, threw, abortedAtSend>>

AfterStart ==
    /\ IsAt("start")
    /\ stack' = Append(rest, At(top.r, "beforeSend", TRUE))
    /\ UNCHANGED <<one, wire, outcomes, active, gone, history>>

\* beforeSend says no, or has aborted the request.
Refused ==
    /\ IsAt("beforeSend")
    /\ done(top.r, "error", rest)
    /\ UNCHANGED <<s, installed, xhr, callback, handle, completed, active, gone, busy, threw, abortedAtSend>>

AfterBeforeSend ==
    /\ IsAt("beforeSend") /\ state[top.r] # 2
    /\ Set(installed, top.r, TRUE) /\ Set(transport, top.r, "ready")
    /\ stack' = Append(rest, At(top.r, "ajaxSend", s[top.r].global))
    /\ UNCHANGED <<s, state, wire, outcomes, active, gone, history>>

Send ==
    /\ IsAt("ajaxSend") /\ transport[top.r] = "ready" /\ s[top.r].async
    /\ Set(state, top.r, 1) /\ Set(timeoutTimer, top.r, s[top.r].timeout)
    /\ Set(xhr, top.r, "open") /\ Set(callback, top.r, TRUE) /\ Set(handle, top.r, TRUE)
    /\ stack' = rest
    /\ UNCHANGED <<s, transport, installed, outcomes, active, gone, history>>

\* The answer is there when send returns, and its functions run within the try of ajax.
SendSync(outcome) ==
    /\ IsAt("ajaxSend") /\ transport[top.r] = "ready" /\ ~s[top.r].async
    /\ Over(top.r, outcome, Append(rest, At(top.r, "send", FALSE)))
    /\ Set(xhr, top.r, "closed")
    /\ UNCHANGED <<s, installed, callback, handle, completed, active, gone, busy, threw, abortedAtSend>>

\* The request was aborted in ajaxSend: there is no transport any more, and the exception
\* that this causes has it done again.
SendAborted ==
    /\ IsAt("ajaxSend") /\ transport[top.r] = "gone"
    /\ Over(top.r, "error", rest)
    /\ UNCHANGED <<s, installed, xhr, callback, handle, completed, active, gone, busy, threw, abortedAtSend>>

-----------------------------------------------------------------------------
(* The transport, and what ends a request.                                       *)

\* The listener is called for the last time and leaves xhrCallbacks.
Close(closing) ==
    /\ xhr' = [r \in Requests |-> IF r \in closing THEN "closed" ELSE xhr[r]]
    /\ callback' = [r \in Requests |-> callback[r] /\ r \notin closing]
    /\ handle' = [r \in Requests |-> handle[r] /\ r \notin closing]

abort(r) ==
    /\ Close(IF transport[r] = "ready" /\ callback[r] THEN {r} ELSE {})
    /\ done(r, "error", stack)
    /\ UNCHANGED <<s, installed, completed, active, gone, busy, threw>>

\* A function of the page aborts a request that it has been given.
Abort(r) ==
    /\ PageRuns /\ state[r] # -1
    /\ \A n \in DOMAIN stack : stack[n].r = r => stack[n].at # "start"
    /\ abort(r)
    /\ abortedAtSend' = (abortedAtSend \/ \E n \in DOMAIN stack : stack[n].r = r /\ stack[n].at = "ajaxSend")

Timeout(r) ==
    /\ ~gone /\ stack = <<>> /\ timeoutTimer[r]
    /\ Close(IF transport[r] = "ready" /\ callback[r] THEN {r} ELSE {})
    /\ IF state[r] = 2
       THEN Set(timeoutTimer, r, FALSE) /\ UNCHANGED <<state, transport, ends, settled, stack>>
       ELSE Over(r, "error", stack)
    /\ UNCHANGED <<s, installed, completed, active, gone, busy, threw, abortedAtSend>>

Answer(r, outcome) ==
    /\ ~gone /\ stack = <<>> /\ callback[r]
    /\ Close({r})
    /\ done(r, outcome, stack)
    /\ UNCHANGED <<s, installed, completed, active, gone, busy, threw, abortedAtSend>>

Unload ==
    /\ ~gone /\ stack = <<>>
    /\ gone' = TRUE
    /\ Close({r \in Requests : handle[r]})
    /\ UNCHANGED <<one, timeoutTimer, outcomes, active, stack, history>>

\* An exception goes to the caller outside, to a function of the page that has a try,
\* or into the catch of ajax, which finds the synchronous request done.
Throw(depth) ==
    /\ stack # <<>> /\ PageRuns
    /\ depth # 0 => stack[depth].code \/ stack[depth].at = "send"
    /\ \A n \in depth + 1..Len(stack) : stack[n].at # "send"
    /\ stack' = SubSeq(stack, 1, depth)
    /\ threw' = TRUE
    /\ UNCHANGED <<one, wire, outcomes, active, gone, ends, busy, abortedAtSend>>

-----------------------------------------------------------------------------

Library ==
    \/ AfterStart \/ Refused \/ AfterBeforeSend
    \/ Send \/ (\E o \in {"success", "error"} : SendSync(o)) \/ SendAborted
    \/ AfterSettle \/ AfterEvent \/ AfterComplete \/ AfterAjaxComplete \/ Leave

Page ==
    \/ \E r \in Requests : \/ \E settings \in Settings : ajax(r, settings)
                           \/ Abort(r)
    \/ \E depth \in 0..Len(stack) - 1 : Throw(depth)

Browser ==
    \/ \E r \in Requests : \/ \E o \in {"success", "error"} : Answer(r, o)
                           \/ Timeout(r)
    \/ Unload

Next == Library \/ Page \/ Browser

\* Functions of the page return, and timers come; nothing is assumed of the server.
Spec == Init /\ [][Next]_vars /\ WF_vars(Library) /\ \A r \in Requests : WF_vars(Timeout(r))

-----------------------------------------------------------------------------
(* Properties.                                                                 *)

\* A request is over once: of an answer, its timeout, aborts from anywhere and the
\* catch around send, in whatever order, one takes effect.  (One that is aborted in the
\* event ajaxSend is done twice.)
EndsOnce == ~abortedAtSend => \A r \in Requests : ends[r] <= 1

\* The counter tells how many requests are under way, or all of the rest hangs: no
\* later request would trigger ajaxStart.  (A function that throws keeps it up.)
ActiveIsRight ==
    stack = <<>> /\ ~threw /\ ~abortedAtSend =>
        active = Cardinality({r \in Requests : state[r] = 1 /\ s[r].global})

\* ajaxStart and ajaxStop alternate, and between them is at least one request.
StartsAndStops ==
    ~threw /\ ~abortedAtSend => busy \in {0, 1} /\ (stack = <<>> => busy = (IF active > 0 THEN 1 ELSE 0))

\* An open connection has its listener, which is in the table that the unloading of the
\* page goes through, and its request is not over: none is left open or listening.
NoneLeftOpen ==
    \A r \in Requests : /\ (xhr[r] = "open") = callback[r]
                        /\ callback[r] = handle[r]
                        /\ callback[r] => state[r] = 1

UnderWay(r) == state[r] = 1 /\ s[r].timeout /\ s[r].async
Ended(r)    == completed[r] \/ threw \/ gone

\* A request with a timeout comes to an end, whatever the server does, and its complete
\* is called, unless a function threw or the page was left.
Completes ==
    \A r \in Requests : UnderWay(r) ~> Ended(r)
=============================================================================
