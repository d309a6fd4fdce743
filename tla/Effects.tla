------------------------------ MODULE Effects ------------------------------
(* Queues of elements and the animations in them (jquery.js 1638-1733, 7491-7646,  *)
(* 7676-7890): one interval ticks for the timers of all animations, an animation   *)
(* has a timer for each of its properties, and the end of one starts the next in    *)
(* the queue of its element and calls a function of the page, which may start and   *)
(* stop animations, or throw.  So may a function that the page has called for each *)
(* step (options.step); that it starts or stops animations is left out.            *)
EXTENDS Integers, Sequences, SequencesExt, FiniteSets

CONSTANTS Animations,  \* each is made once
          elem,        \* the element of each
          props,       \* how many properties each has
          Delays,      \* those that only wait, a timeout and no timer
          MaxCuts,     \* bound: calls of stop and clearQueue
          MaxThrown,   \* bound: nothing is thrown once it was for as many elements
          Sentinel,    \* "inprogress"
          None

VARIABLES queue,    \* of each element
          timers,   \* jQuery.timers: [a, p], an animation and its property
          timerId,  \* the interval is set
          timeouts, \* of delays
          curAnim,  \* properties of an animation that have come to their end
          stack,    \* what is active
          made, completed, again,  \* history: animations made, completed, completed twice
          cuts, reentered,         \* history: calls that cut; one of them in the middle of a loop
          lost,                    \* history: a queue in use was removed
          thrown                   \* history: elements whose work was left by an exception

history == <<made, completed, again, cuts, reentered, lost, thrown>>
vars    == <<queue, timers, timerId, timeouts, curAnim, stack, history>>

Elements == {elem[a] : a \in Animations}

Init ==
    /\ queue = [e \in Elements |-> <<>>] /\ timers = <<>> /\ timerId = FALSE /\ timeouts = {}
    /\ curAnim = [a \in Animations |-> {}] /\ stack = <<>>
    /\ made = {} /\ completed = {} /\ again = {} /\ cuts = 0 /\ reentered = FALSE
    /\ lost = FALSE /\ thrown = {}

top  == Last(stack)
rest == Front(stack)

\* Active are: a loop over timers, from i; the function that sets an animation going; the
\* end of an animation, first its dequeue, then the function of the page; and the tail of
\* a dequeue, which has an array that may not be the queue any more.
Frame(is, of, i) == [is |-> is, of |-> of, i |-> i]
Is(kind) == stack # <<>> /\ top.is = kind

PageRuns == stack # <<>> => top.is = "page"

-----------------------------------------------------------------------------
(* Queues.  The function at the head runs, behind the sentinel.  A queue that is      *)
(* empty is removed, and the next to use it makes another.                        *)

Current  == 0   \* what became of the array of a dequeue
Emptied  == 1
Replaced == 2

Marked(below, e, how) ==
    [n \in DOMAIN below |-> IF below[n] = Frame("tail", e, Current) THEN Frame("tail", e, how) ELSE below[n]]

dequeue(e, below, q) ==
    LET left == IF q # <<>> /\ Head(q) = Sentinel THEN Tail(q) ELSE q
    IN  IF left = <<>>
        THEN /\ queue' = [queue EXCEPT ![e] = <<>>]
             /\ stack' = Marked(below, e, Emptied)
        ELSE /\ queue' = [queue EXCEPT ![e] = <<Sentinel>> \o Tail(left)]
             /\ stack' = below \o <<Frame("tail", e, Current), Frame("begin", Head(left), 1)>>

\* The function has returned: an array that is empty by now takes the queue with it, though
\* that be another one.
EndOfDequeue ==
    /\ Is("tail")
    /\ queue' = IF top.i = Emptied THEN [queue EXCEPT ![top.of] = <<>>] ELSE queue
    /\ lost' = (lost \/ (top.i = Emptied /\ queue[top.of] # <<>>))
    /\ stack' = rest
    /\ UNCHANGED <<timers, timerId, timeouts, curAnim, made, completed, again, cuts, reentered, thrown>>

\* animate and delay
animate(a) ==
    /\ PageRuns /\ a \notin made
    /\ made' = made \union {a}
    /\ LET q == Append(queue[elem[a]], a)
       IN  IF Head(q) = Sentinel
           THEN queue' = [queue EXCEPT ![elem[a]] = q] /\ UNCHANGED stack
           ELSE dequeue(elem[a], stack, q)
    /\ UNCHANGED <<timers, timerId, timeouts, curAnim, completed, again, cuts, reentered, lost, thrown>>

-----------------------------------------------------------------------------
(* An animation begins: a timer for each property.  It is over at once if it hides    *)
(* what is hidden.                                                             *)

Complete(a, below) ==
    /\ stack' = Append(below, Frame("complete", a, 1))
    /\ completed' = completed \union {a}
    /\ again' = IF a \in completed THEN again \union {a} ELSE again

Nothing ==
    /\ Is("begin") /\ top.i = 1 /\ top.of \notin Delays
    /\ Complete(top.of, rest)
    /\ UNCHANGED <<queue, timers, timerId, timeouts, curAnim, made, cuts, reentered, lost, thrown>>

custom ==
    /\ Is("begin") /\ top.of \notin Delays /\ top.i <= props[top.of]
    /\ timers' = Append(timers, [a |-> top.of, p |-> top.i])
    /\ timerId' = TRUE
    /\ stack' = Append(rest, [top EXCEPT !.i = @ + 1])
    /\ UNCHANGED <<queue, timeouts, curAnim, history>>

Wait ==
    /\ Is("begin") /\ top.of \in Delays
    /\ timeouts' = timeouts \union {top.of}
    /\ stack' = rest
    /\ UNCHANGED <<queue, timers, timerId, curAnim, history>>

Begun ==
    /\ Is("begin") /\ top.of \notin Delays /\ top.i > props[top.of]
    /\ stack' = rest
    /\ UNCHANGED <<queue, timers, timerId, timeouts, curAnim, history>>

Waited(a) ==
    /\ stack = <<>> /\ a \in timeouts
    /\ timeouts' = timeouts \ {a}
    /\ dequeue(elem[a], <<>>, queue[elem[a]])
    /\ UNCHANGED <<timers, timerId, curAnim, made, completed, again, cuts, reentered, lost, thrown>>

\* complete: the next in the queue, then the function of the page.
Completed ==
    /\ Is("complete")
    /\ dequeue(elem[top.of], Append(rest, Frame("page", top.of, 1)), queue[elem[top.of]])
    /\ UNCHANGED <<timers, timerId, timeouts, curAnim, made, completed, again, cuts, reentered, lost, thrown>>

Return ==
    /\ Is("page")
    /\ stack' = rest
    /\ UNCHANGED <<queue, timers, timerId, timeouts, curAnim, history>>

\* The element that a frame is at work for.
At(frame) ==
    CASE frame.is \in {"tick", "splice"} -> {}
      [] frame.is \in {"begin", "complete", "page"} -> {elem[frame.of]}
      [] OTHER -> {frame.of}

\* Nothing catches an exception on its way: a timer that is over stays, a dequeue, a loop
\* over timers and the beginning of an animation are left where they are.
Unwind ==
    /\ Cardinality(thrown) < MaxThrown
    /\ stack' = <<>>
    /\ thrown' = thrown \union UNION {At(stack[n]) : n \in DOMAIN stack}
    /\ UNCHANGED <<queue, timers, timerId, timeouts, curAnim, made, completed, again, cuts, reentered, lost>>

Throw == Is("page") /\ Unwind

-----------------------------------------------------------------------------
(* The tick, from the first timer to the last, with those that are added meanwhile.   *)

\* The last step of a timer: when it is the last of its animation, that is complete.
step(t, below) ==
    /\ curAnim' = [curAnim EXCEPT ![t.a] = @ \union {t.p}]
    /\ IF Cardinality(curAnim'[t.a]) = props[t.a]
       THEN Complete(t.a, below)
       ELSE stack' = below /\ UNCHANGED <<completed, again>>

tick ==
    /\ stack = <<>> /\ timerId
    /\ stack' = <<Frame("tick", None, 1)>>
    /\ UNCHANGED <<queue, timers, timerId, timeouts, curAnim, history>>

StepOn ==
    /\ Is("tick") /\ top.i <= Len(timers)
    /\ stack' = Append(rest, [top EXCEPT !.i = @ + 1])
    /\ UNCHANGED <<queue, timers, timerId, timeouts, curAnim, history>>

StepLast ==
    /\ Is("tick") /\ top.i <= Len(timers)
    /\ step(timers[top.i], Append(rest, [top EXCEPT !.is = "splice"]))
    /\ UNCHANGED <<queue, timers, timerId, timeouts, made, cuts, reentered, lost, thrown>>

Without(i) == IF i \in DOMAIN timers THEN RemoveAt(timers, i) ELSE timers

SpliceNot ==   \* mutant: a timer that is over stays
    /\ Is("splice")
    /\ stack' = Append(rest, Frame("tick", None, top.i + 1))
    /\ UNCHANGED <<queue, timers, timerId, timeouts, curAnim, history>>

Splice ==
    /\ Is("splice")
    /\ timers' = Without(top.i)
    /\ stack' = Append(rest, Frame("tick", None, top.i))
    /\ UNCHANGED <<queue, timerId, timeouts, curAnim, history>>

Ticked ==
    /\ Is("tick") /\ top.i > Len(timers)
    /\ timerId' = (timers # <<>>)
    /\ stack' = rest
    /\ UNCHANGED <<queue, timers, timeouts, curAnim, history>>

-----------------------------------------------------------------------------
(* stop, from the last timer to the first, and clearQueue.                        *)

Cut ==
    /\ PageRuns /\ cuts < MaxCuts
    /\ cuts' = cuts + 1

InLoop == \E n \in DOMAIN stack : stack[n].is \in {"splice", "drop"}

\* queue(e, []): the sentinel goes too.
clearQueue(e) ==
    /\ Cut
    /\ queue' = [queue EXCEPT ![e] = <<>>]
    /\ stack' = Marked(stack, e, Replaced)
    /\ UNCHANGED <<timers, timerId, timeouts, curAnim, made, completed, again, reentered, lost, thrown>>

stop(e, clear, gotoEnd) ==
    /\ Cut
    /\ queue' = IF clear THEN [queue EXCEPT ![e] = <<>>] ELSE queue
    /\ stack' = Append(IF clear THEN Marked(stack, e, Replaced) ELSE stack,
                       Frame(IF gotoEnd THEN "end" ELSE "stop", e, Len(timers)))
    /\ reentered' = (reentered \/ InLoop)
    /\ UNCHANGED <<timers, timerId, timeouts, curAnim, made, completed, again, lost, thrown>>

Stopping == (Is("stop") \/ Is("end")) /\ top.i > 0

Concerns == top.i \in DOMAIN timers /\ elem[timers[top.i].a] = top.of

PassOver ==
    /\ Stopping /\ ~Concerns
    /\ stack' = Append(rest, [top EXCEPT !.i = @ - 1])
    /\ UNCHANGED <<queue, timers, timerId, timeouts, curAnim, history>>

ForceLast ==
    /\ Stopping /\ Is("end") /\ Concerns
    /\ step(timers[top.i], Append(rest, [top EXCEPT !.is = "drop"]))
    /\ UNCHANGED <<queue, timers, timerId, timeouts, made, cuts, reentered, lost, thrown>>

Drop ==
    /\ Is("drop") \/ (Stopping /\ Is("stop") /\ Concerns)
    /\ timers' = Without(top.i)
    /\ stack' = Append(rest, [top EXCEPT !.is = IF Is("drop") THEN "end" ELSE "stop", !.i = @ - 1])
    /\ UNCHANGED <<queue, timerId, timeouts, curAnim, history>>

\* Without gotoEnd the next in the queue begins.
Stopped ==
    /\ Is("stop") \/ Is("end")
    /\ top.i = 0
    /\ IF Is("stop")
       THEN dequeue(top.of, rest, queue[top.of])
       ELSE stack' = rest /\ UNCHANGED queue
    /\ UNCHANGED <<timers, timerId, timeouts, curAnim, made, completed, again, cuts, reentered, lost, thrown>>

\* options.step throws: in a tick, at the end that stop forces, or in the first step, before
\* its timer is there.
StepThrows ==
    /\ \/ Is("tick") /\ top.i <= Len(timers)
       \/ Stopping /\ Is("end") /\ Concerns
       \/ Is("begin") /\ top.of \notin Delays /\ top.i <= props[top.of]
    /\ Unwind

-----------------------------------------------------------------------------

Page ==
    \/ \E a \in Animations : animate(a)
    \/ \E e \in Elements : \/ clearQueue(e)
                           \/ \E clear, gotoEnd \in BOOLEAN : stop(e, clear, gotoEnd)
    \/ Return \/ Throw \/ StepThrows

Library ==
    \/ Nothing \/ custom \/ Wait \/ Begun \/ EndOfDequeue \/ Completed
    \/ StepOn \/ StepLast \/ Splice \/ Ticked
    \/ PassOver \/ ForceLast \/ Drop \/ Stopped

Next == Page \/ Library \/ tick \/ \E a \in Animations : Waited(a)

Spec == Init /\ [][Next]_vars

-----------------------------------------------------------------------------
(* Properties.  A stop that a function of the page calls when its animation ends    *)
(* reaches into the loop that called it: `reentered`.  An exception leaves the work   *)
(* of the elements it passes undone, and what was over is over again at the next tick *)
(* (the timer is spliced only after its function): `thrown`.                       *)

TimersOf(e) == {n \in DOMAIN timers : elem[timers[n].a] = e}

\* A queue that waits is waiting for something: an element whose queue is held by the
\* sentinel has a timer or a timeout.  Else its animations would never go on.  Exceptions at
\* work for other elements do not take that away.
NeverStuck ==
    stack = <<>> /\ ~reentered =>
        \A e \in Elements \ thrown : queue[e] # <<>> =>
            TimersOf(e) # {} \/ \E a \in timeouts : elem[a] = e

\* As long as there are timers the interval is set, whatever throws.
TimersTick == stack = <<>> /\ timers # <<>> => timerId

\* An animation completes once, though its timers end one by one, in ticks or by stop;
\* unless an exception was thrown at work for its element.
CompletesOnce == ~reentered => \A a \in again : elem[a] \in thrown

\* On one element one animation runs at a time, if its queue is left alone and nothing was
\* thrown at work for it.  (What the function of an animation that had nothing to do
\* queues, its dequeue throws away: the next animation does not know then of one that runs.)
OneAtATime ==
    cuts = 0 /\ ~lost => \A m, n \in {k \in DOMAIN timers : timers[k].a \notin completed} :
        elem[timers[m].a] = elem[timers[n].a] =>
            timers[m].a = timers[n].a \/ elem[timers[m].a] \in thrown
=============================================================================
