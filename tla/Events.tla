------------------------------- MODULE Events -------------------------------
(* Events of one type on elements of the page (jquery.js 2143-2556, 2662-2776,    *)
(* 3037-3118): handlers that are bound, for good or for one call, unbound, called  *)
(* for an event of the browser or one that is triggered, on its way up the tree.   *)
(* Handlers, and the inline ones of the page (onclick), may bind, unbind and        *)
(* trigger again, nested in the call, and may throw.                               *)
EXTENDS Integers, Sequences, SequencesExt, FiniteSets

CONSTANTS Elements, Root,
          parentNode,    \* function on Elements \ {Root}
          HasDefault,    \* elements with a method named as the event
          Inline,        \* elements with an inline handler of the page
          Bindings,      \* what the page binds: [at, guid, ns, one], ns "" for none
          Results,       \* what handlers do to the event: [prevents, stops, immediately]
          MaxBinds, MaxDepth,  \* bounds: calls of bind and one; events within events
          None

VARIABLES events,     \* of each element, in the order of binding
          listening,  \* elements whose eventHandle listens to the browser
          triggered,  \* jQuery.event.triggered
          stack,      \* events that are on their way
          binds,      \* how many were bound; numbers the entries
          ran,        \* history: entries of "one" that ran, and those that ran again though no event was nested
          calls,      \* history: the same for all entries and the event at the bottom of the stack
          nested,     \* history: an event passed an element that another was at
          early       \* history: a method has ended within the method of an element

history == <<binds, ran, calls, nested, early>>
vars    == <<events, listening, triggered, stack, history>>

NoCalls == [once |-> {}, again |-> {}]

Init ==
    /\ events = [e \in Elements |-> <<>>] /\ listening = {} /\ triggered = FALSE
    /\ stack = <<>>
    /\ binds = 0 /\ ran = NoCalls /\ calls = NoCalls
    /\ nested = FALSE /\ early = FALSE

top  == Last(stack)
rest == Front(stack)

PageRuns == stack # <<>> => top.calls # None

Remain(e, gone) == SelectSeq(events[e], LAMBDA x : x \notin gone)

-----------------------------------------------------------------------------
(* Binding and unbinding.                                                       *)

add(b) ==
    /\ PageRuns /\ binds < MaxBinds
    /\ binds' = binds + 1
    /\ events' = [events EXCEPT ![b.at] = Append(@, [id |-> binds + 1, guid |-> b.guid, ns |-> b.ns, one |-> b.one])]
    /\ listening' = listening \union {b.at}
    /\ UNCHANGED <<triggered, stack, ran, calls, nested, early>>

\* With the last handler the listener goes.
remove(e, gone) ==
    /\ events' = [events EXCEPT ![e] = Remain(e, gone)]
    /\ listening' = IF events'[e] = <<>> THEN listening \ {e} ELSE listening

\* unbind: of a function or of all, in a namespace or in all.
unbind(e, f, ns) ==
    /\ PageRuns /\ events[e] # <<>>
    /\ remove(e, {x \in ToSet(events[e]) : (f = None \/ x.guid = f) /\ (ns = "" \/ x.ns = ns)})
    /\ UNCHANGED <<triggered, stack, history>>

-----------------------------------------------------------------------------
(* An event on its way.  `to` is what it is for: "all" handlers, those of a          *)
(* namespace, or with "!" those of none.  Handlers are taken from a copy.          *)

Addressed(e, to) ==
    SelectSeq(events[e], LAMBDA x : to = "all" \/ x.ns = (IF to = "exclusive" THEN "" ELSE to))

InMethod(frames) == \E n \in DOMAIN frames : frames[n].is = "default"

\* An event at an element.  Its inline handler is looked for under the name of the event,
\* with the namespace; while the method of the element runs it is taken off.
Event(e, target, is, to, prevented, below) ==
    [is |-> is, at |-> e, target |-> target, to |-> to,
     inline |-> /\ e \in Inline /\ to \in {"all", "exclusive"}
                /\ ~ (is = "default" /\ e = target)
                /\ \A n \in DOMAIN below : ~ (below[n].is = "default" /\ below[n].target = e),
     heard |-> FALSE, handlers |-> <<>>, j |-> 1, did |-> <<>>, calls |-> None,
     stopped |-> FALSE, prevented |-> prevented, immediate |-> FALSE]

\* eventHandle does nothing while the method of an element runs.  The namespace is taken off
\* the type of the event by the first element with a handle, so that on the elements further
\* up all handlers are called.
eventHandleAlways(event, deaf) ==   \* mutant: nobody looks at triggered
    [event EXCEPT !.heard = TRUE, !.handlers = Addressed(event.at, event.to)]

eventHandle(event, deaf) ==
    IF deaf \/ event.at \notin listening THEN [event EXCEPT !.heard = TRUE]
    ELSE [event EXCEPT !.heard = TRUE, !.handlers = Addressed(event.at, event.to),
                       !.to = IF @ = "exclusive" THEN @ ELSE "all"]

\* An event comes to an element.  trigger calls its handlers and then the inline one, the
\* browser also the other way round, as they were set.
Comes(event, below, deaf) ==
    \/ stack' = Append(below, eventHandle(event, deaf))
    \/ /\ event.is # "trigger" /\ event.inline
       /\ stack' = Append(below, [event EXCEPT !.inline = FALSE, !.calls = "inline"])

Passes(e, below) ==
    nested' = (nested \/ \E n \in DOMAIN below : below[n].at = e)

trigger(e, to) ==
    /\ PageRuns /\ Len(stack) < MaxDepth
    /\ Comes(Event(e, e, "trigger", to, FALSE, stack), stack, triggered)
    /\ Passes(e, stack)
    /\ UNCHANGED <<events, listening, triggered, binds, ran, calls, early>>

Native(e) ==
    /\ stack = <<>>
    /\ Comes(Event(e, e, "native", "all", FALSE, stack), stack, triggered)
    /\ UNCHANGED <<events, listening, triggered, history>>

\* No handler is running, nor will another be of those that were taken.
Between == stack # <<>> /\ top.calls = None /\ (top.j > Len(top.handlers) \/ top.immediate)

\* The inline handler went first.
Hear ==
    /\ Between /\ ~top.heard /\ ~top.immediate
    /\ stack' = Append(rest, eventHandle(top, triggered))
    /\ UNCHANGED <<events, listening, triggered, history>>

CallInline ==
    /\ Between /\ top.heard /\ top.inline
    /\ stack' = Append(rest, [top EXCEPT !.inline = FALSE, !.calls = "inline"])
    /\ UNCHANGED <<events, listening, triggered, history>>

\* A handler for one call is unbound before, by the guid of its function.
Unbound(x) == IF x.one THEN {y \in ToSet(events[top.at]) : y.guid = x.guid} ELSE {}

Handler == top.handlers[top.j]

handle ==
    /\ stack # <<>> /\ top.calls = None
    /\ top.j <= Len(top.handlers) /\ ~top.immediate
    /\ LET x == Handler
       IN  /\ remove(top.at, Unbound(x))
           /\ stack' = Append(rest, [top EXCEPT !.calls = x.guid, !.j = @ + 1, !.did = Append(@, x)])
           /\ calls' = IF rest # <<>> THEN calls
                       ELSE [once |-> calls.once \union {x.id}, again |-> calls.again \union ({x.id} \intersect calls.once)]
           /\ ran' = IF ~x.one THEN ran
                     ELSE [once |-> ran.once \union {x.id},
                           again |-> IF x.id \in ran.once /\ ~nested THEN ran.again \union {x.id} ELSE ran.again]
    /\ UNCHANGED <<triggered, binds, nested, early>>

\* What a handler does to the event: returning false is both of preventDefault and
\* stopPropagation.  What the browser does in the end for an event of its own is left out.
Return(result) ==
    /\ stack # <<>> /\ PageRuns
    /\ stack' = Append(rest, [top EXCEPT !.calls = None,
                                 !.prevented = @ \/ (top.is = "trigger" /\ result.prevents),
                                 !.stopped = @ \/ result.stops,
                                 !.immediate = @ \/ result.immediately])
    /\ UNCHANGED <<events, listening, triggered, history>>

\* An exception ends triggered events and what called trigger, up to an event that the
\* browser sends, which goes on at the next element, or to an inline handler that trigger
\* has called, whose exceptions it swallows.
Throw ==
    /\ stack # <<>> /\ PageRuns
    /\ LET catches == {n \in DOMAIN stack : stack[n].is # "trigger" \/ stack[n].calls = "inline"}
       IN  \/ catches = {} /\ stack' = <<>>
           \/ \E n \in catches :
                 /\ \A m \in catches : m <= n
                 /\ stack' = [SubSeq(stack, 1, n) EXCEPT ![n].calls = None,
                                                        ![n].immediate = @ \/ stack[n].calls # "inline"]
    /\ calls' = IF stack' = <<>> THEN NoCalls ELSE calls
    /\ nested' = (nested /\ stack' # <<>>)
    /\ UNCHANGED <<events, listening, triggered, binds, ran, early>>

AtEnd == Between /\ (top.heard \/ top.immediate) /\ ~top.inline

Rises == ~top.stopped /\ top.at # Root

Rise ==
    /\ AtEnd /\ Rises
    /\ LET up == parentNode[top.at]
       IN  /\ Comes(Event(up, top.target, top.is, top.to, top.prevented, rest), rest, triggered)
           /\ Passes(up, rest)
    /\ UNCHANGED <<events, listening, triggered, binds, ran, calls, early>>

Done(below) ==
    /\ stack' = below
    /\ calls' = IF below = <<>> THEN NoCalls ELSE calls
    /\ nested' = (nested /\ below # <<>>)
    /\ UNCHANGED <<events, listening, binds, ran>>

\* The element's own method: the browser sends the event along the same way again.
Default ==
    /\ AtEnd /\ ~Rises /\ top.is = "trigger" /\ ~top.prevented /\ top.target \in HasDefault
    /\ triggered' = TRUE
    /\ Comes(Event(top.target, top.target, "default", "all", FALSE, rest), rest, TRUE)
    /\ UNCHANGED <<events, listening, history>>

End ==
    /\ AtEnd /\ ~Rises
    /\ top.is = "trigger" => top.prevented \/ top.target \notin HasDefault
    /\ triggered' = (triggered /\ top.is # "default")
    /\ early' = (InMethod(rest) /\ (early \/ top.is = "default"))
    /\ Done(rest)

-----------------------------------------------------------------------------

Names == {b.ns : b \in Bindings}

Page ==
    \/ \E b \in Bindings : add(b)
    \/ \E e \in Elements : \/ \E f \in {b.guid : b \in Bindings} \union {None}, ns \in Names : unbind(e, f, ns)
                           \/ \E to \in (Names \ {""}) \union {"all", "exclusive"} : trigger(e, to)
    \/ \E result \in Results : Return(result)
    \/ Throw

Next == Page \/ Hear \/ handle \/ CallInline \/ Rise \/ Default \/ End \/ \E e \in Elements : Native(e)

Spec == Init /\ [][Next]_vars

-----------------------------------------------------------------------------
(* Properties.                                                                 *)

\* However handlers come and go, also out of handlers that run: an element listens to the
\* browser as long as it has any, and not longer.
ListensForHandlers == \A e \in Elements : e \in listening <=> events[e] # <<>>

\* What is called on an element is what was bound when the event came to it, in that
\* order and without a gap, whatever the handlers bind and unbind meanwhile.
CalledAsBound ==
    \A n \in DOMAIN stack : stack[n].did = SubSeq(stack[n].handlers, 1, stack[n].j - 1)

\* A handler for one call is called once, unless the event was triggered on its way on
\* the same element: both then have a copy with the handler.
OnceOnly == ran.again = {}

\* An event that is triggered calls a handler once, though the method of the element makes
\* the browser send it the same way again; unless an inline handler that the browser calls
\* on that way triggers an event with a method, which ends the deafness before its time.
CalledOnce == calls.again = {} \/ early

\* The library is deaf to the browser while the method of an element runs, and only then,
\* however that ends and whatever throws; but for that case.
DeafOnlyInDefault ==
    /\ triggered => InMethod(stack)
    /\ InMethod(stack) => triggered \/ early
=============================================================================
