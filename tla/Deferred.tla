------------------------------ MODULE Deferred ------------------------------
(* jQuery.Deferred and jQuery.when (jquery.js 813-978), on which ready handlers   *)
(* and ajax requests of the page rest.  A deferred is two lists of callbacks, for  *)
(* done and for fail.  Everything runs on one thread, but a callback may call the  *)
(* deferreds again, and may throw: what is active is a stack of frames.           *)
EXTENDS Integers, Sequences, SequencesExt

CONSTANTS Parts,      \* deferreds that the page makes itself
          Master,     \* the one that jQuery.when makes
          Arguments,  \* what jQuery.when may be called with: deferreds and plain values
          Callbacks,  \* functions of the page
          Registrations, \* the lists of them that it registers together
          Values,     \* what deferreds are settled with
          None        \* no value

VARIABLES callbacks, fired, firing, cancelled,  \* of both lists of each deferred
          stack,   \* a list that is firing, or a call of jQuery.when
          promise, \* whether the page has the one of jQuery.when: "no", "making", "yes", "lost"
          args, array, count,                   \* the arguments and locals of jQuery.when
          added, ran                            \* history: callbacks accepted, calls made

lists   == <<callbacks, fired, firing, cancelled>>
locals  == <<promise, args, array, count>>
history == <<added, ran>>
vars    == <<lists, stack, locals, history>>

Deferreds == Parts \union {Master}
Outcomes  == {"done", "fail"}

Other(o) == IF o = "done" THEN "fail" ELSE "done"

\* What a list calls besides the functions of the page: the cancel of the other list, and
\* the two callbacks that jQuery.when hangs on a part.
Cancel  == [is |-> "cancel", n |-> 0]
Part(n) == [is |-> "part", n |-> n]
Reject  == [is |-> "reject", n |-> 0]
User(c) == [is |-> "user", n |-> c]

\* The functions of the page among the callbacks of a list.
UserOnly(cs) ==
    LET first[n \in 0..Len(cs)] ==   \* those among the first n
            IF n = 0 THEN <<>>
            ELSE IF cs[n].is = "user" THEN Append(first[n - 1], cs[n].n) ELSE first[n - 1]
    IN  first[Len(cs)]

Each(x) == [d \in Deferreds |-> [o \in Outcomes |-> x]]

NoCancel == <<>>         \* mutant: the lists do not know of each other
Built    == <<Cancel>>

Init ==
    /\ callbacks = Each(Built)
    /\ fired = Each(None) /\ firing = Each(FALSE) /\ cancelled = Each(FALSE)
    /\ stack = <<>>
    /\ promise = "no" /\ args = <<>> /\ array = <<>> /\ count = 0
    /\ added = Each(<<>>) /\ ran = Each(<<>>)

-----------------------------------------------------------------------------
(* The calls.  `below` is the stack that the call is made from.                   *)

Firing(d, o, v) == [is |-> "fire", d |-> d, o |-> o, value |-> v, calls |-> None]
When(n, half)   == [is |-> "when", n |-> n, half |-> half]

SettleAgain(d, o, v, below) ==   \* mutant: no test for a list that is firing
    IF cancelled[d][o] \/ fired[d][o] # None
    THEN stack' = below /\ UNCHANGED firing
    ELSE /\ firing' = [firing EXCEPT ![d][o] = TRUE]
         /\ stack' = Append(below, Firing(d, o, v))

\* resolveWith and rejectWith
Settle(d, o, v, below) ==
    IF cancelled[d][o] \/ fired[d][o] # None \/ firing[d][o]
    THEN stack' = below /\ UNCHANGED firing
    ELSE /\ firing' = [firing EXCEPT ![d][o] = TRUE]
         /\ stack' = Append(below, Firing(d, o, v))

\* done and fail: a list that has fired fires again, for what is in it now.
Add(d, o, new, below) ==
    IF cancelled[d][o]
    THEN stack' = below /\ UNCHANGED <<lists, added>>
    ELSE /\ callbacks' = [callbacks EXCEPT ![d][o] = @ \o new]
         /\ added' = [added EXCEPT ![d][o] = @ \o UserOnly(new)]
         /\ fired' = [fired EXCEPT ![d][o] = None]
         /\ IF fired[d][o] # None
            THEN /\ firing' = [firing EXCEPT ![d][o] = TRUE]
                 /\ stack' = Append(below, Firing(d, o, fired[d][o]))
            ELSE stack' = below /\ UNCHANGED firing
         /\ UNCHANGED cancelled

top  == Last(stack)
rest == Front(stack)

\* A function of the page has the control: called by nobody here, or as a callback.
PageRuns == stack # <<>> => top.is = "fire" /\ top.calls # None

Unused(c) == \A d \in Deferreds, o \in Outcomes : ~Contains(added[d][o], c)

CallAdd(d, o, cs) ==
    /\ PageRuns
    /\ d = Master => promise = "yes"
    /\ \A n \in DOMAIN cs : Unused(cs[n])
    /\ Add(d, o, [n \in DOMAIN cs |-> User(cs[n])], stack)
    /\ UNCHANGED <<locals, ran>>

CallSettle(d, o, v) ==
    /\ PageRuns
    /\ Settle(d, o, v, stack)
    /\ UNCHANGED <<callbacks, fired, cancelled, locals, history>>

CallWhen(a) ==
    /\ PageRuns /\ promise = "no"
    /\ promise' = "making"
    /\ args' = a /\ array' = a /\ count' = Len(a)
    /\ stack' = Append(stack, When(Len(a), "done"))
    /\ UNCHANGED <<lists, history>>

-----------------------------------------------------------------------------
(* The loop of a list that fires, one callback a step.                            *)

Loop == stack # <<>> /\ top.is = "fire" /\ top.calls = None

Heads(c) == callbacks[top.d][top.o] # <<>> /\ Head(callbacks[top.d][top.o]) = c

Shifted == [callbacks EXCEPT ![top.d][top.o] = Tail(@)]

RunCancel ==
    /\ Loop /\ Heads(Cancel)
    /\ callbacks' = [Shifted EXCEPT ![top.d][Other(top.o)] = <<>>]
    /\ cancelled' = [cancelled EXCEPT ![top.d][Other(top.o)] = TRUE]
    /\ UNCHANGED <<fired, firing, stack, locals, history>>

RunPartEarly(n) ==   \* mutant: the last part is not waited for
    /\ Loop /\ Heads(Part(n))
    /\ callbacks' = Shifted
    /\ array' = [array EXCEPT ![n] = top.value]
    /\ count' = count - 1
    /\ IF count = 2
       THEN Settle(Master, "done", array', stack)
       ELSE UNCHANGED <<firing, stack>>
    /\ UNCHANGED <<fired, cancelled, promise, args, history>>

RunPart(n) ==
    /\ Loop /\ Heads(Part(n))
    /\ callbacks' = Shifted
    /\ array' = [array EXCEPT ![n] = top.value]
    /\ count' = count - 1
    /\ IF count = 1
       THEN Settle(Master, "done", array', stack)
       ELSE UNCHANGED <<firing, stack>>
    /\ UNCHANGED <<fired, cancelled, promise, args, history>>

RunReject ==
    /\ Loop /\ Heads(Reject)
    /\ callbacks' = Shifted
    /\ Settle(Master, "fail", top.value, stack)
    /\ UNCHANGED <<fired, cancelled, locals, history>>

RunUser(c) ==
    /\ Loop /\ Heads(User(c))
    /\ callbacks' = Shifted
    /\ stack' = Append(rest, [top EXCEPT !.calls = c])
    /\ ran' = [ran EXCEPT ![top.d][top.o] = Append(@, [callback |-> c, value |-> top.value])]
    /\ UNCHANGED <<fired, firing, cancelled, locals, added>>

Return ==
    /\ stack # <<>> /\ PageRuns
    /\ stack' = Append(rest, [top EXCEPT !.calls = None])
    /\ UNCHANGED <<lists, locals, history>>

\* finally: whether the loop came to its end or a callback threw, the list has fired.
Left(frames) ==
    LET of(d, o) == {n \in DOMAIN frames : frames[n].is = "fire" /\ frames[n].d = d /\ frames[n].o = o}
    IN  /\ fired' = [d \in Deferreds |-> [o \in Outcomes |->
                        IF of(d, o) = {} THEN fired[d][o]
                        ELSE frames[CHOOSE n \in of(d, o) : TRUE].value]]
        /\ firing' = [d \in Deferreds |-> [o \in Outcomes |-> firing[d][o] /\ of(d, o) = {}]]

Finish ==
    /\ Loop /\ callbacks[top.d][top.o] = <<>>
    /\ Left(<<top>>)
    /\ stack' = rest
    /\ UNCHANGED <<callbacks, cancelled, locals, history>>

\* An exception goes up to the outermost caller or to a function of the page that calls
\* the deferreds in a try of its own.
Throw(depth) ==
    /\ stack # <<>> /\ PageRuns
    /\ LET unwound == SubSeq(stack, depth + 1, Len(stack))
       IN  /\ Left(unwound)
           /\ stack' = SubSeq(stack, 1, depth)
           /\ depth # 0 => stack[depth].is = "fire" /\ stack[depth].calls # None
           /\ promise' = IF \E n \in DOMAIN unwound : unwound[n].is = "when" THEN "lost" ELSE promise
    /\ UNCHANGED <<callbacks, cancelled, args, array, count, history>>

-----------------------------------------------------------------------------
(* jQuery.when, from the last argument to the first.                              *)

Looping(half) == stack # <<>> /\ top.is = "when" /\ top.n > 0 /\ top.half = half

WhenPart ==
    /\ Looping("done") /\ args[top.n] \in Parts
    /\ Add(args[top.n], "done", <<Part(top.n)>>, Append(rest, When(top.n, "fail")))
    /\ UNCHANGED <<locals, ran>>

WhenReject ==
    /\ Looping("fail")
    /\ Add(args[top.n], "fail", <<Reject>>, Append(rest, When(top.n - 1, "done")))
    /\ UNCHANGED <<locals, ran>>

WhenPlain ==
    /\ Looping("done") /\ args[top.n] \notin Parts
    /\ count' = count - 1
    /\ stack' = Append(rest, When(top.n - 1, "done"))
    /\ UNCHANGED <<lists, promise, args, array, history>>

WhenReturn ==
    /\ stack # <<>> /\ top.is = "when" /\ top.n = 0
    /\ promise' = "yes"
    /\ IF count = 0
       THEN Settle(Master, "done", array, rest)
       ELSE stack' = rest /\ UNCHANGED firing
    /\ UNCHANGED <<callbacks, fired, cancelled, args, array, count, history>>

-----------------------------------------------------------------------------

Page ==
    \/ \E d \in Deferreds, o \in Outcomes, cs \in Registrations : CallAdd(d, o, cs)
    \/ \E d \in Parts, o \in Outcomes, v \in Values : CallSettle(d, o, v)
    \/ \E a \in Arguments : CallWhen(a)
    \/ Return
    \/ \E depth \in 0..Len(stack) - 1 : Throw(depth)

Library ==
    \/ RunCancel \/ (\E n \in DOMAIN args : RunPart(n)) \/ RunReject
    \/ \E c \in Callbacks : RunUser(c)
    \/ Finish
    \/ WhenPart \/ WhenReject \/ WhenPlain \/ WhenReturn

Next == Page \/ Library

Spec == Init /\ [][Next]_vars

-----------------------------------------------------------------------------
(* Properties.                                                                 *)

Settled(d, o) == firing[d][o] \/ fired[d][o] # None

\* The value a list is firing with, or has fired with.
ValueOf(d, o) ==
    IF fired[d][o] # None THEN fired[d][o]
    ELSE stack[CHOOSE n \in DOMAIN stack : stack[n].is = "fire" /\ stack[n].d = d /\ stack[n].o = o].value

outcome ==
    [d \in Deferreds |->
        IF \A o \in Outcomes : ~Settled(d, o) THEN None
        ELSE LET o == CHOOSE w \in Outcomes : Settled(d, w)
             IN  [way |-> o, value |-> ValueOf(d, o)]]

\* What jQuery.when may resolve with.
Arrays == UNION {[DOMAIN a -> Values \union ToSet(a)] : a \in Arguments}

\* The deferreds, the values and the functions are different things.
DeferredConstants ==
    /\ Master \notin Parts /\ Parts \cap Values = {}
    /\ Registrations \subseteq Seq(Callbacks)
    /\ \A a \in Arguments : Len(a) \in Nat /\ a = [n \in 1..Len(a) |-> a[n]]
    /\ None \notin Callbacks \union Values \union Arrays
    /\ None \notin [way : Outcomes, value : Values \union Arrays]

Promised == INSTANCE Promise
              WITH Pending <- None, Values <- Values \union Arrays,
                   waiting <- [d \in Deferreds |-> [o \in Outcomes |-> UserOnly(callbacks[d][o])]],
                   called <- ran

\* However callbacks call the deferreds again, nested in each other or throwing: a
\* deferred is settled once, one way, with one value; every callback is called at most
\* once, with that value and in the order of registration, and none for the other outcome.
ImplementsPromise == Promised!Spec

\* A callback that throws takes none with it for good: what was accepted has been
\* called or is still in the list, where the next done or fail finds it.
NoneForgotten ==
    \A d \in Deferreds, o \in Outcomes : ~cancelled[d][o] =>
        added[d][o] = [n \in DOMAIN ran[d][o] |-> ran[d][o][n].callback] \o UserOnly(callbacks[d][o])

\* What jQuery.when returns is resolved only when all parts are, with the value of each in
\* its place, and rejected only with the value of a part that is.
WhenIsAll ==
    /\ Settled(Master, "done") =>
          \A n \in DOMAIN args :
             LET v == ValueOf(Master, "done")[n]
             IN  IF args[n] \in Parts THEN outcome[args[n]] = [way |-> "done", value |-> v] ELSE v = args[n]
    /\ Settled(Master, "fail") =>
          \E n \in DOMAIN args : args[n] \in Parts /\ outcome[args[n]] = [way |-> "fail", value |-> ValueOf(Master, "fail")]

\* And it comes to that: when every part is settled and nothing is running it is settled
\* too, unless a callback that threw has kept a part from telling.
WhenTells ==
    /\ stack = <<>> /\ promise = "yes"
    /\ \A n \in DOMAIN args : args[n] \in Parts =>
          \A o \in Outcomes : Settled(args[n], o) => callbacks[args[n]][o] = <<>>
    /\ \A n \in DOMAIN args : args[n] \in Parts => \E o \in Outcomes : Settled(args[n], o)
    => \E o \in Outcomes : Settled(Master, o)
=============================================================================
