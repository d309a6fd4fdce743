------------------------------ MODULE Promise ------------------------------
(* What a deferred promises: it is settled once, one way, with one value, and the *)
(* callbacks registered for that outcome are called with that value in the order  *)
(* of their registration, each once; those for the other outcome never.           *)
EXTENDS Sequences

CONSTANTS Deferreds, Outcomes,
          Registrations, Values,
          Pending

VARIABLES outcome,  \* of each deferred: Pending, or how it was settled and the value
          waiting,  \* the callbacks that are to be called on each outcome
          called    \* the calls made

vars == <<outcome, waiting, called>>

Init ==
    /\ outcome = [d \in Deferreds |-> Pending]
    /\ waiting = [d \in Deferreds |-> [o \in Outcomes |-> <<>>]]
    /\ called = [d \in Deferreds |-> [o \in Outcomes |-> <<>>]]

Register(d, o, cs) ==
    /\ waiting' = [waiting EXCEPT ![d][o] = @ \o cs]
    /\ UNCHANGED <<outcome, called>>

Settle(d, o, v) ==
    /\ outcome[d] = Pending
    /\ outcome' = [outcome EXCEPT ![d] = [way |-> o, value |-> v]]
    /\ UNCHANGED <<waiting, called>>

\* The callbacks for the outcome that did not come about are dropped.
Drop(d, o) ==
    /\ outcome[d] # Pending /\ outcome[d].way # o
    /\ waiting' = [waiting EXCEPT ![d][o] = <<>>]
    /\ UNCHANGED <<outcome, called>>

CallNext(d) ==
    /\ outcome[d] # Pending
    /\ LET o == outcome[d].way
       IN  /\ waiting[d][o] # <<>>
           /\ called' = [called EXCEPT ![d][o] =
                            Append(@, [callback |-> Head(waiting[d][o]), value |-> outcome[d].value])]
           /\ waiting' = [waiting EXCEPT ![d][o] = Tail(@)]
    /\ UNCHANGED outcome

Next ==
    \E d \in Deferreds :
        \/ \E o \in Outcomes : \/ \E cs \in Registrations : Register(d, o, cs)
                               \/ \E v \in Values : Settle(d, o, v)
                               \/ Drop(d, o)
        \/ CallNext(d)

Spec == Init /\ [][Next]_vars
=============================================================================
