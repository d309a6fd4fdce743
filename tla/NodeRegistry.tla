---------------------------- MODULE NodeRegistry ----------------------------
(* What the operations on a node as a whole promise: a node exists or it does   *)
(* not, a request to create, delete or open it takes effect at one moment, and  *)
(* its outcome is right at that moment.                                         *)
EXTENDS Naturals

CONSTANT Threads

VARIABLES exists, outcome

registryVars == <<exists, outcome>>

Requests == {"creating", "deleting", "opening"}

Init == exists = FALSE /\ outcome = [t \in Threads |-> "none"]

Become(t, o) == outcome' = [outcome EXCEPT ![t] = o]

Request(t, r) == outcome[t] \notin Requests /\ Become(t, r) /\ UNCHANGED exists

Create(t) ==
    /\ outcome[t] = "creating"
    /\ exists' = TRUE
    /\ Become(t, IF exists THEN "exists" ELSE "created")

Delete(t) ==
    /\ outcome[t] = "deleting"
    /\ exists' = FALSE
    /\ Become(t, IF exists THEN "deleted" ELSE "missing")

Open(t) ==
    /\ outcome[t] = "opening"
    /\ Become(t, IF exists THEN "opened" ELSE "missing")
    /\ UNCHANGED exists

\* The process dies: no request takes effect later, and answers may not get out.
Lose ==
    /\ \E L \in SUBSET Threads :
          /\ {t \in Threads : outcome[t] \in Requests} \subseteq L
          /\ outcome' = [t \in Threads |-> IF t \in L THEN "lost" ELSE outcome[t]]
    /\ UNCHANGED exists

\* A request may fail without effect, and an open that found its node may still.
Fail(t) == outcome[t] \in Requests \union {"opened"} /\ Become(t, "lost") /\ UNCHANGED exists

Next ==
    \/ \E t \in Threads :
          \/ \E r \in Requests : Request(t, r)
          \/ Create(t) \/ Delete(t) \/ Open(t) \/ Fail(t)
    \/ Lose

Spec == Init /\ [][Next]_registryVars
=============================================================================
