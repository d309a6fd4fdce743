------------------------------- MODULE Daemon -------------------------------
(* Start and end of the server (main.c) with the admin key (http_tsdb.c 919-963): *)
(* the key is taken from its file or made anew and written there, then the port  *)
(* is bound.  An instance is a process; one whose process has ended may be       *)
(* started again.  A key is named by the second that seeds its generation.       *)
EXTENDS Integers

CONSTANTS Instances,
          Absent,    \* there is no key file
          Short,     \* the key file holds less than a key
          NoKey,     \* a key of zero bytes, as the process starts with
          LastTime,  \* bound on the clock
          Faults     \* "crash": a process may be killed; "io": a call may fail

ASSUME DaemonAssumption ==
    /\ LastTime \in Nat
    /\ {Absent, Short, NoKey} \intersect (0..LastTime) = {}
    /\ Absent # Short /\ NoKey \notin {Absent, Short}
    /\ Faults \subseteq {"crash", "io"}

VARIABLES clock,
          file,  \* the admin key file
          stage,    \* where each instance is
          arg,   \* started with -a, and when
          key,   \* g_admin_key of each
          misread  \* for the properties: its read of a complete file failed

host == <<clock, file, stage, arg, key, misread>>

Keys == 0..LastTime

HostInit ==
    /\ clock = 0
    /\ file = Absent
    /\ stage = [p \in Instances |-> "ended"]
    /\ arg = [p \in Instances |-> [persistent |-> FALSE, now |-> 0]]
    /\ key = [p \in Instances |-> NoKey]
    /\ misread = [p \in Instances |-> FALSE]

Goto(p, label) == stage' = [stage EXCEPT ![p] = label]

Tick ==
    /\ clock < LastTime
    /\ clock' = clock + 1
    /\ UNCHANGED <<file, stage, arg, key, misread>>

StartServer(p, persistent) ==
    /\ stage[p] \in {"ended", "died"}
    /\ arg' = [arg EXCEPT ![p] = [persistent |-> persistent, now |-> clock]]
    /\ key' = [key EXCEPT ![p] = NoKey]
    /\ misread' = [misread EXCEPT ![p] = FALSE]
    /\ Goto(p, IF persistent THEN "look" ELSE "generate")
    /\ UNCHANGED <<clock, file>>

\* fopen reports a file that is missing, or that it cannot open, by a null pointer, which
\* passes the test for >= 0: the process dies in fread.
Look(p) ==
    /\ stage[p] = "look"
    /\ \/ file # Absent /\ Goto(p, "read")
       \/ (file = Absent \/ "io" \in Faults) /\ Goto(p, "died")
    /\ UNCHANGED <<clock, file, arg, key, misread>>

ReadNever(p) ==   \* mutant: the key that was read is not used
    /\ stage[p] = "read"
    /\ Goto(p, "generate")
    /\ UNCHANGED <<clock, file, arg, key, misread>>

\* Whatever fread leaves short of a key, of a file that is or by failing, is no key.
Read(p) ==
    /\ stage[p] = "read"
    /\ \/ /\ file # Short
          /\ Goto(p, "bind") /\ key' = [key EXCEPT ![p] = file]
          /\ UNCHANGED misread
       \/ /\ file = Short \/ "io" \in Faults
          /\ Goto(p, "generate") /\ UNCHANGED key
          /\ misread' = [misread EXCEPT ![p] = file # Short]
    /\ UNCHANGED <<clock, file, arg>>

Generate(p) ==
    /\ stage[p] = "generate"
    /\ key' = [key EXCEPT ![p] = arg[p].now]
    /\ Goto(p, "open")
    /\ UNCHANGED <<clock, file, arg, misread>>

\* fopen for writing makes the file empty; when it fails, the null pointer passes again.
OpenFile(p) ==
    /\ stage[p] = "open"
    /\ \/ file' = Short /\ Goto(p, "write")
       \/ "io" \in Faults /\ file' = file /\ Goto(p, "died")
    /\ UNCHANGED <<clock, arg, key, misread>>

\* The text is buffered and reaches the file when it is closed; nobody asks whether it did.
WriteFile(p) ==
    /\ stage[p] = "write"
    /\ \/ file' = key[p]
       \/ "io" \in Faults /\ file' = Short
    /\ Goto(p, "bind")
    /\ UNCHANGED <<clock, arg, key, misread>>

BindFirst(p) ==   \* mutant: a key that was read is replaced by one that is not written
    /\ stage[p] = "bind"
    /\ key' = [key EXCEPT ![p] = arg[p].now]
    /\ Goto(p, "serve")
    /\ UNCHANGED <<clock, file, arg, misread>>

\* Without the port there is no daemon, and main ends at once.
Bind(p) ==
    /\ stage[p] = "bind"
    /\ Goto(p, IF \E q \in Instances : stage[q] = "serve" THEN "ended" ELSE "serve")
    /\ UNCHANGED <<clock, file, arg, key, misread>>

\* SIGINT sets terminate, and the loop of main ends.
Stop(p) ==
    /\ stage[p] = "serve"
    /\ Goto(p, "ended")
    /\ UNCHANGED <<clock, file, arg, key, misread>>

Kill(p) ==
    /\ "crash" \in Faults
    /\ stage[p] \notin {"ended", "died"}
    /\ Goto(p, "ended")
    /\ UNCHANGED <<clock, file, arg, key, misread>>

Run(p) == Look(p) \/ Read(p) \/ Generate(p) \/ OpenFile(p) \/ WriteFile(p) \/ Bind(p)

HostNext ==
    \/ Tick
    \/ \E p \in Instances :
          \/ \E persistent \in BOOLEAN : StartServer(p, persistent)
          \/ Run(p) \/ Stop(p) \/ Kill(p)

HostSpec == HostInit /\ [][HostNext]_host

-----------------------------------------------------------------------------
(* Properties.                                                                 *)

HostTypeOK ==
    /\ clock \in 0..LastTime
    /\ file \in Keys \union {Absent, Short}
    /\ stage \in [Instances -> {"ended", "died", "look", "read", "generate", "open", "write", "bind", "serve"}]
    /\ arg \in [Instances -> [persistent : BOOLEAN, now : 0..LastTime]]
    /\ key \in [Instances -> Keys \union {NoKey}]
    /\ misread \in [Instances -> BOOLEAN]

Quiet == \A p \in Instances : stage[p] \in {"ended", "died", "serve"}

\* The administrator reads the key of the server that runs from the file ("The generated
\* admin key is written to this file on startup", http_tsdb.c:61-62): after kills in the
\* middle of a start and failed writes the file may be short, but never tells another key.
FileTellsKey == Quiet => \A p \in Instances : stage[p] = "serve" => file \in {key[p], Short}

\* A key that is complete in its file is replaced only for an instance that was started
\* without -a, or that could not read it although it was there (http_tsdb.c:938-941 takes a
\* read that fails for a missing key): kills and restarts with -a in any order, and failing
\* opens and writes, do not cost a known key.
KeyKept ==
    [][file' # file /\ file \in Keys =>
          \E p \in Instances : stage[p] = "open" /\ (~arg[p].persistent \/ misread[p])]_host

\* The key file is of use: it is in its type, and what it tells is the key of the server.
KeyFileIsRight == HostTypeOK /\ FileTellsKey
=============================================================================
