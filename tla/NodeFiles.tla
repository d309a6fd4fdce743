------------------------------ MODULE NodeFiles ------------------------------
(* The files of one node: tsdb_create, tsdb_open, tsdb_close and tsdb_delete as  *)
(* the threads of the server interleave them.  A step is one system call on the  *)
(* directory, or the first access to the metadata through its mapping.  Files    *)
(* are numbered in the order of their creation and outlive their directory       *)
(* entry while a handle is open on them.                                         *)
EXTENDS Integers, Sequences, FiniteSets, Functions

CONSTANTS Threads,
          MaxLayers,   \* TSDB_MAX_LAYERS
          LayerCounts, \* the numbers of tables that nodes are created with
          MaxCreated,  \* bound on the metadata files ever made
          Faults       \* "crash": the process may be killed; "io": a call may fail

ASSUME NodeFilesAssumption ==
    /\ MaxLayers \in Nat \ {0}
    /\ LayerCounts \subseteq 1..MaxLayers
    /\ MaxCreated \in Nat
    /\ Faults \subseteq {"crash", "io"}

VARIABLES metas,   \* metadata files: the number of tables, 0 while the file is empty
          tables,  \* table files: the metadata files whose values were written there
          entry,   \* directory entry of the metadata, 0 if there is none
          layer,   \* directory entries of the tables
          pc, frame, rc

files == <<metas, tables>>
dir   == <<entry, layer>>
vars  == <<files, dir, pc, frame, rc>>

Layers == 0..MaxLayers-1

\* The layers created with, the metadata file, the table files of a handle, and the
\* layer a loop over the tables is at.
NoFrame == [layers |-> 0, meta |-> 0, opened |-> <<>>, at |-> 0]

Init ==
    /\ metas = <<>> /\ tables = <<>>
    /\ entry = 0
    /\ layer = [l \in Layers |-> 0]
    /\ pc = [t \in Threads |-> "idle"]
    /\ frame = [t \in Threads |-> NoFrame]
    /\ rc = [t \in Threads |-> "none"]

At(t, label)   == pc[t] = label
Goto(t, label) == pc' = [pc EXCEPT ![t] = label]

Return(t, outcome) ==
    /\ Goto(t, "idle")
    /\ frame' = [frame EXCEPT ![t] = NoFrame]
    /\ rc' = [rc EXCEPT ![t] = outcome]

Call(t, label, f) ==
    /\ At(t, "idle")
    /\ Goto(t, label)
    /\ frame' = [frame EXCEPT ![t] = f]
    /\ rc' = [rc EXCEPT ![t] = "pending"]
    /\ UNCHANGED <<files, dir>>

-----------------------------------------------------------------------------
(* tsdb_create.                                                                *)

Create(t, n) == Len(metas) < MaxCreated /\ Call(t, "create", [NoFrame EXCEPT !.layers = n])

\* open with O_EXCL.
CreateMeta(t) ==
    /\ At(t, "create") /\ entry = 0
    /\ metas' = Append(metas, 0)
    /\ entry' = Len(metas) + 1
    /\ frame' = [frame EXCEPT ![t].meta = Len(metas) + 1]
    /\ Goto(t, "populate")
    /\ UNCHANGED <<tables, layer, rc>>

TruncateMeta(t) ==   \* mutant: open without O_EXCL
    /\ At(t, "create") /\ entry # 0
    /\ metas' = [metas EXCEPT ![entry] = 0]
    /\ frame' = [frame EXCEPT ![t].meta = entry]
    /\ Goto(t, "populate")
    /\ UNCHANGED <<tables, dir, rc>>

AlreadyExists(t) ==
    /\ At(t, "create") /\ entry # 0
    /\ Return(t, "exists")
    /\ UNCHANGED <<files, dir>>

PopulateTerminator(t) ==   \* mutant: the zero that ends the decimations counts as a layer
    /\ At(t, "populate")
    /\ metas' = [metas EXCEPT ![frame[t].meta] = frame[t].layers + 1]
    /\ Return(t, "created")
    /\ UNCHANGED <<tables, dir>>

Populate(t) ==
    /\ At(t, "populate")
    /\ metas' = [metas EXCEPT ![frame[t].meta] = frame[t].layers]
    /\ Return(t, "created")
    /\ UNCHANGED <<tables, dir>>

\* The result of the write is not looked at.
FailPopulate(t) ==
    /\ "io" \in Faults /\ At(t, "populate")
    /\ Return(t, "created")
    /\ UNCHANGED <<files, dir>>

-----------------------------------------------------------------------------
(* tsdb_delete.                                                                *)

Delete(t) == Call(t, "delete", NoFrame)

UnlinkMetaAlways(t) ==   \* mutant: a missing node is no error
    /\ At(t, "delete")
    /\ entry' = 0
    /\ Goto(t, "sweep")
    /\ UNCHANGED <<files, layer, frame, rc>>

UnlinkMeta(t) ==
    /\ At(t, "delete") /\ entry # 0
    /\ entry' = 0
    /\ Goto(t, "sweep")
    /\ UNCHANGED <<files, layer, frame, rc>>

NothingToDelete(t) ==
    /\ At(t, "delete") /\ entry = 0
    /\ Return(t, "missing")
    /\ UNCHANGED <<files, dir>>

UnlinkTable(t) ==
    /\ At(t, "sweep") /\ frame[t].at < MaxLayers /\ layer[frame[t].at] # 0
    /\ layer' = [layer EXCEPT ![frame[t].at] = 0]
    /\ frame' = [frame EXCEPT ![t].at = @ + 1]
    /\ UNCHANGED <<files, entry, pc, rc>>

EndSweepEarly(t) ==   \* mutant: the last table is left out
    /\ At(t, "sweep")
    /\ frame[t].at < MaxLayers - 1 => layer[frame[t].at] = 0
    /\ Return(t, "deleted")
    /\ UNCHANGED <<files, dir>>

\* After the last layer, or the first table that cannot be unlinked.
EndSweep(t) ==
    /\ At(t, "sweep")
    /\ frame[t].at < MaxLayers => layer[frame[t].at] = 0 \/ "io" \in Faults
    /\ Return(t, "deleted")
    /\ UNCHANGED <<files, dir>>

-----------------------------------------------------------------------------
(* tsdb_open, the use of the handle it returns, tsdb_close.                    *)

Open(t) == Call(t, "open", NoFrame)

\* An empty file passes the test of the size.
OpenMeta(t) ==
    /\ At(t, "open") /\ entry # 0
    /\ frame' = [frame EXCEPT ![t].meta = entry]
    /\ Goto(t, "validate")
    /\ UNCHANGED <<files, dir, rc>>

NoSuchNode(t) ==
    /\ At(t, "open") /\ entry = 0
    /\ Return(t, "missing")
    /\ UNCHANGED <<files, dir>>

Validate(t) ==
    /\ At(t, "validate") /\ metas[frame[t].meta] # 0
    /\ frame' = [frame EXCEPT ![t].layers = metas[frame[t].meta]]
    /\ Goto(t, "tables")
    /\ UNCHANGED <<files, dir, rc>>

\* All threads end where they are.
Die(r) ==
    /\ pc' = [t \in Threads |-> "idle"]
    /\ frame' = [t \in Threads |-> NoFrame]
    /\ rc' = r
    /\ UNCHANGED <<files, dir>>

Busy(t) == pc[t] \notin {"idle", "opened"}

Lost == [t \in Threads |-> IF Busy(t) THEN "lost" ELSE rc[t]]

\* An access to the mapping of an empty file is a SIGBUS.
Sigbus(t) ==
    /\ At(t, "validate") /\ metas[frame[t].meta] = 0
    /\ Die([Lost EXCEPT ![t] = "killed"])

\* open with O_CREAT, layer after layer.
OpenTable(t) ==
    /\ At(t, "tables")
    /\ LET l == Len(frame[t].opened)
           f == IF layer[l] # 0 THEN layer[l] ELSE Len(tables) + 1
       IN  /\ tables' = IF layer[l] # 0 THEN tables ELSE Append(tables, {})
           /\ layer' = [layer EXCEPT ![l] = f]
           /\ frame' = [frame EXCEPT ![t].opened = Append(@, f)]
           /\ Goto(t, IF l + 1 = frame[t].layers THEN "opened" ELSE "tables")
           /\ rc' = [rc EXCEPT ![t] = IF l + 1 = frame[t].layers THEN "opened" ELSE @]
    /\ UNCHANGED <<metas, entry>>

\* open or unlink of the metadata fails though it need not; an open fails also later on.
\* (An unlink of a table that fails, which leaves that table and those above, is left out.)
FailCall(t) ==
    /\ "io" \in Faults /\ pc[t] \in {"create", "delete", "open", "validate", "tables"}
    /\ Return(t, "lost")
    /\ UNCHANGED <<files, dir>>

\* A post through the handle, in every layer.
Use(t) ==
    /\ At(t, "opened")
    /\ tables' = [f \in DOMAIN tables |->
                     IF f \in Range(frame[t].opened) THEN tables[f] \union {frame[t].meta}
                     ELSE tables[f]]
    /\ UNCHANGED <<metas, dir, pc, frame, rc>>

Close(t) == At(t, "opened") /\ Return(t, rc[t]) /\ UNCHANGED <<files, dir>>

Crash == "crash" \in Faults /\ Die(Lost)

CreateSteps(t) == CreateMeta(t) \/ AlreadyExists(t) \/ Populate(t) \/ FailPopulate(t)
DeleteSteps(t) == UnlinkMeta(t) \/ NothingToDelete(t) \/ UnlinkTable(t) \/ EndSweep(t)
OpenSteps(t) ==
    OpenMeta(t) \/ NoSuchNode(t) \/ Validate(t) \/ Sigbus(t) \/ OpenTable(t)
HandleSteps(t) == Use(t) \/ Close(t)

Next ==
    \/ \E t \in Threads :
          \/ \E n \in LayerCounts : Create(t, n)
          \/ Delete(t) \/ Open(t)
          \/ CreateSteps(t) \/ DeleteSteps(t) \/ OpenSteps(t) \/ HandleSteps(t)
          \/ FailCall(t)
    \/ Crash

Spec == Init /\ [][Next]_vars

-----------------------------------------------------------------------------
(* Properties.                                                                 *)

Frame == [layers : 0..MaxLayers, meta : 0..Len(metas), opened : Seq(1..Len(tables)),
          at : 0..MaxLayers]

TypeOK ==
    /\ metas \in Seq(LayerCounts \union {0})
    /\ tables \in Seq(SUBSET (1..Len(metas)))
    /\ entry \in 0..Len(metas)
    /\ layer \in [Layers -> 0..Len(tables)]
    /\ pc \in [Threads -> {"idle", "create", "populate", "delete", "sweep",
                            "open", "validate", "tables", "opened"}]
    /\ frame \in [Threads -> Frame]
    /\ rc \in [Threads -> {"none", "pending", "created", "exists", "deleted", "missing",
                            "opened", "lost", "killed"}]

Quiet == \A t \in Threads : At(t, "idle")

\* A node that was deleted leaves nothing behind (tsadmin:135 "and all of its data").
DeleteIsComplete == Quiet /\ entry = 0 => \A l \in Layers : layer[l] = 0

\* No handle reaches values that were posted to a node deleted before: a node starts
\* empty (tsdb.h:154).
HandleIsClean ==
    \A t \in Threads : At(t, "opened") =>
        \A f \in Range(frame[t].opened) : tables[f] \subseteq {frame[t].meta}

\* A node's parameters are what its creation made them: no later or concurrent creation
\* empties or replaces them, whoever holds the file.
ParametersStay ==
    [][\A f \in DOMAIN metas : metas[f] # 0 => metas'[f] = metas[f]]_vars

\* An open comes to an answer, a handle or an error (tsdb.h:176), whatever the other
\* threads do.
OpenAnswers == \A t \in Threads : rc[t] # "killed"

\* What a request has come to, from where its thread is.
outcome ==
    [t \in Threads |->
        CASE At(t, "create")                  -> "creating"
          [] At(t, "delete")                  -> "deleting"
          [] At(t, "open")                    -> "opening"
          [] At(t, "populate")                -> "created"
          [] At(t, "sweep")                   -> "deleted"
          [] pc[t] \in {"validate", "tables"} -> "opened"
          [] OTHER -> IF rc[t] = "killed" THEN "lost" ELSE rc[t]]

Registry == INSTANCE NodeRegistry WITH exists <- entry # 0, outcome <- outcome

\* To its callers the node is a registry entry that creation, deletion and opening
\* find or do not find at one moment: of two creations one wins, and so on.
ImplementsRegistry == Registry!Spec
=============================================================================
