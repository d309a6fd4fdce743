--------------------------- MODULE NodeFilesProofs ---------------------------
(* Proofs about the files of a node, for any threads, layers and faults.       *)
EXTENDS NodeFiles, SequenceTheorems, TLAPS

\* Where each thread may be, given its local variables.
FrameOK ==
    \A t \in Threads :
        /\ pc[t] \in {"create", "populate"} => frame[t].layers \in LayerCounts
        /\ pc[t] \in {"populate", "validate", "tables", "opened"} => frame[t].meta # 0
        /\ pc[t] \in {"open", "validate"} => frame[t].opened = <<>>
        /\ At(t, "tables") => Len(frame[t].opened) < frame[t].layers

\* A file that is being populated is still empty, and one thread populates it.
Populating ==
    \A t \in Threads : At(t, "populate") =>
        /\ metas[frame[t].meta] = 0
        /\ \A u \in Threads : At(u, "populate") /\ frame[u].meta = frame[t].meta => u = t

IInv == TypeOK /\ FrameOK /\ Populating

USE NodeFilesAssumption DEF At, Goto, Layers

LEMMA InitHolds == Init => IInv
  BY DEF Init, IInv, TypeOK, FrameOK, Populating, Frame, NoFrame

\* Steps that only move a thread and change its frame leave the files alone.
LEMMA ReturnHolds ==
    ASSUME NEW t \in Threads, NEW o \in {"created", "exists", "deleted", "missing", "opened",
                                         "lost", "none", "killed", "pending"},
           IInv, Return(t, o), UNCHANGED <<files, dir>>
    PROVE  IInv'
<1>1. TypeOK'
  BY SMTT(60) DEF IInv, TypeOK, Return, Frame, NoFrame, files, dir
<1>2. FrameOK'
  BY DEF IInv, TypeOK, FrameOK, Return, NoFrame
<1>3. Populating'
  BY DEF IInv, TypeOK, Populating, Return, NoFrame, files
<1> QED
  BY <1>1, <1>2, <1>3 DEF IInv

LEMMA CallHolds ==
    ASSUME NEW t \in Threads, NEW l \in {"create", "delete", "open"}, NEW n \in LayerCounts \union {0},
           l = "create" => n \in LayerCounts,
           IInv, Call(t, l, [NoFrame EXCEPT !.layers = n])
    PROVE  IInv'
<1>0. n \in 0..MaxLayers
  OBVIOUS
<1>1. TypeOK'
  <2> DEFINE f == [layers |-> n, meta |-> 0, opened |-> <<>>, at |-> 0]
  <2>1. [NoFrame EXCEPT !.layers = n] = f
    BY DEF NoFrame
  <2>2. f \in Frame
    BY <1>0 DEF Frame, IInv, TypeOK
  <2> HIDE DEF f
  <2>3. frame' = [frame EXCEPT ![t] = f] /\ Frame' = Frame
    BY <2>1 DEF Call, Frame, files
  <2> QED
    BY <2>2, <2>3, SMTT(60) DEF IInv, TypeOK, Call, files, dir
<1>2. FrameOK'
  BY DEF IInv, TypeOK, FrameOK, Call, NoFrame, Frame
<1>3. Populating'
  BY DEF IInv, TypeOK, Populating, Call, NoFrame, files
<1> QED
  BY <1>1, <1>2, <1>3 DEF IInv

LEMMA DieHolds ==
    ASSUME NEW r, IInv, Die(r), r \in [Threads -> {"none", "pending", "created", "exists",
                     "deleted", "missing", "opened", "lost", "killed"}]
    PROVE  IInv'
  BY DEF IInv, TypeOK, FrameOK, Populating, Die, Frame, NoFrame, files, dir

LEMMA CreateMetaHolds ==
    ASSUME NEW t \in Threads, IInv, CreateMeta(t) PROVE IInv'
<1>1. /\ metas' = Append(metas, 0) /\ Len(metas) \in Nat /\ Len(metas') = Len(metas) + 1
      /\ \A f \in 1..Len(metas) : metas'[f] = metas[f]
      /\ metas'[Len(metas) + 1] = 0
  BY DEF IInv, TypeOK, CreateMeta
<1>2. TypeOK'
  <2>1. metas' \in Seq(LayerCounts \union {0}) /\ entry' \in 0..Len(metas')
    BY <1>1 DEF IInv, TypeOK, CreateMeta
  <2>2. tables' \in Seq(SUBSET (1..Len(metas')))
    BY <1>1 DEF IInv, TypeOK, CreateMeta
  <2>3. frame' \in [Threads -> Frame']
    <3>1. Frame \subseteq Frame'
      BY <1>1 DEF Frame, CreateMeta
    <3>2. [frame[t] EXCEPT !.meta = Len(metas) + 1] \in Frame'
      <4>1. frame[t] \in Frame /\ Len(metas) + 1 \in 0..Len(metas')
        BY <1>1 DEF IInv, TypeOK
      <4>2. tables' = tables
        BY DEF CreateMeta
      <4> QED
        BY <4>1, <4>2 DEF Frame
    <3>3. frame' = [frame EXCEPT ![t] = [frame[t] EXCEPT !.meta = Len(metas) + 1]]
      BY DEF CreateMeta
    <3> HIDE DEF Frame
    <3> QED
      BY <3>1, <3>2, <3>3 DEF IInv, TypeOK
  <2> QED
    BY <2>1, <2>2, <2>3 DEF IInv, TypeOK, CreateMeta
<1>3. /\ frame' = [frame EXCEPT ![t] = [frame[t] EXCEPT !.meta = Len(metas) + 1]]
      /\ pc' = [pc EXCEPT ![t] = "populate"] /\ pc[t] = "create"
      /\ frame[t] \in Frame
  BY DEF IInv, TypeOK, CreateMeta
<1>4. /\ frame'[t].layers = frame[t].layers /\ frame'[t].meta = Len(metas) + 1
      /\ \A u \in Threads \ {t} : frame'[u] = frame[u]
  BY <1>3 DEF IInv, TypeOK, Frame
<1>5. FrameOK'
  BY <1>1, <1>3, <1>4 DEF IInv, TypeOK, FrameOK
<1>6. Populating'
  <2>1. \A u \in Threads : pc[u] = "populate" => frame[u].meta \in 1..Len(metas)
    BY SMTT(60) DEF IInv, TypeOK, FrameOK, Frame
  <2>2. \A u \in Threads \ {t} : pc'[u] = pc[u]
    BY <1>3 DEF IInv, TypeOK
  <2> QED
    BY <1>1, <1>3, <1>4, <2>1, <2>2 DEF IInv, Populating
<1> QED
  BY <1>2, <1>5, <1>6 DEF IInv

LEMMA PopulateHolds ==
    ASSUME NEW t \in Threads, IInv, Populate(t) PROVE IInv'
<1>1. /\ frame[t].meta \in 1..Len(metas) /\ frame[t].layers \in LayerCounts
      /\ metas' = [metas EXCEPT ![frame[t].meta] = frame[t].layers]
      /\ Len(metas) \in Nat /\ Len(metas') = Len(metas)
  BY DEF IInv, TypeOK, FrameOK, Populate, Frame
<1>2. TypeOK'
  BY <1>1 DEF IInv, TypeOK, Populate, Return, Frame, NoFrame, dir
<1>3. FrameOK'
  BY <1>1 DEF IInv, TypeOK, FrameOK, Populate, Return, NoFrame
<1>4. Populating'
  BY <1>1, SMTT(60) DEF IInv, TypeOK, FrameOK, Populating, Populate, Return, NoFrame, Frame
<1> QED
  BY <1>2, <1>3, <1>4 DEF IInv

LEMMA UnlinkMetaHolds ==
    ASSUME NEW t \in Threads, IInv, UnlinkMeta(t) PROVE IInv'
  BY SMTT(60) DEF IInv, TypeOK, FrameOK, Populating, UnlinkMeta, Frame, files

LEMMA UnlinkTableHolds ==
    ASSUME NEW t \in Threads, IInv, UnlinkTable(t) PROVE IInv'
<1>1. TypeOK'
  <2>1. frame[t] \in Frame /\ frame[t].at + 1 \in 0..MaxLayers
    BY DEF IInv, TypeOK, UnlinkTable, Frame
  <2>2. [frame[t] EXCEPT !.at = frame[t].at + 1] \in Frame
    BY <2>1 DEF Frame
  <2>3. /\ frame' = [frame EXCEPT ![t] = [frame[t] EXCEPT !.at = frame[t].at + 1]]
        /\ Frame' = Frame
    BY DEF UnlinkTable, Frame, files
  <2>4. frame' \in [Threads -> Frame']
    BY <2>2, <2>3 DEF IInv, TypeOK
  <2> QED
    <3>1. 0 \in 0..Len(tables)
      BY DEF IInv, TypeOK
    <3> QED
      BY <2>4, <3>1 DEF IInv, TypeOK, UnlinkTable, files
<1> QED
  BY <1>1, ZenonT(90) DEF IInv, TypeOK, FrameOK, Populating, UnlinkTable, Frame, files

LEMMA OpenMetaHolds ==
    ASSUME NEW t \in Threads, IInv, OpenMeta(t) PROVE IInv'
<1>1. TypeOK'
  BY ZenonT(90) DEF IInv, TypeOK, OpenMeta, Frame, files, dir
<1> QED
  BY <1>1, SMTT(60) DEF IInv, TypeOK, FrameOK, Populating, OpenMeta, Frame, files, dir

LEMMA ValidateHolds ==
    ASSUME NEW t \in Threads, IInv, Validate(t) PROVE IInv'
<1>1. metas[frame[t].meta] \in LayerCounts
  BY DEF IInv, TypeOK, FrameOK, Validate, Frame
<1>2. TypeOK'
  <2>1. frame[t] \in Frame /\ metas[frame[t].meta] \in 0..MaxLayers
    <3>1. LayerCounts \subseteq 0..MaxLayers
      OBVIOUS
    <3> QED
      BY <1>1, <3>1 DEF IInv, TypeOK
  <2>2. [frame[t] EXCEPT !.layers = metas[frame[t].meta]] \in Frame
    BY <2>1 DEF Frame
  <2>3. /\ frame' = [frame EXCEPT ![t] = [frame[t] EXCEPT !.layers = metas[frame[t].meta]]]
        /\ Frame' = Frame
    BY DEF Validate, Frame, files
  <2>4. frame' \in [Threads -> Frame']
    BY <2>2, <2>3 DEF IInv, TypeOK
  <2> QED
    BY <2>4 DEF IInv, TypeOK, Validate, files, dir
<1>3. /\ frame[t] \in Frame /\ pc' = [pc EXCEPT ![t] = "tables"]
      /\ frame' = [frame EXCEPT ![t] = [frame[t] EXCEPT !.layers = metas[frame[t].meta]]]
      /\ metas' = metas
  BY DEF IInv, TypeOK, Validate, files
<1>4. frame[t].opened = <<>>
  BY DEF IInv, FrameOK, Validate
<1>5. FrameOK'
  <2>1. /\ frame'[t].layers = metas[frame[t].meta] /\ frame'[t].meta = frame[t].meta
        /\ frame'[t].opened = <<>> /\ \A u \in Threads \ {t} : frame'[u] = frame[u]
    BY <1>3, <1>4 DEF IInv, TypeOK, Frame
  <2>2. Len(frame'[t].opened) < frame'[t].layers /\ frame'[t].meta # 0
    BY <1>1, <2>1 DEF IInv, FrameOK, Validate
  <2> QED
    BY <1>3, <2>1, <2>2 DEF IInv, TypeOK, FrameOK
<1>6. Populating'
  BY <1>3 DEF IInv, TypeOK, Populating
<1> QED
  BY <1>2, <1>5, <1>6 DEF IInv

LEMMA OpenTableHolds ==
    ASSUME NEW t \in Threads, IInv, OpenTable(t) PROVE IInv'
<1> DEFINE l == Len(frame[t].opened)
           f == IF layer[l] # 0 THEN layer[l] ELSE Len(tables) + 1
<1>1. /\ frame[t] \in Frame /\ frame[t].opened \in Seq(1..Len(tables))
      /\ l \in Nat /\ frame[t].layers \in 0..MaxLayers /\ l < frame[t].layers
  BY DEF IInv, TypeOK, FrameOK, OpenTable, Frame
<1>2. l \in 0..MaxLayers-1 /\ layer[l] \in 0..Len(tables) /\ Len(tables) \in Nat
  BY <1>1 DEF IInv, TypeOK
<1>3. /\ tables' = IF layer[l] # 0 THEN tables ELSE Append(tables, {})
      /\ layer' = [layer EXCEPT ![l] = f]
      /\ frame' = [frame EXCEPT ![t] = [frame[t] EXCEPT !.opened = Append(frame[t].opened, f)]]
      /\ pc' = [pc EXCEPT ![t] = IF l + 1 = frame[t].layers THEN "opened" ELSE "tables"]
      /\ rc' = [rc EXCEPT ![t] = IF l + 1 = frame[t].layers THEN "opened" ELSE rc[t]]
      /\ metas' = metas /\ entry' = entry /\ pc[t] = "tables"
  BY DEF OpenTable
<1>4. /\ tables' \in Seq(SUBSET (1..Len(metas)))
      /\ Len(tables') \in Nat /\ Len(tables) <= Len(tables') /\ f \in 1..Len(tables')
  BY <1>2, <1>3 DEF IInv, TypeOK
<1> HIDE DEF f
<1>5. Append(frame[t].opened, f) \in Seq(1..Len(tables'))
  <2>1. 1..Len(tables) \subseteq 1..Len(tables')
    BY <1>2, <1>4
  <2>2. frame[t].opened \in Seq(1..Len(tables'))
    BY <1>1, <2>1, SeqMonotonic
  <2> QED
    BY <2>2, <1>4
<1>6. [frame[t] EXCEPT !.opened = Append(frame[t].opened, f)] \in Frame'
  BY <1>1, <1>3, <1>5 DEF Frame
<1>7. Frame \subseteq Frame'
  <2>1. 1..Len(tables) \subseteq 1..Len(tables')
    BY <1>2, <1>4
  <2>2. Seq(1..Len(tables)) \subseteq Seq(1..Len(tables'))
    BY <2>1, SeqMonotonic
  <2> QED
    BY <2>2, <1>3 DEF Frame
<1>8. frame' \in [Threads -> Frame']
  BY <1>3, <1>6, <1>7 DEF IInv, TypeOK
<1>9. layer' \in [0..MaxLayers-1 -> 0..Len(tables')]
  BY <1>2, <1>3, <1>4 DEF IInv, TypeOK
<1>10. TypeOK'
  BY <1>3, <1>4, <1>8, <1>9 DEF IInv, TypeOK
<1>11. FrameOK'
  <2> SUFFICES ASSUME NEW u \in Threads
               PROVE  (/\ pc[u] \in {"create", "populate"} => frame[u].layers \in LayerCounts
                       /\ pc[u] \in {"populate", "validate", "tables", "opened"} => frame[u].meta # 0
                       /\ pc[u] \in {"open", "validate"} => frame[u].opened = <<>>
                       /\ pc[u] = "tables" => Len(frame[u].opened) < frame[u].layers)'
    BY DEF FrameOK
  <2>1. CASE u # t
    BY <1>3, <2>1 DEF IInv, TypeOK, FrameOK
  <2>2. CASE u = t
    <3>1. /\ pc'[t] = IF l + 1 = frame[t].layers THEN "opened" ELSE "tables"
          /\ frame'[t].meta = frame[t].meta /\ frame'[t].layers = frame[t].layers
          /\ frame'[t].opened = Append(frame[t].opened, f)
      BY <1>1, <1>3 DEF IInv, TypeOK, Frame
    <3>2. Len(frame'[t].opened) = l + 1
      BY <1>1, <1>5, <3>1
    <3> QED
      BY <1>1, <1>3, <2>2, <3>1, <3>2 DEF IInv, FrameOK
  <2> QED
    BY <2>1, <2>2
<1>12. Populating'
  BY <1>3 DEF IInv, TypeOK, Populating
<1> QED
  BY <1>10, <1>11, <1>12 DEF IInv

LEMMA UseHolds ==
    ASSUME NEW t \in Threads, IInv, Use(t) PROVE IInv'
<1>1. frame[t].meta \in 1..Len(metas)
  BY DEF IInv, TypeOK, FrameOK, Use, Frame
<1>2. tables' \in Seq(SUBSET (1..Len(metas))) /\ Len(tables') = Len(tables)
  <2>1. /\ Len(tables) \in Nat /\ DOMAIN tables = 1..Len(tables)
        /\ tables \in [1..Len(tables) -> SUBSET (1..Len(metas))]
    BY DEF IInv, TypeOK
  <2>2. tables' \in [1..Len(tables) -> SUBSET (1..Len(metas))]
    BY <1>1, <2>1 DEF Use
  <2> QED
    BY <2>1, <2>2, SeqDef
<1> QED
  BY <1>2 DEF IInv, TypeOK, FrameOK, Populating, Use, Frame, dir

LEMMA StepHolds == IInv /\ [Next]_vars => IInv'
<1> SUFFICES ASSUME IInv, [Next]_vars PROVE IInv'
  OBVIOUS
<1>1. ASSUME NEW t \in Threads, NEW n \in LayerCounts, Create(t, n) PROVE IInv'
  BY <1>1, CallHolds DEF Create
<1>2. ASSUME NEW t \in Threads, Delete(t) \/ Open(t) PROVE IInv'
  <2>1. [NoFrame EXCEPT !.layers = 0] = NoFrame
    BY DEF NoFrame
  <2> QED
    BY <1>2, <2>1, CallHolds DEF Delete, Open
<1>3. ASSUME NEW t \in Threads, CreateSteps(t) PROVE IInv'
  BY <1>3, CreateMetaHolds, PopulateHolds, ReturnHolds
  DEF CreateSteps, AlreadyExists, FailPopulate
<1>4. ASSUME NEW t \in Threads, DeleteSteps(t) PROVE IInv'
  BY <1>4, UnlinkMetaHolds, UnlinkTableHolds, ReturnHolds
  DEF DeleteSteps, NothingToDelete, EndSweep
<1>5. \A r \in [Threads -> {"none", "pending", "created", "exists", "deleted", "missing",
                            "opened", "lost", "killed"}] : Die(r) => IInv'
  BY DieHolds
<1>6. Lost \in [Threads -> {"none", "pending", "created", "exists", "deleted", "missing",
                            "opened", "lost", "killed"}]
  BY DEF Lost, IInv, TypeOK
<1>7. ASSUME NEW t \in Threads, OpenSteps(t) PROVE IInv'
  <2>1. [Lost EXCEPT ![t] = "killed"] \in
           [Threads -> {"none", "pending", "created", "exists", "deleted", "missing",
                        "opened", "lost", "killed"}]
    BY <1>6
  <2> QED
    BY <1>5, <1>7, <2>1, OpenMetaHolds, ValidateHolds, OpenTableHolds, ReturnHolds
    DEF OpenSteps, NoSuchNode, Sigbus
<1>8. ASSUME NEW t \in Threads, HandleSteps(t) PROVE IInv'
  <2>1. CASE Use(t)
    BY <2>1, UseHolds
  <2>2. CASE Close(t)
    BY <2>2, ReturnHolds DEF Close, IInv, TypeOK
  <2> QED
    BY <1>8, <2>1, <2>2 DEF HandleSteps
<1>9. CASE Crash
  BY <1>5, <1>6, <1>9 DEF Crash
<1>10. ASSUME NEW t \in Threads, FailCall(t) PROVE IInv'
  BY <1>10, ReturnHolds DEF FailCall
<1>11. CASE UNCHANGED vars
  BY <1>11 DEF vars, files, dir, IInv, TypeOK, FrameOK, Populating, Frame
<1> QED
  BY <1>1, <1>2, <1>3, <1>4, <1>7, <1>8, <1>9, <1>10, <1>11 DEF Next

LEMMA InvHolds == Spec => []IInv
  BY InitHolds, StepHolds, PTL DEF Spec

\* Every variable stays in its type.
THEOREM FilesTypeCorrect == Spec => []TypeOK
<1>1. IInv => TypeOK
  BY DEF IInv
<1> QED
  BY <1>1, InvHolds, PTL

-----------------------------------------------------------------------------
(* The parameters of a node, and the registry.                                 *)

\* The parameters of a node are never changed after its creation.
THEOREM ParametersAreKept == Spec => ParametersStay
<1>1. IInv /\ [Next]_vars => [\A f \in DOMAIN metas : metas[f] # 0 => metas'[f] = metas[f]]_vars
  <2> SUFFICES ASSUME IInv, Next, NEW f \in DOMAIN metas, metas[f] # 0
               PROVE  metas'[f] = metas[f]
    OBVIOUS
  <2>1. metas \in Seq(LayerCounts \union {0})
    BY DEF IInv, TypeOK
  <2>2. ASSUME NEW t \in Threads, CreateMeta(t) PROVE metas'[f] = metas[f]
    BY <2>1, <2>2 DEF CreateMeta
  <2>3. ASSUME NEW t \in Threads, Populate(t) PROVE metas'[f] = metas[f]
    BY <2>1, <2>3 DEF IInv, Populating, Populate
  <2>4. CASE metas' = metas
    BY <2>4
  <2>5. ASSUME NEW t \in Threads, CreateSteps(t) PROVE metas'[f] = metas[f]
    BY <2>2, <2>3, <2>4, <2>5 DEF CreateSteps, AlreadyExists, FailPopulate, files
  <2>6. ASSUME NEW t \in Threads, \/ \E n \in LayerCounts : Create(t, n)
                                  \/ Delete(t) \/ Open(t)
                                  \/ DeleteSteps(t) \/ OpenSteps(t) \/ HandleSteps(t)
                                  \/ FailCall(t)
        PROVE metas' = metas
    BY <2>6
    DEF Create, Delete, Open, Call, DeleteSteps, UnlinkMeta, NothingToDelete, UnlinkTable,
        EndSweep, OpenSteps, OpenMeta, NoSuchNode, Validate, Sigbus, Die, OpenTable, FailCall,
        HandleSteps, Use, Close, files
  <2>7. Crash => metas' = metas
    BY DEF Crash, Die, files
  <2> QED
    BY <2>4, <2>5, <2>6, <2>7 DEF Next
<1> QED
  BY <1>1, InvHolds, PTL DEF Spec, ParametersStay

\* What the registry sees of one thread.
OutcomeOf(l, r) ==
    CASE l = "create"                  -> "creating"
      [] l = "delete"                  -> "deleting"
      [] l = "open"                    -> "opening"
      [] l = "populate"                -> "created"
      [] l = "sweep"                   -> "deleted"
      [] l \in {"validate", "tables"} -> "opened"
      [] OTHER -> IF r = "killed" THEN "lost" ELSE r

LEMMA OutcomeIs == outcome = [t \in Threads |-> OutcomeOf(pc[t], rc[t])]
  BY DEF outcome, OutcomeOf

\* A thread that moves changes its own outcome only.
LEMMA Moves ==
    ASSUME NEW t \in Threads, NEW l, NEW r, TypeOK,
           pc' = [pc EXCEPT ![t] = l], rc' = [rc EXCEPT ![t] = r]
    PROVE  /\ outcome' = [outcome EXCEPT ![t] = OutcomeOf(l, r)]
           /\ outcome[t] = OutcomeOf(pc[t], rc[t])
<1>1. outcome' = [u \in Threads |-> OutcomeOf(pc'[u], rc'[u])]
  BY DEF outcome, OutcomeOf
<1>2. \A u \in Threads : OutcomeOf(pc'[u], rc'[u]) =
                          IF u = t THEN OutcomeOf(l, r) ELSE OutcomeOf(pc[u], rc[u])
  BY DEF TypeOK
<1> HIDE DEF OutcomeOf
<1> QED
  BY <1>1, <1>2, OutcomeIs

\* The same, for a step that leaves rc alone.
LEMMA MovesOn ==
    ASSUME NEW t \in Threads, NEW l, TypeOK, pc' = [pc EXCEPT ![t] = l], UNCHANGED rc
    PROVE  /\ outcome' = [outcome EXCEPT ![t] = OutcomeOf(l, rc[t])]
           /\ outcome[t] = OutcomeOf(pc[t], rc[t])
<1>1. rc' = [rc EXCEPT ![t] = rc[t]]
  BY DEF TypeOK
<1> QED
  BY <1>1, Moves

\* A thread whose outcome stays the same is a step the registry does not see.
LEMMA Stutters ==
    ASSUME NEW t \in Threads, NEW o, outcome' = [outcome EXCEPT ![t] = o], outcome[t] = o
    PROVE  UNCHANGED outcome
<1>1. outcome = [u \in Threads |-> outcome[u]]
  BY DEF outcome
<1> HIDE DEF outcome
<1> QED
  BY <1>1

\* The death of the process loses the requests in progress, and others perhaps.
LEMMA DeathLoses ==
    ASSUME NEW r, IInv, Die(r),
           \A t \in Threads : (r[t] = rc[t] /\ ~Busy(t)) \/ r[t] \in {"lost", "killed"}
    PROVE  Registry!Lose
<1> DEFINE L == {t \in Threads : r[t] \in {"lost", "killed"}}
<1>1. L \in SUBSET Threads
  OBVIOUS
<1>2. outcome' = [t \in Threads |-> OutcomeOf("idle", r[t])]
  BY DEF Die, outcome, OutcomeOf
<1>3. ASSUME NEW t \in Threads, t \notin L
      PROVE  /\ outcome[t] = OutcomeOf("idle", r[t])
             /\ outcome[t] \notin Registry!Requests
  <2>1. r[t] = rc[t] /\ pc[t] \in {"idle", "opened"}
    BY <1>3 DEF Busy
  <2> QED
    BY <2>1 DEF outcome, OutcomeOf, Registry!Requests, IInv, TypeOK
<1>4. \A t \in L : OutcomeOf("idle", r[t]) = "lost"
  BY DEF OutcomeOf
<1>5. outcome' = [t \in Threads |-> IF t \in L THEN "lost" ELSE outcome[t]]
  <2> HIDE DEF L, OutcomeOf, outcome
  <2> QED
    BY <1>1, <1>2, <1>3, <1>4
<1>6. {t \in Threads : outcome[t] \in Registry!Requests} \subseteq L
  BY <1>3
<1>7. UNCHANGED (entry # 0)
  BY DEF Die, dir
<1> QED
  BY <1>1, <1>5, <1>6, <1>7 DEF Registry!Lose

LEMMA RegistryStep ==
    IInv /\ [Next]_vars => [Registry!Next]_(Registry!registryVars)
<1> SUFFICES ASSUME IInv, Next
             PROVE  Registry!Next \/ UNCHANGED <<entry # 0, outcome>>
  <2>1. UNCHANGED vars => UNCHANGED <<entry # 0, outcome>>
    BY DEF vars, dir, outcome
  <2> QED
    BY <2>1 DEF Registry!registryVars
<1>1. TypeOK
  BY DEF IInv
<1> USE DEF OutcomeOf
<1>2. ASSUME NEW t \in Threads,
             \/ \E n \in LayerCounts : Create(t, n)
             \/ Delete(t) \/ Open(t)
      PROVE  Registry!Next
  <2>1. PICK l \in {"create", "delete", "open"} : \E f : Call(t, l, f)
    BY <1>2 DEF Create, Delete, Open
  <2>2. /\ outcome' = [outcome EXCEPT ![t] = OutcomeOf(l, "pending")]
        /\ outcome[t] = OutcomeOf("idle", rc[t])
        /\ entry' = entry
    <3>1. /\ pc[t] = "idle" /\ pc' = [pc EXCEPT ![t] = l]
          /\ rc' = [rc EXCEPT ![t] = "pending"] /\ entry' = entry
      BY <2>1 DEF Call, dir
    <3> HIDE DEF OutcomeOf
    <3>2. /\ outcome' = [outcome EXCEPT ![t] = OutcomeOf(l, "pending")]
          /\ outcome[t] = OutcomeOf(pc[t], rc[t])
      BY <1>1, <3>1, Moves
    <3> QED
      BY <3>1, <3>2
  <2>3. outcome[t] \notin Registry!Requests /\ OutcomeOf(l, "pending") \in Registry!Requests
    BY <1>1, <2>2 DEF Registry!Requests, TypeOK
  <2>4. Registry!Request(t, OutcomeOf(l, "pending"))
    <3> HIDE DEF OutcomeOf, outcome
    <3> QED
      BY <2>2, <2>3 DEF Registry!Request, Registry!Become
  <2> QED
    BY <2>3, <2>4 DEF Registry!Next
<1>3. ASSUME NEW t \in Threads, CreateMeta(t) PROVE Registry!Create(t)
  <2>1. /\ outcome' = [outcome EXCEPT ![t] = "created"] /\ outcome[t] = "creating"
        /\ entry = 0
    BY <1>1, <1>3, MovesOn DEF CreateMeta
  <2>2. entry' # 0
    BY <1>1, <1>3 DEF CreateMeta, TypeOK
  <2> QED
    BY <2>1, <2>2 DEF Registry!Create, Registry!Become
<1>4. ASSUME NEW t \in Threads, AlreadyExists(t) PROVE Registry!Create(t)
  <2>1. /\ outcome' = [outcome EXCEPT ![t] = "exists"] /\ outcome[t] = "creating"
        /\ entry # 0 /\ entry' = entry
    BY <1>1, <1>4, Moves, ZenonT(90) DEF AlreadyExists, Return, dir
  <2> QED
    BY <2>1 DEF Registry!Create, Registry!Become
<1>5. ASSUME NEW t \in Threads, Populate(t) \/ FailPopulate(t)
      PROVE  UNCHANGED <<entry # 0, outcome>>
  <2>1. /\ outcome' = [outcome EXCEPT ![t] = "created"] /\ outcome[t] = "created"
        /\ entry' = entry
    BY <1>1, <1>5, Moves DEF Populate, FailPopulate, Return, dir
  <2> QED
    BY <2>1, Stutters
<1>6. ASSUME NEW t \in Threads, UnlinkMeta(t) PROVE Registry!Delete(t)
  <2>1. /\ outcome' = [outcome EXCEPT ![t] = "deleted"] /\ outcome[t] = "deleting"
        /\ entry # 0 /\ entry' = 0
    BY <1>1, <1>6, MovesOn DEF UnlinkMeta
  <2> QED
    BY <2>1 DEF Registry!Delete, Registry!Become
<1>7. ASSUME NEW t \in Threads, NothingToDelete(t) PROVE Registry!Delete(t)
  <2>1. /\ outcome' = [outcome EXCEPT ![t] = "missing"] /\ outcome[t] = "deleting"
        /\ entry = 0 /\ entry' = entry
    BY <1>1, <1>7, Moves, ZenonT(90) DEF NothingToDelete, Return, dir
  <2> QED
    BY <2>1 DEF Registry!Delete, Registry!Become
<1>8. ASSUME NEW t \in Threads, UnlinkTable(t) \/ EndSweep(t)
      PROVE  UNCHANGED <<entry # 0, outcome>>
  <2>1. CASE UnlinkTable(t)
    BY <2>1 DEF UnlinkTable, outcome
  <2>2. CASE EndSweep(t)
    <3>1. /\ outcome' = [outcome EXCEPT ![t] = "deleted"] /\ outcome[t] = "deleted"
          /\ entry' = entry
      BY <1>1, <2>2, Moves, ZenonT(90) DEF EndSweep, Return, dir
    <3> QED
      BY <3>1, Stutters
  <2> QED
    BY <1>8, <2>1, <2>2
<1>9. ASSUME NEW t \in Threads, OpenMeta(t) PROVE Registry!Open(t)
  <2>1. /\ outcome' = [outcome EXCEPT ![t] = "opened"] /\ outcome[t] = "opening"
        /\ entry # 0 /\ entry' = entry
    BY <1>1, <1>9, MovesOn DEF OpenMeta, dir
  <2> QED
    BY <2>1 DEF Registry!Open, Registry!Become
<1>10. ASSUME NEW t \in Threads, NoSuchNode(t) PROVE Registry!Open(t)
  <2>1. /\ outcome' = [outcome EXCEPT ![t] = "missing"] /\ outcome[t] = "opening"
        /\ entry = 0 /\ entry' = entry
    BY <1>1, <1>10, Moves, ZenonT(90) DEF NoSuchNode, Return, dir
  <2> QED
    BY <2>1 DEF Registry!Open, Registry!Become
<1>11. ASSUME NEW t \in Threads, Validate(t) PROVE UNCHANGED <<entry # 0, outcome>>
  <2>1. /\ outcome' = [outcome EXCEPT ![t] = "opened"] /\ outcome[t] = "opened"
        /\ entry' = entry
    BY <1>1, <1>11, MovesOn DEF Validate, dir
  <2> QED
    BY <2>1, Stutters
<1>12. ASSUME NEW t \in Threads, OpenTable(t) PROVE UNCHANGED <<entry # 0, outcome>>
  <2> DEFINE last == Len(frame[t].opened) + 1 = frame[t].layers
             l == IF last THEN "opened" ELSE "tables"
             r == IF last THEN "opened" ELSE rc[t]
  <2>1. pc' = [pc EXCEPT ![t] = l] /\ rc' = [rc EXCEPT ![t] = r] /\ entry' = entry
        /\ pc[t] = "tables"
    BY <1>12 DEF OpenTable
  <2>2. OutcomeOf(l, r) = "opened"
    OBVIOUS
  <2>3. outcome' = [outcome EXCEPT ![t] = "opened"] /\ outcome[t] = "opened"
    <3>1. OutcomeOf("tables", rc[t]) = "opened"
      OBVIOUS
    <3> HIDE DEF l, r, OutcomeOf
    <3> QED
      <4>1. outcome' = [outcome EXCEPT ![t] = OutcomeOf(l, r)] /\ outcome[t] = OutcomeOf(pc[t], rc[t])
        <5> HIDE DEF outcome
        <5> QED
          BY <1>1, <2>1, Moves
      <4> HIDE DEF outcome
      <4> QED
        BY <2>1, <2>2, <3>1, <4>1
  <2> QED
    BY <2>1, <2>3, Stutters
<1>13. ASSUME NEW t \in Threads, FailCall(t) PROVE Registry!Fail(t)
  <2>1. /\ outcome' = [outcome EXCEPT ![t] = "lost"] /\ entry' = entry
        /\ outcome[t] = OutcomeOf(pc[t], rc[t])
    <3>1. pc' = [pc EXCEPT ![t] = "idle"] /\ rc' = [rc EXCEPT ![t] = "lost"] /\ entry' = entry
      BY <1>13 DEF FailCall, Return, Goto, dir
    <3>2. OutcomeOf("idle", "lost") = "lost"
      OBVIOUS
    <3> HIDE DEF OutcomeOf, outcome
    <3>3. outcome' = [outcome EXCEPT ![t] = OutcomeOf("idle", "lost")] /\ outcome[t] = OutcomeOf(pc[t], rc[t])
      BY <1>1, <3>1, Moves
    <3> QED
      BY <3>1, <3>2, <3>3
  <2>2. OutcomeOf(pc[t], rc[t]) \in {"creating", "deleting", "opening", "opened"}
    BY <1>13 DEF FailCall
  <2> HIDE DEF OutcomeOf, outcome
  <2> QED
    BY <2>1, <2>2 DEF Registry!Fail, Registry!Become, Registry!Requests
<1>14. ASSUME NEW t \in Threads, HandleSteps(t) PROVE UNCHANGED <<entry # 0, outcome>>
  <2>1. CASE Use(t)
    BY <2>1 DEF Use, dir, outcome
  <2>2. CASE Close(t)
    <3>1. /\ outcome' = [outcome EXCEPT ![t] = OutcomeOf("idle", rc[t])]
          /\ outcome[t] = OutcomeOf("idle", rc[t])
          /\ entry' = entry
      <4>1. /\ pc[t] = "opened" /\ pc' = [pc EXCEPT ![t] = "idle"]
            /\ rc' = [rc EXCEPT ![t] = rc[t]] /\ entry' = entry
        BY <2>2 DEF Close, Return, dir
      <4>2. OutcomeOf("opened", rc[t]) = OutcomeOf("idle", rc[t])
        OBVIOUS
      <4> HIDE DEF OutcomeOf
      <4> QED
        BY <1>1, <4>1, <4>2, Moves
    <3> HIDE DEF OutcomeOf
    <3> QED
      BY <3>1, Stutters
  <2> QED
    BY <1>14, <2>1, <2>2 DEF HandleSteps
<1>15. ASSUME Crash \/ \E t \in Threads : Sigbus(t) PROVE Registry!Lose
  <2>1. CASE Crash
    BY <2>1, DeathLoses DEF Crash, Lost
  <2>2. ASSUME NEW t \in Threads, Sigbus(t) PROVE Registry!Lose
    BY <2>2, DeathLoses DEF Sigbus, Lost
  <2> QED
    BY <1>15, <2>1, <2>2
<1> QED
  BY <1>2, <1>3, <1>4, <1>5, <1>6, <1>7, <1>8, <1>9, <1>10, <1>11, <1>12, <1>13, <1>14, <1>15
  DEF Next, CreateSteps, DeleteSteps, OpenSteps, Registry!Next

\* The files of a node implement the registry: whatever the threads, the layers and the
\* faults, every request takes effect at one moment, with the right outcome.
THEOREM FilesImplementRegistry == Spec => ImplementsRegistry
<1>1. Init => Registry!Init
  BY DEF Init, Registry!Init, outcome
<1> QED
  BY <1>1, InvHolds, RegistryStep, PTL DEF Spec, ImplementsRegistry, Registry!Spec

-----------------------------------------------------------------------------
(* One connection and no faults: what a deletion leaves and a new node finds.   *)

\* The tables are those of the node there is, layer 0 first, and all in its handle.  Within
\* a deletion they are the ones from the layer on that it has come to.
Tidy(t) ==
    LET f == frame[t] IN
    /\ \A k, l \in Layers :
          k < l /\ layer[l] # 0 /\ (At(t, "sweep") => f.at <= k) => layer[k] # 0
    /\ At(t, "sweep") => entry = 0 /\ \A l \in Layers : l < f.at => layer[l] = 0
    /\ ~At(t, "sweep") => f.at = 0
    /\ ~At(t, "sweep") /\ entry = 0 => \A l \in Layers : layer[l] = 0
    /\ entry # 0 => \A l \in Layers : layer[l] # 0 => tables[layer[l]] \subseteq {entry}
    /\ pc[t] \in {"populate", "validate", "tables", "opened"} => f.meta = entry
    /\ pc[t] \in {"tables", "opened"} =>
          /\ Len(f.opened) <= MaxLayers
          /\ \A l \in Layers : l < Len(f.opened) => f.opened[l + 1] = layer[l]

LEMMA TidyInit ==
    ASSUME NEW t, Threads = {t}, Init
    PROVE  Tidy(t)
  BY DEF Init, Tidy, NoFrame

\* A return leaves the files as they are; it ends a deletion that has no table left.
LEMMA TidyReturn ==
    ASSUME NEW t, Threads = {t}, IInv, Tidy(t), NEW o, Return(t, o), UNCHANGED <<files, dir>>,
           At(t, "sweep") => \A l \in Layers : layer[l] = 0
    PROVE  Tidy(t)'
<1>1. /\ pc'[t] = "idle" /\ frame'[t] = NoFrame
      /\ tables' = tables /\ entry' = entry /\ layer' = layer
  BY DEF Return, IInv, TypeOK, files, dir
<1> QED
  BY <1>1 DEF Tidy, NoFrame

LEMMA TidyCall ==
    ASSUME NEW t, Threads = {t}, IInv, Tidy(t), NEW l \in {"create", "delete", "open"},
           NEW n \in Nat, Call(t, l, [NoFrame EXCEPT !.layers = n])
    PROVE  Tidy(t)'
<1>1. /\ pc[t] = "idle" /\ pc'[t] = l /\ tables' = tables /\ entry' = entry /\ layer' = layer
      /\ frame'[t] = [NoFrame EXCEPT !.layers = n]
  BY DEF Call, IInv, TypeOK, files, dir
<1>2. frame'[t].at = 0
  BY <1>1 DEF NoFrame
<1> QED
  BY <1>1, <1>2 DEF Tidy

LEMMA TidyTable ==
    ASSUME NEW t, Threads = {t}, IInv, Tidy(t), OpenTable(t)
    PROVE  Tidy(t)'
<1> DEFINE l == Len(frame[t].opened)
           f == IF layer[l] # 0 THEN layer[l] ELSE Len(tables) + 1
<1>0. t \in Threads /\ Len(tables) \in Nat
  BY DEF IInv, TypeOK
<1>1. /\ frame[t] \in Frame /\ frame[t].opened \in Seq(1..Len(tables))
      /\ l \in Nat /\ frame[t].layers \in 0..MaxLayers /\ l < frame[t].layers
  BY <1>0 DEF IInv, TypeOK, FrameOK, OpenTable, Frame
<1>2. l \in Layers /\ layer \in [Layers -> 0..Len(tables)] /\ l < MaxLayers
  BY <1>1 DEF IInv, TypeOK
<1>3. /\ tables' = IF layer[l] # 0 THEN tables ELSE Append(tables, {})
      /\ layer' = [layer EXCEPT ![l] = f]
      /\ frame'[t] = [frame[t] EXCEPT !.opened = Append(frame[t].opened, f)]
      /\ pc'[t] \in {"tables", "opened"} /\ pc[t] = "tables"
      /\ entry' = entry
  BY <1>0 DEF OpenTable, IInv, TypeOK
<1>4. /\ frame'[t].meta = frame[t].meta /\ frame'[t].at = frame[t].at
      /\ frame'[t].opened = Append(frame[t].opened, f)
  BY <1>1, <1>3 DEF Frame
<1>5. /\ frame[t].meta = entry /\ entry # 0 /\ frame[t].at = 0
      /\ \A k \in Layers : k < l => frame[t].opened[k + 1] = layer[k]
      /\ \A k \in Layers : layer[k] # 0 => tables[layer[k]] \subseteq {entry}
      /\ \A k, j \in Layers : k < j /\ layer[j] # 0 => layer[k] # 0
  BY <1>0, <1>3 DEF Tidy, IInv, FrameOK
<1>6. f # 0 /\ f \in 1..(Len(tables) + 1) /\ tables' \in Seq(SUBSET (1..Len(metas)))
  BY <1>0, <1>2, <1>3 DEF IInv, TypeOK
<1>7. /\ \A g \in 1..Len(tables) : tables'[g] = tables[g]
      /\ tables'[f] \subseteq {entry}
  <2>1. CASE layer[l] # 0
    BY <1>2, <1>3, <1>5, <2>1
  <2>2. CASE layer[l] = 0
    BY <1>0, <1>3, <2>2 DEF IInv, TypeOK
  <2> QED
    BY <2>1, <2>2
<1> HIDE DEF f
<1>8. layer'[l] = f /\ \A k \in Layers : k # l => layer'[k] = layer[k]
  BY <1>2, <1>3
<1>9. \A k \in Layers : k < l => layer[k] # 0
  <2> SUFFICES ASSUME NEW k \in Layers, k < l PROVE layer[k] # 0
    OBVIOUS
  <2>1. frame[t].opened[k + 1] \in 1..Len(tables)
    BY <1>1
  <2> QED
    BY <1>5, <2>1
<1>10. \A k, j \in Layers : k < j /\ layer'[j] # 0 => layer'[k] # 0
  BY <1>2, <1>5, <1>6, <1>8, <1>9, ZenonT(90)
<1>11. \A k \in Layers : layer'[k] # 0 => tables'[layer'[k]] \subseteq {entry'}
  <2> SUFFICES ASSUME NEW k \in Layers, layer'[k] # 0 PROVE tables'[layer'[k]] \subseteq {entry'}
    OBVIOUS
  <2>1. CASE k = l
    BY <1>3, <1>7, <1>8, <2>1
  <2>2. CASE k # l
    <3>1. layer'[k] = layer[k] /\ layer[k] \in 1..Len(tables)
      BY <1>2, <1>8, <2>2
    <3> QED
      BY <1>3, <1>5, <1>7, <3>1
  <2> QED
    BY <2>1, <2>2
<1>12. /\ Len(frame'[t].opened) = l + 1 /\ l + 1 <= MaxLayers
       /\ \A k \in Layers : k < l + 1 => frame'[t].opened[k + 1] = layer'[k]
  <2>1. Len(frame'[t].opened) = l + 1 /\ frame'[t].opened[l + 1] = f
        /\ \A k \in 1..l : frame'[t].opened[k] = frame[t].opened[k]
    BY <1>1, <1>4
  <2>2. l + 1 <= MaxLayers
    BY <1>2
  <2> SUFFICES ASSUME NEW k \in Layers, k < l + 1 PROVE frame'[t].opened[k + 1] = layer'[k]
    BY <2>1, <2>2
  <2>3. CASE k = l
    BY <1>8, <2>1, <2>3
  <2>4. CASE k # l
    <3>1. k < l /\ k + 1 \in 1..l
      BY <1>1, <2>4
    <3> QED
      BY <1>5, <1>8, <2>1, <2>4, <3>1
  <2> QED
    BY <2>3, <2>4
<1>13. pc'[t] # "sweep" /\ entry' # 0 /\ frame'[t].at = 0 /\ frame'[t].meta = entry'
  BY <1>3, <1>4, <1>5
<1> QED
  BY <1>10, <1>11, <1>12, <1>13, ZenonT(90) DEF Tidy, Layers

LEMMA TidyStep ==
    ASSUME NEW t, Threads = {t}, Faults = {}, IInv, Tidy(t), [Next]_vars
    PROVE  Tidy(t)'
<1>0. t \in Threads /\ frame[t] \in Frame /\ frame[t].at \in Nat
  BY DEF IInv, TypeOK, Frame
<1>1. ASSUME NEW n \in LayerCounts, Create(t, n) PROVE Tidy(t)'
  <2>1. n \in Nat
    OBVIOUS
  <2> QED
    BY <1>1, <2>1, TidyCall DEF Create
<1>2. CASE Delete(t) \/ Open(t)
  <2>1. [NoFrame EXCEPT !.layers = 0] = NoFrame
    BY DEF NoFrame
  <2> QED
    BY <1>2, <2>1, TidyCall DEF Delete, Open
<1>3. CASE CreateMeta(t)
  <2>1. /\ pc[t] = "create" /\ pc'[t] = "populate" /\ entry = 0 /\ entry' = Len(metas) + 1
        /\ layer' = layer /\ tables' = tables
        /\ frame'[t] = [frame[t] EXCEPT !.meta = Len(metas) + 1] /\ entry' # 0
    BY <1>0, <1>3 DEF CreateMeta, IInv, TypeOK
  <2>2. frame'[t].meta = entry' /\ frame'[t].at = frame[t].at
    BY <1>0, <2>1 DEF Frame
  <2>3. \A l \in Layers : layer[l] = 0
    BY <2>1 DEF Tidy
  <2> QED
    BY <2>1, <2>2, <2>3 DEF Tidy
<1>4. CASE AlreadyExists(t) \/ Populate(t) \/ NothingToDelete(t) \/ NoSuchNode(t) \/ Close(t)
  <2>1. /\ \E o : Return(t, o)
        /\ tables' = tables /\ entry' = entry /\ layer' = layer /\ pc[t] # "sweep"
    BY <1>4 DEF AlreadyExists, Populate, NothingToDelete, NoSuchNode, Close, files, dir
  <2>2. pc'[t] = "idle" /\ frame'[t] = NoFrame
    BY <1>0, <2>1 DEF Return, IInv, TypeOK
  <2> QED
    BY <2>1, <2>2 DEF Tidy, NoFrame
<1>5. CASE UnlinkMeta(t)
  BY <1>0, <1>5 DEF UnlinkMeta, Tidy, IInv, TypeOK, files
<1>6. CASE UnlinkTable(t)
  <2>1. /\ pc[t] = "sweep" /\ pc'[t] = "sweep" /\ entry' = entry /\ tables' = tables
        /\ layer' = [layer EXCEPT ![frame[t].at] = 0] /\ frame[t].at < MaxLayers
        /\ frame'[t] = [frame[t] EXCEPT !.at = frame[t].at + 1]
    BY <1>0, <1>6 DEF UnlinkTable, IInv, TypeOK, files
  <2>2. frame'[t].at = frame[t].at + 1
    BY <1>0, <2>1 DEF Frame
  <2>3. \A l \in Layers : layer'[l] = IF l = frame[t].at THEN 0 ELSE layer[l]
    BY <2>1 DEF IInv, TypeOK
  <2> QED
    BY <1>0, <2>1, <2>2, <2>3 DEF Tidy
<1>7. CASE EndSweep(t)
  <2>1. \A l \in Layers : layer[l] = 0
    <3>1. /\ frame[t].at < MaxLayers => layer[frame[t].at] = 0
          /\ \A l \in Layers : l < frame[t].at => layer[l] = 0
          /\ \A k, l \in Layers : k < l /\ layer[l] # 0 /\ frame[t].at <= k => layer[k] # 0
      BY <1>7 DEF EndSweep, Tidy
    <3> SUFFICES ASSUME NEW l \in Layers, layer[l] # 0 PROVE FALSE
      OBVIOUS
    <3>2. frame[t].at \in Layers /\ frame[t].at <= l
      BY <1>0, <3>1
    <3> QED
      BY <1>0, <3>1, <3>2
  <2> QED
    BY <1>7, <2>1, TidyReturn DEF EndSweep
<1>8. CASE OpenMeta(t)
  <2>1. /\ pc[t] = "open" /\ pc'[t] = "validate" /\ entry' = entry /\ entry # 0
        /\ layer' = layer /\ tables' = tables
        /\ frame'[t] = [frame[t] EXCEPT !.meta = entry]
    BY <1>0, <1>8 DEF OpenMeta, IInv, TypeOK, files, dir
  <2>2. frame'[t].meta = entry /\ frame'[t].at = frame[t].at
    BY <1>0, <2>1 DEF Frame
  <2> QED
    BY <2>1, <2>2 DEF Tidy
<1>9. CASE Validate(t)
  <2>1. /\ pc[t] = "validate" /\ pc'[t] = "tables" /\ entry' = entry
        /\ layer' = layer /\ tables' = tables
        /\ frame'[t] = [frame[t] EXCEPT !.layers = metas[frame[t].meta]]
    BY <1>0, <1>9 DEF Validate, IInv, TypeOK, files, dir
  <2>2. /\ frame'[t].meta = frame[t].meta /\ frame'[t].at = frame[t].at
        /\ frame'[t].opened = frame[t].opened /\ frame[t].opened = <<>>
    BY <1>0, <2>1 DEF Frame, IInv, FrameOK
  <2>3. Len(frame'[t].opened) = 0
    BY <2>2
  <2> QED
    BY <2>1, <2>2, <2>3 DEF Tidy
<1>10. CASE Sigbus(t)
  <2>1. /\ pc'[t] = "idle" /\ frame'[t] = NoFrame /\ pc[t] = "validate"
        /\ tables' = tables /\ entry' = entry /\ layer' = layer
    BY <1>0, <1>10 DEF Sigbus, Die, files, dir
  <2> QED
    BY <2>1 DEF Tidy, NoFrame
<1>11. CASE OpenTable(t)
  BY <1>11, TidyTable
<1>12. CASE Use(t)
  <2>1. /\ pc[t] = "opened" /\ pc' = pc /\ frame' = frame /\ entry' = entry /\ layer' = layer
        /\ \A f \in 1..Len(tables) : tables'[f] \subseteq tables[f] \union {frame[t].meta}
    BY <1>12 DEF Use, IInv, TypeOK, dir
  <2>2. frame[t].meta = entry /\ \A l \in Layers : layer[l] # 0 => layer[l] \in 1..Len(tables)
    BY <2>1 DEF Tidy, IInv, TypeOK
  <2>3. \A l \in Layers : layer[l] # 0 /\ entry # 0 => tables'[layer[l]] \subseteq {entry}
    BY <2>1, <2>2 DEF Tidy
  <2> QED
    BY <2>1, <2>3 DEF Tidy
<1>13. CASE UNCHANGED vars
  BY <1>13 DEF vars, files, dir, Tidy
<1>14. CASE Crash \/ FailPopulate(t) \/ FailCall(t)
  BY <1>14 DEF Crash, FailPopulate, FailCall
<1> QED
  BY <1>1, <1>2, <1>3, <1>4, <1>5, <1>6, <1>7, <1>8, <1>9, <1>10, <1>11, <1>12, <1>13, <1>14
  DEF Next, CreateSteps, DeleteSteps, OpenSteps, HandleSteps

LEMMA TidyIsClean ==
    ASSUME NEW t, Threads = {t}, IInv, Tidy(t)
    PROVE  DeleteIsComplete /\ HandleIsClean
<1>1. DeleteIsComplete
  BY DEF DeleteIsComplete, Quiet, Tidy
<1>2. ASSUME pc[t] = "opened", NEW f \in Range(frame[t].opened)
      PROVE  tables[f] \subseteq {frame[t].meta}
  <2>1. frame[t].meta = entry /\ entry # 0 /\ frame[t].opened \in Seq(1..Len(tables))
        /\ Len(tables) \in Nat
    BY <1>2 DEF Tidy, IInv, TypeOK, FrameOK, Frame
  <2>2. PICK i \in 1..Len(frame[t].opened) : f = frame[t].opened[i]
    BY <1>2, <2>1 DEF Range
  <2>3. i - 1 \in Layers /\ (i - 1) + 1 = i /\ i - 1 < Len(frame[t].opened)
    BY <1>2, <2>1 DEF Tidy
  <2>4. frame[t].opened[(i - 1) + 1] = layer[i - 1]
    BY <1>2, <2>3 DEF Tidy
  <2>5. f = layer[i - 1] /\ f # 0
    BY <2>1, <2>2, <2>3, <2>4
  <2> QED
    BY <2>1, <2>3, <2>5 DEF Tidy
<1> QED
  BY <1>1, <1>2 DEF HandleIsClean

\* When one connection works on a node and nothing fails, whatever it does: a deletion leaves
\* no table, and no handle reaches values of a node deleted before.
THEOREM DeletionIsClean ==
    ASSUME NEW t, Threads = {t}, Faults = {}
    PROVE  Spec => [](DeleteIsComplete /\ HandleIsClean)
<1>1. Init => Tidy(t)
  BY TidyInit
<1>2. IInv /\ Tidy(t) /\ [Next]_vars => Tidy(t)'
  BY TidyStep
<1>3. IInv /\ Tidy(t) => DeleteIsComplete /\ HandleIsClean
  BY TidyIsClean
<1> QED
  BY <1>1, <1>2, <1>3, InvHolds, PTL DEF Spec
=============================================================================
