------------------------------ MODULE MCServer ------------------------------
(* The parts of the server that run on their own, for TLC: a behaviour belongs    *)
(* to one part, the downsampling of a block, the daemon with its key file, a       *)
(* request body, or a node that one connection at a time uses, and the variables  *)
(* of the other parts rest.                                                      *)
EXTENDS MCDownsample, Daemon, MCPayloads

CONSTANTS Now,                                                                 \* Payloads
          a                                                                    \* NodeFiles

VARIABLES part,
          at,      \* where the request is, for the parts below
          body, params, meta, layer, answer,
          metas, tables, entry, frame, rc

body_vars   == <<body, params, meta, answer>>
node_vars   == <<metas, tables, entry, frame, rc>>
others      == <<at, layer, body_vars, node_vars>>
all_vars    == <<part, vars, host, others>>

P == INSTANCE Payloads WITH pc <- at, NodeBodies <- MCNodeBodies, PostBodies <- MCPostBodies

\* One connection, nodes of one table and of all.
N == INSTANCE NodeFiles WITH pc <- at, Threads <- {a}, LayerCounts <- {1, MaxLayers},
                             MaxCreated <- MaxLayers, Faults <- {}

BlockRests  == /\ mode = "Mean" /\ block = <<0>> /\ pc = "loop"
               /\ count = 0 /\ next_value = 0 /\ valid_count = 0 /\ over = 1
BodyRests   == body = "rest" /\ params = "rest" /\ meta = "rest" /\ answer = "rest"
NodeRests   == metas = "rest" /\ tables = "rest" /\ entry = 0 /\ frame = "rest" /\ rc = "rest"

PartsInit ==
    \/ part = "block" /\ Init /\ HostInit /\ at = "rest" /\ layer = 0 /\ BodyRests /\ NodeRests
    \/ part = "host" /\ HostInit /\ BlockRests /\ at = "rest" /\ layer = 0 /\ BodyRests /\ NodeRests
    \/ part = "body" /\ P!Init /\ BlockRests /\ HostInit /\ NodeRests
    \/ part = "node" /\ N!Init /\ BlockRests /\ HostInit /\ BodyRests

PartsNext ==
    \/ part = "block" /\ Next /\ UNCHANGED <<part, host, others>>
    \/ part = "host" /\ HostNext /\ UNCHANGED <<part, vars, others>>
    \/ part = "body" /\ P!Next /\ UNCHANGED <<part, vars, host, node_vars>>
    \/ part = "node" /\ N!Next /\ UNCHANGED <<part, vars, host, body_vars>>

PartsSpec == PartsInit /\ [][PartsNext]_all_vars

-----------------------------------------------------------------------------
(* The properties of the parts; those of the block and of the daemon are under    *)
(* their own names.                                                             *)

\* Payloads: a node is described as it was defined, a post is taken as it was sent.
PayloadsKept == part = "body" => P!DefinitionKept /\ P!ValuesKept

\* NodeFiles with one request at a time: a deletion leaves no file, a node starts empty.
NodesAreClean == part = "node" => N!DeleteIsComplete /\ N!HandleIsClean
=============================================================================
