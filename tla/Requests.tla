------------------------------ MODULE Requests ------------------------------
(* A request from its header to its answer: the access handler of http.c, which *)
(* the HTTP library calls again and again for one request, and the handlers of  *)
(* http_tsdb.c and http_csv.c it dispatches to.  There is one node.  An         *)
(* operation of the engine is one step here (Tsdb and NodeFiles have theirs),   *)
(* but for what other requests see of it: a node is made in two steps, and the  *)
(* keys are written and read piece by piece in the shared metadata page.  The    *)
(* process may die under all its connections; what is in files outlives it.     *)
EXTENDS Integers, Sequences, SequencesExt

CONSTANTS Connections,
          Requests,    \* the requests that clients send
          Admins,      \* those of the administrator
          Admin,       \* the signature made with the admin key
          Unsigned,    \* no signature
          Keys,        \* access keys, also the signatures made with them
          Erased,      \* the bytes of an erased key
          NoTime,
          MaxCreated,  \* bound on the nodes ever made
          Faults       \* "memory", "io": an allocation, a call may fail;
                       \* "crash": the process may be killed

\* The tree of entities with their handlers.
Tree ==
    [root   |-> [GET |-> "redirect"],
     nodes  |-> [GET |-> "get_nodes"],
     node   |-> [GET |-> "get_node", PUT |-> "create_node", DELETE |-> "delete_node"],
     keys   |-> [GET |-> "get_keys"],
     key    |-> [GET |-> "get_key", PUT |-> "put_key"],
     values |-> [GET |-> "redirect_latest", POST |-> "post_values"],
     slot   |-> [GET |-> "get_values"],
     series |-> <<>>,
     metric |-> [GET |-> "get_series"],
     csv    |-> [POST |-> "csv_post_values"]]

\* What a handler looks at before it touches the node, in its order.
Checks ==
    [redirect |-> <<>>, get_nodes |-> <<>>, get_node |-> <<"url">>,
     create_node |-> <<"admin", "url", "payload">>, delete_node |-> <<"admin", "url">>,
     get_keys |-> <<"admin">>, get_key |-> <<"admin", "url">>,
     put_key |-> <<"admin", "url", "payload">>, redirect_latest |-> <<"url">>,
     post_values |-> <<"url", "payload">>, get_values |-> <<"url">>,
     get_series |-> <<"url">>, csv_post_values |-> <<"url">>]

Writing == {"post_values", "csv_post_values"}

KeyIds == {"read", "write"}

\* bad is what is wrong with a request: "url", "payload", "count" (of metrics),
\* "metric" (no such one), "cut" (the last line of an upload has no end), "grid" (the
\* time in the path is not that of a slot).  rows are the rows of a post, chunks the
\* pieces that its body arrives in.  A post of values is one row, a path to a slot has
\* its time, rounded, as a row.
ASSUME RequestsAssumption ==
    /\ Admins \subseteq Connections
    /\ \A r \in Requests :
          /\ r.method \in {"GET", "PUT", "POST", "DELETE"}
          /\ r.signature \in Keys \union {Admin, Unsigned}
          /\ r.bad \subseteq {"url", "payload", "count", "metric", "cut", "grid"}
          /\ r.rows \in Seq([time : Nat, good : BOOLEAN])
          /\ r.entity = "values" /\ r.method = "POST" => Len(r.rows) = 1
          /\ r.entity = "slot" \/ "cut" \in r.bad => r.rows # <<>>
          /\ r.chunks \in Nat
          /\ r.keyid \in KeyIds
          /\ r.key \in Keys \union {Erased}
    /\ Erased \notin Keys /\ Admin \notin Keys /\ Unsigned \notin Keys
    /\ NoTime \notin Nat /\ MaxCreated \in Nat
    /\ Faults \subseteq {"memory", "io", "crash"}

VARIABLES nodes,    \* every node ever made: first and last slot, keys
          current,  \* the node that exists, 0 if none
          empty,    \* the nodes whose metadata file has nothing in it (yet)
          torn,     \* history: the keys that a process was setting when it died
          pc,
          request,  \* the request each connection is working on
          context,  \* the pieces of the body in its context, NoContext once released
          handle,   \* the node it has open, 0 if none
          seen,     \* the key it is checked against, as copied so far
          row,      \* the row of an upload it is at
          status,   \* the answer
          effects,  \* history: what the request has changed
          raced     \* history: the key was being set, or torn, while it was copied

shared == <<nodes, current, empty, torn>>
vars == <<shared, pc, request, context, handle, seen, row, status, effects, raced>>
local == <<request, context, handle, seen, row, effects, raced>>

NoRequest == [entity |-> "none"]
NoContext == -1
NoAnswer  == 0
Closed    == 1     \* the connection is closed without an answer

Init ==
    /\ nodes = <<>> /\ current = 0 /\ empty = {} /\ torn = {}
    /\ pc = [c \in Connections |-> "idle"]
    /\ request = [c \in Connections |-> NoRequest]
    /\ context = [c \in Connections |-> NoContext]
    /\ handle = [c \in Connections |-> 0]
    /\ seen = [c \in Connections |-> <<Erased, Erased>>]
    /\ row = [c \in Connections |-> 1]
    /\ status = [c \in Connections |-> NoAnswer]
    /\ effects = [c \in Connections |-> <<>>]
    /\ raced = [c \in Connections |-> FALSE]

At(c, label)   == pc[c] = label
Goto(c, label) == pc' = [pc EXCEPT ![c] = label]

\* A handler returns a status; what it has changed by then is in effects.
Answer(c, code) == Goto(c, "respond") /\ status' = [status EXCEPT ![c] = code]

Handler(c) ==
    IF request[c].entity \in DOMAIN Tree /\ request[c].method \in DOMAIN Tree[request[c].entity]
    THEN Tree[request[c].entity][request[c].method]
    ELSE "none"

Effect(c, what) == effects' = [effects EXCEPT ![c] = Append(@, what)]

Close(c) == handle' = [handle EXCEPT ![c] = 0]

\* The locals of a request end with it.
Forget(c) ==
    /\ request' = [request EXCEPT ![c] = NoRequest]
    /\ seen' = [seen EXCEPT ![c] = <<Erased, Erased>>]
    /\ row' = [row EXCEPT ![c] = 1]
    /\ effects' = [effects EXCEPT ![c] = <<>>]
    /\ raced' = [raced EXCEPT ![c] = FALSE]

-----------------------------------------------------------------------------
(* The access handler.                                                         *)

\* The first call for a request only makes its context.
Receive(c, r) ==
    /\ At(c, "idle")
    /\ r.signature = Admin => c \in Admins
    /\ r.method = "PUT" /\ r.entity = "node" => Len(nodes) < MaxCreated
    /\ handle' = [handle EXCEPT ![c] = 0]
    /\ \/ /\ request' = [request EXCEPT ![c] = r]
          /\ context' = [context EXCEPT ![c] = 0]
          /\ status' = [status EXCEPT ![c] = NoAnswer]
          /\ Goto(c, "upload")
       \/ /\ "memory" \in Faults
          /\ context' = [context EXCEPT ![c] = NoContext]
          /\ status' = [status EXCEPT ![c] = Closed]
          /\ UNCHANGED <<pc, request>>
    /\ UNCHANGED <<shared, seen, row, effects, raced>>

Join(c) ==
    /\ At(c, "upload") /\ context[c] < request[c].chunks
    /\ \/ /\ context' = [context EXCEPT ![c] = @ + 1]
          /\ UNCHANGED <<pc, status>>
       \/ /\ "memory" \in Faults
          /\ Answer(c, 500)
          /\ UNCHANGED context
    /\ UNCHANGED <<shared, request, handle, seen, row, effects, raced>>

\* The client goes away; nothing tells the handler, and the context stays.
Disconnect(c) ==
    /\ At(c, "upload") /\ context[c] < request[c].chunks
    /\ Goto(c, "idle")
    /\ Forget(c)
    /\ status' = [status EXCEPT ![c] = Closed]
    /\ UNCHANGED <<shared, context, handle>>

NoHandler(c) ==
    /\ At(c, "upload") /\ context[c] = request[c].chunks
    /\ Handler(c) = "none"
    /\ Answer(c, IF request[c].entity \notin DOMAIN Tree \/ Tree[request[c].entity] = <<>>
                 THEN 404 ELSE 405)
    /\ UNCHANGED <<shared, local>>

Passes(c, check) ==
    IF check = "admin" THEN request[c].signature = Admin ELSE check \notin request[c].bad

\* The first n checks of its handler pass.
Passing(c, n) == \A i \in 1..n : Passes(c, Checks[Handler(c)][i])

\* A body that is no JSON at all, or that there is no memory to parse, leaves the error
\* code unset that chooses between 400 and 403 (not in put_key).
Refuse(c) ==
    /\ At(c, "upload") /\ context[c] = request[c].chunks
    /\ Handler(c) # "none"
    /\ \E n \in DOMAIN Checks[Handler(c)] :
          LET check == Checks[Handler(c)][n]
          IN  /\ Passing(c, n - 1)
              /\ ~Passes(c, check) \/ (check = "payload" /\ "memory" \in Faults)
              /\ \/ Answer(c, [admin |-> 403, url |-> 404, payload |-> 400][check])
                 \/ check = "payload" /\ Handler(c) # "put_key" /\ Answer(c, 403)
    /\ UNCHANGED <<shared, local>>

Dispatch(c) ==
    /\ At(c, "upload") /\ context[c] = request[c].chunks
    /\ Handler(c) # "none" /\ Passing(c, Len(Checks[Handler(c)]))
    /\ CASE Handler(c) = "redirect"  -> Answer(c, 302)
         [] Handler(c) = "get_nodes" -> Answer(c, 404)
         [] Handler(c) = "get_keys"  -> Answer(c, 200)
         [] Handler(c) \in {"create_node", "delete_node"} -> Goto(c, Handler(c)) /\ UNCHANGED status
         [] OTHER                    -> Goto(c, "open") /\ UNCHANGED status
    /\ UNCHANGED <<shared, local>>

\* The context and the body are released whatever the outcome, then the answer is sent,
\* or the connection closed if the library has no memory for it.
Respond(c) ==
    /\ At(c, "respond")
    /\ context' = [context EXCEPT ![c] = NoContext]
    /\ Goto(c, "idle")
    /\ Forget(c)
    /\ \/ status' = [status EXCEPT ![c] = NoAnswer]
       \/ "memory" \in Faults /\ status' = [status EXCEPT ![c] = Closed]
    /\ UNCHANGED <<shared, handle>>

-----------------------------------------------------------------------------
(* The handlers that make, remove and open the node.                           *)

InUse == 1    \* TSDB_KEY_IN_USE

NewNode == [first |-> NoTime, last |-> NoTime,
            key |-> [k \in KeyIds |-> [flags |-> 0, bytes |-> <<Erased, Erased>>]]]

\* tsdb_create makes the file, which fails if there is one, and then writes the metadata;
\* nobody asks whether they were written.
CreateNode(c) ==
    /\ At(c, "create_node")
    /\ \/ /\ current = 0
          /\ nodes' = Append(nodes, NewNode)
          /\ current' = Len(nodes) + 1
          /\ empty' = empty \union {Len(nodes) + 1}
          /\ handle' = [handle EXCEPT ![c] = Len(nodes) + 1]
          /\ Effect(c, "created")
          /\ Goto(c, "populate")
          /\ UNCHANGED status
       \/ /\ current # 0 \/ "io" \in Faults
          /\ Answer(c, 403)
          /\ UNCHANGED <<nodes, current, empty, handle, effects>>
    /\ UNCHANGED <<torn, request, context, seen, row, raced>>

Populate(c) ==
    /\ At(c, "populate")
    /\ \/ empty' = empty \ {handle[c]}
       \/ "io" \in Faults /\ UNCHANGED empty
    /\ Answer(c, 200)
    /\ Close(c)
    /\ UNCHANGED <<nodes, current, torn, request, context, seen, row, effects, raced>>

DeleteNode(c) ==
    /\ At(c, "delete_node")
    /\ \/ /\ current # 0
          /\ current' = 0
          /\ Answer(c, 200)
          /\ Effect(c, "deleted")
       \/ /\ current = 0 \/ "io" \in Faults
          /\ Answer(c, 404)
          /\ UNCHANGED <<current, effects>>
    /\ UNCHANGED <<nodes, empty, torn, request, context, handle, seen, row, raced>>

Open(c) ==
    /\ At(c, "open")
    /\ \/ /\ current # 0 /\ current \notin empty
          /\ handle' = [handle EXCEPT ![c] = current]
          /\ Goto(c, IF Handler(c) = "put_key" THEN "set_flags" ELSE "get_flags")
          /\ UNCHANGED status
       \/ /\ current = 0 \/ Faults # {}
          /\ Answer(c, 404)
          /\ UNCHANGED handle
    /\ UNCHANGED <<shared, request, context, seen, row, effects, raced>>

-----------------------------------------------------------------------------
(* The key store.                                                              *)

KeyId(c) ==
    CASE Handler(c) \in {"get_key", "put_key"} -> request[c].keyid
      [] Handler(c) \in Writing                -> "write"
      [] OTHER                                 -> "read"

Copying(c) == pc[c] \in {"get_head", "get_tail"}
Setting(c) == pc[c] \in {"set_head", "set_tail"}

SameKey(c, d) == handle[c] = handle[d] /\ KeyId(c) = KeyId(d)

\* tsdb_get_key: the flags, then the bytes.
GetFlags(c) ==
    /\ At(c, "get_flags")
    /\ IF nodes[handle[c]].key[KeyId(c)].flags = 0
       THEN Goto(c, "serve") /\ UNCHANGED raced
       ELSE /\ Goto(c, "get_head")
            /\ raced' = [raced EXCEPT ![c] =
                            \/ <<handle[c], KeyId(c)>> \in torn
                            \/ \E d \in Connections : Setting(d) /\ SameKey(c, d)]
    /\ UNCHANGED <<shared, request, context, handle, seen, row, status, effects>>

GetHead(c) ==
    /\ At(c, "get_head")
    /\ seen' = [seen EXCEPT ![c][1] = nodes[handle[c]].key[KeyId(c)].bytes[1]]
    /\ Goto(c, "get_tail")
    /\ UNCHANGED <<shared, request, context, handle, row, status, effects, raced>>

GetTail(c) ==
    /\ At(c, "get_tail")
    /\ seen' = [seen EXCEPT ![c][2] = nodes[handle[c]].key[KeyId(c)].bytes[2]]
    /\ Goto(c, IF Handler(c) = "get_key" THEN "serve" ELSE "signature")
    /\ UNCHANGED <<shared, request, context, handle, row, status, effects, raced>>

\* The copy is of no use after this.
CheckSignature(c) ==
    /\ At(c, "signature")
    /\ IF seen[c] = <<request[c].signature, request[c].signature>>
       THEN Goto(c, "serve") /\ UNCHANGED <<status, handle>>
       ELSE Answer(c, 403) /\ Close(c)
    /\ seen' = [seen EXCEPT ![c] = <<Erased, Erased>>]
    /\ raced' = [raced EXCEPT ![c] = FALSE]
    /\ UNCHANGED <<shared, request, context, row, effects>>

\* tsdb_set_key: the flags, then the bytes; erasing a key clears them in that order too.
SetFlags(c) ==
    /\ At(c, "set_flags")
    /\ nodes' = [nodes EXCEPT ![handle[c]].key[KeyId(c)].flags =
                    IF request[c].key = Erased THEN 0 ELSE InUse]
    /\ Effect(c, "key")
    /\ raced' = [d \in Connections |-> raced[d] \/ (Copying(d) /\ SameKey(c, d))]
    /\ Goto(c, "set_head")
    /\ UNCHANGED <<current, empty, torn, request, context, handle, seen, row, status>>

SetHeadOnly(c) ==   \* mutant: a part of the key is copied
    /\ At(c, "set_head")
    /\ nodes' = [nodes EXCEPT ![handle[c]].key[KeyId(c)].bytes[1] = request[c].key]
    /\ Answer(c, 200)
    /\ Close(c)
    /\ UNCHANGED <<current, empty, torn, request, context, seen, row, effects, raced>>

SetHead(c) ==
    /\ At(c, "set_head")
    /\ nodes' = [nodes EXCEPT ![handle[c]].key[KeyId(c)].bytes[1] = request[c].key]
    /\ Goto(c, "set_tail")
    /\ UNCHANGED <<current, empty, torn, request, context, handle, seen, row, status, effects, raced>>

SetTail(c) ==
    /\ At(c, "set_tail")
    /\ nodes' = [nodes EXCEPT ![handle[c]].key[KeyId(c)].bytes[2] = request[c].key]
    /\ torn' = torn \ {<<handle[c], KeyId(c)>>}
    /\ Answer(c, 200)
    /\ Close(c)
    /\ UNCHANGED <<current, empty, request, context, seen, row, effects, raced>>

-----------------------------------------------------------------------------
(* What the handlers do with the node once access is granted.  Every one ends   *)
(* by closing it, except where noted.                                           *)

Serving(c, handlers) == At(c, "serve") /\ Handler(c) \in handlers

\* An answer that needs memory for a location or a body, after the node is closed.
AnswerWithBody(c, code) == \/ Answer(c, code)
                           \/ "memory" \in Faults /\ Answer(c, 500)

Describe(c) ==
    /\ Serving(c, {"get_node", "get_key"})
    /\ Answer(c, 200)
    /\ Close(c)
    /\ UNCHANGED <<shared, request, context, seen, row, effects, raced>>

Node(c) == nodes[handle[c]]

RedirectLatest(c) ==
    /\ Serving(c, {"redirect_latest"})
    /\ IF Node(c).last = NoTime THEN Answer(c, 404) ELSE AnswerWithBody(c, 302)
    /\ Close(c)
    /\ UNCHANGED <<shared, request, context, seen, row, effects, raced>>

Time(c) == request[c].rows[row[c]].time

GetValues(c) ==
    /\ Serving(c, {"get_values"})
    /\ \/ IF Node(c).last # NoTime /\ Node(c).first <= Time(c) /\ Time(c) <= Node(c).last
          THEN IF "grid" \in request[c].bad THEN AnswerWithBody(c, 302) ELSE Answer(c, 200)
          ELSE Answer(c, 404)
       \/ "io" \in Faults /\ Answer(c, 500)
    /\ Close(c)
    /\ UNCHANGED <<shared, request, context, seen, row, effects, raced>>

\* Without memory for the points the node stays open.
GetSeries(c) ==
    /\ Serving(c, {"get_series"})
    /\ \/ /\ IF "metric" \in request[c].bad THEN Answer(c, 404) ELSE AnswerWithBody(c, 200)
          /\ Close(c)
       \/ "io" \in Faults /\ Answer(c, 500) /\ Close(c)
       \/ "memory" \in Faults /\ Answer(c, 500) /\ UNCHANGED handle
    /\ UNCHANGED <<shared, request, context, seen, row, effects, raced>>

TooEarly(c) == Node(c).last # NoTime /\ Time(c) < Node(c).first

\* tsdb_update_values, where it succeeds.
Update(c) ==
    /\ nodes' = [nodes EXCEPT ![handle[c]] =
                    IF @.last = NoTime THEN [@ EXCEPT !.first = Time(c), !.last = Time(c)]
                    ELSE IF Time(c) > @.last THEN [@ EXCEPT !.last = Time(c)]
                    ELSE @]
    /\ Effect(c, Time(c))

RefusePostOpen(c) ==   \* mutant: the node stays open
    /\ Serving(c, {"post_values"})
    /\ "count" \in request[c].bad \/ TooEarly(c)
    /\ Answer(c, 400)
    /\ UNCHANGED <<shared, local>>

RefusePost(c) ==
    /\ Serving(c, {"post_values"})
    /\ \/ "count" \in request[c].bad /\ Answer(c, 400)
       \/ "count" \notin request[c].bad /\ TooEarly(c) /\ Answer(c, 400)
       \/ "count" \notin request[c].bad /\ "io" \in Faults /\ Answer(c, 500)
    /\ Close(c)
    /\ UNCHANGED <<shared, request, context, seen, row, effects, raced>>

PostValues(c) ==
    /\ Serving(c, {"post_values"})
    /\ "count" \notin request[c].bad /\ ~TooEarly(c)
    /\ Update(c)
    /\ AnswerWithBody(c, 201)
    /\ Close(c)
    /\ UNCHANGED <<current, empty, torn, request, context, seen, row, raced>>

\* The lines of an upload; what follows the last line end is not looked at.
Lines(c) == IF "cut" \in request[c].bad THEN Front(request[c].rows) ELSE request[c].rows

RetryRow(c) ==   \* mutant: a row that is not accepted is tried again
    /\ Serving(c, {"csv_post_values"}) /\ row[c] <= Len(Lines(c))
    /\ ~Lines(c)[row[c]].good \/ TooEarly(c)
    /\ UNCHANGED vars

RefuseRow(c) ==
    /\ Serving(c, {"csv_post_values"}) /\ row[c] <= Len(Lines(c))
    /\ \/ ~Lines(c)[row[c]].good /\ Answer(c, 400)
       \/ Lines(c)[row[c]].good /\ TooEarly(c) /\ Answer(c, 400)
       \/ Lines(c)[row[c]].good /\ "io" \in Faults /\ Answer(c, 500)
    /\ Close(c)
    /\ UNCHANGED <<shared, request, context, seen, row, effects, raced>>

ImportRow(c) ==
    /\ Serving(c, {"csv_post_values"}) /\ row[c] <= Len(Lines(c))
    /\ Lines(c)[row[c]].good /\ ~TooEarly(c)
    /\ Update(c)
    /\ row' = [row EXCEPT ![c] = @ + 1]
    /\ UNCHANGED <<current, empty, torn, pc, request, context, handle, seen, status, raced>>

EndImportEarly(c) ==   \* mutant: the last row is left out
    /\ Serving(c, {"csv_post_values"}) /\ row[c] >= Len(Lines(c))
    /\ Answer(c, 200)
    /\ Close(c)
    /\ UNCHANGED <<shared, request, context, seen, row, effects, raced>>

EndImport(c) ==
    /\ Serving(c, {"csv_post_values"}) /\ row[c] > Len(Lines(c))
    /\ Answer(c, 200)
    /\ Close(c)
    /\ UNCHANGED <<shared, request, context, seen, row, effects, raced>>

-----------------------------------------------------------------------------
(* The end of the process, in the middle of whatever its connections do.        *)

Dies ==
    /\ pc' = [c \in Connections |-> "idle"]
    /\ request' = [c \in Connections |-> NoRequest]
    /\ context' = [c \in Connections |-> NoContext]
    /\ handle' = [c \in Connections |-> 0]
    /\ seen' = [c \in Connections |-> <<Erased, Erased>>]
    /\ row' = [c \in Connections |-> 1]
    /\ status' = [c \in Connections |-> Closed]
    /\ effects' = [c \in Connections |-> <<>>]
    /\ raced' = [c \in Connections |-> FALSE]
    /\ torn' = torn \union {<<handle[c], KeyId(c)>> : c \in {d \in Connections : Setting(d)}}
    /\ UNCHANGED <<nodes, current, empty>>

\* tsdb_open takes an empty file for metadata and looks into the page behind it.
OpenEmpty(c) == At(c, "open") /\ current \in empty /\ Dies

\* The copy of the path that is cut up to find the handler, and the text of an answer,
\* are used without a look at whether there was memory for them.
OutOfMemory(c) ==
    /\ "memory" \in Faults
    /\ \/ At(c, "upload") /\ context[c] = request[c].chunks
       \/ Serving(c, {"get_node", "get_key", "get_values"})
    /\ Dies

Kill == "crash" \in Faults /\ Dies

-----------------------------------------------------------------------------
Access(c) == Join(c) \/ NoHandler(c) \/ Refuse(c) \/ Dispatch(c) \/ Respond(c)
KeyStore(c) ==
    GetFlags(c) \/ GetHead(c) \/ GetTail(c) \/ CheckSignature(c)
    \/ SetFlags(c) \/ SetHead(c) \/ SetTail(c)
Serve(c) ==
    Describe(c) \/ RedirectLatest(c) \/ GetValues(c) \/ GetSeries(c)
    \/ RefusePost(c) \/ PostValues(c) \/ RefuseRow(c) \/ ImportRow(c) \/ EndImport(c)

Death(c) == OpenEmpty(c) \/ OutOfMemory(c)

Server(c) ==
    \/ Access(c) \/ CreateNode(c) \/ Populate(c) \/ DeleteNode(c) \/ Open(c)
    \/ KeyStore(c) \/ Serve(c) \/ Death(c)

Next ==
    \/ \E c \in Connections :
          \/ \E r \in Requests : Receive(c, r)
          \/ Disconnect(c)
          \/ Server(c)
    \/ Kill

\* A connection's thread runs; its client sends what it announced or goes away.  Whether the
\* process is killed is open; it is started again, and then takes requests as at first.
Spec == Init /\ [][Next]_vars /\ \A c \in Connections : WF_vars(Server(c))

-----------------------------------------------------------------------------
(* Properties.                                                                 *)

Slot == Nat \union {NoTime}

Labels == {"idle", "upload", "create_node", "populate", "delete_node", "open", "get_flags",
           "get_head", "get_tail", "signature", "set_flags", "set_head", "set_tail", "serve",
           "respond"}

Bytes == [1..2 -> Keys \union {Erased}]

WorkOK ==
    /\ nodes \in Seq([first : Slot, last : Slot,
                      key : [KeyIds -> [flags : {0, InUse}, bytes : Bytes]]])
    /\ current \in 0..Len(nodes)
    /\ pc \in [Connections -> Labels]
    /\ request \in [Connections -> Requests \union {NoRequest}]
    /\ context \in [Connections -> Nat \union {NoContext}]
    /\ handle \in [Connections -> 0..Len(nodes)]
    /\ seen \in [Connections -> Bytes]
    /\ row \in [Connections -> Nat]
    /\ status \in [Connections -> {NoAnswer, Closed, 200, 201, 302, 400, 403, 404, 405, 500}]
    /\ \A c \in Connections : row[c] \in 1..Len(effects[c]) + 1
    /\ raced \in [Connections -> BOOLEAN]

FilesOK == empty \subseteq 1..Len(nodes) /\ torn \subseteq (1..Len(nodes)) \X KeyIds

TypeOK == WorkOK /\ FilesOK

Answered(c) == At(c, "respond")

\* A request that is refused, at whatever check and whatever other connections did in
\* between, has changed nothing (http_tsdb.c:578 "we must not make any changes").
RefusedChangesNothing ==
    \A c \in Connections :
        Answered(c) /\ status[c] \in 400..499 /\ Handler(c) # "csv_post_values" => effects[c] = <<>>

Times(rows) == [i \in DOMAIN rows |-> rows[i].time]

\* A post or an upload that is acknowledged is in the node as a whole and in order.
AcknowledgedIsDone ==
    \A c \in Connections :
        /\ Answered(c) /\ status[c] = 201 => effects[c] = Times(request[c].rows)
        /\ Answered(c) /\ status[c] = 200 /\ Handler(c) = "csv_post_values" =>
              effects[c] = Times(Lines(c))

\* Of an upload, the lines before the first bad one are imported and none after it.
ImportIsPrefix ==
    \A c \in Connections : Handler(c) = "csv_post_values" =>
        /\ IsPrefix(effects[c], Times(request[c].rows))
        /\ \A i \in DOMAIN effects[c] : request[c].rows[i].good

\* A request that is answered has closed the node it had open, unless the answer is 500.
HandlesClosed ==
    \A c \in Connections : Answered(c) /\ handle[c] # 0 => status[c] = 500

\* The context of a request lives until its answer and no longer, unless the connection was
\* closed before.
ContextReleased ==
    \A c \in Connections :
        At(c, "idle") /\ status[c] # Closed => context[c] = NoContext

\* A key that nobody changes while it is read, and that no process left in the middle of a
\* change, is read as one that was set, not as a mix of two or as the bytes of none
\* (tsdb.h:253: 0 if the key was populated).
KeyIsWhole ==
    \A c \in Connections : At(c, "signature") /\ ~raced[c] =>
        \E k \in Keys : seen[c] = <<k, k>>

\* A request gets its answer, whatever the other connections do, unless its client goes away
\* or the process dies under it: no handler waits for another connection or goes round for ever.
Answers == \A c \in Connections : At(c, "upload") ~> Answered(c) \/ status[c] = Closed

\* What a request is answered with is what was done: nothing for a refusal, all for an
\* acknowledgement, and of an upload what comes before its first bad line.
AnswerTellsAll == TypeOK /\ RefusedChangesNothing /\ AcknowledgedIsDone /\ ImportIsPrefix

\* An answered request holds neither the node nor its context any more.
NothingHeld == HandlesClosed /\ ContextReleased
=============================================================================
