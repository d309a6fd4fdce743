--------------------------- MODULE RequestsProofs ---------------------------
(* Proofs about Requests: what an answer tells of the changes, that nothing is    *)
(* held after it, and that keys are read whole while one administrator sets them. *)
EXTENDS Requests, TLAPS

Unopened == {"upload", "create_node", "delete_node", "open"}
Opened   == {"get_flags", "get_head", "get_tail", "signature", "set_flags", "set_head",
             "set_tail", "serve", "populate"}

\* Where a request has changed nothing yet.
Before == Unopened \union {"idle", "get_flags", "get_head", "get_tail", "signature", "set_flags"}

\* The lines of an upload before the one it is at are in the node, in order.
Imported(c) ==
    /\ Len(effects[c]) = row[c] - 1
    /\ row[c] <= Len(Lines(c)) + 1
    /\ \A i \in 1..row[c]-1 :
          effects[c][i] = request[c].rows[i].time /\ request[c].rows[i].good

\* The answer tells what was done.
Told(c) ==
    /\ status[c] \in 400..499 /\ Handler(c) # "csv_post_values" => effects[c] = <<>>
    /\ status[c] = 201 => effects[c] = Times(request[c].rows)
    /\ status[c] = 200 /\ Handler(c) = "csv_post_values" => effects[c] = Times(Lines(c))
    /\ handle[c] # 0 => status[c] = 500

InHand(c) ==
    /\ pc[c] = "idle" => request[c] = NoRequest /\ (status[c] # Closed => context[c] = NoContext)
    /\ pc[c] # "idle" => /\ request[c] \in Requests
                         /\ request[c].signature = Admin => c \in Admins
    /\ pc[c] \in Before => effects[c] = <<>>
    /\ pc[c] = "serve" /\ Handler(c) # "csv_post_values" => effects[c] = <<>>
    /\ IF Handler(c) = "csv_post_values" THEN Imported(c) ELSE row[c] = 1
    /\ pc[c] \in Unopened => handle[c] = 0
    /\ pc[c] \in Opened => handle[c] # 0
    /\ pc[c] \in {"create_node", "delete_node"} => Handler(c) = pc[c]
    /\ pc[c] = "populate" => Handler(c) = "create_node"
    /\ Setting(c) \/ pc[c] = "set_flags" => Handler(c) = "put_key"
    /\ Handler(c) = "put_key" /\ pc[c] \notin {"upload", "respond"} => request[c].signature = Admin
    /\ pc[c] = "respond" => Told(c)

AllInHand == \A c \in Connections : InHand(c)

Handlers == {"redirect", "get_nodes", "get_node", "create_node", "delete_node", "get_keys", "get_key",
             "put_key", "redirect_latest", "post_values", "get_values", "get_series", "csv_post_values"}

Only(new, old, c) == \A d \in Connections \ {c} : new[d] = old[d]

\* What a request changes: the tree of nodes, a key, or the values of a time.
Words == {"created", "deleted", "key"}

TypeI ==
    /\ WorkOK
    /\ effects \in [Connections -> Seq(Words \union Nat)]

RequestsI == TypeI /\ AllInHand

LEMMA LocalTypes ==
    ASSUME TypeI
    PROVE  /\ pc \in [Connections -> Labels]
           /\ request \in [Connections -> Requests \union {NoRequest}]
           /\ context \in [Connections -> Nat \union {NoContext}]
           /\ handle \in [Connections -> 0..Len(nodes)]
           /\ row \in [Connections -> Nat]
           /\ status \in [Connections -> {NoAnswer, Closed, 200, 201, 302, 400, 403, 404, 405, 500}]
           /\ effects \in [Connections -> Seq(Words \union Nat)]
  BY DEF TypeI, WorkOK

-----------------------------------------------------------------------------
\* A request gets the handler of its entity and method.
LEMMA HandlerIs ==
    ASSUME NEW c \in Connections
    PROVE  /\ Handler(c) \in Handlers \union {"none"}
           /\ request[c] = NoRequest => Handler(c) = "none"
           /\ Handler(c) = "post_values" => request[c].entity = "values" /\ request[c].method = "POST"
<1>1. CASE request[c].entity \in DOMAIN Tree /\ request[c].method \in DOMAIN Tree[request[c].entity]
  <2> DEFINE e == request[c].entity
             m == request[c].method
  <2>1. Handler(c) = Tree[e][m]
    BY <1>1 DEF Handler
  <2>2. e \in {"root", "nodes", "node", "keys", "key", "values", "slot", "series", "metric", "csv"}
    BY <1>1 DEF Tree
  <2> HIDE DEF e, m
  <2>3. e \in DOMAIN Tree /\ m \in DOMAIN Tree[e]
    BY <1>1 DEF e, m
  <2>4. Tree[e][m] \in Handlers /\ (Tree[e][m] = "post_values" => e = "values" /\ m = "POST")
    BY <2>2, <2>3 DEF Tree, Handlers
  <2>5. request[c] # NoRequest
    BY <2>2 DEF NoRequest, e
  <2> QED
    BY <2>1, <2>4, <2>5 DEF e, m
<1>2. CASE ~ (request[c].entity \in DOMAIN Tree /\ request[c].method \in DOMAIN Tree[request[c].entity])
  <2>1. Handler(c) = "none"
    BY <1>2 DEF Handler
  <2> QED
    BY <2>1
<1> QED
  BY <1>1, <1>2

LEMMA ChecksAre ==
    ASSUME NEW h \in Handlers
    PROVE  /\ Checks[h] \in Seq({"admin", "url", "payload"})
           /\ h = "put_key" => Len(Checks[h]) = 3 /\ Checks[h][1] = "admin"
<1> DEFINE S == Seq({"admin", "url", "payload"})
<1>1. <<>> \in S /\ <<"url">> \in S /\ <<"admin">> \in S
  OBVIOUS
<1>2. <<"admin", "url">> \in S /\ <<"url", "payload">> \in S /\ <<"admin", "url", "payload">> \in S
  OBVIOUS
<1> HIDE DEF S
<1>3. \/ Checks[h] = <<>> \/ Checks[h] = <<"url">> \/ Checks[h] = <<"admin">>
      \/ Checks[h] = <<"admin", "url">> \/ Checks[h] = <<"url", "payload">>
      \/ Checks[h] = <<"admin", "url", "payload">>
  BY DEF Handlers, Checks
<1>4. Checks["put_key"] = <<"admin", "url", "payload">>
  BY DEF Checks
<1>5. h = "put_key" => Len(Checks[h]) = 3 /\ Checks[h][1] = "admin"
  BY <1>4
<1>6. Checks[h] \in S
  BY <1>1, <1>2, <1>3
<1> QED
  BY <1>5, <1>6 DEF S

\* The lines of an upload are rows of its body.
LEMMA LinesAre ==
    ASSUME NEW c \in Connections, request[c] \in Requests
    PROVE  /\ Lines(c) \in Seq([time : Nat, good : BOOLEAN])
           /\ request[c].rows \in Seq([time : Nat, good : BOOLEAN])
           /\ Len(Lines(c)) \in Nat /\ Len(request[c].rows) \in Nat
           /\ Len(Lines(c)) <= Len(request[c].rows)
           /\ \A i \in 1..Len(Lines(c)) : Lines(c)[i] = request[c].rows[i]
<1> DEFINE T == [time : Nat, good : BOOLEAN]
           rows == request[c].rows
<1>1. rows \in Seq(T) /\ ("cut" \in request[c].bad => rows # <<>>)
  BY RequestsAssumption
<1>2. Lines(c) = IF "cut" \in request[c].bad THEN SubSeq(rows, 1, Len(rows) - 1) ELSE rows
  BY DEF Lines, Front
<1> HIDE DEF T, rows
<1>3. Len(rows) \in Nat
  BY <1>1
<1>4. CASE "cut" \in request[c].bad
  <2>1. Len(rows) # 0
    BY <1>1, <1>4
  <2>2. /\ SubSeq(rows, 1, Len(rows) - 1) \in Seq(T)
        /\ Len(SubSeq(rows, 1, Len(rows) - 1)) = Len(rows) - 1
        /\ \A i \in 1..Len(rows)-1 : SubSeq(rows, 1, Len(rows) - 1)[i] = rows[i]
    <3> DEFINE n == Len(rows) - 1
    <3>1. n \in Nat /\ \A i \in 1..n : i \in 1..Len(rows) /\ rows[i] \in T
      BY <1>1, <1>3, <2>1
    <3> HIDE DEF n
    <3>2. SubSeq(rows, 1, n) = [i \in 1..n |-> rows[i]]
      BY <3>1
    <3>3. /\ [i \in 1..n |-> rows[i]] \in Seq(T)
          /\ Len([i \in 1..n |-> rows[i]]) = n
          /\ \A i \in 1..n : [k \in 1..n |-> rows[k]][i] = rows[i]
      BY <3>1
    <3>4. SubSeq(rows, 1, n) \in Seq(T) /\ Len(SubSeq(rows, 1, n)) = n
      BY <3>2, <3>3
    <3>5. \A i \in 1..n : SubSeq(rows, 1, n)[i] = rows[i]
      BY <3>2, <3>3
    <3> QED
      BY <3>4, <3>5 DEF n
  <2> QED
    BY <1>1, <1>2, <1>3, <1>4, <2>1, <2>2 DEF T, rows
<1>5. CASE "cut" \notin request[c].bad
  BY <1>1, <1>2, <1>3, <1>5 DEF T, rows
<1> QED
  BY <1>4, <1>5

LEMMA SequenceIs ==
    ASSUME NEW T, NEW s \in Seq(T)
    PROVE  s = [i \in 1..Len(s) |-> s[i]]
  OBVIOUS

LEMMA PrefixIs ==
    ASSUME NEW T, NEW s \in Seq(T), NEW t \in Seq(T), Len(s) <= Len(t),
           \A i \in 1..Len(s) : s[i] = t[i]
    PROVE  IsPrefix(s, t)
<1> DEFINE n == Len(s)
<1>1. n \in Nat /\ Len(t) \in Nat
  OBVIOUS
<1>2. SubSeq(s, 1, n) = [i \in 1..n |-> s[i]] /\ SubSeq(t, 1, n) = [i \in 1..n |-> t[i]]
  BY <1>1
<1>3. SubSeq(s, 1, n) = SubSeq(t, 1, n)
  BY <1>2
<1> QED
  BY <1>3 DEF IsPrefix

-----------------------------------------------------------------------------
(* A step of a connection leaves what the others have in hand.                 *)

OnlyOwn(c) ==
    \A d \in Connections \ {c} :
        /\ pc'[d] = pc[d] /\ request'[d] = request[d] /\ context'[d] = context[d]
        /\ handle'[d] = handle[d] /\ seen'[d] = seen[d] /\ row'[d] = row[d]
        /\ status'[d] = status[d] /\ effects'[d] = effects[d]

LEMMA OthersKeep ==
    ASSUME RequestsI, NEW c \in Connections, TypeI', OnlyOwn(c), InHand(c)'
    PROVE  RequestsI'
<1> SUFFICES ASSUME NEW d \in Connections, d # c PROVE InHand(d)'
  BY DEF RequestsI, AllInHand
<1>1. /\ pc'[d] = pc[d] /\ request'[d] = request[d] /\ context'[d] = context[d]
      /\ handle'[d] = handle[d] /\ row'[d] = row[d]
      /\ status'[d] = status[d] /\ effects'[d] = effects[d]
  BY DEF OnlyOwn
<1>2. /\ Handler(d)' = Handler(d) /\ Lines(d)' = Lines(d) /\ Setting(d)' = Setting(d)
  BY <1>1 DEF Handler, Lines, Setting
<1>3. Imported(d)' = Imported(d)
  BY <1>1, <1>2 DEF Imported
<1>4. Told(d)' = Told(d)
  BY <1>1, <1>2 DEF Told
<1>5. InHand(d)
  BY DEF RequestsI, AllInHand
<1> QED
  BY <1>1, <1>2, <1>3, <1>4, <1>5 DEF InHand

\* A step to the answer.
LEMMA Answering ==
    ASSUME RequestsI, NEW c \in Connections, pc[c] # "idle", pc'[c] = "respond",
           request'[c] = request[c], row'[c] = row[c],
           Handler(c) = "csv_post_values" => effects'[c] = effects[c],
           Told(c)'
    PROVE  InHand(c)'
<1>1. Handler(c)' = Handler(c) /\ Lines(c)' = Lines(c)
  BY DEF Handler, Lines
<1>2. InHand(c)
  BY DEF RequestsI, AllInHand
<1>3. Handler(c) = "csv_post_values" => (Imported(c)' <=> Imported(c))
  BY <1>1 DEF Imported
<1>4. ~ Setting(c)'
  BY DEF Setting
<1> QED
  BY <1>1, <1>2, <1>3, <1>4 DEF InHand, Before, Unopened, Opened

\* A step to another label.
LEMMA Moving ==
    ASSUME RequestsI, NEW c \in Connections, pc[c] # "idle", pc'[c] \notin {"idle", "respond"},
           request'[c] = request[c], row'[c] = row[c],
           Handler(c) = "csv_post_values" => effects'[c] = effects[c],
           pc'[c] \in Before => effects'[c] = <<>>,
           pc'[c] = "serve" /\ Handler(c) # "csv_post_values" => effects'[c] = <<>>,
           pc'[c] \in Unopened => handle'[c] = 0,
           pc'[c] \in Opened => handle'[c] # 0,
           pc'[c] \in {"create_node", "delete_node"} => Handler(c) = pc'[c],
           pc'[c] = "populate" => Handler(c) = "create_node",
           pc'[c] \in {"set_flags", "set_head", "set_tail"} => Handler(c) = "put_key",
           Handler(c) = "put_key" /\ pc'[c] # "upload" => request[c].signature = Admin
    PROVE  InHand(c)'
<1>1. Handler(c)' = Handler(c) /\ Lines(c)' = Lines(c)
  BY DEF Handler, Lines
<1>2. InHand(c)
  BY DEF RequestsI, AllInHand
<1>3. Handler(c) = "csv_post_values" => (Imported(c)' <=> Imported(c))
  BY <1>1 DEF Imported
<1> QED
  BY <1>1, <1>2, <1>3 DEF InHand, Setting

-----------------------------------------------------------------------------
(* The answers that change nothing.                                            *)

Codes == {200, 201, 302, 400, 403, 404, 405, 500}

LEMMA NodesAre ==
    ASSUME TypeI
    PROVE  Len(nodes) \in Nat /\ 0 \in 0..Len(nodes) /\ DOMAIN nodes = 1..Len(nodes)
<1> DEFINE T == [first : Slot, last : Slot, key : [KeyIds -> [flags : {0, InUse}, bytes : Bytes]]]
<1>1. nodes \in Seq(T)
  BY DEF TypeI, WorkOK
<1> HIDE DEF T
<1>2. Len(nodes) \in Nat /\ DOMAIN nodes = 1..Len(nodes)
  BY <1>1
<1> QED
  BY <1>2

\* An answer that changes nothing but the request's own locals.
OnlyAnswers(c, code) ==
    /\ Answer(c, code)
    /\ UNCHANGED <<nodes, current, request, context, row, effects>>
    /\ seen' \in [Connections -> Bytes] /\ raced' \in [Connections -> BOOLEAN]
    /\ Only(seen', seen, c)
    /\ handle' = handle \/ Close(c)
    /\ pc[c] # "idle" /\ (handle'[c] # 0 => code = 500) /\ code # 201
    /\ code \in 400..499 /\ Handler(c) # "csv_post_values" => effects[c] = <<>>
    /\ code = 200 /\ Handler(c) = "csv_post_values" => effects[c] = Times(Lines(c))

LEMMA AnswerKeeps ==
    ASSUME RequestsI, NEW c \in Connections, NEW code \in Codes, OnlyAnswers(c, code)
    PROVE  RequestsI'
<1> USE DEF OnlyAnswers
<1>1. /\ pc' \in [Connections -> Labels] /\ pc'[c] = "respond"
      /\ status' \in [Connections -> Codes \union {NoAnswer, Closed}] /\ status'[c] = code
      /\ \A d \in Connections \ {c} : pc'[d] = pc[d] /\ status'[d] = status[d]
  BY DEF RequestsI, TypeI, WorkOK, Answer, Goto, Labels, Codes
<1>2. /\ nodes' = nodes /\ current' = current /\ request' = request /\ context' = context
      /\ row' = row /\ effects' = effects
  OBVIOUS
<1>3. /\ handle' \in [Connections -> 0..Len(nodes)]
      /\ \A d \in Connections \ {c} : handle'[d] = handle[d]
  <2>1. handle \in [Connections -> 0..Len(nodes)]
    BY DEF RequestsI, TypeI, WorkOK
  <2>2. 0 \in 0..Len(nodes)
    BY NodesAre DEF RequestsI
  <2>3. CASE handle' = handle
    BY <2>1, <2>3
  <2>4. CASE handle' = [handle EXCEPT ![c] = 0]
    BY <2>1, <2>2, <2>4
  <2> QED
    BY <2>3, <2>4 DEF Close
<1>4. TypeI'
  BY <1>1, <1>2, <1>3 DEF RequestsI, TypeI, WorkOK, Codes
<1>5. OnlyOwn(c)
  BY <1>1, <1>2, <1>3 DEF OnlyOwn, Only
<1>6. Told(c)'
  <2>1. Handler(c)' = Handler(c) /\ Lines(c)' = Lines(c)
    BY <1>2 DEF Handler, Lines
  <2>2. code \in 400..499 /\ Handler(c) # "csv_post_values" => effects[c] = <<>>
    OBVIOUS
  <2>3. handle'[c] # 0 => code = 500
    OBVIOUS
  <2> QED
    BY <1>1, <1>2, <2>1, <2>2, <2>3 DEF Told
<1>7. InHand(c)'
  <2>1. /\ pc'[c] = "respond" /\ request'[c] = request[c] /\ row'[c] = row[c]
        /\ effects'[c] = effects[c]
    BY <1>1, <1>2
  <2> QED
    BY <1>6, <2>1, Answering
<1> QED
  BY <1>4, <1>5, <1>7, OthersKeep

LEMMA PlainAnswer ==
    ASSUME RequestsI, NEW c \in Connections, NEW code \in Codes, Answer(c, code),
           UNCHANGED <<shared, request, context, seen, row, effects, raced>>,
           handle' = handle \/ Close(c),
           pc[c] # "idle", handle'[c] # 0 => code = 500, code # 201,
           code \in 400..499 /\ Handler(c) # "csv_post_values" => effects[c] = <<>>,
           code = 200 /\ Handler(c) = "csv_post_values" => effects[c] = Times(Lines(c))
    PROVE  RequestsI'
<1>1. UNCHANGED <<nodes, current, request, context, row, effects>>
  BY DEF shared
<1>2. /\ seen' \in [Connections -> Bytes] /\ raced' \in [Connections -> BOOLEAN]
      /\ Only(seen', seen, c)
  BY DEF RequestsI, TypeI, WorkOK, Only
<1>3. OnlyAnswers(c, code)
  BY <1>1, <1>2 DEF OnlyAnswers
<1> QED
  BY <1>3, AnswerKeeps

\* At the labels before a change nothing has been changed, and no node is open yet.
LEMMA Untouched ==
    ASSUME RequestsI, NEW c \in Connections
    PROVE  /\ pc[c] \in Before => effects[c] = <<>>
           /\ pc[c] \in Unopened => handle[c] = 0
           /\ pc[c] = "serve" /\ Handler(c) # "csv_post_values" => effects[c] = <<>>
  BY DEF RequestsI, AllInHand, InHand

LEMMA NoHandlerKeeps ==
    ASSUME RequestsI, NEW c \in Connections, NoHandler(c)
    PROVE  RequestsI'
<1>1. PICK code \in {404, 405} : Answer(c, code)
  BY DEF NoHandler
<1>2. /\ pc[c] = "upload" /\ Handler(c) = "none" /\ handle' = handle
      /\ UNCHANGED <<shared, request, context, seen, row, effects, raced>>
  BY DEF NoHandler, local, shared, At
<1>3. effects[c] = <<>> /\ handle[c] = 0
  BY <1>2, Untouched DEF Before, Unopened
<1> QED
  BY <1>1, <1>2, <1>3, PlainAnswer DEF Codes

LEMMA RefuseKeeps ==
    ASSUME RequestsI, NEW c \in Connections, Refuse(c)
    PROVE  RequestsI'
<1>1. /\ pc[c] = "upload" /\ Handler(c) # "none" /\ handle' = handle
      /\ UNCHANGED <<shared, request, context, seen, row, effects, raced>>
  BY DEF Refuse, local, shared, At
<1>2. Handler(c) \in Handlers
  BY <1>1, HandlerIs
<1>3. PICK code \in {400, 403, 404} : Answer(c, code)
  <2>1. PICK n \in DOMAIN Checks[Handler(c)] :
            \/ Answer(c, [admin |-> 403, url |-> 404, payload |-> 400][Checks[Handler(c)][n]])
            \/ Answer(c, 403)
    BY DEF Refuse
  <2>2. Checks[Handler(c)][n] \in {"admin", "url", "payload"}
    BY <1>2, ChecksAre
  <2>3. [admin |-> 403, url |-> 404, payload |-> 400][Checks[Handler(c)][n]] \in {400, 403, 404}
    BY <2>2
  <2> QED
    BY <2>1, <2>3
<1>4. effects[c] = <<>> /\ handle[c] = 0
  BY <1>1, Untouched DEF Before, Unopened
<1>5. code \in Codes /\ code # 201 /\ code # 200
  BY DEF Codes
<1> QED
  BY <1>1, <1>3, <1>4, <1>5, PlainAnswer

\* The answers of the handlers that have the node open and only read.
LEMMA ReadingKeeps ==
    ASSUME RequestsI, NEW c \in Connections,
           Describe(c) \/ RedirectLatest(c) \/ GetValues(c) \/ GetSeries(c) \/ RefusePost(c)
    PROVE  RequestsI'
<1>1. /\ pc[c] = "serve" /\ Handler(c) # "csv_post_values"
      /\ UNCHANGED <<shared, request, context, seen, row, effects, raced>>
      /\ handle' = handle \/ Close(c)
  BY DEF Describe, RedirectLatest, GetValues, GetSeries, RefusePost, Serving, At
<1>2. effects[c] = <<>>
  BY <1>1, Untouched
<1>3. \/ Answer(c, 500)
      \/ Close(c) /\ (Answer(c, 200) \/ Answer(c, 302) \/ Answer(c, 400) \/ Answer(c, 404))
  BY DEF Describe, RedirectLatest, GetValues, GetSeries, RefusePost, AnswerWithBody
<1>4. Close(c) => handle'[c] = 0
  BY DEF Close, RequestsI, TypeI, WorkOK
<1>5. CASE Answer(c, 500)
  BY <1>1, <1>2, <1>5, PlainAnswer DEF Codes
<1>6. ASSUME NEW code \in {200, 302, 400, 404}, Answer(c, code), Close(c) PROVE RequestsI'
  <2>1. code \in Codes /\ code # 201
    BY DEF Codes
  <2> QED
    BY <1>1, <1>2, <1>4, <1>6, <2>1, PlainAnswer
<1> QED
  BY <1>3, <1>5, <1>6

LEMMA ImportEndKeeps ==
    ASSUME RequestsI, NEW c \in Connections, RefuseRow(c) \/ EndImport(c)
    PROVE  RequestsI'
<1>1. /\ pc[c] = "serve" /\ Handler(c) = "csv_post_values"
      /\ UNCHANGED <<shared, request, context, seen, row, effects, raced>>
      /\ Close(c)
  BY DEF RefuseRow, EndImport, Serving, At
<1>2. handle'[c] = 0
  BY <1>1 DEF Close, RequestsI, TypeI, WorkOK
<1>3. CASE RefuseRow(c)
  <2>1. PICK code \in {400, 500} : Answer(c, code)
    BY <1>3 DEF RefuseRow
  <2>2. code \in Codes /\ code # 201 /\ code # 200
    BY DEF Codes
  <2> QED
    BY <1>1, <1>2, <2>1, <2>2, PlainAnswer
<1>4. CASE EndImport(c)
  <2>1. Answer(c, 200) /\ row[c] > Len(Lines(c))
    BY <1>4 DEF EndImport
  <2>2. effects[c] = Times(Lines(c))
    <3>1. Imported(c) /\ request[c] \in Requests
      BY <1>1 DEF RequestsI, AllInHand, InHand
    <3>2. /\ Len(Lines(c)) \in Nat /\ \A i \in 1..Len(Lines(c)) : Lines(c)[i] = request[c].rows[i]
          /\ DOMAIN Lines(c) = 1..Len(Lines(c))
      BY <3>1, LinesAre
    <3>3. row[c] \in Nat /\ effects[c] \in Seq(Words \union Nat)
      BY DEF RequestsI, TypeI, WorkOK
    <3> DEFINE n == Len(Lines(c))
               e == effects[c]
               r == row[c]
    <3>4. r <= n + 1 /\ r > n /\ Len(e) = r - 1 /\ n \in Nat /\ r \in Nat
      BY <2>1, <3>1, <3>2, <3>3 DEF Imported
    <3>5. r - 1 = n /\ Len(e) = n
      BY <3>4
    <3>6. \A i \in 1..n : e[i] = Lines(c)[i].time
      BY <3>1, <3>2, <3>5 DEF Imported
    <3>7. e = [i \in 1..n |-> e[i]]
      BY <3>3, <3>5, SequenceIs
    <3>8. Times(Lines(c)) = [i \in 1..n |-> Lines(c)[i].time]
      BY <3>2 DEF Times
    <3> HIDE DEF e, n
    <3>9. e = Times(Lines(c))
      BY <3>6, <3>7, <3>8
    <3> QED
      BY <3>9 DEF e
  <2> QED
    BY <1>1, <1>2, <2>1, <2>2, PlainAnswer DEF Codes
<1> QED
  BY <1>3, <1>4

-----------------------------------------------------------------------------
(* The access handler.                                                         *)

LEMMA ReceiveKeeps ==
    ASSUME RequestsI, NEW c \in Connections, NEW r \in Requests, Receive(c, r)
    PROVE  RequestsI'
<1>1. /\ pc[c] = "idle" /\ handle' = [handle EXCEPT ![c] = 0]
      /\ r.signature = Admin => c \in Admins
      /\ nodes' = nodes /\ current' = current /\ seen' = seen /\ row' = row
      /\ effects' = effects /\ raced' = raced
  BY DEF Receive, At, shared
<1>2. \/ /\ request' = [request EXCEPT ![c] = r] /\ context' = [context EXCEPT ![c] = 0]
         /\ status' = [status EXCEPT ![c] = NoAnswer] /\ pc' = [pc EXCEPT ![c] = "upload"]
      \/ /\ context' = [context EXCEPT ![c] = NoContext] /\ status' = [status EXCEPT ![c] = Closed]
         /\ pc' = pc /\ request' = request
  BY DEF Receive, Goto
<1>3. TypeI'
  <2>1. 0 \in 0..Len(nodes)
    BY NodesAre DEF RequestsI
  <2>2. /\ pc \in [Connections -> Labels]
        /\ request \in [Connections -> Requests \union {NoRequest}]
        /\ context \in [Connections -> Nat \union {NoContext}]
        /\ handle \in [Connections -> 0..Len(nodes)]
        /\ status \in [Connections -> {NoAnswer, Closed, 200, 201, 302, 400, 403, 404, 405, 500}]
    BY LocalTypes DEF RequestsI
  <2>3. pc' \in [Connections -> Labels] /\ request' \in [Connections -> Requests \union {NoRequest}]
    <3>1. "upload" \in Labels
      BY DEF Labels
    <3>2. pc' \in [Connections -> Labels]
      BY <1>2, <2>2, <3>1
    <3>3. request' \in [Connections -> Requests \union {NoRequest}]
      BY <1>2, <2>2
    <3> QED
      BY <3>2, <3>3
  <2>4. context' \in [Connections -> Nat \union {NoContext}]
    BY <1>2, <2>2 DEF NoContext
  <2>5. handle' \in [Connections -> 0..Len(nodes)]
    BY <1>1, <2>1, <2>2
  <2>6. status' \in [Connections -> {NoAnswer, Closed, 200, 201, 302, 400, 403, 404, 405, 500}]
    BY <1>2, <2>2
  <2> QED
    BY <1>1, <2>2, <2>3, <2>4, <2>5, <2>6 DEF RequestsI, TypeI, WorkOK
<1>4. OnlyOwn(c)
  BY <1>1, <1>2 DEF RequestsI, TypeI, WorkOK, OnlyOwn
<1>5. effects[c] = <<>> /\ row[c] = 1 /\ InHand(c) /\ request[c] = NoRequest
  <2>1. InHand(c) /\ effects[c] = <<>> /\ request[c] = NoRequest
    BY <1>1 DEF RequestsI, AllInHand, InHand, Before
  <2>2. Handler(c) = "none"
    BY <2>1, HandlerIs
  <2>3. row[c] = 1
    BY <2>1, <2>2 DEF InHand
  <2> QED
    BY <2>1, <2>3
<1>6. CASE request' = [request EXCEPT ![c] = r] /\ pc' = [pc EXCEPT ![c] = "upload"]
  <2>1. request'[c] = r /\ pc'[c] = "upload" /\ handle'[c] = 0 /\ row'[c] = 1 /\ effects'[c] = <<>>
    BY <1>1, <1>5, <1>6 DEF RequestsI, TypeI, WorkOK
  <2>2. Handler(c)' = "csv_post_values" => Imported(c)'
    <3>1. Lines(c)' \in Seq([time : Nat, good : BOOLEAN]) /\ Len(Lines(c)') \in Nat
      <4> DEFINE rows == request'[c].rows
                 T == [time : Nat, good : BOOLEAN]
      <4>1. rows \in Seq(T) /\ ("cut" \in request'[c].bad => rows # <<>>)
        BY <2>1, RequestsAssumption
      <4> HIDE DEF T
      <4>2. Lines(c)' = IF "cut" \in request'[c].bad THEN SubSeq(rows, 1, Len(rows) - 1) ELSE rows
        BY DEF Lines, Front
      <4> HIDE DEF rows
      <4>3. Len(rows) \in Nat /\ (rows # <<>> => Len(rows) # 0)
        BY <4>1
      <4>4. rows # <<>> => SubSeq(rows, 1, Len(rows) - 1) \in Seq(T)
        BY <4>1, <4>3
      <4>5. Lines(c)' \in Seq(T)
        BY <4>1, <4>2, <4>4
      <4>6. Len(Lines(c)') \in Nat
        BY <4>5
      <4> QED
        BY <4>5, <4>6 DEF T
    <3> QED
      BY <2>1, <3>1 DEF Imported
  <2>3. request'[c].signature = Admin => c \in Admins
    BY <1>1, <2>1
  <2>4. ~ Setting(c)'
    BY <2>1 DEF Setting
  <2>5. InHand(c)'
    BY <2>1, <2>2, <2>3, <2>4 DEF InHand, Before, Unopened, Opened
  <2> QED
    BY <1>3, <1>4, <2>5, OthersKeep
<1>7. CASE request' = request /\ pc' = pc /\ context' = [context EXCEPT ![c] = NoContext]
  <2>1. Handler(c)' = Handler(c) /\ Handler(c) = "none"
    BY <1>5, <1>7, HandlerIs DEF Handler
  <2>2. context'[c] = NoContext
    BY <1>7 DEF RequestsI, TypeI, WorkOK
  <2>3. /\ pc'[c] = "idle" /\ request'[c] = NoRequest /\ effects'[c] = <<>> /\ row'[c] = 1
        /\ Handler(c)' = "none"
    BY <1>1, <1>5, <1>7, <2>1
  <2>4. ~ Setting(c)'
    BY <2>3 DEF Setting
  <2>5. InHand(c)'
    BY <2>2, <2>3, <2>4 DEF InHand, Unopened, Opened
  <2> QED
    BY <1>3, <1>4, <2>5, OthersKeep
<1> QED
  BY <1>2, <1>6, <1>7

\* A step to another label that changes nothing else of the request.
LEMMA PlainMove ==
    ASSUME RequestsI, NEW c \in Connections, pc[c] # "idle",
           NEW label \in Labels \ {"idle", "respond", "populate"}, Goto(c, label),
           UNCHANGED <<nodes, current, request, context, row, status, effects>>,
           handle' \in [Connections -> 0..Len(nodes)],
           seen' \in [Connections -> Bytes], raced' \in [Connections -> BOOLEAN],
           \A d \in Connections \ {c} : handle'[d] = handle[d] /\ seen'[d] = seen[d],
           label \in Before \/ (label = "serve" /\ Handler(c) # "csv_post_values") => effects[c] = <<>>,
           label \in Unopened => handle'[c] = 0,
           label \in Opened => handle'[c] # 0,
           label \in {"create_node", "delete_node"} => Handler(c) = label,
           label \in {"set_flags", "set_head", "set_tail"} => Handler(c) = "put_key",
           Handler(c) = "put_key" /\ label # "upload" => request[c].signature = Admin
    PROVE  RequestsI'
<1>1. /\ pc' \in [Connections -> Labels] /\ pc'[c] = label
      /\ \A d \in Connections \ {c} : pc'[d] = pc[d]
  BY LocalTypes DEF RequestsI, Goto
<1>2. TypeI'
  BY <1>1 DEF RequestsI, TypeI, WorkOK
<1>3. OnlyOwn(c)
  BY <1>1 DEF OnlyOwn
<1>4. InHand(c)'
  <2>1. /\ pc'[c] = label /\ request'[c] = request[c] /\ row'[c] = row[c]
        /\ effects'[c] = effects[c]
    BY <1>1
  <2> QED
    BY <2>1, Moving
<1> QED
  BY <1>2, <1>3, <1>4, OthersKeep

LEMMA JoinKeeps ==
    ASSUME RequestsI, NEW c \in Connections, Join(c)
    PROVE  RequestsI'
<1>1. /\ pc[c] = "upload" /\ handle' = handle
      /\ UNCHANGED <<shared, request, seen, row, effects, raced>>
  BY DEF Join, At
<1>2. CASE Answer(c, 500) /\ UNCHANGED context
  BY <1>1, <1>2, PlainAnswer DEF Codes
<1>3. CASE context' = [context EXCEPT ![c] = @ + 1] /\ UNCHANGED <<pc, status>>
  <2>1. context' \in [Connections -> Nat \union {NoContext}]
    <3>1. context \in [Connections -> Nat \union {NoContext}]
      BY LocalTypes DEF RequestsI
    <3> QED
      BY <1>3, <3>1 DEF NoContext
  <2>2. TypeI'
    BY <1>1, <1>3, <2>1 DEF RequestsI, TypeI, WorkOK, shared
  <2>3. OnlyOwn(c)
    BY <1>1, <1>3, LocalTypes DEF RequestsI, OnlyOwn
  <2>4. InHand(c)'
    <3>1. InHand(c)
      BY DEF RequestsI, AllInHand
    <3>2. /\ Handler(c)' = Handler(c) /\ Lines(c)' = Lines(c) /\ Setting(c)' = Setting(c)
          /\ pc'[c] = "upload"
      BY <1>1, <1>3 DEF Handler, Lines, Setting
    <3>3. Imported(c)' = Imported(c)
      BY <1>1, <3>2 DEF Imported
    <3> QED
      BY <1>1, <1>3, <3>1, <3>2, <3>3 DEF InHand
  <2> QED
    BY <2>2, <2>3, <2>4, OthersKeep
<1> QED
  BY <1>2, <1>3 DEF Join

\* The end of a request, answered or not.
LEMMA ForgetKeeps ==
    ASSUME RequestsI, NEW c \in Connections, Disconnect(c) \/ Respond(c)
    PROVE  RequestsI'
<1>1. /\ pc' = [pc EXCEPT ![c] = "idle"] /\ request' = [request EXCEPT ![c] = NoRequest]
      /\ seen' = [seen EXCEPT ![c] = <<Erased, Erased>>] /\ row' = [row EXCEPT ![c] = 1]
      /\ effects' = [effects EXCEPT ![c] = <<>>] /\ raced' = [raced EXCEPT ![c] = FALSE]
      /\ nodes' = nodes /\ current' = current /\ handle' = handle
  BY DEF Disconnect, Respond, Goto, Forget, shared
<1>2. \/ status' = [status EXCEPT ![c] = Closed] /\ context' = context
      \/ /\ context' = [context EXCEPT ![c] = NoContext]
         /\ \/ status' = [status EXCEPT ![c] = NoAnswer]
            \/ status' = [status EXCEPT ![c] = Closed]
  BY DEF Disconnect, Respond
<1>3. TypeI
  BY DEF RequestsI
<1>4. /\ pc' \in [Connections -> Labels] /\ pc'[c] = "idle"
      /\ \A d \in Connections \ {c} : pc'[d] = pc[d]
  BY <1>1, <1>3, LocalTypes DEF Labels
<1>5. /\ request' \in [Connections -> Requests \union {NoRequest}] /\ request'[c] = NoRequest
      /\ \A d \in Connections \ {c} : request'[d] = request[d]
  BY <1>1, <1>3, LocalTypes
<1>6. /\ row' \in [Connections -> Nat] /\ row'[c] = 1
      /\ \A d \in Connections \ {c} : row'[d] = row[d]
  BY <1>1, <1>3, LocalTypes
<1>7. /\ effects' \in [Connections -> Seq(Words \union Nat)] /\ effects'[c] = <<>>
      /\ \A d \in Connections \ {c} : effects'[d] = effects[d]
  <2>1. <<>> \in Seq(Words \union Nat)
    OBVIOUS
  <2> QED
    BY <1>1, <1>3, <2>1, LocalTypes
<1>8. /\ context' \in [Connections -> Nat \union {NoContext}]
      /\ status' \in [Connections -> {NoAnswer, Closed, 200, 201, 302, 400, 403, 404, 405, 500}]
      /\ status'[c] # Closed => context'[c] = NoContext
      /\ \A d \in Connections \ {c} : context'[d] = context[d] /\ status'[d] = status[d]
  <2>1. /\ context \in [Connections -> Nat \union {NoContext}]
        /\ status \in [Connections -> {NoAnswer, Closed, 200, 201, 302, 400, 403, 404, 405, 500}]
    BY <1>3, LocalTypes
  <2> QED
    BY <1>2, <2>1 DEF NoContext, NoAnswer, Closed
<1>9. /\ seen' \in [Connections -> Bytes] /\ raced' \in [Connections -> BOOLEAN]
      /\ \A d \in Connections \ {c} : seen'[d] = seen[d]
  <2>1. <<Erased, Erased>> \in Bytes
    BY DEF Bytes
  <2>2. seen \in [Connections -> Bytes] /\ raced \in [Connections -> BOOLEAN]
    BY <1>3 DEF TypeI, WorkOK
  <2> QED
    BY <1>1, <2>1, <2>2
<1>10. \A d \in Connections : row'[d] \in 1..Len(effects'[d]) + 1
  <2>1. \A d \in Connections : row[d] \in 1..Len(effects[d]) + 1
    BY <1>3 DEF TypeI, WorkOK
  <2>2. Len(<<>>) = 0 /\ 1 \in 1..1
    OBVIOUS
  <2>3. row'[c] \in 1..Len(effects'[c]) + 1
    BY <1>6, <1>7, <2>2
  <2>4. \A d \in Connections \ {c} : row'[d] \in 1..Len(effects'[d]) + 1
    BY <1>6, <1>7, <2>1
  <2> QED
    BY <2>3, <2>4
<1>11. TypeI'
  BY <1>1, <1>3, <1>4, <1>5, <1>6, <1>7, <1>8, <1>9, <1>10 DEF TypeI, WorkOK
<1>12. OnlyOwn(c)
  BY <1>1, <1>4, <1>5, <1>6, <1>7, <1>8, <1>9 DEF OnlyOwn
<1>13. InHand(c)'
  <2>1. Handler(c)' = "none"
    BY <1>5 DEF Handler, NoRequest, Tree
  <2>2. ~ Setting(c)'
    BY <1>4 DEF Setting
  <2> QED
    BY <1>4, <1>5, <1>6, <1>7, <1>8, <2>1, <2>2 DEF InHand, Unopened, Opened
<1> QED
  BY <1>11, <1>12, <1>13, OthersKeep

\* A handler of the administrator is entered only with his signature.
LEMMA Admitted ==
    ASSUME NEW c \in Connections, Handler(c) = "put_key", Passing(c, Len(Checks[Handler(c)]))
    PROVE  request[c].signature = Admin
<1>1. Len(Checks[Handler(c)]) = 3 /\ Checks[Handler(c)][1] = "admin"
  BY ChecksAre DEF Handlers
<1>2. Passes(c, Checks[Handler(c)][1])
  BY <1>1 DEF Passing
<1> QED
  BY <1>1, <1>2 DEF Passes

LEMMA DispatchKeeps ==
    ASSUME RequestsI, NEW c \in Connections, Dispatch(c)
    PROVE  RequestsI'
<1>1. /\ pc[c] = "upload" /\ handle' = handle /\ Handler(c) # "none"
      /\ Passing(c, Len(Checks[Handler(c)]))
      /\ UNCHANGED <<shared, request, context, seen, row, effects, raced>>
      /\ UNCHANGED <<nodes, current>>
  BY DEF Dispatch, local, shared, At
<1>2. effects[c] = <<>> /\ handle[c] = 0
  BY <1>1, Untouched DEF Before, Unopened
<1>3. /\ handle' \in [Connections -> 0..Len(nodes)] /\ seen' \in [Connections -> Bytes]
      /\ raced' \in [Connections -> BOOLEAN]
  BY <1>1 DEF RequestsI, TypeI, WorkOK
<1>4. Handler(c) = "put_key" => request[c].signature = Admin
  BY <1>1, Admitted
<1>5. \/ Handler(c) # "csv_post_values" /\ (Answer(c, 302) \/ Answer(c, 404) \/ Answer(c, 200))
      \/ status' = status /\ Handler(c) = "create_node" /\ Goto(c, "create_node")
      \/ status' = status /\ Handler(c) = "delete_node" /\ Goto(c, "delete_node")
      \/ status' = status /\ Goto(c, "open")
  <2>1. CASE Handler(c) = "redirect"
    BY <2>1 DEF Dispatch
  <2>2. CASE Handler(c) = "get_nodes"
    BY <2>2 DEF Dispatch
  <2>3. CASE Handler(c) = "get_keys"
    BY <2>3 DEF Dispatch
  <2>4. CASE Handler(c) \in {"create_node", "delete_node"}
    BY <2>4 DEF Dispatch
  <2>5. CASE Handler(c) \notin {"redirect", "get_nodes", "get_keys", "create_node", "delete_node"}
    BY <2>5 DEF Dispatch
  <2> QED
    BY <2>1, <2>2, <2>3, <2>4, <2>5
<1>6. ASSUME NEW code \in {200, 302, 404}, Answer(c, code), Handler(c) # "csv_post_values"
      PROVE  RequestsI'
  <2>1. code \in Codes /\ code # 201
    BY DEF Codes
  <2> QED
    BY <1>1, <1>2, <1>6, <2>1, PlainAnswer
<1>7. ASSUME NEW label \in {"create_node", "delete_node", "open"}, Goto(c, label), status' = status,
             label # "open" => Handler(c) = label
      PROVE  RequestsI'
  <2>1. /\ label \in Labels \ {"idle", "respond", "populate"} /\ label \in Unopened /\ label \notin Opened
        /\ label \notin {"set_flags", "set_head", "set_tail"}
    BY DEF Labels, Unopened, Opened
  <2> QED
    BY <1>1, <1>2, <1>3, <1>4, <1>7, <2>1, PlainMove
<1> QED
  BY <1>5, <1>6, <1>7

LEMMA OpenKeeps ==
    ASSUME RequestsI, NEW c \in Connections, Open(c)
    PROVE  RequestsI'
<1>1. /\ pc[c] = "open"
      /\ UNCHANGED <<shared, request, context, seen, row, effects, raced>>
      /\ UNCHANGED <<nodes, current>>
  BY DEF Open, shared, At
<1>2. effects[c] = <<>> /\ handle[c] = 0
  BY <1>1, Untouched DEF Before, Unopened
<1>3. CASE Answer(c, 404) /\ UNCHANGED handle
  BY <1>1, <1>2, <1>3, PlainAnswer DEF Codes
<1>4. ASSUME current # 0, handle' = [handle EXCEPT ![c] = current], status' = status,
             NEW label \in {"set_flags", "get_flags"}, Goto(c, label),
             label = "set_flags" => Handler(c) = "put_key"
      PROVE  RequestsI'
  <2>1. label \in Labels \ {"idle", "respond", "populate"} /\ label \in Opened /\ label \notin Unopened
    BY DEF Labels, Unopened, Opened
  <2>2. current \in 0..Len(nodes) /\ seen' \in [Connections -> Bytes] /\ raced' \in [Connections -> BOOLEAN]
    BY <1>1 DEF RequestsI, TypeI, WorkOK
  <2>3. /\ handle' \in [Connections -> 0..Len(nodes)] /\ handle'[c] # 0
        /\ \A d \in Connections \ {c} : handle'[d] = handle[d]
    BY <1>4, <2>2, LocalTypes DEF RequestsI
  <2>4. Handler(c) = "put_key" => request[c].signature = Admin
    BY <1>1 DEF RequestsI, AllInHand, InHand
  <2> QED
    BY <1>1, <1>2, <1>4, <2>1, <2>2, <2>3, <2>4, PlainMove
<1>5. CASE /\ current # 0 /\ handle' = [handle EXCEPT ![c] = current] /\ status' = status
           /\ Goto(c, IF Handler(c) = "put_key" THEN "set_flags" ELSE "get_flags")
  BY <1>4, <1>5
<1> QED
  BY <1>3, <1>5 DEF Open

-----------------------------------------------------------------------------
(* The steps that change the node.                                             *)

NodeType == [first : Slot, last : Slot, key : [KeyIds -> [flags : {0, InUse}, bytes : Bytes]]]

\* What a request has changed grows by one.
LEMMA EffectIs ==
    ASSUME TypeI, NEW c \in Connections, NEW what \in Words \union Nat, Effect(c, what)
    PROVE  /\ effects' \in [Connections -> Seq(Words \union Nat)]
           /\ effects'[c] = Append(effects[c], what)
           /\ \A d \in Connections \ {c} : effects'[d] = effects[d]
           /\ \A d \in Connections : row[d] \in 1..Len(effects'[d]) + 1
<1> DEFINE S == Words \union Nat
<1>1. effects \in [Connections -> Seq(S)] /\ effects' = [effects EXCEPT ![c] = Append(@, what)]
  BY LocalTypes DEF Effect
<1>2. \A d \in Connections : row[d] \in 1..Len(effects[d]) + 1
  BY DEF TypeI, WorkOK
<1> HIDE DEF S
<1>3. what \in S /\ effects[c] \in Seq(S)
  BY <1>1 DEF S
<1>4. /\ Append(effects[c], what) \in Seq(S) /\ Len(effects[c]) \in Nat
      /\ Len(Append(effects[c], what)) = Len(effects[c]) + 1
  BY <1>3
<1>5. /\ effects' \in [Connections -> Seq(S)] /\ effects'[c] = Append(effects[c], what)
      /\ \A d \in Connections \ {c} : effects'[d] = effects[d]
  BY <1>1, <1>4
<1>6. row[c] \in 1..Len(effects'[c]) + 1
  BY <1>2, <1>4, <1>5
<1> QED
  BY <1>2, <1>5, <1>6 DEF S

LEMMA EffectsAre ==
    "created" \in Words \union Nat /\ "deleted" \in Words \union Nat /\ "key" \in Words \union Nat
  BY Zenon DEF Words

\* A key written in part: its flags, or one of its two pieces.
LEMMA FlagsWritten ==
    ASSUME TypeI, NEW n \in 1..Len(nodes), NEW k \in KeyIds, NEW v \in {0, InUse},
           nodes' = [nodes EXCEPT ![n].key[k].flags = v]
    PROVE  /\ nodes' \in Seq(NodeType) /\ Len(nodes') = Len(nodes)
           /\ nodes'[n].key[k].flags = v /\ nodes'[n].key[k].bytes = nodes[n].key[k].bytes
           /\ \A i \in 1..Len(nodes), j \in KeyIds :
                 i # n \/ j # k => nodes'[i].key[j] = nodes[i].key[j]
<1> DEFINE KeyType == [flags : {0, InUse}, bytes : Bytes]
           key  == [nodes[n].key[k] EXCEPT !.flags = v]
           keys == [nodes[n].key EXCEPT ![k] = key]
           node == [nodes[n] EXCEPT !.key = keys]
<1>1. nodes \in Seq(NodeType)
  BY DEF TypeI, WorkOK, NodeType
<1>2. nodes[n] \in NodeType
  BY <1>1
<1>3. nodes[n].key \in [KeyIds -> KeyType]
  BY <1>2 DEF NodeType
<1>4. nodes[n].key[k] \in KeyType
  BY <1>3
<1>5. key \in KeyType /\ key.flags = v /\ key.bytes = nodes[n].key[k].bytes
  BY <1>4
<1>6. nodes' = [nodes EXCEPT ![n] = node]
  OBVIOUS
<1> HIDE DEF key
<1>7. keys \in [KeyIds -> KeyType] /\ keys[k] = key /\ \A j \in KeyIds \ {k} : keys[j] = nodes[n].key[j]
  BY <1>3, <1>5
<1> HIDE DEF keys
<1>8. node \in NodeType /\ node.key = keys
  BY <1>2, <1>7 DEF NodeType
<1> HIDE DEF node, KeyType
<1>9. /\ nodes' \in Seq(NodeType) /\ Len(nodes') = Len(nodes) /\ nodes'[n] = node
      /\ \A i \in 1..Len(nodes) : i # n => nodes'[i] = nodes[i]
  BY <1>1, <1>6, <1>8
<1> QED
  BY <1>5, <1>7, <1>8, <1>9, ZenonT(90)

WritesPiece(n, k, b, v) == nodes' = [nodes EXCEPT ![n].key[k].bytes[b] = v]

LEMMA BytesWritten ==
    ASSUME TypeI, NEW n \in 1..Len(nodes), NEW k \in KeyIds, NEW b \in 1..2,
           NEW v \in Keys \union {Erased},
           WritesPiece(n, k, b, v)
    PROVE  /\ nodes' \in Seq(NodeType) /\ Len(nodes') = Len(nodes)
           /\ nodes'[n].key[k].flags = nodes[n].key[k].flags
           /\ nodes'[n].key[k].bytes[b] = v
           /\ \A a \in 1..2 : a # b => nodes'[n].key[k].bytes[a] = nodes[n].key[k].bytes[a]
           /\ \A i \in 1..Len(nodes), j \in KeyIds :
                 i # n \/ j # k => nodes'[i].key[j] = nodes[i].key[j]
<1> DEFINE KeyType == [flags : {0, InUse}, bytes : Bytes]
           bytes == [nodes[n].key[k].bytes EXCEPT ![b] = v]
           key  == [nodes[n].key[k] EXCEPT !.bytes = bytes]
           keys == [nodes[n].key EXCEPT ![k] = key]
           node == [nodes[n] EXCEPT !.key = keys]
<1>1. nodes \in Seq(NodeType)
  BY DEF TypeI, WorkOK, NodeType
<1>2. nodes[n] \in NodeType
  BY <1>1
<1>3. nodes[n].key \in [KeyIds -> KeyType]
  BY <1>2 DEF NodeType
<1>4. nodes[n].key[k] \in KeyType
  BY <1>3
<1>5. nodes[n].key[k].bytes \in Bytes
  BY <1>4
<1>6. nodes' = [nodes EXCEPT ![n] = node]
  BY DEF WritesPiece
<1>7. bytes \in Bytes /\ bytes[b] = v /\ \A a \in 1..2 : a # b => bytes[a] = nodes[n].key[k].bytes[a]
  BY <1>5 DEF Bytes
<1> HIDE DEF bytes
<1>8. key \in KeyType /\ key.bytes = bytes /\ key.flags = nodes[n].key[k].flags
  BY <1>4, <1>7
<1> HIDE DEF key
<1>9. keys \in [KeyIds -> KeyType] /\ keys[k] = key /\ \A j \in KeyIds \ {k} : keys[j] = nodes[n].key[j]
  BY <1>3, <1>8
<1> HIDE DEF keys
<1>10. node \in NodeType /\ node.key = keys
  BY <1>2, <1>9 DEF NodeType
<1> HIDE DEF node, KeyType
<1>11. /\ nodes' \in Seq(NodeType) /\ Len(nodes') = Len(nodes) /\ nodes'[n] = node
       /\ \A i \in 1..Len(nodes) : i # n => nodes'[i] = nodes[i]
  BY <1>1, <1>6, <1>10
<1>12. nodes'[n].key[k] = key
  BY <1>9, <1>10, <1>11
<1>13. \A i \in 1..Len(nodes), j \in KeyIds :
          i # n \/ j # k => nodes'[i].key[j] = nodes[i].key[j]
  BY <1>9, <1>10, <1>11
<1>14. /\ nodes'[n].key[k].flags = nodes[n].key[k].flags /\ nodes'[n].key[k].bytes[b] = v
       /\ \A a \in 1..2 : a # b => nodes'[n].key[k].bytes[a] = nodes[n].key[k].bytes[a]
  BY <1>7, <1>8, <1>12
<1> QED
  BY <1>11, <1>13, <1>14

\* A connection with a node open asks for one of its keys.
LEMMA OpenedHas ==
    ASSUME RequestsI, NEW c \in Connections, pc[c] \in Opened
    PROVE  handle[c] \in 1..Len(nodes) /\ KeyId(c) \in KeyIds /\ request[c] \in Requests
<1>1. handle[c] # 0 /\ request[c] \in Requests
  BY DEF RequestsI, AllInHand, InHand, Opened
<1>2. handle[c] \in 0..Len(nodes) /\ Len(nodes) \in Nat
  BY LocalTypes, NodesAre DEF RequestsI
<1>3. handle[c] \in 1..Len(nodes)
  BY <1>1, <1>2
<1>4. request[c].keyid \in KeyIds
  BY <1>1, RequestsAssumption
<1>5. KeyId(c) \in KeyIds
  BY <1>4 DEF KeyId, KeyIds
<1> QED
  BY <1>1, <1>3, <1>5

-----------------------------------------------------------------------------
(* The key store.                                                              *)

LEMMA AdminSets ==
    ASSUME RequestsI, NEW c \in Connections, pc[c] \in Opened, Handler(c) = "put_key"
    PROVE  request[c].signature = Admin
  BY DEF RequestsI, AllInHand, InHand, Opened

\* A step of the key store that reads.
LEMMA ReadMove ==
    ASSUME RequestsI, NEW c \in Connections, pc[c] \in {"get_flags", "get_head", "get_tail", "signature"},
           NEW label \in {"get_head", "get_tail", "signature", "serve"}, Goto(c, label),
           UNCHANGED <<nodes, current, request, context, handle, row, status, effects>>,
           seen' \in [Connections -> Bytes], raced' \in [Connections -> BOOLEAN],
           \A d \in Connections \ {c} : seen'[d] = seen[d]
    PROVE  RequestsI'
<1>1. pc[c] \in Before /\ pc[c] \in Opened /\ pc[c] # "idle"
  BY DEF Before, Opened, Unopened
<1>2. effects[c] = <<>> /\ handle[c] # 0
  BY <1>1 DEF RequestsI, AllInHand, InHand
<1>3. /\ label \in Labels \ {"idle", "respond", "populate"} /\ label \notin Unopened
      /\ label \notin {"create_node", "delete_node", "set_flags", "set_head", "set_tail"}
  BY DEF Labels, Unopened
<1>4. Handler(c) = "put_key" => request[c].signature = Admin
  BY <1>1, AdminSets
<1>5. handle' \in [Connections -> 0..Len(nodes)] /\ handle'[c] # 0
  BY <1>2, LocalTypes DEF RequestsI
<1> QED
  BY <1>1, <1>2, <1>3, <1>4, <1>5, PlainMove

LEMMA KeyReadKeeps ==
    ASSUME RequestsI, NEW c \in Connections,
           GetFlags(c) \/ GetHead(c) \/ GetTail(c) \/ CheckSignature(c)
    PROVE  RequestsI'
<1>1. seen \in [Connections -> Bytes] /\ raced \in [Connections -> BOOLEAN]
  BY DEF RequestsI, TypeI, WorkOK
<1>2. CASE GetFlags(c)
  <2>1. /\ pc[c] = "get_flags"
        /\ UNCHANGED <<nodes, current, request, context, handle, seen, row, status, effects>>
    BY <1>2 DEF GetFlags, At, shared
  <2>2. Goto(c, "get_head") \/ Goto(c, "serve")
    BY <1>2 DEF GetFlags
  <2>3. raced' \in [Connections -> BOOLEAN]
    <3> DEFINE now == \/ <<handle[c], KeyId(c)>> \in torn
                      \/ \E d \in Connections : Setting(d) /\ SameKey(c, d)
    <3>1. raced' = raced \/ raced' = [raced EXCEPT ![c] = now]
      BY <1>2 DEF GetFlags
    <3>2. now \in BOOLEAN
      OBVIOUS
    <3> HIDE DEF now
    <3> QED
      BY <1>1, <3>1, <3>2, Zenon
  <2>4. /\ seen' \in [Connections -> Bytes] /\ \A d \in Connections \ {c} : seen'[d] = seen[d]
    BY <1>1, <2>1
  <2> QED
    BY <2>1, <2>2, <2>3, <2>4, ReadMove
<1>3. ASSUME NEW b \in 1..2, pc[c] \in {"get_head", "get_tail"},
             seen' = [seen EXCEPT ![c][b] = nodes[handle[c]].key[KeyId(c)].bytes[b]]
      PROVE  /\ seen' \in [Connections -> Bytes] /\ \A d \in Connections \ {c} : seen'[d] = seen[d]
  <2>1. handle[c] \in 1..Len(nodes) /\ KeyId(c) \in KeyIds
    BY <1>3, OpenedHas DEF Opened
  <2>2. nodes \in Seq(NodeType)
    BY DEF RequestsI, TypeI, WorkOK, NodeType
  <2>3. nodes[handle[c]] \in NodeType
    BY <2>1, <2>2
  <2>4. nodes[handle[c]].key[KeyId(c)].bytes \in Bytes
    BY <2>1, <2>3 DEF NodeType
  <2>5. nodes[handle[c]].key[KeyId(c)].bytes[b] \in Keys \union {Erased}
    BY <2>4 DEF Bytes
  <2> DEFINE v == nodes[handle[c]].key[KeyId(c)].bytes[b]
             s == [seen[c] EXCEPT ![b] = v]
  <2>6. seen' = [seen EXCEPT ![c] = s]
    BY <1>3
  <2>7. v \in Keys \union {Erased}
    BY <2>5
  <2> HIDE DEF v
  <2>8. s \in Bytes
    BY <1>1, <2>7 DEF Bytes
  <2> HIDE DEF s
  <2> QED
    BY <1>1, <2>6, <2>8
<1>4. CASE GetHead(c)
  <2>1. /\ pc[c] = "get_head" /\ Goto(c, "get_tail")
        /\ UNCHANGED <<nodes, current, request, context, handle, row, status, effects, raced>>
        /\ seen' = [seen EXCEPT ![c][1] = nodes[handle[c]].key[KeyId(c)].bytes[1]]
    BY <1>4 DEF GetHead, At, shared
  <2>2. seen' \in [Connections -> Bytes] /\ \A d \in Connections \ {c} : seen'[d] = seen[d]
    BY <1>3, <2>1, SMTT(60)
  <2>3. raced' \in [Connections -> BOOLEAN]
    BY <1>1, <2>1
  <2> QED
    BY <2>1, <2>2, <2>3, ReadMove
<1>5. CASE GetTail(c)
  <2>1. /\ pc[c] = "get_tail" /\ (Goto(c, "serve") \/ Goto(c, "signature"))
        /\ UNCHANGED <<nodes, current, request, context, handle, row, status, effects, raced>>
        /\ seen' = [seen EXCEPT ![c][2] = nodes[handle[c]].key[KeyId(c)].bytes[2]]
    BY <1>5 DEF GetTail, At, shared
  <2>2. seen' \in [Connections -> Bytes] /\ \A d \in Connections \ {c} : seen'[d] = seen[d]
    BY <1>3, <2>1, SMTT(60)
  <2>3. raced' \in [Connections -> BOOLEAN]
    BY <1>1, <2>1
  <2> QED
    BY <2>1, <2>2, <2>3, ReadMove
<1>6. CASE CheckSignature(c)
  <2>1. /\ pc[c] = "signature"
        /\ UNCHANGED <<nodes, current, request, context, row, effects>>
        /\ seen' = [seen EXCEPT ![c] = <<Erased, Erased>>] /\ raced' = [raced EXCEPT ![c] = FALSE]
        /\ (Goto(c, "serve") /\ UNCHANGED <<status, handle>>) \/ (Answer(c, 403) /\ Close(c))
    BY <1>6 DEF CheckSignature, At, shared
  <2>2. seen' \in [Connections -> Bytes] /\ raced' \in [Connections -> BOOLEAN]
        /\ \A d \in Connections \ {c} : seen'[d] = seen[d]
    <3>1. <<Erased, Erased>> \in Bytes
      BY DEF Bytes
    <3> QED
      BY <1>1, <2>1, <3>1
  <2>3. CASE Goto(c, "serve") /\ UNCHANGED <<status, handle>>
    BY <2>1, <2>2, <2>3, ReadMove
  <2>4. CASE Answer(c, 403) /\ Close(c)
    <3>1. effects[c] = <<>> /\ handle'[c] = 0
      BY <2>1, <2>4, Untouched, LocalTypes DEF Before, Close, RequestsI
    <3>2. OnlyAnswers(c, 403)
      BY <2>1, <2>2, <2>4, <3>1 DEF OnlyAnswers, Only
    <3> QED
      BY <3>2, AnswerKeeps DEF Codes
  <2> QED
    BY <2>1, <2>3, <2>4
<1> QED
  BY <1>2, <1>4, <1>5, <1>6

\* An answer to a request that may have changed something.
AnswersChanging(c, code) ==
    /\ Answer(c, code)
    /\ UNCHANGED <<request, context, seen, row, raced>>
    /\ nodes' \in Seq(NodeType) /\ Len(nodes) <= Len(nodes') /\ current' \in 0..Len(nodes')
    /\ handle' = handle \/ Close(c)
    /\ handle'[c] = 0
    /\ effects' \in [Connections -> Seq(Words \union Nat)]
    /\ \A d \in Connections \ {c} : effects'[d] = effects[d]
    /\ \A d \in Connections : row[d] \in 1..Len(effects'[d]) + 1
    /\ pc[c] # "idle" /\ Handler(c) # "csv_post_values"
    /\ code \in 400..499 => effects'[c] = <<>>
    /\ code = 201 => effects'[c] = Times(request[c].rows)

LEMMA ChangingAnswer ==
    ASSUME RequestsI, NEW c \in Connections, NEW code \in Codes, AnswersChanging(c, code)
    PROVE  RequestsI'
<1> USE DEF AnswersChanging
<1>1. /\ pc' \in [Connections -> Labels] /\ pc'[c] = "respond"
      /\ status' \in [Connections -> Codes \union {NoAnswer, Closed}] /\ status'[c] = code
      /\ \A d \in Connections \ {c} : pc'[d] = pc[d] /\ status'[d] = status[d]
  BY DEF RequestsI, TypeI, WorkOK, Answer, Goto, Labels, Codes
<1>2. /\ request' = request /\ context' = context
      /\ seen' = seen /\ row' = row /\ raced' = raced
  OBVIOUS
<1>3. /\ handle' \in [Connections -> 0..Len(nodes')]
      /\ \A d \in Connections \ {c} : handle'[d] = handle[d]
  <2> DEFINE m == Len(nodes)
             n == Len(nodes')
  <2>1. handle \in [Connections -> 0..m] /\ m \in Nat
    BY LocalTypes, NodesAre DEF RequestsI
  <2>2. n \in Nat /\ m <= n
    OBVIOUS
  <2> HIDE DEF m, n
  <2>3. handle \in [Connections -> 0..n] /\ 0 \in 0..n
    BY <2>1, <2>2
  <2>4. CASE handle' = handle
    BY <2>3, <2>4 DEF n
  <2>5. CASE handle' = [handle EXCEPT ![c] = 0]
    BY <2>3, <2>5 DEF n
  <2> QED
    BY <2>4, <2>5 DEF Close
<1>4. TypeI'
  <2>1. /\ request \in [Connections -> Requests \union {NoRequest}]
        /\ context \in [Connections -> Nat \union {NoContext}]
        /\ seen \in [Connections -> Bytes] /\ raced \in [Connections -> BOOLEAN]
        /\ row \in [Connections -> Nat]
    BY DEF RequestsI, TypeI, WorkOK
  <2>2. /\ request' \in [Connections -> Requests \union {NoRequest}]
        /\ context' \in [Connections -> Nat \union {NoContext}]
        /\ seen' \in [Connections -> Bytes] /\ raced' \in [Connections -> BOOLEAN]
        /\ row' \in [Connections -> Nat]
    BY <1>2, <2>1
  <2>3. \A d \in Connections : row'[d] \in 1..Len(effects'[d]) + 1
    BY <1>2
  <2>4. status' \in [Connections -> {NoAnswer, Closed, 200, 201, 302, 400, 403, 404, 405, 500}]
    BY <1>1 DEF Codes
  <2>5. /\ nodes' \in Seq(NodeType) /\ current' \in 0..Len(nodes')
        /\ effects' \in [Connections -> Seq(Words \union Nat)]
    OBVIOUS
  <2> QED
    BY ONLY <1>1, <1>3, <2>2, <2>3, <2>4, <2>5 DEF TypeI, WorkOK, NodeType
<1>5. OnlyOwn(c)
  BY <1>1, <1>2, <1>3 DEF OnlyOwn
<1>6. Told(c)'
  <2>1. Handler(c)' = Handler(c)
    BY <1>2 DEF Handler
  <2>2. code \in 400..499 => effects'[c] = <<>>
    OBVIOUS
  <2>3. code = 201 => effects'[c] = Times(request[c].rows)
    OBVIOUS
  <2>4. handle'[c] = 0 /\ Handler(c) # "csv_post_values"
    OBVIOUS
  <2> QED
    BY <1>1, <1>2, <2>1, <2>2, <2>3, <2>4 DEF Told, Times
<1>7. InHand(c)'
  <2>1. /\ pc'[c] = "respond" /\ request'[c] = request[c] /\ row'[c] = row[c]
    BY <1>1, <1>2
  <2> QED
    BY <1>6, <2>1, Answering
<1> QED
  BY <1>4, <1>5, <1>7, OthersKeep

LEMMA NodesType ==
    ASSUME RequestsI
    PROVE  nodes \in Seq(NodeType) /\ Len(nodes) \in Nat /\ current \in 0..Len(nodes)
<1>1. nodes \in Seq(NodeType) /\ current \in 0..Len(nodes)
  BY DEF RequestsI, TypeI, WorkOK, NodeType
<1> QED
  BY <1>1

\* A node is made, and its request has its file open and nothing in it.
LEMMA CreateKeeps ==
    ASSUME RequestsI, NEW c \in Connections, CreateNode(c)
    PROVE  RequestsI'
<1>1. pc[c] = "create_node" /\ UNCHANGED <<torn, request, context, seen, row, raced>>
  BY DEF CreateNode, At
<1>2. effects[c] = <<>> /\ handle[c] = 0 /\ Handler(c) = "create_node"
  BY <1>1 DEF RequestsI, AllInHand, InHand, Before, Unopened
<1>3. CASE Answer(c, 403) /\ UNCHANGED <<nodes, current, empty, handle, effects>>
  <2>1. UNCHANGED <<shared, request, context, seen, row, effects, raced>>
    BY <1>1, <1>3 DEF shared
  <2> QED
    BY <1>1, <1>2, <1>3, <2>1, PlainAnswer DEF Codes
<1>4. CASE /\ nodes' = Append(nodes, NewNode) /\ current' = Len(nodes) + 1
           /\ handle' = [handle EXCEPT ![c] = Len(nodes) + 1]
           /\ Effect(c, "created") /\ Goto(c, "populate") /\ UNCHANGED status
  <2>1. NewNode \in NodeType
    <3>1. <<Erased, Erased>> \in Bytes
      BY DEF Bytes
    <3> QED
      BY <3>1 DEF NewNode, NodeType, Slot
  <2>2. nodes' \in Seq(NodeType) /\ Len(nodes') = Len(nodes) + 1
    BY <1>4, <2>1, NodesType
  <2> DEFINE m == Len(nodes)
             n == Len(nodes')
  <2>3. m \in Nat /\ n = m + 1
    BY <2>2, NodesType
  <2>4. current' \in 0..n
    BY <1>4, <2>3
  <2>5. /\ effects' \in [Connections -> Seq(Words \union Nat)]
        /\ \A d \in Connections \ {c} : effects'[d] = effects[d]
        /\ \A d \in Connections : row[d] \in 1..Len(effects'[d]) + 1
    BY <1>4, EffectIs, EffectsAre DEF RequestsI
  <2>6. /\ handle' \in [Connections -> 0..n] /\ handle'[c] # 0
        /\ \A d \in Connections \ {c} : handle'[d] = handle[d]
    <3>1. handle \in [Connections -> 0..m] /\ handle' = [handle EXCEPT ![c] = m + 1]
      BY <1>4, LocalTypes DEF RequestsI
    <3> HIDE DEF m, n
    <3>2. handle \in [Connections -> 0..n] /\ m + 1 \in 0..n /\ m + 1 # 0
      BY <2>3, <3>1
    <3> QED
      BY <3>1, <3>2
  <2>7. /\ pc' \in [Connections -> Labels] /\ pc'[c] = "populate"
        /\ \A d \in Connections \ {c} : pc'[d] = pc[d]
    BY <1>4, LocalTypes DEF RequestsI, Goto, Labels
  <2>8. /\ request \in [Connections -> Requests \union {NoRequest}]
        /\ context \in [Connections -> Nat \union {NoContext}]
        /\ seen \in [Connections -> Bytes] /\ row \in [Connections -> Nat]
        /\ raced \in [Connections -> BOOLEAN]
        /\ status \in [Connections -> {NoAnswer, Closed, 200, 201, 302, 400, 403, 404, 405, 500}]
    BY DEF RequestsI, TypeI, WorkOK
  <2>9. TypeI'
    BY <1>1, <1>4, <2>2, <2>4, <2>5, <2>6, <2>7, <2>8 DEF TypeI, WorkOK, NodeType
  <2>10. OnlyOwn(c)
    BY <1>1, <1>4, <2>5, <2>6, <2>7 DEF OnlyOwn
  <2>11. /\ "populate" \notin Before /\ "populate" \notin Unopened
         /\ "populate" \notin {"idle", "respond", "serve", "create_node", "delete_node",
                              "set_flags", "set_head", "set_tail"}
    BY DEF Before, Unopened
  <2>12. InHand(c)'
    BY <1>1, <1>2, <2>6, <2>7, <2>11, Moving
  <2> QED
    BY <2>9, <2>10, <2>12, OthersKeep
<1> QED
  BY <1>3, <1>4 DEF CreateNode

LEMMA PopulateKeeps ==
    ASSUME RequestsI, NEW c \in Connections, Populate(c)
    PROVE  RequestsI'
<1>1. /\ pc[c] = "populate" /\ Answer(c, 200) /\ Close(c)
      /\ UNCHANGED <<nodes, current, request, context, seen, row, effects, raced>>
  BY DEF Populate, At
<1>2. Handler(c) = "create_node"
  BY <1>1 DEF RequestsI, AllInHand, InHand
<1>3. nodes' \in Seq(NodeType) /\ Len(nodes) <= Len(nodes') /\ current' \in 0..Len(nodes')
  BY <1>1, NodesType
<1>4. /\ effects' \in [Connections -> Seq(Words \union Nat)]
      /\ \A d \in Connections \ {c} : effects'[d] = effects[d]
      /\ \A d \in Connections : row[d] \in 1..Len(effects'[d]) + 1
  BY <1>1 DEF RequestsI, TypeI, WorkOK
<1>5. handle'[c] = 0
  BY <1>1, LocalTypes DEF RequestsI, Close
<1>6. PICK code \in Codes : code = 200
  BY DEF Codes
<1>7. /\ Answer(c, code) /\ UNCHANGED <<request, context, seen, row, raced>>
      /\ handle' = handle \/ Close(c)
      /\ pc[c] # "idle" /\ Handler(c) # "csv_post_values"
      /\ code \in 400..499 => effects'[c] = <<>>
      /\ code = 201 => effects'[c] = Times(request[c].rows)
  BY <1>1, <1>2, <1>6
<1>8. AnswersChanging(c, code)
  BY <1>3, <1>4, <1>5, <1>7, Zenon DEF AnswersChanging
<1> QED
  BY <1>8, ChangingAnswer, Zenon

LEMMA DeleteKeeps ==
    ASSUME RequestsI, NEW c \in Connections, DeleteNode(c)
    PROVE  RequestsI'
<1>1. /\ pc[c] = "delete_node" /\ handle' = handle /\ nodes' = nodes
      /\ UNCHANGED <<empty, torn, request, context, handle, seen, row, raced>>
  BY DEF DeleteNode, At
<1>2. effects[c] = <<>> /\ handle'[c] = 0 /\ Handler(c) = "delete_node"
  BY <1>1 DEF RequestsI, AllInHand, InHand, Before, Unopened
<1>3. CASE Answer(c, 404) /\ UNCHANGED <<current, effects>>
  BY <1>1, <1>2, <1>3, PlainAnswer DEF Codes, shared
<1>4. CASE current' = 0 /\ Answer(c, 200) /\ Effect(c, "deleted")
  <2>1. nodes' \in Seq(NodeType) /\ Len(nodes) <= Len(nodes') /\ current' \in 0..Len(nodes')
    BY <1>1, <1>4, NodesType
  <2>2. /\ effects' \in [Connections -> Seq(Words \union Nat)]
        /\ \A d \in Connections \ {c} : effects'[d] = effects[d]
        /\ \A d \in Connections : row[d] \in 1..Len(effects'[d]) + 1
    BY <1>4, EffectIs, EffectsAre DEF RequestsI
  <2>3. Answer(c, 200) /\ pc[c] # "idle" /\ Handler(c) # "csv_post_values"
    BY <1>1, <1>2, <1>4
  <2>4. /\ 200 \in Codes
        /\ 200 \in 400..499 => effects'[c] = <<>>
        /\ 200 = 201 => effects'[c] = Times(request[c].rows)
        /\ UNCHANGED <<request, context, seen, row, raced>>
        /\ handle' = handle \/ Close(c)
    BY <1>1 DEF Codes
  <2>5. AnswersChanging(c, 200)
    BY <1>1, <1>2, <2>1, <2>2, <2>3, <2>4, Zenon DEF AnswersChanging
  <2> QED
    BY <2>4, <2>5, ChangingAnswer, Zenon
<1> QED
  BY <1>3, <1>4 DEF DeleteNode

LEMMA SetKeyKeeps ==
    ASSUME RequestsI, NEW c \in Connections, SetFlags(c) \/ SetHead(c) \/ SetTail(c)
    PROVE  RequestsI'
<1>1. /\ pc[c] \in {"set_flags", "set_head", "set_tail"}
      /\ UNCHANGED <<current, request, context, seen, row>>
  BY DEF SetFlags, SetHead, SetTail, At
<1>2. /\ Handler(c) = "put_key" /\ request[c].signature = Admin /\ handle[c] # 0
      /\ pc[c] \in Opened
  BY <1>1 DEF RequestsI, AllInHand, InHand, Setting, Opened
<1>3. handle[c] \in 1..Len(nodes) /\ KeyId(c) \in KeyIds /\ request[c] \in Requests
  BY <1>2, OpenedHas
<1>4. request[c].key \in Keys \union {Erased}
  BY <1>3, RequestsAssumption
<1>5. nodes' \in Seq(NodeType) /\ Len(nodes') = Len(nodes)
  <2>1. CASE SetFlags(c)
    <3> DEFINE v == IF request[c].key = Erased THEN 0 ELSE InUse
    <3>1. v \in {0, InUse} /\ nodes' = [nodes EXCEPT ![handle[c]].key[KeyId(c)].flags = v]
      BY <2>1 DEF SetFlags
    <3> HIDE DEF v
    <3> QED
      BY <1>3, <3>1, FlagsWritten DEF RequestsI
  <2>2. CASE SetHead(c)
    <3>1. WritesPiece(handle[c], KeyId(c), 1, request[c].key) /\ 1 \in 1..2
      BY <2>2 DEF SetHead, WritesPiece
    <3> QED
      BY <1>3, <1>4, <3>1, BytesWritten DEF RequestsI
  <2>3. CASE SetTail(c)
    <3>1. WritesPiece(handle[c], KeyId(c), 2, request[c].key) /\ 2 \in 1..2
      BY <2>3 DEF SetTail, WritesPiece
    <3> QED
      BY <1>3, <1>4, <3>1, BytesWritten DEF RequestsI
  <2> QED
    BY <2>1, <2>2, <2>3
<1>6. /\ effects' \in [Connections -> Seq(Words \union Nat)]
      /\ \A d \in Connections \ {c} : effects'[d] = effects[d]
      /\ \A d \in Connections : row[d] \in 1..Len(effects'[d]) + 1
  <2>1. CASE SetFlags(c)
    <3>1. Effect(c, "key")
      BY <2>1 DEF SetFlags
    <3> QED
      BY <3>1, EffectIs, EffectsAre DEF RequestsI
  <2>2. CASE effects' = effects
    BY <2>2 DEF RequestsI, TypeI, WorkOK
  <2> QED
    BY <2>1, <2>2 DEF SetHead, SetTail
<1>7. Len(nodes) <= Len(nodes') /\ current' \in 0..Len(nodes')
  BY <1>1, <1>5, NodesType
<1>8. CASE SetTail(c)
  <2>1. Answer(c, 200) /\ Close(c) /\ raced' = raced
    BY <1>8 DEF SetTail
  <2>2. handle'[c] = 0
    BY <2>1, LocalTypes DEF RequestsI, Close
  <2>3. /\ 200 \in Codes /\ pc[c] # "idle" /\ Handler(c) # "csv_post_values"
        /\ 200 \in 400..499 => effects'[c] = <<>>
        /\ 200 = 201 => effects'[c] = Times(request[c].rows)
        /\ UNCHANGED <<request, context, seen, row, raced>>
        /\ handle' = handle \/ Close(c)
    BY <1>1, <1>2, <2>1 DEF Codes
  <2>4. AnswersChanging(c, 200)
    BY <1>5, <1>6, <1>7, <2>1, <2>2, <2>3, Zenon DEF AnswersChanging
  <2> QED
    BY <2>3, <2>4, ChangingAnswer, Zenon
<1>9. ASSUME NEW label \in {"set_head", "set_tail"}, Goto(c, label), status' = status, handle' = handle,
             raced' \in [Connections -> BOOLEAN]
      PROVE  RequestsI'
  <2>1. /\ pc' \in [Connections -> Labels] /\ pc'[c] = label
        /\ \A d \in Connections \ {c} : pc'[d] = pc[d]
    BY <1>9, LocalTypes DEF RequestsI, Goto, Labels
  <2>2. /\ request \in [Connections -> Requests \union {NoRequest}]
        /\ context \in [Connections -> Nat \union {NoContext}]
        /\ handle \in [Connections -> 0..Len(nodes)]
        /\ seen \in [Connections -> Bytes] /\ row \in [Connections -> Nat]
        /\ status \in [Connections -> {NoAnswer, Closed, 200, 201, 302, 400, 403, 404, 405, 500}]
    BY DEF RequestsI, TypeI, WorkOK
  <2>3. TypeI'
    BY <1>1, <1>5, <1>6, <1>7, <1>9, <2>1, <2>2 DEF TypeI, WorkOK, NodeType
  <2>4. OnlyOwn(c)
    BY <1>1, <1>6, <1>9, <2>1 DEF OnlyOwn
  <2>5. label \notin Before /\ label \notin Unopened /\ label \notin {"idle", "respond"}
    BY DEF Before, Unopened
  <2>6. InHand(c)'
    BY <1>1, <1>2, <1>9, <2>1, <2>5, Moving
  <2> QED
    BY <2>3, <2>4, <2>6, OthersKeep
<1>10. CASE SetFlags(c)
  <2>1. raced' = [d \in Connections |-> raced[d] \/ (Copying(d) /\ SameKey(c, d))]
    BY <1>10 DEF SetFlags
  <2>2. raced' \in [Connections -> BOOLEAN]
    BY <2>1, Zenon
  <2> QED
    BY <1>9, <1>10, <2>2 DEF SetFlags
<1>11. CASE SetHead(c)
  <2>1. raced' \in [Connections -> BOOLEAN]
    BY <1>11 DEF SetHead, RequestsI, TypeI, WorkOK
  <2> QED
    BY <1>9, <1>11, <2>1 DEF SetHead
<1> QED
  BY <1>8, <1>10, <1>11

-----------------------------------------------------------------------------
(* Values.                                                                     *)

\* An update moves the ends of the node and leaves its keys.
LEMMA UpdateIs ==
    ASSUME RequestsI, NEW c \in Connections, pc[c] \in Opened, Time(c) \in Nat, Update(c)
    PROVE  /\ nodes' \in Seq(NodeType) /\ Len(nodes') = Len(nodes)
           /\ \A i \in 1..Len(nodes) : nodes'[i].key = nodes[i].key
           /\ Effect(c, Time(c))
<1> DEFINE n == handle[c]
           t == Time(c)
           old == nodes[n]
           node == IF old.last = NoTime THEN [old EXCEPT !.first = t, !.last = t]
                   ELSE IF t > old.last THEN [old EXCEPT !.last = t]
                   ELSE old
<1>1. n \in 1..Len(nodes)
  BY OpenedHas
<1>2. nodes \in Seq(NodeType)
  BY NodesType
<1>3. nodes' = [nodes EXCEPT ![n] = node]
  BY DEF Update
<1>4. old \in NodeType
  BY <1>1, <1>2
<1>5. t \in Slot
  BY DEF Slot
<1> HIDE DEF t
<1>6. node \in NodeType /\ node.key = old.key
  <2> HIDE DEF old
  <2> USE DEF NodeType
  <2>1. CASE old.last = NoTime
    BY <1>4, <1>5, <2>1
  <2>2. CASE old.last # NoTime /\ t > old.last
    BY <1>4, <1>5, <2>2
  <2>3. CASE old.last # NoTime /\ ~ (t > old.last)
    BY <1>4, <2>3
  <2> QED
    BY <2>1, <2>2, <2>3
<1> HIDE DEF node
<1>7. /\ nodes' \in Seq(NodeType) /\ Len(nodes') = Len(nodes) /\ nodes'[n] = node
      /\ \A i \in 1..Len(nodes) : i # n => nodes'[i] = nodes[i]
  BY <1>1, <1>2, <1>3, <1>6
<1>8. \A i \in 1..Len(nodes) : nodes'[i].key = nodes[i].key
  BY <1>6, <1>7
<1> QED
  BY <1>7, <1>8 DEF Update

LEMMA RowsHaveTimes ==
    ASSUME NEW rows \in Seq([time : Nat, good : BOOLEAN]), NEW i \in 1..Len(rows)
    PROVE  rows[i].time \in Nat
<1> DEFINE T == [time : Nat, good : BOOLEAN]
<1>1. rows \in Seq(T)
  OBVIOUS
<1> HIDE DEF T
<1>2. rows[i] \in T
  BY <1>1
<1> QED
  BY <1>2 DEF T

\* A post is of its only row, an upload of the row that it is at.
LEMMA TimeIs ==
    ASSUME RequestsI, NEW c \in Connections, PostValues(c) \/ ImportRow(c)
    PROVE  /\ row[c] \in 1..Len(request[c].rows)
           /\ Time(c) = request[c].rows[row[c]].time /\ Time(c) \in Nat
<1>1. pc[c] = "serve"
  BY DEF PostValues, ImportRow, Serving, At
<1>2. InHand(c) /\ request[c] \in Requests
  BY <1>1 DEF RequestsI, AllInHand, InHand
<1>3. request[c].rows \in Seq([time : Nat, good : BOOLEAN])
  BY <1>2, RequestsAssumption
<1>4. row[c] \in 1..Len(request[c].rows)
  <2>1. CASE PostValues(c)
    <3>1. Handler(c) = "post_values"
      BY <2>1 DEF PostValues, Serving
    <3>2. Len(request[c].rows) = 1
      BY <1>2, <3>1, HandlerIs, RequestsAssumption
    <3>3. row[c] = 1
      BY <1>2, <3>1 DEF InHand
    <3> QED
      BY <3>2, <3>3
  <2>2. CASE ImportRow(c)
    <3>1. row[c] <= Len(Lines(c))
      BY <2>2 DEF ImportRow
    <3>2. /\ Len(Lines(c)) \in Nat /\ Len(request[c].rows) \in Nat
          /\ Len(Lines(c)) <= Len(request[c].rows)
      BY <1>2, LinesAre
    <3>3. row[c] \in Nat /\ row[c] >= 1
      <4>1. row[c] \in 1..Len(effects[c]) + 1 /\ row \in [Connections -> Nat]
        BY DEF RequestsI, TypeI, WorkOK
      <4> QED
        BY <4>1
    <3> QED
      BY <3>1, <3>2, <3>3
  <2> QED
    BY <2>1, <2>2
<1> QED
  BY <1>3, <1>4, RowsHaveTimes DEF Time

LEMMA PostKeeps ==
    ASSUME RequestsI, NEW c \in Connections, PostValues(c)
    PROVE  RequestsI'
<1>1. /\ pc[c] = "serve" /\ Handler(c) = "post_values" /\ pc[c] \in Opened
      /\ UNCHANGED <<current, request, context, seen, row, raced>>
      /\ Update(c) /\ Close(c)
  BY DEF PostValues, Serving, At, Opened
<1>2. effects[c] = <<>> /\ row[c] = 1 /\ request[c] \in Requests
  BY <1>1 DEF RequestsI, AllInHand, InHand
<1>3. Len(request[c].rows) = 1 /\ request[c].rows \in Seq([time : Nat, good : BOOLEAN])
  BY <1>1, <1>2, HandlerIs, RequestsAssumption
<1>4. Time(c) = request[c].rows[1].time /\ Time(c) \in Nat
  BY <1>2, TimeIs
<1>5. /\ nodes' \in Seq(NodeType) /\ Len(nodes') = Len(nodes) /\ Effect(c, Time(c))
  BY <1>1, <1>4, UpdateIs
<1>6. /\ effects' \in [Connections -> Seq(Words \union Nat)]
      /\ effects'[c] = Append(effects[c], Time(c))
      /\ \A d \in Connections \ {c} : effects'[d] = effects[d]
      /\ \A d \in Connections : row[d] \in 1..Len(effects'[d]) + 1
  BY <1>4, <1>5, EffectIs DEF RequestsI
<1>7. effects'[c] = Times(request[c].rows)
  <2> DEFINE rows == request[c].rows
  <2>1. effects'[c] = <<rows[1].time>>
    BY <1>2, <1>4, <1>6
  <2>2. DOMAIN rows = 1..1
    BY <1>3
  <2>3. Times(rows) = [i \in 1..1 |-> rows[i].time]
    BY <2>2 DEF Times
  <2> HIDE DEF rows
  <2> QED
    BY <2>1, <2>3 DEF rows
<1>8. handle'[c] = 0
  BY <1>1, LocalTypes DEF RequestsI, Close
<1>9. Len(nodes) <= Len(nodes') /\ current' \in 0..Len(nodes')
  BY <1>1, <1>5, NodesType
<1>10. PICK code \in {201, 500} : Answer(c, code)
  BY DEF PostValues, AnswerWithBody
<1>11. code \in Codes /\ (code \in 400..499 => effects'[c] = <<>>)
  BY <1>10 DEF Codes
<1>12. /\ code = 201 => effects'[c] = Times(request[c].rows)
       /\ UNCHANGED <<request, context, seen, row, raced>>
       /\ handle' = handle \/ Close(c)
       /\ pc[c] # "idle" /\ Handler(c) # "csv_post_values"
  BY <1>1, <1>7, Zenon
<1>13. AnswersChanging(c, code)
  BY <1>5, <1>6, <1>8, <1>9, <1>10, <1>11, <1>12, Zenon DEF AnswersChanging
<1> QED
  BY <1>11, <1>13, ChangingAnswer, Zenon

LEMMA ImportKeeps ==
    ASSUME RequestsI, NEW c \in Connections, ImportRow(c)
    PROVE  RequestsI'
<1>1. /\ pc[c] = "serve" /\ Handler(c) = "csv_post_values" /\ pc[c] \in Opened
      /\ current' = current /\ pc' = pc /\ request' = request /\ context' = context
      /\ handle' = handle /\ seen' = seen /\ status' = status /\ raced' = raced
      /\ Update(c) /\ row' = [row EXCEPT ![c] = @ + 1]
      /\ row[c] <= Len(Lines(c)) /\ Lines(c)[row[c]].good
  BY DEF ImportRow, Serving, At, Opened
<1>2. InHand(c) /\ Imported(c) /\ request[c] \in Requests
  BY <1>1 DEF RequestsI, AllInHand, InHand
<1>3. /\ Len(Lines(c)) \in Nat /\ Len(request[c].rows) \in Nat
      /\ Len(Lines(c)) <= Len(request[c].rows)
      /\ \A i \in 1..Len(Lines(c)) : Lines(c)[i] = request[c].rows[i]
      /\ request[c].rows \in Seq([time : Nat, good : BOOLEAN])
  BY <1>2, LinesAre
<1>4. row[c] \in Nat /\ row[c] >= 1 /\ effects[c] \in Seq(Words \union Nat) /\ row \in [Connections -> Nat]
  <2>1. row[c] \in 1..Len(effects[c]) + 1 /\ row \in [Connections -> Nat]
    BY DEF RequestsI, TypeI, WorkOK
  <2> QED
    BY <2>1, LocalTypes DEF RequestsI
<1>5. request[c].rows[row[c]].good
  BY <1>1, <1>3, <1>4
<1>6. Time(c) = request[c].rows[row[c]].time /\ Time(c) \in Nat
  BY TimeIs
<1>7. nodes' \in Seq(NodeType) /\ Len(nodes') = Len(nodes) /\ Effect(c, Time(c))
  BY <1>1, <1>6, UpdateIs
<1>8. /\ effects' \in [Connections -> Seq(Words \union Nat)]
      /\ effects'[c] = Append(effects[c], Time(c))
      /\ \A d \in Connections \ {c} : effects'[d] = effects[d]
  BY <1>6, <1>7, EffectIs DEF RequestsI
<1>9. /\ row' \in [Connections -> Nat] /\ row'[c] = row[c] + 1
      /\ \A d \in Connections \ {c} : row'[d] = row[d]
  BY <1>1, <1>4
<1>10. /\ Len(effects[c]) = row[c] - 1 /\ Len(effects'[c]) = row[c]
       /\ effects'[c][row[c]] = Time(c)
       /\ \A i \in 1..row[c]-1 : effects'[c][i] = effects[c][i]
  <2> DEFINE e == effects[c]
             t == Time(c)
             f == effects'[c]
             r == row[c]
             S == Words \union Nat
  <2>1. Len(e) = r - 1 /\ r \in Nat /\ e \in Seq(S) /\ f = Append(e, t)
    BY <1>2, <1>4, <1>8 DEF Imported
  <2>2. t \in S
    BY <1>6
  <2> HIDE DEF e, t, f, r, S
  <2>3. Len(f) = Len(e) + 1 /\ f[Len(e) + 1] = t /\ \A i \in 1..Len(e) : f[i] = e[i]
    BY <2>1, <2>2
  <2>4. Len(f) = r /\ f[r] = t /\ Len(e) = r - 1 /\ \A i \in 1..r-1 : f[i] = e[i]
    BY <2>1, <2>3
  <2> QED
    BY <2>4 DEF e, t, f, r
<1>11. \A d \in Connections : row'[d] \in 1..Len(effects'[d]) + 1
  <2>1. \A d \in Connections : row[d] \in 1..Len(effects[d]) + 1
    BY DEF RequestsI, TypeI, WorkOK
  <2>2. row'[c] \in 1..Len(effects'[c]) + 1
    BY <1>4, <1>9, <1>10
  <2> QED
    BY <1>8, <1>9, <2>1, <2>2
<1>12. TypeI'
  <2>1. /\ pc' \in [Connections -> Labels]
        /\ request' \in [Connections -> Requests \union {NoRequest}]
        /\ context' \in [Connections -> Nat \union {NoContext}]
        /\ handle' \in [Connections -> 0..Len(nodes')]
        /\ status' \in [Connections -> {NoAnswer, Closed, 200, 201, 302, 400, 403, 404, 405, 500}]
    BY <1>1, <1>7, LocalTypes DEF RequestsI
  <2>2. seen' \in [Connections -> Bytes] /\ raced' \in [Connections -> BOOLEAN]
    BY <1>1 DEF RequestsI, TypeI, WorkOK
  <2>3. nodes' \in Seq(NodeType) /\ current' \in 0..Len(nodes')
    BY <1>1, <1>7, NodesType
  <2> QED
    BY ONLY <1>8, <1>9, <1>11, <2>1, <2>2, <2>3 DEF TypeI, WorkOK, NodeType
<1>13. OnlyOwn(c)
  BY <1>1, <1>8, <1>9 DEF OnlyOwn
<1>14. InHand(c)'
  <2>1. Handler(c)' = Handler(c) /\ Lines(c)' = Lines(c) /\ Setting(c)' = Setting(c)
    BY <1>1 DEF Handler, Lines, Setting
  <2>2. Imported(c)'
    <3>1. Len(effects'[c]) = row'[c] - 1
      BY <1>4, <1>9, <1>10
    <3>2. row'[c] <= Len(Lines(c)) + 1
      BY <1>1, <1>3, <1>4, <1>9
    <3>3. \A i \in 1..row[c] : effects'[c][i] = request[c].rows[i].time /\ request[c].rows[i].good
      <4> SUFFICES ASSUME NEW i \in 1..row[c]
                   PROVE  effects'[c][i] = request[c].rows[i].time /\ request[c].rows[i].good
        OBVIOUS
      <4>1. CASE i = row[c]
        BY <1>5, <1>6, <1>10, <4>1
      <4>2. CASE i \in 1..row[c]-1
        BY <1>2, <1>10, <4>2 DEF Imported
      <4> QED
        BY <1>4, <4>1, <4>2
    <3>4. row'[c] - 1 = row[c]
      BY <1>4, <1>9
    <3> QED
      BY <1>1, <2>1, <3>1, <3>2, <3>3, <3>4 DEF Imported
  <2> QED
    BY <1>1, <1>2, <2>1, <2>2 DEF InHand, Before, Unopened, Opened
<1> QED
  BY <1>12, <1>13, <1>14, OthersKeep

-----------------------------------------------------------------------------
(* The invariant, and what it says of every answer.                            *)

LEMMA RequestsStarts == Init => RequestsI
<1> SUFFICES ASSUME Init PROVE RequestsI
  OBVIOUS
<1>1. <<Erased, Erased>> \in Bytes
  BY DEF Bytes
<1>2. <<>> \in Seq(Words \union Nat) /\ Len(<<>>) = 0 /\ 1 \in 1..1
  OBVIOUS
<1>3. nodes \in Seq(NodeType) /\ Len(nodes) = 0 /\ 0 \in 0..0
  BY DEF Init
<1>4. \A c \in Connections : row[c] \in 1..Len(effects[c]) + 1
  BY <1>2 DEF Init
<1>5. TypeI
  <2>1. /\ pc \in [Connections -> Labels]
        /\ request \in [Connections -> Requests \union {NoRequest}]
        /\ context \in [Connections -> Nat \union {NoContext}]
        /\ seen \in [Connections -> Bytes]
        /\ row \in [Connections -> Nat]
        /\ status \in [Connections -> {NoAnswer, Closed, 200, 201, 302, 400, 403, 404, 405, 500}]
        /\ raced \in [Connections -> BOOLEAN]
        /\ effects \in [Connections -> Seq(Words \union Nat)]
    BY <1>1, <1>2 DEF Init, Labels
  <2>2. handle \in [Connections -> 0..Len(nodes)] /\ current \in 0..Len(nodes)
    BY <1>3 DEF Init
  <2> QED
    BY ONLY <1>3, <1>4, <2>1, <2>2 DEF TypeI, WorkOK, NodeType
<1>6. ASSUME NEW c \in Connections PROVE InHand(c)
  <2>1. request[c] = NoRequest /\ pc[c] = "idle" /\ effects[c] = <<>> /\ row[c] = 1 /\ context[c] = NoContext
    BY DEF Init
  <2>2. Handler(c) = "none" /\ ~ Setting(c)
    BY <2>1, HandlerIs DEF Setting
  <2> QED
    BY <2>1, <2>2 DEF InHand, Unopened, Opened
<1> QED
  BY <1>5, <1>6 DEF RequestsI, AllInHand

\* The process ends, and with it every request.
LEMMA DiesKeeps ==
    ASSUME RequestsI, Dies
    PROVE  RequestsI'
<1>1. <<Erased, Erased>> \in Bytes
  BY DEF Bytes
<1>2. <<>> \in Seq(Words \union Nat) /\ Len(<<>>) = 0 /\ 1 \in 1..1
  OBVIOUS
<1>3. nodes' \in Seq(NodeType) /\ Len(nodes') \in Nat /\ current' \in 0..Len(nodes')
  BY NodesType DEF Dies
<1>4. TypeI'
  <2>1. /\ pc' \in [Connections -> Labels]
        /\ request' \in [Connections -> Requests \union {NoRequest}]
        /\ context' \in [Connections -> Nat \union {NoContext}]
        /\ seen' \in [Connections -> Bytes]
        /\ row' \in [Connections -> Nat]
        /\ status' \in [Connections -> {NoAnswer, Closed, 200, 201, 302, 400, 403, 404, 405, 500}]
        /\ raced' \in [Connections -> BOOLEAN]
        /\ effects' \in [Connections -> Seq(Words \union Nat)]
        /\ handle' \in [Connections -> 0..Len(nodes')]
    BY <1>1, <1>2, <1>3 DEF Dies, Labels
  <2>2. \A c \in Connections : row'[c] \in 1..Len(effects'[c]) + 1
    BY <1>2 DEF Dies
  <2> QED
    BY ONLY <1>3, <2>1, <2>2 DEF TypeI, WorkOK, NodeType
<1>5. ASSUME NEW c \in Connections PROVE InHand(c)'
  <2>1. /\ request'[c] = NoRequest /\ pc'[c] = "idle" /\ effects'[c] = <<>> /\ row'[c] = 1
        /\ context'[c] = NoContext
    BY DEF Dies
  <2>2. Handler(c)' = "none" /\ ~ Setting(c)'
    BY <2>1 DEF Setting, Handler, NoRequest, Tree
  <2> QED
    BY <2>1, <2>2 DEF InHand, Unopened, Opened
<1> QED
  BY <1>4, <1>5 DEF RequestsI, AllInHand

LEMMA StepsAre ==
    ASSUME [Next]_vars
    PROVE  \/ Dies
           \/ UNCHANGED vars
           \/ \E c \in Connections :
                 \/ \E r \in Requests : Receive(c, r)
                 \/ Disconnect(c) \/ Access(c)
                 \/ CreateNode(c) \/ Populate(c) \/ DeleteNode(c) \/ Open(c)
                 \/ KeyStore(c) \/ Serve(c)
<1>1. ASSUME NEW c \in Connections, Death(c) PROVE Dies
  BY <1>1 DEF Death, OpenEmpty, OutOfMemory
<1>2. Kill => Dies
  BY DEF Kill
<1> QED
  BY <1>1, <1>2, Zenon DEF Next, Server

LEMMA RequestsSteps == RequestsI /\ [Next]_vars => RequestsI'
<1> SUFFICES ASSUME RequestsI, [Next]_vars PROVE RequestsI'
  OBVIOUS
<1>1. CASE UNCHANGED vars
  <2>1. /\ UNCHANGED <<nodes, current, pc, request, context, handle, seen, row, status, effects, raced>>
    BY <1>1 DEF vars, shared
  <2>2. TypeI'
    BY <2>1 DEF RequestsI, TypeI, WorkOK
  <2>3. ASSUME NEW c \in Connections PROVE InHand(c)'
    <3>1. InHand(c)
      BY DEF RequestsI, AllInHand
    <3>2. /\ Handler(c)' = Handler(c) /\ Lines(c)' = Lines(c) /\ Setting(c)' = Setting(c)
      BY <2>1 DEF Handler, Lines, Setting
    <3>3. Imported(c)' = Imported(c)
      BY <2>1, <3>2 DEF Imported
    <3>4. Told(c)' = Told(c)
      BY <2>1, <3>2 DEF Told
    <3> QED
      BY <2>1, <3>1, <3>2, <3>3, <3>4 DEF InHand
  <2> QED
    BY <2>2, <2>3 DEF RequestsI, AllInHand
<1>2. ASSUME NEW c \in Connections, NEW r \in Requests, Receive(c, r) PROVE RequestsI'
  BY <1>2, ReceiveKeeps
<1>3. ASSUME NEW c \in Connections, Disconnect(c) PROVE RequestsI'
  BY <1>3, ForgetKeeps
<1>4. ASSUME NEW c \in Connections, Access(c) PROVE RequestsI'
  BY <1>4, JoinKeeps, NoHandlerKeeps, RefuseKeeps, DispatchKeeps, ForgetKeeps DEF Access
<1>5. ASSUME NEW c \in Connections, CreateNode(c) \/ Populate(c) \/ DeleteNode(c) \/ Open(c)
      PROVE  RequestsI'
  BY <1>5, CreateKeeps, PopulateKeeps, DeleteKeeps, OpenKeeps
<1>6. ASSUME NEW c \in Connections, KeyStore(c) PROVE RequestsI'
  BY <1>6, KeyReadKeeps, SetKeyKeeps DEF KeyStore
<1>7. ASSUME NEW c \in Connections, Serve(c) PROVE RequestsI'
  BY <1>7, ReadingKeeps, PostKeeps, ImportEndKeeps, ImportKeeps DEF Serve
<1>8. ASSUME Dies PROVE RequestsI'
  BY <1>8, DiesKeeps
<1>9. \/ Dies
      \/ UNCHANGED vars
      \/ \E c \in Connections :
            \/ \E r \in Requests : Receive(c, r)
            \/ Disconnect(c) \/ Access(c)
            \/ CreateNode(c) \/ Populate(c) \/ DeleteNode(c) \/ Open(c)
            \/ KeyStore(c) \/ Serve(c)
  BY StepsAre
<1> QED
  BY <1>1, <1>2, <1>3, <1>4, <1>5, <1>6, <1>7, <1>8, <1>9

\* Of every upload, the lines before the first bad one and no other are in the node.
LEMMA PrefixImported ==
    ASSUME RequestsI, NEW c \in Connections, Handler(c) = "csv_post_values"
    PROVE  /\ IsPrefix(effects[c], Times(request[c].rows))
           /\ \A i \in DOMAIN effects[c] : request[c].rows[i].good
<1>1. Imported(c) /\ request[c] # NoRequest
  <2>1. request[c] # NoRequest
    BY HandlerIs
  <2> QED
    BY <2>1 DEF RequestsI, AllInHand, InHand
<1>2. request[c] \in Requests
  BY <1>1, LocalTypes DEF RequestsI
<1> DEFINE e == effects[c]
           rows == request[c].rows
           r == row[c]
           S == Words \union Nat
<1>3. /\ rows \in Seq([time : Nat, good : BOOLEAN]) /\ Len(rows) \in Nat
      /\ Len(Lines(c)) \in Nat /\ Len(Lines(c)) <= Len(rows)
  BY <1>2, LinesAre
<1>4. r \in Nat /\ e \in Seq(S)
  BY LocalTypes DEF RequestsI
<1>5. /\ Len(e) = r - 1 /\ r <= Len(Lines(c)) + 1
      /\ \A i \in 1..r-1 : e[i] = rows[i].time /\ rows[i].good
  BY <1>1 DEF Imported
<1> HIDE DEF e, r, S
<1>6. Times(rows) = [i \in 1..Len(rows) |-> rows[i].time]
  <2>1. DOMAIN rows = 1..Len(rows)
    BY <1>3
  <2> QED
    BY <2>1 DEF Times
<1>7. \A i \in 1..Len(rows) : rows[i].time \in S
  <2>1. \A i \in 1..Len(rows) : rows[i].time \in Nat
    BY <1>3, RowsHaveTimes
  <2> QED
    BY <2>1 DEF S
<1> DEFINE n == Len(rows)
           times == [i \in 1..n |-> rows[i].time]
<1>8. n \in Nat /\ \A i \in 1..n : rows[i].time \in S
  BY <1>3, <1>7
<1>9. Len(e) <= n /\ \A i \in 1..Len(e) : i \in 1..n /\ e[i] = rows[i].time
  BY <1>3, <1>4, <1>5
<1> HIDE DEF rows, n
<1>10. times \in Seq(S) /\ Len(times) = n /\ \A i \in 1..n : times[i] = rows[i].time
  BY <1>8
<1> HIDE DEF times
<1>11. IsPrefix(e, times)
  <2>1. Len(e) <= Len(times) /\ \A i \in 1..Len(e) : e[i] = times[i]
    BY <1>9, <1>10
  <2> QED
    BY <1>4, <1>10, <2>1, PrefixIs
<1>12. DOMAIN e = 1..r-1
  BY <1>4, <1>5
<1>13. IsPrefix(e, Times(rows))
  BY <1>6, <1>11 DEF times, n
<1> QED
  BY <1>5, <1>12, <1>13 DEF e, rows

\* The nodes without metadata and the torn keys are of nodes that were made.
LEMMA FilesSteps == RequestsI /\ FilesOK /\ [Next]_vars => FilesOK'
<1> SUFFICES ASSUME RequestsI, FilesOK, [Next]_vars PROVE FilesOK'
  OBVIOUS
<1>1. Len(nodes) \in Nat
  BY NodesType
<1>2. CASE Len(nodes) <= Len(nodes') /\ Len(nodes') \in Nat
           /\ empty' \subseteq empty /\ torn' \subseteq torn
  <2>1. 1..Len(nodes) \subseteq 1..Len(nodes')
    BY <1>1, <1>2
  <2> QED
    BY <1>2, <2>1 DEF FilesOK
<1>3. CASE Dies
  <2>1. nodes' = nodes /\ empty' = empty
        /\ torn' = torn \union {<<handle[c], KeyId(c)>> : c \in {d \in Connections : Setting(d)}}
    BY <1>3 DEF Dies
  <2>2. ASSUME NEW c \in Connections, Setting(c)
        PROVE  handle[c] \in 1..Len(nodes) /\ KeyId(c) \in KeyIds
    BY <2>2, OpenedHas DEF Setting, Opened
  <2> QED
    BY <2>1, <2>2 DEF FilesOK
<1>4. ASSUME NEW c \in Connections, CreateNode(c), nodes' # nodes PROVE FilesOK'
  <2>1. /\ nodes' = Append(nodes, NewNode) /\ torn' = torn
        /\ empty' = empty \union {Len(nodes) + 1}
    BY <1>4 DEF CreateNode
  <2>2. nodes \in Seq(NodeType)
    BY NodesType
  <2>3. Len(nodes') = Len(nodes) + 1
    BY <2>1, <2>2
  <2>4. 1..Len(nodes) \subseteq 1..Len(nodes') /\ Len(nodes) + 1 \in 1..Len(nodes')
    BY <1>1, <2>3
  <2> QED
    BY <2>1, <2>4 DEF FilesOK
<1>5. ASSUME UNCHANGED <<nodes, empty, torn>> PROVE FilesOK'
  BY <1>1, <1>2, <1>5
<1>6. ASSUME NEW c \in Connections, nodes' = nodes,
             CreateNode(c) \/ Populate(c) \/ DeleteNode(c) \/ Open(c) PROVE FilesOK'
  <2>1. CASE CreateNode(c)
    <3>1. nodes' # Append(nodes, NewNode)
      <4>1. nodes \in Seq(NodeType) /\ Len(Append(nodes, NewNode)) = Len(nodes) + 1
        BY NodesType
      <4> QED
        BY <1>1, <1>6, <4>1
    <3> QED
      BY <1>5, <1>6, <2>1, <3>1 DEF CreateNode
  <2>2. CASE Populate(c)
    BY <1>1, <1>2, <1>6, <2>2 DEF Populate
  <2>3. CASE DeleteNode(c) \/ Open(c)
    BY <1>5, <1>6, <2>3 DEF DeleteNode, Open, shared
  <2> QED
    BY <1>6, <2>1, <2>2, <2>3
<1>7. ASSUME NEW c \in Connections, CreateNode(c) \/ Populate(c) \/ DeleteNode(c) \/ Open(c)
      PROVE  FilesOK'
  <2>1. nodes' = nodes \/ CreateNode(c)
    BY <1>7 DEF Populate, DeleteNode, Open, shared
  <2> QED
    BY <1>4, <1>6, <1>7, <2>1
<1>8. ASSUME NEW c \in Connections, KeyStore(c) PROVE FilesOK'
  <2>1. CASE GetFlags(c) \/ GetHead(c) \/ GetTail(c) \/ CheckSignature(c)
    BY <1>5, <2>1 DEF GetFlags, GetHead, GetTail, CheckSignature, shared
  <2>2. CASE SetFlags(c) \/ SetHead(c) \/ SetTail(c)
    <3>1. \E n \in 1..Len(nodes) : \E w : nodes' = [nodes EXCEPT ![n] = w]
      <4>1. handle[c] \in 1..Len(nodes)
        BY <2>2, OpenedHas DEF SetFlags, SetHead, SetTail, At, Opened
      <4> QED
        BY <2>2, <4>1 DEF SetFlags, SetHead, SetTail
    <3>2. Len(nodes') = Len(nodes)
      BY <3>1, NodesType
    <3>3. empty' = empty /\ torn' \subseteq torn
      BY <2>2 DEF SetFlags, SetHead, SetTail
    <3> QED
      BY <1>1, <1>2, <3>2, <3>3
  <2> QED
    BY <1>8, <2>1, <2>2 DEF KeyStore
<1>9. ASSUME NEW c \in Connections, Serve(c) PROVE FilesOK'
  <2>1. CASE PostValues(c) \/ ImportRow(c)
    <3>1. pc[c] \in Opened /\ Update(c) /\ empty' = empty /\ torn' = torn
      BY <2>1 DEF PostValues, ImportRow, Serving, At, Opened
    <3>2. Len(nodes') = Len(nodes)
      BY <2>1, <3>1, TimeIs, UpdateIs
    <3> QED
      BY <1>1, <1>2, <3>1, <3>2
  <2>2. CASE ~ (PostValues(c) \/ ImportRow(c))
    BY <1>5, <1>9, <2>2 DEF Serve, Describe, RedirectLatest, GetValues, GetSeries, RefusePost,
                            RefuseRow, EndImport, shared
  <2> QED
    BY <2>1, <2>2
<1>10. ASSUME NEW c \in Connections, (\E r \in Requests : Receive(c, r)) \/ Disconnect(c) \/ Access(c)
       PROVE  FilesOK'
  BY <1>5, <1>10 DEF Receive, Disconnect, Access, Join, NoHandler, Refuse, Dispatch, Respond, shared
<1>11. UNCHANGED vars => FilesOK'
  BY <1>5 DEF vars, shared
<1> QED
  BY <1>3, <1>7, <1>8, <1>9, <1>10, <1>11, StepsAre

LEMMA RequestsTell == RequestsI /\ FilesOK => AnswerTellsAll /\ NothingHeld
<1> SUFFICES ASSUME RequestsI, FilesOK PROVE AnswerTellsAll /\ NothingHeld
  OBVIOUS
<1>1. ASSUME NEW c \in Connections, pc[c] = "respond" PROVE Told(c)
  BY <1>1 DEF RequestsI, AllInHand, InHand
<1>2. RefusedChangesNothing
  BY <1>1 DEF RefusedChangesNothing, Answered, At, Told
<1>3. AcknowledgedIsDone
  BY <1>1 DEF AcknowledgedIsDone, Answered, At, Told
<1>4. ImportIsPrefix
  BY PrefixImported DEF ImportIsPrefix
<1>5. HandlesClosed
  BY <1>1 DEF HandlesClosed, Answered, At, Told
<1>6. ContextReleased
  BY DEF ContextReleased, RequestsI, AllInHand, InHand, At
<1> QED
  BY <1>2, <1>3, <1>4, <1>5, <1>6 DEF AnswerTellsAll, NothingHeld, RequestsI, TypeI, TypeOK

\* An answer tells what was done: nothing for a refusal, all for an acknowledgement, and of
\* an upload the lines before the first bad one; for every set of requests, however many
\* connections work on them at once and whatever fails.
THEOREM AnswersTell == Spec => []AnswerTellsAll
<1>1. Init => RequestsI /\ FilesOK
  BY RequestsStarts DEF Init, FilesOK
<1>2. (RequestsI /\ FilesOK) /\ [Next]_vars => (RequestsI /\ FilesOK)'
  BY RequestsSteps, FilesSteps
<1>3. RequestsI /\ FilesOK => AnswerTellsAll
  BY RequestsTell
<1> QED
  BY <1>1, <1>2, <1>3, PTL DEF Spec

\* An answered request has closed its node, unless the answer is 500, and has released its
\* context (http_tsdb.c closes the node on every way out but one).
THEOREM NothingStaysHeld == Spec => []NothingHeld
<1>1. Init => RequestsI /\ FilesOK
  BY RequestsStarts DEF Init, FilesOK
<1>2. (RequestsI /\ FilesOK) /\ [Next]_vars => (RequestsI /\ FilesOK)'
  BY RequestsSteps, FilesSteps
<1>3. RequestsI /\ FilesOK => NothingHeld
  BY RequestsTell
<1> QED
  BY <1>1, <1>2, <1>3, PTL DEF Spec

-----------------------------------------------------------------------------
(* Keys, where one connection is the administrator's.  Two that set the same   *)
(* key at once may leave a mix of theirs; nothing in the code keeps them apart. *)

OneAdmin == \A c, d \in Admins : c = d

\* A copy of a key whose two pieces are of one key.
Whole(bytes) == bytes[1] \in Keys /\ bytes[2] = bytes[1]

Flags(n, k) == nodes[n].key[k].flags
Pieces(n, k) == nodes[n].key[k].bytes

Sets(d, n, k) == Setting(d) /\ handle[d] = n /\ KeyId(d) = k

\* A populated key that nobody is setting, or was when the process died, is whole.
KeysRest ==
    \A n \in 1..Len(nodes), k \in KeyIds :
        (\A d \in Connections : ~ Sets(d, n, k)) /\ Flags(n, k) # 0 /\ <<n, k>> \notin torn =>
            Whole(Pieces(n, k))

\* A key that is being set has its flags already, then its first piece.
SetterI(d) ==
    \A n \in 1..Len(nodes), k \in KeyIds : Sets(d, n, k) =>
        /\ Flags(n, k) = IF request[d].key = Erased THEN 0 ELSE InUse
        /\ pc[d] = "set_tail" => Pieces(n, k)[1] = request[d].key

\* A key that is being copied, and was not set meanwhile, is as it was.
ReaderI(d) ==
    \A n \in 1..Len(nodes), k \in KeyIds :
        Copying(d) /\ ~raced[d] /\ handle[d] = n /\ KeyId(d) = k =>
            /\ \A c \in Connections : ~ Sets(c, n, k)
            /\ Flags(n, k) # 0 /\ <<n, k>> \notin torn
            /\ pc[d] = "get_tail" => seen[d][1] = Pieces(n, k)[1]

CopyI(d) == pc[d] = "signature" /\ ~raced[d] => Whole(seen[d])

KeyI == KeysRest /\ \A d \in Connections : SetterI(d) /\ ReaderI(d) /\ CopyI(d)

KeyLabels == {"get_head", "get_tail", "signature", "set_head", "set_tail"}

\* What a step of c may do that leaves the keys, and the others who are at them.
Aside(c) ==
    /\ ~ Setting(c) /\ pc'[c] \notin {"set_head", "set_tail"}
    /\ Len(nodes) <= Len(nodes') /\ torn' = torn
    /\ \A n \in 1..Len(nodes) : nodes'[n].key = nodes[n].key
    /\ \A n \in 1..Len(nodes') : n > Len(nodes) => \A k \in KeyIds : nodes'[n].key[k].flags = 0
    /\ \A d \in Connections \ {c} : pc'[d] \in KeyLabels \/ Setting(d) =>
          /\ pc'[d] = pc[d] /\ handle'[d] = handle[d] /\ request'[d] = request[d]
          /\ seen'[d] = seen[d] /\ (raced[d] => raced'[d])

LEMMA AsideKeeps ==
    ASSUME RequestsI, KeyI, RequestsI', NEW c \in Connections, Aside(c), ReaderI(c)', CopyI(c)'
    PROVE  KeyI'
<1>1. /\ Len(nodes) \in Nat /\ Len(nodes') \in Nat /\ Len(nodes) <= Len(nodes')
      /\ \A n \in 1..Len(nodes) : n \in 1..Len(nodes')
  <2>1. Len(nodes) \in Nat
    BY NodesType
  <2>2. Len(nodes') \in Nat
    <3>1. nodes' \in Seq(NodeType)
      BY DEF RequestsI, TypeI, WorkOK, NodeType
    <3> QED
      BY <3>1
  <2> QED
    BY <2>1, <2>2 DEF Aside
<1>2. ASSUME NEW d \in Connections \ {c}, pc'[d] \in KeyLabels
      PROVE  /\ pc'[d] = pc[d] /\ handle'[d] = handle[d] /\ request'[d] = request[d]
             /\ seen'[d] = seen[d] /\ (raced[d] => raced'[d])
             /\ KeyId(d)' = KeyId(d) /\ handle[d] \in 1..Len(nodes)
  <2>1. /\ pc'[d] = pc[d] /\ handle'[d] = handle[d] /\ request'[d] = request[d]
        /\ seen'[d] = seen[d] /\ (raced[d] => raced'[d])
    BY <1>2 DEF Aside
  <2>2. KeyId(d)' = KeyId(d)
    BY <2>1 DEF KeyId, Handler
  <2>3. pc[d] \in Opened
    BY <1>2, <2>1 DEF KeyLabels, Opened
  <2>4. handle[d] \in 1..Len(nodes)
    BY <2>3, OpenedHas
  <2> QED
    BY <2>1, <2>2, <2>4
<1>3. ASSUME NEW d \in Connections, NEW n, NEW k
      PROVE  Sets(d, n, k)' <=> Sets(d, n, k)
  <2>1. CASE d # c /\ Setting(d)
    <3>1. /\ pc'[d] = pc[d] /\ handle'[d] = handle[d] /\ request'[d] = request[d]
      BY <2>1 DEF Aside
    <3> QED
      BY <3>1 DEF Sets, Setting, KeyId, Handler
  <2>2. CASE d # c /\ Setting(d)'
    <3>1. pc'[d] \in KeyLabels
      BY <2>2 DEF Setting, KeyLabels
    <3>2. pc'[d] = pc[d]
      BY <1>2, <2>2, <3>1
    <3>3. Setting(d)
      BY <2>2, <3>2 DEF Setting
    <3> QED
      BY <2>1, <2>2, <3>3
  <2>3. CASE ~ Setting(d) /\ ~ Setting(d)'
    BY <2>3 DEF Sets
  <2>4. d = c => ~ Setting(d) /\ ~ Setting(d)'
    BY DEF Aside, Setting
  <2> QED
    BY <2>1, <2>2, <2>3, <2>4
<1>4. ASSUME NEW n \in 1..Len(nodes), NEW k \in KeyIds
      PROVE  Flags(n, k)' = Flags(n, k) /\ Pieces(n, k)' = Pieces(n, k)
  BY DEF Aside, Flags, Pieces
<1>5. KeysRest'
  <2> SUFFICES ASSUME NEW n \in 1..Len(nodes'), NEW k \in KeyIds,
                      \A d \in Connections : ~ Sets(d, n, k)', Flags(n, k)' # 0, <<n, k>> \notin torn'
               PROVE  Whole(Pieces(n, k)')
    BY DEF KeysRest, Whole
  <2>1. n \in 1..Len(nodes)
    BY <1>1 DEF Aside, Flags
  <2>2. (\A d \in Connections : ~ Sets(d, n, k)) /\ Flags(n, k) # 0 /\ <<n, k>> \notin torn
    BY <1>3, <1>4, <2>1 DEF Aside
  <2>3. Whole(Pieces(n, k))
    BY <2>1, <2>2 DEF KeyI, KeysRest
  <2> QED
    BY <1>4, <2>1, <2>3 DEF Whole
<1>6. ASSUME NEW d \in Connections PROVE SetterI(d)'
  <2> SUFFICES ASSUME NEW n \in 1..Len(nodes'), NEW k \in KeyIds, Sets(d, n, k)'
               PROVE  /\ Flags(n, k)' = IF request'[d].key = Erased THEN 0 ELSE InUse
                      /\ pc'[d] = "set_tail" => Pieces(n, k)'[1] = request'[d].key
    BY DEF SetterI
  <2>1. pc'[d] \in KeyLabels /\ handle'[d] = n /\ d # c
    BY DEF Sets, Setting, KeyLabels, Aside
  <2>2. n \in 1..Len(nodes) /\ pc'[d] = pc[d] /\ request'[d] = request[d]
    BY <1>2, <2>1
  <2>3. Sets(d, n, k) /\ SetterI(d)
    BY <1>3 DEF KeyI
  <2>4. /\ Flags(n, k) = IF request[d].key = Erased THEN 0 ELSE InUse
        /\ pc[d] = "set_tail" => Pieces(n, k)[1] = request[d].key
    BY <2>2, <2>3 DEF SetterI
  <2> QED
    BY <1>4, <2>2, <2>4
<1>7. ASSUME NEW d \in Connections \ {c} PROVE ReaderI(d)'
  <2> SUFFICES ASSUME NEW n \in 1..Len(nodes'), NEW k \in KeyIds,
                      Copying(d)', ~raced'[d], handle'[d] = n, KeyId(d)' = k
               PROVE  /\ \A e \in Connections : ~ Sets(e, n, k)'
                      /\ Flags(n, k)' # 0 /\ <<n, k>> \notin torn'
                      /\ pc'[d] = "get_tail" => seen'[d][1] = Pieces(n, k)'[1]
    BY DEF ReaderI
  <2>1. pc'[d] \in KeyLabels
    BY DEF Copying, KeyLabels
  <2>2. /\ n \in 1..Len(nodes) /\ pc'[d] = pc[d] /\ seen'[d] = seen[d]
        /\ handle[d] = n /\ KeyId(d) = k /\ ~raced[d]
    BY <1>2, <2>1
  <2>3. Copying(d)
    BY <2>2 DEF Copying
  <2>4. /\ \A e \in Connections : ~ Sets(e, n, k)
        /\ Flags(n, k) # 0 /\ <<n, k>> \notin torn
        /\ pc[d] = "get_tail" => seen[d][1] = Pieces(n, k)[1]
    BY <2>2, <2>3 DEF KeyI, ReaderI
  <2> QED
    BY <1>3, <1>4, <2>2, <2>4 DEF Aside
<1>8. ASSUME NEW d \in Connections \ {c} PROVE CopyI(d)'
  <2> SUFFICES ASSUME pc'[d] = "signature", ~raced'[d] PROVE Whole(seen'[d])
    BY DEF CopyI, Whole
  <2>1. pc'[d] = pc[d] /\ seen'[d] = seen[d] /\ ~raced[d]
    BY <1>2 DEF KeyLabels
  <2> QED
    BY <2>1 DEF KeyI, CopyI
<1> QED
  BY <1>5, <1>6, <1>7, <1>8 DEF KeyI

\* Most steps leave the keys, or are of a connection that is not at one.
LEMMA KeysSame ==
    ASSUME nodes' = nodes, RequestsI
    PROVE  /\ Len(nodes) <= Len(nodes') /\ \A n \in 1..Len(nodes) : nodes'[n].key = nodes[n].key
           /\ \A n \in 1..Len(nodes') : n > Len(nodes) => \A k \in KeyIds : nodes'[n].key[k].flags = 0
<1>1. Len(nodes) \in Nat
  BY NodesType
<1> QED
  BY <1>1

\* A step of a connection that is not setting a key, and does not go on to read one.
Elsewhere(c) ==
    /\ ~ Setting(c) /\ pc'[c] \notin KeyLabels /\ torn' = torn
    /\ Only(pc', pc, c) /\ Only(handle', handle, c) /\ Only(request', request, c)
    /\ Only(seen', seen, c) /\ Only(raced', raced, c)

LEMMA ElsewhereAside ==
    ASSUME RequestsI, NEW c \in Connections, Elsewhere(c),
           Len(nodes) <= Len(nodes'),
           \A n \in 1..Len(nodes) : nodes'[n].key = nodes[n].key,
           \A n \in 1..Len(nodes') : n > Len(nodes) => \A k \in KeyIds : nodes'[n].key[k].flags = 0
    PROVE  Aside(c) /\ ReaderI(c)' /\ CopyI(c)'
<1>1. ASSUME NEW d \in Connections \ {c}
      PROVE  /\ pc'[d] = pc[d] /\ handle'[d] = handle[d] /\ request'[d] = request[d]
             /\ seen'[d] = seen[d] /\ (raced[d] => raced'[d])
  BY DEF Elsewhere, Only
<1>2. Aside(c)
  BY <1>1 DEF Aside, Elsewhere, KeyLabels
<1>3. ReaderI(c)' /\ CopyI(c)'
  BY DEF Elsewhere, KeyLabels, ReaderI, CopyI, Copying
<1> QED
  BY <1>2, <1>3

LEMMA AccessElsewhere ==
    ASSUME RequestsI, NEW c \in Connections,
           (\E r \in Requests : Receive(c, r)) \/ Disconnect(c) \/ Access(c)
    PROVE  Elsewhere(c) /\ nodes' = nodes
<1>1. /\ pc \in [Connections -> Labels] /\ handle \in [Connections -> 0..Len(nodes)]
      /\ request \in [Connections -> Requests \union {NoRequest}]
      /\ seen \in [Connections -> Bytes] /\ raced \in [Connections -> BOOLEAN]
  BY DEF RequestsI, TypeI, WorkOK
<1> USE DEF Elsewhere, Only, At, Answer, Goto, Setting, KeyLabels, shared, local
<1>2. CASE \E r \in Requests : Receive(c, r)
  BY <1>1, <1>2 DEF Receive
<1>3. CASE Disconnect(c) \/ Respond(c)
  BY <1>1, <1>3 DEF Disconnect, Respond, Forget
<1>4. CASE Join(c) \/ NoHandler(c)
  BY <1>1, <1>4 DEF Join, NoHandler
<1>5. CASE Refuse(c)
  BY <1>1, <1>5 DEF Refuse
<1>6. CASE Dispatch(c)
  <2>1. pc[c] = "upload" /\ UNCHANGED <<nodes, torn, request, handle, seen, raced>>
    BY <1>6 DEF Dispatch
  <2>2. PICK label \in {"respond", "create_node", "delete_node", "open"} :
           pc' = [pc EXCEPT ![c] = label]
    <3>1. CASE Handler(c) \in {"redirect", "get_nodes", "get_keys"}
      BY <1>6, <3>1 DEF Dispatch
    <3>2. CASE Handler(c) \in {"create_node", "delete_node"}
      BY <1>6, <3>2 DEF Dispatch
    <3>3. CASE Handler(c) \notin {"redirect", "get_nodes", "get_keys", "create_node", "delete_node"}
      BY <1>6, <3>3 DEF Dispatch
    <3> QED
      BY <3>1, <3>2, <3>3
  <2> QED
    BY <1>1, <2>1, <2>2
<1> QED
  BY <1>2, <1>3, <1>4, <1>5, <1>6 DEF Access

LEMMA ServeElsewhere ==
    ASSUME RequestsI, NEW c \in Connections,
           \/ CreateNode(c) \/ Populate(c) \/ DeleteNode(c) \/ Open(c)
           \/ CheckSignature(c) \/ Serve(c)
    PROVE  Elsewhere(c)
<1>1. /\ pc \in [Connections -> Labels] /\ handle \in [Connections -> 0..Len(nodes)]
      /\ request \in [Connections -> Requests \union {NoRequest}]
      /\ seen \in [Connections -> Bytes] /\ raced \in [Connections -> BOOLEAN]
  BY DEF RequestsI, TypeI, WorkOK
<1> USE DEF Elsewhere, Only, At, Answer, AnswerWithBody, Goto, Setting, KeyLabels, Close, Serving, shared, local
<1>2. CASE CreateNode(c)
  BY <1>1, <1>2 DEF CreateNode
<1>3. CASE DeleteNode(c)
  BY <1>1, <1>3 DEF DeleteNode
<1>4. CASE CheckSignature(c)
  BY <1>1, <1>4 DEF CheckSignature
<1>5. CASE Describe(c) \/ RedirectLatest(c)
  BY <1>1, <1>5 DEF Describe, RedirectLatest
<1>6. CASE GetValues(c) \/ GetSeries(c)
  BY <1>1, <1>6 DEF GetValues, GetSeries
<1>7. CASE RefusePost(c) \/ PostValues(c)
  BY <1>1, <1>7 DEF RefusePost, PostValues
<1>8. CASE RefuseRow(c) \/ ImportRow(c) \/ EndImport(c)
  BY <1>1, <1>8 DEF RefuseRow, ImportRow, EndImport
<1>9. CASE Open(c)
  BY <1>1, <1>9 DEF Open
<1>10. CASE Populate(c)
  BY <1>1, <1>10 DEF Populate
<1> QED
  BY <1>2, <1>3, <1>4, <1>5, <1>6, <1>7, <1>8, <1>9, <1>10 DEF Serve

LEMMA AsideSteps ==
    ASSUME RequestsI, NEW c \in Connections,
           \/ \E r \in Requests : Receive(c, r)
           \/ Disconnect(c) \/ Access(c)
           \/ CreateNode(c) \/ Populate(c) \/ DeleteNode(c) \/ Open(c)
           \/ CheckSignature(c) \/ Serve(c)
    PROVE  Aside(c) /\ ReaderI(c)' /\ CopyI(c)'
<1>1. Elsewhere(c)
  BY AccessElsewhere, ServeElsewhere
<1>2. nodes \in Seq(NodeType) /\ Len(nodes) \in Nat
  BY NodesType
<1>3. CASE nodes' = nodes
  BY <1>1, <1>3, KeysSame, ElsewhereAside
<1>4. CASE nodes' = Append(nodes, NewNode)
  <2>1. NewNode \in NodeType /\ \A k \in KeyIds : NewNode.key[k].flags = 0
    <3>1. <<Erased, Erased>> \in Bytes
      BY DEF Bytes
    <3> QED
      BY <3>1 DEF NewNode, NodeType, Slot
  <2> DEFINE new == NewNode
  <2> HIDE DEF new
  <2>2. nodes' = Append(nodes, new) /\ new \in NodeType /\ \A k \in KeyIds : new.key[k].flags = 0
    BY <1>4, <2>1 DEF new
  <2>3. /\ Len(nodes') = Len(nodes) + 1 /\ nodes'[Len(nodes) + 1] = new
        /\ \A n \in 1..Len(nodes) : nodes'[n] = nodes[n]
    BY <1>2, <2>2
  <2>4. \A n \in 1..Len(nodes') : n > Len(nodes) => n = Len(nodes) + 1
    BY <1>2, <2>3
  <2>5. \A n \in 1..Len(nodes') : n > Len(nodes) => \A k \in KeyIds : nodes'[n].key[k].flags = 0
    BY <2>2, <2>3, <2>4
  <2>6. Len(nodes) <= Len(nodes') /\ \A n \in 1..Len(nodes) : nodes'[n].key = nodes[n].key
    BY <1>2, <2>3
  <2> QED
    BY <1>1, <2>5, <2>6, ElsewhereAside
<1>5. CASE PostValues(c) \/ ImportRow(c)
  <2>1. pc[c] \in Opened /\ Update(c)
    BY <1>5 DEF PostValues, ImportRow, Serving, At, Opened
  <2>2. Len(nodes') = Len(nodes) /\ \A i \in 1..Len(nodes) : nodes'[i].key = nodes[i].key
    BY <1>5, <2>1, TimeIs, UpdateIs
  <2>3. /\ Len(nodes) <= Len(nodes')
        /\ \A n \in 1..Len(nodes') : n > Len(nodes) => \A k \in KeyIds : nodes'[n].key[k].flags = 0
    BY <1>2, <2>2
  <2> QED
    BY <1>1, <2>2, <2>3, ElsewhereAside
<1>6. \/ nodes' = nodes \/ nodes' = Append(nodes, NewNode)
      \/ PostValues(c) \/ ImportRow(c)
  <2>1. CASE (\E r \in Requests : Receive(c, r)) \/ Disconnect(c) \/ Access(c)
    BY <2>1, AccessElsewhere
  <2>2. CASE CreateNode(c) \/ Populate(c) \/ DeleteNode(c) \/ Open(c) \/ CheckSignature(c)
    BY <2>2 DEF CreateNode, Populate, DeleteNode, Open, CheckSignature, shared
  <2>3. CASE Serve(c)
    BY <2>3 DEF Serve, Describe, RedirectLatest, GetValues, GetSeries, RefusePost, RefuseRow,
                EndImport, shared
  <2> QED
    BY <2>1, <2>2, <2>3
<1> QED
  BY <1>3, <1>4, <1>5, <1>6

\* A key is copied as it is in the node, unless it is set meanwhile.
LEMMA KeyCopyKeeps ==
    ASSUME RequestsI, KeyI, RequestsI', NEW c \in Connections,
           GetFlags(c) \/ GetHead(c) \/ GetTail(c)
    PROVE  KeyI'
<1>1. /\ pc \in [Connections -> Labels] /\ handle \in [Connections -> 0..Len(nodes)]
      /\ request \in [Connections -> Requests \union {NoRequest}]
      /\ seen \in [Connections -> Bytes] /\ raced \in [Connections -> BOOLEAN]
  BY DEF RequestsI, TypeI, WorkOK
<1>2. nodes' = nodes /\ torn' = torn /\ handle' = handle /\ request' = request
  BY DEF GetFlags, GetHead, GetTail, shared
<1>3. /\ pc[c] \in {"get_flags", "get_head", "get_tail"}
      /\ pc'[c] \in {"get_head", "get_tail", "signature", "serve"}
  BY <1>1 DEF GetFlags, GetHead, GetTail, At, Goto
<1>4. \A d \in Connections \ {c} : pc'[d] = pc[d] /\ seen'[d] = seen[d] /\ raced'[d] = raced[d]
  BY <1>1 DEF GetFlags, GetHead, GetTail, Goto
<1>5. Aside(c)
  <2>1. ~ Setting(c) /\ pc'[c] \notin {"set_head", "set_tail"}
    BY <1>3 DEF Setting
  <2> QED
    BY <1>2, <1>4, <2>1, KeysSame DEF Aside
<1> DEFINE n == handle[c]
           k == KeyId(c)
<1>6. n \in 1..Len(nodes) /\ k \in KeyIds
  BY <1>3, OpenedHas DEF Opened
<1>7. KeyId(c)' = k
  BY <1>2 DEF KeyId, Handler
<1>8. Flags(n, k)' = Flags(n, k) /\ Pieces(n, k)' = Pieces(n, k)
  BY <1>2, <1>7 DEF Flags, Pieces
<1>9. \A e \in Connections : Sets(e, n, k)' => Sets(e, n, k)
  <2> SUFFICES ASSUME NEW e \in Connections, Sets(e, n, k)' PROVE Sets(e, n, k)
    OBVIOUS
  <2>1. e # c
    BY <1>3 DEF Sets, Setting
  <2>2. KeyId(e)' = KeyId(e)
    BY <1>2 DEF KeyId, Handler
  <2> QED
    BY <1>2, <1>4, <1>7, <2>1, <2>2 DEF Sets, Setting
<1>10. CASE GetFlags(c)
  <2>1. /\ pc[c] = "get_flags"
        /\ pc'[c] = IF Flags(n, k) # 0 THEN "get_head" ELSE "serve"
        /\ Flags(n, k) # 0 /\ ~raced'[c] =>
              <<n, k>> \notin torn /\ \A d \in Connections : ~ (Setting(d) /\ SameKey(c, d))
    BY <1>1, <1>10 DEF GetFlags, At, Goto, Flags
  <2>2. CopyI(c)'
    BY <2>1 DEF CopyI
  <2>3. ReaderI(c)'
    <3> SUFFICES ASSUME Copying(c)', ~raced'[c]
                 PROVE  /\ \A e \in Connections : ~ Sets(e, n, k)'
                        /\ Flags(n, k)' # 0 /\ <<n, k>> \notin torn'
                        /\ pc'[c] = "get_tail" => seen'[c][1] = Pieces(n, k)'[1]
      BY <1>2, <1>7 DEF ReaderI
    <3>1. Flags(n, k) # 0 /\ pc'[c] = "get_head"
      BY <2>1 DEF Copying
    <3>2. (\A e \in Connections : ~ Sets(e, n, k)) /\ <<n, k>> \notin torn
      BY <2>1, <3>1 DEF Sets, SameKey
    <3> QED
      BY <1>2, <1>8, <1>9, <3>1, <3>2
  <2> QED
    BY <1>5, <2>2, <2>3, AsideKeeps
<1>11. CASE GetHead(c)
  <2>1. /\ pc[c] = "get_head" /\ pc'[c] = "get_tail" /\ raced'[c] = raced[c]
        /\ seen'[c][1] = Pieces(n, k)[1]
    <3>1. /\ pc[c] = "get_head" /\ pc'[c] = "get_tail" /\ raced' = raced
          /\ seen' = [seen EXCEPT ![c][1] = Pieces(n, k)[1]]
      BY <1>1, <1>11 DEF GetHead, At, Goto, Pieces
    <3>2. seen[c] \in Bytes
      BY <1>1
    <3>3. seen'[c] = [seen[c] EXCEPT ![1] = Pieces(n, k)[1]]
      BY <1>1, <3>1
    <3>4. seen'[c][1] = Pieces(n, k)[1]
      BY <3>2, <3>3 DEF Bytes
    <3> QED
      BY <3>1, <3>4
  <2>2. CopyI(c)'
    BY <2>1 DEF CopyI
  <2>3. ReaderI(c)'
    <3> SUFFICES ASSUME Copying(c)', ~raced'[c]
                 PROVE  /\ \A e \in Connections : ~ Sets(e, n, k)'
                        /\ Flags(n, k)' # 0 /\ <<n, k>> \notin torn'
                        /\ pc'[c] = "get_tail" => seen'[c][1] = Pieces(n, k)'[1]
      BY <1>2, <1>7 DEF ReaderI
    <3>1. Copying(c) /\ ~raced[c]
      BY <2>1 DEF Copying
    <3>2. (\A e \in Connections : ~ Sets(e, n, k)) /\ Flags(n, k) # 0 /\ <<n, k>> \notin torn
      BY <1>6, <3>1 DEF KeyI, ReaderI
    <3> QED
      BY <1>2, <1>8, <1>9, <2>1, <3>2
  <2> QED
    BY <1>5, <2>2, <2>3, AsideKeeps
<1>12. CASE GetTail(c)
  <2>1. /\ pc[c] = "get_tail" /\ pc'[c] \in {"serve", "signature"} /\ raced'[c] = raced[c]
        /\ seen'[c][1] = seen[c][1] /\ seen'[c][2] = Pieces(n, k)[2]
    <3>1. /\ pc[c] = "get_tail" /\ pc'[c] \in {"serve", "signature"} /\ raced' = raced
          /\ seen' = [seen EXCEPT ![c][2] = Pieces(n, k)[2]]
      BY <1>1, <1>12 DEF GetTail, At, Goto, Pieces
    <3>2. seen[c] \in Bytes
      BY <1>1
    <3>3. seen'[c] = [seen[c] EXCEPT ![2] = Pieces(n, k)[2]]
      BY <1>1, <3>1
    <3>4. seen'[c][2] = Pieces(n, k)[2] /\ seen'[c][1] = seen[c][1]
      BY <3>2, <3>3 DEF Bytes
    <3> QED
      BY <3>1, <3>4
  <2>2. ReaderI(c)'
    BY <2>1 DEF ReaderI, Copying
  <2>3. CopyI(c)'
    <3> SUFFICES ASSUME ~raced'[c] PROVE Whole(seen'[c])
      BY DEF CopyI, Whole
    <3>1. Copying(c) /\ ~raced[c]
      BY <2>1 DEF Copying
    <3>2. /\ (\A e \in Connections : ~ Sets(e, n, k)) /\ Flags(n, k) # 0 /\ <<n, k>> \notin torn
          /\ seen[c][1] = Pieces(n, k)[1]
      BY <1>6, <2>1, <3>1 DEF KeyI, ReaderI
    <3>3. Whole(Pieces(n, k))
      BY <1>6, <3>2 DEF KeyI, KeysRest
    <3> QED
      BY <2>1, <3>2, <3>3 DEF Whole
  <2> QED
    BY <1>5, <2>2, <2>3, AsideKeeps
<1> QED
  BY <1>10, <1>11, <1>12

\* Only the administrator sets keys.
LEMMA SoleSetter ==
    ASSUME OneAdmin, RequestsI, NEW c \in Connections, NEW d \in Connections,
           Setting(c) \/ pc[c] = "set_flags", Setting(d) \/ pc[d] = "set_flags"
    PROVE  c = d
<1>1. ASSUME NEW e \in Connections, Setting(e) \/ pc[e] = "set_flags" PROVE e \in Admins
  <2>1. pc[e] \in {"set_flags", "set_head", "set_tail"}
    BY <1>1 DEF Setting
  <2>2. Handler(e) = "put_key" /\ request[e].signature = Admin
    BY <2>1 DEF RequestsI, AllInHand, InHand, Setting
  <2> QED
    BY <2>1, <2>2 DEF RequestsI, AllInHand, InHand
<1> QED
  BY <1>1 DEF OneAdmin

LEMMA KeySetStep ==
    ASSUME RequestsI, KeyI, RequestsI', NEW c \in Connections,
           NEW n \in 1..Len(nodes), NEW k \in KeyIds,
           handle[c] = n, KeyId(c) = k, Setting(c)' => Sets(c, n, k)',
           pc[c] \in {"set_flags", "set_head", "set_tail"},
           pc'[c] \in {"set_head", "set_tail", "respond"},
           \A d \in Connections \ {c} :
              /\ ~ Setting(d)
              /\ pc'[d] = pc[d] /\ handle'[d] = handle[d] /\ request'[d] = request[d]
              /\ seen'[d] = seen[d] /\ (raced[d] => raced'[d]),
           Len(nodes') = Len(nodes),
           \A i \in 1..Len(nodes), j \in KeyIds :
              i # n \/ j # k => nodes'[i].key[j] = nodes[i].key[j],
           \A i \in 1..Len(nodes), j \in KeyIds :
              i # n \/ j # k => (<<i, j>> \in torn' <=> <<i, j>> \in torn),
           Setting(c)' \/ (nodes'[n].key[k].flags # 0 => Whole(nodes'[n].key[k].bytes)),
           SetterI(c)',
           \A d \in Connections \ {c} :
              Copying(d) /\ ~raced'[d] => handle[d] # n \/ KeyId(d) # k
    PROVE  KeyI'
<1>1. ASSUME NEW d \in Connections \ {c}
      PROVE  /\ ~ Setting(d) /\ ~ Setting(d)'
             /\ pc'[d] = pc[d] /\ handle'[d] = handle[d] /\ request'[d] = request[d]
             /\ seen'[d] = seen[d] /\ (raced[d] => raced'[d])
             /\ KeyId(d)' = KeyId(d)
  BY DEF Setting, KeyId, Handler
<1>2. ASSUME NEW i \in 1..Len(nodes), NEW j \in KeyIds, i # n \/ j # k
      PROVE  /\ Flags(i, j)' = Flags(i, j) /\ Pieces(i, j)' = Pieces(i, j)
             /\ \A e \in Connections : ~ Sets(e, i, j) /\ ~ Sets(e, i, j)'
  <2>1. Flags(i, j)' = Flags(i, j) /\ Pieces(i, j)' = Pieces(i, j)
    BY <1>2 DEF Flags, Pieces
  <2>2. ASSUME NEW e \in Connections PROVE ~ Sets(e, i, j) /\ ~ Sets(e, i, j)'
    <3>1. CASE e = c
      BY <1>2, <3>1 DEF Sets
    <3>2. CASE e # c
      BY <1>1, <3>2 DEF Sets
    <3> QED
      BY <3>1, <3>2
  <2> QED
    BY <2>1, <2>2
<1>3. KeysRest'
  <2> SUFFICES ASSUME NEW i \in 1..Len(nodes'), NEW j \in KeyIds,
                      \A d \in Connections : ~ Sets(d, i, j)', Flags(i, j)' # 0, <<i, j>> \notin torn'
               PROVE  Whole(Pieces(i, j)')
    BY DEF KeysRest, Whole
  <2>1. i \in 1..Len(nodes)
    OBVIOUS
  <2>2. CASE i = n /\ j = k
    <3>1. ~ Setting(c)'
      BY <2>2
    <3> QED
      BY <2>2, <3>1 DEF Flags, Pieces
  <2>3. CASE i # n \/ j # k
    <3>1. /\ Flags(i, j) # 0 /\ <<i, j>> \notin torn
          /\ (\A e \in Connections : ~ Sets(e, i, j)) /\ Pieces(i, j)' = Pieces(i, j)
      BY <1>2, <2>1, <2>3
    <3>2. Whole(Pieces(i, j))
      BY <2>1, <3>1 DEF KeyI, KeysRest
    <3> QED
      BY <3>1, <3>2 DEF Whole
  <2> QED
    BY <2>2, <2>3
<1>4. ASSUME NEW d \in Connections \ {c} PROVE SetterI(d)'
  BY <1>1 DEF SetterI, Sets
<1>5. ASSUME NEW d \in Connections PROVE ReaderI(d)'
  <2> SUFFICES ASSUME NEW i \in 1..Len(nodes'), NEW j \in KeyIds,
                      Copying(d)', ~raced'[d], handle'[d] = i, KeyId(d)' = j
               PROVE  /\ \A e \in Connections : ~ Sets(e, i, j)'
                      /\ Flags(i, j)' # 0 /\ <<i, j>> \notin torn'
                      /\ pc'[d] = "get_tail" => seen'[d][1] = Pieces(i, j)'[1]
    BY DEF ReaderI
  <2>1. d \in Connections \ {c} /\ i \in 1..Len(nodes)
    BY DEF Copying
  <2>2. /\ pc'[d] = pc[d] /\ seen'[d] = seen[d] /\ ~raced[d] /\ handle[d] = i /\ KeyId(d) = j
        /\ Copying(d)
    BY <1>1, <2>1 DEF Copying
  <2>3. i # n \/ j # k
    BY <2>1, <2>2
  <2>4. /\ Flags(i, j) # 0 /\ <<i, j>> \notin torn
        /\ pc[d] = "get_tail" => seen[d][1] = Pieces(i, j)[1]
    BY <2>1, <2>2 DEF KeyI, ReaderI
  <2> QED
    BY <1>2, <2>1, <2>2, <2>3, <2>4
<1>6. ASSUME NEW d \in Connections PROVE CopyI(d)'
  <2> SUFFICES ASSUME pc'[d] = "signature", ~raced'[d] PROVE Whole(seen'[d])
    BY DEF CopyI, Whole
  <2>1. d \in Connections \ {c}
    OBVIOUS
  <2>2. pc'[d] = pc[d] /\ seen'[d] = seen[d] /\ ~raced[d]
    BY <1>1, <2>1
  <2> QED
    BY <2>2 DEF KeyI, CopyI
<1> QED
  BY <1>3, <1>4, <1>5, <1>6 DEF KeyI

LEMMA KeySetKeeps ==
    ASSUME OneAdmin, RequestsI, KeyI, RequestsI', NEW c \in Connections,
           SetFlags(c) \/ SetHead(c) \/ SetTail(c)
    PROVE  KeyI'
<1>1. /\ pc \in [Connections -> Labels] /\ handle \in [Connections -> 0..Len(nodes)]
      /\ raced \in [Connections -> BOOLEAN]
  BY DEF RequestsI, TypeI, WorkOK
<1>2. pc[c] \in {"set_flags", "set_head", "set_tail"} /\ request' = request /\ seen' = seen
  BY DEF SetFlags, SetHead, SetTail, At
<1>3. handle[c] \in 1..Len(nodes) /\ KeyId(c) \in KeyIds /\ request[c] \in Requests
  BY <1>2, OpenedHas DEF Opened
<1>4. PICK n \in 1..Len(nodes), k \in KeyIds : handle[c] = n /\ KeyId(c) = k
  BY <1>3
<1>5. request[c].key \in Keys \union {Erased}
  BY <1>3, RequestsAssumption
<1>6. ASSUME NEW d \in Connections \ {c}
      PROVE  /\ ~ Setting(d)
             /\ pc'[d] = pc[d] /\ handle'[d] = handle[d] /\ request'[d] = request[d]
             /\ seen'[d] = seen[d] /\ (raced[d] => raced'[d])
  <2>1. ~ Setting(d)
    BY <1>2, SoleSetter DEF Setting
  <2>2. pc'[d] = pc[d] /\ handle'[d] = handle[d]
    BY <1>1 DEF SetFlags, SetHead, SetTail, Goto, Answer, Close
  <2>3. raced[d] => raced'[d]
    BY DEF SetFlags, SetHead, SetTail
  <2> QED
    BY <1>2, <2>1, <2>2, <2>3
<1>7. KeyId(c)' = k
  BY <1>2, <1>4 DEF KeyId, Handler
<1>8. SetterI(c) /\ \A d \in Connections : ReaderI(d)
  BY DEF KeyI
<1>14. \A i \in 1..Len(nodes), j \in KeyIds :
          i # n \/ j # k => (<<i, j>> \in torn' <=> <<i, j>> \in torn)
  BY <1>4 DEF SetFlags, SetHead, SetTail
<1>9. CASE SetFlags(c)
  <2> DEFINE v == IF request[c].key = Erased THEN 0 ELSE InUse
  <2>1. /\ pc[c] = "set_flags" /\ pc'[c] = "set_head" /\ handle' = handle
        /\ nodes' = [nodes EXCEPT ![n].key[k].flags = v] /\ v \in {0, InUse}
        /\ raced' = [d \in Connections |-> raced[d] \/ (Copying(d) /\ SameKey(c, d))]
    BY <1>1, <1>4, <1>9 DEF SetFlags, At, Goto
  <2>2. v = IF request[c].key = Erased THEN 0 ELSE InUse
    OBVIOUS
  <2> HIDE DEF v
  <2>3. /\ Len(nodes') = Len(nodes) /\ nodes'[n].key[k].flags = v
        /\ \A i \in 1..Len(nodes), j \in KeyIds :
              i # n \/ j # k => nodes'[i].key[j] = nodes[i].key[j]
    BY <2>1, FlagsWritten DEF RequestsI
  <2>4. Setting(c)' /\ Sets(c, n, k)'
    BY <1>4, <1>7, <2>1 DEF Setting, Sets
  <2>5. SetterI(c)'
    <3> SUFFICES ASSUME NEW i \in 1..Len(nodes'), NEW j \in KeyIds, Sets(c, i, j)'
                 PROVE  /\ Flags(i, j)' = IF request'[c].key = Erased THEN 0 ELSE InUse
                        /\ pc'[c] = "set_tail" => Pieces(i, j)'[1] = request'[c].key
      BY DEF SetterI
    <3>1. i = n /\ j = k
      BY <2>4 DEF Sets
    <3> QED
      BY <1>2, <2>1, <2>2, <2>3, <3>1 DEF Flags
  <2>6. ASSUME NEW d \in Connections \ {c}, Copying(d), ~raced'[d]
        PROVE  handle[d] # n \/ KeyId(d) # k
    BY <1>4, <2>1, <2>6 DEF SameKey
  <2> QED
    BY <1>2, <1>4, <1>6, <2>1, <2>3, <2>4, <2>5, <2>6, <1>14, KeySetStep
<1>10. ASSUME Setting(c), NEW d \in Connections \ {c}, Copying(d), ~raced'[d]
       PROVE  handle[d] # n \/ KeyId(d) # k
  <2>1. ~raced[d] /\ Sets(c, n, k)
    BY <1>4, <1>6, <1>10 DEF Sets
  <2> QED
    BY <1>8, <1>10, <2>1 DEF ReaderI
<1>11. Setting(c) => Flags(n, k) = IF request[c].key = Erased THEN 0 ELSE InUse
  BY <1>4, <1>8 DEF SetterI, Sets
<1>12. CASE SetHead(c)
  <2>1. /\ pc[c] = "set_head" /\ pc'[c] = "set_tail" /\ handle' = handle
        /\ WritesPiece(n, k, 1, request[c].key) /\ 1 \in 1..2
    BY <1>1, <1>4, <1>12 DEF SetHead, At, Goto, WritesPiece
  <2>2. /\ Len(nodes') = Len(nodes) /\ nodes'[n].key[k].flags = nodes[n].key[k].flags
        /\ nodes'[n].key[k].bytes[1] = request[c].key
        /\ \A i \in 1..Len(nodes), j \in KeyIds :
              i # n \/ j # k => nodes'[i].key[j] = nodes[i].key[j]
    BY <1>5, <2>1, BytesWritten DEF RequestsI
  <2>3. Setting(c)' /\ Sets(c, n, k)' /\ Setting(c)
    BY <1>4, <1>7, <2>1 DEF Setting, Sets
  <2>4. SetterI(c)'
    <3> SUFFICES ASSUME NEW i \in 1..Len(nodes'), NEW j \in KeyIds, Sets(c, i, j)'
                 PROVE  /\ Flags(i, j)' = IF request'[c].key = Erased THEN 0 ELSE InUse
                        /\ pc'[c] = "set_tail" => Pieces(i, j)'[1] = request'[c].key
      BY DEF SetterI
    <3>1. i = n /\ j = k
      BY <2>3 DEF Sets
    <3> QED
      BY <1>2, <1>11, <2>2, <2>3, <3>1 DEF Flags, Pieces
  <2> QED
    BY <1>2, <1>4, <1>6, <1>10, <2>1, <2>2, <2>3, <2>4, <1>14, KeySetStep
<1>13. CASE SetTail(c)
  <2>1. /\ pc[c] = "set_tail" /\ pc'[c] = "respond"
        /\ WritesPiece(n, k, 2, request[c].key) /\ 2 \in 1..2
    BY <1>1, <1>4, <1>13 DEF SetTail, At, Goto, Answer, WritesPiece
  <2>2. /\ Len(nodes') = Len(nodes) /\ nodes'[n].key[k].flags = nodes[n].key[k].flags
        /\ nodes'[n].key[k].bytes[2] = request[c].key
        /\ \A a \in 1..2 : a # 2 => nodes'[n].key[k].bytes[a] = nodes[n].key[k].bytes[a]
        /\ \A i \in 1..Len(nodes), j \in KeyIds :
              i # n \/ j # k => nodes'[i].key[j] = nodes[i].key[j]
    BY <1>5, <2>1, BytesWritten DEF RequestsI
  <2>3. ~ Setting(c)' /\ Setting(c) /\ Sets(c, n, k)
    BY <1>4, <2>1 DEF Setting, Sets
  <2>4. SetterI(c)'
    BY <2>3 DEF SetterI, Sets
  <2>5. nodes[n].key[k].bytes[1] = request[c].key
    BY <1>8, <2>1, <2>3 DEF SetterI, Pieces
  <2>6. nodes'[n].key[k].bytes[1] = request[c].key
    BY <2>2, <2>5
  <2>7. nodes'[n].key[k].flags # 0 => request[c].key \in Keys
    BY <1>5, <1>11, <2>2, <2>3 DEF Flags
  <2>8. nodes'[n].key[k].flags # 0 => Whole(nodes'[n].key[k].bytes)
    BY <2>2, <2>6, <2>7 DEF Whole
  <2> QED
    BY <1>2, <1>4, <1>6, <1>10, <2>1, <2>2, <2>3, <2>4, <2>8, <1>14, KeySetStep, SMTT(60)
<1> QED
  BY <1>9, <1>12, <1>13

LEMMA KeysStart == Init => KeyI
<1> SUFFICES ASSUME Init PROVE KeyI
  OBVIOUS
<1>1. Len(nodes) = 0 /\ \A c \in Connections : pc[c] = "idle"
  BY DEF Init
<1> QED
  BY <1>1 DEF KeyI, KeysRest, SetterI, ReaderI, CopyI, Sets, Setting, Copying

\* Where the process dies, what it was setting is torn.
LEMMA KeysLeft ==
    ASSUME RequestsI, KeyI, Dies
    PROVE  KeyI'
<1>1. /\ nodes' = nodes /\ torn \subseteq torn' /\ \A d \in Connections : pc'[d] = "idle"
      /\ \A d \in Connections : Setting(d) => <<handle[d], KeyId(d)>> \in torn'
  BY DEF Dies
<1>2. KeysRest'
  <2> SUFFICES ASSUME NEW n \in 1..Len(nodes), NEW k \in KeyIds, Flags(n, k) # 0, <<n, k>> \notin torn'
               PROVE  Whole(Pieces(n, k))
    BY <1>1 DEF KeysRest, Whole, Flags, Pieces
  <2>1. \A d \in Connections : ~ Sets(d, n, k)
    BY <1>1 DEF Sets
  <2> QED
    BY <1>1, <2>1 DEF KeyI, KeysRest
<1> QED
  BY <1>1, <1>2 DEF KeyI, SetterI, ReaderI, CopyI, Sets, Setting, Copying

LEMMA KeysStep == OneAdmin /\ RequestsI /\ KeyI /\ [Next]_vars => KeyI'
<1> SUFFICES ASSUME OneAdmin, RequestsI, KeyI, [Next]_vars PROVE KeyI'
  OBVIOUS
<1>1. RequestsI'
  BY RequestsSteps
<1>2. CASE UNCHANGED vars
  <2>1. UNCHANGED <<nodes, pc, request, handle, seen, raced>>
    BY <1>2 DEF vars, shared
  <2>6. torn' = torn
    BY <1>2 DEF vars, shared
  <2>2. \A d \in Connections : KeyId(d)' = KeyId(d)
    BY <2>1 DEF KeyId, Handler
  <2>3. KeysRest'
    BY <2>1, <2>2, <2>6 DEF KeyI, KeysRest, Sets, Setting, Whole, Flags, Pieces
  <2>4. ASSUME NEW d \in Connections PROVE SetterI(d)' /\ CopyI(d)'
    BY <2>1, <2>2 DEF KeyI, SetterI, CopyI, Sets, Setting, Whole, Flags, Pieces
  <2>5. ASSUME NEW d \in Connections PROVE ReaderI(d)'
    BY <2>1, <2>2, <2>6 DEF KeyI, ReaderI, Sets, Setting, Copying, Flags, Pieces
  <2> QED
    BY <2>3, <2>4, <2>5 DEF KeyI
<1>3. ASSUME NEW c \in Connections,
             \/ \E r \in Requests : Receive(c, r)
             \/ Disconnect(c) \/ Access(c)
             \/ CreateNode(c) \/ Populate(c) \/ DeleteNode(c) \/ Open(c)
             \/ CheckSignature(c) \/ Serve(c)
      PROVE  KeyI'
  BY <1>1, <1>3, AsideSteps, AsideKeeps
<1>4. ASSUME NEW c \in Connections, GetFlags(c) \/ GetHead(c) \/ GetTail(c) PROVE KeyI'
  BY <1>1, <1>4, KeyCopyKeeps
<1>5. ASSUME NEW c \in Connections, SetFlags(c) \/ SetHead(c) \/ SetTail(c) PROVE KeyI'
  BY <1>1, <1>5, KeySetKeeps
<1>6. CASE Dies
  BY <1>6, KeysLeft
<1> QED
  BY <1>2, <1>3, <1>4, <1>5, <1>6, StepsAre DEF KeyStore

\* With one administrator, a key that is not set while it is read, and that no process left
\* half set, is read as one that was set (tsdb.h:253), whatever other connections do.
THEOREM KeysAreWhole == ASSUME OneAdmin PROVE Spec => []KeyIsWhole
<1>1. Init => RequestsI /\ KeyI
  BY RequestsStarts, KeysStart
<1>2. (RequestsI /\ KeyI) /\ [Next]_vars => (RequestsI /\ KeyI)'
  BY RequestsSteps, KeysStep
<1>3. RequestsI /\ KeyI => KeyIsWhole
  <2> SUFFICES ASSUME RequestsI, KeyI, NEW c \in Connections, pc[c] = "signature", ~raced[c]
               PROVE  \E k \in Keys : seen[c] = <<k, k>>
    BY DEF KeyIsWhole, At
  <2>1. Whole(seen[c])
    BY DEF KeyI, CopyI
  <2>2. seen[c] \in Bytes
    BY DEF RequestsI, TypeI, WorkOK
  <2> DEFINE k == seen[c][1]
  <2>3. k \in Keys /\ seen[c] \in [1..2 -> Keys \union {Erased}] /\ seen[c][1] = k /\ seen[c][2] = k
    BY <2>1, <2>2 DEF Whole, Bytes
  <2> HIDE DEF k
  <2>4. seen[c] = <<k, k>>
    BY <2>3
  <2> QED
    BY <2>3, <2>4
<1> QED
  BY <1>1, <1>2, <1>3, PTL DEF Spec
=============================================================================
