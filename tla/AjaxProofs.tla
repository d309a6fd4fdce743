----------------------------- MODULE AjaxProofs -----------------------------
(* Proofs about jQuery.ajax, for any number of requests, any settings, and any      *)
(* depth of calls within calls: no connection is left open or listening, a request   *)
(* is over once, and the counter of requests under way is right.                  *)
EXTENDS Ajax, FiniteSetTheorems, TLAPS

\* The places of a call of ajax before its request is sent.
Before == {"start", "beforeSend", "ajaxSend"}

Places == Before \union {"send", "settle", "event", "complete", "ajaxComplete", "stop"}
Codes  == BOOLEAN \union {settings.global : settings \in Settings}
Calls  == [r : Requests, at : Places, code : Codes]

AjaxTypeOK ==
    /\ s \in [Requests -> Settings \union {NoSettings}]
    /\ state \in [Requests -> {-1, 0, 1, 2}]
    /\ transport \in [Requests -> {"none", "ready", "gone"}]
    /\ xhr \in [Requests -> {"none", "open", "closed"}]
    /\ callback \in [Requests -> BOOLEAN] /\ handle \in [Requests -> BOOLEAN]
    /\ ends \in [Requests -> Nat]
    /\ abortedAtSend \in BOOLEAN
    /\ stack \in Seq(Calls)

\* A request is sent by one call of ajax, and that call has not sent it before.
OneSender ==
    /\ \A m, n \in DOMAIN stack :
          stack[m].at \in Before /\ stack[n].at \in Before /\ stack[m].r = stack[n].r => m = n
    /\ \A n \in DOMAIN stack :
          stack[n].at \in Before => state[stack[n].r] # -1 /\ ~callback[stack[n].r]

\* A request whose ajaxSend event runs loses its transport only by an abort there.
SenderKeeps ==
    \A n \in DOMAIN stack :
        stack[n].at = "ajaxSend" /\ transport[stack[n].r] = "gone" => abortedAtSend

\* What listens has its transport, and what has a transport is not over.
TransportsLive ==
    \A r \in Requests : /\ callback[r] => transport[r] = "ready"
                        /\ transport[r] = "ready" => state[r] \in {0, 1}

EndsAreCounted == ~abortedAtSend => \A r \in Requests : ends[r] = IF state[r] = 2 THEN 1 ELSE 0

AjaxInv == AjaxTypeOK /\ OneSender /\ SenderKeeps /\ TransportsLive /\ EndsAreCounted /\ NoneLeftOpen

-----------------------------------------------------------------------------
(* The stack.                                                                  *)

LEMMA StackCut ==
    ASSUME NEW calls \in Seq(Calls), NEW depth \in 0..Len(calls)
    PROVE  /\ SubSeq(calls, 1, depth) \in Seq(Calls)
           /\ DOMAIN SubSeq(calls, 1, depth) = 1..depth
           /\ \A n \in 1..depth : n \in DOMAIN calls /\ SubSeq(calls, 1, depth)[n] = calls[n]
  OBVIOUS

LEMMA StackTop ==
    ASSUME stack \in Seq(Calls), stack # <<>>
    PROVE  /\ Len(stack) \in DOMAIN stack /\ top = stack[Len(stack)] /\ top \in Calls
           /\ rest \in Seq(Calls) /\ Len(rest) = Len(stack) - 1
           /\ DOMAIN rest = 1..Len(stack) - 1
           /\ \A n \in DOMAIN rest : n \in DOMAIN stack /\ n # Len(stack) /\ rest[n] = stack[n]
<1>1. Len(stack) \in Nat \ {0} /\ DOMAIN stack = 1..Len(stack)
  OBVIOUS
<1>2. rest = SubSeq(stack, 1, Len(stack) - 1)
  BY DEF rest, Front
<1>3. Len(stack) - 1 \in 0..Len(stack)
  BY <1>1
<1>4. Len(rest) = Len(stack) - 1
  BY <1>1, <1>2
<1> QED
  BY <1>1, <1>2, <1>3, <1>4, StackCut DEF top, Last

LEMMA CallsOf ==
    ASSUME NEW calls \in Seq(Calls), NEW n \in DOMAIN calls
    PROVE  calls[n].r \in Requests
<1>1. calls[n] \in Calls
  OBVIOUS
<1> QED
  BY <1>1 DEF Calls

\* A call on top of others.
LEMMA StackPush ==
    ASSUME NEW calls \in Seq(Calls), NEW r \in Requests, NEW at \in Places, NEW code \in Codes
    PROVE  LET new == Append(calls, At(r, at, code))
           IN  /\ new \in Seq(Calls)
               /\ DOMAIN new = DOMAIN calls \union {Len(calls) + 1} /\ Len(calls) + 1 \notin DOMAIN calls
               /\ Len(new) = Len(calls) + 1
               /\ \A n \in DOMAIN calls : new[n] = calls[n]
               /\ new[Len(calls) + 1].r = r /\ new[Len(calls) + 1].at = at
<1>1. At(r, at, code) \in Calls /\ At(r, at, code).r = r /\ At(r, at, code).at = at
  BY DEF At, Calls
<1> QED
  BY <1>1

-----------------------------------------------------------------------------
(* Steps.                                                                      *)

\* The calls that have still to send a request were there before.
NoNewSender(new) ==
    \A n \in DOMAIN new : new[n].at \in Before =>
        /\ n \in DOMAIN stack /\ stack[n].at \in Before /\ new[n].r = stack[n].r
        /\ new[n].at = "ajaxSend" => stack[n].at = "ajaxSend"

\* What nothing sends any more, or was aborted in its ajaxSend event.
AbortRecorded(r, below) ==
    /\ abortedAtSend' \in BOOLEAN /\ (abortedAtSend => abortedAtSend')
    /\ \A n \in DOMAIN below : below[n].r = r /\ below[n].at = "ajaxSend" => abortedAtSend'

\* A step after which a request does not listen any more, and no other does that did not.
ListenerClosed(r) ==
    /\ xhr' \in [Requests -> {"none", "open", "closed"}]
    /\ callback' \in [Requests -> BOOLEAN] /\ handle' \in [Requests -> BOOLEAN]
    /\ \A q \in Requests : /\ callback'[q] => callback[q] /\ q # r
                           /\ (xhr'[q] = "open") = callback'[q]
                           /\ callback'[q] = handle'[q]

\* A call gives way to one that sends nothing.
LEMMA TopReplaced ==
    ASSUME AjaxTypeOK, stack # <<>>, NEW r \in Requests, NEW at \in Places, NEW code \in Codes,
           at \in Before => r = top.r /\ top.at \in Before /\ at # "ajaxSend"
    PROVE  LET new == Append(rest, At(r, at, code)) IN new \in Seq(Calls) /\ NoNewSender(new)
<1>1. rest \in Seq(Calls)
  BY StackTop DEF AjaxTypeOK
<1> QED
  BY <1>1, StackTop, StackPush DEF AjaxTypeOK, NoNewSender

LEMMA TopRemoved == AjaxTypeOK /\ stack # <<>> => rest \in Seq(Calls) /\ NoNewSender(rest)
  BY StackTop DEF AjaxTypeOK, NoNewSender

\* A step of the calls alone.
LEMMA OnlyStack ==
    ASSUME AjaxInv, UNCHANGED <<one, wire, ends, abortedAtSend>>,
           stack' \in Seq(Calls), NoNewSender(stack')
    PROVE  AjaxInv'
<1> USE DEF AjaxInv, one, wire
<1>1. AjaxTypeOK' /\ TransportsLive' /\ EndsAreCounted' /\ NoneLeftOpen'
  BY DEF AjaxTypeOK, TransportsLive, EndsAreCounted, NoneLeftOpen
<1>2. OneSender' /\ SenderKeeps'
  BY DEF OneSender, SenderKeeps, NoNewSender, Before
<1> QED
  BY <1>1, <1>2

\* A request that is over: its listener is closed, and nothing sends it any more, or an
\* abort in its ajaxSend event is on record.
LEMMA OverKeeps ==
    ASSUME AjaxInv, NEW r \in Requests, NEW outcome, NEW below \in Seq(Calls), NoNewSender(below),
           Over(r, outcome, below), s' = s,
           state[r] # 2 \/ abortedAtSend',
           AbortRecorded(r, below), ListenerClosed(r)
    PROVE  AjaxInv'
<1> USE DEF AjaxInv, AbortRecorded, ListenerClosed
<1>1. /\ state' = [state EXCEPT ![r] = 2] /\ transport' = [transport EXCEPT ![r] = "gone"]
      /\ ends' = [ends EXCEPT ![r] = ends[r] + 1]
  BY DEF Over, Set
<1>2. PICK code \in Codes : stack' = Append(below, At(r, "settle", code))
  BY DEF Over, Codes
<1>3. /\ stack' \in Seq(Calls) /\ NoNewSender(stack')
      /\ \A n \in DOMAIN stack' : stack'[n].r = r /\ stack'[n].at = "ajaxSend" => abortedAtSend'
  <2> DEFINE new == Append(below, At(r, "settle", code))
  <2>1. /\ new \in Seq(Calls)
        /\ \A n \in DOMAIN new : (n \in DOMAIN below /\ new[n] = below[n]) \/ new[n].at = "settle"
    <3>1. /\ new \in Seq(Calls)
          /\ DOMAIN new = DOMAIN below \union {Len(below) + 1}
          /\ \A n \in DOMAIN below : new[n] = below[n]
          /\ new[Len(below) + 1].at = "settle"
      <4>1. "settle" \in Places
        BY DEF Places
      <4> QED
        BY <4>1, StackPush
    <3> QED
      BY <3>1
  <2>2. stack' = new
    BY <1>2
  <2> HIDE DEF new
  <2> QED
    BY <2>1, <2>2 DEF NoNewSender, Before
<1>4. AjaxTypeOK'
  <2>1. ends'[r] = ends[r] + 1 /\ ends' \in [Requests -> Nat]
    BY <1>1 DEF AjaxTypeOK
  <2>2. state' \in [Requests -> {-1, 0, 1, 2}] /\ transport' \in [Requests -> {"none", "ready", "gone"}]
    BY <1>1 DEF AjaxTypeOK
  <2> QED
    BY <1>3, <2>1, <2>2 DEF AjaxTypeOK
<1>5. OneSender'
  <2>1. \A q \in Requests : state[q] # -1 => state'[q] # -1
    BY <1>1 DEF AjaxTypeOK
  <2>2. \A n \in DOMAIN stack' : stack'[n].r \in Requests
    BY <1>3, CallsOf
  <2> QED
    BY <1>3, <2>1, <2>2 DEF OneSender, NoNewSender
<1>6. SenderKeeps'
  <2>1. \A q \in Requests : q # r => transport'[q] = transport[q]
    BY <1>1 DEF AjaxTypeOK
  <2>2. \A n \in DOMAIN stack' : stack'[n].r \in Requests
    BY <1>3, CallsOf
  <2> QED
    BY <1>3, <2>1, <2>2 DEF SenderKeeps, NoNewSender, Before
<1>7. TransportsLive' /\ EndsAreCounted' /\ NoneLeftOpen'
  BY <1>1 DEF TransportsLive, EndsAreCounted, NoneLeftOpen, AjaxTypeOK
<1> QED
  BY <1>4, <1>5, <1>6, <1>7

\* done, called where nothing sends the request, or with the abort on record.
LEMMA DoneKeeps ==
    ASSUME AjaxInv, NEW r \in Requests, NEW outcome, NEW below \in Seq(Calls), NoNewSender(below),
           done(r, outcome, below), s' = s,
           AbortRecorded(r, below), ListenerClosed(r)
    PROVE  AjaxInv'
<1>1. CASE state[r] # 2
  BY <1>1, OverKeeps DEF done
<1>2. CASE state[r] = 2
  <2> USE DEF AbortRecorded, ListenerClosed
  <2>1. stack' = below /\ UNCHANGED <<state, transport, ends>>
    BY <1>2 DEF done
  <2>2. OneSender' /\ SenderKeeps'
    <3>1. \A n \in DOMAIN stack' : stack'[n].r \in Requests
      BY <2>1, CallsOf
    <3> QED
      BY <2>1, <3>1 DEF OneSender, SenderKeeps, NoNewSender, AjaxInv, Before
  <2> QED
    BY <2>1, <2>2 DEF AjaxInv, AjaxTypeOK, TransportsLive, EndsAreCounted, NoneLeftOpen
<1> QED
  BY <1>1, <1>2

-----------------------------------------------------------------------------
(* The actions.                                                                *)

LEMMA AjaxInit == Init => AjaxInv
<1> SUFFICES ASSUME Init PROVE AjaxInv
  OBVIOUS
<1>1. stack \in Seq(Calls) /\ DOMAIN stack = {}
  BY DEF Init
<1>2. AjaxTypeOK
  BY <1>1 DEF Init, For, AjaxTypeOK
<1>3. OneSender /\ SenderKeeps
  BY <1>1 DEF OneSender, SenderKeeps
<1>4. TransportsLive /\ NoneLeftOpen
  BY DEF Init, For, TransportsLive, NoneLeftOpen
<1>5. EndsAreCounted
  BY DEF Init, For, EndsAreCounted
<1> QED
  BY <1>2, <1>3, <1>4, <1>5 DEF AjaxInv

\* The calls below the top have the request of the top still to send only if the top has not.
LEMMA OthersDoNotSend ==
    ASSUME AjaxInv, stack # <<>>, top.at \in Before
    PROVE  /\ ~callback[top.r] /\ state[top.r] # -1
           /\ \A n \in DOMAIN rest : ~(rest[n].at \in Before /\ rest[n].r = top.r)
  BY StackTop DEF AjaxInv, AjaxTypeOK, OneSender

LEMMA ajaxKeeps ==
    ASSUME AjaxInv, NEW r \in Requests, NEW settings \in Settings, ajax(r, settings)
    PROVE  AjaxInv'
<1> USE DEF AjaxInv
<1>1. /\ state[r] = -1 /\ state' = [state EXCEPT ![r] = 0] /\ s' = [s EXCEPT ![r] = settings]
      /\ UNCHANGED <<transport, xhr, callback, handle, ends, abortedAtSend>>
  BY DEF ajax, Set, wire
<1>2. PICK code \in Codes : stack' = Append(stack, At(r, "start", code))
  BY DEF ajax, Codes
<1> DEFINE new == Append(stack, At(r, "start", code))
<1>3. "start" \in Places
  BY DEF Places, Before
<1>4. /\ new \in Seq(Calls)
      /\ DOMAIN new = DOMAIN stack \union {Len(stack) + 1} /\ Len(stack) + 1 \notin DOMAIN stack
      /\ \A n \in DOMAIN stack : new[n] = stack[n]
      /\ new[Len(stack) + 1].r = r /\ new[Len(stack) + 1].at = "start"
  BY <1>3, StackPush DEF AjaxTypeOK
<1> HIDE DEF new
<1>5. stack' = new
  BY <1>2 DEF new
<1>6. AjaxTypeOK'
  BY <1>1, <1>4, <1>5 DEF AjaxTypeOK
<1>7. \A n \in DOMAIN stack : stack[n].r \in Requests /\ (stack[n].at \in Before => stack[n].r # r)
  BY <1>1, CallsOf DEF AjaxTypeOK, OneSender
<1>8. OneSender'
  <2>1. \A q \in Requests : q # r => state'[q] = state[q]
    BY <1>1 DEF AjaxTypeOK
  <2>2. state'[r] = 0 /\ ~callback[r]
    BY <1>1 DEF AjaxTypeOK, NoneLeftOpen
  <2> QED
    BY <1>1, <1>4, <1>5, <1>7, <2>1, <2>2 DEF OneSender
<1>9. SenderKeeps'
  BY <1>1, <1>4, <1>5 DEF SenderKeeps
<1>10. TransportsLive' /\ EndsAreCounted' /\ NoneLeftOpen'
  BY <1>1 DEF AjaxTypeOK, TransportsLive, EndsAreCounted, NoneLeftOpen
<1> QED
  BY <1>6, <1>8, <1>9, <1>10

\* The steps that only move the calls on.
LEMMA MovingOnKeeps ==
    ASSUME AjaxInv, AfterStart \/ AfterSettle \/ AfterEvent \/ AfterComplete \/ AfterAjaxComplete \/ Leave
    PROVE  AjaxInv'
<1>1. stack # <<>> /\ UNCHANGED <<one, wire, ends, abortedAtSend>>
  BY DEF AfterStart, AfterSettle, AfterEvent, AfterComplete, AfterAjaxComplete, Leave, IsAt, history
<1>2. top.r \in Requests /\ s[top.r].global \in Codes
  <2>1. top.r \in Requests /\ s[top.r] \in Settings \union {NoSettings}
    BY <1>1, StackTop DEF AjaxInv, AjaxTypeOK, Calls
  <2>2. NoSettings.global = FALSE
    BY DEF NoSettings
  <2> QED
    BY <2>1, <2>2 DEF Codes
<1>3. TRUE \in Codes /\ FALSE \in Codes
  BY DEF Codes
<1>4. stack' \in Seq(Calls) /\ NoNewSender(stack')
  <2>1. CASE AfterStart
    <3>1. "beforeSend" \in Places /\ "beforeSend" # "ajaxSend" /\ top.at \in Before
      BY <2>1 DEF AfterStart, IsAt, Places, Before
    <3> QED
      BY <1>1, <1>2, <1>3, <2>1, <3>1, TopReplaced DEF AfterStart, AjaxInv
  <2>2. CASE AfterSettle
    <3>1. "event" \in Places /\ "event" \notin Before
      BY DEF Places, Before
    <3> QED
      BY <1>1, <1>2, <2>2, <3>1, TopReplaced DEF AfterSettle, AjaxInv
  <2>3. CASE AfterEvent
    <3>1. "complete" \in Places /\ "complete" \notin Before
      BY DEF Places, Before
    <3>2. PICK code \in Codes : stack' = Append(rest, At(top.r, "complete", code))
      BY <1>3, <2>3 DEF AfterEvent, Codes
    <3> QED
      BY <1>1, <1>2, <3>1, <3>2, TopReplaced DEF AjaxInv
  <2>4. CASE AfterComplete
    <3>1. "ajaxComplete" \in Places /\ "ajaxComplete" \notin Before
      BY DEF Places, Before
    <3> QED
      BY <1>1, <1>2, <1>3, <2>4, <3>1, TopReplaced, TopRemoved DEF AfterComplete, AjaxInv
  <2>5. CASE AfterAjaxComplete
    <3>1. "stop" \in Places /\ "stop" \notin Before
      BY DEF Places, Before
    <3>2. PICK code \in Codes : stack' = Append(rest, At(top.r, "stop", code))
      BY <1>3, <2>5 DEF AfterAjaxComplete, Codes
    <3> QED
      BY <1>1, <1>2, <3>1, <3>2, TopReplaced DEF AjaxInv
  <2>6. CASE Leave
    BY <1>1, <2>6, TopRemoved DEF Leave, AjaxInv
  <2> QED
    BY <2>1, <2>2, <2>3, <2>4, <2>5, <2>6
<1> QED
  BY <1>1, <1>4, OnlyStack

LEMMA SendingKeeps ==
    ASSUME AjaxInv, AfterBeforeSend \/ Send
    PROVE  AjaxInv'
<1> USE DEF AjaxInv
<1> DEFINE r == top.r
<1>1. stack # <<>> /\ top.at \in Before
  BY DEF AfterBeforeSend, Send, IsAt, Before
<1>2. /\ r \in Requests /\ ~callback[r] /\ state[r] # -1
      /\ \A n \in DOMAIN rest : rest[n].r \in Requests /\ ~(rest[n].at \in Before /\ rest[n].r = r)
      /\ rest \in Seq(Calls) /\ DOMAIN rest \subseteq DOMAIN stack
      /\ \A n \in DOMAIN rest : rest[n] = stack[n]
  BY <1>1, StackTop, OthersDoNotSend, CallsOf DEF AjaxTypeOK, Calls
<1> HIDE DEF r
<1>3. ASSUME AfterBeforeSend PROVE AjaxInv'
  <2>1. /\ state[r] \in {0, 1} /\ transport' = [transport EXCEPT ![r] = "ready"]
        /\ UNCHANGED <<s, state, xhr, callback, handle, ends, abortedAtSend>>
    BY <1>2, <1>3 DEF AfterBeforeSend, Set, wire, history, r, AjaxTypeOK
  <2>2. PICK code \in Codes : stack' = Append(rest, At(r, "ajaxSend", code))
    <3>1. s[r].global \in Codes
      <4>1. s[r] \in Settings \union {NoSettings} /\ NoSettings.global = FALSE
        BY <1>2 DEF AjaxTypeOK, NoSettings
      <4> QED
        BY <4>1 DEF Codes
    <3> QED
      BY <1>3, <3>1 DEF AfterBeforeSend, r
  <2> DEFINE new == Append(rest, At(r, "ajaxSend", code))
  <2>3. "ajaxSend" \in Places
    BY DEF Places, Before
  <2>4. /\ new \in Seq(Calls)
        /\ DOMAIN new = DOMAIN rest \union {Len(rest) + 1} /\ Len(rest) + 1 \notin DOMAIN rest
        /\ \A n \in DOMAIN rest : new[n] = rest[n]
        /\ new[Len(rest) + 1].r = r /\ new[Len(rest) + 1].at = "ajaxSend"
    BY <1>2, <2>3, StackPush
  <2> HIDE DEF new
  <2>5. stack' = new
    BY <2>2 DEF new
  <2>6. AjaxTypeOK'
    BY <2>1, <2>4, <2>5 DEF AjaxTypeOK
  <2>7. OneSender'
    BY <1>2, <2>1, <2>4, <2>5 DEF OneSender
  <2>8. SenderKeeps'
    <3>1. transport'[r] = "ready" /\ \A q \in Requests : q # r => transport'[q] = transport[q]
      BY <1>2, <2>1 DEF AjaxTypeOK
    <3> QED
      BY <1>2, <2>1, <2>4, <2>5, <3>1 DEF SenderKeeps
  <2>9. TransportsLive' /\ EndsAreCounted' /\ NoneLeftOpen'
    BY <1>2, <2>1 DEF AjaxTypeOK, TransportsLive, EndsAreCounted, NoneLeftOpen
  <2> QED
    BY <2>6, <2>7, <2>8, <2>9
<1>4. ASSUME Send PROVE AjaxInv'
  <2>1. /\ transport[r] = "ready" /\ state' = [state EXCEPT ![r] = 1]
        /\ xhr' = [xhr EXCEPT ![r] = "open"] /\ callback' = [callback EXCEPT ![r] = TRUE]
        /\ handle' = [handle EXCEPT ![r] = TRUE] /\ stack' = rest
        /\ UNCHANGED <<s, transport, ends, abortedAtSend>>
    BY <1>4 DEF Send, Set, history, r
  <2>2. AjaxTypeOK'
    BY <1>2, <2>1 DEF AjaxTypeOK
  <2>3. OneSender' /\ SenderKeeps'
    <3>1. \A q \in Requests : q # r => state'[q] = state[q] /\ callback'[q] = callback[q]
      BY <1>2, <2>1 DEF AjaxTypeOK
    <3> QED
      BY <1>2, <2>1, <3>1 DEF OneSender, SenderKeeps, Before
  <2>4. TransportsLive' /\ NoneLeftOpen'
    BY <1>2, <2>1 DEF AjaxTypeOK, TransportsLive, NoneLeftOpen
  <2>5. EndsAreCounted'
    <3>1. state[r] # 2
      BY <1>2, <2>1 DEF TransportsLive
    <3>3. state'[r] = 1
      BY <1>2, <2>1 DEF AjaxTypeOK
    <3>2. \A q \in Requests : q # r => state'[q] = state[q]
      BY <2>1 DEF AjaxTypeOK
    <3> QED
      BY <2>1, <3>1, <3>2, <3>3 DEF EndsAreCounted
  <2> QED
    BY <2>2, <2>3, <2>4, <2>5
<1> QED
  BY <1>3, <1>4

\* What ends a request whose call is on top: a refusal, a synchronous answer, the catch.
LEMMA EndingKeeps ==
    ASSUME AjaxInv, NEW outcome, Refused \/ SendSync(outcome) \/ SendAborted
    PROVE  AjaxInv'
<1>1. /\ stack # <<>> /\ top.at \in Before /\ top.r \in Requests /\ abortedAtSend' = abortedAtSend
      /\ UNCHANGED <<s, installed, callback, handle>>
  BY StackTop DEF Refused, SendSync, SendAborted, IsAt, Before, AjaxInv, AjaxTypeOK, Calls
<1>2. /\ ~callback[top.r] /\ rest \in Seq(Calls) /\ NoNewSender(rest)
      /\ \A n \in DOMAIN rest : ~(rest[n].at = "ajaxSend" /\ rest[n].r = top.r)
  BY <1>1, TopRemoved, OthersDoNotSend DEF AjaxInv, Before
<1>3. AbortRecorded(top.r, rest)
  BY <1>1, <1>2 DEF AbortRecorded, AjaxInv, AjaxTypeOK
<1>4. ASSUME xhr' = xhr \/ xhr' = [xhr EXCEPT ![top.r] = "closed"]
      PROVE  ListenerClosed(top.r)
  <2>1. /\ xhr' \in [Requests -> {"none", "open", "closed"}]
        /\ callback' \in [Requests -> BOOLEAN] /\ handle' \in [Requests -> BOOLEAN]
    BY <1>1, <1>4 DEF AjaxInv, AjaxTypeOK
  <2>2. \A q \in Requests : (xhr'[q] = "open") = (xhr[q] = "open")
    BY <1>1, <1>2, <1>4 DEF AjaxInv, AjaxTypeOK, NoneLeftOpen
  <2> QED
    BY <1>1, <1>2, <2>1, <2>2 DEF ListenerClosed, AjaxInv, NoneLeftOpen
<1>5. ASSUME Refused PROVE AjaxInv'
  <2>1. done(top.r, "error", rest) /\ xhr' = xhr
    BY <1>5 DEF Refused
  <2>2. PICK r \in Requests, below \in Seq(Calls) : r = top.r /\ below = rest
    BY <1>1, <1>2
  <2>3. /\ done(r, "error", below) /\ NoNewSender(below) /\ AbortRecorded(r, below)
        /\ ListenerClosed(r) /\ s' = s
    BY <1>1, <1>2, <1>3, <1>4, <2>1, <2>2 DEF done, Over, Set, AbortRecorded, ListenerClosed
  <2> QED
    BY <2>3, DoneKeeps
<1>6. ASSUME SendSync(outcome) PROVE AjaxInv'
  <2>1. PICK code \in Codes : Over(top.r, outcome, Append(rest, At(top.r, "send", code)))
    BY <1>6 DEF SendSync, Codes
  <2>2. transport[top.r] = "ready" /\ xhr' = [xhr EXCEPT ![top.r] = "closed"]
    BY <1>6 DEF SendSync, Set
  <2> DEFINE below == Append(rest, At(top.r, "send", code))
  <2>3. "send" \in Places /\ "send" \notin Before
    BY DEF Places, Before
  <2>4. below \in Seq(Calls) /\ NoNewSender(below)
    BY <1>1, <2>3, TopReplaced DEF AjaxInv
  <2>5. /\ DOMAIN below = DOMAIN rest \union {Len(rest) + 1}
        /\ \A n \in DOMAIN rest : below[n] = rest[n]
        /\ below[Len(rest) + 1].at = "send"
    BY <1>1, <1>2, <2>3, StackPush
  <2>6. Over(top.r, outcome, below)
    BY <2>1
  <2> HIDE DEF below
  <2>7. AbortRecorded(top.r, below)
    BY <1>2, <1>3, <2>5 DEF AbortRecorded
  <2>8. state[top.r] # 2
    BY <1>1, <2>2 DEF AjaxInv, TransportsLive
  <2>9. PICK r \in Requests, b \in Seq(Calls) : r = top.r /\ b = below
    BY <1>1, <2>4
  <2>10. /\ Over(r, outcome, b) /\ NoNewSender(b) /\ AbortRecorded(r, b)
         /\ ListenerClosed(r) /\ s' = s /\ state[r] # 2
    BY <1>1, <1>4, <2>2, <2>4, <2>6, <2>7, <2>8, <2>9 DEF Over, Set, AbortRecorded, ListenerClosed
  <2> QED
    BY <2>10, OverKeeps
<1>7. ASSUME SendAborted PROVE AjaxInv'
  <2>1. Over(top.r, "error", rest) /\ xhr' = xhr /\ transport[top.r] = "gone" /\ top.at = "ajaxSend"
    BY <1>7 DEF SendAborted, IsAt
  <2>2. abortedAtSend
    BY <1>1, <2>1, StackTop DEF AjaxInv, AjaxTypeOK, SenderKeeps
  <2>3. PICK r \in Requests, below \in Seq(Calls) : r = top.r /\ below = rest
    BY <1>1, <1>2
  <2>4. /\ Over(r, "error", below) /\ NoNewSender(below) /\ AbortRecorded(r, below)
        /\ ListenerClosed(r) /\ s' = s /\ (state[r] # 2 \/ abortedAtSend')
    BY <1>1, <1>2, <1>3, <1>4, <2>1, <2>2, <2>3 DEF Over, Set, AbortRecorded, ListenerClosed
  <2> QED
    BY <2>4, OverKeeps
<1> QED
  BY <1>5, <1>6, <1>7

\* The listener of a request that ends from outside is closed; the others stay.
LEMMA Closing ==
    ASSUME AjaxInv, NEW r \in Requests, NEW closing \in SUBSET Requests, Close(closing),
           closing = {r} \/ (closing = {} /\ ~callback[r])
    PROVE  ListenerClosed(r)
<1>1. /\ xhr' \in [Requests -> {"none", "open", "closed"}]
      /\ callback' \in [Requests -> BOOLEAN] /\ handle' \in [Requests -> BOOLEAN]
  BY DEF Close, AjaxInv, AjaxTypeOK
<1>2. ASSUME NEW q \in Requests
      PROVE  /\ callback'[q] => callback[q] /\ q # r
             /\ (xhr'[q] = "open") = callback'[q]
             /\ callback'[q] = handle'[q]
  <2>1. (xhr[q] = "open") = callback[q] /\ callback[q] = handle[q]
    BY DEF AjaxInv, NoneLeftOpen
  <2>2. /\ xhr'[q] = IF q \in closing THEN "closed" ELSE xhr[q]
        /\ callback'[q] = (callback[q] /\ q \notin closing)
        /\ handle'[q] = (handle[q] /\ q \notin closing)
    BY DEF Close
  <2> QED
    BY <2>1, <2>2
<1> QED
  BY <1>1, <1>2 DEF ListenerClosed

LEMMA StackStays == AjaxInv => stack \in Seq(Calls) /\ NoNewSender(stack)
  BY DEF AjaxInv, AjaxTypeOK, NoNewSender

\* What ends a request from outside, wherever it is.
LEMMA FromOutsideKeeps ==
    ASSUME AjaxInv, NEW r \in Requests, NEW outcome, Abort(r) \/ Timeout(r) \/ Answer(r, outcome)
    PROVE  AjaxInv'
<1>1. callback[r] => transport[r] = "ready"
  BY DEF AjaxInv, TransportsLive
<1> DEFINE closing == IF transport[r] = "ready" /\ callback[r] THEN {r} ELSE {}
<1>2. closing \in SUBSET Requests /\ (closing = {r} \/ (closing = {} /\ ~callback[r]))
  BY <1>1
<1>3. abortedAtSend \in BOOLEAN
  BY DEF AjaxInv, AjaxTypeOK
<1>4. ASSUME Abort(r) PROVE AjaxInv'
  <2>1. /\ Close(closing) /\ done(r, "error", stack) /\ UNCHANGED <<s, installed>>
        /\ AbortRecorded(r, stack)
    BY <1>3, <1>4 DEF Abort, abort, AbortRecorded
  <2> HIDE DEF closing
  <2>2. ListenerClosed(r) /\ stack \in Seq(Calls) /\ NoNewSender(stack)
    BY <1>2, <2>1, Closing, StackStays
  <2>3. PICK b \in Seq(Calls) : b = stack
    BY <2>2
  <2>4. done(r, "error", b) /\ AbortRecorded(r, b) /\ NoNewSender(b)
    BY <2>1, <2>2, <2>3 DEF done, Over, AbortRecorded
  <2> QED
    BY <2>1, <2>2, <2>4, DoneKeeps
<1>5. ASSUME Timeout(r) PROVE AjaxInv'
  <2>1. /\ Close(closing) /\ UNCHANGED <<s, installed>> /\ abortedAtSend' = abortedAtSend /\ stack = <<>>
    BY <1>5 DEF Timeout
  <2>2. DOMAIN stack = {} /\ AbortRecorded(r, stack)
    BY <1>3, <2>1 DEF AbortRecorded
  <2> HIDE DEF closing
  <2>3. CASE state[r] = 2
    <3>1. UNCHANGED <<state, transport, ends, stack>>
      BY <1>5, <2>3 DEF Timeout
    <3> QED
      BY <1>2, <2>1, <2>2, <3>1, Closing, ZenonT(90)
         DEF ListenerClosed, AjaxInv, AjaxTypeOK, OneSender, SenderKeeps, TransportsLive, EndsAreCounted, NoneLeftOpen
  <2>4. CASE state[r] # 2
    <3>1. Over(r, "error", stack)
      BY <1>5, <2>4 DEF Timeout
    <3> QED
      BY <1>2, <2>1, <2>2, <2>4, <3>1, Closing, StackStays, OverKeeps
  <2> QED
    BY <2>3, <2>4
<1>6. ASSUME Answer(r, outcome) PROVE AjaxInv'
  <2>1. /\ Close({r}) /\ done(r, outcome, stack)
        /\ UNCHANGED <<s, installed>> /\ abortedAtSend' = abortedAtSend /\ stack = <<>>
    BY <1>6 DEF Answer
  <2>2. AbortRecorded(r, stack) /\ {r} \in SUBSET Requests
    BY <1>3, <2>1 DEF AbortRecorded
  <2> QED
    <3>1. ListenerClosed(r) /\ stack \in Seq(Calls) /\ NoNewSender(stack)
      BY <2>1, <2>2, Closing, StackStays
    <3>2. PICK b \in Seq(Calls) : b = stack
      BY <3>1
    <3>3. done(r, outcome, b) /\ AbortRecorded(r, b) /\ NoNewSender(b)
      BY <2>1, <2>2, <3>1, <3>2 DEF done, Over, AbortRecorded
    <3> QED
      BY <2>1, <3>1, <3>3, DoneKeeps
<1> QED
  BY <1>4, <1>5, <1>6

LEMMA UnloadKeeps == ASSUME AjaxInv, Unload PROVE AjaxInv'
<1>1. /\ UNCHANGED <<one, ends, abortedAtSend, stack>> /\ Close({r \in Requests : handle[r]})
  BY DEF Unload, history
<1>2. \A r \in Requests : ~callback'[r] /\ ~handle'[r] /\ xhr'[r] # "open"
  BY <1>1 DEF Close, AjaxInv, NoneLeftOpen, AjaxTypeOK
<1>3. /\ xhr' \in [Requests -> {"none", "open", "closed"}]
      /\ callback' \in [Requests -> BOOLEAN] /\ handle' \in [Requests -> BOOLEAN]
  BY <1>1 DEF Close, AjaxInv, AjaxTypeOK
<1>4. AjaxTypeOK'
  BY <1>1, <1>3 DEF AjaxInv, AjaxTypeOK, one
<1>5. OneSender' /\ SenderKeeps'
  <2>1. \A n \in DOMAIN stack : stack[n].r \in Requests
    BY CallsOf DEF AjaxInv, AjaxTypeOK
  <2> QED
    BY <1>1, <1>2, <2>1 DEF AjaxInv, OneSender, SenderKeeps, one
<1>6. TransportsLive' /\ NoneLeftOpen'
  BY <1>1, <1>2, <1>4 DEF AjaxInv, AjaxTypeOK, TransportsLive, NoneLeftOpen, one
<1>7. EndsAreCounted'
  BY <1>1 DEF AjaxInv, EndsAreCounted, one
<1> QED
  BY <1>4, <1>5, <1>6, <1>7 DEF AjaxInv

LEMMA ThrowKeeps ==
    ASSUME AjaxInv, NEW depth \in 0..Len(stack) - 1, Throw(depth) PROVE AjaxInv'
<1>1. /\ UNCHANGED <<one, wire, ends, abortedAtSend>> /\ stack' = SubSeq(stack, 1, depth)
      /\ depth \in 0..Len(stack)
  BY DEF Throw, AjaxInv, AjaxTypeOK
<1>2. stack' \in Seq(Calls) /\ NoNewSender(stack')
  BY <1>1, StackCut DEF AjaxInv, AjaxTypeOK, NoNewSender
<1> QED
  BY <1>1, <1>2, OnlyStack

LEMMA AjaxStep == AjaxInv /\ [Next]_vars => AjaxInv'
<1> SUFFICES ASSUME AjaxInv, [Next]_vars PROVE AjaxInv'
  OBVIOUS
<1>1. CASE UNCHANGED vars
  BY <1>1, StackStays, OnlyStack DEF vars, history
<1>2. CASE Library
  BY <1>2, MovingOnKeeps, SendingKeeps, EndingKeeps DEF Library
<1>3. CASE Page
  BY <1>3, ajaxKeeps, FromOutsideKeeps, ThrowKeeps DEF Page
<1>4. CASE Browser
  BY <1>4, FromOutsideKeeps, UnloadKeeps DEF Browser
<1> QED
  BY <1>1, <1>2, <1>3, <1>4 DEF Next

LEMMA AjaxAlways == Spec => []AjaxInv
  BY AjaxInit, AjaxStep, PTL DEF Spec

-----------------------------------------------------------------------------

\* An open connection has its listener, which the unloading of the page will find, and
\* belongs to a request that is under way, whatever the functions of the page do and
\* wherever they throw (xhr.send and its callback, jquery.js 7196-7412).
THEOREM ListenersAreRight == Spec => []NoneLeftOpen
<1>1. AjaxInv => NoneLeftOpen
  BY DEF AjaxInv
<1> QED
  BY AjaxAlways, <1>1, PTL

\* A request is over at most once, unless it is aborted in its ajaxSend event (done,
\* jquery.js 6544-6640).
THEOREM RequestsEndOnce == Spec => []EndsOnce
<1>1. AjaxInv => EndsOnce
  <2> SUFFICES ASSUME AjaxInv, ~abortedAtSend, NEW r \in Requests PROVE ends[r] <= 1
    BY DEF EndsOnce
  <2> QED
    BY DEF AjaxInv, EndsAreCounted
<1> QED
  BY AjaxAlways, <1>1, PTL

-----------------------------------------------------------------------------
(* The counter of requests under way.                                             *)

\* The places of a request that is over, and still counted.
After == {"settle", "event", "complete", "ajaxComplete"}

Starting(r) == \E n \in DOMAIN stack : stack[n].r = r /\ stack[n].at \in Before
Ending(r)   == \E n \in DOMAIN stack : stack[n].r = r /\ stack[n].at \in After

\* What jQuery.active counts.
Counted == {r \in Requests : s[r].global /\ state[r] # -1 /\ (state[r] = 2 => Ending(r))}

\* A request ends in one call at most, and only when it is over.
OneEnding ==
    \A n \in DOMAIN stack : stack[n].at \in After =>
        /\ state[stack[n].r] = 2
        /\ stack[n].at = "ajaxComplete" => s[stack[n].r].global
        /\ \A m \in DOMAIN stack : stack[m].at \in After /\ stack[m].r = stack[n].r => m = n

Timers == BOOLEAN \union {settings.timeout : settings \in Settings \union {NoSettings}}

TimersAreSet == timeoutTimer \in [Requests -> Timers] /\ \A r \in Requests : timeoutTimer[r] => state[r] # -1

Busy == IF active > 0 THEN 1 ELSE 0

Tallied ==
    /\ IsFiniteSet(Counted) /\ active = Cardinality(Counted) /\ busy = Busy
    /\ OneEnding
    /\ \A r \in Requests : state[r] = 0 => Starting(r)

Quiet == ~threw /\ ~abortedAtSend

CountInv == AjaxInv /\ TimersAreSet /\ (Quiet => Tallied)

\* The positions of the stack, where a call gives way, goes, comes.
LEMMA TopGivesWay ==
    ASSUME AjaxTypeOK, stack # <<>>, NEW at, NEW code, stack' = Append(rest, At(top.r, at, code))
    PROVE  \E last \in DOMAIN stack :
               /\ DOMAIN stack' = DOMAIN stack
               /\ \A n \in DOMAIN stack : n # last => stack'[n] = stack[n]
               /\ stack[last] = top /\ stack'[last].r = top.r /\ stack'[last].at = at
<1>1. /\ Len(stack) \in DOMAIN stack /\ top = stack[Len(stack)] /\ rest \in Seq(Calls)
      /\ Len(rest) = Len(stack) - 1 /\ DOMAIN stack = 1..Len(stack) /\ Len(stack) \in Nat
      /\ \A n \in DOMAIN rest : rest[n] = stack[n]
  BY StackTop DEF AjaxTypeOK
<1>2. PICK c : c = At(top.r, at, code)
  OBVIOUS
<1>3. c.r = top.r /\ c.at = at
  BY <1>2 DEF At
<1>4. stack' = Append(rest, c)
  BY <1>2
<1>5. /\ DOMAIN stack' = 1..Len(stack) /\ stack'[Len(stack)] = c
      /\ \A n \in 1..Len(stack) - 1 : stack'[n] = rest[n] /\ n \in DOMAIN rest
  BY <1>1, <1>4
<1> QED
  BY <1>1, <1>3, <1>5

LEMMA TopGoes ==
    ASSUME AjaxTypeOK, stack # <<>>, stack' = rest
    PROVE  \E last \in DOMAIN stack :
               /\ DOMAIN stack' = DOMAIN stack \ {last}
               /\ \A n \in DOMAIN stack : n # last => stack'[n] = stack[n]
               /\ stack[last] = top
<1>1. /\ Len(stack) \in DOMAIN stack /\ top = stack[Len(stack)] /\ rest \in Seq(Calls)
      /\ DOMAIN rest = 1..Len(stack) - 1 /\ DOMAIN stack = 1..Len(stack) /\ Len(stack) \in Nat
      /\ \A n \in DOMAIN rest : rest[n] = stack[n]
  BY StackTop DEF AjaxTypeOK
<1>2. DOMAIN rest = DOMAIN stack \ {Len(stack)}
  BY <1>1
<1> QED
  BY <1>1, <1>2

LEMMA CallComes ==
    ASSUME AjaxTypeOK, NEW r, NEW at, NEW code, stack' = Append(stack, At(r, at, code))
    PROVE  \E new :
               /\ new \notin DOMAIN stack /\ DOMAIN stack' = DOMAIN stack \union {new}
               /\ \A n \in DOMAIN stack : stack'[n] = stack[n]
               /\ stack'[new].r = r /\ stack'[new].at = at
<1>1. PICK c : c = At(r, at, code)
  OBVIOUS
<1>2. c.r = r /\ c.at = at /\ stack' = Append(stack, c) /\ stack \in Seq(Calls)
  BY <1>1 DEF At, AjaxTypeOK
<1>3. /\ Len(stack) + 1 \notin DOMAIN stack /\ DOMAIN stack' = DOMAIN stack \union {Len(stack) + 1}
      /\ \A n \in DOMAIN stack : stack'[n] = stack[n]
      /\ stack'[Len(stack) + 1] = c
  BY <1>2
<1> QED
  BY <1>2, <1>3

\* The calls of requests that end, and of those that start, are the same.
LEMMA TallyStays ==
    ASSUME CountInv, Quiet, UNCHANGED <<s, active, busy>>,
           state' \in [Requests -> {-1, 0, 1, 2}],
           \A r \in Requests : state'[r] # state[r] => state[r] \in {0, 1} /\ state'[r] = 1,
           \A r \in Requests : Starting(r) /\ state'[r] = 0 => Starting(r)',
           \A r \in Requests : s[r].global => (Ending(r) <=> Ending(r)'),
           OneEnding'
    PROVE  Tallied'
<1>1. Tallied
  BY DEF CountInv
<1>2. ASSUME NEW r \in Requests PROVE r \in Counted' <=> r \in Counted
  BY DEF Counted
<1>3. Counted' = Counted
  BY <1>2 DEF Counted
<1>4. Busy' = Busy
  BY DEF Busy
<1>5. \A r \in Requests : state'[r] = 0 => Starting(r)'
  BY <1>1 DEF Tallied
<1> QED
  BY <1>1, <1>3, <1>4, <1>5 DEF Tallied

\* The request of the top call stays where it is: before it is sent, or while it ends.
LEMMA GivesWayTally ==
    ASSUME CountInv, Quiet, stack # <<>>, NEW at, NEW code, stack' = Append(rest, At(top.r, at, code)),
           \/ top.at \in Before /\ at \in Before
           \/ top.at \in After /\ at \in After /\ (at = "ajaxComplete" => s[top.r].global),
           UNCHANGED <<s, state, active, busy>>
    PROVE  Tallied'
<1>1. AjaxTypeOK /\ Tallied
  BY DEF CountInv, AjaxInv
<1>2. PICK last \in DOMAIN stack :
          /\ DOMAIN stack' = DOMAIN stack
          /\ \A n \in DOMAIN stack : n # last => stack'[n] = stack[n]
          /\ stack[last] = top /\ stack'[last].r = top.r /\ stack'[last].at = at
  BY <1>1, TopGivesWay
<1>3. \A n \in DOMAIN stack : /\ stack'[n].r = stack[n].r
                              /\ stack'[n].at \in Before <=> stack[n].at \in Before
                              /\ stack'[n].at \in After <=> stack[n].at \in After
  <2>1. \A place \in Before : place \notin After
    BY DEF Before, After
  <2> QED
    BY <1>2, <2>1
<1>4. \A r \in Requests : (Starting(r) <=> Starting(r)') /\ (Ending(r) <=> Ending(r)')
  BY <1>2, <1>3 DEF Starting, Ending
<1>5. OneEnding'
  <2>1. ASSUME NEW n \in DOMAIN stack', stack'[n].at \in After
        PROVE  /\ state'[stack'[n].r] = 2
               /\ \A m \in DOMAIN stack' : stack'[m].at \in After /\ stack'[m].r = stack'[n].r => m = n
    BY <1>1, <1>2, <1>3, <2>1 DEF Tallied, OneEnding
  <2>2. ASSUME NEW n \in DOMAIN stack', stack'[n].at \in After, stack'[n].at = "ajaxComplete"
        PROVE  s'[stack'[n].r].global
    <3>1. CASE n = last
      <4>1. "ajaxComplete" \notin Before
        BY DEF Before
      <4> QED
        BY <1>2, <2>2, <3>1, <4>1
    <3>2. CASE n # last
      BY <1>1, <1>2, <2>2, <3>2 DEF Tallied, OneEnding
    <3> QED
      BY <3>1, <3>2
  <2> QED
    BY <2>1, <2>2 DEF OneEnding
<1> QED
  BY <1>1, <1>4, <1>5, TallyStays DEF AjaxTypeOK

\* The top call goes: its request has been sent, is over, or is none that is counted.
LEMMA GoesTally ==
    ASSUME CountInv, Quiet, stack # <<>>, stack' = rest,
           top.at \in Before => state'[top.r] # 0,
           top.at \in After => ~s[top.r].global,
           state' \in [Requests -> {-1, 0, 1, 2}],
           \A r \in Requests : state'[r] # state[r] => state[r] \in {0, 1} /\ state'[r] = 1,
           UNCHANGED <<s, active, busy>>
    PROVE  Tallied'
<1>1. AjaxTypeOK /\ Tallied
  BY DEF CountInv, AjaxInv
<1>2. PICK last \in DOMAIN stack :
          /\ DOMAIN stack' = DOMAIN stack \ {last}
          /\ \A n \in DOMAIN stack : n # last => stack'[n] = stack[n]
          /\ stack[last] = top
  BY <1>1, TopGoes
<1>3. \A r \in Requests : Starting(r) /\ state'[r] = 0 => Starting(r)'
  BY <1>2 DEF Starting
<1>4. \A r \in Requests : s[r].global => (Ending(r) <=> Ending(r)')
  BY <1>2 DEF Ending
<1>5. OneEnding'
  <2>1. \A n \in DOMAIN stack : stack[n].r \in Requests
    BY <1>1, CallsOf DEF AjaxTypeOK
  <2> QED
    BY <1>1, <1>2, <2>1 DEF Tallied, OneEnding
<1> QED
  BY <1>3, <1>4, <1>5, TallyStays

\* A request is over, in a call that comes on top of those that are there.
LEMMA OverTally ==
    ASSUME CountInv, Quiet, NEW r \in Requests, state[r] \in {0, 1}, state' = [state EXCEPT ![r] = 2],
           NEW new \in DOMAIN stack', stack'[new].r = r, stack'[new].at = "settle",
           \A n \in DOMAIN stack' : n # new /\ stack'[n].at \in After => n \in DOMAIN stack /\ stack'[n] = stack[n],
           \A n \in DOMAIN stack : stack[n].at \in After => n \in DOMAIN stack' /\ n # new /\ stack'[n] = stack[n],
           \A q \in Requests : q # r /\ Starting(q) => Starting(q)',
           UNCHANGED <<s, active, busy>>
    PROVE  Tallied'
<1>1. AjaxTypeOK /\ Tallied
  BY DEF CountInv, AjaxInv
<1>2. \A n \in DOMAIN stack : stack[n].r \in Requests
  BY <1>1, CallsOf DEF AjaxTypeOK
<1>3. state'[r] = 2 /\ \A q \in Requests : q # r => state'[q] = state[q]
  BY <1>1 DEF AjaxTypeOK
<1>4. "settle" \in After /\ "settle" # "ajaxComplete"
  BY DEF After
<1>5. Ending(r)' /\ \A q \in Requests : q # r => (Ending(q) <=> Ending(q)')
  <2>1. Ending(r)'
    BY <1>4 DEF Ending
  <2>2. ASSUME NEW q \in Requests, q # r PROVE Ending(q) <=> Ending(q)'
    BY <2>2 DEF Ending
  <2> QED
    BY <2>1, <2>2
<1>6. \A n \in DOMAIN stack : stack[n].at \in After => stack[n].r # r /\ state[stack[n].r] = 2
  BY <1>1 DEF Tallied, OneEnding
<1>7. OneEnding'
  <2>1. ASSUME NEW n \in DOMAIN stack', stack'[n].at \in After
        PROVE  /\ state'[stack'[n].r] = 2
               /\ stack'[n].at = "ajaxComplete" => s'[stack'[n].r].global
    <3>1. CASE n = new
      BY <1>3, <1>4, <3>1
    <3>2. CASE n # new
      BY <1>1, <1>2, <1>3, <1>6, <2>1, <3>2 DEF Tallied, OneEnding
    <3> QED
      BY <3>1, <3>2
  <2>2. ASSUME NEW n \in DOMAIN stack', stack'[n].at \in After,
               NEW m \in DOMAIN stack', stack'[m].at \in After, stack'[m].r = stack'[n].r
        PROVE  m = n
    <3>1. CASE m = new \/ n = new
      BY <1>6, <2>2, <3>1
    <3>2. CASE m # new /\ n # new
      BY <1>1, <2>2, <3>2 DEF Tallied, OneEnding
    <3> QED
      BY <3>1, <3>2
  <2> QED
    BY <2>1, <2>2 DEF OneEnding
<1>8. Counted' = Counted
  <2>1. ASSUME NEW q \in Requests PROVE q \in Counted' <=> q \in Counted
    BY <1>3, <1>5 DEF Counted
  <2> QED
    BY <2>1 DEF Counted
<1>9. \A q \in Requests : state'[q] = 0 => Starting(q)'
  BY <1>1, <1>3 DEF Tallied
<1>10. Busy' = Busy
  BY DEF Busy
<1> QED
  BY <1>1, <1>7, <1>8, <1>9, <1>10 DEF Tallied

LEMMA CountInit == Init => CountInv
<1> SUFFICES ASSUME Init PROVE CountInv
  OBVIOUS
<1>1. AjaxInv
  BY AjaxInit
<1>2. TimersAreSet
  BY DEF Init, For, TimersAreSet, Timers
<1>3. DOMAIN stack = {} /\ \A r \in Requests : state[r] = -1
  BY DEF Init, For
<1>4. Counted = {} /\ OneEnding
  BY <1>3 DEF Counted, OneEnding
<1>5. IsFiniteSet(Counted) /\ Cardinality(Counted) = 0
  BY <1>4, FS_EmptySet
<1>6. Tallied
  BY <1>3, <1>4, <1>5 DEF Init, Tallied, Busy
<1> QED
  BY <1>1, <1>2, <1>6 DEF CountInv

\* A timer is set only for a request that is made.
LEMMA TimersStay ==
    ASSUME TimersAreSet, \A r \in Requests : state[r] # -1 => state'[r] # -1,
           \/ timeoutTimer' = timeoutTimer
           \/ \E r \in Requests, x \in Timers :
                 timeoutTimer' = [timeoutTimer EXCEPT ![r] = x] /\ (x => state'[r] # -1)
    PROVE  TimersAreSet'
<1>1. CASE timeoutTimer' = timeoutTimer
  BY <1>1 DEF TimersAreSet
<1>2. ASSUME NEW r \in Requests, NEW x \in Timers,
             timeoutTimer' = [timeoutTimer EXCEPT ![r] = x], x => state'[r] # -1
      PROVE  TimersAreSet'
  <2>1. /\ timeoutTimer' \in [Requests -> Timers] /\ timeoutTimer'[r] = x
        /\ \A q \in Requests : q # r => timeoutTimer'[q] = timeoutTimer[q]
    BY <1>2 DEF TimersAreSet
  <2> QED
    BY <1>2, <2>1 DEF TimersAreSet
<1> QED
  BY <1>1, <1>2

LEMMA OverTimers ==
    ASSUME AjaxTypeOK, TimersAreSet, NEW r \in Requests, NEW outcome, NEW below, Over(r, outcome, below)
    PROVE  TimersAreSet'
<1>1. state' = [state EXCEPT ![r] = 2] /\ timeoutTimer' = [timeoutTimer EXCEPT ![r] = FALSE]
  BY DEF Over, Set
<1>2. \A q \in Requests : state[q] # -1 => state'[q] # -1
  BY <1>1 DEF AjaxTypeOK
<1>3. FALSE \in Timers
  BY DEF Timers
<1> QED
  BY <1>1, <1>2, <1>3, TimersStay

LEMMA DoneTimers ==
    ASSUME AjaxTypeOK, TimersAreSet, NEW r \in Requests, NEW outcome, NEW below, done(r, outcome, below)
    PROVE  TimersAreSet'
<1>1. CASE state[r] = 2
  BY <1>1 DEF done, TimersAreSet
<1>2. CASE state[r] # 2
  BY <1>2, OverTimers DEF done
<1> QED
  BY <1>1, <1>2

\* ajax makes a request, counted if it is global.
LEMMA ajaxTally ==
    ASSUME CountInv, NEW r \in Requests, NEW settings \in Settings, ajax(r, settings)
    PROVE  TimersAreSet' /\ (Quiet' => Tallied')
<1>1. /\ state[r] = -1 /\ state' = [state EXCEPT ![r] = 0] /\ s' = [s EXCEPT ![r] = settings]
      /\ active' = (IF settings.global THEN active + 1 ELSE active)
      /\ busy' = (IF settings.global /\ active = 0 THEN busy + 1 ELSE busy)
      /\ UNCHANGED <<timeoutTimer, threw, abortedAtSend>>
  BY DEF ajax, Set, wire
<1>2. AjaxTypeOK /\ TimersAreSet
  BY DEF CountInv, AjaxInv
<1>3. /\ state'[r] = 0 /\ s'[r] = settings
      /\ \A q \in Requests : q # r => state'[q] = state[q] /\ s'[q] = s[q]
  BY <1>1, <1>2 DEF AjaxTypeOK
<1>4. TimersAreSet'
  BY <1>1, <1>2, <1>3, TimersStay
<1>5. ASSUME Quiet' PROVE Tallied'
  <2>1. Tallied
    BY <1>1, <1>5 DEF CountInv, Quiet
  <2>2. PICK code : stack' = Append(stack, At(r, "start", code))
    BY DEF ajax
  <2>3. PICK new :
            /\ new \notin DOMAIN stack /\ DOMAIN stack' = DOMAIN stack \union {new}
            /\ \A n \in DOMAIN stack : stack'[n] = stack[n]
            /\ stack'[new].r = r /\ stack'[new].at = "start"
    BY <1>2, <2>2, CallComes
  <2>4. "start" \in Before /\ "start" \notin After
    BY DEF Before, After
  <2>5. /\ \A q \in Requests : Starting(q) => Starting(q)'
        /\ \A q \in Requests : Ending(q) <=> Ending(q)'
        /\ Starting(r)'
    BY <2>3, <2>4 DEF Starting, Ending
  <2>6. \A n \in DOMAIN stack : stack[n].r \in Requests
    BY <1>2, CallsOf DEF AjaxTypeOK
  <2>7. OneEnding'
    BY <1>1, <1>3, <2>1, <2>3, <2>4, <2>6 DEF Tallied, OneEnding
  <2>8. \A q \in Requests : state'[q] = 0 => Starting(q)'
    BY <1>3, <2>1, <2>5 DEF Tallied
  <2>9. r \notin Counted /\ Counted' = IF settings.global THEN Counted \union {r} ELSE Counted
    <3>1. ASSUME NEW q \in Requests, q # r PROVE q \in Counted' <=> q \in Counted
      BY <1>3, <2>5, <3>1 DEF Counted
    <3>2. r \notin Counted /\ (r \in Counted' <=> settings.global)
      BY <1>1, <1>3 DEF Counted
    <3>3. Counted \subseteq Requests /\ Counted' \subseteq Requests
      BY DEF Counted
    <3> QED
      BY <3>1, <3>2, <3>3
  <2>10. IsFiniteSet(Counted) /\ active = Cardinality(Counted) /\ active \in Nat /\ busy = Busy
    BY <2>1, FS_CardinalityType DEF Tallied
  <2>11. IsFiniteSet(Counted') /\ active' = Cardinality(Counted')
    <3>1. CASE settings.global
      BY <1>1, <2>9, <2>10, <3>1, FS_AddElement
    <3>2. CASE ~settings.global
      BY <1>1, <2>9, <2>10, <3>2
    <3> QED
      BY <3>1, <3>2
  <2>12. busy' = Busy'
    <3>1. CASE settings.global
      BY <1>1, <2>10, <3>1 DEF Busy
    <3>2. CASE ~settings.global
      BY <1>1, <2>10, <3>2 DEF Busy
    <3> QED
      BY <3>1, <3>2
  <2> QED
    BY <2>7, <2>8, <2>11, <2>12 DEF Tallied
<1> QED
  BY <1>4, <1>5

\* The end of a counted request, and with it of ajaxStop.
LEMMA AjaxCompleteTally ==
    ASSUME CountInv, AfterAjaxComplete
    PROVE  TimersAreSet' /\ (Quiet' => Tallied')
<1>1. /\ stack # <<>> /\ top.at = "ajaxComplete" /\ active' = active - 1
      /\ busy' = (IF active = 1 THEN busy - 1 ELSE busy)
      /\ UNCHANGED <<s, state, timeoutTimer, threw, abortedAtSend>>
  BY DEF AfterAjaxComplete, IsAt, one, wire
<1>2. TimersAreSet' /\ AjaxTypeOK
  BY <1>1 DEF CountInv, AjaxInv, TimersAreSet
<1>3. ASSUME Quiet' PROVE Tallied'
  <2>1. Tallied
    BY <1>1, <1>3 DEF CountInv, Quiet
  <2>2. PICK code : stack' = Append(rest, At(top.r, "stop", code))
    BY DEF AfterAjaxComplete
  <2>3. PICK last \in DOMAIN stack :
            /\ DOMAIN stack' = DOMAIN stack
            /\ \A n \in DOMAIN stack : n # last => stack'[n] = stack[n]
            /\ stack[last] = top /\ stack'[last].r = top.r /\ stack'[last].at = "stop"
    BY <1>1, <1>2, <2>2, TopGivesWay
  <2>4. "ajaxComplete" \in After /\ "ajaxComplete" \notin Before /\ "stop" \notin After
    BY DEF Before, After
  <2>5. /\ top.r \in Requests /\ s[top.r].global /\ state[top.r] = 2
        /\ \A n \in DOMAIN stack : stack[n].at \in After /\ stack[n].r = top.r => n = last
    BY <1>1, <1>2, <2>1, <2>3, <2>4, CallsOf DEF Tallied, OneEnding, AjaxTypeOK
  <2>6. PICK r \in Requests : r = top.r
    BY <2>5
  <2>7. Ending(r) /\ ~Ending(r)' /\ \A q \in Requests : q # r => (Ending(q) <=> Ending(q)')
    <3>1. Ending(r)
      BY <1>1, <2>3, <2>4, <2>6 DEF Ending
    <3>2. ~Ending(r)'
      BY <2>3, <2>4, <2>5, <2>6 DEF Ending
    <3>3. \A q \in Requests : q # r => (Ending(q) <=> Ending(q)')
      BY <2>3, <2>6 DEF Ending
    <3> QED
      BY <3>1, <3>2, <3>3
  <2>8. r \in Counted /\ Counted' = Counted \ {r}
    <3>1. r \in Counted /\ r \notin Counted'
      BY <1>1, <2>5, <2>6, <2>7 DEF Counted
    <3>2. ASSUME NEW q \in Requests, q # r PROVE q \in Counted' <=> q \in Counted
      BY <1>1, <2>7, <3>2 DEF Counted
    <3>3. Counted \subseteq Requests /\ Counted' \subseteq Requests
      BY DEF Counted
    <3> QED
      BY <3>1, <3>2, <3>3
  <2>9. IsFiniteSet(Counted) /\ active = Cardinality(Counted) /\ active \in Nat /\ active # 0 /\ busy = Busy
    BY <2>1, <2>8, FS_CardinalityType, FS_EmptySet DEF Tallied
  <2>10. IsFiniteSet(Counted') /\ active' = Cardinality(Counted')
    BY <1>1, <2>8, <2>9, FS_RemoveElement
  <2>11. busy' = Busy'
    BY <1>1, <2>9 DEF Busy
  <2>12. OneEnding'
    BY <1>1, <2>1, <2>3, <2>4 DEF Tallied, OneEnding
  <2>13. \A q \in Requests : state'[q] = 0 => Starting(q)'
    <3>1. \A q \in Requests : Starting(q) => Starting(q)'
      BY <1>1, <2>3, <2>4 DEF Starting
    <3> QED
      BY <1>1, <2>1, <3>1 DEF Tallied
  <2> QED
    BY <2>10, <2>11, <2>12, <2>13 DEF Tallied
<1> QED
  BY <1>2, <1>3

\* The calls that move on.
LEMMA MovingOnTally ==
    ASSUME CountInv, AfterStart \/ AfterSettle \/ AfterEvent \/ AfterComplete \/ Leave \/ AfterBeforeSend
    PROVE  TimersAreSet' /\ (Quiet' => Tallied')
<1>1. /\ stack # <<>> /\ UNCHANGED <<s, state, timeoutTimer, active, busy, threw, abortedAtSend>>
  BY DEF AfterStart, AfterSettle, AfterEvent, AfterComplete, Leave, AfterBeforeSend, IsAt, one, wire, history
<1>2. TimersAreSet' /\ state' \in [Requests -> {-1, 0, 1, 2}]
  BY <1>1 DEF CountInv, TimersAreSet, AjaxInv, AjaxTypeOK
<1>3. ASSUME Quiet', NEW at, NEW code, stack' = Append(rest, At(top.r, at, code)),
             \/ top.at \in Before /\ at \in Before
             \/ top.at \in After /\ at \in After /\ (at = "ajaxComplete" => s[top.r].global)
      PROVE  Tallied'
  BY <1>1, <1>3, GivesWayTally DEF Quiet
<1>4. CASE AfterStart
  <2>1. top.at \in Before /\ "beforeSend" \in Before
    BY <1>4 DEF AfterStart, IsAt, Before
  <2> QED
    BY <1>2, <1>3, <1>4, <2>1 DEF AfterStart
<1>5. CASE AfterBeforeSend
  <2>1. top.at \in Before /\ "ajaxSend" \in Before
    BY <1>5 DEF AfterBeforeSend, IsAt, Before
  <2> QED
    BY <1>2, <1>3, <1>5, <2>1 DEF AfterBeforeSend
<1>6. CASE AfterSettle
  <2>1. top.at \in After /\ "event" \in After /\ "event" # "ajaxComplete"
    BY <1>6 DEF AfterSettle, IsAt, After
  <2> QED
    BY <1>2, <1>3, <1>6, <2>1 DEF AfterSettle
<1>7. CASE AfterEvent
  <2>1. top.at \in After /\ "complete" \in After /\ "complete" # "ajaxComplete"
    BY <1>7 DEF AfterEvent, IsAt, After
  <2> QED
    BY <1>2, <1>3, <1>7, <2>1 DEF AfterEvent
<1>8. CASE AfterComplete
  <2>1. top.at \in After /\ "ajaxComplete" \in After /\ top.at \notin Before
    BY <1>8 DEF AfterComplete, IsAt, After, Before
  <2>2. CASE s[top.r].global
    BY <1>2, <1>3, <1>8, <2>1, <2>2 DEF AfterComplete
  <2>3. CASE ~s[top.r].global
    BY <1>1, <1>2, <1>8, <2>1, <2>3, GoesTally DEF AfterComplete, Quiet
  <2> QED
    BY <2>2, <2>3
<1>9. CASE Leave
  <2>1. top.at \notin After /\ top.at \notin Before
    BY <1>9 DEF Leave, IsAt, After, Before
  <2> QED
    BY <1>1, <1>2, <1>9, <2>1, GoesTally DEF Leave, Quiet
<1> QED
  BY <1>4, <1>5, <1>6, <1>7, <1>8, <1>9

\* A request is sent.
LEMMA SendTally ==
    ASSUME CountInv, Send
    PROVE  TimersAreSet' /\ (Quiet' => Tallied')
<1>1. AjaxTypeOK /\ stack # <<>> /\ top.at = "ajaxSend"
  BY DEF Send, IsAt, CountInv, AjaxInv
<1>2. PICK r \in Requests : r = top.r
  BY <1>1, StackTop DEF AjaxTypeOK, Calls
<1>3. /\ transport[r] = "ready" /\ state' = [state EXCEPT ![r] = 1] /\ stack' = rest
      /\ timeoutTimer' = [timeoutTimer EXCEPT ![r] = s[r].timeout]
      /\ UNCHANGED <<s, active, busy, threw, abortedAtSend>>
  BY <1>2 DEF Send, Set, history
<1>4. state[r] \in {0, 1}
  BY <1>3 DEF CountInv, AjaxInv, TransportsLive
<1>5. /\ state' \in [Requests -> {-1, 0, 1, 2}] /\ state'[r] = 1
      /\ \A q \in Requests : q # r => state'[q] = state[q]
  BY <1>1, <1>3 DEF AjaxTypeOK
<1>6. s[r].timeout \in Timers
  <2>1. PICK x \in Settings \union {NoSettings} : x = s[r]
    BY <1>1 DEF AjaxTypeOK
  <2>2. x.timeout \in Timers
    BY DEF Timers
  <2> QED
    BY <2>1, <2>2
<1>7. TimersAreSet'
  <2>1. PICK x \in Timers : x = s[r].timeout
    BY <1>6
  <2>2. timeoutTimer' = [timeoutTimer EXCEPT ![r] = x] /\ (x => state'[r] # -1)
    BY <1>3, <1>5, <2>1
  <2>3. \A q \in Requests : state[q] # -1 => state'[q] # -1
    BY <1>5
  <2> QED
    BY <2>2, <2>3, TimersStay DEF CountInv
<1>8. "ajaxSend" \notin After
  BY DEF After
<1>9. Quiet' => Tallied'
  BY <1>1, <1>2, <1>3, <1>4, <1>5, <1>8, GoesTally DEF Quiet
<1> QED
  BY <1>7, <1>9

\* What ends a request whose call is on top.
LEMMA EndingTally ==
    ASSUME CountInv, NEW outcome, Refused \/ SendSync(outcome) \/ SendAborted
    PROVE  TimersAreSet' /\ (Quiet' => Tallied')
<1>1. /\ AjaxTypeOK /\ TimersAreSet /\ stack # <<>> /\ top.at \in Before /\ top.at \notin After
      /\ UNCHANGED <<s, active, busy, threw, abortedAtSend>>
  BY DEF Refused, SendSync, SendAborted, IsAt, Before, After, CountInv, AjaxInv
<1>2. PICK r \in Requests : r = top.r
  BY <1>1, StackTop DEF AjaxTypeOK, Calls
<1>3. state[r] # -1
  BY <1>1, <1>2, OthersDoNotSend DEF CountInv
<1>4. ASSUME Over(r, outcome, rest) \/ Over(r, "error", rest), state[r] # 2
      PROVE  TimersAreSet' /\ (Quiet' => Tallied')
  <2>1. TimersAreSet'
    BY <1>1, <1>4, OverTimers
  <2>2. PICK code : stack' = Append(rest, At(top.r, "settle", code))
    BY <1>2, <1>4 DEF Over
  <2>3. PICK last \in DOMAIN stack :
            /\ DOMAIN stack' = DOMAIN stack
            /\ \A n \in DOMAIN stack : n # last => stack'[n] = stack[n]
            /\ stack[last] = top /\ stack'[last].r = top.r /\ stack'[last].at = "settle"
    BY <1>1, <2>2, TopGivesWay
  <2>4. state' = [state EXCEPT ![r] = 2] /\ state[r] \in {0, 1}
    BY <1>1, <1>3, <1>4 DEF Over, Set, AjaxTypeOK
  <2>5. \A q \in Requests : q # r /\ Starting(q) => Starting(q)'
    BY <1>2, <2>3 DEF Starting
  <2>6. Quiet' => Tallied'
    BY <1>1, <1>2, <2>3, <2>4, <2>5, OverTally DEF Quiet
  <2> QED
    BY <2>1, <2>6
<1>5. CASE Refused
  <2>1. CASE state[r] = 2
    <3>1. stack' = rest /\ UNCHANGED <<state, timeoutTimer>>
      BY <1>2, <1>5, <2>1 DEF Refused, done
    <3>2. TimersAreSet' /\ state' \in [Requests -> {-1, 0, 1, 2}] /\ state'[top.r] # 0
      BY <1>1, <1>2, <2>1, <3>1 DEF TimersAreSet, AjaxTypeOK
    <3> QED
      BY <1>1, <3>1, <3>2, GoesTally DEF Quiet
  <2>2. CASE state[r] # 2
    <3>1. Over(r, "error", rest)
      BY <1>2, <1>5, <2>2 DEF Refused, done, Over, Set
    <3> QED
      BY <1>4, <2>2, <3>1
  <2> QED
    BY <2>1, <2>2
<1>6. CASE SendAborted
  <2>1. top.at = "ajaxSend" /\ transport[r] = "gone" /\ Over(r, "error", rest)
    BY <1>2, <1>6 DEF SendAborted, IsAt, Over, Set
  <2>2. abortedAtSend
    BY <1>1, <1>2, <2>1, StackTop DEF CountInv, AjaxInv, SenderKeeps, AjaxTypeOK
  <2>3. TimersAreSet'
    BY <1>1, <2>1, OverTimers
  <2> QED
    BY <1>1, <2>2, <2>3 DEF Quiet
<1>7. CASE SendSync(outcome)
  <2>1. transport[r] = "ready" /\ Over(r, outcome, Append(rest, At(r, "send", FALSE)))
    BY <1>2, <1>7 DEF SendSync, Over, Set
  <2>2. state[r] \in {0, 1}
    BY <2>1 DEF CountInv, AjaxInv, TransportsLive
  <2>3. TimersAreSet' /\ state' = [state EXCEPT ![r] = 2]
    BY <1>1, <2>1, OverTimers DEF Over, Set
  <2>4. PICK code : stack' = Append(Append(rest, At(r, "send", FALSE)), At(r, "settle", code))
    BY <2>1 DEF Over
  <2>5. PICK c, d : c = At(r, "send", FALSE) /\ d = At(r, "settle", code)
    OBVIOUS
  <2>6. c.at = "send" /\ d.at = "settle" /\ d.r = r
    BY <2>5 DEF At
  <2>7. /\ Len(stack) \in DOMAIN stack /\ top = stack[Len(stack)] /\ rest \in Seq(Calls)
        /\ Len(rest) = Len(stack) - 1 /\ DOMAIN stack = 1..Len(stack) /\ Len(stack) \in Nat
        /\ \A n \in DOMAIN rest : rest[n] = stack[n]
    BY <1>1, StackTop DEF AjaxTypeOK
  <2>8. PICK mid : mid = Append(rest, c)
    OBVIOUS
  <2>9. /\ DOMAIN mid = 1..Len(stack) /\ Len(mid) = Len(stack) /\ mid[Len(stack)] = c
        /\ \A n \in 1..Len(stack) - 1 : mid[n] = stack[n]
        /\ mid \in Seq(Calls \union {c})
    BY <2>7, <2>8
  <2>10. stack' = Append(mid, d)
    BY <2>4, <2>5, <2>8
  <2>11. /\ DOMAIN stack' = 1..(Len(stack) + 1) /\ stack'[Len(stack) + 1] = d
         /\ \A n \in 1..Len(stack) : stack'[n] = mid[n]
    BY <2>7, <2>9, <2>10
  <2>12. "send" \notin After /\ "send" \notin Before
    BY DEF After, Before
  <2>13. \A n \in DOMAIN stack' : n # Len(stack) + 1 /\ stack'[n].at \in After => n \in DOMAIN stack /\ stack'[n] = stack[n]
    BY <2>6, <2>7, <2>9, <2>11, <2>12
  <2>14. \A n \in DOMAIN stack : n # Len(stack) => n \in DOMAIN stack' /\ n # Len(stack) + 1 /\ stack'[n] = stack[n]
    BY <2>7, <2>9, <2>11
  <2>15. \A q \in Requests : q # r /\ Starting(q) => Starting(q)'
    BY <1>2, <2>7, <2>14 DEF Starting
  <2>16. Len(stack) + 1 \in DOMAIN stack'
    BY <2>7, <2>11
  <2>17. PICK new \in DOMAIN stack' : new = Len(stack) + 1
    BY <2>16
  <2>18. stack'[new].r = r /\ stack'[new].at = "settle"
    BY <2>6, <2>11, <2>17
  <2>19. /\ \A n \in DOMAIN stack' : n # new /\ stack'[n].at \in After => n \in DOMAIN stack /\ stack'[n] = stack[n]
         /\ \A n \in DOMAIN stack : stack[n].at \in After => n \in DOMAIN stack' /\ n # new /\ stack'[n] = stack[n]
    BY <1>1, <2>7, <2>13, <2>14, <2>17
  <2>20. Quiet' => Tallied'
    BY <1>1, <2>2, <2>3, <2>15, <2>18, <2>19, OverTally DEF Quiet
  <2> QED
    BY <2>3, <2>20
<1> QED
  BY <1>5, <1>6, <1>7

\* What ends a request from outside.
LEMMA OutsideTally ==
    ASSUME CountInv, NEW r \in Requests, NEW outcome, Abort(r) \/ Timeout(r) \/ Answer(r, outcome)
    PROVE  TimersAreSet' /\ (Quiet' => Tallied')
<1>1. AjaxTypeOK /\ TimersAreSet
  BY DEF CountInv, AjaxInv
<1>2. /\ UNCHANGED <<s, active, busy, threw>> /\ (abortedAtSend => abortedAtSend')
  <2>1. UNCHANGED <<s, active, busy, threw>>
    BY DEF Abort, abort, Timeout, Answer
  <2>2. abortedAtSend => abortedAtSend'
    BY <1>1, Zenon DEF Abort, Timeout, Answer
  <2> QED
    BY <2>1, <2>2
<1>3. Quiet' => Quiet
  BY <1>2 DEF Quiet
<1>4. state[r] # -1
  <2>1. CASE Abort(r)
    BY <2>1 DEF Abort
  <2>2. CASE Timeout(r)
    BY <1>1, <2>2 DEF Timeout, TimersAreSet
  <2>3. CASE Answer(r, outcome)
    BY <2>3 DEF Answer, CountInv, AjaxInv, NoneLeftOpen
  <2> QED
    BY <2>1, <2>2, <2>3
<1>5. ASSUME NEW o, Over(r, o, stack), state[r] # 2 PROVE TimersAreSet' /\ (Quiet' => Tallied')
  <2>1. TimersAreSet' /\ state' = [state EXCEPT ![r] = 2] /\ state[r] \in {0, 1}
    BY <1>1, <1>4, <1>5, OverTimers DEF Over, Set, AjaxTypeOK
  <2>2. PICK code : stack' = Append(stack, At(r, "settle", code))
    BY <1>5 DEF Over
  <2>3. PICK new :
            /\ new \notin DOMAIN stack /\ DOMAIN stack' = DOMAIN stack \union {new}
            /\ \A n \in DOMAIN stack : stack'[n] = stack[n]
            /\ stack'[new].r = r /\ stack'[new].at = "settle"
    BY <1>1, <2>2, CallComes
  <2>4. \A q \in Requests : q # r /\ Starting(q) => Starting(q)'
    BY <2>3 DEF Starting
  <2>5. new \in DOMAIN stack'
    BY <2>3
  <2>6. Quiet' => Tallied'
    BY <1>2, <1>3, <2>1, <2>3, <2>4, <2>5, OverTally
  <2> QED
    BY <2>1, <2>6
<1>6. ASSUME state[r] = 2, UNCHANGED <<state, stack>>,
             timeoutTimer' = timeoutTimer \/ timeoutTimer' = [timeoutTimer EXCEPT ![r] = FALSE]
      PROVE  TimersAreSet' /\ (Quiet' => Tallied')
  <2>1. TimersAreSet'
    <3>1. FALSE \in Timers
      BY DEF Timers
    <3> QED
      BY <1>1, <1>6, <3>1, TimersStay
  <2>2. Tallied => Tallied'
    BY <1>2, <1>6 DEF Tallied, OneEnding, Counted, Busy, Starting, Ending
  <2> QED
    BY <1>3, <2>1, <2>2 DEF CountInv
<1>7. CASE state[r] = 2
  BY <1>6, <1>7 DEF Abort, abort, Timeout, Answer, done, Set
<1>8. CASE state[r] # 2
  BY <1>5, <1>8 DEF Abort, abort, Timeout, Answer, done
<1> QED
  BY <1>7, <1>8

LEMMA CountStep == CountInv /\ [Next]_vars => CountInv'
<1> SUFFICES ASSUME CountInv, [Next]_vars PROVE TimersAreSet' /\ (Quiet' => Tallied')
  BY AjaxStep DEF CountInv
<1>1. CASE UNCHANGED vars \/ Unload
  <2>1. UNCHANGED <<s, state, timeoutTimer, stack, active, busy, threw, abortedAtSend>>
    BY <1>1 DEF vars, one, wire, history, Unload
  <2>2. TimersAreSet'
    BY <2>1 DEF CountInv, TimersAreSet
  <2>3. Tallied => Tallied'
    BY <2>1 DEF Tallied, OneEnding, Counted, Busy, Starting, Ending
  <2> QED
    BY <2>1, <2>2, <2>3 DEF CountInv, Quiet
<1>2. CASE Library
  BY <1>2, MovingOnTally, SendTally, EndingTally, AjaxCompleteTally DEF Library
<1>3. ASSUME NEW depth \in 0..Len(stack) - 1, Throw(depth) PROVE TimersAreSet' /\ ~Quiet'
  BY <1>3 DEF Throw, one, wire, CountInv, TimersAreSet, Quiet
<1>4. CASE Page
  BY <1>3, <1>4, ajaxTally, OutsideTally DEF Page
<1>5. CASE Browser
  BY <1>1, <1>5, OutsideTally DEF Browser
<1> QED
  BY <1>1, <1>2, <1>4, <1>5 DEF Next

LEMMA CountAlways == Spec => []CountInv
  BY CountInit, CountStep, PTL DEF Spec

-----------------------------------------------------------------------------

\* When no call is active, the counter tells how many global requests are under way, unless
\* a function threw or aborted a request in its ajaxSend event (jQuery.active, jquery.js
\* 6658-6661 and 6637-6640).
THEOREM CounterIsRight == Spec => []ActiveIsRight
<1>1. CountInv => ActiveIsRight
  <2> SUFFICES ASSUME CountInv, stack = <<>>, Quiet
               PROVE  active = Cardinality({r \in Requests : state[r] = 1 /\ s[r].global})
    BY DEF ActiveIsRight, Quiet
  <2>1. Tallied /\ state \in [Requests -> {-1, 0, 1, 2}] /\ DOMAIN stack = {}
    BY DEF CountInv, AjaxInv, AjaxTypeOK
  <2>2. \A r \in Requests : ~Starting(r) /\ ~Ending(r)
    BY <2>1 DEF Starting, Ending
  <2>3. \A r \in Requests : state[r] # 0
    BY <2>1, <2>2 DEF Tallied
  <2>4. Counted = {r \in Requests : state[r] = 1 /\ s[r].global}
    BY <2>1, <2>2, <2>3 DEF Counted
  <2> QED
    BY <2>1, <2>4 DEF Tallied
<1> QED
  BY CountAlways, <1>1, PTL

\* The events ajaxStart and ajaxStop alternate, and the last of them was ajaxStart if and
\* only if something is counted, with the same exceptions.
THEOREM StartsMeetStops == Spec => []StartsAndStops
<1>1. CountInv => StartsAndStops
  <2> SUFFICES ASSUME CountInv, Quiet PROVE busy \in {0, 1} /\ busy = (IF active > 0 THEN 1 ELSE 0)
    BY DEF StartsAndStops, Quiet
  <2> QED
    BY DEF CountInv, Tallied, Busy
<1> QED
  BY CountAlways, <1>1, PTL
=============================================================================
