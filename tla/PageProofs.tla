----------------------------- MODULE PageProofs -----------------------------
(* Proofs about four parts of the page.  Its start: nothing runs early, and every     *)
(* function in its turn and once, whoever registers, holds ready back, lets go or    *)
(* throws, and wherever.  Its polls of the server: what it shows is as fresh as was  *)
(* asked for, for any number of rows, of requests under way and of lost ones.       *)
EXTENDS Ready, FiniteSetTheorems, SequenceTheorems, TLAPS

\* A list that is called, or an event that is triggered, and what it calls now.
Frame ==
    [is : {"drain", "event"}, todo : Seq(Handlers), trigger : BOOLEAN, calls : Functions \union Handlers \union {None}]

StartTypeOK ==
    /\ document \in {"loading", "interactive", "complete"} /\ body \in BOOLEAN /\ listening \in BOOLEAN
    /\ timers \in Nat /\ readyWait \in Int
    /\ isReady \in BOOLEAN /\ readyBound \in BOOLEAN /\ fired \in BOOLEAN
    /\ readyList \in Seq(Functions) /\ handlers \in Seq(Handlers)
    /\ stack \in Seq(Frame)
    /\ IsFiniteSet(holding)
    /\ added \in Seq(Functions) /\ ran \in Seq(Functions \union Handlers)

\* readyWait counts who holds, and the document itself, until the first function runs.
Waits ==
    /\ ~isReady => ran = <<>> /\ stack = <<>> /\ ~fired /\ readyWait = Cardinality(holding) + 1
    /\ isReady /\ ran = <<>> /\ stack = <<>> => ~fired /\ readyWait = Cardinality(holding) /\ holding # {}

\* What comes before the first function to run: nobody holds, and there is one.
Starts(f) ==
    /\ stack = <<f>> /\ f.calls = None
    /\ f.is = "drain" => f.trigger = TRUE /\ (readyList # <<>> \/ handlers # <<>>)
    /\ f.is = "event" => f.todo # <<>>

Begins == ran = <<>> /\ stack # <<>> => holding = {} /\ \E f \in Frame : Starts(f)

\* What the browser and the page have done before.
Knows ==
    /\ isReady \/ timers > 0 => document # "loading"
    /\ isReady => body
    /\ listening \/ timers > 0 \/ isReady => readyBound
    /\ readyBound /\ ran = <<>> /\ stack = <<>> => readyList # <<>> \/ handlers # <<>>
    /\ early = {}

StartInv == StartTypeOK /\ Waits /\ Begins /\ Knows

LEMMA StartInit == Init => StartInv
<1> SUFFICES ASSUME Init PROVE StartInv
  OBVIOUS
<1>1. StartTypeOK
  <2>1. IsFiniteSet({})
    BY FS_EmptySet
  <2>2. \A S : <<>> \in Seq(S)
    OBVIOUS
  <2>3. body \in BOOLEAN /\ listening \in BOOLEAN /\ isReady \in BOOLEAN /\ readyBound \in BOOLEAN /\ fired \in BOOLEAN
    BY Zenon DEF Init
  <2>4. timers \in Nat /\ readyWait \in Int
    BY DEF Init
  <2> QED
    BY <2>1, <2>2, <2>3, <2>4, Zenon DEF Init, StartTypeOK
<1>2. Waits /\ Begins /\ Knows
  BY FS_EmptySet DEF Init, Waits, Begins, Knows
<1> QED
  BY <1>1, <1>2 DEF StartInv

LEMMA Pushed ==
    ASSUME NEW S, NEW s \in Seq(S), NEW e \in S PROVE Append(s, e) \in Seq(S) /\ Append(s, e) # <<>>
  BY AppendProperties

\* The top of the stack, and the rest.
LEMMA TopIs ==
    ASSUME StartTypeOK, stack # <<>>
    PROVE  /\ top \in Frame /\ rest \in Seq(Frame)
           /\ \A f : stack = <<f>> => top = f /\ rest = <<>>
           /\ \A f : Append(rest, f) # <<>>
<1>1. stack \in Seq(Frame) /\ Len(stack) \in Nat /\ Len(stack) > 0 /\ DOMAIN stack = 1..Len(stack)
  BY DEF StartTypeOK
<1>2. top \in Frame /\ rest \in Seq(Frame)
  BY <1>1 DEF top, rest, Last, Front
<1>3. \A f : stack = <<f>> => top = f /\ rest = <<>>
  BY <1>1 DEF top, rest, Last, Front
<1>4. \A f : Append(rest, f) # <<>>
  BY <1>2
<1> QED
  BY <1>2, <1>3, <1>4

\* As long as nothing has run, the page has the control only when nothing is called.
LEMMA NothingCalled ==
    ASSUME StartInv, PageRuns, ran = <<>> PROVE stack = <<>>
<1> SUFFICES ASSUME stack # <<>> PROVE FALSE
  OBVIOUS
<1>1. PICK f \in Frame : Starts(f)
  BY DEF StartInv, Begins
<1>2. top = f /\ f.calls = None
  BY <1>1, TopIs DEF StartInv, Starts
<1> QED
  BY <1>2 DEF PageRuns

\* The calls of jQuery.ready, by one who let go, and by the browser.
LEMMA ReadyTold ==
    ASSUME NEW below, NEW due, ready(TRUE, below, due)
    PROVE  \/ /\ readyWait - 1 # 0
              /\ readyWait' = readyWait - 1 /\ timers' = due /\ stack' = below /\ isReady' = isReady
           \/ /\ readyWait - 1 = 0 /\ ~body
              /\ readyWait' = readyWait - 1 /\ timers' = due + 1 /\ stack' = below /\ isReady' = isReady
           \/ /\ readyWait - 1 = 0 /\ body
              /\ readyWait' = readyWait - 1 /\ timers' = due /\ isReady' = TRUE
              /\ stack' = Append(below, IF fired \/ IsFiring THEN Trigger ELSE Drain(TRUE))
<1> DEFINE left == readyWait - 1
<1>1. CASE ~Go(TRUE, left)
  BY <1>1 DEF ready, Go
<1>2. CASE Go(TRUE, left) /\ ~body
  BY <1>2 DEF ready, Go
<1>3. CASE Go(TRUE, left) /\ body
  BY <1>3 DEF ready, Go
<1> QED
  BY <1>1, <1>2, <1>3

LEMMA ReadyDue ==
    ASSUME NEW below, NEW due, ready(FALSE, below, due)
    PROVE  \/ /\ readyWait # 0 /\ isReady
              /\ readyWait' = readyWait /\ timers' = due /\ stack' = below /\ isReady' = isReady
           \/ /\ readyWait = 0 \/ ~isReady
              /\ ~body
              /\ readyWait' = readyWait /\ timers' = due + 1 /\ stack' = below /\ isReady' = isReady
           \/ /\ readyWait = 0 \/ ~isReady
              /\ body
              /\ readyWait' = readyWait - 1 /\ timers' = due /\ isReady' = TRUE
              /\ stack' = IF readyWait - 1 > 0 THEN below
                          ELSE Append(below, IF fired \/ IsFiring THEN Trigger ELSE Drain(TRUE))
<1>1. CASE ~Go(FALSE, readyWait)
  BY <1>1 DEF ready, Go
<1>2. CASE Go(FALSE, readyWait) /\ ~body
  BY <1>2 DEF ready, Go
<1>3. CASE Go(FALSE, readyWait) /\ body
  BY <1>3 DEF ready, Go
<1> QED
  BY <1>1, <1>2, <1>3

LEMMA FramesOK ==
    ASSUME StartTypeOK PROVE Trigger \in Frame /\ \A b \in BOOLEAN : Drain(b) \in Frame
  BY DEF StartTypeOK, Frame, Trigger, Drain

\* After a call of jQuery.ready.
LEMMA ReadyCalled ==
    ASSUME StartInv, NEW f \in Frame, NEW due \in Nat, timers' = due \/ timers' = due + 1, readyWait' \in Int,
           isReady' = isReady \/ isReady' = TRUE, stack' = stack \/ stack' = Append(stack, f),
           document' \in {"loading", "interactive", "complete"}, IsFiniteSet(holding'),
           UNCHANGED <<body, listening, readyBound, readyList, handlers, fired, added, ran>>
    PROVE  StartTypeOK'
<1>1. timers' \in Nat
  OBVIOUS
<1>2. stack' \in Seq(Frame)
  <2>1. stack \in Seq(Frame)
    BY DEF StartInv, StartTypeOK
  <2>2. Append(stack, f) \in Seq(Frame)
    BY <2>1, AppendProperties
  <2> QED
    BY <2>1, <2>2
<1>3. isReady' \in BOOLEAN
  BY Zenon DEF StartInv, StartTypeOK
<1> QED
  BY <1>1, <1>2, <1>3, Zenon DEF StartInv, StartTypeOK

\* It begins: nobody holds, and there is what to call.
LEMMA ReadyBegins ==
    ASSUME StartInv, PageRuns, NEW f \in Frame, f = (IF fired \/ IsFiring THEN Trigger ELSE Drain(TRUE)),
           stack' = Append(stack, f), isReady' = TRUE, body, readyBound, document' # "loading",
           ran = <<>> => holding' = {} /\ ~fired,
           UNCHANGED <<body, readyBound, readyList, handlers, ran, early>>
    PROVE  Waits' /\ Begins' /\ Knows'
<1>1. stack' # <<>>
  <2>1. stack \in Seq(Frame)
    BY DEF StartInv, StartTypeOK
  <2> QED
    BY <2>1, Pushed
<1>2. Waits'
  BY <1>1 DEF Waits
<1>3. Knows'
  BY <1>1 DEF StartInv, Knows
<1>4. ASSUME ran = <<>> PROVE Starts(f)'
  <2>1. stack = <<>> /\ DOMAIN stack = {}
    BY <1>4, NothingCalled
  <2>2. ~IsFiring
    BY <2>1, Zenon DEF IsFiring
  <2>3. f = Drain(TRUE)
    BY <1>4, <2>2
  <2>4. stack' = <<f>>
    BY <2>1
  <2>5. readyList # <<>> \/ handlers # <<>>
    BY <1>4, <2>1 DEF StartInv, Knows
  <2>6. f.is = "drain" /\ f.calls = None
    BY <2>3 DEF Drain
  <2>7. f.trigger = TRUE
    BY <2>3 DEF Drain
  <2>8. f.is # "event"
    BY <2>6
  <2> QED
    BY <2>4, <2>5, <2>6, <2>7, <2>8, Zenon DEF Starts
<1>5. Begins'
  BY <1>4 DEF Begins
<1> QED
  BY <1>2, <1>3, <1>5

\* How many hold, when one lets go.
LEMMA OneLetsGo ==
    ASSUME IsFiniteSet(holding), NEW o \in holding, holding' = holding \ {o}
    PROVE  /\ IsFiniteSet(holding') /\ Cardinality(holding') \in Nat
           /\ Cardinality(holding) = Cardinality(holding') + 1
           /\ Cardinality(holding') = 0 <=> holding' = {}
<1>1. Cardinality(holding) \in Nat /\ IsFiniteSet(holding') /\ Cardinality(holding') = Cardinality(holding) - 1
  BY FS_RemoveElement, FS_CardinalityType
<1>2. Cardinality(holding') \in Nat /\ (Cardinality(holding') = 0 <=> holding' = {})
  BY <1>1, FS_CardinalityType, FS_EmptySet
<1> QED
  BY <1>1, <1>2

LEMMA LetGoStarts ==
    ASSUME StartInv, NEW o \in Holders, LetGo(o)
    PROVE  StartInv'
<1>1. /\ PageRuns /\ o \in holding /\ ready(TRUE, stack, timers) /\ holding' = holding \ {o}
      /\ UNCHANGED <<document, body, listening, readyBound, readyList, fired, handlers, added, ran, early>>
  BY DEF LetGo, history
<1>2. PICK f : f = IF fired \/ IsFiring THEN Trigger ELSE Drain(TRUE)
  OBVIOUS
<1>3. f \in Frame
  BY <1>2, FramesOK DEF StartInv
<1>4. \/ /\ readyWait - 1 # 0
         /\ readyWait' = readyWait - 1 /\ timers' = timers /\ stack' = stack /\ isReady' = isReady
      \/ /\ readyWait - 1 = 0 /\ ~body
         /\ readyWait' = readyWait - 1 /\ timers' = timers + 1 /\ stack' = stack /\ isReady' = isReady
      \/ /\ readyWait - 1 = 0 /\ body
         /\ readyWait' = readyWait - 1 /\ timers' = timers /\ isReady' = TRUE
         /\ stack' = Append(stack, f)
  BY <1>1, <1>2, ReadyTold
<1>5. /\ IsFiniteSet(holding') /\ Cardinality(holding') \in Nat
      /\ Cardinality(holding) = Cardinality(holding') + 1
      /\ Cardinality(holding') = 0 <=> holding' = {}
  BY <1>1, OneLetsGo DEF StartInv, StartTypeOK
<1>6. readyWait \in Int /\ timers \in Nat
  BY DEF StartInv, StartTypeOK
<1>7. ran = <<>> => stack = <<>>
  BY <1>1, NothingCalled
<1>8. /\ ~isReady => readyWait - 1 = Cardinality(holding') + 1
      /\ isReady /\ ran = <<>> => readyWait - 1 = Cardinality(holding') /\ ~fired
  BY <1>5, <1>6, <1>7 DEF StartInv, Waits
<1>9. StartTypeOK'
  <2>1. /\ timers' = timers \/ timers' = timers + 1
        /\ isReady' = isReady \/ isReady' = TRUE
        /\ stack' = stack \/ stack' = Append(stack, f)
    BY <1>4, Zenon
  <2>2. readyWait' \in Int
    BY <1>4, <1>6
  <2>3. document' \in {"loading", "interactive", "complete"}
    BY <1>1 DEF StartInv, StartTypeOK
  <2> QED
    BY <1>1, <1>3, <1>5, <1>6, <2>1, <2>2, <2>3, ReadyCalled
<1>10. CASE isReady /\ stack' = Append(stack, f) /\ isReady' = TRUE /\ readyWait - 1 = 0
  <2>1. body /\ readyBound /\ document' # "loading"
    BY <1>1, <1>10 DEF StartInv, Knows
  <2>2. ran = <<>> => holding' = {} /\ ~fired
    BY <1>5, <1>8, <1>10
  <2> QED
    BY <1>1, <1>2, <1>3, <1>9, <1>10, <2>1, <2>2, ReadyBegins DEF StartInv
<1>11. CASE readyWait - 1 # 0 /\ readyWait' = readyWait - 1 /\ timers' = timers /\ stack' = stack /\ isReady' = isReady
  <2>1. Waits'
    BY <1>1, <1>5, <1>8, <1>11 DEF StartInv, Waits
  <2>2. Begins'
    BY <1>1, <1>7, <1>11 DEF Begins
  <2>3. Knows'
    BY <1>1, <1>11 DEF StartInv, Knows
  <2> QED
    BY <1>9, <2>1, <2>2, <2>3 DEF StartInv
<1>12. ~isReady => readyWait - 1 # 0
  BY <1>5, <1>8
<1>13. isReady => body
  BY DEF StartInv, Knows
<1> QED
  BY <1>4, <1>10, <1>11, <1>12, <1>13

\* An event of the browser, or a timer.
LEMMA BrowserStarts ==
    ASSUME StartInv, stack = <<>>, NEW due \in Nat, ready(FALSE, stack, due), readyBound,
           document' \in {"interactive", "complete"},
           UNCHANGED <<body, listening, readyBound, readyList, fired, handlers, holding, added, ran, early>>
    PROVE  StartInv'
<1>1. PageRuns
  BY DEF PageRuns
<1>2. PICK f : f = IF fired \/ IsFiring THEN Trigger ELSE Drain(TRUE)
  OBVIOUS
<1>3. f \in Frame
  BY <1>2, FramesOK DEF StartInv
<1>4. \/ /\ readyWait # 0 /\ isReady
         /\ readyWait' = readyWait /\ timers' = due /\ stack' = stack /\ isReady' = isReady
      \/ /\ ~body
         /\ readyWait' = readyWait /\ timers' = due + 1 /\ stack' = stack /\ isReady' = isReady
      \/ /\ readyWait = 0 \/ ~isReady
         /\ body
         /\ readyWait' = readyWait - 1 /\ timers' = due /\ isReady' = TRUE
         /\ stack' = IF readyWait - 1 > 0 THEN stack ELSE Append(stack, f)
  BY <1>2, ReadyDue
<1>5. IsFiniteSet(holding) /\ Cardinality(holding) \in Nat /\ (Cardinality(holding) = 0 <=> holding = {})
  BY FS_CardinalityType, FS_EmptySet DEF StartInv, StartTypeOK
<1>6. readyWait \in Int
  BY DEF StartInv, StartTypeOK
<1>7. /\ ~isReady => readyWait = Cardinality(holding) + 1 /\ ran = <<>> /\ ~fired
      /\ isReady /\ ran = <<>> => readyWait = Cardinality(holding) /\ ~fired /\ readyWait # 0
  BY <1>5 DEF StartInv, Waits
<1>8. StartTypeOK'
  <2>1. /\ timers' = due \/ timers' = due + 1
        /\ isReady' = isReady \/ isReady' = TRUE
        /\ stack' = stack \/ stack' = Append(stack, f)
    BY <1>4, Zenon
  <2>2. readyWait' \in Int
    BY <1>4, <1>6
  <2> QED
    BY <1>3, <1>5, <2>1, <2>2, ReadyCalled
<1>9. CASE stack' = Append(stack, f) /\ isReady' = TRUE /\ body /\ readyWait - 1 <= 0 /\ (readyWait = 0 \/ ~isReady)
  <2>1. ran = <<>> => holding' = {} /\ ~fired
    BY <1>5, <1>6, <1>7, <1>9
  <2> QED
    BY <1>1, <1>2, <1>3, <1>8, <1>9, <2>1, ReadyBegins DEF StartInv
<1>10. CASE readyWait' = readyWait /\ stack' = stack /\ isReady' = isReady
  <2>1. Waits'
    BY <1>10 DEF StartInv, Waits
  <2>2. Begins' /\ Knows'
    BY <1>10 DEF StartInv, Begins, Knows
  <2> QED
    BY <1>8, <2>1, <2>2 DEF StartInv
<1>11. CASE /\ body /\ isReady' = TRUE /\ stack' = stack /\ readyWait - 1 > 0 /\ readyWait' = readyWait - 1
            /\ readyWait = 0 \/ ~isReady
  <2>1. ~isReady
    BY <1>6, <1>11
  <2>2. Waits'
    BY <1>5, <1>6, <1>7, <1>11, <2>1 DEF StartInv, Waits
  <2>3. Begins' /\ Knows'
    BY <1>11 DEF StartInv, Begins, Knows
  <2> QED
    BY <1>8, <2>2, <2>3 DEF StartInv
<1>12. readyWait - 1 > 0 \/ readyWait - 1 <= 0
  BY <1>6
<1> QED
  BY <1>4, <1>9, <1>10, <1>11, <1>12

\* What the page registers, binds and holds, before or after.
LEMMA PageStarts ==
    ASSUME StartInv,
           \/ \E f \in Functions : Register(f)
           \/ \E h \in Handlers : Bind(h)
           \/ \E o \in Holders : Hold(o)
    PROVE  StartInv'
<1>1. ASSUME bindReady
      PROVE  /\ readyBound' = TRUE /\ timers' \in Nat /\ listening' \in BOOLEAN
             /\ (isReady \/ timers' > 0) => document # "loading"
  <2>1. CASE readyBound
    BY <1>1, <2>1 DEF bindReady, StartInv, StartTypeOK, Knows
  <2>2. CASE ~readyBound /\ document = "complete"
    BY <1>1, <2>2 DEF bindReady, StartInv, StartTypeOK
  <2>3. CASE ~readyBound /\ document # "complete"
    BY <1>1, <2>3 DEF bindReady, StartInv, StartTypeOK, Knows
  <2> QED
    BY <2>1, <2>2, <2>3
<1>2. ASSUME NEW f \in Functions, Register(f) PROVE StartInv'
  <2>1. /\ PageRuns /\ bindReady /\ readyList' = Append(readyList, f) /\ added' = Append(added, f)
        /\ fired' = FALSE /\ stack' = IF fired THEN Append(stack, Drain(FALSE)) ELSE stack
        /\ UNCHANGED <<document, body, isReady, readyWait, handlers, holding, ran, early>>
    BY <1>2 DEF Register, holders
  <2>2. readyList' \in Seq(Functions) /\ readyList' # <<>> /\ added' \in Seq(Functions)
    <3>1. readyList \in Seq(Functions) /\ added \in Seq(Functions)
      BY DEF StartInv, StartTypeOK
    <3> QED
      BY <2>1, <3>1, AppendProperties
  <2>3. stack \in Seq(Frame) /\ Append(stack, Drain(FALSE)) \in Seq(Frame)
    <3>1. stack \in Seq(Frame)
      BY DEF StartInv, StartTypeOK
    <3>2. Drain(FALSE) \in Frame
      BY FramesOK DEF StartInv
    <3> QED
      BY <3>1, <3>2, AppendProperties
  <2>4. ran = <<>> => stack = <<>> /\ ~fired
    <3>1. ran = <<>> => stack = <<>>
      BY <2>1, NothingCalled
    <3> QED
      BY <3>1 DEF StartInv, Waits
  <2>5. stack' \in Seq(Frame) /\ (ran = <<>> => stack' = <<>>)
    BY <2>1, <2>3, <2>4
  <2>6. StartTypeOK'
    <3>1. fired' \in BOOLEAN /\ readyBound' \in BOOLEAN
      BY <1>1, <2>1, Zenon
    <3> QED
      BY <1>1, <2>1, <2>2, <2>5, <3>1, Zenon DEF StartInv, StartTypeOK
  <2>7. Waits'
    BY <2>1, <2>4, <2>5 DEF StartInv, Waits
  <2>8. Begins' /\ Knows'
    BY <1>1, <2>1, <2>2, <2>5 DEF StartInv, Begins, Knows
  <2> QED
    BY <2>6, <2>7, <2>8 DEF StartInv
<1>3. ASSUME NEW h \in Handlers, Bind(h) PROVE StartInv'
  <2>1. /\ PageRuns /\ bindReady /\ handlers' = Append(handlers, h)
        /\ UNCHANGED <<document, body, isReady, readyWait, readyList, fired, stack, holding, added, ran, early>>
    BY <1>3 DEF Bind, holders
  <2>2. handlers' \in Seq(Handlers) /\ handlers' # <<>>
    <3>1. handlers \in Seq(Handlers)
      BY DEF StartInv, StartTypeOK
    <3> QED
      BY <2>1, <3>1, AppendProperties
  <2>3. ran = <<>> => stack = <<>>
    BY <2>1, NothingCalled
  <2>4. StartTypeOK'
    <3>1. readyBound' \in BOOLEAN
      BY <1>1, <2>1, Zenon
    <3> QED
      BY <1>1, <2>1, <2>2, <3>1, Zenon DEF StartInv, StartTypeOK
  <2>5. Waits'
    BY <2>1 DEF StartInv, Waits
  <2>6. Begins' /\ Knows'
    BY <1>1, <2>1, <2>2, <2>3 DEF StartInv, Begins, Knows
  <2> QED
    BY <2>4, <2>5, <2>6 DEF StartInv
<1>4. ASSUME NEW o \in Holders, Hold(o) PROVE StartInv'
  <2>1. /\ PageRuns /\ o \notin holding /\ readyWait' = readyWait + 1 /\ holding' = holding \union {o}
        /\ UNCHANGED <<document, body, listening, timers, isReady, readyBound, readyList, fired, handlers, stack>>
        /\ UNCHANGED <<added, ran, early>>
    BY <1>4 DEF Hold, browser, history
  <2>2. /\ IsFiniteSet(holding') /\ Cardinality(holding') = Cardinality(holding) + 1
        /\ Cardinality(holding) \in Nat
    BY <2>1, FS_AddElement, FS_CardinalityType DEF StartInv, StartTypeOK
  <2>3. ran = <<>> => stack = <<>>
    BY <2>1, NothingCalled
  <2>4. readyWait \in Int
    BY DEF StartInv, StartTypeOK
  <2>5. StartTypeOK'
    <3>1. readyWait' \in Int
      BY <2>1, <2>4
    <3> QED
      BY <2>1, <2>2, <3>1, Zenon DEF StartInv, StartTypeOK
  <2>6. Waits'
    BY <2>1, <2>2, <2>4 DEF StartInv, Waits
  <2>7. Begins' /\ Knows'
    BY <2>1, <2>3 DEF StartInv, Begins, Knows
  <2> QED
    BY <2>5, <2>6, <2>7 DEF StartInv
<1> QED
  BY <1>2, <1>3, <1>4

\* What is called, and what returns.
LEMMA RunsStart ==
    ASSUME StartInv, RunFunction \/ RunHandler \/ Return \/ Throw
    PROVE  StartInv'
<1>1. stack # <<>> /\ top \in Frame /\ rest \in Seq(Frame)
  BY TopIs DEF RunFunction, RunHandler, Return, Throw, StartInv
<1>2. isReady
  BY <1>1 DEF StartInv, Waits
<1>3. document # "loading" /\ body /\ early = {} /\ readyBound
  BY <1>2 DEF StartInv, Knows
<1>4. ran = <<>> => holding = {}
  BY <1>1 DEF StartInv, Begins
<1>5. ASSUME NEW f \in Functions \union Handlers, Call(f), isReady' = isReady,
             UNCHANGED <<document, body, listening, timers, readyBound, holding>>
      PROVE  Waits' /\ Begins' /\ Knows' /\ ran' \in Seq(Functions \union Handlers)
  <2>1. ran' # <<>> /\ ran' \in Seq(Functions \union Handlers)
    <3>1. ran \in Seq(Functions \union Handlers) /\ ran' = Append(ran, f)
      BY <1>5 DEF Call, StartInv, StartTypeOK
    <3> QED
      BY <3>1, AppendProperties
  <2>2. early' = {}
    BY <1>3, <1>4, <1>5 DEF Call
  <2> QED
    BY <1>2, <1>3, <1>5, <2>1, <2>2 DEF Waits, Begins, Knows
<1>6. CASE RunFunction
  <2>1. /\ readyList # <<>> /\ readyList' = Tail(readyList) /\ Call(Head(readyList))
        /\ stack' = Append(rest, [top EXCEPT !.calls = Head(readyList)])
        /\ UNCHANGED <<document, body, listening, timers, isReady, readyWait, readyBound>>
        /\ UNCHANGED <<fired, handlers, holding, added>>
    BY <1>6 DEF RunFunction, browser, flags, holders
  <2>2. Head(readyList) \in Functions /\ Tail(readyList) \in Seq(Functions)
    <3>1. readyList \in Seq(Functions)
      BY DEF StartInv, StartTypeOK
    <3> QED
      BY <2>1, <3>1, HeadTailProperties
  <2>3. stack' \in Seq(Frame)
    <3>1. [top EXCEPT !.calls = Head(readyList)] \in Frame
      BY <1>1, <2>2 DEF Frame
    <3> QED
      BY <1>1, <2>1, <3>1, AppendProperties
  <2>4. Waits' /\ Begins' /\ Knows' /\ ran' \in Seq(Functions \union Handlers)
    BY <1>5, <2>1, <2>2
  <2>5. StartTypeOK'
    BY <2>1, <2>2, <2>3, <2>4, Zenon DEF StartInv, StartTypeOK
  <2> QED
    BY <2>4, <2>5 DEF StartInv
<1>7. CASE RunHandler
  <2>1. /\ top.todo # <<>> /\ Call(Head(top.todo))
        /\ stack' = Append(rest, [top EXCEPT !.todo = Tail(@), !.calls = Head(top.todo)])
        /\ UNCHANGED <<document, body, listening, timers, isReady, readyWait, readyBound>>
        /\ UNCHANGED <<readyList, fired, handlers, holding, added>>
    BY <1>7 DEF RunHandler, browser, flags, holders
  <2>2. Head(top.todo) \in Handlers /\ Tail(top.todo) \in Seq(Handlers)
    <3>1. top.todo \in Seq(Handlers)
      BY <1>1 DEF Frame
    <3> QED
      BY <2>1, <3>1, HeadTailProperties
  <2>3. stack' \in Seq(Frame)
    <3>1. [top EXCEPT !.todo = Tail(@), !.calls = Head(top.todo)] \in Frame
      BY <1>1, <2>2 DEF Frame
    <3> QED
      BY <1>1, <2>1, <3>1, AppendProperties
  <2>4. Waits' /\ Begins' /\ Knows' /\ ran' \in Seq(Functions \union Handlers)
    BY <1>5, <2>1, <2>2
  <2>5. StartTypeOK'
    BY <2>1, <2>3, <2>4, Zenon DEF StartInv, StartTypeOK
  <2> QED
    BY <2>4, <2>5 DEF StartInv
<1>8. CASE Return \/ Throw
  <2>1. /\ UNCHANGED <<document, body, listening, timers, isReady, readyWait, readyBound>>
        /\ UNCHANGED <<readyList, handlers, holding, added, ran, early>>
        /\ PageRuns
    BY <1>8 DEF Return, Throw, browser, flags, holders, history
  <2>2. ran # <<>>
    BY <1>1, <2>1, NothingCalled
  <2>3. stack' \in Seq(Frame)
    <3>1. CASE Return
      <4>1. [top EXCEPT !.calls = None] \in Frame
        BY <1>1 DEF Frame
      <4> QED
        BY <1>1, <3>1, <4>1, AppendProperties DEF Return
    <3>2. CASE Throw
      BY <3>2 DEF Throw
    <3> QED
      BY <1>8, <3>1, <3>2
  <2>4. fired' \in BOOLEAN
    <3>1. CASE Return
      BY <3>1, Zenon DEF Return, StartInv, StartTypeOK
    <3>2. CASE Throw
      BY <3>2, Zenon DEF Throw
    <3> QED
      BY <1>8, <3>1, <3>2
  <2>5. StartTypeOK'
    BY <2>1, <2>3, <2>4, Zenon DEF StartInv, StartTypeOK
  <2>6. Waits' /\ Begins' /\ Knows'
    BY <1>2, <1>3, <2>1, <2>2 DEF Waits, Begins, Knows
  <2> QED
    BY <2>5, <2>6 DEF StartInv
<1> QED
  BY <1>6, <1>7, <1>8

\* The list or the event ends: before the first function, the event comes after the list.
LEMMA EndsStart ==
    ASSUME StartInv, EndOfList \/ EndOfEvent
    PROVE  StartInv'
<1>1. stack # <<>> /\ top \in Frame /\ rest \in Seq(Frame)
  BY TopIs DEF EndOfList, EndOfEvent, StartInv
<1>2. /\ UNCHANGED <<document, body, listening, timers, isReady, readyWait, readyBound, readyList, holding, added, ran, early>>
      /\ top.calls = None
  BY DEF EndOfList, EndOfEvent, browser, flags, holders, history
<1>3. isReady /\ document # "loading" /\ body /\ early = {} /\ readyBound
  BY <1>1 DEF StartInv, Waits, Knows
<1>4. fired' \in BOOLEAN /\ handlers' \in Seq(Handlers) /\ (stack' = rest \/ stack' = Append(rest, Trigger))
  <2>1. fired \in BOOLEAN /\ handlers \in Seq(Handlers)
    BY Zenon DEF StartInv, StartTypeOK
  <2>2. CASE EndOfList
    BY <2>1, <2>2 DEF EndOfList
  <2>3. CASE EndOfEvent
    BY <2>1, <2>3 DEF EndOfEvent
  <2> QED
    BY <2>2, <2>3
<1>5. StartTypeOK'
  <2>1. stack' \in Seq(Frame)
    <3>1. Trigger \in Frame
      BY FramesOK DEF StartInv
    <3> QED
      BY <1>1, <1>4, <3>1, AppendProperties
  <2> QED
    BY <1>2, <1>4, <2>1, Zenon DEF StartInv, StartTypeOK
<1>6. CASE ran # <<>>
  <2>1. Waits' /\ Begins' /\ Knows'
    BY <1>2, <1>3, <1>6 DEF Waits, Begins, Knows
  <2> QED
    BY <1>5, <2>1 DEF StartInv
<1>7. CASE ran = <<>>
  <2>1. PICK f \in Frame : Starts(f) /\ holding = {}
    BY <1>1, <1>7 DEF StartInv, Begins
  <2>2. top = f /\ rest = <<>>
    BY <1>1, <2>1, TopIs DEF Starts, StartInv
  <2>3. ~EndOfEvent
    BY <2>1, <2>2 DEF EndOfEvent, Starts
  <2>4. f.is = "drain" /\ f.trigger = TRUE /\ handlers # <<>>
    BY <2>1, <2>2, <2>3 DEF EndOfList, Starts
  <2>5. stack' = Append(<<>>, Trigger) /\ handlers' = handlers
    BY <2>2, <2>3, <2>4 DEF EndOfList
  <2>6. stack' = <<Trigger>>
    BY <2>5
  <2>7. Trigger \in Frame /\ Trigger.is = "event" /\ Trigger.calls = None /\ Trigger.todo = handlers
    BY FramesOK DEF Trigger, StartInv
  <2>8. PICK g \in Frame : g = Trigger
    BY <2>7
  <2>9. stack' = <<g>> /\ g.is = "event" /\ g.calls = None /\ g.todo # <<>>
    BY <2>4, <2>6, <2>7, <2>8
  <2>10. Starts(g)'
    BY <2>9 DEF Starts
  <2>11. Waits' /\ Begins' /\ Knows'
    BY <1>2, <1>3, <2>1, <2>9, <2>10 DEF Waits, Begins, Knows
  <2> QED
    BY <1>5, <2>11 DEF StartInv
<1> QED
  BY <1>6, <1>7

\* The browser parses, loads, and calls what is due.
LEMMA BrowserSteps ==
    ASSUME StartInv, Parse \/ Load \/ Timer
    PROVE  StartInv'
<1>1. stack = <<>>
  BY DEF Parse, Load, Timer
<1>2. CASE Parse
  <2>1. /\ body' = TRUE
        /\ UNCHANGED <<document, listening, timers, isReady, readyWait, readyBound, readyList, fired, handlers, stack>>
        /\ UNCHANGED <<holding, added, ran, early>>
    BY <1>2 DEF Parse, flags, holders, history
  <2>2. StartTypeOK'
    <3>1. body' \in BOOLEAN
      BY <2>1, Zenon
    <3> QED
      BY <2>1, <3>1, Zenon DEF StartInv, StartTypeOK
  <2>3. Waits' /\ Begins' /\ Knows'
    BY <1>1, <2>1 DEF StartInv, Waits, Begins, Knows
  <2> QED
    BY <2>2, <2>3 DEF StartInv
<1>3. CASE Load
  <2>1. /\ document' \in {"interactive", "complete"}
        /\ UNCHANGED <<body, listening, readyBound, readyList, fired, handlers, holding, added, ran, early>>
    BY <1>3 DEF Load, holders, history
  <2>2. CASE listening
    BY <1>1, <1>3, <2>1, <2>2, BrowserStarts DEF Load, StartInv, StartTypeOK, Knows
  <2>3. CASE ~listening
    <3>1. UNCHANGED <<isReady, readyWait, timers, stack>>
      BY <1>3, <2>3 DEF Load
    <3>2. StartTypeOK'
      <4>1. document' \in {"loading", "interactive", "complete"}
        BY <2>1
      <4> QED
        BY <2>1, <3>1, <4>1, Zenon DEF StartInv, StartTypeOK
    <3>3. Waits' /\ Begins' /\ Knows'
      BY <1>1, <2>1, <3>1 DEF StartInv, Waits, Begins, Knows
    <3> QED
      BY <3>2, <3>3 DEF StartInv
  <2> QED
    BY <2>2, <2>3
<1>4. CASE Timer
  <2>1. /\ timers \in Nat /\ timers > 0 /\ ready(FALSE, stack, timers - 1)
        /\ UNCHANGED <<document, body, listening, readyBound, readyList, fired, handlers, holding, added, ran, early>>
    BY <1>4 DEF Timer, holders, history, StartInv, StartTypeOK
  <2>2. readyBound /\ document' \in {"interactive", "complete"}
    BY <2>1 DEF StartInv, StartTypeOK, Knows
  <2>3. timers - 1 \in Nat
    BY <2>1
  <2> QED
    BY <1>1, <2>1, <2>2, <2>3, BrowserStarts
<1> QED
  BY <1>2, <1>3, <1>4

LEMMA StartStep == StartInv /\ [Next]_vars => StartInv'
<1> SUFFICES ASSUME StartInv, [Next]_vars PROVE StartInv'
  OBVIOUS
<1>1. CASE Page
  BY <1>1, PageStarts, RunsStart DEF Page
<1>2. CASE \E o \in Holders : LetGo(o)
  BY <1>2, LetGoStarts
<1>3. CASE Runs
  BY <1>3, RunsStart, EndsStart DEF Runs
<1>4. CASE Parse \/ Load \/ Timer
  BY <1>4, BrowserSteps
<1>5. CASE UNCHANGED vars
  BY <1>5 DEF vars, browser, flags, holders, history, StartInv, StartTypeOK, Waits, Begins, Starts, Knows
<1> QED
  BY <1>1, <1>2, <1>3, <1>4, <1>5 DEF Next

LEMMA StartHolds == Spec => []StartInv
<1> QED
  BY StartInit, StartStep, PTL DEF Spec

\* Nothing runs before the document is loaded and has a body, nor while anyone holds it.
THEOREM NotEarlyHolds == Spec => []NotEarly
<1>1. StartInv => NotEarly
  BY DEF StartInv, Waits, Knows, NotEarly
<1> QED
  BY <1>1, StartHolds, PTL

\* Those that were added and not called yet wait in the list, in that order.
Waiting(n) ==
    /\ Len(added) = n + Len(readyList)
    /\ \A i \in 1..Len(readyList) : readyList[i] = added[n + i]

Order == \E n \in Nat : Waiting(n) /\ \E at \in [1..n -> DOMAIN ran] : CalledAt(n, at)

LEMMA ListsAre ==
    ASSUME StartTypeOK
    PROVE  /\ readyList \in Seq(Functions) /\ added \in Seq(Functions) /\ ran \in Seq(Functions \union Handlers)
           /\ Len(readyList) \in Nat /\ Len(added) \in Nat /\ Len(ran) \in Nat /\ DOMAIN ran = 1..Len(ran)
  BY DEF StartTypeOK

\* A function joins both at the end.
LEMMA RegisterOrder ==
    ASSUME StartTypeOK, Order, NEW f \in Functions, Register(f) PROVE Order'
<1>1. /\ readyList' = Append(readyList, f) /\ added' = Append(added, f) /\ ran' = ran
  BY DEF Register
<1>2. PICK n \in Nat : Waiting(n) /\ \E at \in [1..n -> DOMAIN ran] : CalledAt(n, at)
  BY DEF Order
<1>3. PICK at \in [1..n -> DOMAIN ran] : CalledAt(n, at)
  BY <1>2
<1>4. /\ Len(readyList') = Len(readyList) + 1 /\ Len(added') = Len(added) + 1
      /\ \A i \in 1..Len(readyList) : readyList'[i] = readyList[i]
      /\ \A i \in 1..Len(added) : added'[i] = added[i]
      /\ readyList'[Len(readyList) + 1] = f /\ added'[Len(added) + 1] = f
  BY <1>1, ListsAre, AppendProperties
<1>5. Len(readyList) \in Nat /\ Len(added) \in Nat
  BY ListsAre
<1>6. Len(added) = n + Len(readyList) /\ \A i \in 1..Len(readyList) : readyList[i] = added[n + i]
  BY <1>2 DEF Waiting
<1>7. Waiting(n)'
  <2>1. Len(added') = n + Len(readyList')
    BY <1>4, <1>5, <1>6
  <2>2. ASSUME NEW i \in 1..Len(readyList') PROVE readyList'[i] = added'[n + i]
    <3>1. CASE i \in 1..Len(readyList)
      <4>1. n + i \in 1..Len(added)
        BY <1>5, <1>6, <3>1
      <4> QED
        BY <1>4, <1>6, <3>1, <4>1
    <3>2. CASE i = Len(readyList) + 1
      <4>1. n + i = Len(added) + 1
        BY <1>5, <1>6, <3>2
      <4> QED
        BY <1>4, <3>2, <4>1
    <3> QED
      BY <1>4, <1>5, <3>1, <3>2
  <2> QED
    BY <2>1, <2>2 DEF Waiting
<1>8. CalledAt(n, at)'
  <2>1. \A i \in 1..n : i \in 1..Len(added)
    BY <1>5, <1>6
  <2>2. \A i \in 1..n : ran[at[i]] = added'[i]
    BY <1>3, <1>4, <2>1 DEF CalledAt
  <2> QED
    BY <1>1, <1>3, <2>2 DEF CalledAt
<1> QED
  BY <1>1, <1>3, <1>7, <1>8 DEF Order

\* The function at the head of the list is the next of them to be called.
LEMMA RunFunctionOrder ==
    ASSUME StartTypeOK, Order, RunFunction PROVE Order'
<1>1. /\ readyList # <<>> /\ readyList' = Tail(readyList) /\ added' = added /\ ran' = Append(ran, Head(readyList))
  BY DEF RunFunction, Call
<1>2. PICK n \in Nat : Waiting(n) /\ \E at \in [1..n -> DOMAIN ran] : CalledAt(n, at)
  BY DEF Order
<1>3. PICK at \in [1..n -> DOMAIN ran] : CalledAt(n, at)
  BY <1>2
<1>4. Len(added) = n + Len(readyList) /\ \A i \in 1..Len(readyList) : readyList[i] = added[n + i]
  BY <1>2 DEF Waiting
<1>5. Len(readyList) \in Nat /\ Len(added) \in Nat /\ Len(ran) \in Nat /\ DOMAIN ran = 1..Len(ran)
  BY ListsAre
<1>6. /\ Len(readyList) > 0 /\ Len(readyList') = Len(readyList) - 1 /\ Head(readyList) = readyList[1]
      /\ Head(readyList) \in Functions
      /\ \A i \in 1..Len(readyList') : readyList'[i] = readyList[i + 1]
  <2>1. readyList \in Seq(Functions)
    BY ListsAre
  <2>2. Len(readyList) > 0
    BY <1>1, <2>1
  <2>3. Len(readyList') = Len(readyList) - 1 /\ Head(readyList) = readyList[1]
    BY <1>1, <2>1, <2>2
  <2>4. Head(readyList) \in Functions
    BY <1>1, <2>1, HeadTailProperties
  <2>5. \A i \in 1..Len(readyList') : readyList'[i] = readyList[i + 1]
    BY <1>1, <2>1, <2>2
  <2> QED
    BY <2>2, <2>3, <2>4, <2>5
<1>7. /\ DOMAIN ran' = 1..(Len(ran) + 1) /\ ran'[Len(ran) + 1] = Head(readyList)
      /\ \A k \in DOMAIN ran : ran'[k] = ran[k]
  <2>1. ran \in Seq(Functions \union Handlers)
    BY ListsAre
  <2> QED
    BY <1>1, <1>5, <1>6, <2>1, AppendProperties
<1>8. PICK m \in Nat : m = n + 1
  OBVIOUS
<1>9. PICK to : to = [i \in 1..m |-> IF i = m THEN Len(ran) + 1 ELSE at[i]]
  OBVIOUS
<1>10. \A i \in 1..n : at[i] \in 1..Len(ran) /\ to[i] = at[i]
  BY <1>3, <1>5, <1>8, <1>9
<1>11. to[m] = Len(ran) + 1
  BY <1>8, <1>9
<1>12. \A i \in 1..m : i \in 1..n \/ i = m
  BY <1>8
<1>13. to \in [1..m -> DOMAIN ran']
  <2>1. Len(ran) + 1 \in DOMAIN ran' /\ \A k \in 1..Len(ran) : k \in DOMAIN ran'
    BY <1>5, <1>7
  <2>2. \A i \in 1..m : to[i] \in DOMAIN ran'
    BY <1>10, <1>11, <1>12, <2>1, Zenon
  <2> QED
    BY <1>9, <2>2
<1>14. Waiting(m)'
  <2>1. Len(added') = m + Len(readyList')
    BY <1>1, <1>4, <1>5, <1>6, <1>8
  <2>2. ASSUME NEW i \in 1..Len(readyList') PROVE readyList'[i] = added'[m + i]
    <3>1. i + 1 \in 1..Len(readyList) /\ n + (i + 1) = m + i
      BY <1>5, <1>6, <1>8
    <3> QED
      BY <1>1, <1>4, <1>6, <3>1
  <2> QED
    BY <2>1, <2>2 DEF Waiting
<1>15. CalledAt(m, to)'
  <2>1. \A i \in 1..m : ran'[to[i]] = added'[i]
    <3>1. ASSUME NEW i \in 1..n PROVE ran'[to[i]] = added'[i]
      BY <1>1, <1>3, <1>5, <1>7, <1>10 DEF CalledAt
    <3>2. ran'[to[m]] = added'[m]
      BY <1>1, <1>4, <1>5, <1>6, <1>7, <1>8, <1>11
    <3> QED
      BY <1>12, <3>1, <3>2
  <2>2. \A i, j \in 1..m : i < j => to[i] < to[j]
    <3>1. ASSUME NEW i \in 1..m, NEW j \in 1..m, i < j PROVE to[i] < to[j]
      <4>1. i \in 1..n
        BY <1>8, <3>1
      <4>2. CASE j = m
        BY <1>5, <1>10, <1>11, <4>1, <4>2
      <4>3. CASE j \in 1..n
        BY <1>3, <1>10, <3>1, <4>1, <4>3 DEF CalledAt
      <4> QED
        BY <1>12, <4>2, <4>3
    <3> QED
      BY <3>1
  <2>3. ASSUME NEW k \in DOMAIN ran', ran'[k] \in Functions PROVE \E i \in 1..m : to[i] = k
    <3>1. CASE k = Len(ran) + 1
      <4>1. m \in 1..m
        BY <1>8
      <4> QED
        BY <1>11, <3>1, <4>1
    <3>2. CASE k \in DOMAIN ran
      <4>1. PICK i \in 1..n : at[i] = k
        BY <1>3, <1>7, <2>3, <3>2 DEF CalledAt
      <4>2. i \in 1..m /\ to[i] = k
        BY <1>8, <1>10, <4>1
      <4> QED
        BY <4>2
    <3> QED
      BY <1>5, <1>7, <3>1, <3>2
  <2> QED
    BY <2>1, <2>2, <2>3 DEF CalledAt
<1> QED
  BY <1>13, <1>14, <1>15 DEF Order

\* A handler is none of the functions.
LEMMA RunHandlerOrder ==
    ASSUME ReadyConstants, StartTypeOK, Order, RunHandler PROVE Order'
<1>1. stack # <<>> /\ top.todo # <<>> /\ ran' = Append(ran, Head(top.todo)) /\ readyList' = readyList /\ added' = added
  BY DEF RunHandler, Call
<1>2. Head(top.todo) \in Handlers /\ Head(top.todo) \notin Functions
  <2>1. top \in Frame
    BY <1>1, TopIs
  <2>2. top.todo \in Seq(Handlers)
    BY <2>1 DEF Frame
  <2>3. Head(top.todo) \in Handlers
    BY <1>1, <2>2, HeadTailProperties
  <2> QED
    BY <2>3 DEF ReadyConstants
<1>3. PICK n \in Nat : Waiting(n) /\ \E at \in [1..n -> DOMAIN ran] : CalledAt(n, at)
  BY DEF Order
<1>4. PICK at \in [1..n -> DOMAIN ran] : CalledAt(n, at)
  BY <1>3
<1>5. Len(ran) \in Nat /\ DOMAIN ran = 1..Len(ran)
  BY ListsAre
<1>6. /\ DOMAIN ran' = 1..(Len(ran) + 1) /\ ran'[Len(ran) + 1] = Head(top.todo)
      /\ \A k \in DOMAIN ran : ran'[k] = ran[k]
  <2>1. ran \in Seq(Functions \union Handlers)
    BY ListsAre
  <2> QED
    BY <1>1, <1>2, <1>5, <2>1, AppendProperties
<1>7. at \in [1..n -> DOMAIN ran']
  BY <1>5, <1>6
<1>8. Waiting(n)'
  BY <1>1, <1>3 DEF Waiting
<1>9. CalledAt(n, at)'
  <2>1. \A i \in 1..n : ran'[at[i]] = added'[i]
    BY <1>1, <1>4, <1>6 DEF CalledAt
  <2>2. ASSUME NEW k \in DOMAIN ran', ran'[k] \in Functions PROVE \E i \in 1..n : at[i] = k
    <3>1. k # Len(ran) + 1
      BY <1>2, <1>6, <2>2
    <3>2. k \in DOMAIN ran
      BY <1>5, <1>6, <3>1
    <3> QED
      BY <1>4, <1>6, <2>2, <3>2 DEF CalledAt
  <2> QED
    BY <1>4, <2>1, <2>2 DEF CalledAt
<1> QED
  BY <1>7, <1>8, <1>9 DEF Order

LEMMA OrderInit == Init => Order
<1> SUFFICES ASSUME Init PROVE Order
  OBVIOUS
<1>1. added = <<>> /\ readyList = <<>> /\ ran = <<>>
  BY DEF Init
<1>2. Waiting(0)
  BY <1>1 DEF Waiting
<1>3. PICK at : at = [i \in 1..0 |-> 1]
  OBVIOUS
<1>4. at \in [1..0 -> DOMAIN ran]
  BY <1>3
<1>5. CalledAt(0, at)
  BY <1>1 DEF CalledAt
<1> QED
  BY <1>2, <1>4, <1>5 DEF Order

LEMMA OrderStep ==
    ASSUME ReadyConstants PROVE StartInv /\ Order /\ [Next]_vars => Order'
<1> SUFFICES ASSUME StartTypeOK, Order, [Next]_vars PROVE Order'
  BY DEF StartInv
<1>1. CASE \E f \in Functions : Register(f)
  BY <1>1, RegisterOrder
<1>2. CASE RunFunction
  BY <1>2, RunFunctionOrder
<1>3. CASE RunHandler
  BY <1>3, RunHandlerOrder
<1>4. CASE UNCHANGED <<added, readyList, ran>>
  <2>1. PICK n \in Nat : Waiting(n) /\ \E at \in [1..n -> DOMAIN ran] : CalledAt(n, at)
    BY DEF Order
  <2>2. PICK at \in [1..n -> DOMAIN ran] : CalledAt(n, at)
    BY <2>1
  <2>3. Waiting(n)'
    BY <1>4, <2>1 DEF Waiting
  <2>4. CalledAt(n, at)'
    BY <1>4, <2>2, Zenon DEF CalledAt
  <2> QED
    BY <1>4, <2>2, <2>3, <2>4 DEF Order
<1>5. ASSUME NEW h \in Handlers, Bind(h) PROVE UNCHANGED <<added, readyList, ran>>
  BY <1>5 DEF Bind
<1>6. ASSUME NEW o \in Holders, Hold(o) \/ LetGo(o) PROVE UNCHANGED <<added, readyList, ran>>
  BY <1>6 DEF Hold, LetGo, history
<1>7. ASSUME Throw \/ Return \/ EndOfList \/ EndOfEvent PROVE UNCHANGED <<added, readyList, ran>>
  BY <1>7 DEF Throw, Return, EndOfList, EndOfEvent, history
<1>8. ASSUME Parse \/ Load \/ Timer \/ UNCHANGED vars PROVE UNCHANGED <<added, readyList, ran>>
  BY <1>8 DEF Parse, Load, Timer, history, vars
<1> QED
  BY <1>1, <1>2, <1>3, <1>4, <1>5, <1>6, <1>7, <1>8 DEF Next, Page, Runs

\* Functions run in the order of registration and each once.
THEOREM EachOnceHolds == ASSUME ReadyConstants PROVE Spec => []EachOnce
<1>1. StartInv /\ Order => EachOnce
  <2> SUFFICES ASSUME StartTypeOK, Order PROVE EachOnce
    BY DEF StartInv
  <2>1. PICK n \in Nat : Waiting(n) /\ \E at \in [1..n -> DOMAIN ran] : CalledAt(n, at)
    BY DEF Order
  <2>2. n \in 0..Len(added)
    BY <2>1, ListsAre DEF Waiting
  <2> QED
    BY <2>1, <2>2 DEF EachOnce
<1> QED
  BY <1>1, OrderInit, OrderStep, StartHolds, PTL DEF Spec

-----------------------------------------------------------------------------
(* The polls.                                                                     *)

CONSTANTS MaxRows, MaxOpen, MaxFails
VARIABLES fails, rows, interval, open, shown

Polls == INSTANCE Dashboard

Requests == [kind : Polls!Kinds, asked : Nat, step : {"sent", "redirected", "answered"}, at : Nat]

PageTypeOK ==
    /\ fails \in Int /\ rows \in Nat
    /\ open \subseteq Requests
    /\ shown \in [Polls!Kinds -> [at : Nat, asked : Nat]]

\* A request asks for no more than there was, and is answered with no less: rows only come.
Fresh(request) ==
    /\ request.asked <= rows
    /\ request.step = "redirected" => request.kind = "values"
    /\ request.step # "sent" =>
          IF request.kind = "series" THEN request.at = request.asked
          ELSE request.asked <= request.at /\ request.at <= rows

PageInv == PageTypeOK /\ (\A request \in open : Fresh(request)) /\ Polls!AsFreshAsAsked

LEMMA PageInit == Polls!Init => PageInv
  BY DEF Polls!Init, PageInv, PageTypeOK, Polls!Kinds, Polls!Nothing, Polls!AsFreshAsAsked

\* A poll asks for what there is now.
LEMMA AskIsFresh ==
    ASSUME PageInv, rows' = rows, Polls!get_current
    PROVE  open' \subseteq Requests /\ \A request \in open' : Fresh(request)'
  BY DEF Polls!get_current, Polls!Ask, PageInv, PageTypeOK, Requests, Fresh, Polls!Kinds

\* Every step keeps the requests that are under way, and what is shown, fresh.
LEMMA PageStep == PageInv /\ [Polls!Next]_(Polls!vars) => PageInv'
<1> SUFFICES ASSUME PageInv, [Polls!Next]_(Polls!vars) PROVE PageInv'
  OBVIOUS
<1> USE DEF PageInv, PageTypeOK, Polls!AsFreshAsAsked
<1>1. CASE UNCHANGED Polls!vars
  BY <1>1 DEF Polls!vars, Fresh
<1>2. CASE Polls!Ready \/ Polls!Poll
  BY <1>2, AskIsFresh DEF Polls!Ready, Polls!Poll
<1>3. CASE Polls!Post
  <2>1. rows' = rows + 1 /\ open' = open /\ shown' = shown /\ fails' = fails
    BY <1>3 DEF Polls!Post
  <2>2. \A request \in open' : Fresh(request)'
    BY <2>1 DEF Fresh, Requests
  <2> QED
    BY <2>1, <2>2 DEF Polls!Kinds
<1>4. ASSUME NEW request \in open, Polls!Answer(request) PROVE PageInv'
  <2>1. request \in Requests /\ Fresh(request) /\ request.step = "sent"
    BY <1>4 DEF Polls!Answer
  <2>2. ASSUME NEW r \in open' PROVE r \in Requests /\ Fresh(r)'
    BY <1>4, <2>1, <2>2 DEF Polls!Answer, Polls!Told, Requests, Fresh, Polls!Kinds
  <2> QED
    BY <1>4, <2>2 DEF Polls!Answer
<1>5. ASSUME NEW request \in open, Polls!Follow(request) PROVE PageInv'
  <2>1. request \in Requests /\ Fresh(request) /\ request.step = "redirected"
    BY <1>5 DEF Polls!Follow
  <2>2. ASSUME NEW r \in open' PROVE r \in Requests /\ Fresh(r)'
    BY <1>5, <2>1, <2>2 DEF Polls!Follow, Requests, Fresh, Polls!Kinds
  <2> QED
    BY <1>5, <2>2 DEF Polls!Follow
<1>6. ASSUME NEW request \in open, Polls!Show(request) PROVE PageInv'
  <2>1. request \in Requests /\ Fresh(request) /\ request.step = "answered"
    BY <1>6 DEF Polls!Show
  <2>2. \A r \in open' : r \in Requests /\ Fresh(r)'
    BY <1>6 DEF Polls!Show, Fresh
  <2> QED
    BY <1>6, <2>1, <2>2 DEF Polls!Show, Requests, Fresh, Polls!Kinds
<1>7. ASSUME NEW request \in open, Polls!Fail(request) PROVE PageInv'
  BY <1>7 DEF Polls!Fail, Fresh
<1> QED
  BY <1>1, <1>2, <1>3, <1>4, <1>5, <1>6, <1>7 DEF Polls!Next

\* Whatever order the answers come in, and whatever is lost: what is shown is no older than
\* the poll that it answers, and never more than the node has.
THEOREM PageIsFresh == Polls!Spec => []Polls!AsFreshAsAsked
<1>1. PageInv => Polls!AsFreshAsAsked
  BY DEF PageInv
<1> QED
  BY PageInit, PageStep, <1>1, PTL DEF Polls!Spec
-----------------------------------------------------------------------------
(* The plots of a placeholder.                                                    *)

CONSTANTS Plots, Options, Points, Manual
VARIABLES plot, options, heard, highlights, redrawTimeout, overlay, listed, last, stale, shut

Overlay == INSTANCE FlotOverlay WITH bound <- heard

OverlayTypeOK ==
    /\ plot \in Nat /\ (plot # 0 => plot \in Plots) /\ stale \in BOOLEAN
    /\ heard \in [Plots -> SUBSET Overlay!Kinds]
    /\ highlights = [p \in Plots |-> highlights[p]]
    /\ redrawTimeout \in [Plots -> {"no", "due", "cleared"}]

\* Only a plot that was shut down has its timer cleared, and none has highlights before it
\* is made.
Timers ==
    /\ \A p \in Plots : redrawTimeout[p] = "cleared" => p \in shut
    /\ \A p \in Plots : p > plot => highlights[p] = <<>> /\ redrawTimeout[p] = "no" /\ p \notin listed \union shut

Lit(hs) == {hs[i].point : i \in DOMAIN hs}

OverlayInv == OverlayTypeOK /\ Timers /\ Overlay!OnlyTheLastLives /\ Overlay!OverlayIsRight

LEMMA OverlayInit == ASSUME Overlay!OverlayConstants PROVE Overlay!Init => OverlayInv
<1> SUFFICES ASSUME Overlay!Init PROVE OverlayInv
  OBVIOUS
<1>1. OverlayTypeOK
  <2>1. plot = 0 /\ stale \in BOOLEAN
    BY Zenon DEF Overlay!Init
  <2>2. heard \in [Plots -> SUBSET Overlay!Kinds] /\ redrawTimeout \in [Plots -> {"no", "due", "cleared"}]
    BY DEF Overlay!Init
  <2>3. highlights = [p \in Plots |-> highlights[p]]
    BY DEF Overlay!Init
  <2> QED
    BY <2>1, <2>2, <2>3 DEF OverlayTypeOK
<1>2. Timers /\ Overlay!OnlyTheLastLives
  BY DEF Overlay!Init, Timers, Overlay!OnlyTheLastLives
<1>3. Overlay!OverlayIsRight
  BY DEF Overlay!Init, Overlay!OverlayIsRight
<1> QED
  BY <1>1, <1>2, <1>3 DEF OverlayInv

\* The plot before is shut down, and the new one begins with nothing on the overlay.
LEMMA ReplotKeeps ==
    ASSUME Overlay!OverlayConstants, OverlayInv, NEW opts \in Options, NEW draws \in BOOLEAN,
           Overlay!Replot(opts, draws)
    PROVE  OverlayInv'
<1>1. PICK q \in Nat : q = plot + 1
  BY DEF OverlayInv, OverlayTypeOK
<1>2. PICK kinds \in SUBSET Overlay!Kinds : kinds = IF draws THEN Overlay!bindEvents(opts) ELSE {}
  BY DEF Overlay!bindEvents, Overlay!Kinds
<1>3. /\ q \in Plots /\ plot' = q /\ overlay' = {} /\ highlights' = highlights /\ stale' = stale
      /\ heard' = [[p \in Plots |-> IF p = plot THEN {} ELSE heard[p]] EXCEPT ![q] = kinds]
      /\ listed' \subseteq listed \union {q} /\ shut' = shut \union ({plot} \intersect Plots)
      /\ redrawTimeout' = [p \in Plots |-> IF p = plot /\ redrawTimeout[p] = "due" THEN "cleared" ELSE redrawTimeout[p]]
  BY <1>1, <1>2 DEF Overlay!Replot, Overlay!shutdown, Overlay!unbind
<1>4. highlights[q] = <<>> /\ redrawTimeout[q] = "no" /\ q # plot /\ q \notin shut'
  BY <1>1, <1>3 DEF OverlayInv, OverlayTypeOK, Timers
<1>5. OverlayTypeOK'
  BY <1>1, <1>2, <1>3 DEF OverlayInv, OverlayTypeOK
<1>6. Timers'
  BY <1>1, <1>3, <1>4 DEF OverlayInv, OverlayTypeOK, Timers, Overlay!OverlayConstants
<1>7. Overlay!OnlyTheLastLives'
  BY <1>1, <1>3, <1>4 DEF OverlayInv, OverlayTypeOK, Overlay!OnlyTheLastLives, Overlay!OverlayConstants
<1>8. Overlay!OverlayIsRight'
  BY <1>3, <1>4 DEF Overlay!OverlayIsRight
<1> QED
  BY <1>5, <1>6, <1>7, <1>8 DEF OverlayInv

\* The plot before is shut down and stays: if its timer was going, that is cleared.
LEMMA NoRoomKeeps ==
    ASSUME OverlayInv, Overlay!NoRoom PROVE OverlayInv'
<1>1. /\ plot \in Plots /\ UNCHANGED <<plot, highlights, overlay, listed, stale>>
      /\ heard' = [p \in Plots |-> IF p = plot THEN {} ELSE heard[p]]
      /\ shut' = shut \union {plot}
      /\ redrawTimeout' = [p \in Plots |-> IF p = plot /\ redrawTimeout[p] = "due" THEN "cleared" ELSE redrawTimeout[p]]
  BY DEF Overlay!NoRoom, Overlay!shutdown, Overlay!unbind, OverlayInv, OverlayTypeOK
<1>2. OverlayTypeOK'
  BY <1>1 DEF OverlayInv, OverlayTypeOK
<1>3. Timers'
  BY <1>1 DEF OverlayInv, OverlayTypeOK, Timers
<1>4. Overlay!OnlyTheLastLives'
  BY <1>1 DEF OverlayInv, OverlayTypeOK, Overlay!OnlyTheLastLives
<1>5. Overlay!OverlayIsRight'
  BY <1>1 DEF OverlayInv, OverlayTypeOK, Overlay!OverlayIsRight
<1> QED
  BY <1>2, <1>3, <1>4, <1>5 DEF OverlayInv

\* The highlights of a plot change, and its timer with them: the plot is the last one, or the
\* page uses one that was replaced.
LEMMA HighlightsChange ==
    ASSUME OverlayInv, NEW p \in Plots, NEW hs, p <= plot,
           highlights' = [highlights EXCEPT ![p] = hs],
           \/ Overlay!triggerRedrawOverlay(p)
           \/ redrawTimeout' = redrawTimeout /\ Lit(hs) = Lit(highlights[p]),
           stale' \in BOOLEAN, stale \/ p # plot => stale', listed' \subseteq listed \union {p},
           UNCHANGED <<plot, heard, overlay, shut>>
    PROVE  OverlayInv'
<1>1. redrawTimeout' = redrawTimeout \/ redrawTimeout' = [redrawTimeout EXCEPT ![p] = IF @ = "no" THEN "due" ELSE @]
  BY DEF Overlay!triggerRedrawOverlay
<1>2. OverlayTypeOK'
  <2>1. redrawTimeout' \in [Plots -> {"no", "due", "cleared"}]
    BY <1>1 DEF OverlayInv, OverlayTypeOK
  <2>2. highlights' = [r \in Plots |-> highlights'[r]]
    BY DEF OverlayInv, OverlayTypeOK
  <2> QED
    BY <2>1, <2>2 DEF OverlayInv, OverlayTypeOK
<1>3. Timers'
  BY <1>1 DEF OverlayInv, OverlayTypeOK, Timers
<1>4. Overlay!OnlyTheLastLives'
  BY <1>1 DEF OverlayInv, OverlayTypeOK, Overlay!OnlyTheLastLives
<1>5. ASSUME plot # 0, ~stale', redrawTimeout'[plot] # "due", ~(redrawTimeout'[plot] = "cleared" /\ plot \in shut)
      PROVE  overlay = Lit(highlights'[plot])
  <2>1. p = plot /\ ~stale
    BY <1>5 DEF OverlayInv, OverlayTypeOK
  <2>2. redrawTimeout[plot] = "no"
    BY <1>1, <1>5, <2>1 DEF OverlayInv, OverlayTypeOK, Timers
  <2>3. redrawTimeout' = redrawTimeout /\ Lit(hs) = Lit(highlights[p])
    BY <1>5, <2>1, <2>2 DEF OverlayInv, OverlayTypeOK, Overlay!triggerRedrawOverlay
  <2>4. highlights'[plot] = hs
    BY <2>1 DEF OverlayInv, OverlayTypeOK
  <2>5. overlay = Lit(highlights[plot])
    BY <1>5, <2>1, <2>2 DEF OverlayInv, Overlay!OverlayIsRight, Lit
  <2> QED
    BY <2>1, <2>3, <2>4, <2>5
<1>6. Overlay!OverlayIsRight'
  BY <1>5 DEF Overlay!OverlayIsRight, Lit
<1> QED
  BY <1>2, <1>3, <1>4, <1>6 DEF OverlayInv

\* Nothing is drawn again only if the same points are highlighted.
LEMMA SamePoints ==
    ASSUME OverlayInv, NEW p \in Plots, Overlay!RedrawIfChanged(p, highlights[p])
    PROVE  \/ Overlay!triggerRedrawOverlay(p)
           \/ redrawTimeout' = redrawTimeout /\ Lit(highlights'[p]) = Lit(highlights[p])
<1> SUFFICES ASSUME ~Overlay!triggerRedrawOverlay(p)
             PROVE  redrawTimeout' = redrawTimeout /\ Lit(highlights'[p]) = Lit(highlights[p])
  OBVIOUS
<1>1. PICK old, new : old = highlights[p] /\ new = highlights'[p]
  OBVIOUS
<1>2. redrawTimeout' = redrawTimeout /\ [i \in DOMAIN old |-> old[i].point] = [i \in DOMAIN new |-> new[i].point]
  BY <1>1 DEF Overlay!RedrawIfChanged
<1>3. DOMAIN old = DOMAIN new /\ \A i \in DOMAIN old : old[i].point = new[i].point
  BY <1>2
<1>4. Lit(new) = Lit(old)
  BY <1>3 DEF Lit
<1> QED
  BY <1>1, <1>2, <1>4

\* What the mouse and the page highlight.
LEMMA HighlightsKeep ==
    ASSUME Overlay!OverlayConstants, OverlayInv, NEW p \in Plots,
           \/ \E kind \in Overlay!Kinds, item \in Points \union {None} : Overlay!MouseEvent(p, kind, item)
           \/ \E point \in Points : Overlay!highlight(p, point) \/ Overlay!unhighlight(p, point)
           \/ Overlay!unhighlightAll(p)
    PROVE  OverlayInv'
<1>1. /\ UNCHANGED <<plot, heard, overlay, shut>> /\ listed' \subseteq listed \union {p}
      /\ \E hs : highlights' = [highlights EXCEPT ![p] = hs]
  <2>1. highlights = [highlights EXCEPT ![p] = highlights[p]]
    BY DEF OverlayInv, OverlayTypeOK
  <2> QED
    BY <2>1 DEF Overlay!MouseEvent, Overlay!highlight, Overlay!unhighlight, Overlay!unhighlightAll
<1>2. PICK hs : highlights' = [highlights EXCEPT ![p] = hs]
  BY <1>1
<1>3. highlights'[p] = hs
  BY <1>2 DEF OverlayInv, OverlayTypeOK
<1>4. Overlay!triggerRedrawOverlay(p) \/ Overlay!RedrawIfChanged(p, highlights[p])
  BY DEF Overlay!MouseEvent, Overlay!highlight, Overlay!unhighlight, Overlay!unhighlightAll
<1>5. \/ Overlay!triggerRedrawOverlay(p)
      \/ redrawTimeout' = redrawTimeout /\ Lit(hs) = Lit(highlights[p])
  BY <1>3, <1>4, SamePoints
<1>6. p <= plot /\ stale' \in BOOLEAN /\ (stale \/ p # plot => stale')
  <2>1. CASE \E kind \in Overlay!Kinds, item \in Points \union {None} : Overlay!MouseEvent(p, kind, item)
    <3>1. heard[p] # {} /\ stale' = stale
      BY <2>1 DEF Overlay!MouseEvent
    <3>2. p = plot
      BY <3>1 DEF OverlayInv, Overlay!OnlyTheLastLives
    <3> QED
      BY <3>1, <3>2 DEF OverlayInv, OverlayTypeOK
  <2>2. CASE (p \in listed \/ p \in 1..plot) /\ stale' = (stale \/ p # plot)
    <3>1. p <= plot
      BY <2>2 DEF OverlayInv, OverlayTypeOK, Timers, Overlay!OverlayConstants
    <3>2. (stale \/ p # plot) \in BOOLEAN
      BY Zenon
    <3> QED
      BY <2>2, <3>1, <3>2, Zenon
  <2> QED
    BY <2>1, <2>2 DEF Overlay!highlight, Overlay!unhighlight, Overlay!unhighlightAll
<1> QED
  BY <1>1, <1>2, <1>5, <1>6, HighlightsChange

LEMMA OverlayStep ==
    ASSUME Overlay!OverlayConstants PROVE OverlayInv /\ [Overlay!Next]_(Overlay!vars) => OverlayInv'
<1> SUFFICES ASSUME OverlayInv, [Overlay!Next]_(Overlay!vars) PROVE OverlayInv'
  OBVIOUS
<1>1. CASE \E opts \in Options, draws \in BOOLEAN : Overlay!Replot(opts, draws)
  BY <1>1, ReplotKeeps
<1>2. CASE Overlay!NoRoom
  BY <1>2, NoRoomKeeps
<1>3. ASSUME NEW p \in Plots,
             \/ \E kind \in Overlay!Kinds, item \in Points \union {None} : Overlay!MouseEvent(p, kind, item)
             \/ \E point \in Points : Overlay!highlight(p, point) \/ Overlay!unhighlight(p, point)
             \/ Overlay!unhighlightAll(p)
      PROVE  OverlayInv'
  BY <1>3, HighlightsKeep
<1>4. ASSUME NEW p \in Plots, Overlay!drawOverlay(p) PROVE OverlayInv'
  <2>1. /\ redrawTimeout[p] = "due" /\ redrawTimeout' = [redrawTimeout EXCEPT ![p] = "no"]
        /\ overlay' = Lit(highlights[p])
        /\ UNCHANGED <<plot, heard, highlights, listed, stale, shut>>
    BY <1>4 DEF Overlay!drawOverlay, Lit
  <2>2. p = plot \/ stale
    BY <2>1 DEF OverlayInv, Overlay!OnlyTheLastLives
  <2>3. OverlayTypeOK' /\ Timers'
    BY <2>1 DEF OverlayInv, OverlayTypeOK, Timers
  <2>4. Overlay!OnlyTheLastLives'
    BY <2>1 DEF OverlayInv, OverlayTypeOK, Overlay!OnlyTheLastLives
  <2>5. Overlay!OverlayIsRight'
    BY <2>1, <2>2 DEF Overlay!OverlayIsRight, Lit
  <2> QED
    BY <2>3, <2>4, <2>5 DEF OverlayInv
<1>5. CASE UNCHANGED Overlay!vars
  BY <1>5 DEF Overlay!vars, OverlayInv, OverlayTypeOK, Timers, Overlay!OnlyTheLastLives, Overlay!OverlayIsRight
<1> QED
  BY <1>1, <1>2, <1>3, <1>4, <1>5 DEF Overlay!Next

LEMMA OverlayHolds == ASSUME Overlay!OverlayConstants PROVE Overlay!Spec => []OverlayInv
<1> QED
  BY OverlayInit, OverlayStep, PTL DEF Overlay!Spec

\* However many plots follow each other on the same canvases, or fail to for want of room,
\* and whatever the page does with those before: the mouse is heard by the last one only,
\* by none if that was shut down, and only its timer is going.
THEOREM OnlyTheLastLivesHolds ==
    ASSUME Overlay!OverlayConstants PROVE Overlay!Spec => []Overlay!OnlyTheLastLives
<1>1. OverlayInv => Overlay!OnlyTheLastLives
  BY DEF OverlayInv
<1> QED
  BY <1>1, OverlayHolds, PTL

\* The overlay shows what is highlighted, or is going to be drawn, unless the page used a
\* plot that was replaced, or the plot was shut down for one that had no room while its
\* timer was going.
THEOREM OverlayIsRightHolds ==
    ASSUME Overlay!OverlayConstants PROVE Overlay!Spec => []Overlay!OverlayIsRight
<1>1. OverlayInv => Overlay!OverlayIsRight
  BY DEF OverlayInv
<1> QED
  BY <1>1, OverlayHolds, PTL
-----------------------------------------------------------------------------
(* Events on their way.                                                           *)

CONSTANTS Elements, Root, parentNode, HasDefault, Inline, Bindings, Results, MaxBinds, MaxDepth
VARIABLES events, hearing, triggered, way, binds, handled, calls, nested, tooEarly

Event == INSTANCE Events WITH listening <- hearing, stack <- way, ran <- handled, early <- tooEarly

\* An event on its way, whatever the values of the page are.
OnWay(A) ==
    [is : A, at : A, target : A, to : A, inline : A, heard : A, handlers : A, j : A, did : A, calls : A,
     stopped : A, prevented : A, immediate : A]

\* A method within a method may have ended early, which is all that a deaf one is spared.
EventInv ==
    /\ \E A : way \in Seq(OnWay(A))
    /\ triggered \in BOOLEAN /\ tooEarly \in BOOLEAN
    /\ Event!DeafOnlyInDefault

\* The methods that run stay as they are.
LEMMA MethodsStay ==
    ASSUME EventInv, UNCHANGED <<triggered, tooEarly>>, \E A : way' \in Seq(OnWay(A)),
           Event!InMethod(way)' <=> Event!InMethod(way)
    PROVE  EventInv'
<1>1. PICK now, then : now = Event!InMethod(way) /\ then = Event!InMethod(way)'
  OBVIOUS
<1>2. now \in BOOLEAN /\ then \in BOOLEAN /\ (now <=> then)
  BY <1>1, Zenon DEF Event!InMethod
<1>3. (triggered => now) /\ (now => triggered \/ tooEarly)
  BY <1>1, Zenon DEF EventInv, Event!DeafOnlyInDefault
<1>4. (triggered' => then) /\ (then => triggered' \/ tooEarly')
  BY <1>2, <1>3 DEF EventInv
<1>5. Event!DeafOnlyInDefault'
  BY <1>1, <1>4, Zenon DEF Event!DeafOnlyInDefault
<1> QED
  BY <1>5 DEF EventInv

LEMMA TopOfWay ==
    ASSUME EventInv, way # <<>>
    PROVE  \E A : /\ way \in Seq(OnWay(A)) /\ Event!top \in OnWay(A) /\ Event!rest \in Seq(OnWay(A))
                  /\ Event!InMethod(way) <=> Event!top.is = "default" \/ Event!InMethod(Event!rest)
<1>1. PICK A : way \in Seq(OnWay(A))
  BY DEF EventInv
<1>2. Len(way) \in Nat /\ Len(way) > 0 /\ DOMAIN way = 1..Len(way)
  BY <1>1
<1>3. PICK t, r : t = Event!top /\ r = Event!rest
  OBVIOUS
<1>4. t = way[Len(way)] /\ t \in OnWay(A)
  BY <1>1, <1>2, <1>3 DEF Event!top, Event!Last
<1>5. r \in Seq(OnWay(A)) /\ Len(r) = Len(way) - 1 /\ \A n \in 1..Len(way) - 1 : r[n] = way[n]
  BY <1>1, <1>2, <1>3 DEF Event!rest, Event!Front
<1>6. Event!InMethod(way) <=> t.is = "default" \/ Event!InMethod(r)
  BY <1>2, <1>4, <1>5 DEF Event!InMethod
<1> QED
  BY <1>1, <1>3, <1>4, <1>5, <1>6

\* One more on its way.
LEMMA OneMore ==
    ASSUME NEW A, NEW below \in Seq(OnWay(A)), NEW B, NEW f \in OnWay(B)
    PROVE  /\ \E C : Append(below, f) \in Seq(OnWay(C))
           /\ Event!InMethod(Append(below, f)) <=> f.is = "default" \/ Event!InMethod(below)
<1>1. PICK C : C = A \union B
  OBVIOUS
<1>2. f \in OnWay(C) /\ below \in Seq(OnWay(C))
  <2>1. f \in OnWay(C)
    BY <1>1 DEF OnWay
  <2>2. OnWay(A) \subseteq OnWay(C)
    BY <1>1 DEF OnWay
  <2> QED
    BY <2>1, <2>2
<1>3. PICK s : s = Append(below, f)
  OBVIOUS
<1>4. /\ s \in Seq(OnWay(C)) /\ Len(s) = Len(below) + 1 /\ Len(below) \in Nat
      /\ s[Len(below) + 1] = f /\ \A n \in 1..Len(below) : s[n] = below[n]
  BY <1>2, <1>3, AppendProperties
<1>5. DOMAIN s = 1..Len(below) + 1 /\ DOMAIN below = 1..Len(below)
  BY <1>2, <1>4
<1>6. Event!InMethod(s) <=> f.is = "default" \/ Event!InMethod(below)
  BY <1>4, <1>5 DEF Event!InMethod
<1> QED
  BY <1>3, <1>4, <1>6

\* An event that comes is what it is said to be, whether its handlers are called or an
\* inline one.
LEMMA Arrives ==
    ASSUME NEW e, NEW target, NEW is, NEW to, NEW prevented, NEW below, NEW deaf,
           Event!Comes(Event!Event(e, target, is, to, prevented, below), below, deaf)
    PROVE  \E f, B : way' = Append(below, f) /\ f \in OnWay(B) /\ f.is = is
<1>1. PICK inline : Event!Event(e, target, is, to, prevented, below) =
          [is |-> is, at |-> e, target |-> target, to |-> to, inline |-> inline,
           heard |-> FALSE, handlers |-> <<>>, j |-> 1, did |-> <<>>, calls |-> None,
           stopped |-> FALSE, prevented |-> prevented, immediate |-> FALSE]
  BY Zenon DEF Event!Event
<1>2. PICK no, yes : no = FALSE /\ yes = TRUE
  OBVIOUS
<1>3. PICK event : event =
          [is |-> is, at |-> e, target |-> target, to |-> to, inline |-> inline,
           heard |-> no, handlers |-> <<>>, j |-> 1, did |-> <<>>, calls |-> None,
           stopped |-> no, prevented |-> prevented, immediate |-> no]
  OBVIOUS
<1>4. Event!Comes(event, below, deaf)
  BY <1>1, <1>2, <1>3, Zenon
<1>5. PICK A, copied : /\ copied = Event!Addressed(e, to)
                       /\ A = {is, e, target, to, inline, no, yes, <<>>, 1, None, prevented, "inline", "all", copied}
  OBVIOUS
<1>6. event \in OnWay(A) /\ event.is = is
  BY <1>3, <1>5 DEF OnWay
<1>7. CASE way' = Append(below, Event!eventHandle(event, deaf))
  <2>1. PICK f : f = Event!eventHandle(event, deaf)
    OBVIOUS
  <2>2. \/ f = [event EXCEPT !.heard = yes]
        \/ \E kind \in {to, "all"} : f = [event EXCEPT !.heard = yes, !.handlers = copied, !.to = kind]
    BY <1>2, <1>3, <1>5, <2>1 DEF Event!eventHandle
  <2>3. f \in OnWay(A) /\ f.is = is
    <3>1. yes \in A /\ copied \in A /\ {to, "all"} \subseteq A
      BY <1>5
    <3>2. CASE f = [event EXCEPT !.heard = yes]
      BY <1>6, <3>1, <3>2 DEF OnWay
    <3>3. ASSUME NEW kind \in A, f = [event EXCEPT !.heard = yes, !.handlers = copied, !.to = kind]
          PROVE  f \in OnWay(A) /\ f.is = is
      BY <1>6, <3>1, <3>3 DEF OnWay
    <3> QED
      BY <2>2, <3>1, <3>2, <3>3
  <2> QED
    BY <1>7, <2>1, <2>3
<1>8. CASE way' = Append(below, [event EXCEPT !.inline = FALSE, !.calls = "inline"])
  <2>1. PICK f : f = [event EXCEPT !.inline = no, !.calls = "inline"]
    OBVIOUS
  <2>2. no \in A /\ "inline" \in A
    BY <1>5
  <2>3. f \in OnWay(A) /\ f.is = is
    BY <1>6, <2>1, <2>2 DEF OnWay
  <2> QED
    BY <1>2, <1>8, <2>1, <2>3
<1> QED
  BY <1>4, <1>7, <1>8 DEF Event!Comes

LEMMA EventInit == Event!Init => EventInv
<1> SUFFICES ASSUME Event!Init PROVE EventInv
  OBVIOUS
<1>1. way = <<>> /\ triggered = FALSE /\ tooEarly = FALSE
  BY DEF Event!Init
<1>2. way \in Seq(OnWay({})) /\ ~Event!InMethod(way)
  BY <1>1 DEF Event!InMethod
<1>3. triggered \in BOOLEAN /\ ~triggered /\ tooEarly \in BOOLEAN
  BY <1>1, Zenon
<1>4. Event!DeafOnlyInDefault
  BY <1>2, <1>3, Zenon DEF Event!DeafOnlyInDefault
<1> QED
  BY <1>2, <1>3, <1>4 DEF EventInv

\* An event comes from the browser or is triggered, or rises.
LEMMA EventsCome ==
    ASSUME EventInv, \/ \E e : Event!Native(e) \/ \E to : Event!trigger(e, to)
                     \/ Event!Rise
    PROVE  EventInv'
<1>1. ASSUME NEW e, NEW to, Event!trigger(e, to) PROVE EventInv'
  <2>1. /\ Event!Comes(Event!Event(e, e, "trigger", to, FALSE, way), way, triggered)
        /\ UNCHANGED <<triggered, tooEarly>>
    BY <1>1 DEF Event!trigger
  <2>2. PICK no : no = FALSE
    OBVIOUS
  <2>3. \E f, B : way' = Append(way, f) /\ f \in OnWay(B) /\ f.is = "trigger"
    <3>1. Event!Comes(Event!Event(e, e, "trigger", to, no, way), way, triggered)
      BY <2>1, <2>2, Zenon
    <3> QED
      BY <3>1, Arrives
  <2>4. PICK f, B : way' = Append(way, f) /\ f \in OnWay(B) /\ f.is = "trigger"
    BY <2>3
  <2>5. PICK A : way \in Seq(OnWay(A))
    BY DEF EventInv
  <2>6. (\E C : Append(way, f) \in Seq(OnWay(C))) /\ (Event!InMethod(Append(way, f)) <=> Event!InMethod(way))
    BY <2>4, <2>5, OneMore
  <2>7. Event!InMethod(way)' <=> Event!InMethod(Append(way, f))
    BY <2>4 DEF Event!InMethod
  <2> QED
    BY <2>1, <2>4, <2>6, <2>7, MethodsStay
<1>2. ASSUME NEW e, Event!Native(e) PROVE EventInv'
  <2>1. /\ Event!Comes(Event!Event(e, e, "native", "all", FALSE, way), way, triggered)
        /\ UNCHANGED <<triggered, tooEarly>>
    BY <1>2 DEF Event!Native, Event!history
  <2>2. PICK no : no = FALSE
    OBVIOUS
  <2>3. \E f, B : way' = Append(way, f) /\ f \in OnWay(B) /\ f.is = "native"
    <3>1. Event!Comes(Event!Event(e, e, "native", "all", no, way), way, triggered)
      BY <2>1, <2>2, Zenon
    <3> QED
      BY <3>1, Arrives
  <2>4. PICK f, B : way' = Append(way, f) /\ f \in OnWay(B) /\ f.is = "native"
    BY <2>3
  <2>5. PICK A : way \in Seq(OnWay(A))
    BY DEF EventInv
  <2>6. (\E C : Append(way, f) \in Seq(OnWay(C))) /\ (Event!InMethod(Append(way, f)) <=> Event!InMethod(way))
    BY <2>4, <2>5, OneMore
  <2>7. Event!InMethod(way)' <=> Event!InMethod(Append(way, f))
    BY <2>4 DEF Event!InMethod
  <2> QED
    BY <2>1, <2>4, <2>6, <2>7, MethodsStay
<1>3. ASSUME Event!Rise PROVE EventInv'
  <2>1. /\ way # <<>> /\ UNCHANGED <<triggered, tooEarly>>
        /\ \E up, target, to, prevented :
              Event!Comes(Event!Event(up, target, Event!top.is, to, prevented, Event!rest), Event!rest, triggered)
    BY <1>3 DEF Event!Rise, Event!AtEnd, Event!Between
  <2>2. PICK t, r : t = Event!top /\ r = Event!rest
    OBVIOUS
  <2>3. PICK up, target, to, prevented : Event!Comes(Event!Event(up, target, t.is, to, prevented, r), r, triggered)
    BY <2>1, <2>2
  <2>4. PICK is : is = t.is
    OBVIOUS
  <2>5. Event!Comes(Event!Event(up, target, is, to, prevented, r), r, triggered)
    BY <2>3, <2>4
  <2>6. PICK f, B : way' = Append(r, f) /\ f \in OnWay(B) /\ f.is = is
    BY <2>5, Arrives
  <2>7. PICK A : r \in Seq(OnWay(A)) /\ (Event!InMethod(way) <=> t.is = "default" \/ Event!InMethod(r))
    BY <2>1, <2>2, TopOfWay
  <2>8. /\ \E C : Append(r, f) \in Seq(OnWay(C))
        /\ Event!InMethod(Append(r, f)) <=> f.is = "default" \/ Event!InMethod(r)
    BY <2>6, <2>7, OneMore
  <2>9. Event!InMethod(way)' <=> Event!InMethod(Append(r, f))
    BY <2>6 DEF Event!InMethod
  <2> QED
    BY <2>1, <2>4, <2>6, <2>7, <2>8, <2>9, MethodsStay
<1> QED
  BY <1>1, <1>2, <1>3

\* The one on top goes on.
LEMMA GoesOn ==
    ASSUME EventInv, way # <<>>, UNCHANGED <<triggered, tooEarly>>,
           NEW B, NEW f \in OnWay(B), f.is = Event!top.is, way' = Append(Event!rest, f)
    PROVE  EventInv'
<1>1. PICK t, r : t = Event!top /\ r = Event!rest
  OBVIOUS
<1>2. PICK A : r \in Seq(OnWay(A)) /\ (Event!InMethod(way) <=> t.is = "default" \/ Event!InMethod(r))
  BY <1>1, TopOfWay
<1>3. /\ \E C : Append(r, f) \in Seq(OnWay(C))
      /\ Event!InMethod(Append(r, f)) <=> f.is = "default" \/ Event!InMethod(r)
  BY <1>2, OneMore
<1>4. way' = Append(r, f)
  BY <1>1
<1>5. Event!InMethod(way)' <=> Event!InMethod(Append(r, f))
  BY <1>4 DEF Event!InMethod
<1> QED
  BY <1>1, <1>2, <1>3, <1>4, <1>5, MethodsStay

\* Handlers are called and return.
LEMMA HandlersKeep ==
    ASSUME EventInv, \/ Event!Hear \/ Event!CallInline \/ Event!handle
                     \/ \E result : Event!Return(result)
    PROVE  EventInv'
<1>1. way # <<>> /\ UNCHANGED <<triggered, tooEarly>>
  BY DEF Event!Hear, Event!CallInline, Event!handle, Event!Return, Event!Between, Event!history
<1>2. PICK t, r : t = Event!top /\ r = Event!rest
  OBVIOUS
<1>3. PICK A : t \in OnWay(A)
  BY <1>1, <1>2, TopOfWay
<1>4. \E B, f : f \in OnWay(B) /\ f.is = t.is /\ way' = Append(r, f)
  <2>1. CASE Event!Hear
    <3>1. PICK yes : yes = TRUE
      OBVIOUS
    <3>2. PICK f : f = Event!eventHandle(t, triggered) /\ way' = Append(r, f)
      BY <1>2, <2>1 DEF Event!Hear
    <3>3. \/ f = [t EXCEPT !.heard = yes]
          \/ \E to : f = [t EXCEPT !.heard = yes, !.handlers = Event!Addressed(t.at, t.to), !.to = to]
      BY <1>3, <3>1, <3>2 DEF Event!eventHandle, OnWay
    <3>4. CASE f = [t EXCEPT !.heard = yes]
      <4>1. f \in OnWay(A \union {yes}) /\ f.is = t.is
        BY <1>3, <3>4 DEF OnWay
      <4> QED
        BY <3>2, <4>1
    <3>5. ASSUME NEW to, NEW copied, f = [t EXCEPT !.heard = yes, !.handlers = copied, !.to = to]
          PROVE  \E B : f \in OnWay(B) /\ f.is = t.is
      <4>1. f \in OnWay(A \union {yes, to, copied}) /\ f.is = t.is
        BY <1>3, <3>5 DEF OnWay
      <4> QED
        BY <4>1
    <3> QED
      BY <3>2, <3>3, <3>4, <3>5
  <2>2. CASE Event!CallInline
    <3>1. PICK no : no = FALSE
      OBVIOUS
    <3>2. PICK f : f = [t EXCEPT !.inline = no, !.calls = "inline"]
      OBVIOUS
    <3>3. way' = Append(r, f)
      BY <1>2, <2>2, <3>1, <3>2 DEF Event!CallInline
    <3>4. f \in OnWay(A \union {no, "inline"}) /\ f.is = t.is
      BY <1>3, <3>2 DEF OnWay
    <3> QED
      BY <3>3, <3>4
  <2>3. CASE Event!handle
    <3>1. PICK c, k, did : way' = Append(r, [t EXCEPT !.calls = c, !.j = k, !.did = did])
      BY <1>2, <2>3 DEF Event!handle
    <3>2. PICK f : f = [t EXCEPT !.calls = c, !.j = k, !.did = did]
      OBVIOUS
    <3>3. f \in OnWay(A \union {c, k, did}) /\ f.is = t.is
      BY <1>3, <3>2 DEF OnWay
    <3> QED
      BY <3>1, <3>2, <3>3
  <2>4. CASE \E result : Event!Return(result)
    <3> PICK result : Event!Return(result)
      BY <2>4
    <3>1. PICK p, s, i : way' = Append(r, [t EXCEPT !.calls = None, !.prevented = p, !.stopped = s, !.immediate = i])
      <4>1. \E p, s, i : way' = Append(Event!rest, [Event!top EXCEPT !.calls = None, !.prevented = p, !.stopped = s, !.immediate = i])
        BY DEF Event!Return
      <4> QED
        BY <1>2, <4>1
    <3>2. PICK f : f = [t EXCEPT !.calls = None, !.prevented = p, !.stopped = s, !.immediate = i]
      OBVIOUS
    <3>3. f \in OnWay(A \union {None, p, s, i}) /\ f.is = t.is
      BY <1>3, <3>2 DEF OnWay
    <3> QED
      BY <3>1, <3>2, <3>3
  <2> QED
    BY <2>1, <2>2, <2>3, <2>4
<1> QED
  BY <1>1, <1>2, <1>4, GoesOn

\* An exception: what the browser sends goes on, so that those that are gone were triggered.
LEMMA ThrowKeeps ==
    ASSUME EventInv, Event!Throw PROVE EventInv'
<1> DEFINE catches == {n \in DOMAIN way : way[n].is # "trigger" \/ way[n].calls = "inline"}
<1>1. way # <<>> /\ UNCHANGED <<triggered, tooEarly>>
  BY DEF Event!Throw
<1>2. CASE catches = {} /\ way' = <<>>
  <2>1. ~Event!InMethod(way)
    BY <1>2 DEF Event!InMethod
  <2>2. ~Event!InMethod(way)' /\ way' \in Seq(OnWay({}))
    BY <1>2 DEF Event!InMethod
  <2> QED
    BY <1>1, <2>1, <2>2, MethodsStay
<1>3. ASSUME NEW n \in catches, \A m \in catches : m <= n, NEW c, NEW i,
             way' = [SubSeq(way, 1, n) EXCEPT ![n].calls = c, ![n].immediate = i]
      PROVE  EventInv'
  <2>1. PICK A : way \in Seq(OnWay(A))
    BY DEF EventInv
  <2>2. DOMAIN way = 1..Len(way) /\ n \in 1..Len(way) /\ n \in Nat /\ Len(way) \in Nat
    BY <1>3, <2>1
  <2>3. PICK s : s = SubSeq(way, 1, n)
    OBVIOUS
  <2>4. s \in Seq(OnWay(A)) /\ Len(s) = n /\ \A k \in 1..n : s[k] = way[k]
    BY <2>1, <2>2, <2>3
  <2>5. PICK B : B = A \union {c, i}
    OBVIOUS
  <2>6. PICK f : f = [way[n] EXCEPT !.calls = c, !.immediate = i]
    OBVIOUS
  <2>7. way[n] \in OnWay(A)
    BY <2>1, <2>2
  <2>8. f \in OnWay(B) /\ f.is = way[n].is
    BY <2>5, <2>6, <2>7 DEF OnWay
  <2>9. s \in Seq(OnWay(B))
    <3>1. OnWay(A) \subseteq OnWay(B)
      BY <2>5 DEF OnWay
    <3> QED
      BY <2>4, <3>1
  <2>10. way' = [s EXCEPT ![n] = f]
    <3>1. s[n] = way[n]
      BY <2>2, <2>4
    <3>2. PICK w : w = way'
      OBVIOUS
    <3>3. w = [s EXCEPT ![n].calls = c, ![n].immediate = i]
      BY <1>3, <2>3, <3>2, Zenon
    <3>4. w = [s EXCEPT ![n] = f]
      BY <2>2, <2>4, <2>6, <2>7, <3>1, <3>3 DEF OnWay
    <3> QED
      BY <3>2, <3>4
  <2>11. way' \in Seq(OnWay(B)) /\ Len(way') = n /\ \A k \in 1..n : way'[k] = IF k = n THEN f ELSE way[k]
    BY <2>2, <2>4, <2>8, <2>9, <2>10
  <2>12. \A k \in 1..n : way'[k].is = way[k].is
    BY <2>2, <2>8, <2>11
  <2>13. \A k \in 1..Len(way) : way[k].is = "default" => k \in 1..n
    BY <1>3, <2>2
  <2>14. DOMAIN way' = 1..n
    BY <2>2, <2>11
  <2>15. Event!InMethod(way)' <=> Event!InMethod(way)
    BY <2>2, <2>12, <2>13, <2>14 DEF Event!InMethod
  <2> QED
    BY <1>1, <2>11, <2>15, MethodsStay
<1> QED
  BY <1>2, <1>3 DEF Event!Throw

\* The method of the element runs, and the end.
LEMMA EndKeeps ==
    ASSUME EventInv, Event!Default \/ Event!End PROVE EventInv'
<1>1. PICK t, r : t = Event!top /\ r = Event!rest
  OBVIOUS
<1>2. way # <<>>
  BY DEF Event!Default, Event!End, Event!AtEnd, Event!Between
<1>3. PICK A : r \in Seq(OnWay(A)) /\ (Event!InMethod(way) <=> t.is = "default" \/ Event!InMethod(r))
  BY <1>1, <1>2, TopOfWay
<1>4. CASE Event!Default
  <2>1. /\ triggered' = TRUE /\ tooEarly' = tooEarly
        /\ Event!Comes(Event!Event(t.target, t.target, "default", "all", FALSE, r), r, TRUE)
    BY <1>1, <1>4 DEF Event!Default, Event!history
  <2>2. PICK no, yes, target : no = FALSE /\ yes = TRUE /\ target = t.target
    OBVIOUS
  <2>3. Event!Comes(Event!Event(target, target, "default", "all", no, r), r, yes)
    BY <2>1, <2>2, Zenon
  <2>4. PICK f, B : way' = Append(r, f) /\ f \in OnWay(B) /\ f.is = "default"
    BY <2>3, Arrives
  <2>5. (\E C : Append(r, f) \in Seq(OnWay(C))) /\ Event!InMethod(Append(r, f))
    BY <1>3, <2>4, OneMore
  <2>6. Event!InMethod(way)'
    BY <2>4, <2>5 DEF Event!InMethod
  <2>7. Event!DeafOnlyInDefault'
    BY <2>1, <2>6, Zenon DEF Event!DeafOnlyInDefault
  <2>8. triggered' \in BOOLEAN /\ tooEarly' \in BOOLEAN
    BY <2>1, Zenon DEF EventInv
  <2>9. \E C : way' \in Seq(OnWay(C))
    BY <2>4, <2>5
  <2> QED
    BY <2>7, <2>8, <2>9 DEF EventInv
<1>5. CASE Event!End
  <2>1. PICK below, default, now : /\ below = Event!InMethod(r) /\ default = (t.is = "default")
                                   /\ now = Event!InMethod(way)
    OBVIOUS
  <2>2. below \in BOOLEAN /\ default \in BOOLEAN /\ now \in BOOLEAN
    BY <2>1, Zenon DEF Event!InMethod
  <2>3. way' = r /\ triggered' = (triggered /\ ~default) /\ tooEarly' = (below /\ (tooEarly \/ default))
    BY <1>1, <1>5, <2>1, Zenon DEF Event!End, Event!Done
  <2>4. triggered \in BOOLEAN /\ tooEarly \in BOOLEAN /\ (triggered => now) /\ (now => triggered \/ tooEarly)
    BY <2>1, Zenon DEF EventInv, Event!DeafOnlyInDefault
  <2>5. now <=> default \/ below
    BY <1>3, <2>1
  <2>6. triggered' \in BOOLEAN /\ tooEarly' \in BOOLEAN /\ (triggered' => below) /\ (below => triggered' \/ tooEarly')
    BY <2>2, <2>3, <2>4, <2>5, Zenon
  <2>7. Event!InMethod(way)' <=> below
    BY <2>1, <2>3 DEF Event!InMethod
  <2>8. Event!DeafOnlyInDefault'
    BY <2>6, <2>7, Zenon DEF Event!DeafOnlyInDefault
  <2> QED
    BY <1>3, <2>3, <2>6, <2>8 DEF EventInv
<1> QED
  BY <1>4, <1>5

LEMMA EventStep == EventInv /\ [Event!Next]_(Event!vars) => EventInv'
<1> SUFFICES ASSUME EventInv, [Event!Next]_(Event!vars) PROVE EventInv'
  OBVIOUS
<1>1. ASSUME UNCHANGED <<way, triggered, tooEarly>> PROVE EventInv'
  BY <1>1, MethodsStay DEF EventInv, Event!InMethod
<1>2. ASSUME NEW b, Event!add(b) PROVE EventInv'
  BY <1>1, <1>2 DEF Event!add
<1>3. ASSUME NEW e, NEW f, NEW ns, Event!unbind(e, f, ns) PROVE EventInv'
  BY <1>1, <1>3 DEF Event!unbind, Event!history
<1>4. CASE UNCHANGED Event!vars
  BY <1>1, <1>4 DEF Event!vars, Event!history
<1> QED
  BY <1>2, <1>3, <1>4, EventsCome, HandlersKeep, ThrowKeeps, EndKeeps DEF Event!Next, Event!Page

\* The library is deaf to the browser while the method of an element runs and only then,
\* whatever the handlers bind, unbind, trigger and throw, and wherever; but for methods
\* around one that has ended within them, as an inline handler may have it.
THEOREM DeafOnlyInDefaultHolds == Event!Spec => []Event!DeafOnlyInDefault
<1>1. EventInv => Event!DeafOnlyInDefault
  BY DEF EventInv
<1> QED
  BY <1>1, EventInit, EventStep, PTL DEF Event!Spec
=============================================================================
