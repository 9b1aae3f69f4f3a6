-------------------------- MODULE PositionStateProofs --------------------------
(***************************************************************************)
(* Proofs about PositionState, for every set of symbols, callers and       *)
(* direct readers, every TTL, window, backoff and time a GET may take, and *)
(* whatever a GET answers.  IInv says who holds which mutex, what the flag *)
(* LAST_READ_OK can mean when a refresh asks for it, and that last_good is *)
(* what was published last; AgeInv adds how old each copy can be.          *)
(***************************************************************************)
EXTENDS PositionState, TLAPS

USE DEF vars, world, get, shared, service, local

\* What is published has the type of a state.
LEMMA PositionsType ==
    ASSUME TypeOK, NEW c \in Callers, NEW rs \in SUBSET Symbols, NEW ok \in BOOLEAN
    PROVE  Positions(dbRead[c], rs, ok) \in SUBSET Symbols
BY DEF TypeOK, Positions

LEMMA BoundsType == OldState \in Nat /\ OldHeld \in Nat
BY TimesAssumption DEF OldState, OldHeld

\* The variables of the threads.
LocalOK ==
    /\ pc \in [Threads -> Labels]
    /\ kind \in [Callers -> Kinds]
    /\ force \in [Callers -> BOOLEAN]
    /\ dbRead \in [Callers -> [ok : BOOLEAN, pos : SUBSET Symbols]]
    /\ rows \in [Threads -> SUBSET Symbols]
    /\ fetched \in [Callers -> BOOLEAN] /\ noted \in [Callers -> BOOLEAN]

\* A caller that goes home is well typed.
LEMMA ReplyType ==
    ASSUME TypeOK, NEW c \in Callers, Reply(c)
    PROVE  LocalOK'
BY DEF Reply, TypeOK, LocalOK, Goto, Labels, Kinds, NoDb, Threads

LEMMA HandType ==
    ASSUME TypeOK, NEW c \in Callers, Hand(c)
    PROVE  LocalOK'
<1>1. CASE Reply(c)
  BY <1>1, ReplyType
<1>2. CASE Verify(c)
  BY <1>2 DEF Verify, TypeOK, LocalOK, Goto, Labels, Threads
<1> QED
  BY <1>1, <1>2 DEF Hand

LEMMA InitType == Init => TypeOK
<1> SUFFICES ASSUME Init PROVE TypeOK
  OBVIOUS
<1> USE ThreadsAssumption, TimesAssumption DEF Init, Threads
<1>1. dbRead \in [Callers -> [ok : BOOLEAN, pos : SUBSET Symbols]]
  BY DEF NoDb
<1>2. pc \in [Threads -> Labels] /\ rows \in [Threads -> SUBSET Symbols]
  BY DEF Labels
<1>3. /\ kind \in [Callers -> Kinds] /\ force \in [Callers -> BOOLEAN]
      /\ fetched \in [Callers -> BOOLEAN] /\ noted \in [Callers -> BOOLEAN]
  BY DEF Kinds
<1>4. cache \in [rows : SUBSET Symbols, left : 0 .. Window, blank : BOOLEAN]
  BY DEF NoRows
<1>5. heldFor \in [Symbols -> Nat] /\ getAge \in 0 .. GetTime
  OBVIOUS
<1> QED
  BY <1>1, <1>2, <1>3, <1>4, <1>5 DEF TypeOK

\* The types along a read.
LEMMA KeepType ==
    ASSUME TypeOK, NEW t \in Threads, NEW rs \in SUBSET Symbols, NEW list \in BOOLEAN,
           Keep(t, rs, list)
    PROVE  rows' \in [Threads -> SUBSET Symbols] /\ fetched' \in [Callers -> BOOLEAN]
<1>1. CASE t \in Callers
  BY <1>1 DEF Keep, TypeOK
<1>2. CASE t \notin Callers
  BY <1>2 DEF Keep, TypeOK
<1> QED
  BY <1>1, <1>2

LEMMA ReadType ==
    ASSUME TypeOK, NEW t \in Threads, Read(t)
    PROVE  TypeOK'
<1> USE TimesAssumption DEF Goto, Labels
<1>1. TypeOK
  OBVIOUS
<1>2. CASE StartRead(t)
  BY <1>1, <1>2 DEF StartRead, TypeOK
<1>3. CASE Queue(t)
  BY <1>1, <1>3 DEF Queue, TypeOK
<1>4. CASE Refused(t)
  BY <1>1, <1>4 DEF Refused, AfterFailure, TypeOK
<1>5. CASE SharedRead(t)
  <2>1. cache.rows \in SUBSET Symbols
    BY <1>1 DEF TypeOK
  <2>3. (~cache.blank) \in BOOLEAN
    OBVIOUS
  <2>2. rows' \in [Threads -> SUBSET Symbols] /\ fetched' \in [Callers -> BOOLEAN]
    BY <1>5, <2>1, <2>3, KeepType DEF SharedRead
  <2> QED
    BY <1>1, <1>5, <2>2 DEF SharedRead, TypeOK
<1>6. CASE SendGet(t)
  BY <1>1, <1>6 DEF SendGet, TypeOK
<1>7. CASE Sample(t)
  BY <1>1, <1>7 DEF Sample, TypeOK
<1>8. CASE BrokerGet(t)
  <2>1. rows[t] \in SUBSET Symbols
    BY <1>1 DEF TypeOK
  <2>2. rows' \in [Threads -> SUBSET Symbols] /\ fetched' \in [Callers -> BOOLEAN]
    BY <1>8, <2>1, KeepType DEF BrokerGet
  <2>3. cache' \in [rows : SUBSET Symbols, left : 0 .. Window, blank : BOOLEAN]
    BY <1>8, <2>1 DEF BrokerGet
  <2>4. pc' \in [Threads -> Labels] /\ getter' = None /\ getAge' \in 0 .. GetTime
    BY <1>1, <1>8 DEF BrokerGet, GetEnds, TypeOK
  <2> QED
    BY <1>1, <1>8, <2>2, <2>3, <2>4 DEF BrokerGet, TypeOK
<1>9. CASE BlankGet(t)
  BY <1>1, <1>9 DEF BlankGet, GetEnds, TypeOK
<1>10. CASE GetFails(t)
  BY <1>1, <1>10 DEF GetFails, AfterFailure, GetEnds, TypeOK
<1>11. CASE NoteOk(t)
  BY <1>1, <1>11 DEF NoteOk, TypeOK
<1> QED
  BY <1>2, <1>3, <1>4, <1>5, <1>6, <1>7, <1>8, <1>9, <1>10, <1>11 DEF Read

\* A refresh ends the call with a new state.
LEMMA PublishType ==
    ASSUME TypeOK, NEW c \in Callers, NEW rs \in SUBSET Symbols, NEW ok \in BOOLEAN,
           Publish(c, rs, ok)
    PROVE  /\ state' \in [pos : SUBSET Symbols, known : BOOLEAN]
           /\ stateAge' = 0 /\ lastGood' \subseteq Symbols
           /\ misread' \in BOOLEAN /\ inflight' = None /\ LocalOK'
<1> DEFINE st == [pos |-> Positions(dbRead[c], rs, ok), known |-> ok]
<1>1. st \in [pos : SUBSET Symbols, known : BOOLEAN]
  BY PositionsType
<1>2. state' = st /\ lastGood' = st.pos /\ Reply(c) /\ misread' = (ok /\ ~fetched[c])
  BY DEF Publish
<1>3. LocalOK'
  BY <1>2, ReplyType
<1>4. misread' \in BOOLEAN
  BY <1>2 DEF TypeOK
<1> QED
  BY <1>1, <1>2, <1>3, <1>4 DEF Publish

\* Every step keeps the types.
LEMMA TypeStep == TypeOK /\ [Next]_vars => TypeOK'
<1> SUFFICES ASSUME TypeOK, [Next]_vars PROVE TypeOK'
  OBVIOUS
<1> USE DEF TypeOK, Threads
<1>1. ASSUME NEW c \in Callers, NEW k \in Kinds, Call(c, k) PROVE TypeOK'
  BY <1>1 DEF Call, Goto, Labels
<1>2. ASSUME NEW c \in Callers, Look(c) PROVE TypeOK'
  <2>1. CASE Hand(c) /\ StateFresh
    BY <1>2, <2>1, HandType DEF Look, LocalOK
  <2>2. CASE Goto(c, "try") /\ UNCHANGED local
    BY <1>2, <2>2 DEF Look, Goto, Labels
  <2> QED
    BY <1>2, <2>1, <2>2 DEF Look
<1>3. ASSUME NEW c \in Callers, TryInflight(c) PROVE TypeOK'
  BY <1>3 DEF TryInflight, Goto, Labels
<1>4. ASSUME NEW c \in Callers, TakeAfterWait(c) PROVE TypeOK'
  BY <1>4 DEF TakeAfterWait, Goto, Labels
<1>5. ASSUME NEW c \in Callers, SharedResult(c) PROVE TypeOK'
  BY <1>5, HandType DEF SharedResult, LocalOK
<1>6. ASSUME NEW c \in Callers, OwnerLook(c) PROVE TypeOK'
  <2>1. CASE Hand(c) /\ inflight' = None
    BY <1>6, <2>1, HandType DEF OwnerLook, LocalOK
  <2>2. CASE Refresh(c)
    BY <1>6, <2>2 DEF OwnerLook, Refresh, Goto, Labels, Kinds
  <2> QED
    BY <1>6, <2>1, <2>2 DEF OwnerLook
<1>r. Remaining \subseteq Nat
  BY TimesAssumption DEF Remaining
<1>7. ASSUME NEW c \in Callers, ReadDb(c) PROVE TypeOK'
  <2>1. dbWait' \in Nat
    BY <1>7, <1>r DEF ReadDb
  <2>2. dbRead' \in [Callers -> [ok : BOOLEAN, pos : SUBSET Symbols]]
    <3>1. NoDb \in [ok : BOOLEAN, pos : SUBSET Symbols]
      BY DEF NoDb
    <3>2. \A open \in SUBSET Symbols :
              [ok |-> TRUE, pos |-> open] \in [ok : BOOLEAN, pos : SUBSET Symbols]
      OBVIOUS
    <3>3. PICK d : d \in [ok : BOOLEAN, pos : SUBSET Symbols] /\ dbRead' = [dbRead EXCEPT ![c] = d]
      BY <1>7, <3>1, <3>2 DEF ReadDb
    <3> QED
      BY <3>3
  <2>3. pc' \in [Threads -> Labels]
    BY <1>7 DEF ReadDb, Goto, Labels
  <2> QED
    BY <1>7, <2>1, <2>2, <2>3 DEF ReadDb
<1>8. ASSUME NEW c \in Callers, SkipBroker(c) PROVE TypeOK'
  <2>1. Publish(c, {}, FALSE) /\ UNCHANGED <<world, shared, dbWait, brokerWait>>
    BY <1>8 DEF SkipBroker
  <2>2. /\ state' \in [pos : SUBSET Symbols, known : BOOLEAN]
        /\ stateAge' = 0 /\ lastGood' \subseteq Symbols
        /\ misread' \in BOOLEAN /\ inflight' = None /\ LocalOK'
    BY <2>1, PublishType
  <2> QED
    BY <2>1, <2>2 DEF LocalOK
<1>9. ASSUME NEW c \in Callers, Decide(c) PROVE TypeOK'
  <2>1. (IF lastReadOk THEN rows[c] ELSE {}) \in SUBSET Symbols
    OBVIOUS
  <2>2. brokerWait' \in Nat
    <3>1. brokerWait' = 0 \/ brokerWait' \in Remaining
      <4>1. CASE lastReadOk
        BY <1>9, <4>1, ZenonT(20) DEF Decide
      <4>2. CASE ~lastReadOk
        BY <1>9, <4>2, ZenonT(20) DEF Decide
      <4> QED
        BY <4>1, <4>2
    <3>2. 0 \in Nat
      OBVIOUS
    <3> QED
      BY <3>1, <3>2, <1>r, ZenonT(20)
  <2>3. UNCHANGED <<world, shared, dbWait>>
    BY <1>9 DEF Decide
  <2>4. Publish(c, IF lastReadOk THEN rows[c] ELSE {}, lastReadOk) /\ lastReadOk \in BOOLEAN
    BY <1>9 DEF Decide
  <2>5. /\ state' \in [pos : SUBSET Symbols, known : BOOLEAN]
        /\ stateAge' = 0 /\ lastGood' \subseteq Symbols
        /\ misread' \in BOOLEAN /\ inflight' = None /\ LocalOK'
    BY <2>1, <2>4, PublishType
  <2> QED
    BY <2>2, <2>3, <2>5 DEF LocalOK
<1>10. ASSUME NEW t \in Threads, Read(t) PROVE TypeOK'
  BY <1>10, ReadType
<1>15. ASSUME NEW s \in Symbols, Fill(s) \/ Unwind(s) PROVE TypeOK'
  BY <1>15 DEF Fill, Unwind
<1>16. CASE Tick
  <2> USE <1>16 DEF Tick
  <2>1. cache' \in [rows : SUBSET Symbols, left : 0 .. Window, blank : BOOLEAN]
    <3>1. CASE cache.left <= 1
      BY <3>1, TimesAssumption DEF NoRows
    <3>2. CASE ~(cache.left <= 1)
      <4>1. /\ cache.rows \in SUBSET Symbols /\ cache.left \in 0 .. Window
            /\ cache.blank \in BOOLEAN
            /\ cache = [rows |-> cache.rows, left |-> cache.left, blank |-> cache.blank]
        OBVIOUS
      <4>2. cache.left - 1 \in 0 .. Window
        BY <3>2, <4>1, TimesAssumption
      <4>3. cache' = [cache EXCEPT !.left = cache.left - 1]
        BY <3>2
      <4> QED
        BY <4>1, <4>2, <4>3
    <3> QED
      BY <3>1, <3>2
  <2>2. cacheWait' \in Nat /\ dbWait' \in Nat /\ brokerWait' \in Nat
    BY DEF Less1
  <2>3. stateAge' \in Nat /\ heldFor' \in [Symbols -> Nat]
    <3>1. OldState \in Nat /\ OldHeld \in Nat
      BY BoundsType
    <3> QED
      BY <3>1 DEF Least
  <2>4. getAge' \in 0 .. GetTime
    BY TimesAssumption
  <2> QED
    BY <2>1, <2>2, <2>3, <2>4
<1>17. CASE UNCHANGED vars
  BY <1>17
<1> QED
  BY <1>1, <1>2, <1>3, <1>4, <1>5, <1>6, <1>7, <1>8, <1>9, <1>10, <1>15, <1>16, <1>17
     DEF Next, Step

\* Types are kept whatever the threads, the broker and the DB do.
THEOREM TypeCorrect == Spec => []TypeOK
BY InitType, TypeStep, PTL DEF Spec

----------------------------------------------------------------------------
(* Who holds which mutex, and what LAST_READ_OK means *)

\* Handing out a state takes the caller out of the code that holds the mutex.
LEMMA HandMoves ==
    ASSUME NEW c \in Callers, Hand(c)
    PROVE  \/ /\ pc' = [pc EXCEPT ![c] = "idle"]
              /\ rows' = [rows EXCEPT ![c] = {}]
              /\ fetched' = [fetched EXCEPT ![c] = FALSE]
              /\ noted' = [noted EXCEPT ![c] = FALSE]
           \/ /\ pc' = [pc EXCEPT ![c] = "try"]
              /\ UNCHANGED <<rows, fetched, noted>>
BY DEF Hand, Reply, Verify, Goto

\* So does the end of a refresh.
LEMMA PublishReplies ==
    ASSUME NEW c \in Callers, NEW rs, NEW ok, Publish(c, rs, ok)
    PROVE  /\ pc' = [pc EXCEPT ![c] = "idle"]
           /\ rows' = [rows EXCEPT ![c] = {}]
           /\ fetched' = [fetched EXCEPT ![c] = FALSE]
           /\ noted' = [noted EXCEPT ![c] = FALSE]
           /\ inflight' = None
           /\ state' = [pos |-> Positions(dbRead[c], rs, ok), known |-> ok]
           /\ stateAge' = 0 /\ misread' = (ok /\ ~fetched[c])
           /\ lastGood' = state'.pos
BY DEF Publish, Reply, Goto

\* Both ends of a refresh.
LEMMA RefreshPublishes ==
    ASSUME TypeOK, NEW c \in Callers, SkipBroker(c) \/ Decide(c)
    PROVE  \E ok \in BOOLEAN :
               /\ pc[c] = IF ok THEN "status" ELSE pc[c]
               /\ pc[c] \in {"broker", "status"}
               /\ pc[c] = "status" => ok = lastReadOk
               /\ Publish(c, IF ok THEN rows[c] ELSE {}, ok)
               /\ UNCHANGED <<world, shared>>
<1>1. CASE SkipBroker(c)
  <2>1. /\ pc[c] = "broker" /\ UNCHANGED <<world, shared>>
        /\ Publish(c, IF FALSE THEN rows[c] ELSE {}, FALSE)
    BY <1>1 DEF SkipBroker
  <2> QED
    BY <2>1
<1>2. CASE Decide(c)
  <2>1. /\ pc[c] = "status" /\ UNCHANGED <<world, shared>>
        /\ Publish(c, IF lastReadOk THEN rows[c] ELSE {}, lastReadOk)
        /\ lastReadOk \in BOOLEAN
    BY <1>2 DEF Decide, TypeOK
  <2> QED
    BY <2>1
<1> QED
  BY <1>1, <1>2

\* A step outside the reader moves one caller, which is not in the reader and
\* does not come in, and leaves the reader's globals and the shared GET alone.
Outside(c) ==
    /\ \E l \in Labels \ Reading : pc' = [pc EXCEPT ![c] = l]
    /\ pc[c] \notin Reading \ {"status"}
    /\ UNCHANGED shared
    /\ \/ noted' = [noted EXCEPT ![c] = FALSE]
       \/ noted' = noted /\ pc[c] # "status"

LEMMA StepOutside ==
    ASSUME TypeOK, NEW c \in Callers, Step(c) \/ \E k \in Kinds : Call(c, k)
    PROVE  Outside(c)
<1> USE DEF Outside, Reading, Labels, Goto
<1>1. CASE \E k \in Kinds : Call(c, k)
  BY <1>1 DEF Call
<1>2. CASE Look(c)
  BY <1>2, HandMoves DEF Look
<1>3. CASE TryInflight(c) \/ TakeAfterWait(c) \/ ReadDb(c)
  BY <1>3 DEF TryInflight, TakeAfterWait, ReadDb
<1>4. CASE SharedResult(c)
  BY <1>4, HandMoves DEF SharedResult
<1>5. CASE OwnerLook(c)
  BY <1>5, HandMoves DEF OwnerLook, Refresh
<1>6. CASE SkipBroker(c) \/ Decide(c)
  BY <1>6, RefreshPublishes, PublishReplies
<1> QED
  BY <1>1, <1>2, <1>3, <1>4, <1>5, <1>6 DEF Step

\* The GET under way is that of the thread at "get" or "got".
LEMMA GetterStep == TypeOK /\ GetterOK /\ [Next]_vars => GetterOK'
<1> SUFFICES ASSUME TypeOK, GetterOK, [Next]_vars PROVE GetterOK'
  OBVIOUS
<1>1. /\ pc \in [Threads -> Labels] /\ None \notin Threads /\ Callers \subseteq Threads
      /\ \A t \in Threads : pc[t] \in {"get", "got"} <=> getter = t
  BY ThreadsAssumption DEF TypeOK, GetterOK, Threads
<1>2. CASE Tick \/ (\E s \in Symbols : Fill(s) \/ Unwind(s)) \/ UNCHANGED vars
  BY <1>1, <1>2 DEF Tick, Fill, Unwind, GetterOK
<1>3. ASSUME NEW c \in Callers, Step(c) \/ \E k \in Kinds : Call(c, k) PROVE GetterOK'
  BY <1>1, <1>3, StepOutside DEF Outside, GetterOK, Reading
<1>4. ASSUME NEW t \in Threads, Read(t) PROVE GetterOK'
  <2> USE <1>1 DEF GetterOK, Goto
  <2>1. CASE StartRead(t)
    BY <2>1 DEF StartRead
  <2>2. CASE SharedRead(t) \/ Queue(t) \/ NoteOk(t)
    BY <2>2 DEF SharedRead, Queue, NoteOk
  <2>3. CASE Refused(t)
    BY <2>3 DEF Refused, AfterFailure
  <2>4. CASE SendGet(t) \/ Sample(t)
    BY <2>4 DEF SendGet, Sample
  <2>5. CASE BrokerGet(t) \/ BlankGet(t)
    BY <2>5 DEF BrokerGet, BlankGet, GetEnds
  <2>6. CASE GetFails(t)
    BY <2>6 DEF GetFails, AfterFailure, GetEnds
  <2> QED
    BY <1>4, <2>1, <2>2, <2>3, <2>4, <2>5, <2>6 DEF Read
<1> QED
  BY <1>2, <1>3, <1>4 DEF Next

\* The end of a GET leaves an answer or a backoff, and neither goes away while a
\* caller is about to look.
LEMMA QueueStep == TypeOK /\ QueueOK /\ [Next]_vars => QueueOK'
<1> SUFFICES ASSUME TypeOK, QueueOK, [Next]_vars PROVE QueueOK'
  OBVIOUS
<1>1. /\ pc \in [Threads -> Labels] /\ None \notin Threads /\ Callers \subseteq Threads
      /\ cache.left \in Nat /\ cacheWait \in Nat /\ QueueOK
  BY ThreadsAssumption, TimesAssumption DEF TypeOK, Threads
<1>2. CASE Tick
  BY <1>1, <1>2 DEF Tick, Resting, QueueOK
<1>3. CASE (\E s \in Symbols : Fill(s) \/ Unwind(s)) \/ UNCHANGED vars
  BY <1>1, <1>3 DEF Fill, Unwind, QueueOK
<1>4. ASSUME NEW c \in Callers, Step(c) \/ \E k \in Kinds : Call(c, k) PROVE QueueOK'
  BY <1>1, <1>4, StepOutside DEF Outside, QueueOK, Reading
<1>5. ASSUME NEW t \in Threads, Read(t) PROVE QueueOK'
  <2> USE <1>1, TimesAssumption DEF QueueOK, Goto
  <2>1. CASE StartRead(t) \/ SharedRead(t) \/ Queue(t) \/ NoteOk(t)
    BY <2>1 DEF StartRead, SharedRead, Queue, NoteOk
  <2>3. CASE Refused(t)
    BY <2>3 DEF Refused, AfterFailure
  <2>4. CASE SendGet(t) \/ Sample(t)
    BY <2>4 DEF SendGet, Sample
  <2>5. CASE BrokerGet(t) \/ BlankGet(t)
    <3>1. \/ cache' = [rows |-> rows[t], left |-> Window, blank |-> FALSE]
          \/ cache' = [rows |-> {}, left |-> Window, blank |-> TRUE]
      BY <2>5 DEF BrokerGet, BlankGet
    <3> QED
      BY <3>1
  <2>6. CASE GetFails(t)
    <3>1. cacheWait' > 0
      BY <2>6 DEF GetFails
    <3> QED
      BY <3>1
  <2> QED
    BY <1>5, <2>1, <2>3, <2>4, <2>5, <2>6 DEF Read
<1> QED
  BY <1>2, <1>3, <1>4, <1>5 DEF Next

\* A refresh resets LAST_READ_OK before it reads: what it finds there afterwards
\* was noted in between.
LEMMA NotedStep == TypeOK /\ NotedOK /\ [Next]_vars => NotedOK'
<1> SUFFICES ASSUME TypeOK, NotedOK, [Next]_vars PROVE NotedOK'
  OBVIOUS
<1>1. /\ pc \in [Threads -> Labels] /\ Callers \subseteq Threads
      /\ noted \in [Callers -> BOOLEAN] /\ lastReadOk \in BOOLEAN
      /\ Callers \cap Direct = {}
      /\ \A c \in Callers :
             IF pc[c] \in Reading THEN lastReadOk => noted[c] ELSE ~noted[c]
  BY ThreadsAssumption DEF TypeOK, NotedOK, Threads
<1>2. CASE Tick \/ (\E s \in Symbols : Fill(s) \/ Unwind(s)) \/ UNCHANGED vars
  <2>1. UNCHANGED <<pc, noted, lastReadOk>>
    BY <1>2 DEF Tick, Fill, Unwind
  <2> QED
    BY <1>1, <2>1 DEF NotedOK
<1>3. ASSUME NEW c \in Callers, Step(c) \/ \E k \in Kinds : Call(c, k) PROVE NotedOK'
  <2>1. PICK l \in Labels \ Reading : pc' = [pc EXCEPT ![c] = l]
    BY <1>3, StepOutside DEF Outside
  <2>2. lastReadOk' = lastReadOk /\ ~noted'[c] /\ \A d \in Callers \ {c} : noted'[d] = noted[d]
    BY <1>1, <1>3, StepOutside DEF Outside, Reading
  <2> QED
    BY <1>1, <2>1, <2>2 DEF NotedOK
<1>4. ASSUME NEW t \in Threads, Read(t) PROVE NotedOK'
  <2>1. ASSUME UNCHANGED <<noted, lastReadOk>>,
               \A c \in Callers : pc'[c] \in Reading <=> pc[c] \in Reading
        PROVE  NotedOK'
    BY <1>1, <2>1 DEF NotedOK
  <2> USE <1>1 DEF Goto
  <2>2. CASE StartRead(t)
    <3>1. lastReadOk' = FALSE /\ noted' = noted /\ pc' = [pc EXCEPT ![t] = "fetch"]
          /\ (t \in Callers => pc[t] \notin Reading)
      BY <2>2 DEF StartRead, Reading
    <3> QED
      BY <3>1 DEF NotedOK, Reading
  <2>3. CASE SharedRead(t) \/ Queue(t) \/ SendGet(t) \/ Sample(t)
    BY <2>1, <2>3 DEF SharedRead, Queue, SendGet, Sample, Reading
  <2>4. CASE Refused(t)
    BY <2>1, <2>4 DEF Refused, AfterFailure, Reading
  <2>5. CASE BrokerGet(t) \/ BlankGet(t)
    BY <2>1, <2>5 DEF BrokerGet, BlankGet, Reading
  <2>6. CASE GetFails(t)
    BY <2>1, <2>6 DEF GetFails, AfterFailure, Reading
  <2>7. CASE NoteOk(t)
    <3>1. \A c \in Callers : /\ pc'[c] \in Reading <=> pc[c] \in Reading
                             /\ noted'[c] = (noted[c] \/ pc[c] \in Reading)
      BY <2>7 DEF NoteOk, Reading
    <3> QED
      BY <3>1 DEF NotedOK
  <2> QED
    BY <1>4, <2>2, <2>3, <2>4, <2>5, <2>6, <2>7 DEF Read
<1> QED
  BY <1>2, <1>3, <1>4 DEF Next

\* What is published becomes last_good with it.
LEMMA LastGoodStep == TypeOK /\ LastGoodOK /\ [Next]_vars => LastGoodOK'
<1> SUFFICES ASSUME TypeOK, LastGoodOK, [Next]_vars PROVE LastGoodOK'
  OBVIOUS
<1>1. ASSUME UNCHANGED <<state, lastGood>> PROVE LastGoodOK'
  BY <1>1 DEF LastGoodOK
<1>2. ASSUME NEW c \in Callers, SkipBroker(c) \/ Decide(c) PROVE LastGoodOK'
  <2>1. PICK ok \in BOOLEAN : Publish(c, IF ok THEN rows[c] ELSE {}, ok)
    BY <1>2, RefreshPublishes
  <2>2. (IF ok THEN rows[c] ELSE {}) \in SUBSET Symbols
    BY DEF TypeOK, Threads
  <2>3. state' # None
    BY <2>1, <2>2, PublishType, NoStateAssumption
  <2> QED
    BY <2>1, <2>3, PublishReplies DEF LastGoodOK
<1>3. ASSUME NEW c \in Callers, Step(c) \/ \E k \in Kinds : Call(c, k),
             ~(SkipBroker(c) \/ Decide(c))
      PROVE  LastGoodOK'
  BY <1>1, <1>3 DEF Step, Call, Look, TryInflight, TakeAfterWait, SharedResult, OwnerLook, ReadDb
<1>4. ASSUME NEW t \in Threads, Read(t) PROVE LastGoodOK'
  BY <1>1, <1>4 DEF Read, StartRead, SharedRead, Queue, Refused, SendGet, Sample, BrokerGet,
                    BlankGet, GetFails, NoteOk
<1>5. CASE Tick \/ (\E s \in Symbols : Fill(s) \/ Unwind(s)) \/ UNCHANGED vars
  BY <1>1, <1>5 DEF Tick, Fill, Unwind
<1> QED
  BY <1>2, <1>3, <1>4, <1>5 DEF Next

\* The ways through the code that holds the mutex, apart from those that leave.
Ways == {<<"own", "db">>, <<"db", "broker">>, <<"broker", "fetch">>,
         <<"fetch", "queue">>, <<"fetch", "get">>, <<"fetch", "noteok">>, <<"fetch", "status">>,
         <<"queue", "noteok">>, <<"queue", "status">>,
         <<"get", "got">>, <<"get", "noteok">>, <<"get", "status">>,
         <<"got", "noteok">>, <<"got", "status">>, <<"noteok", "status">>}

\* A caller stays outside, comes in through a free mutex, goes on inside, or
\* leaves and frees it.
Passes(c) ==
    \/ pc[c] \notin Holding /\ pc'[c] \notin Holding /\ inflight' = inflight
    \/ pc[c] \notin Holding /\ pc'[c] \in {"own", "shared"} /\ inflight = None /\ inflight' = c
    \/ <<pc[c], pc'[c]>> \in Ways /\ inflight' = inflight
    \/ pc[c] \in Holding /\ pc'[c] \notin Holding /\ inflight' = None

LEMMA GoPasses ==
    ASSUME TypeOK, NEW c \in Callers, Go(c)
    PROVE  Passes(c) /\ \A d \in Callers \ {c} : pc'[d] = pc[d]
<1>1. /\ pc \in [Threads -> Labels] /\ Callers \subseteq Threads
      /\ Callers \cap Direct = {}
  BY ThreadsAssumption DEF TypeOK, Threads
<1> USE <1>1 DEF Passes, Ways, Holding, Reading, Goto
<1>2. CASE \E k \in Kinds : Call(c, k)
  BY <1>2 DEF Call
<1>3. CASE Look(c)
  BY <1>3, HandMoves DEF Look
<1>4. CASE TryInflight(c)
  BY <1>4 DEF TryInflight
<1>5. CASE TakeAfterWait(c)
  BY <1>5 DEF TakeAfterWait
<1>6. CASE SharedResult(c)
  BY <1>6, HandMoves DEF SharedResult
<1>7. CASE OwnerLook(c)
  BY <1>7, HandMoves DEF OwnerLook, Refresh
<1>8. CASE ReadDb(c)
  BY <1>8 DEF ReadDb
<1>9. CASE SkipBroker(c) \/ Decide(c)
  BY <1>9, RefreshPublishes, PublishReplies
<1>10. CASE StartRead(c)
  BY <1>10 DEF StartRead
<1>11. CASE SharedRead(c) \/ Queue(c) \/ SendGet(c) \/ Sample(c)
  BY <1>11 DEF SharedRead, Queue, SendGet, Sample
<1>12. CASE Refused(c) \/ GetFails(c)
  BY <1>12 DEF Refused, GetFails, AfterFailure
<1>13. CASE BrokerGet(c) \/ BlankGet(c)
  BY <1>13 DEF BrokerGet, BlankGet
<1>14. CASE NoteOk(c)
  BY <1>14 DEF NoteOk
<1> QED
  BY <1>2, <1>3, <1>4, <1>5, <1>6, <1>7, <1>8, <1>9, <1>10, <1>11, <1>12, <1>13, <1>14
     DEF Go, Step, Read

\* A read moves the thread that reads, and never the mutex of the service.
LEMMA ReadAlone ==
    ASSUME TypeOK, NEW t \in Threads, Read(t)
    PROVE  /\ UNCHANGED <<world, service, inflight>>
           /\ \A u \in Threads \ {t} : pc'[u] = pc[u]
BY DEF Read, StartRead, SharedRead, Queue, Refused, AfterFailure, SendGet, Sample, BrokerGet,
       BlankGet, GetFails, NoteOk, Goto, TypeOK

\* Nothing else that happens moves a caller or the mutex.
LEMMA OneGoes ==
    ASSUME TypeOK, [Next]_vars, ~\E c \in Callers : Go(c)
    PROVE  inflight' = inflight /\ \A c \in Callers : pc'[c] = pc[c]
<1>1. CASE Tick \/ (\E s \in Symbols : Fill(s) \/ Unwind(s)) \/ UNCHANGED vars
  BY <1>1 DEF Tick, Fill, Unwind
<1>2. ASSUME NEW t \in Threads \ Callers, Read(t)
      PROVE  inflight' = inflight /\ \A c \in Callers : pc'[c] = pc[c]
  BY <1>2, ReadAlone DEF Threads
<1> QED
  BY <1>1, <1>2 DEF Next, Go

LEMMA HolderStep == TypeOK /\ HolderOK /\ [Next]_vars => HolderOK'
<1> SUFFICES ASSUME TypeOK, HolderOK, [Next]_vars PROVE HolderOK'
  OBVIOUS
<1>1. CASE ~\E c \in Callers : Go(c)
  BY <1>1, OneGoes DEF HolderOK
<1>2. ASSUME NEW c \in Callers, Go(c) PROVE HolderOK'
  BY <1>2, GoPasses, ThreadsAssumption DEF HolderOK, Passes, Ways, Holding, Reading
<1> QED
  BY <1>1, <1>2

LEMMA Invariance == Spec => []IInv
<1>1. Init => IInv
  <2> SUFFICES ASSUME Init PROVE IInv
    OBVIOUS
  <2>1. HolderOK /\ GetterOK
    BY ThreadsAssumption DEF Init, HolderOK, GetterOK, Holding, Reading, Threads
  <2>2. QueueOK /\ NotedOK /\ LastGoodOK
    BY DEF Init, QueueOK, NotedOK, LastGoodOK, Reading, Threads
  <2> QED
    BY <2>1, <2>2, InitType DEF IInv
<1>2. IInv /\ [Next]_vars => IInv'
  BY TypeStep, HolderStep, GetterStep, QueueStep, NotedStep, LastGoodStep DEF IInv
<1> QED
  BY <1>1, <1>2, PTL DEF Spec

----------------------------------------------------------------------------
(* What is published *)

\* A refresh that skipped the broker, or one that asked the reader how its read
\* went; no other step publishes.
LEMMA PublishStep ==
    ASSUME IInv, [Next]_vars, NEW c \in Callers, Publishes(c)
    PROVE  \/ state' = [pos |-> Positions(dbRead[c], {}, FALSE), known |-> FALSE]
           \/ /\ state' = [pos |-> Positions(dbRead[c], rows[c], TRUE), known |-> TRUE]
              /\ noted[c]
<1>1. /\ pc \in [Threads -> Labels] /\ TypeOK /\ NotedOK /\ Callers \subseteq Threads
      /\ pc[c] \in {"broker", "status"} /\ pc'[c] = "idle" /\ Callers \cap Direct = {}
  BY ThreadsAssumption DEF IInv, TypeOK, Threads, Publishes
<1>2. Go(c)
  <2>1. ASSUME NEW d \in Callers \ {c}, Go(d) PROVE FALSE
    BY <1>1, <2>1, GoPasses
  <2> QED
    BY <1>1, <2>1, OneGoes
<1>3. SkipBroker(c) \/ Decide(c)
  <2>1. CASE Read(c)
    <3>1. pc'[c] # "idle"
      BY <1>1, <2>1 DEF Read, StartRead, SharedRead, Queue, Refused, AfterFailure, SendGet,
                        Sample, BrokerGet, BlankGet, GetFails, NoteOk, Goto
    <3> QED
      BY <1>1, <3>1
  <2>2. CASE Step(c) \/ \E k \in Kinds : Call(c, k)
    BY <1>1, <2>2 DEF Step, Call, Look, TryInflight, TakeAfterWait, SharedResult, OwnerLook,
                      ReadDb, Goto
  <2> QED
    BY <1>2, <2>1, <2>2 DEF Go
<1>4. PICK ok \in BOOLEAN :
          /\ pc[c] = IF ok THEN "status" ELSE pc[c]
          /\ pc[c] = "status" => ok = lastReadOk
          /\ Publish(c, IF ok THEN rows[c] ELSE {}, ok)
  BY <1>1, <1>3, RefreshPublishes
<1>5. state' = [pos |-> Positions(dbRead[c], IF ok THEN rows[c] ELSE {}, ok), known |-> ok]
  BY <1>4, PublishReplies
<1>6. CASE ok = TRUE
  <2>1. pc[c] = "status" /\ lastReadOk
    BY <1>4, <1>6
  <2>2. noted[c]
    BY <1>1, <2>1 DEF NotedOK, Reading
  <2> QED
    BY <1>5, <1>6, <2>2
<1>7. CASE ok = FALSE
  BY <1>5, <1>7
<1> QED
  BY <1>6, <1>7

\* A refresh publishes a state as known only when a reader has noted a success
\* since this refresh reset LAST_READ_OK, whatever the other threads and both
\* backoffs do and whatever a GET answers (_read_broker_positions 263-271).
THEOREM KnownNeedsSuccessCorrect == Spec => KnownNeedsSuccess
<1>1. IInv /\ [Next]_vars =>
        \A c \in Callers : Publishes(c) /\ state'.known => noted[c]
  <2> SUFFICES ASSUME IInv, [Next]_vars, NEW c \in Callers, Publishes(c), state'.known
               PROVE  noted[c]
    OBVIOUS
  <2>1. CASE state' = [pos |-> Positions(dbRead[c], {}, FALSE), known |-> FALSE]
    <3>1. state'.known = FALSE
      BY <2>1
    <3> QED
      BY <3>1
  <2>2. CASE noted[c]
    BY <2>2
  <2> QED
    BY <2>1, <2>2, PublishStep
<1> QED
  BY <1>1, Invariance, PTL DEF Spec, KnownNeedsSuccess

\* With the DB unreadable and no reader getting through to the broker the
\* positions are those of the last state (rule D of _decide).
THEOREM DarkKeepsPositionsCorrect == Spec => DarkKeepsPositions
<1>1. IInv /\ [Next]_vars =>
        \A c \in Callers : Publishes(c) /\ ~dbRead[c].ok /\ ~noted[c] =>
            state'.pos = IF state = None THEN {} ELSE state.pos
  BY PublishStep DEF IInv, LastGoodOK, Positions
<1> QED
  BY <1>1, Invariance, PTL DEF Spec, DarkKeepsPositions

----------------------------------------------------------------------------
(* The ages *)

\* The parts of the invariant speak of these variables only.
LEMMA SameAges ==
    ASSUME AgeInv,
           UNCHANGED <<world, cache, getAge, state, stateAge, misread, inflight, pc, rows, fetched>>
    PROVE  Ages'
<1>1. HeldOK' /\ AnswerAgeOK' /\ CacheAgeOK'
  BY DEF AgeInv, Ages, HeldOK, AnswerAgeOK, CacheAgeOK
<1>2. RowsAgeOK'
  BY DEF AgeInv, Ages, RowsAgeOK
<1>3. StateAgeOK' /\ WaiterFresh'
  BY DEF AgeInv, Ages, StateAgeOK, WaiterFresh, StateFresh
<1> QED
  BY <1>1, <1>2, <1>3 DEF Ages

\* Init: nothing is held, nothing is cached.
LEMMA InitAges == Init => Ages
<1> SUFFICES ASSUME Init PROVE Ages
  OBVIOUS
<1>1. HeldOK
  BY BoundsType DEF Init, HeldOK
<1>2. AnswerAgeOK /\ CacheAgeOK /\ RowsAgeOK /\ StateAgeOK /\ WaiterFresh
  BY DEF Init, AnswerAgeOK, CacheAgeOK, RowsAgeOK, StateAgeOK, WaiterFresh, NoRows, Threads
<1> QED
  BY <1>1, <1>2 DEF Ages

\* A tick makes everything one tick older at most, an answer on its way as well,
\* and what is left of the window one less.
LEMMA TickAges ==
    ASSUME AgeInv, Tick
    PROVE  Ages'
<1> USE TimesAssumption
<1>1. /\ heldFor \in [Symbols -> Nat] /\ stateAge \in Nat /\ getAge \in Nat
      /\ cache \in [rows : SUBSET Symbols, left : 0 .. Window, blank : BOOLEAN]
      /\ HeldOK /\ AnswerAgeOK /\ CacheAgeOK /\ RowsAgeOK /\ StateAgeOK /\ WaiterFresh
      /\ UNCHANGED <<broker, state, misread, inflight, pc, rows, fetched, getter>>
  BY DEF AgeInv, Ages, IInv, TypeOK, Tick
<1>2. ASSUME NEW s \in Symbols
      PROVE  /\ heldFor'[s] \in Nat /\ heldFor'[s] <= heldFor[s] + 1
             /\ heldFor'[s] <= OldHeld /\ (s \notin broker => heldFor'[s] = 0)
  <2>1. heldFor'[s] = IF s \in broker THEN Least(heldFor[s] + 1, OldHeld) ELSE 0
    BY DEF Tick
  <2> QED
    BY <1>1, <2>1, BoundsType DEF Least
<1>3. HeldOK'
  BY <1>1, <1>2 DEF HeldOK
<1>a. AnswerAgeOK'
  <2> SUFFICES ASSUME NEW t \in Threads, pc[t] = "got", NEW s \in Symbols \ rows[t]
               PROVE  heldFor'[s] <= getAge'
    BY <1>1 DEF AnswerAgeOK
  <2>1. getter = t /\ None \notin Threads
    BY ThreadsAssumption DEF AgeInv, IInv, GetterOK, Threads
  <2>2. getAge' = getAge + 1
    BY <2>1 DEF Tick
  <2>3. heldFor[s] <= getAge
    BY <1>1 DEF AnswerAgeOK
  <2> QED
    BY <1>1, <1>2, <2>2, <2>3
<1>4. CacheAgeOK'
  <2>1. CASE cache.left <= 1
    BY <2>1 DEF Tick, NoRows, CacheAgeOK
  <2>2. CASE ~(cache.left <= 1)
    <3>1. cache' = [cache EXCEPT !.left = cache.left - 1]
      BY <2>2 DEF Tick
    <3>2. /\ cache'.rows = cache.rows /\ cache'.blank = cache.blank
          /\ cache'.left = cache.left - 1 /\ cache.left > 0 /\ cache.left \in Nat
      BY <1>1, <2>2, <3>1
    <3> QED
      BY <1>1, <1>2, <3>2 DEF CacheAgeOK
  <2> QED
    BY <2>1, <2>2
<1>5. RowsAgeOK'
  BY <1>1 DEF RowsAgeOK, Tick, Resting
<1>6. StateAgeOK'
  <2> SUFFICES ASSUME state # None, state.known, ~misread,
                      NEW s \in Symbols \ state.pos
               PROVE  heldFor'[s] <= Window - 1 + GetTime + stateAge'
    BY <1>1 DEF StateAgeOK
  <2>1. stateAge' = Least(stateAge + 1, OldState)
    BY DEF Tick
  <2>2. heldFor[s] <= Window - 1 + GetTime + stateAge
    BY <1>1 DEF StateAgeOK
  <2>3. CASE stateAge' = stateAge + 1
    BY <1>1, <1>2, <2>2, <2>3
  <2>4. CASE stateAge' = OldState
    BY <1>2, <2>4 DEF OldState, OldHeld
  <2> QED
    BY <2>1, <2>3, <2>4 DEF Least
<1>7. WaiterFresh'
  BY <1>1 DEF WaiterFresh, Tick, Resting
<1> QED
  BY <1>3, <1>a, <1>4, <1>5, <1>6, <1>7 DEF Ages

\* The world: who buys anew starts at zero.
LEMMA WorldAges ==
    ASSUME AgeInv, NEW s \in Symbols, Fill(s) \/ Unwind(s)
    PROVE  Ages'
<1> USE TimesAssumption
<1>1. /\ heldFor \in [Symbols -> Nat] /\ stateAge \in Nat /\ getAge \in Nat
      /\ cache \in [rows : SUBSET Symbols, left : 0 .. Window, blank : BOOLEAN]
      /\ HeldOK /\ AnswerAgeOK /\ CacheAgeOK /\ RowsAgeOK /\ StateAgeOK /\ WaiterFresh
      /\ UNCHANGED <<cache, getAge, state, stateAge, misread, inflight, pc, rows, fetched>>
  BY DEF AgeInv, Ages, IInv, TypeOK, Fill, Unwind
<1>2. ASSUME NEW r \in Symbols
      PROVE  /\ heldFor'[r] \in Nat /\ heldFor'[r] <= heldFor[r]
             /\ r \notin broker' => heldFor'[r] = 0
  BY <1>1 DEF Fill, Unwind, HeldOK
<1>3. HeldOK'
  BY <1>1, <1>2, BoundsType DEF HeldOK
<1>4. AnswerAgeOK' /\ CacheAgeOK'
  BY <1>1, <1>2 DEF AnswerAgeOK, CacheAgeOK
<1>5. RowsAgeOK'
  BY <1>1, <1>2 DEF RowsAgeOK
<1>6. StateAgeOK' /\ WaiterFresh'
  BY <1>1, <1>2 DEF StateAgeOK, WaiterFresh, StateFresh
<1> QED
  BY <1>3, <1>4, <1>5, <1>6 DEF Ages

\* A caller that moves outside a refresh drops its rows or keeps them; it gives
\* the mutex back only when the state is fresh, and waits only while it is taken.
LEMMA MoveAges ==
    ASSUME AgeInv, NEW c \in Callers,
           \/ \E k \in Kinds : Call(c, k)
           \/ Look(c) \/ TryInflight(c) \/ TakeAfterWait(c) \/ SharedResult(c)
           \/ OwnerLook(c) \/ ReadDb(c)
    PROVE  Ages'
<1>1. /\ pc \in [Threads -> Labels] /\ c \in Threads /\ Callers \subseteq Threads
      /\ rows \in [Threads -> SUBSET Symbols] /\ fetched \in [Callers -> BOOLEAN]
      /\ HeldOK /\ AnswerAgeOK /\ CacheAgeOK /\ RowsAgeOK /\ StateAgeOK /\ WaiterFresh
      /\ None \notin Callers
  BY ThreadsAssumption DEF AgeInv, Ages, IInv, TypeOK, Threads
<1>2. UNCHANGED <<broker, heldFor, cache, getAge, state, stateAge, misread>>
  BY DEF Call, Look, TryInflight, TakeAfterWait, SharedResult, OwnerLook, ReadDb
<1>3. HeldOK' /\ CacheAgeOK' /\ StateAgeOK'
  BY <1>1, <1>2 DEF HeldOK, CacheAgeOK, StateAgeOK
<1>4. /\ \A t \in Threads \ {c} : pc'[t] = pc[t] /\ rows'[t] = rows[t]
      /\ \A d \in Callers \ {c} : fetched'[d] = fetched[d]
      /\ pc[c] \notin {"noteok", "status"} /\ pc'[c] # "got"
      /\ fetched'[c] => fetched[c]
  <2>1. CASE \E k \in Kinds : Call(c, k)
    BY <1>1, <2>1 DEF Call, Goto
  <2>2. CASE Look(c)
    BY <1>1, <2>2, HandMoves DEF Look, Goto
  <2>3. CASE TryInflight(c) \/ TakeAfterWait(c) \/ ReadDb(c)
    BY <1>1, <2>3 DEF TryInflight, TakeAfterWait, ReadDb, Goto
  <2>4. CASE SharedResult(c)
    BY <1>1, <2>4, HandMoves DEF SharedResult
  <2>5. CASE OwnerLook(c)
    BY <1>1, <2>5, HandMoves DEF OwnerLook, Refresh, Goto
  <2> QED
    BY <2>1, <2>2, <2>3, <2>4, <2>5
<1>5. AnswerAgeOK' /\ RowsAgeOK'
  BY <1>1, <1>2, <1>4 DEF AnswerAgeOK, RowsAgeOK
<1>6. WaiterFresh'
  <2> SUFFICES ASSUME NEW d \in Callers,
                      pc'[d] = "shared" \/ (pc'[d] = "wait" /\ inflight' = None)
               PROVE  StateFresh
    BY <1>2 DEF WaiterFresh, StateFresh
  <2>d. d \in Threads
    BY DEF Threads
  <2>1. CASE \E k \in Kinds : Call(c, k)
    BY <1>1, <2>1, <2>d DEF Call, Goto, WaiterFresh
  <2>2. CASE Look(c)
    <3>1. /\ \/ pc' = [pc EXCEPT ![c] = "idle"]
             \/ pc' = [pc EXCEPT ![c] = "try"]
          /\ inflight' = inflight
      BY <2>2, HandMoves DEF Look, Goto
    <3> QED
      BY <1>1, <2>d, <3>1 DEF WaiterFresh
  <2>3. CASE TryInflight(c)
    <3>1. CASE inflight = None
      BY <1>1, <2>3, <2>d, <3>1 DEF TryInflight, Goto, WaiterFresh
    <3>2. CASE inflight # None
      BY <1>1, <2>3, <2>d, <3>2 DEF TryInflight, Goto, WaiterFresh
    <3> QED
      BY <3>1, <3>2
  <2>4. CASE TakeAfterWait(c)
    BY <1>1, <2>4, <2>d DEF TakeAfterWait, Goto, WaiterFresh
  <2>5. CASE SharedResult(c)
    BY <1>1, <2>5 DEF SharedResult, WaiterFresh
  <2>6. CASE OwnerLook(c)
    <3>1. CASE ~force[c] /\ StateFresh
      BY <3>1
    <3>2. CASE ~(~force[c] /\ StateFresh)
      BY <1>1, <2>6, <2>d, <3>2 DEF OwnerLook, Refresh, Goto, WaiterFresh
    <3> QED
      BY <3>1, <3>2
  <2>7. CASE ReadDb(c)
    BY <1>1, <2>7, <2>d DEF ReadDb, Goto, WaiterFresh
  <2> QED
    BY <2>1, <2>2, <2>3, <2>4, <2>5, <2>6, <2>7
<1> QED
  BY <1>3, <1>5, <1>6 DEF Ages

\* A read: an answer is as old as its GET when it is stored, its window starts
\* then, and rows leave the cache before its last tick.
LEMMA ReadAges ==
    ASSUME AgeInv, NEW t \in Threads, Read(t)
    PROVE  Ages'
<1> USE TimesAssumption
<1>1. /\ pc \in [Threads -> Labels] /\ heldFor \in [Symbols -> Nat]
      /\ rows \in [Threads -> SUBSET Symbols] /\ fetched \in [Callers -> BOOLEAN]
      /\ cache \in [rows : SUBSET Symbols, left : 0 .. Window, blank : BOOLEAN]
      /\ getAge \in 0 .. GetTime /\ Callers \subseteq Threads
      /\ GetterOK /\ None \notin Threads
      /\ HeldOK /\ AnswerAgeOK /\ CacheAgeOK /\ RowsAgeOK /\ StateAgeOK /\ WaiterFresh
  BY ThreadsAssumption DEF AgeInv, Ages, IInv, TypeOK, Threads
<1>2. /\ UNCHANGED <<broker, heldFor, state, stateAge, misread, inflight>>
      /\ \A u \in Threads \ {t} : pc'[u] = pc[u]
  BY ReadAlone DEF AgeInv, IInv
<1>3. HeldOK' /\ StateAgeOK'
  BY <1>1, <1>2 DEF HeldOK, StateAgeOK
<1>4. WaiterFresh'
  <2>1. \A c \in Callers : pc'[c] \in {"shared", "wait"} => pc'[c] = pc[c]
    BY <1>1 DEF Read, StartRead, SharedRead, Queue, Refused, AfterFailure, SendGet, Sample,
                BrokerGet, BlankGet, GetFails, NoteOk, Goto
  <2> QED
    BY <1>1, <1>2, <2>1 DEF WaiterFresh, StateFresh
<1>k. ASSUME NEW rs, NEW list, Keep(t, rs, list)
      PROVE  /\ \A u \in Threads \ {t} : rows'[u] = rows[u]
             /\ \A c \in Callers \ {t} : fetched'[c] = fetched[c]
             /\ t \in Callers => rows'[t] = rs /\ fetched'[t] = list
  BY <1>1, <1>k DEF Keep
<1>5. CASE BrokerGet(t)
  <2>1. /\ pc[t] = "got" /\ pc' = [pc EXCEPT ![t] = "noteok"] /\ Keep(t, rows[t], TRUE)
        /\ cache' = [rows |-> rows[t], left |-> Window, blank |-> FALSE]
    BY <1>5 DEF BrokerGet, Goto
  <2>2. \A s \in Symbols \ rows[t] : heldFor[s] <= GetTime
    BY <1>1, <2>1 DEF AnswerAgeOK
  <2>3. CacheAgeOK'
    BY <1>1, <1>2, <2>1, <2>2 DEF CacheAgeOK
  <2>4. RowsAgeOK'
    <3>1. ASSUME NEW c \in Callers, c # t, fetched'[c]
          PROVE  /\ pc'[c] \in {"noteok", "status"}
                 /\ \A s \in Symbols \ rows'[c] : heldFor'[s] <= Window - 1 + GetTime
      BY <1>1, <1>2, <1>k, <2>1, <3>1 DEF RowsAgeOK
    <3>2. ASSUME t \in Callers, fetched'[t]
          PROVE  /\ pc'[t] \in {"noteok", "status"}
                 /\ \A s \in Symbols \ rows'[t] : heldFor'[s] <= Window - 1 + GetTime
      <4>1. rows'[t] = rows[t] /\ pc'[t] = "noteok"
        BY <1>1, <1>k, <2>1, <3>2
      <4>2. \A s \in Symbols : heldFor[s] \in Nat /\ heldFor'[s] = heldFor[s]
        BY <1>1, <1>2
      <4> QED
        BY <2>2, <4>1, <4>2
    <3> QED
      BY <3>1, <3>2 DEF RowsAgeOK
  <2>5. AnswerAgeOK'
    <3>1. \A u \in Threads \ {t} : pc[u] # "got"
      BY <1>1, <2>1 DEF GetterOK
    <3> QED
      BY <1>1, <2>1, <3>1 DEF AnswerAgeOK
  <2> QED
    BY <1>3, <1>4, <2>3, <2>4, <2>5 DEF Ages
<1>6. CASE SharedRead(t)
  <2>1. /\ pc[t] \in {"fetch", "queue"} /\ pc' = [pc EXCEPT ![t] = "noteok"] /\ cache.left > 0
        /\ Keep(t, cache.rows, ~cache.blank) /\ UNCHANGED <<cache, getAge>>
    BY <1>6 DEF SharedRead, Goto
  <2>2. ~cache.blank => \A s \in Symbols \ cache.rows : heldFor[s] <= Window - 1 + GetTime
    BY <1>1, <2>1 DEF CacheAgeOK
  <2>3. RowsAgeOK'
    <3>1. ASSUME NEW c \in Callers, c # t, fetched'[c]
          PROVE  /\ pc'[c] \in {"noteok", "status"}
                 /\ \A s \in Symbols \ rows'[c] : heldFor'[s] <= Window - 1 + GetTime
      BY <1>1, <1>2, <1>k, <2>1, <3>1 DEF RowsAgeOK
    <3>2. ASSUME t \in Callers, fetched'[t]
          PROVE  /\ pc'[t] \in {"noteok", "status"}
                 /\ \A s \in Symbols \ rows'[t] : heldFor'[s] <= Window - 1 + GetTime
      BY <1>1, <1>2, <1>k, <2>1, <2>2, <3>2
    <3> QED
      BY <3>1, <3>2 DEF RowsAgeOK
  <2>4. CacheAgeOK'
    BY <1>1, <1>2, <2>1 DEF CacheAgeOK
  <2>5. AnswerAgeOK'
    BY <1>1, <1>2, <1>k, <2>1 DEF AnswerAgeOK
  <2> QED
    BY <1>3, <1>4, <2>3, <2>4, <2>5 DEF Ages
<1>7. CASE Sample(t)
  <2>1. /\ pc[t] = "get" /\ pc' = [pc EXCEPT ![t] = "got"] /\ rows' = [rows EXCEPT ![t] = broker]
        /\ UNCHANGED <<cache, getAge, fetched>>
    BY <1>7 DEF Sample, Goto
  <2>2. AnswerAgeOK'
    <3>1. \A s \in Symbols \ broker : heldFor[s] <= getAge
      BY <1>1 DEF HeldOK
    <3> QED
      BY <1>1, <1>2, <2>1, <3>1 DEF AnswerAgeOK
  <2>3. RowsAgeOK' /\ CacheAgeOK'
    BY <1>1, <1>2, <2>1 DEF RowsAgeOK, CacheAgeOK
  <2> QED
    BY <1>3, <1>4, <2>2, <2>3 DEF Ages
<1>8. CASE GetFails(t) \/ BlankGet(t)
  <2>1. /\ pc[t] \in {"get", "got"} /\ pc'[t] \in {"noteok", "status", "idle"}
        /\ \A u \in Threads \ {t} : rows'[u] = rows[u]
        /\ UNCHANGED fetched
        /\ cache' = cache \/ cache'.blank
    BY <1>1, <1>8 DEF GetFails, AfterFailure, BlankGet, Goto
  <2>2. RowsAgeOK' /\ CacheAgeOK'
    BY <1>1, <1>2, <2>1 DEF RowsAgeOK, CacheAgeOK
  <2>3. AnswerAgeOK'
    <3>1. \A u \in Threads \ {t} : pc[u] # "got"
      BY <1>1, <2>1 DEF GetterOK
    <3> QED
      BY <1>2, <2>1, <3>1 DEF AnswerAgeOK
  <2> QED
    BY <1>3, <1>4, <2>2, <2>3 DEF Ages
<1>9. CASE SendGet(t)
  <2>1. /\ pc' = [pc EXCEPT ![t] = "get"] /\ getter = None
        /\ pc[t] = "fetch" /\ UNCHANGED <<cache, rows, fetched>>
    BY <1>9 DEF SendGet, Goto
  <2>2. RowsAgeOK' /\ CacheAgeOK'
    BY <1>1, <1>2, <2>1 DEF RowsAgeOK, CacheAgeOK
  <2>3. AnswerAgeOK'
    BY <1>1, <2>1 DEF AnswerAgeOK, GetterOK
  <2> QED
    BY <1>3, <1>4, <2>2, <2>3 DEF Ages
<1>10. CASE StartRead(t) \/ Queue(t) \/ Refused(t) \/ NoteOk(t)
  <2>1. /\ UNCHANGED <<cache, getAge, rows, fetched>> /\ pc'[t] # "got"
        /\ pc[t] = "noteok" => t \notin Callers \/ pc'[t] = "status"
        /\ pc[t] # "status"
    BY <1>1, <1>10, ThreadsAssumption
       DEF StartRead, Queue, Refused, AfterFailure, NoteOk, Goto
  <2>2. RowsAgeOK' /\ CacheAgeOK'
    BY <1>1, <1>2, <2>1 DEF RowsAgeOK, CacheAgeOK
  <2>3. AnswerAgeOK'
    BY <1>1, <1>2, <2>1 DEF AnswerAgeOK
  <2> QED
    BY <1>3, <1>4, <2>2, <2>3 DEF Ages
<1> QED
  BY <1>5, <1>6, <1>7, <1>8, <1>9, <1>10 DEF Read

\* A refresh publishes a state of age zero; when it is known, and not by a
\* misread, it has the rows of this refresh, and possibly more.
LEMMA PublishAges ==
    ASSUME AgeInv, NEW c \in Callers, SkipBroker(c) \/ Decide(c)
    PROVE  Ages' /\ state' # None /\ stateAge' = 0
<1> USE TimesAssumption
<1>1. /\ pc \in [Threads -> Labels] /\ Callers \subseteq Threads /\ heldFor \in [Symbols -> Nat]
      /\ rows \in [Threads -> SUBSET Symbols] /\ fetched \in [Callers -> BOOLEAN]
      /\ HeldOK /\ AnswerAgeOK /\ CacheAgeOK /\ RowsAgeOK /\ WaiterFresh /\ TypeOK
  BY DEF AgeInv, Ages, IInv, TypeOK, Threads
<1>2. PICK ok \in BOOLEAN :
          /\ pc[c] \in {"broker", "status"}
          /\ Publish(c, IF ok THEN rows[c] ELSE {}, ok)
          /\ UNCHANGED <<world, shared>>
  BY <1>1, RefreshPublishes
<1> DEFINE rs == IF ok THEN rows[c] ELSE {}
           st == [pos |-> Positions(dbRead[c], rs, ok), known |-> ok]
<1>3. rs \in SUBSET Symbols
  BY <1>1
<1>4. /\ pc' = [pc EXCEPT ![c] = "idle"] /\ rows' = [rows EXCEPT ![c] = {}]
      /\ fetched' = [fetched EXCEPT ![c] = FALSE]
      /\ state' = st /\ stateAge' = 0 /\ misread' = (ok /\ ~fetched[c])
  BY <1>2, PublishReplies
<1>5. state' # None
  <2>1. Positions(dbRead[c], rs, ok) \in SUBSET Symbols
    BY <1>1, <1>3, PositionsType
  <2>2. st \in [pos : SUBSET Symbols, known : BOOLEAN]
    BY <2>1
  <2> QED
    BY <1>4, <2>2, NoStateAssumption
<1>6. HeldOK' /\ CacheAgeOK'
  BY <1>1, <1>2 DEF HeldOK, CacheAgeOK
<1>7. AnswerAgeOK' /\ RowsAgeOK'
  BY <1>1, <1>2, <1>4 DEF AnswerAgeOK, RowsAgeOK
<1>8. StateAgeOK'
  <2> SUFFICES ASSUME state'.known, ~misread', NEW s \in Symbols \ state'.pos
               PROVE  heldFor'[s] <= Window - 1 + GetTime + stateAge'
    BY DEF StateAgeOK
  <2>1. ok
    BY <1>4
  <2>2. fetched[c]
    BY <1>4, <2>1
  <2>3. state'.pos = Positions(dbRead[c], rs, ok)
    BY <1>4
  <2>4. s \notin rows[c]
    BY <2>1, <2>3 DEF Positions
  <2>5. heldFor[s] <= Window - 1 + GetTime
    BY <1>1, <2>2, <2>4 DEF RowsAgeOK
  <2> QED
    BY <1>1, <1>2, <1>4, <2>5
<1>9. WaiterFresh'
  BY <1>4, <1>5 DEF WaiterFresh, StateFresh
<1> QED
  BY <1>4, <1>5, <1>6, <1>7, <1>8, <1>9 DEF Ages

LEMMA AgeStep == AgeInv /\ [Next]_vars => Ages'
<1> SUFFICES ASSUME AgeInv, [Next]_vars PROVE Ages'
  OBVIOUS
<1>1. ASSUME NEW c \in Callers, Step(c) \/ \E k \in Kinds : Call(c, k) PROVE Ages'
  <2>1. CASE SkipBroker(c) \/ Decide(c)
    BY <2>1, PublishAges
  <2>2. CASE ~(SkipBroker(c) \/ Decide(c))
    BY <1>1, <2>2, MoveAges DEF Step
  <2> QED
    BY <2>1, <2>2
<1>2. CASE UNCHANGED vars
  <2>1. UNCHANGED <<world, cache, getAge, state, stateAge, misread, inflight, pc, rows, fetched>>
    BY <1>2
  <2> QED
    BY <2>1, SameAges
<1> QED
  BY <1>1, <1>2, TickAges, WorldAges, ReadAges DEF Next

LEMMA AgeInvariance == Spec => []AgeInv
<1>1. IInv' /\ AgeInv /\ [Next]_vars => AgeInv'
  BY AgeStep DEF AgeInv
<1>2. IInv /\ Ages => AgeInv
  BY DEF AgeInv
<1> QED
  BY <1>1, <1>2, InitAges, Invariance, PTL DEF Spec

\* The only step that frees a symbol held for too long hands out a state that
\* took another's success, or an answer that was none, for its read.
LEMMA StaleStep ==
    ASSUME AgeInv, AgeInv', [Next]_vars, NEW c \in Callers, StaleFree(c)
    PROVE  misread'
<1> USE TimesAssumption
<1> SUFFICES ASSUME ~misread' PROVE FALSE
  OBVIOUS
<1>1. PICK s \in Free(state') : heldFor[s] > (TTL - 1) + (Window - 1) + GetTime
  BY DEF StaleFree
<1>2. /\ heldFor \in [Symbols -> Nat] /\ stateAge \in Nat /\ TypeOK
      /\ pc \in [Threads -> Labels] /\ Callers \subseteq Threads /\ Callers \cap Direct = {}
      /\ pc[c] # "idle" /\ pc'[c] = "idle"
  BY ThreadsAssumption DEF AgeInv, IInv, TypeOK, Threads, StaleFree
<1>3. state'.known /\ s \in Symbols \ state'.pos
  BY <1>1 DEF Free
<1>4. CASE StateFresh /\ UNCHANGED <<state, stateAge, misread>>
  <2>1. heldFor[s] <= Window - 1 + GetTime + stateAge
    BY <1>3, <1>4 DEF AgeInv, Ages, StateAgeOK, StateFresh
  <2> QED
    BY <1>1, <1>2, <1>4, <2>1 DEF StateFresh, Free
<1>5. CASE SkipBroker(c) \/ Decide(c)
  <2>1. state' # None /\ stateAge' = 0
    BY <1>5, PublishAges
  <2>2. heldFor' = heldFor
    BY <1>5 DEF SkipBroker, Decide
  <2>3. heldFor[s] <= Window - 1 + GetTime + 0
    BY <1>3, <2>1, <2>2 DEF AgeInv, Ages, StateAgeOK
  <2> QED
    BY <1>1, <1>2, <1>3, <2>3
<1>6. Go(c)
  <2>1. ASSUME NEW d \in Callers \ {c}, Go(d) PROVE FALSE
    BY <1>2, <2>1, GoPasses
  <2> QED
    BY <1>2, <2>1, OneGoes
<1>7. ~Read(c)
  <2>1. SUFFICES ASSUME Read(c) PROVE pc'[c] # "idle"
    BY <1>2
  <2> QED
    BY <1>2, <2>1 DEF Read, StartRead, SharedRead, Queue, Refused, AfterFailure, SendGet,
                      Sample, BrokerGet, BlankGet, GetFails, NoteOk, Goto
<1>8. CASE Look(c) \/ SharedResult(c) \/ OwnerLook(c)
  <2>1. CASE Look(c)
    BY <1>2, <1>4, <2>1 DEF Look, Goto
  <2>2. CASE SharedResult(c)
    BY <1>4, <2>2 DEF SharedResult, AgeInv, Ages, WaiterFresh
  <2>3. CASE OwnerLook(c)
    BY <1>2, <1>4, <2>3 DEF OwnerLook, Refresh, Goto
  <2> QED
    BY <1>8, <2>1, <2>2, <2>3
<1>9. CASE TryInflight(c) \/ TakeAfterWait(c) \/ ReadDb(c) \/ \E k \in Kinds : Call(c, k)
  BY <1>2, <1>9 DEF TryInflight, TakeAfterWait, ReadDb, Call, Goto
<1> QED
  BY <1>5, <1>6, <1>7, <1>8, <1>9 DEF Go, Step

\* Whatever threads read around the service and whatever a GET answers, the
\* gate lets a symbol through that was held for longer than a GET and both caches
\* can hide it only when the published state was no reading of its own (the
\* module global LAST_READ_OK, or a blank answer).
THEOREM StaleOnlyByMisreadCorrect == Spec => StaleOnlyByMisread
<1>1. AgeInv /\ AgeInv' /\ [Next]_vars => \A c \in Callers : StaleFree(c) => misread'
  BY StaleStep
<1> QED
  BY <1>1, AgeInvariance, PTL DEF Spec, StaleOnlyByMisread

----------------------------------------------------------------------------
(* The mutex of the service *)

\* What holds of the mutex.
HolderInv == IInv /\ RefreshAlone

LEMMA HolderInvariance == Spec => []HolderInv
<1>1. AgeInv => HolderInv
  BY DEF HolderInv, RefreshAlone, AgeInv, IInv, Ages, WaiterFresh, StateFresh
<1> QED
  BY <1>1, AgeInvariance, PTL

\* One refresh at a time, and no waiter falls through to a second one, whatever
\* threads read around the service: the fallback of get_state for a waiter
\* without a state (444-449) is never reached.
THEOREM RefreshAloneCorrect == Spec => []RefreshAlone
<1>1. HolderInv => RefreshAlone
  BY DEF HolderInv
<1> QED
  BY <1>1, HolderInvariance, PTL

\* The holder, by the place it has reached, and a caller that holds nothing.
At(c, place) == inflight = c /\ pc[c] = place
Gone(c) == inflight # c
\* The GET the holder waits for is over.
Turn(c) == At(c, "queue") /\ getter \notin Direct

\* The holder stays where it is, or goes a way that is there, or lets go; the
\* other callers cannot take the mutex from it.
LEMMA HolderGoes ==
    ASSUME HolderInv, [Next]_vars, NEW c \in Callers, inflight = c
    PROVE  /\ \/ pc'[c] = pc[c] /\ inflight' = c
              \/ <<pc[c], pc'[c]>> \in Ways /\ inflight' = c
              \/ Gone(c)'
           /\ Go(c) => (<<pc[c], pc'[c]>> \in Ways /\ inflight' = c) \/ Gone(c)'
<1>1. TypeOK /\ HolderOK /\ None \notin Callers
  BY ThreadsAssumption DEF HolderInv, IInv
<1>2. CASE Go(c)
  BY <1>1, <1>2, GoPasses DEF Passes, Gone, HolderOK
<1>3. ASSUME NEW d \in Callers \ {c}, Go(d)
      PROVE  pc'[c] = pc[c] /\ inflight' = c
  <2>1. Passes(d) /\ pc'[c] = pc[c]
    BY <1>1, <1>3, GoPasses
  <2>2. pc[d] \notin Holding /\ inflight # None
    BY <1>1 DEF HolderOK
  <2> QED
    BY <2>1, <2>2 DEF Passes, Ways, Holding, Reading
<1>4. CASE ~\E d \in Callers : Go(d)
  BY <1>1, <1>4, OneGoes
<1>5. Go(c) \/ (\E d \in Callers \ {c} : Go(d)) \/ ~\E d \in Callers : Go(d)
  OBVIOUS
<1> QED
  BY <1>2, <1>3, <1>4, <1>5

\* The holder that waits for a GET waits for that of a direct reader: it alone of
\* the callers is inside the reader.
LEMMA TurnIsFree ==
    ASSUME HolderInv, NEW c \in Callers, Turn(c)
    PROVE  getter = None /\ (cache.left > 0 \/ cacheWait > 0)
<1>1. getter = None
  BY DEF HolderInv, IInv, TypeOK, GetterOK, HolderOK, Turn, At, Holding, Reading, Threads
<1> QED
  BY <1>1 DEF HolderInv, IInv, QueueOK, Turn, At

\* When that GET is over nobody sends another before the holder has looked.
LEMMA TurnStays ==
    ASSUME HolderInv, [Next]_vars, NEW c \in Callers, Turn(c), pc'[c] = "queue", inflight' = c
    PROVE  Turn(c)'
<1>1. /\ getter = None /\ (cache.left > 0 \/ cacheWait > 0)
      /\ cache.left \in Nat /\ cacheWait \in Nat
  BY TurnIsFree, TimesAssumption DEF HolderInv, IInv, TypeOK
<1>2. getter' = None
  <2>1. CASE Tick \/ (\E s \in Symbols : Fill(s) \/ Unwind(s)) \/ UNCHANGED vars
    BY <1>1, <2>1 DEF Tick, Fill, Unwind
  <2>2. ASSUME NEW d \in Callers, Step(d) \/ \E k \in Kinds : Call(d, k) PROVE getter' = None
    BY <1>1, <2>2, StepOutside DEF Outside, HolderInv, IInv
  <2>3. ASSUME NEW t \in Threads, Read(t) PROVE getter' = None
    <3>1. CASE SendGet(t)
      BY <1>1, <3>1 DEF SendGet
    <3>2. CASE BrokerGet(t) \/ BlankGet(t) \/ GetFails(t)
      BY <3>2 DEF BrokerGet, BlankGet, GetFails, GetEnds
    <3>3. CASE StartRead(t) \/ SharedRead(t) \/ Queue(t) \/ Refused(t) \/ Sample(t) \/ NoteOk(t)
      BY <1>1, <3>3 DEF StartRead, SharedRead, Queue, Refused, Sample, NoteOk
    <3> QED
      BY <2>3, <3>1, <3>2, <3>3 DEF Read
  <2> QED
    BY <2>1, <2>2, <2>3 DEF Next
<1> QED
  BY <1>2, ThreadsAssumption DEF Turn, At

LEMMA HolderLeaves ==
    ASSUME NEW c \in Callers
    PROVE  Spec /\ Goes(c) /\ GetsEnd => (inflight = c ~> inflight # c)
<1>1. HolderInv /\ [Next]_vars =>
          /\ At(c, "own") => At(c, "own")' \/ At(c, "db")' \/ Gone(c)'
          /\ At(c, "db") => At(c, "db")' \/ At(c, "broker")' \/ Gone(c)'
          /\ At(c, "broker") => At(c, "broker")' \/ At(c, "fetch")' \/ Gone(c)'
          /\ At(c, "fetch") => At(c, "fetch")' \/ At(c, "queue")' \/ At(c, "get")'
                                  \/ At(c, "noteok")' \/ At(c, "status")' \/ Gone(c)'
          /\ At(c, "queue") => At(c, "queue")' \/ At(c, "noteok")' \/ At(c, "status")' \/ Gone(c)'
          /\ At(c, "get") => At(c, "get")' \/ At(c, "got")' \/ At(c, "noteok")'
                                  \/ At(c, "status")' \/ Gone(c)'
          /\ At(c, "got") => At(c, "got")' \/ At(c, "noteok")' \/ At(c, "status")' \/ Gone(c)'
          /\ At(c, "noteok") => At(c, "noteok")' \/ At(c, "status")' \/ Gone(c)'
          /\ At(c, "status") => At(c, "status")' \/ Gone(c)'
          /\ At(c, "shared") => At(c, "shared")' \/ Gone(c)'
  BY HolderGoes DEF At, Ways
<1>2. HolderInv /\ <<Go(c)>>_vars /\ [Next]_vars =>
          /\ At(c, "own") => At(c, "db")' \/ Gone(c)'
          /\ At(c, "db") => At(c, "broker")' \/ Gone(c)'
          /\ At(c, "broker") => At(c, "fetch")' \/ Gone(c)'
          /\ At(c, "fetch") => At(c, "queue")' \/ At(c, "get")'
                                  \/ At(c, "noteok")' \/ At(c, "status")' \/ Gone(c)'
          /\ Turn(c) => At(c, "noteok")' \/ At(c, "status")' \/ Gone(c)'
          /\ At(c, "get") => At(c, "got")' \/ At(c, "noteok")' \/ At(c, "status")' \/ Gone(c)'
          /\ At(c, "got") => At(c, "noteok")' \/ At(c, "status")' \/ Gone(c)'
          /\ At(c, "noteok") => At(c, "status")' \/ Gone(c)'
          /\ At(c, "status") => Gone(c)'
          /\ At(c, "shared") => Gone(c)'
  BY HolderGoes DEF At, Turn, Ways
<1>t. HolderInv /\ [Next]_vars /\ Turn(c) =>
          Turn(c)' \/ At(c, "noteok")' \/ At(c, "status")' \/ Gone(c)'
  <2> SUFFICES ASSUME HolderInv, [Next]_vars, Turn(c)
               PROVE  Turn(c)' \/ At(c, "noteok")' \/ At(c, "status")' \/ Gone(c)'
    OBVIOUS
  <2>1. At(c, "queue")' \/ At(c, "noteok")' \/ At(c, "status")' \/ Gone(c)'
    BY <1>1 DEF Turn
  <2>2. CASE At(c, "queue")'
    BY <2>2, TurnStays DEF At
  <2> QED
    BY <2>1, <2>2
<1>3. HolderInv =>
          /\ At(c, "own") \/ At(c, "db") \/ At(c, "broker") \/ At(c, "fetch")
                \/ At(c, "get") \/ At(c, "got") \/ At(c, "noteok") \/ At(c, "status")
                \/ At(c, "shared") => CanGo(c)
          /\ inflight = c => At(c, "own") \/ At(c, "db") \/ At(c, "broker") \/ At(c, "fetch")
                \/ At(c, "queue") \/ At(c, "get") \/ At(c, "got") \/ At(c, "noteok")
                \/ At(c, "status") \/ At(c, "shared")
  BY DEF HolderInv, RefreshAlone, HolderOK, Holding, Reading, At, CanGo
<1>c. HolderInv /\ Turn(c) => CanGo(c)
  BY TurnIsFree DEF Turn, At, CanGo
<1>q. At(c, "queue") /\ getter \notin Direct => Turn(c)
  BY DEF Turn
<1>4. (inflight # c) <=> Gone(c)
  BY DEF Gone
<1> HIDE DEF vars, world, get, shared, service, local
<1>5. Spec /\ Goes(c) =>
          /\ At(c, "status") ~> Gone(c)
          /\ At(c, "shared") ~> Gone(c)
          /\ At(c, "noteok") ~> At(c, "status") \/ Gone(c)
  BY <1>1, <1>2, <1>3, HolderInvariance, PTL DEF Spec, Goes
<1>6. Spec /\ Goes(c) =>
          /\ At(c, "got") ~> At(c, "noteok") \/ At(c, "status") \/ Gone(c)
          /\ At(c, "get") ~> At(c, "got") \/ At(c, "noteok") \/ At(c, "status") \/ Gone(c)
  BY <1>1, <1>2, <1>3, HolderInvariance, PTL DEF Spec, Goes
<1>7. Spec /\ Goes(c) =>
          Turn(c) ~> At(c, "noteok") \/ At(c, "status") \/ Gone(c)
  BY <1>t, <1>2, <1>c, HolderInvariance, PTL DEF Spec, Goes
<1>8. Spec /\ GetsEnd =>
          At(c, "queue") ~> Turn(c) \/ At(c, "noteok") \/ At(c, "status") \/ Gone(c)
  BY <1>1, <1>q, HolderInvariance, PTL DEF Spec, GetsEnd
<1>9. Spec /\ Goes(c) =>
          /\ At(c, "fetch") ~> At(c, "queue") \/ At(c, "get") \/ At(c, "noteok")
                                  \/ At(c, "status") \/ Gone(c)
          /\ At(c, "broker") ~> At(c, "fetch") \/ Gone(c)
  BY <1>1, <1>2, <1>3, HolderInvariance, PTL DEF Spec, Goes
<1>10. Spec /\ Goes(c) =>
          /\ At(c, "db") ~> At(c, "broker") \/ Gone(c)
          /\ At(c, "own") ~> At(c, "db") \/ Gone(c)
  BY <1>1, <1>2, <1>3, HolderInvariance, PTL DEF Spec, Goes
<1>11. Spec /\ Goes(c) /\ GetsEnd =>
          /\ At(c, "noteok") ~> Gone(c)
          /\ At(c, "queue") ~> Gone(c)
          /\ At(c, "got") ~> Gone(c)
          /\ At(c, "get") ~> Gone(c)
  BY <1>5, <1>6, <1>7, <1>8, PTL
<1>12. Spec /\ Goes(c) /\ GetsEnd =>
          /\ At(c, "fetch") ~> Gone(c)
          /\ At(c, "broker") ~> Gone(c)
          /\ At(c, "db") ~> Gone(c)
          /\ At(c, "own") ~> Gone(c)
  BY <1>5, <1>9, <1>10, <1>11, PTL
<1> QED
  BY <1>3, <1>4, <1>5, <1>11, <1>12, HolderInvariance, PTL

\* The mutex of the service is always given back, however the reads of its
\* holder end and whoever's GET it waits for: an owner gets through its refresh,
\* and a waiter finds a state.
THEOREM InflightComesBack == FairSpec => InflightReleased
<1>1. ASSUME NEW c \in Callers
      PROVE  Spec /\ Goes(c) /\ GetsEnd => (inflight = c ~> inflight # c)
  BY HolderLeaves
<1> QED
  BY <1>1 DEF FairSpec, InflightReleased
=============================================================================
