----------------------------- MODULE PositionState -----------------------------
(***************************************************************************)
(* trading/position/position_state_service.py, the one owner of "what do   *)
(* we hold", on top of trading/position/kabu_position_reader.py and of the *)
(* shared GET of positions_read_cache.py.                                  *)
(*                                                                         *)
(* Callers are threads inside get_state(): the entry gate                  *)
(* is_symbol_in_open_position ("gate"), entry_allowed() ("entry") and the  *)
(* exit loop ("exit").  Direct readers are the threads that call           *)
(* read_kabu_open_positions() around the service (open_position_sync 823,  *)
(* exit/executor 2044, ...): they share the module globals of the reader.  *)
(*                                                                         *)
(* Time is relative: ages count ticks and stop at the value from which     *)
(* they make no difference, backoffs count down.  Ticks pass while callers *)
(* are idle, wait for a mutex, read the DB or wait for the broker; a       *)
(* direct reader may be held up anywhere.  A GET is sent, answered by the  *)
(* station, and stored: the cache stamps an answer when it is complete,    *)
(* which may be GetTime ticks after the station looked.  It may fail at    *)
(* any time, and so may the DB read.  positions.db is written by others at *)
(* any time: a read of it may find any symbols.                            *)
(***************************************************************************)
EXTENDS Naturals, FiniteSets

CONSTANTS
    Symbols,
    Callers,  \* threads that go through the service
    Direct,   \* threads that call the reader directly
    None,
    TTL,      \* _cache_ttl() of the service, in ticks
    Window,   \* refetch window of positions_read_cache, in ticks
    GetTime,  \* how long a GET may take before it times out, in ticks
    MaxAge,   \* _entry_state_max_age(), in ticks
    Waits,    \* the backoffs a failure may start, in ticks
    BlankReads \* may a GET end in a success without a list of positions

ASSUME ThreadsAssumption == None \notin Callers \cup Direct /\ Callers \cap Direct = {}
ASSUME NoStateAssumption == None \notin [pos : SUBSET Symbols, known : BOOLEAN]
ASSUME BlankAssumption == BlankReads \in BOOLEAN
ASSUME TimesAssumption ==
    /\ TTL \in Nat \ {0}
    /\ Window \in Nat \ {0}
    /\ GetTime \in Nat
    /\ MaxAge \in Nat
    /\ Waits # {} /\ Waits \subseteq Nat \ {0}

VARIABLES
    broker,     \* symbols held at the broker
    lastReadOk, \* LAST_READ_OK of the reader, shared by all threads
    cache,      \* the shared GET: its rows, what is left of its window (0: it
                \* must refetch) and, for the history, whether it is blank
    cacheWait,  \* what is left of its backoff
    getter,     \* the holder of its inflight mutex whose GET is under way, or None
    getAge,     \* how long that GET has taken
    state,      \* _state: [pos, known], or None
    stateAge,   \* now - _state_at
    lastGood,   \* _last_good
    dbWait,     \* what is left of _db_next_try_at
    brokerWait, \* what is left of _broker_next_try_at
    inflight,   \* holder of _inflight, or None
    pc,
    kind,       \* what the caller is asking for
    force,      \* its `force` argument
    dbRead,     \* db_ok and db_positions of its refresh
    rows        \* what the station answered, read_kabu_open_positions returned

\* History, not in the code: whether the caller's own read brought a list of
\* positions back; whether any reader has noted a success since this caller reset
\* LAST_READ_OK; for how many ticks each symbol has been held at the broker; and
\* whether the state was published as known by a refresh whose own read brought
\* nothing back.
VARIABLES fetched, noted, heldFor, misread

world   == <<broker, heldFor>>
get     == <<getter, getAge>>
shared  == <<lastReadOk, cache, cacheWait, get>>
service == <<state, stateAge, lastGood, misread, dbWait, brokerWait>>
local   == <<kind, force, dbRead, rows, fetched, noted>>
vars    == <<world, shared, service, inflight, pc, local>>

Threads == Callers \cup Direct
Kinds   == {"gate", "entry", "exit"}

NoDb == [ok |-> FALSE, pos |-> {}]
NoRows == [rows |-> {}, left |-> 0, blank |-> FALSE]

\* The symbols for which the gate says "not held": it is fail-closed, none when
\* the state is unknown; its second look, at the DB alone, can only add symbols
\* that are held.
Free(st) == IF st.known THEN Symbols \ st.pos ELSE {}

\* Ages from which on nothing changes any more.
OldState == TTL + MaxAge
OldHeld  == TTL + Window + GetTime - 1

Init ==
    /\ broker = {}
    /\ heldFor = [s \in Symbols |-> 0]
    /\ lastReadOk = FALSE
    /\ cache = NoRows
    /\ cacheWait = 0 /\ getter = None /\ getAge = 0
    /\ state = None /\ stateAge = 0
    /\ lastGood = {} /\ misread = FALSE
    /\ dbWait = 0 /\ brokerWait = 0
    /\ inflight = None
    /\ pc = [t \in Threads |-> "idle"]
    /\ kind = [c \in Callers |-> "exit"]
    /\ force = [c \in Callers |-> FALSE]
    /\ dbRead = [c \in Callers |-> NoDb]
    /\ rows = [t \in Threads |-> {}]
    /\ fetched = [c \in Callers |-> FALSE]
    /\ noted = [c \in Callers |-> FALSE]

Goto(t, label) == pc' = [pc EXCEPT ![t] = label]

----------------------------------------------------------------------------
(* Answers *)

\* get_state returns the state there is now: the locals of the call die.
Reply(c) ==
    /\ Goto(c, "idle")
    /\ force' = [force EXCEPT ![c] = FALSE]
    /\ dbRead' = [dbRead EXCEPT ![c] = NoDb]
    /\ rows' = [rows EXCEPT ![c] = {}]
    /\ fetched' = [fetched EXCEPT ![c] = FALSE]
    /\ noted' = [noted EXCEPT ![c] = FALSE]
    /\ kind' = [kind EXCEPT ![c] = "exit"]

\* The gate does not take "known but too old": it asks again with force.
Verify(c) ==
    /\ Goto(c, "try")
    /\ force' = [force EXCEPT ![c] = TRUE]
    /\ UNCHANGED <<kind, dbRead, rows, fetched, noted>>

Hand(c) ==
    IF kind[c] = "gate" /\ state.known /\ stateAge > MaxAge /\ ~force[c]
    THEN Verify(c)
    ELSE Reply(c)

----------------------------------------------------------------------------
(* get_state *)

Call(c, k) ==
    /\ pc[c] = "idle"
    /\ kind' = [kind EXCEPT ![c] = k]
    /\ force' = [force EXCEPT ![c] = k = "entry"]
    /\ Goto(c, IF k = "entry" THEN "try" ELSE "look")
    /\ UNCHANGED <<world, shared, service, inflight, dbRead, rows, fetched, noted>>

\* Mutant: the age of the state is not looked at.
StateFresh_AnyAge == state # None

StateFresh == state # None /\ stateAge < TTL

Look(c) ==
    /\ pc[c] = "look"
    /\ IF StateFresh
       THEN Hand(c)
       ELSE Goto(c, "try") /\ UNCHANGED local
    /\ UNCHANGED <<world, shared, service, inflight>>

TryInflight(c) ==
    /\ pc[c] = "try"
    /\ IF inflight = None
       THEN inflight' = c /\ Goto(c, "own")
       ELSE Goto(c, "wait") /\ UNCHANGED inflight
    /\ UNCHANGED <<world, shared, service, local>>

TakeAfterWait(c) ==
    /\ pc[c] = "wait"
    /\ inflight = None
    /\ inflight' = c
    /\ Goto(c, "shared")
    /\ UNCHANGED <<world, shared, service, local>>

\* A waiter takes the state there is, also when it asked with force.  There is
\* one: whoever it waited for has published.
SharedResult(c) ==
    /\ pc[c] = "shared"
    /\ state # None
    /\ Hand(c)
    /\ inflight' = None
    /\ UNCHANGED <<world, shared, service>>

\* The refresh begins.  What was asked for matters no more: the state it will
\* publish is new, and the answer to every kind of caller.
Refresh(c) ==
    /\ Goto(c, "db")
    /\ kind' = [kind EXCEPT ![c] = "exit"]
    /\ force' = [force EXCEPT ![c] = FALSE]
    /\ UNCHANGED <<inflight, dbRead, rows, fetched, noted>>

\* Mutant: the early return forgets the mutex.
OwnerLook_Keeps(c) ==
    /\ pc[c] = "own"
    /\ IF ~force[c] /\ StateFresh
       THEN Hand(c) /\ UNCHANGED inflight
       ELSE Refresh(c)
    /\ UNCHANGED <<world, shared, service>>

OwnerLook(c) ==
    /\ pc[c] = "own"
    /\ IF ~force[c] /\ StateFresh
       THEN Hand(c) /\ inflight' = None
       ELSE Refresh(c)
    /\ UNCHANGED <<world, shared, service>>

----------------------------------------------------------------------------
(* _refresh *)

\* next_try_at counts from the start of the refresh: when the failure is known
\* part of the backoff may be over.
Remaining == UNION {0 .. b : b \in Waits}

ReadDb(c) ==
    /\ pc[c] = "db"
    /\ \/ /\ dbWait = 0
          /\ \E open \in SUBSET Symbols :
                 dbRead' = [dbRead EXCEPT ![c] = [ok |-> TRUE, pos |-> open]]
          /\ UNCHANGED dbWait
       \/ /\ dbWait = 0
          /\ dbRead' = [dbRead EXCEPT ![c] = NoDb]
          /\ dbWait' \in Remaining
       \/ /\ dbWait > 0
          /\ dbRead' = [dbRead EXCEPT ![c] = NoDb]
          /\ UNCHANGED dbWait
    /\ Goto(c, "broker")
    /\ UNCHANGED <<world, shared, state, stateAge, lastGood, misread, brokerWait, inflight,
                   kind, force, rows, fetched, noted>>

\* Mutant: an unknown state is published as empty.
Positions_EmptyWhenDark(dbr, brokerRows, brokerOk) ==
    IF brokerOk THEN IF dbr.ok THEN dbr.pos \cup brokerRows ELSE brokerRows
    ELSE IF dbr.ok THEN dbr.pos
    ELSE {}

\* The decision table of _decide: rows A, B/C, "broker only NG" and D.
Positions(dbr, brokerRows, brokerOk) ==
    IF brokerOk THEN IF dbr.ok THEN dbr.pos \cup brokerRows ELSE brokerRows
    ELSE IF dbr.ok THEN dbr.pos
    ELSE lastGood

\* _decide, publication, release of the mutex and the caller's answer.
Publish(c, brokerRows, brokerOk) ==
    LET st == [pos |-> Positions(dbRead[c], brokerRows, brokerOk), known |-> brokerOk]
    IN  /\ state' = st
        /\ stateAge' = 0
        /\ lastGood' = st.pos
        /\ misread' = (brokerOk /\ ~fetched[c])
        /\ inflight' = None
        /\ Reply(c)

\* The broker is in backoff: nothing is read.
SkipBroker(c) ==
    /\ pc[c] = "broker"
    /\ brokerWait > 0
    /\ Publish(c, {}, FALSE)
    /\ UNCHANGED <<world, shared, dbWait, brokerWait>>

\* Mutant: the reader does not reset LAST_READ_OK.
StartRead_NoReset(t) ==
    /\ \/ t \in Callers /\ pc[t] = "broker" /\ brokerWait = 0
       \/ t \in Direct /\ pc[t] = "idle"
    /\ Goto(t, "fetch")
    /\ UNCHANGED <<world, shared, service, inflight, local>>

\* read_kabu_open_positions resets the globals first.
StartRead(t) ==
    /\ \/ t \in Callers /\ pc[t] = "broker" /\ brokerWait = 0
       \/ t \in Direct /\ pc[t] = "idle"
    /\ lastReadOk' = FALSE
    /\ Goto(t, "fetch")
    /\ UNCHANGED <<world, cache, cacheWait, get, service, inflight, local>>

\* What a read has brought its caller; what a direct reader makes of its rows is
\* not this module's.
Keep(t, rs, list) ==
    IF t \in Callers
    THEN rows' = [rows EXCEPT ![t] = rs] /\ fetched' = [fetched EXCEPT ![t] = list]
    ELSE rows' = [rows EXCEPT ![t] = {}] /\ UNCHANGED fetched

\* ... then reads through positions_read_cache, never with force: what is in the
\* cache is taken at the first look, at the second, or after a wait.
SharedRead(t) ==
    /\ pc[t] = "fetch" \/ (pc[t] = "queue" /\ getter = None)
    /\ cache.left > 0
    /\ Keep(t, cache.rows, ~cache.blank)
    /\ Goto(t, "noteok")
    /\ UNCHANGED <<world, shared, service, inflight, kind, force, dbRead, noted>>

\* Another thread's GET is under way.
Queue(t) ==
    /\ pc[t] = "fetch"
    /\ cache.left = 0
    /\ getter # None
    /\ Goto(t, "queue")
    /\ UNCHANGED <<world, shared, service, inflight, local>>

\* Where a read ends that brings nothing back: the reader catches the failure and
\* returns {}; LAST_READ_OK stays as it is.
AfterFailure(t) == Goto(t, IF t \in Callers THEN "status" ELSE "idle")

\* The cache is in backoff, or the GET that was waited for has failed: a waiter
\* sends none of its own.
Refused(t) ==
    /\ \/ pc[t] = "fetch" /\ cacheWait > 0
       \/ pc[t] = "queue"
    /\ getter = None
    /\ cache.left = 0
    /\ AfterFailure(t)
    /\ UNCHANGED <<world, shared, service, inflight, local>>

SendGet(t) ==
    /\ pc[t] = "fetch"
    /\ getter = None
    /\ cache.left = 0
    /\ cacheWait = 0
    /\ getter' = t /\ getAge' = 0
    /\ Goto(t, "get")
    /\ UNCHANGED <<world, lastReadOk, cache, cacheWait, service, inflight, local>>

\* The station looks at its positions and answers.
Sample(t) ==
    /\ pc[t] = "get"
    /\ rows' = [rows EXCEPT ![t] = broker]
    /\ Goto(t, "got")
    /\ UNCHANGED <<world, shared, service, inflight, kind, force, dbRead, fetched, noted>>

GetEnds == getter' = None /\ getAge' = 0

\* Mutant: the answer may be served for one tick too many.
BrokerGet_LongWindow(t) ==
    /\ pc[t] = "got"
    /\ cache' = [rows |-> rows[t], left |-> Window + 1, blank |-> FALSE]
    /\ Keep(t, rows[t], TRUE)
    /\ GetEnds
    /\ Goto(t, "noteok")
    /\ UNCHANGED <<world, lastReadOk, cacheWait, service, inflight, kind, force, dbRead,
                   noted>>

\* The answer has come: from now on it is served for the window.
BrokerGet(t) ==
    /\ pc[t] = "got"
    /\ cache' = [rows |-> rows[t], left |-> Window, blank |-> FALSE]
    /\ Keep(t, rows[t], TRUE)
    /\ GetEnds
    /\ Goto(t, "noteok")
    /\ UNCHANGED <<world, lastReadOk, cacheWait, service, inflight, kind, force, dbRead,
                   noted>>

\* A 2xx answer with an empty body, or with a body in which no list of positions
\* is found: the fetch returns it and the cache notes a success.
BlankGet(t) ==
    /\ BlankReads
    /\ pc[t] = "get"
    /\ cache' = [rows |-> {}, left |-> Window, blank |-> TRUE]
    /\ GetEnds
    /\ Goto(t, "noteok")
    /\ UNCHANGED <<world, lastReadOk, cacheWait, service, inflight, local>>

\* A timeout, an error status (401 included), no token, or no connection.
GetFails(t) ==
    /\ pc[t] \in {"get", "got"}
    /\ cacheWait' \in Waits
    /\ rows' = [rows EXCEPT ![t] = {}]
    /\ GetEnds
    /\ AfterFailure(t)
    /\ UNCHANGED <<world, lastReadOk, cache, service, inflight, kind, force, dbRead,
                   fetched, noted>>

\* The labels between the reset of LAST_READ_OK and the look at it.
Reading == {"fetch", "queue", "get", "got", "noteok", "status"}

NoteOk(t) ==
    /\ pc[t] = "noteok"
    /\ lastReadOk' = TRUE
    /\ noted' = [c \in Callers |-> noted[c] \/ pc[c] \in Reading]
    /\ Goto(t, IF t \in Callers THEN "status" ELSE "idle")
    /\ UNCHANGED <<world, cache, cacheWait, get, service, inflight, kind, force, dbRead,
                   rows, fetched>>

\* _read_broker_positions asks get_last_read_status() after the rows came back.
Decide(c) ==
    /\ pc[c] = "status"
    /\ IF lastReadOk THEN brokerWait' = 0 ELSE brokerWait' \in Remaining
    /\ Publish(c, IF lastReadOk THEN rows[c] ELSE {}, lastReadOk)
    /\ UNCHANGED <<world, shared, dbWait>>

----------------------------------------------------------------------------
(* Environment *)

Fill(s) ==
    /\ s \notin broker
    /\ broker' = broker \cup {s}
    /\ UNCHANGED <<heldFor, shared, service, inflight, pc, local>>

Unwind(s) ==
    /\ s \in broker
    /\ broker' = broker \ {s}
    /\ heldFor' = [heldFor EXCEPT ![s] = 0]
    /\ UNCHANGED <<shared, service, inflight, pc, local>>

Least(a, b) == IF a < b THEN a ELSE b
Less1(n) == IF n > 0 THEN n - 1 ELSE 0

\* A caller that is neither idle nor in I/O nor waiting for a taken mutex goes
\* on before the clock does.
Resting(c) ==
    \/ pc[c] \in {"idle", "db", "get", "got"}
    \/ pc[c] = "wait" /\ inflight # None
    \/ pc[c] = "queue" /\ getter # None

Tick ==
    /\ \A c \in Callers : Resting(c)
    /\ getter # None => getAge < GetTime
    /\ getAge' = IF getter = None THEN 0 ELSE getAge + 1
    /\ cache' = IF cache.left <= 1 THEN NoRows
                ELSE [cache EXCEPT !.left = @ - 1]
    /\ cacheWait' = Less1(cacheWait)
    /\ dbWait' = Less1(dbWait)
    /\ brokerWait' = Less1(brokerWait)
    /\ stateAge' = IF state = None THEN 0 ELSE Least(stateAge + 1, OldState)
    /\ heldFor' = [s \in Symbols |->
                      IF s \in broker THEN Least(heldFor[s] + 1, OldHeld) ELSE 0]
    /\ UNCHANGED <<broker, lastReadOk, getter, state, lastGood, misread, inflight, pc,
                   local>>

----------------------------------------------------------------------------

Step(c) ==
    \/ Look(c) \/ TryInflight(c) \/ TakeAfterWait(c) \/ SharedResult(c)
    \/ OwnerLook(c) \/ ReadDb(c) \/ SkipBroker(c) \/ Decide(c)

Read(t) ==
    \/ StartRead(t) \/ SharedRead(t) \/ Queue(t) \/ Refused(t)
    \/ SendGet(t) \/ Sample(t) \/ BrokerGet(t) \/ BlankGet(t) \/ GetFails(t)
    \/ NoteOk(t)

Next ==
    \/ Tick
    \/ \E s \in Symbols : Fill(s) \/ Unwind(s)
    \/ \E c \in Callers : Step(c) \/ \E k \in Kinds : Call(c, k)
    \/ \E t \in Threads : Read(t)

Spec == Init /\ [][Next]_vars

\* What a caller does next.
Go(c) == Step(c) \/ Read(c) \/ \E k \in Kinds : Call(c, k)

\* Fairness: threads run, and each keeps asking (the exit loop does so every
\* second).  Nothing says that a read succeeds.  This is weak fairness with its
\* condition written out for the prover, which does not know ENABLED: CanGo(c)
\* says when c can take a step.
CanGo(c) ==
    /\ pc[c] = "wait" => inflight = None
    /\ pc[c] = "shared" => state # None
    /\ pc[c] = "queue" => getter = None
Goes(c) == []<>~CanGo(c) \/ []<><<Go(c)>>_vars
FairSpec == Spec /\ \A c \in Callers : Goes(c)

\* The GETs of direct readers end, as they have a timeout.  (Where time passes
\* Tick says so.)
GetsEnd == []<>(getter \notin Direct)

----------------------------------------------------------------------------
(* Properties *)

Labels == {"idle", "look", "try", "wait", "shared", "own", "db", "broker",
           "fetch", "queue", "get", "got", "noteok", "status"}

\* Every variable has its type.
TypeOK ==
    /\ broker \subseteq Symbols
    /\ heldFor \in [Symbols -> Nat]
    /\ lastReadOk \in BOOLEAN
    /\ cache \in [rows : SUBSET Symbols, left : 0 .. Window, blank : BOOLEAN]
    /\ cacheWait \in Nat /\ dbWait \in Nat /\ brokerWait \in Nat
    /\ getter \in Threads \cup {None} /\ getAge \in 0 .. GetTime
    /\ state \in [pos : SUBSET Symbols, known : BOOLEAN] \cup {None}
    /\ stateAge \in Nat
    /\ lastGood \subseteq Symbols /\ misread \in BOOLEAN
    /\ inflight \in Callers \cup {None}
    /\ pc \in [Threads -> Labels]
    /\ kind \in [Callers -> Kinds]
    /\ force \in [Callers -> BOOLEAN]
    /\ dbRead \in [Callers -> [ok : BOOLEAN, pos : SUBSET Symbols]]
    /\ rows \in [Threads -> SUBSET Symbols]
    /\ fetched \in [Callers -> BOOLEAN] /\ noted \in [Callers -> BOOLEAN]

Publishes(c) == pc[c] \in {"broker", "status"} /\ pc'[c] = "idle"

\* Rules "position unknown で ENTRY を許可しない" and "while the broker cannot be
\* read it must not be taken for certain that there is no position" (header, 33
\* and 37-38): a state is published as known only by a refresh whose own read of
\* the broker brought rows back.  The flag that tells is shared with the threads
\* that read around the service, and the rule does not hold.
KnownMeansRead ==
    [][\A c \in Callers : Publishes(c) /\ state'.known => fetched[c]]_vars

\* What does hold of it, whoever reads and whatever a GET answers: a state is
\* published as known only if some reader of the process has noted a success
\* since this refresh reset the flag.  A success of before never counts.
KnownNeedsSuccess ==
    [][\A c \in Callers : Publishes(c) /\ state'.known => noted[c]]_vars

\* Rule D (570-573) and "DB read failure != positions empty" (32): a refresh
\* that could not read the DB, and during which no reader got through to the
\* broker, leaves the positions as they were, however many such refreshes follow
\* each other and whatever was published in between.
DarkKeepsPositions ==
    [][\A c \in Callers : Publishes(c) /\ ~dbRead[c].ok /\ ~noted[c] =>
           state'.pos = IF state = None THEN {} ELSE state.pos]_vars

\* A gate that says "not held" of a symbol held for longer than a GET and the
\* two caches in a row can hide it.
StaleFree(c) ==
    /\ pc[c] # "idle" /\ pc'[c] = "idle"
    /\ \E s \in Free(state') : heldFor[s] > (TTL - 1) + (Window - 1) + GetTime

\* The guard against a second position lags by less than TTL + Window + GetTime,
\* whoever refreshed and however many callers waited for it, but for one case:
\* the published state took a success that was not its own, or an answer that
\* was none, for its read.
StaleOnlyByMisread == [][\A c \in Callers : StaleFree(c) => misread']_vars

Holding == {"own", "db", "broker", "shared"} \cup Reading

\* The mutex is held by exactly the caller whose code holds it.
HolderOK == \A c \in Callers : pc[c] \in Holding <=> inflight = c

\* Concurrent consumers share one read (433): at most one caller is between
\* acquire and release, and a waiter who gets the mutex always finds a state.
\* If it did not, it would give the mutex back (442) and go on into the code
\* below without it (444), refreshing next to another refresh and releasing a
\* mutex that is not its own (453).
RefreshAlone == HolderOK /\ \A c \in Callers : pc[c] = "shared" => state # None

\* The mutex of the service is always given back: by the owner, however its
\* reads end and whoever's GET they wait for, and by a waiter, who finds a state
\* to go home with.
InflightReleased == GetsEnd => \A c \in Callers : inflight = c ~> inflight # c

\* Once GETs stop failing the state becomes known again, through both backoffs,
\* the inner of which direct readers have renewed: fail-closed does not stay
\* closed.  A direct reader may still reset LAST_READ_OK under a caller that has
\* read and is about to ask; that it does not do so for ever is assumed.
Unlucky ==
    \/ \E t \in Threads : GetFails(t)
    \/ \E d \in Direct : StartRead(d) /\ \E c \in Callers : pc[c] = "status"
TimePasses == []<><<Tick>>_vars
Reopens ==
    TimePasses /\ <>[][~Unlucky]_vars => []<>(state # None /\ state.known)

----------------------------------------------------------------------------
(* The inductive invariants *)

\* The GET that is under way is that of the thread that holds the inner mutex.
GetterOK == \A t \in Threads : pc[t] \in {"get", "got"} <=> getter = t

\* A success that was noted before a refresh does not reach its look at the flag.
NotedOK ==
    \A c \in Callers : IF pc[c] \in Reading THEN lastReadOk => noted[c] ELSE ~noted[c]

\* Whoever waited for a GET that is over finds its answer or its backoff: no
\* other thread can send one before it has looked.
QueueOK ==
    \A c \in Callers : pc[c] = "queue" /\ getter = None => cache.left > 0 \/ cacheWait > 0

\* last_good is what was published last.
LastGoodOK == lastGood = IF state = None THEN {} ELSE state.pos

IInv == TypeOK /\ HolderOK /\ GetterOK /\ QueueOK /\ NotedOK /\ LastGoodOK

\* The ages: how long a symbol that is missing from a copy can have been held, by
\* the age of the copy.

\* A symbol that is not held has not been held for any time, and the count
\* stops.
HeldOK == \A s \in Symbols : heldFor[s] <= OldHeld /\ (s \notin broker => heldFor[s] = 0)

\* An answer on its way: what is missing there was bought since it was sent for.
AnswerAgeOK ==
    \A t \in Threads : pc[t] = "got" =>
        \A s \in Symbols \ rows[t] : heldFor[s] <= getAge

\* The shared GET: the answer was stored GetTime after the station looked, at
\* the latest, and has been served for the part of the window that is over.
CacheAgeOK ==
    cache.left > 0 /\ ~cache.blank =>
        \A s \in Symbols \ cache.rows : heldFor[s] + cache.left <= Window + GetTime

\* The rows in the hands of a caller: no tick passes before they are published.
RowsAgeOK ==
    \A c \in Callers : fetched[c] =>
        /\ pc[c] \in {"noteok", "status"}
        /\ \A s \in Symbols \ rows[c] : heldFor[s] <= Window - 1 + GetTime

\* The published state.
StateAgeOK ==
    state # None /\ state.known /\ ~misread =>
        \A s \in Symbols \ state.pos : heldFor[s] <= Window - 1 + GetTime + stateAge

\* A waiter that may go on finds a state younger than TTL: whoever it waited
\* for has looked at the state's age or published, and no tick passes since.
WaiterFresh ==
    \A c \in Callers :
        pc[c] = "shared" \/ (pc[c] = "wait" /\ inflight = None) => StateFresh

Ages == HeldOK /\ AnswerAgeOK /\ CacheAgeOK /\ RowsAgeOK /\ StateAgeOK /\ WaiterFresh
AgeInv == IInv /\ Ages
=============================================================================
