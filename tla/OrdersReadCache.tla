--------------------------- MODULE OrdersReadCache ---------------------------
(***************************************************************************)
(* kabu_api/orders_read_cache.py, the one owner of GET /orders, together   *)
(* with the loops that read through it: force_cancel_loop.py and           *)
(* pending_monitor.py cancel what they see open and invalidate after each  *)
(* cancel; the fill confirmation and the reprice loop of the exits read.   *)
(*                                                                         *)
(* An order is open until it ends, by a fill or by a cancel.  The version  *)
(* of the broker's state counts the ends; an answer is the version it was  *)
(* sampled from.  No caller forces a read, so `force` is left out.         *)
(***************************************************************************)
EXTENDS Naturals, Sequences

CONSTANTS
    Callers,    \* the threads that read /orders
    Cancellers, \* those that cancel and invalidate
    Orders,     \* the orders that are open at the start
    None,       \* no payload, no answer, no holder
    Window,     \* _cache_ttl(): max(0.2, cache_ttl_sec, min_interval_sec)
    Backoff,    \* rest_limits.policy("orders").backoff_sec
    MaxNow      \* bound of the clock

ASSUME CallersAssumption == Cancellers \subseteq Callers
ASSUME WindowAssumption == Window \in Nat \ {0}
ASSUME BackoffAssumption == Backoff \in Seq(Nat) /\ Len(Backoff) > 0
ASSUME BoundAssumption == MaxNow \in Nat
ASSUME NoneAssumption == None \notin Callers \cup Orders \cup Nat \cup [ver : Nat, at : Nat]

VARIABLES
    now,        \* time.monotonic()
    ver,        \* how many orders have ended
    ended,      \* the version an order ended with, 0 while it is open
    inflight,   \* holder of _inflight, or None
    payload,    \* _orders with _orders_at: [ver, at], or None
    failStreak, \* _fail_streak
    nextTryAt,  \* _next_try_at
    pc,         \* where each thread is, in get() or in its own loop
    t,          \* its local `now` of the first look
    got,        \* the version its GET sampled, or None
    res,        \* the version of its last answer, None when it was not ok
    todo,       \* the orders it has still to cancel
    cur         \* the order whose cancel it has just sent

\* History, not in the code: the last version read; consecutive failures and
\* the time of the latest; the version of the last invalidation with no GET
\* under way; the ended orders each thread has invalidated for at such a time.
VARIABLES lastGood, fails, failedAt, cut, done

broker  == <<ver, ended>>
cache   == <<payload, failStreak, nextTryAt, lastGood, fails, failedAt>>
calls   == <<t, got, res>>
cancels == <<todo, cur, cut, done>>
vars    == <<now, broker, inflight, cache, pc, calls, cancels>>

Snapshot == [ver : Nat, at : Nat]
InGet  == {"fast", "try", "wait", "shared", "own", "get"}
Labels == InGet \cup {"idle", "cancel", "inval"}

Init ==
    /\ now = 0
    /\ ver = 0 /\ ended = [o \in Orders |-> 0]
    /\ inflight = None
    /\ payload = None
    /\ failStreak = 0 /\ nextTryAt = 0
    /\ pc = [c \in Callers |-> "idle"]
    /\ t = [c \in Callers |-> 0]
    /\ got = [c \in Callers |-> None]
    /\ res = [c \in Callers |-> None]
    /\ todo = [c \in Callers |-> {}]
    /\ cur = [c \in Callers |-> None]
    /\ lastGood = None /\ fails = 0 /\ failedAt = 0
    /\ cut = 0 /\ done = [c \in Callers |-> {}]

Goto(c, label) == pc' = [pc EXCEPT ![c] = label]

\* The orders an answer of version v shows as open limit orders.
Shown(v) == {o \in Orders : ended[o] = 0 \/ v < ended[o]}

\* _cached: a payload younger than the window, seen from time `at`.
Fresh(at) == payload # None /\ at < payload.at + Window

ReadAllowed == now >= nextTryAt

\* Mutant: the backoff never grows.
BackoffWait_Flat(streak) == Backoff[1]

\* schedule[min(streak, len(schedule) - 1)], counted from 1.
BackoffWait(streak) == Backoff[IF streak < Len(Backoff) THEN streak + 1 ELSE Len(Backoff)]

\* get() returns an answer; a canceller goes through the orders it shows.
Answer(c, v) ==
    /\ res' = [res EXCEPT ![c] = v]
    /\ got' = [got EXCEPT ![c] = None]
    /\ IF v # None /\ c \in Cancellers /\ Shown(v) # {}
       THEN Goto(c, "cancel") /\ todo' = [todo EXCEPT ![c] = Shown(v)]
       ELSE Goto(c, "idle") /\ UNCHANGED todo
    /\ UNCHANGED <<t, cur, cut, done>>

\* Not ok: "not read", which no caller takes for "no orders".
Refuse(c) == Answer(c, None)

Release == inflight' = None

----------------------------------------------------------------------------
(* get() *)

Call(c) ==
    /\ pc[c] = "idle"
    /\ Goto(c, "fast")
    /\ t' = [t EXCEPT ![c] = now]
    /\ res' = [res EXCEPT ![c] = None]
    /\ UNCHANGED <<now, broker, inflight, cache, got, cancels>>

\* The first look, with a `now` that may be old by then.
FastPath(c) ==
    /\ pc[c] = "fast"
    /\ \/ Fresh(t[c]) /\ Answer(c, payload.ver)
       \/ ~Fresh(t[c]) /\ Goto(c, "try") /\ UNCHANGED <<calls, cancels>>
    /\ UNCHANGED <<now, broker, inflight, cache>>

\* Mutant: a thread that finds a GET in flight sends its own.
TryInflight_NoWait(c) ==
    /\ pc[c] = "try"
    /\ inflight' = c
    /\ Goto(c, "own")
    /\ UNCHANGED <<now, broker, cache, calls, cancels>>

\* acquire(blocking=False)
TryInflight(c) ==
    /\ pc[c] = "try"
    /\ \/ inflight = None /\ inflight' = c /\ Goto(c, "own")
       \/ inflight # None /\ Goto(c, "wait") /\ UNCHANGED inflight
    /\ UNCHANGED <<now, broker, cache, calls, cancels>>

\* The blocking acquire behind a GET in flight.
TakeAfterWait(c) ==
    /\ pc[c] = "wait" /\ inflight = None
    /\ inflight' = c
    /\ Goto(c, "shared")
    /\ UNCHANGED <<now, broker, cache, calls, cancels>>

\* The waiter shares the answer or is refused, because of the backoff or as
\* "concurrent read failed"; it never sends a GET of its own.
SharedResult(c) ==
    /\ pc[c] = "shared"
    /\ \/ Fresh(now) /\ Answer(c, payload.ver)
       \/ ~Fresh(now) /\ Refuse(c)
    /\ Release
    /\ UNCHANGED <<now, broker, cache>>

\* The owner looks again and at the backoff before it sends the GET.
OwnerSkips(c) ==
    /\ pc[c] = "own"
    /\ \/ Fresh(now) /\ Answer(c, payload.ver)
       \/ ~Fresh(now) /\ ~ReadAllowed /\ Refuse(c)
    /\ Release
    /\ UNCHANGED <<now, broker, cache>>

StartFetch(c) ==
    /\ pc[c] = "own"
    /\ ~Fresh(now) /\ ReadAllowed
    /\ Goto(c, "get")
    /\ UNCHANGED <<now, broker, inflight, cache, calls, cancels>>

\* The broker answers the GET with its state of this moment.
Sample(c) ==
    /\ pc[c] = "get" /\ got[c] = None
    /\ got' = [got EXCEPT ![c] = ver]
    /\ UNCHANGED <<now, broker, inflight, cache, pc, t, res, cancels>>

\* _note_ok: what was sampled is stored, whatever was invalidated meanwhile.
FetchOk(c) ==
    /\ pc[c] = "get" /\ got[c] # None
    /\ payload' = [ver |-> got[c], at |-> now]
    /\ failStreak' = 0 /\ nextTryAt' = 0
    /\ lastGood' = got[c] /\ fails' = 0 /\ UNCHANGED failedAt
    /\ Answer(c, got[c])
    /\ Release
    /\ UNCHANGED <<now, broker>>

\* Mutant: the last answer outlives a failure.
FetchFail_KeepsPayload(c) ==
    /\ pc[c] = "get"
    /\ nextTryAt' = now + BackoffWait(failStreak)
    /\ failStreak' = failStreak + 1
    /\ fails' = fails + 1 /\ failedAt' = now
    /\ Refuse(c)
    /\ Release
    /\ UNCHANGED <<now, broker, payload, lastGood>>

\* _note_error: the GET failed, timed out or raised.
FetchFail(c) ==
    /\ pc[c] = "get"
    /\ payload' = None
    /\ nextTryAt' = now + BackoffWait(failStreak)
    /\ failStreak' = failStreak + 1
    /\ fails' = fails + 1 /\ failedAt' = now
    /\ Refuse(c)
    /\ Release
    /\ UNCHANGED <<now, broker, lastGood>>

----------------------------------------------------------------------------
(* The cancel loops, the broker and time *)

End(o) == ver' = ver + 1 /\ ended' = [ended EXCEPT ![o] = ver + 1]

\* Mutant: the order stays in the list.
Cancel_Stays(c) ==
    /\ pc[c] = "cancel"
    /\ \E o \in todo[c] :
          /\ cur' = [cur EXCEPT ![c] = o]
          /\ (ended[o] = 0 /\ End(o)) \/ UNCHANGED broker
    /\ Goto(c, "inval")
    /\ UNCHANGED <<now, inflight, cache, calls, todo, cut, done>>

\* PUT /cancelorder for one of the orders shown.  It may fail, and an order
\* that has ended stays as it ended; the answer is not looked at.
Cancel(c) ==
    /\ pc[c] = "cancel"
    /\ \E o \in todo[c] :
          /\ todo' = [todo EXCEPT ![c] = @ \ {o}]
          /\ cur' = [cur EXCEPT ![c] = o]
          /\ (ended[o] = 0 /\ End(o)) \/ UNCHANGED broker
    /\ Goto(c, "inval")
    /\ UNCHANGED <<now, inflight, cache, calls, cut, done>>

\* No GET is under way.
Quiet == \A d \in Callers : pc[d] # "get"

\* The record of an invalidation that no GET can undo.
Recorded(c) ==
    IF Quiet
    THEN /\ cut' = ver
         /\ done' = [done EXCEPT ![c] = IF ended[cur[c]] # 0 THEN @ \cup {cur[c]} ELSE @]
    ELSE UNCHANGED <<cut, done>>

\* Mutant: the cache is left as it is after a cancel.
Invalidate_Forgotten(c) ==
    /\ pc[c] = "inval"
    /\ Recorded(c)
    /\ cur' = [cur EXCEPT ![c] = None]
    /\ Goto(c, IF todo[c] = {} THEN "idle" ELSE "cancel")
    /\ UNCHANGED <<now, broker, inflight, cache, calls, todo>>

\* invalidate(), which takes _lock only, and on to the next order.
Invalidate(c) ==
    /\ pc[c] = "inval"
    /\ payload' = None
    /\ Recorded(c)
    /\ cur' = [cur EXCEPT ![c] = None]
    /\ Goto(c, IF todo[c] = {} THEN "idle" ELSE "cancel")
    /\ UNCHANGED <<now, broker, inflight, failStreak, nextTryAt, lastGood, fails, failedAt,
                   calls, todo>>

Fill(o) ==
    /\ ended[o] = 0
    /\ End(o)
    /\ UNCHANGED <<now, inflight, cache, pc, calls, cancels>>

Tick ==
    /\ now < MaxNow
    /\ now' = now + 1
    /\ UNCHANGED <<broker, inflight, cache, pc, calls, cancels>>

Step(c) ==
    \/ Call(c) \/ FastPath(c) \/ TryInflight(c) \/ TakeAfterWait(c) \/ SharedResult(c)
    \/ OwnerSkips(c) \/ StartFetch(c) \/ Sample(c) \/ FetchOk(c) \/ FetchFail(c)
    \/ Cancel(c) \/ Invalidate(c)

Next ==
    \/ \E c \in Callers : Step(c)
    \/ \E o \in Orders : Fill(o)
    \/ Tick

Spec == Init /\ [][Next]_vars

----------------------------------------------------------------------------
(* Properties *)

\* Types; in particular only cancellers cancel, and an order being cancelled
\* is not waiting to be cancelled.
TypeOK ==
    /\ now \in Nat /\ ver \in Nat
    /\ ended \in [Orders -> Nat]
    /\ inflight \in Callers \cup {None}
    /\ payload \in Snapshot \cup {None}
    /\ failStreak \in Nat /\ nextTryAt \in Nat
    /\ pc \in [Callers -> Labels]
    /\ t \in [Callers -> Nat]
    /\ got \in [Callers -> Nat \cup {None}]
    /\ res \in [Callers -> Nat \cup {None}]
    /\ todo \in [Callers -> SUBSET Orders]
    /\ cur \in [Callers -> Orders \cup {None}]
    /\ \A c \in Callers : /\ pc[c] = "inval" <=> cur[c] # None
                          /\ cur[c] \notin todo[c]
                          /\ todo[c] # {} => c \in Cancellers
    /\ lastGood \in Nat \cup {None} /\ fails \in Nat /\ failedAt \in Nat
    /\ cut \in Nat /\ done \in [Callers -> SUBSET Orders]

\* Header, safety rule 2: after a failed GET nobody gets an old answer, by the
\* first look, a shared wait or as the owner, until a later GET succeeded.
FailureFence ==
    [][\A c \in Callers : res'[c] # res[c] /\ res'[c] # None =>
           fails' = 0 /\ res'[c] = lastGood']_vars

\* Header, duty 3: after the n-th failure in a row no GET starts before the
\* n-th backoff is over, whichever thread starts it.
BackoffHonoured ==
    [][\A c \in Callers : pc[c] # "get" /\ pc'[c] = "get" /\ fails > 0 =>
           now >= failedAt + Backoff[IF fails < Len(Backoff) THEN fails ELSE Len(Backoff)]]_vars

\* invalidate(), "the next read always fetches anew", as far as it is true:
\* every answer given after an invalidation during which no GET was under way
\* shows the orders as they were then or later, to any thread.
RefetchAfterCancel ==
    [][\A c \in Callers : res'[c] # res[c] /\ res'[c] # None => cut <= res'[c]]_vars

\* What that is for: a loop does not go on to cancel, pass after pass, an order
\* it has cancelled already (or that was filled when it tried), unless another
\* thread's GET was under way when it invalidated.
CancelledOnce == \A c \in Callers : todo[c] \cap done[c] = {}

----------------------------------------------------------------------------
(* The inductive invariant behind them *)

Holding(c) == pc[c] \in {"shared", "own", "get"}
HolderOK == \A c \in Callers : Holding(c) <=> inflight = c

\* What may be served is the last thing read, with no failure since.
PayloadOK == payload # None => payload.ver = lastGood /\ fails = 0

BackoffOK ==
    /\ failStreak = fails
    /\ fails > 0 => nextTryAt = failedAt + BackoffWait(fails - 1)

\* Versions grow from the last invalidation to the last answer, to the answer
\* under way, to the broker.
VersionsOK ==
    /\ cut <= ver
    /\ lastGood # None => lastGood <= ver
    /\ payload # None => cut <= payload.ver
    /\ \A c \in Callers : got[c] # None =>
          /\ pc[c] = "get"
          /\ cut <= got[c] /\ got[c] <= ver
          /\ lastGood # None => lastGood <= got[c]

\* What is done had ended at the invalidation, so no later answer shows it.
DoneOK ==
    /\ \A o \in Orders : ended[o] <= ver
    /\ \A c \in Callers : \A o \in done[c] : ended[o] # 0 /\ ended[o] <= cut

IInv == TypeOK /\ HolderOK /\ PayloadOK /\ BackoffOK /\ VersionsOK /\ DoneOK /\ CancelledOnce

----------------------------------------------------------------------------
(* The orders cache keeps the same promise as the positions cache. *)

Promise == INSTANCE ReadPromise WITH
    truth   <- ver,
    known   <- lastGood,
    offered <- payload # None,
    answer  <- [c \in Callers |->
                   IF pc[c] \in InGet THEN [says |-> "pending", ver |-> None]
                   ELSE IF res[c] # None THEN [says |-> "read", ver |-> res[c]]
                   ELSE [says |-> "unread", ver |-> None]]

PromiseSpec == Promise!Spec
=============================================================================
