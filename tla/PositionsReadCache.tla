-------------------------- MODULE PositionsReadCache --------------------------
(***************************************************************************)
(* kabu_api/positions_read_cache.py: the one owner of GET /positions.      *)
(*                                                                         *)
(* One entry (one query key) of the cache, and the threads that call       *)
(* get().  A caller looks at the cached payload, takes the `inflight`      *)
(* mutex or waits for the thread that holds it, and only the holder that   *)
(* did not wait sends a GET.  e.lock is held for single reads and writes   *)
(* of the entry, which are the atomic steps here.                          *)
(*                                                                         *)
(* A payload is the version of the broker's positions it was sampled from. *)
(* Time is an integer clock of one unit per second (time.monotonic).       *)
(***************************************************************************)
EXTENDS Naturals, Sequences

CONSTANTS
    Callers,   \* threads calling get()
    None,      \* no payload / no holder
    Window,    \* _refetch_window(): max(cache_ttl_sec, min_interval_sec)
    Backoff,   \* rest_limits.policy("positions").backoff_sec
    MaxNow,    \* bound of the clock
    MaxVer     \* bound of the broker's versions

ASSUME WindowAssumption == Window \in Nat \ {0}
ASSUME BackoffAssumption ==
    /\ Backoff \in Seq(Nat)
    /\ Len(Backoff) > 0
ASSUME BoundsAssumption == MaxNow \in Nat /\ MaxVer \in Nat
ASSUME NoneAssumption == None \notin Callers \cup Nat \cup [ver : Nat, at : Nat]

VARIABLES
    now,        \* time.monotonic()
    ver,        \* version of the positions at the broker
    inflight,   \* holder of e.inflight, or None
    payload,    \* e.payload with e.payload_at: [ver, at], or None
    lastGood,   \* e.last_good with e.last_good_at: [ver, at], or None
    failStreak, \* e.fail_streak
    nextTryAt,  \* e.next_try_at
    pc,         \* where each caller is in get()
    force,      \* its `force` argument
    t,          \* its local `now`, read at line 277
    got,        \* the version its GET sampled at the broker, or None
    res         \* the PositionsRead it returned

\* History, not in the code: consecutive failed GETs since the last success,
\* and the time the latest of them failed.
VARIABLES fails, failedAt

entry   == <<payload, lastGood, failStreak, nextTryAt, fails, failedAt>>
callers == <<pc, force, t, got, res>>
vars    == <<now, ver, inflight, entry, callers>>

Snapshot == [ver : Nat, at : Nat]

\* Mutant: a failure is reported as an empty success.
Result_EmptyOnFailure(snap) == [ok |-> TRUE, snap |-> snap]

\* What get() returns: `snap` is payload and its time.  The last_good it also
\* hands out is `lastGood` itself; no caller in the repository reads it.
Result(snap) == [ok |-> snap # None, snap |-> snap]

----------------------------------------------------------------------------

Init ==
    /\ now = 0
    /\ ver = 0
    /\ inflight = None
    /\ payload = None
    /\ lastGood = None
    /\ failStreak = 0
    /\ nextTryAt = 0
    /\ pc = [c \in Callers |-> "idle"]
    /\ force = [c \in Callers |-> FALSE]
    /\ t = [c \in Callers |-> 0]
    /\ got = [c \in Callers |-> None]
    /\ res = [c \in Callers |-> Result(None)]
    /\ fails = 0
    /\ failedAt = 0

\* Mutant: the window's end still counts as fresh.
Fresh_Inclusive(at) == payload # None /\ at <= payload.at + Window

\* _cached: a payload younger than the refetch window, seen from time `at`.
Fresh(at) == payload # None /\ at < payload.at + Window

\* _read_allowed, its callers take `now` while they hold inflight.
ReadAllowed == now >= nextTryAt

\* Mutant: the backoff never grows.
BackoffWait_Flat(streak) == Backoff[1]

\* schedule[min(streak, len(schedule) - 1)], counted from 1.
BackoffWait(streak) ==
    Backoff[IF streak < Len(Backoff) THEN streak + 1 ELSE Len(Backoff)]

Goto(c, label) == pc' = [pc EXCEPT ![c] = label]

\* get() returns r; its locals die.
Return(c, r) ==
    /\ Goto(c, "idle")
    /\ res' = [res EXCEPT ![c] = r]
    /\ force' = [force EXCEPT ![c] = FALSE]
    /\ t' = [t EXCEPT ![c] = 0]
    /\ got' = [got EXCEPT ![c] = None]

Stay == UNCHANGED <<res, force, t, got>>

Release == inflight' = None

----------------------------------------------------------------------------
(* get() *)

Call(c, f) ==
    /\ pc[c] = "idle"
    /\ Goto(c, IF f THEN "try" ELSE "fast")
    /\ force' = [force EXCEPT ![c] = f]
    /\ t' = [t EXCEPT ![c] = now]
    /\ res' = [res EXCEPT ![c] = Result(None)]
    /\ UNCHANGED <<now, ver, inflight, entry, got>>

\* The unlocked first look, with a `now` that may be old by then.
FastPath(c) ==
    /\ pc[c] = "fast"
    /\ \/ Fresh(t[c]) /\ Return(c, Result(payload))
       \/ ~Fresh(t[c]) /\ Goto(c, "try") /\ Stay
    /\ UNCHANGED <<now, ver, inflight, entry>>

\* Mutant: a caller that finds a read in flight goes on as an owner.
TryInflight_NoWait(c) ==
    /\ pc[c] = "try"
    /\ Goto(c, "own")
    /\ inflight' = c
    /\ UNCHANGED <<now, ver, entry, force, t, got, res>>

\* inflight.acquire(blocking=False)
TryInflight(c) ==
    /\ pc[c] = "try"
    /\ IF inflight = None
       THEN inflight' = c /\ Goto(c, "own")
       ELSE Goto(c, "wait") /\ UNCHANGED inflight
    /\ UNCHANGED <<now, ver, entry, force, t, got, res>>

\* The blocking acquire of a caller that found a read in flight.
TakeAfterWait(c) ==
    /\ pc[c] = "wait"
    /\ inflight = None
    /\ inflight' = c
    /\ Goto(c, "shared")
    /\ UNCHANGED <<now, ver, entry, force, t, got, res>>

\* Mutant: the mutex is given back only when a result is returned.
SharedResult_LeaksMutex(c) ==
    /\ pc[c] = "shared"
    /\ \/ Fresh(now) /\ Return(c, Result(payload)) /\ Release
       \/ ~Fresh(now) /\ ~ReadAllowed /\ Return(c, Result(None)) /\ Release
       \/ ~Fresh(now) /\ ReadAllowed /\ Goto(c, "gaveup") /\ Stay /\ UNCHANGED inflight
    /\ UNCHANGED <<now, ver, entry>>

\* The waiter takes the shared result or the backoff, or gives the mutex back.
SharedResult(c) ==
    /\ pc[c] = "shared"
    /\ \/ Fresh(now) /\ Return(c, Result(payload))
       \/ ~Fresh(now) /\ ~ReadAllowed /\ Return(c, Result(None))
       \/ ~Fresh(now) /\ ReadAllowed /\ Goto(c, "gaveup") /\ Stay
    /\ Release
    /\ UNCHANGED <<now, ver, entry>>

\* "concurrent read failed": a waiter never sends a GET of its own.
GiveUp(c) ==
    /\ pc[c] = "gaveup"
    /\ Return(c, Result(None))
    /\ UNCHANGED <<now, ver, inflight, entry>>

\* The owner looks again: a cached payload (unless forced) or the backoff.
OwnerSkips(c) ==
    /\ pc[c] = "own"
    /\ \/ Fresh(now) /\ ~force[c] /\ Return(c, Result(payload))
       \/ /\ ~Fresh(now) \/ force[c]
          /\ ~ReadAllowed
          /\ Return(c, Result(None))
    /\ Release
    /\ UNCHANGED <<now, ver, entry>>

StartFetch(c) ==
    /\ pc[c] = "own"
    /\ ~Fresh(now) \/ force[c]
    /\ ReadAllowed
    /\ Goto(c, "get")
    /\ UNCHANGED <<now, ver, inflight, entry, force, t, got, res>>

\* The broker answers the GET: the response holds its state of this moment.
Sample(c) ==
    /\ pc[c] = "get"
    /\ got[c] = None
    /\ got' = [got EXCEPT ![c] = ver]
    /\ UNCHANGED <<now, ver, inflight, entry, pc, force, t, res>>

\* fetch() returned ok: _note_ok, return, release.
FetchOk(c) ==
    /\ pc[c] = "get"
    /\ got[c] # None
    /\ LET snap == [ver |-> got[c], at |-> now]
       IN  /\ payload' = snap
           /\ lastGood' = snap
           /\ Return(c, Result(snap))
    /\ failStreak' = 0
    /\ nextTryAt' = 0
    /\ fails' = 0
    /\ UNCHANGED failedAt
    /\ Release
    /\ UNCHANGED <<now, ver>>

\* Mutant: the old payload is still served after a failure.
FetchFail_KeepsPayload(c) ==
    /\ pc[c] = "get"
    /\ nextTryAt' = now + BackoffWait(failStreak)
    /\ failStreak' = failStreak + 1
    /\ fails' = fails + 1
    /\ failedAt' = now
    /\ Return(c, Result(None))
    /\ Release
    /\ UNCHANGED <<now, ver, payload, lastGood>>

\* Mutant: a failure wipes the whole entry.
FetchFail_Forgets(c) ==
    /\ pc[c] = "get"
    /\ nextTryAt' = now + BackoffWait(failStreak)
    /\ failStreak' = failStreak + 1
    /\ payload' = None
    /\ lastGood' = None
    /\ fails' = fails + 1
    /\ failedAt' = now
    /\ Return(c, Result(None))
    /\ Release
    /\ UNCHANGED <<now, ver>>

\* fetch() raised, timed out or returned ok=False: _note_error, return, release.
FetchFail(c) ==
    /\ pc[c] = "get"
    /\ nextTryAt' = now + BackoffWait(failStreak)
    /\ failStreak' = failStreak + 1
    /\ payload' = None
    /\ UNCHANGED lastGood
    /\ fails' = fails + 1
    /\ failedAt' = now
    /\ Return(c, Result(None))
    /\ Release
    /\ UNCHANGED <<now, ver>>

----------------------------------------------------------------------------
(* Around get() *)

\* invalidate(key=...): drops the payload, takes e.lock only.
Invalidate ==
    /\ payload # None
    /\ payload' = None
    /\ UNCHANGED <<now, ver, inflight, lastGood, failStreak, nextTryAt,
                   fails, failedAt, callers>>

\* An order is filled at the broker.
Fill ==
    /\ ver < MaxVer
    /\ ver' = ver + 1
    /\ UNCHANGED <<now, inflight, entry, callers>>

Tick ==
    /\ now < MaxNow
    /\ now' = now + 1
    /\ UNCHANGED <<ver, inflight, entry, callers>>

Step(c) ==
    \/ FastPath(c) \/ TryInflight(c) \/ TakeAfterWait(c) \/ SharedResult(c)
    \/ GiveUp(c) \/ OwnerSkips(c) \/ StartFetch(c) \/ Sample(c)
    \/ FetchOk(c) \/ FetchFail(c)

Next ==
    \/ Invalidate \/ Fill \/ Tick
    \/ \E c \in Callers : Step(c) \/ \E f \in BOOLEAN : Call(c, f)

Spec == Init /\ [][Next]_vars

\* A thread that can run does run, and a GET ends (it has a timeout); nothing
\* makes a thread call again and the lock is not fair.
FairSpec == Spec /\ \A c \in Callers : WF_vars(Step(c))

\* The same with the condition of weak fairness written out, for the prover,
\* which does not know ENABLED: a step of c is possible wherever c is inside
\* get(), except while the mutex it waits for is taken.
CanStep(c) == pc[c] # "idle" /\ (pc[c] = "wait" => inflight = None)
Runs(c) == []<>~CanStep(c) \/ []<><<Step(c)>>_vars
RunningSpec == Spec /\ \A c \in Callers : Runs(c)

----------------------------------------------------------------------------
(* Properties *)

Labels == {"idle", "fast", "try", "wait", "shared", "gaveup", "own", "get"}
Holding(c) == pc[c] \in {"own", "get", "shared"}

\* Every variable has its type, a snapshot is whole, and a result is ok
\* exactly when it carries a payload.
TypeOK ==
    /\ now \in Nat
    /\ ver \in Nat
    /\ inflight \in Callers \cup {None}
    /\ payload \in Snapshot \cup {None}
    /\ lastGood \in Snapshot \cup {None}
    /\ failStreak \in Nat
    /\ nextTryAt \in Nat
    /\ pc \in [Callers -> Labels]
    /\ force \in [Callers -> BOOLEAN]
    /\ t \in [Callers -> Nat]
    /\ got \in [Callers -> Nat \cup {None}]
    /\ res \in [Callers -> [ok : BOOLEAN, snap : Snapshot \cup {None}]]
    /\ \A c \in Callers : res[c].ok <=> res[c].snap # None
    /\ fails \in Nat
    /\ failedAt \in Nat

\* Singleflight (header, duty 1): never two GETs of one key at a time, with
\* waiters and a timed-out owner handing the mutex on in any order.
SingleFlight ==
    \A c, d \in Callers : pc[c] = "get" /\ pc[d] = "get" => c = d

\* What was read never goes back to an older broker state, and is never
\* forgotten: a slow GET cannot overwrite the answer of a later one.
NoRegression ==
    [][lastGood # None => /\ lastGood' # None
                          /\ lastGood.ver <= lastGood'.ver
                          /\ lastGood.at <= lastGood'.at]_vars

\* Lines 219-221 of _note_error: after a failed GET nobody is told an old
\* answer is the present one, by the fast path, a shared wait or the owner,
\* until a later GET succeeded.
FailureFence ==
    [][\A c \in Callers : res'[c] # res[c] /\ res'[c].ok =>
           fails' = 0 /\ res'[c].snap = lastGood']_vars

\* Header, duty 3: between the n-th consecutive failure and the next GET at
\* least the n-th backoff passes, also for force=True and for the waiters.
BackoffHonoured ==
    [][\A c \in Callers : pc[c] # "get" /\ pc'[c] = "get" /\ fails > 0 =>
           now >= failedAt + Backoff[IF fails < Len(Backoff) THEN fails ELSE Len(Backoff)]]_vars

\* Header, duty 2: an answer was complete less than the refetch window before
\* the call began, or after it began, however long the call then waited.
FreshResult ==
    [][\A c \in Callers : res'[c] # res[c] /\ res'[c].ok =>
           t[c] < res'[c].snap.at + Window]_vars

\* The mutex is always given back: a hung or failing GET cannot leave every
\* later caller waiting.
InflightReleased ==
    \A c \in Callers : inflight = c ~> inflight # c

----------------------------------------------------------------------------
(* The inductive invariant behind the safety properties. *)

\* The mutex is held by exactly the caller whose code holds it.
HolderOK == \A c \in Callers : Holding(c) <=> inflight = c

\* A payload that may be served is the last good one, with no failure since.
PayloadOK == payload # None => payload = lastGood /\ fails = 0

\* The backoff fields of the entry say what really happened.
BackoffOK ==
    /\ failStreak = fails
    /\ fails > 0 => nextTryAt = failedAt + BackoffWait(fails - 1)

\* Nothing that was read is from the future.
TimesOK ==
    /\ lastGood # None => lastGood.ver <= ver /\ lastGood.at <= now
    /\ \A c \in Callers : t[c] <= now

\* The response under way is no older than everything read before.
GotOK ==
    \A c \in Callers : got[c] # None =>
        /\ pc[c] = "get"
        /\ got[c] <= ver
        /\ lastGood # None => lastGood.ver <= got[c]

IInv == TypeOK /\ HolderOK /\ PayloadOK /\ BackoffOK /\ TimesOK /\ GotOK

----------------------------------------------------------------------------
(* The entry keeps the promise of ReadPromise. *)

Promise == INSTANCE ReadPromise WITH
    truth   <- ver,
    known   <- IF lastGood = None THEN None ELSE lastGood.ver,
    offered <- payload # None,
    answer  <- [c \in Callers |->
                   IF pc[c] # "idle" THEN [says |-> "pending", ver |-> None]
                   ELSE IF res[c].ok THEN [says |-> "read", ver |-> res[c].snap.ver]
                   ELSE [says |-> "unread", ver |-> None]]

PromiseSpec == Promise!Spec
=============================================================================
