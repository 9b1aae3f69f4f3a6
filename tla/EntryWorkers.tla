----------------------------- MODULE EntryWorkers -----------------------------
(***************************************************************************)
(* Who may run an entry.  Four layers keep two runs apart:                 *)
(*  - core/startup/bootstrap/schedule_loop.py marks a job as running and   *)
(*    gives it a thread; a mark that looks stale is dropped;               *)
(*  - trading/entry_exit/tasks.py takes _RANKING_ENTRY_RUN_LOCK and runs   *)
(*    the ranking entry in a worker thread, waiting for it up to a timeout;*)
(*    that worker runs the build and the controller in workers of their    *)
(*    own;                                                                 *)
(*  - trading/entry_exit/worker_guard.py allows one worker of a kind;      *)
(*  - trading/handlers/entry_controller.py runs the pipeline under         *)
(*    _pipeline_lock, which a SUMMARY run that has waited too long         *)
(*    replaces by a new one.                                               *)
(*                                                                         *)
(* Time is left out: a wait may end at any moment, a mark may be stale at  *)
(* any moment.  So is the request to stop (cancel, deadline): a worker may *)
(* return at any point, asked or not.                                      *)
(***************************************************************************)
EXTENDS Naturals, Sequences

CONSTANTS
    Jobs,       \* job threads of the ranking entry
    Outer,      \* worker threads of kind RANKING_ENTRY,
    Build,      \* of kind RANKING_ENTRY_BUILD
    Control,    \* and of kind ENTRY_CONTROLLER:RANKING
    Summaries,  \* threads that call run_entry_pipeline for SUMMARY
    First,      \* the Lock that _pipeline_lock is at the start
    None

Workers == Outer \cup Build \cup Control
Callers == Jobs \cup Outer
Traders == Control \cup Summaries
Threads == Jobs \cup Workers \cup Summaries

ASSUME SortsAssumption ==
    /\ Jobs \cap (Workers \cup Summaries) = {} /\ Workers \cap Summaries = {}
    /\ Outer \cap (Build \cup Control) = {} /\ Build \cap Control = {}
ASSUME NoneAssumption == None \notin Threads
ASSUME FirstAssumption == First \notin Summaries \cup {None}

\* The Lock of the start, and the RLock that a SUMMARY run puts in its place.
\* A run waits for the Lock only, so that none makes a second one.
Locks == {First} \cup Summaries

VARIABLES
    marked,     \* the job's key is in _RUNNING_JOBS
    runLock,    \* _RANKING_ENTRY_RUN_LOCK is taken
    pc,         \* where each thread is; "free" for a thread that is not there
    mate,       \* the worker a caller has made and not started yet, or None
    stage,      \* the call of Calls an outer worker is at; 0 before the first
    active,     \* the slot of _ACTIVE of each kind, named by its worker, or None
    lock,       \* which of the Locks _pipeline_lock is
    got,        \* the one a pipeline run has fetched from it, or None
    owner       \* the thread that has taken each of them, or None

guard    == <<mate, active>>
pipeline == <<lock, got, owner>>
vars     == <<marked, runLock, pc, mate, stage, active, lock, got, owner>>

Kinds == {"ranking", "build", "controller"}
Crew  == [ranking |-> Outer, build |-> Build, controller |-> Control]

\* What the ranking worker calls: the controller for what is pending already,
\* the build, the controller for what the build has made.
Calls == <<"controller", "build", "controller">>

KindOf(c) == IF c \in Jobs THEN "ranking" ELSE Calls[stage[c]]

CallLabels  == {"begin", "attach", "start", "join"}
SlotLabels  == {"free", "begun", "made", "pop"}
LabelsOf(c) ==
    CASE c \in Jobs      -> {"idle", "lock"} \cup CallLabels
      [] c \in Outer     -> {"next", "unlock", "end"} \cup CallLabels \cup SlotLabels
      [] c \in Build     -> {"run"} \cup SlotLabels
      [] c \in Control   -> {"wait", "core", "got", "trade"} \cup SlotLabels
      [] c \in Summaries -> {"wait", "stale", "reset", "core", "got", "trade"}

Init ==
    /\ marked = FALSE /\ runLock = FALSE
    /\ pc = [c \in Threads |-> CASE c \in Jobs -> "idle" [] c \in Workers -> "free" [] OTHER -> "wait"]
    /\ mate = [c \in Callers |-> None]
    /\ stage = [c \in Outer |-> 0]
    /\ active = [k \in Kinds |-> None]
    /\ lock = First /\ got = [c \in Traders |-> None] /\ owner = [l \in Locks |-> None]

Goto(c, label) == pc' = [pc EXCEPT ![c] = label]

----------------------------------------------------------------------------
(* The dispatch loop and the job *)

\* A due job whose key is not marked gets a new thread; new threads, of jobs and
\* of workers, take the first name that is free.
Dispatch(j) ==
    /\ ~marked /\ pc[j] = "idle" /\ j = CHOOSE i \in Jobs : pc[i] = "idle"
    /\ marked' = TRUE
    /\ Goto(j, "lock")
    /\ UNCHANGED <<runLock, stage, guard, pipeline>>

\* _is_job_running, _clear_if_stale: the ranking job counts as stale after
\* 30 s, sooner than the 35 s to 55 s it may wait for its worker.
StaleClear ==
    /\ marked /\ marked' = FALSE
    /\ UNCHANGED <<runLock, pc, stage, guard, pipeline>>

\* _mark_job_done drops the mark, whichever thread has set it.
JobEnds(j) == Goto(j, "idle") /\ marked' = FALSE

\* Mutant: the run lock is not looked at.
TakeRunLock_Ignored(j) ==
    /\ pc[j] = "lock"
    /\ runLock' = TRUE /\ Goto(j, "begin") /\ UNCHANGED marked
    /\ UNCHANGED <<stage, guard, pipeline>>

\* acquire(blocking=False)
TakeRunLock(j) ==
    /\ pc[j] = "lock"
    /\ \/ ~runLock /\ runLock' = TRUE /\ Goto(j, "begin") /\ UNCHANGED marked
       \/ runLock /\ JobEnds(j) /\ UNCHANGED runLock
    /\ UNCHANGED <<stage, guard, pipeline>>

----------------------------------------------------------------------------
(* _run_callable_with_timeout_thread and the guard *)

\* The slot's worker is not finished and its thread is alive.  Until the thread
\* is attached the slot names the thread of the caller, which is; a thread that
\* is attached and not started is not.
Blocks(w) == pc[w] \notin {"made", "pop"}

\* Mutant: the caller's clean-up is forgotten.
Refused_KeepsLock(c) ==
    IF c \in Jobs THEN JobEnds(c) /\ UNCHANGED runLock
                  ELSE Goto(c, "next") /\ UNCHANGED <<marked, runLock>>

\* No second worker; on_refused gives the run lock back.
Refused(c) ==
    IF c \in Jobs THEN JobEnds(c) /\ runLock' = FALSE
                  ELSE Goto(c, "next") /\ UNCHANGED <<marked, runLock>>

\* begin()
Begin(c) ==
    /\ pc[c] = "begin"
    /\ LET k == KindOf(c) IN
       \/ /\ active[k] # None /\ Blocks(active[k])
          /\ Refused(c)
          /\ UNCHANGED guard
       \/ /\ active[k] # None => ~Blocks(active[k])
          /\ \E w \in Crew[k] :
                /\ pc[w] = "free" /\ w = CHOOSE v \in Crew[k] : pc[v] = "free"
                /\ active' = [active EXCEPT ![k] = w]
                /\ mate' = [mate EXCEPT ![c] = w]
                /\ pc' = [pc EXCEPT ![c] = "attach", ![w] = "begun"]
          /\ UNCHANGED <<marked, runLock>>
    /\ UNCHANGED <<stage, pipeline>>

\* Mutant: the thread is started before it is attached.
Attach_Starts(c) ==
    /\ pc[c] = "attach"
    /\ pc' = [pc EXCEPT ![c] = "start", ![mate[c]] = "run"]
    /\ UNCHANGED <<marked, runLock, stage, guard, pipeline>>

\* attach_thread()
Attach(c) ==
    /\ pc[c] = "attach"
    /\ pc' = [pc EXCEPT ![c] = "start", ![mate[c]] = "made"]
    /\ UNCHANGED <<marked, runLock, stage, guard, pipeline>>

\* th.start()
Start(c) ==
    /\ pc[c] = "start"
    /\ LET w == mate[c]
           first == CASE w \in Outer -> "next" [] w \in Build -> "run" [] OTHER -> "wait"
       IN pc' = [pc EXCEPT ![c] = "join", ![w] = first]
    /\ mate' = [mate EXCEPT ![c] = None]
    /\ UNCHANGED <<marked, runLock, stage, active, pipeline>>

\* Mutant: a job that has waited long enough gives the run lock back, too.
Join_GivesBack(c) ==
    /\ pc[c] = "join"
    /\ IF c \in Jobs THEN JobEnds(c) /\ runLock' = FALSE
                     ELSE Goto(c, "next") /\ UNCHANGED <<marked, runLock>>
    /\ UNCHANGED <<stage, guard, pipeline>>

\* th.join(timeout): over when the worker has returned or the time is up.
Join(c) ==
    /\ pc[c] = "join"
    /\ IF c \in Jobs THEN JobEnds(c) ELSE Goto(c, "next") /\ UNCHANGED marked
    /\ UNCHANGED <<runLock, stage, guard, pipeline>>

\* Mutant: finish() drops whatever slot is there.
Pop_AnySlot(w) ==
    /\ pc[w] = "pop"
    /\ Goto(w, "free")
    /\ active' = [k \in Kinds |-> IF w \in Crew[k] THEN None ELSE active[k]]
    /\ UNCHANGED <<marked, runLock, stage, mate, pipeline>>

\* finish() drops the slot if it is still this worker's, and the thread ends.
\* At "pop" it has set `finished` already.
Pop(w) ==
    /\ pc[w] = "pop"
    /\ Goto(w, "free")
    /\ active' = [k \in Kinds |-> IF active[k] = w THEN None ELSE active[k]]
    /\ UNCHANGED <<marked, runLock, stage, mate, pipeline>>

----------------------------------------------------------------------------
(* What the workers do *)

\* The ranking worker goes on to its next call or returns: nothing pending, a
\* cooldown, a stop, an exception.  The first call is left out when nothing is
\* pending yet.
Proceed(o) ==
    /\ pc[o] = "next"
    /\ \/ \E i \in 1 .. Len(Calls) :
             /\ i = stage[o] + 1 \/ (stage[o] = 0 /\ i = 2)
             /\ stage' = [stage EXCEPT ![o] = i]
             /\ Goto(o, "begin")
       \/ Goto(o, "unlock") /\ UNCHANGED stage
    /\ UNCHANGED <<marked, runLock, guard, pipeline>>

\* The `finally` of _inner
Unlock(o) ==
    /\ pc[o] = "unlock"
    /\ runLock' = FALSE
    /\ Goto(o, "end")
    /\ stage' = [stage EXCEPT ![o] = 0]
    /\ UNCHANGED <<marked, guard, pipeline>>

\* Only then does finish() say that the worker is finished.
Finish(o) ==
    /\ pc[o] = "end"
    /\ Goto(o, "pop")
    /\ UNCHANGED <<marked, runLock, stage, guard, pipeline>>

\* The build returns.
Built(b) ==
    /\ pc[b] = "run"
    /\ Goto(b, "pop")
    /\ UNCHANGED <<marked, runLock, stage, guard, pipeline>>

----------------------------------------------------------------------------
(* run_entry_pipeline *)

\* A controller worker is done then; a SUMMARY thread may come again.
Leave(c) ==
    /\ Goto(c, IF c \in Control THEN "pop" ELSE "wait")
    /\ got' = [got EXCEPT ![c] = None]

\* _pipeline_lock_is_held: an RLock has no locked() (Python 3.13), so that a
\* lock that has been reset is never seen to be held.
SeenHeld == lock = First /\ owner[First] # None

\* _wait_entry_pipeline_lock_if_needed.  Only a SUMMARY run goes on after the
\* wait has timed out, to reset the lock.
Wait(c) ==
    /\ pc[c] = "wait"
    /\ \/ ~SeenHeld /\ Goto(c, "core") /\ UNCHANGED got
       \/ SeenHeld /\ c \in Summaries /\ Goto(c, "stale") /\ UNCHANGED got
       \/ SeenHeld /\ c \notin Summaries /\ Leave(c)
    /\ UNCHANGED <<marked, runLock, stage, guard, lock, owner>>

\* _can_reset_stale_pipeline_lock looks at what is pending and at the cooldown
\* since the last reset, not at the lock, and takes no lock itself.  Its check
\* for an entry being sent always finds none (_pipeline_inflight_count is 0).
MayReset(s) ==
    /\ pc[s] = "stale"
    /\ \/ Goto(s, "reset") /\ UNCHANGED got
       \/ Leave(s)
    /\ UNCHANGED <<marked, runLock, stage, guard, lock, owner>>

\* A new RLock takes the place of whatever lock is there by now.
Reset(s) ==
    /\ pc[s] = "reset"
    /\ lock' = s
    /\ Goto(s, "core")
    /\ UNCHANGED <<marked, runLock, stage, guard, got, owner>>

\* _pipeline_lock.acquire(blocking=False) fetches the lock ...
Fetch(c) ==
    /\ pc[c] = "core"
    /\ got' = [got EXCEPT ![c] = lock]
    /\ Goto(c, "got")
    /\ UNCHANGED <<marked, runLock, stage, guard, lock, owner>>

\* ... and tries to take that one, replaced meanwhile or not.
Enter(c) ==
    /\ pc[c] = "got"
    /\ LET l == got[c] IN
       \/ owner[l] = None /\ owner' = [owner EXCEPT ![l] = c] /\ Goto(c, "trade") /\ UNCHANGED got
       \/ owner[l] # None /\ Leave(c) /\ UNCHANGED owner
    /\ UNCHANGED <<marked, runLock, stage, guard, lock>>

\* Mutant: the lock that is put in its place is a Lock, too.
Release_Any(c) ==
    /\ pc[c] = "trade"
    /\ owner' = [owner EXCEPT ![lock] = None]
    /\ Leave(c)
    /\ UNCHANGED <<marked, runLock, stage, guard, lock>>

\* The `finally` of the pipeline releases the lock of that moment.  A Lock does
\* not ask who releases it; an RLock that is another's or nobody's raises, and
\* the run that had the replaced lock leaves it taken.
Release(c) ==
    /\ pc[c] = "trade"
    /\ owner' = IF lock = First \/ owner[lock] = c THEN [owner EXCEPT ![lock] = None] ELSE owner
    /\ Leave(c)
    /\ UNCHANGED <<marked, runLock, stage, guard, lock>>

----------------------------------------------------------------------------

Call(c) == Begin(c) \/ Attach(c) \/ Start(c) \/ Join(c)

Next ==
    \/ StaleClear
    \/ \E j \in Jobs : Dispatch(j) \/ TakeRunLock(j)
    \/ \E c \in Callers : Call(c)
    \/ \E w \in Workers : Pop(w)
    \/ \E o \in Outer : Proceed(o) \/ Unlock(o) \/ Finish(o)
    \/ \E b \in Build : Built(b)
    \/ \E s \in Summaries : MayReset(s) \/ Reset(s)
    \/ \E c \in Traders : Wait(c) \/ Fetch(c) \/ Enter(c) \/ Release(c)

Spec == Init /\ [][Next]_vars

\* Every wait for a worker has a timeout, and the code between the calls ends;
\* whether a build or a pipeline run ever returns is left open.
Fairness ==
    /\ \A j \in Jobs : WF_vars(TakeRunLock(j))
    /\ \A c \in Callers : WF_vars(Call(c))
    /\ \A o \in Outer : WF_vars(Proceed(o)) /\ WF_vars(Unlock(o)) /\ WF_vars(Finish(o))
    /\ \A w \in Workers : WF_vars(Pop(w))

FairSpec == Spec /\ Fairness

\* Whose turn it is: a job up to the start of the worker, then the worker.
Holds(c) ==
    \/ c \in Jobs /\ pc[c] \in {"begin", "attach", "start"}
    \/ c \in Outer /\ pc[c] \in {"next", "unlock"} \cup CallLabels

\* The fairness of the thread whose turn it is, with its condition written out
\* for the prover, which does not know ENABLED: it goes on, except at a begin()
\* that is not refused and has no name left for the new thread.
TurnStep(c) ==
    /\ Holds(c)
    /\ Call(c) \/ (c \in Outer /\ (Proceed(c) \/ Unlock(c)))
CanGoOn(c) ==
    /\ Holds(c)
    /\ pc[c] = "begin" => LET k == KindOf(c) IN
           \/ active[k] # None /\ Blocks(active[k])
           \/ \E w \in Crew[k] : pc[w] = "free"
TurnRuns ==
    \/ []<>~(\E c \in Callers : CanGoOn(c))
    \/ []<><<\E c \in Callers : TurnStep(c)>>_vars
RunningSpec == Spec /\ TurnRuns

----------------------------------------------------------------------------
(* Properties *)

\* A caller has a worker in hand from begin() to start(), and that worker is
\* where the caller has brought it.
HandsOK ==
    /\ \A o \in Outer : pc[o] \in CallLabels => stage[o] > 0
    /\ \A c \in Callers :
          /\ mate[c] # None <=> pc[c] \in {"attach", "start"}
          /\ pc[c] = "attach" => mate[c] \in Crew[KindOf(c)] /\ pc[mate[c]] = "begun"
          /\ pc[c] = "start" => mate[c] \in Crew[KindOf(c)] /\ pc[mate[c]] = "made"

\* Types, and whose hands the workers are in that do not run yet.
TypeOK ==
    /\ marked \in BOOLEAN /\ runLock \in BOOLEAN
    /\ DOMAIN pc = Threads /\ \A c \in Threads : pc[c] \in LabelsOf(c)
    /\ mate \in [Callers -> Workers \cup {None}]
    /\ stage \in [Outer -> 0 .. Len(Calls)]
    /\ active \in [Kinds -> Workers \cup {None}]
    /\ lock \in Locks
    /\ got \in [Traders -> Locks \cup {None}]
    /\ owner \in [Locks -> Traders \cup {None}]
    /\ HandsOK

\* tasks.py, "two entry workers of a kind never run": not even while a worker
\* that nobody waits for any more is still at work, or a finished one has not
\* left yet, although the job's mark is lost when it is stale.
OneWorker ==
    \A k \in Kinds : \A v, w \in Crew[k] :
        pc[v] \notin SlotLabels /\ pc[w] \notin SlotLabels => v = w

\* begin() takes a slot whose thread is not alive for one that has died.  It
\* never does so to a worker that has yet to start.
NoSlotLost ==
    [][\A k \in Kinds :
          active'[k] # active[k] /\ active[k] # None => pc[active[k]] = "pop"]_vars

\* A pipeline run owns the lock it has taken, the present one or one that was
\* replaced, until it releases it itself: no other release frees that lock under
\* it and lets one more run in, however often the lock is replaced meanwhile.
PipelineTurns ==
    \A c \in Traders : pc[c] = "trade" => got[c] \in Locks /\ owner[got[c]] = c

\* The run lock, which knows no owner, is somebody's turn from the moment it is
\* taken until it is given back: it passes from the job to its worker once, and
\* only the thread whose turn it is gives it back.
Turn == INSTANCE RunTurn WITH free <- ~runLock, turn <- {c \in Callers : Holds(c)}
TurnSpec == Turn!Spec

\* "Otherwise no later cycle could ever start": the run lock is always given
\* back, whatever the builds and the pipeline runs do.
RunLockFreed == runLock ~> ~runLock

----------------------------------------------------------------------------
(* The inductive invariant behind them *)

RunLockOK ==
    /\ \A c \in Callers : Holds(c) => runLock
    /\ \A c, d \in Callers : Holds(c) /\ Holds(d) => c = d

\* Whatever is not finished has its slot, and is in somebody's hands until it
\* runs.
SlotsOK ==
    /\ \A k \in Kinds : \A w \in Crew[k] : pc[w] \notin {"free", "pop"} => active[k] = w
    /\ \A k \in Kinds : active[k] # None => active[k] \in Crew[k] /\ pc[active[k]] # "free"
    /\ \A w \in Workers : pc[w] \in {"begun", "made"} => \E c \in Callers : mate[c] = w

\* The lock that a run would put in the present one's place is a new one, and
\* while the Lock of the start is there, it is the only one anybody has.
NewOK(s) == lock # s /\ owner[s] = None /\ \A c \in Traders : got[c] # s

PipelineOK ==
    /\ \A c \in Traders : got[c] \in Locks <=> pc[c] \in {"got", "trade"}
    /\ \A s \in Summaries : lock = First \/ pc[s] \in {"stale", "reset"} => NewOK(s)
    /\ PipelineTurns

IInv == TypeOK /\ RunLockOK /\ SlotsOK /\ PipelineOK
=============================================================================
