------------------------------ MODULE EntryOrders ------------------------------
(***************************************************************************)
(* The life of the entry orders of ONE symbol, from the pending candidate  *)
(* to the fill or the cancel:                                              *)
(*   handlers/entry_controller.py   the pipeline and its execute threads   *)
(*   handlers/entry_handler.py      the order itself                       *)
(*   handlers/pending_order_monitor.py  cancels what stays unfilled        *)
(*   handlers/entry_retry_rotation.py   puts a cancelled candidate back    *)
(*   entry/unfilled_order_cancel_watch.py  one thread per order, 10 s      *)
(*   handlers/pending_monitor.py, force_cancel_loop.py, and the parts of   *)
(*   global_state and open_position_sync that hold the symbol's lock.      *)
(*                                                                         *)
(* Every lock and every table these share is keyed by the symbol, so one   *)
(* symbol is enough; the candidates of other symbols show as time the      *)
(* pipeline spends between its filter and the execution of ours.           *)
(*                                                                         *)
(* Time is counted in ticks: ages count up while someone waits for them,   *)
(* cooldowns count down.  A thread that only walks from one statement to   *)
(* the next takes no tick; a PUT, which gives up after 5 s, counts as such *)
(* a walk.  The timers of the code are lower bounds here: a monitor acts   *)
(* at some moment after its wait is over.                                  *)
(***************************************************************************)
EXTENDS Naturals

CONSTANTS
    MaxOrders,   \* bound: orders sent in a behaviour
    Sides,       \* the sides the candidates of this symbol take
    Modes,       \* "plain", "buy_chase", "sell_wait": what the builder notes
    Summary,     \* subset of BOOLEAN: is a candidate a SUMMARY_AI one
    Rounds,      \* entry_retry_rotation: how often a chain is put back
    None,
    DupWait,     \* ENTRY_FINAL_DUPLICATE_COOLDOWN_SEC
    SymbolWait,  \* ENTRY_CANCEL_SYMBOL_COOLDOWN_SECONDS
    RetryWait,   \* ENTRY_SUMMARY_RETRY_SYMBOL_COOLDOWN_SEC
    CancelAfter, \* cancel_after_sec of a plain order
    WaitAfter,   \* cancel_after_sec of the waiting modes
    WatchAfter,  \* ENTRY_UNFILLED_CANCEL_SECONDS of the order's own thread
    JoinWait,    \* ENTRY_EXECUTE_ORIG_TIMEOUT_SEC
    MaxHang,     \* bound: what an execute thread may take until it sends
    PipeDelay,   \* bound: from the filter to the execution of our candidate
    PosLag,      \* bound: from a fill to its mirror in open_positions
    Late,        \* bound: from the end of a wait to the thread that waits
    ForceEvery,  \* bound: a limit order is met by force_cancel_loop
    Failures     \* subset of {"put", "answer"}: what may fail at the broker

ASSUME OrdersAssumption == MaxOrders \in Nat \ {0}
ASSUME SidesAssumption ==
    /\ Sides # {} /\ Sides \subseteq {"BUY", "SELL"}
    /\ "plain" \in Modes /\ Modes \subseteq {"plain", "buy_chase", "sell_wait"}
    /\ Rounds \in Nat /\ Summary # {} /\ Summary \subseteq BOOLEAN
    /\ Failures \subseteq {"put", "answer"}
ASSUME TimesAssumption ==
    /\ DupWait \in Nat /\ SymbolWait \in Nat /\ RetryWait \in Nat
    /\ CancelAfter \in Nat /\ WaitAfter \in Nat /\ WatchAfter \in Nat
    /\ JoinWait \in Nat /\ MaxHang \in Nat /\ PipeDelay \in Nat
    /\ PosLag \in Nat /\ Late \in Nat /\ ForceEvery \in Nat

Ids == 1..MaxOrders
Candidates == [side : Sides, round : 0..Rounds, summary : Summary]
ASSUME NoneAssumption ==
    None \notin Candidates /\ None \notin Ids /\ None \notin [o : Ids, adverse : BOOLEAN, dropped : BOOLEAN]

VARIABLES
    broker,     \* each order at the broker
    order,      \* the candidate it was sent for, and its mode
    age,        \* ticks since it was sent
    openPos,    \* the symbol is in global_data.open_positions
    lag,        \* ticks since a fill that is not in open_positions yet
    cand,       \* the symbol's bucket in pending_entries, or None
    restricted, \* what is left of trade_restricted[symbol]
    inflight,   \* the symbol is in entry_inflight
    dup,        \* what is left of the duplicate cooldown, by side
    pipe,       \* the pipeline's work on this symbol
    run,        \* the execute thread of each side (_EXECUTE_INFLIGHT)
    watched,    \* the orders in global_data.pending_orders
    monitor,    \* the order the monitor thread is cancelling, or None
    timer,      \* the watch thread of each order
    memo,       \* the orders in _ORDER_ENTRY_MAP
    cancels     \* entry_cancel_retry_count[symbol], up to 1

world    == <<broker, order, age, openPos, lag>>
guards   == <<restricted, inflight, dup>>
pipeline == <<pipe, run>>
watchers == <<watched, monitor, timer>>
retry    == <<memo, cancels>>
vars     == <<world, cand, guards, pipeline, watchers, retry>>

NoOrder == [cand |-> None, mode |-> "plain"]
Idle    == [pc |-> "idle", item |-> None, wait |-> 0]
NoRun   == [pc |-> "idle", item |-> None, o |-> None, hang |-> 0]

Init ==
    /\ broker = [o \in Ids |-> "none"]
    /\ order = [o \in Ids |-> NoOrder]
    /\ age = [o \in Ids |-> 0]
    /\ openPos = FALSE /\ lag = 0
    /\ cand = None
    /\ restricted = 0 /\ inflight = FALSE
    /\ dup = [s \in Sides |-> 0]
    /\ pipe = Idle
    /\ run = [s \in Sides |-> NoRun]
    /\ watched = {} /\ monitor = None
    /\ timer = [o \in Ids |-> "off"]
    /\ memo = {} /\ cancels = 0


Unseen == ~openPos /\ \E o \in Ids : broker[o] = "filled"
Alive(o) == broker[o] \in {"live", "filled"}

----------------------------------------------------------------------------
(* Candidates *)

\* add_pending: a bucket takes one side only, and of two entries of one
\* identity the new one wins when the old one is stale.
Added(c) ==
    IF cand = None THEN {c}
    ELSE {cand} \cup {d \in {c} : d.side = cand.side}

NewCandidate(s, summary) ==
    /\ cand' \in Added([side |-> s, round |-> 0, summary |-> summary])
    /\ UNCHANGED <<world, guards, pipeline, watchers, retry>>

----------------------------------------------------------------------------
(* The pipeline: filter, late checks, execution with a bounded join *)

CanEntry == ~openPos /\ restricted = 0 /\ ~inflight

Pick ==
    /\ pipe.pc = "idle" /\ cand # None
    /\ CanEntry
    /\ pipe' = [pc |-> "picked", item |-> cand, wait |-> PipeDelay]
    /\ UNCHANGED <<world, cand, guards, run, watchers, retry>>

\* The restriction is looked at again, the position (a snapshot of the start
\* of the pipeline) and the lock are not; a side whose execute thread is still
\* at work is skipped.
Skip ==
    /\ pipe.pc = "picked"
    /\ \/ restricted > 0
       \/ run[pipe.item.side].pc # "idle"
    /\ pipe' = Idle
    /\ UNCHANGED <<world, cand, guards, run, watchers, retry>>

\* The candidate is too old by now: it is pruned with its side.
SkipStale ==
    /\ pipe.pc = "picked" /\ restricted = 0
    /\ cand' = IF cand # None /\ cand.side = pipe.item.side THEN None ELSE cand
    /\ pipe' = Idle
    /\ UNCHANGED <<world, guards, run, watchers, retry>>

Execute ==
    LET s == pipe.item.side IN
    /\ pipe.pc = "picked"
    /\ restricted = 0 /\ run[s].pc = "idle"
    /\ run' = [run EXCEPT ![s] = [NoRun EXCEPT !.pc = "guards", !.item = pipe.item]]
    /\ pipe' = [pipe EXCEPT !.pc = "join", !.wait = JoinWait]
    /\ UNCHANGED <<world, cand, guards, watchers, retry>>

\* The thread ended in time: its candidate is popped if it sent an order.
Joined ==
    LET s == pipe.item.side IN
    /\ pipe.pc = "join" /\ run[s].pc \in {"ok", "ng"}
    /\ cand' = IF run[s].pc = "ok" /\ cand # None /\ cand.side = s THEN None ELSE cand
    /\ run' = [run EXCEPT ![s] = NoRun]
    /\ pipe' = Idle
    /\ UNCHANGED <<world, guards, watchers, retry>>

\* It did not: the candidates of its side are pruned, the thread goes on.
JoinTimeout ==
    LET s == pipe.item.side IN
    /\ pipe.pc = "join" /\ pipe.wait = 0
    /\ run[s].pc \notin {"ok", "ng"}
    /\ cand' = IF cand # None /\ cand.side = s THEN None ELSE cand
    /\ pipe' = Idle
    /\ UNCHANGED <<world, guards, run, watchers, retry>>

----------------------------------------------------------------------------
(* The execute thread of side s *)

Waited(s) == pipe.pc = "join" /\ pipe.item.side = s
Finish(s, res) ==
    run' = [run EXCEPT ![s] = IF Waited(s) THEN [NoRun EXCEPT !.pc = res] ELSE NoRun]

\* A guard before the duplicate cooldown, or the cooldown itself, says no.
Refuse(s) ==
    /\ run[s].pc = "guards"
    /\ Finish(s, "ng")
    /\ UNCHANGED <<world, cand, guards, pipe, watchers, retry>>

\* Mutant: the cooldown is written but not looked at.
EnterDup_NoCheck(s) ==
    /\ run[s].pc = "guards"
    /\ dup' = [dup EXCEPT ![s] = DupWait]
    /\ run' = [run EXCEPT ![s].pc = "build"]
    /\ UNCHANGED <<world, cand, restricted, inflight, pipe, watchers, retry>>

EnterDup(s) ==
    /\ run[s].pc = "guards"
    /\ dup[s] = 0
    /\ dup' = [dup EXCEPT ![s] = DupWait]
    /\ run' = [run EXCEPT ![s].pc = "build"]
    /\ UNCHANGED <<world, cand, restricted, inflight, pipe, watchers, retry>>

\* No order came of it: zero quantity, no board, an error of the broker.
NoOrderSent(s) ==
    /\ run[s].pc = "build"
    /\ Finish(s, "ng")
    /\ UNCHANGED <<world, cand, guards, pipe, watchers, retry>>

ModesOf(s) == Modes \cap {"plain", IF s = "BUY" THEN "buy_chase" ELSE "sell_wait"}

\* The broker accepts the order.  The answer may be lost: the thread then takes
\* the order for one that was not sent.
Send(s, o, mode, lost) ==
    /\ run[s].pc = "build"
    /\ broker[o] = "none" /\ \A p \in 1..(o - 1) : broker[p] # "none"
    /\ mode \in ModesOf(s)
    /\ lost => "answer" \in Failures
    /\ broker' = [broker EXCEPT ![o] = "live"]
    /\ order' = [order EXCEPT ![o] = [cand |-> run[s].item, mode |-> mode]]
    /\ IF lost THEN Finish(s, "ng")
       ELSE run' = [run EXCEPT ![s] = [@ EXCEPT !.pc = "sent", !.o = o]]
    /\ UNCHANGED <<age, openPos, lag, cand, guards, pipe, watchers, retry>>

Register(s) ==
    /\ run[s].pc = "sent"
    /\ watched' = watched \cup {run[s].o}
    /\ run' = [run EXCEPT ![s].pc = "registered"]
    /\ UNCHANGED <<world, cand, guards, pipe, monitor, timer, retry>>

\* add_entry_inflight: the symbol's lock, and a watch thread for the order.
Lock(s) ==
    /\ run[s].pc = "registered"
    /\ inflight' = TRUE
    /\ timer' = [timer EXCEPT ![run[s].o] = "on"]
    /\ run' = [run EXCEPT ![s].pc = "locked"]
    /\ UNCHANGED <<world, cand, restricted, dup, pipe, watched, monitor, retry>>

Remember(s) ==
    /\ run[s].pc = "locked"
    /\ memo' = IF run[s].item.summary THEN memo \cup {run[s].o} ELSE memo
    /\ Finish(s, "ok")
    /\ UNCHANGED <<world, cand, guards, pipe, watchers, cancels>>

----------------------------------------------------------------------------
(* Cancels *)

\* PUT /cancelorder: ok only for an order that can be cancelled; it may fail,
\* or its answer may be lost, when the broker is troubled.
Put(o, ok) ==
    /\ ok => broker[o] = "live"
    /\ broker[o] = "live" /\ ~ok => "put" \in Failures
    /\ \/ broker' = [broker EXCEPT ![o] = IF @ = "live" THEN "dead" ELSE @]
       \/ ~ok /\ broker' = broker

\* Mutant: the limit of rounds is not looked at.
Requeue_NoLimit(o) ==
    LET c == order[o].cand IN
    /\ memo' = memo \ {o}
    /\ IF o \in memo
       THEN /\ cand' \in Added([c EXCEPT !.round = @ + 1])
            /\ restricted' = RetryWait
       ELSE UNCHANGED <<cand, restricted>>

\* on_unfilled_order_cancelled: the memory of the order is taken, and its
\* candidate goes back with the next round and a short cooldown.
Requeue(o) ==
    LET c == order[o].cand IN
    /\ memo' = memo \ {o}
    /\ IF o \in memo /\ c.round < Rounds
       THEN /\ cand' \in Added([c EXCEPT !.round = @ + 1])
            /\ restricted' = RetryWait
       ELSE UNCHANGED <<cand, restricted>>

\* _monitor_once: an adverse board at any time, except for sell_wait, or the
\* end of the order's wait.
CancelWait(o) == IF order[o].mode = "plain" THEN CancelAfter ELSE WaitAfter
MonitorPut(o, adverse, ok) ==
    /\ monitor = None /\ o \in watched
    /\ IF adverse THEN order[o].mode # "sell_wait" ELSE age[o] >= CancelWait(o)
    /\ Put(o, ok)
    /\ monitor' = [o |-> o, adverse |-> adverse, dropped |-> FALSE]
    /\ UNCHANGED <<order, age, openPos, lag, cand, guards, pipeline, watched, timer, retry>>

\* Whatever the answer was, the order leaves the table and the lock is freed.
MonitorDrop ==
    /\ monitor # None /\ ~monitor.dropped
    /\ watched' = watched \ {monitor.o}
    /\ inflight' = FALSE
    /\ monitor' = [monitor EXCEPT !.dropped = TRUE]
    /\ UNCHANGED <<world, cand, restricted, dup, pipeline, timer, retry>>

\* sell_wait is not chased, buy_chase only when the board ran away, a plain
\* order for the first cancel of its symbol.
MonitorDecide ==
    /\ monitor # None /\ monitor.dropped
    /\ LET o == monitor.o
           again == CASE order[o].mode = "sell_wait" -> FALSE
                      [] order[o].mode = "buy_chase" -> monitor.adverse
                      [] OTHER -> cancels = 0
       IN /\ cancels' = IF order[o].mode = "plain" THEN 1 ELSE cancels
          /\ IF again THEN Requeue(o)
             ELSE /\ restricted' = SymbolWait
                  /\ UNCHANGED <<cand, memo>>
    /\ monitor' = None
    /\ UNCHANGED <<world, inflight, dup, pipeline, watched, timer>>

\* The order's own thread, some time after its wait is over.
WatchLook(o) ==
    /\ timer[o] = "on" /\ age[o] >= WatchAfter
    /\ timer' = [timer EXCEPT ![o] = "off"]
    /\ \/ openPos /\ inflight' = FALSE
       \/ /\ ~openPos
          /\ (o \in watched /\ order[o].mode # "plain") \/ ~inflight
          /\ UNCHANGED inflight
    /\ UNCHANGED <<world, cand, restricted, dup, pipeline, watched, monitor, retry>>

WatchPut(o, ok) ==
    /\ timer[o] = "on" /\ age[o] >= WatchAfter
    /\ ~openPos /\ inflight
    /\ ~(o \in watched /\ order[o].mode # "plain")
    /\ Put(o, ok)
    /\ timer' = [timer EXCEPT ![o] = IF ok THEN "cancelled" ELSE "failed"]
    /\ UNCHANGED <<order, age, openPos, lag, cand, guards, pipeline, watched, monitor, retry>>

\* Mutant: a failed cancel returns before it frees the lock.
WatchEnd_KeepsLock(o) ==
    /\ timer[o] \in {"cancelled", "failed"}
    /\ inflight' = (inflight /\ timer[o] = "failed")
    /\ IF timer[o] = "cancelled" THEN Requeue(o)
       ELSE UNCHANGED <<cand, restricted, memo>>
    /\ timer' = [timer EXCEPT ![o] = "off"]
    /\ UNCHANGED <<world, dup, pipeline, watched, monitor, cancels>>

WatchEnd(o) ==
    /\ timer[o] \in {"cancelled", "failed"}
    /\ inflight' = FALSE
    /\ IF timer[o] = "cancelled" THEN Requeue(o)
       ELSE UNCHANGED <<cand, restricted, memo>>
    /\ timer' = [timer EXCEPT ![o] = "off"]
    /\ UNCHANGED <<world, dup, pipeline, watched, monitor, cancels>>

\* pending_monitor: an entry of pending_orders without a "timestamp", which no
\* writer sets, is dropped when /orders could be read.
PendingMonitorDrop(o) ==
    /\ o \in watched
    /\ watched' = watched \ {o}
    /\ UNCHANGED <<world, cand, guards, pipeline, monitor, timer, retry>>

\* force_cancel_loop: every limit order that can be cancelled is.
ForceCancel(o) ==
    /\ broker[o] = "live"
    /\ broker' = [broker EXCEPT ![o] = "dead"]
    /\ UNCHANGED <<order, age, openPos, lag, cand, guards, pipeline, watchers, retry>>

----------------------------------------------------------------------------
(* The broker, the positions, time *)

Fill(o) ==
    /\ broker[o] = "live"
    /\ broker' = [broker EXCEPT ![o] = "filled"]
    /\ UNCHANGED <<order, age, openPos, lag, cand, guards, pipeline, watchers, retry>>

\* The position is closed.
Close ==
    /\ openPos
    /\ \E o \in Ids : broker[o] = "filled"
    /\ broker' = [o \in Ids |-> IF broker[o] = "filled" THEN "closed" ELSE broker[o]]
    /\ UNCHANGED <<order, age, openPos, lag, cand, guards, pipeline, watchers, retry>>

\* The mirror is refreshed; a symbol that appears is reported to
\* on_entry_filled, which frees its lock (and looks for the order under the
\* execution id, where it is not).
SyncPositions ==
    /\ openPos' = \E o \in Ids : broker[o] = "filled"
    /\ openPos' # openPos
    /\ inflight' = (inflight /\ ~openPos')
    /\ lag' = 0
    /\ UNCHANGED <<broker, order, age, cand, restricted, dup, pipeline, watchers, retry>>

Walking(s) == run[s].pc \in {"sent", "registered", "locked", "ok", "ng"}
Tick ==
    /\ \A s \in Sides : ~Walking(s) /\ (run[s].pc \in {"guards", "build"} => run[s].hang < MaxHang)
    /\ pipe.pc # "idle" => pipe.wait > 0
    /\ monitor = None /\ \A o \in Ids : timer[o] \in {"off", "on"}
    /\ Unseen => lag < PosLag
    /\ \A o \in watched : age[o] < CancelWait(o) + Late
    /\ \A o \in Ids : timer[o] = "on" => age[o] < WatchAfter + Late
    /\ \A o \in Ids : broker[o] = "live" => age[o] < ForceEvery
    /\ run' = [s \in Sides |-> IF run[s].pc = "idle" THEN run[s] ELSE [run[s] EXCEPT !.hang = @ + 1]]
    /\ pipe' = IF pipe.pc = "idle" THEN pipe ELSE [pipe EXCEPT !.wait = @ - 1]
    /\ lag' = IF Unseen THEN lag + 1 ELSE lag
    /\ age' = [o \in Ids |->
         IF broker[o] = "live" \/ timer[o] = "on" \/ o \in watched THEN age[o] + 1 ELSE 0]
    /\ restricted' = IF restricted > 0 THEN restricted - 1 ELSE 0
    /\ dup' = [s \in Sides |-> IF dup[s] > 0 THEN dup[s] - 1 ELSE 0]
    /\ UNCHANGED <<broker, order, openPos, cand, inflight, watchers, retry>>

Runner(s) ==
    \/ Refuse(s) \/ EnterDup(s) \/ NoOrderSent(s)
    \/ \E o \in Ids, mode \in Modes, lost \in BOOLEAN : Send(s, o, mode, lost)
    \/ Register(s) \/ Lock(s) \/ Remember(s)
Pipeline == Pick \/ Skip \/ SkipStale \/ Execute \/ Joined \/ JoinTimeout
Monitor ==
    \/ \E o \in Ids, adverse \in BOOLEAN, ok \in BOOLEAN : MonitorPut(o, adverse, ok)
    \/ MonitorDrop \/ MonitorDecide
Watch(o) == WatchLook(o) \/ WatchEnd(o) \/ \E ok \in BOOLEAN : WatchPut(o, ok)

Next ==
    \/ \E s \in Sides, summary \in Summary : NewCandidate(s, summary)
    \/ Pipeline
    \/ \E s \in Sides : Runner(s)
    \/ Monitor
    \/ \E o \in Ids : Watch(o) \/ PendingMonitorDrop(o) \/ ForceCancel(o) \/ Fill(o)
    \/ Close \/ SyncPositions \/ Tick

Spec == Init /\ [][Next]_vars

\* Threads that run go on running, time passes, the mirror is refreshed and
\* force_cancel_loop comes round.  Nothing is assumed of candidates, fills and
\* of pending_monitor.
FairSpec ==
    /\ Spec
    /\ WF_vars(Tick) /\ WF_vars(SyncPositions)
    /\ WF_vars(Pipeline) /\ \A s \in Sides : WF_vars(Runner(s))
    /\ WF_vars(Monitor)
    /\ \A o \in Ids : WF_vars(Watch(o)) /\ WF_vars(ForceCancel(o))

----------------------------------------------------------------------------
(* Properties *)

\* The types; the rounds of a candidate never go past Rounds, which is where
\* entry_retry_rotation stops putting a cancelled one back.
TypeOK ==
    /\ broker \in [Ids -> {"none", "live", "filled", "dead", "closed"}]
    /\ order \in [Ids -> [cand : Candidates \cup {None}, mode : Modes]]
    /\ age \in [Ids -> Nat] /\ lag \in Nat /\ openPos \in BOOLEAN
    /\ cand \in Candidates \cup {None}
    /\ restricted \in Nat /\ inflight \in BOOLEAN /\ dup \in [Sides -> Nat]
    /\ pipe \in [pc : {"idle", "picked", "join"}, item : Candidates \cup {None}, wait : Nat]
    /\ pipe.pc # "idle" => pipe.item # None
    /\ run \in [Sides -> [pc : {"idle", "guards", "build", "sent", "registered", "locked", "ok", "ng"},
                          item : Candidates \cup {None}, o : Ids \cup {None}, hang : Nat]]
    /\ \A s \in Sides : run[s].pc \in {"guards", "build", "sent", "registered", "locked"} => run[s].item # None
    /\ \A s \in Sides : run[s].pc \in {"sent", "registered", "locked"} => run[s].o # None
    /\ watched \subseteq Ids
    /\ monitor \in [o : Ids, adverse : BOOLEAN, dropped : BOOLEAN] \cup {None}
    /\ timer \in [Ids -> {"off", "on", "cancelled", "failed"}]
    /\ memo \subseteq Ids /\ cancels \in 0..1

\* The symbol never has two entries at once, at the broker or held: what
\* can_entry_symbol looks at the position, the cooldown and the lock for.
OneEntry == \A o, p \in Ids : Alive(o) /\ Alive(p) => o = p

\* Nor has a side: what the duplicate cooldown of 45 s in the pipeline's
\* _execute_best_candidate is for, when it is longer than everything that can
\* go by between two attempts (DupCovers).
OneEntryPerSide ==
    \A o, p \in Ids :
        Alive(o) /\ Alive(p) /\ order[o].cand.side = order[p].cand.side => o = p
DupCovers == DupWait > 2 * MaxHang + PipeDelay + ForceEvery + PosLag

\* Someone in this process will cancel order o: the thread that sends it,
\* pending_order_monitor, or its own thread of unfilled_order_cancel_watch.
HasKeeper(o) ==
    \/ \E s \in Sides : run[s].pc \in {"sent", "registered"} /\ run[s].o = o
    \/ o \in watched \/ (monitor # None /\ monitor.o = o)
    \/ timer[o] # "off"

AllPlain == \A o \in Ids : broker[o] # "none" => order[o].mode = "plain"

\* Whatever waits at the broker is kept by someone, whatever the other orders of
\* the symbol do and although pending_monitor forgets it; as long as no order
\* has had a longer wait.  (Such an order is left by its watch thread to
\* pending_order_monitor alone, and its wait of 60 s, longer than the duplicate
\* cooldown, lets the monitor free the lock of the order after it.)
PlainAttended ==
    AllPlain => \A o \in Ids : broker[o] = "live" => HasKeeper(o)

\* The symbol's lock entry_inflight, which every order takes, is always given
\* back: by a cancel, by its watch thread, or by the fill; as long as no order
\* has had a longer wait, which leaves the lock to pending_order_monitor alone.
LockReleased == (inflight /\ AllPlain) ~> ~inflight
----------------------------------------------------------------------------
(* The inductive invariant behind OneEntryPerSide.  Every thread that can    *)
(* lead to a second order of a side meets the duplicate cooldown of the     *)
(* first one on its way; the conjuncts bound what is left of the cooldown   *)
(* from below at every place such a thread can be.                          *)

SideOf(o) == order[o].cand.side

\* What is known of an order that has been sent, and of one that has not.
OrderOK ==
    \A o \in Ids :
        IF broker[o] = "none"
        THEN age[o] = 0 /\ o \notin watched /\ timer[o] = "off" /\ o \notin memo
        ELSE order[o].cand # None

\* The bounds on the threads, and whom they work for.
ThreadsOK ==
    /\ lag <= PosLag
    /\ pipe.pc = "picked" => pipe.wait <= PipeDelay
    /\ \A s \in Sides :
        /\ run[s].pc \in {"guards", "build"} => run[s].hang <= MaxHang
        /\ run[s].pc \in {"guards", "build", "sent", "registered", "locked"}
              => run[s].item.side = s
        /\ run[s].pc \in {"sent", "registered", "locked"} => broker[run[s].o] # "none"

\* The cooldown that an attempt wrote runs down no faster than the attempt,
\* its order and its fill grow old.
CooldownOK ==
    /\ \A s \in Sides : run[s].pc = "build" => dup[s] + run[s].hang >= DupWait
    /\ \A o \in Ids :
        /\ broker[o] = "live" =>
              age[o] <= ForceEvery /\ dup[SideOf(o)] + MaxHang + age[o] >= DupWait
        /\ broker[o] = "filled" /\ ~openPos =>
              dup[SideOf(o)] + MaxHang + ForceEvery + lag >= DupWait

\* A side with an order that lives has no second attempt past the cooldown,
\* and whoever is on the way to it arrives before it is over.
BlockedOK ==
    \A o \in Ids : Alive(o) =>
        LET s == SideOf(o) IN
        /\ run[s].pc # "build"
        /\ run[s].pc = "guards" => dup[s] + run[s].hang > MaxHang
        /\ pipe.pc = "picked" /\ pipe.item.side = s => dup[s] > pipe.wait + MaxHang

IInv == TypeOK /\ OrderOK /\ ThreadsOK /\ CooldownOK /\ BlockedOK /\ OneEntryPerSide
----------------------------------------------------------------------------
(* The inductive invariant behind PlainAttended, for candidates of one side  *)
(* and a broker that answers.  A second order would take the lock or the     *)
(* watch thread from the first; the cooldown lets none out before everyone   *)
(* who was busy with the first has left it.                                  *)

OneSide == \A s, t \in Sides : s = t
WaitsCover == \A w \in {CancelAfter, WatchAfter} : DupWait > MaxHang + w + Late

Sending(s) == run[s].pc \in {"sent", "registered"}
MonitorAt(o) == monitor # None /\ monitor.o = o
Busy(o) == o \in watched \/ timer[o] # "off" \/ MonitorAt(o)

\* Whoever is busy with an order is so for a bounded time, which the cooldown
\* written before that order was sent outlasts.
BusyOK ==
    /\ \A o \in Ids : o \in watched \/ MonitorAt(o) => age[o] <= CancelAfter + Late
    /\ \A o \in Ids : timer[o] # "off" => age[o] <= WatchAfter + Late
    /\ \A s \in Sides, o \in Ids : Busy(o) => dup[s] + MaxHang + age[o] >= DupWait
    /\ \A s \in Sides : Sending(s) => age[run[s].o] = 0 /\ dup[s] + MaxHang >= DupWait

\* While a position shows, no thread is past the cooldown, and whoever is on
\* the way to it arrives before it is over.
SeenOK ==
    openPos =>
        /\ \A s \in Sides : /\ run[s].pc # "build"
                            /\ run[s].pc = "guards" => dup[s] + run[s].hang > MaxHang
        /\ \A s \in Sides : pipe.pc = "picked" => dup[s] > pipe.wait + MaxHang

\* Past the cooldown, nobody is busy with an older order.
AloneOK == \A s \in Sides : run[s].pc = "build" => \A o \in Ids : ~Busy(o)

\* Nor is anybody busy with another order than the one that waits, which has
\* the lock, and its own thread, unless it is still being sent.
LiveOK ==
    \A o \in Ids : broker[o] = "live" =>
        /\ ~openPos /\ monitor = None /\ watched \subseteq {o}
        /\ \A p \in Ids \ {o} : timer[p] = "off"
        /\ timer[o] \in {"off", "on"}
        /\ \A s \in Sides : Sending(s) => run[s].o = o
        /\ (timer[o] = "on" /\ inflight) \/ \E s \in Sides : Sending(s)

AInv == IInv /\ (AllPlain => BusyOK /\ SeenOK /\ AloneOK /\ LiveOK)
=============================================================================
