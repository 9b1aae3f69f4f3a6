# A verification development of the kabu Station trading bot

The program trades Japanese stocks on margin through the kabu Station REST and
websocket API. One process holds some twenty threads (scheduler jobs, pipelines,
one short-lived thread per order, half a dozen monitoring loops) that share
dictionaries, locks and the SQLite file `positions.db`, and talk to one station
on the same machine that times out, answers late and answers 401. Other processes
collect data; all of them share one API token.

The modules here model the parts in which those threads and processes can hurt
the account: *what do we hold?*, *how many orders are there for it?*, *is it
closed?*, *who may run an entry?*, and *is our token the live one?*

## 1. Inventory

| part | state it keeps | operations | who calls it | what makes it correct | module |
|---|---|---|---|---|---|
| **positions read cache** `kabu_api/positions_read_cache.py` | per key: payload and time, last good answer, fail streak, next try, the mutex `inflight` | `get(force)`, `invalidate` | every reader of `/positions` | one GET at a time; no old answer over a newer one; nothing passed off as the present after a failure; backoff kept; the mutex comes back | `PositionsReadCache` |
| **orders read cache** `kabu_api/orders_read_cache.py` | the same, one entry | `get`, `invalidate` | cancel loop, exit loops | as above, and a read after a cancel is a new one | `OrdersReadCache` |
| **position state service** `trading/position/position_state_service.py` with `kabu_position_reader.py` | the state, `_last_good`, two backoffs, `_inflight`; the reader's globals `LAST_READ_OK` | `get_state`, `entry_allowed`, `is_symbol_in_open_position` | entry pipelines, exit loop | unknown is never taken for "nothing held"; the gate lags by a known bound; it does not stay closed | `PositionState` |
| **entry order lifecycle** `trading/handlers/entry_controller.py`, `entry_handler.py`, `pending_order_monitor.py`, `entry_retry_rotation.py`, `trading/entry/unfilled_order_cancel_watch.py`, `global_state.py` | `pending_entries`, `_EXECUTE_INFLIGHT`, duplicate cooldown, `entry_inflight`, `pending_orders`, `trade_restricted`, `_ORDER_ENTRY_MAP` | pipeline, execute threads, monitors, requeue | scheduler | never two entries of a symbol; every waiting order is attended; the lock comes back; retries end | `EntryOrders` |
| **force cancel loop, pending monitor** `force_cancel_loop.py`, `trading/handlers/pending_monitor.py` | none of their own; `pending_orders` | cancel every open limit order; drop odd entries | own threads | they leave alone what another thread looks after | `EntryOrders`, `OrdersReadCache` |
| **exit order lifecycle** `trading/exit/executor.py`, `order_sender.py`, `kabu_api/close.py`, `kabu_api/exit_board_profit.py` | rows OPEN / CLOSING / CLOSED, `GC.positions`, `_EXIT_ORDER_ID_BY_ROW`, `_exit_lock` | `execute_exit`, fill confirmation, reconciliation, reprice | exit loop, three background threads | never CLOSED while unfilled; filled rows do not stay CLOSING; mistakes about a row do not last | `ExitOrders` |
| **open position sync** `core/position_sync.py`, `kabu_api/positions.py`, `trading/position/open_position_sync.py` | `positions.db`, `GC.positions` | mirror of the broker | background thread, exit loop | does not undo CLOSING for good | `ExitOrders` |
| **worker guard** `trading/entry_exit/worker_guard.py`, `tasks.py` | slot and generation per kind, `_RANKING_ENTRY_RUN_LOCK` | `begin`, `attach_thread`, `finish` | scheduler jobs | one worker per kind; no slot and no lock lost | `EntryWorkers` |
| **schedule dispatch** `core/startup/bootstrap/schedule_loop.py` | `_RUNNING_JOBS` | dispatch, stale clear, done | main loop | a job does not run twice | `EntryWorkers` |
| **pipeline lock** `trading/handlers/entry_controller.py` | `_pipeline_lock` | wait, reset, release | workers, SUMMARY runs | nobody frees the lock of another | `EntryWorkers` |
| **api token** `token_manager.py`, `kabu_api/token_bootstrap.py`, `token_startup_policy.py` | `settings.ini`, lock file, `_STARTUP_TOKEN_CALLS` | startup bootstrap, issue, reload after a 401 | two parent processes; every request | `settings.ini` has the live token; one issue at a time | `TokenIssue` |
| **symbol trade guard** `trading/exit/symbol_trade_guard.py` | loss counts and cooldowns in SQLite | `record_exit`, `check_entry_allowed` | exits, order builder | no loss is lost | planned |
| **process lock, websocket owner** `core/process_lock.py`, `trading/push/push_stream/ws_owner.py` | lock files and metadata | acquire, evict | startup | one process, one websocket | planned |
| **push rotation** `trading/push/push_stream/` | the 50 symbols registered | rotate, register | own thread | held symbols stay registered | planned |
| ai control, watchdogs, relay, logging, DB write queue, risk limits, scoring, data collection, backtest, ats, alerts | | | | | section 6 |

### How they interact

```
 schedule_loop ─mark─▶ job ─run lock─▶ ranking worker ─guard─▶ build | controller worker
                                                                        │ pipeline lock
 pipelines ◀────────────────────────────────────────────────────────────┘
     │  ├─can_entry_symbol────────▶ open_positions ◀──mirror── positions.db ◀── exits
     │  └─is_symbol_in_open_position─▶ position state service ─▶ reader ─▶ positions cache ─▶ GET /positions
     ▼
 execute thread (joined for 8 s, then left alone)
     │ sendorder ─▶ register in pending_orders ─▶ lock entry_inflight + watch thread ─▶ memory for a retry
     ▼
 pending_order_monitor ┐
 watch thread (10 s)   ├─▶ cancelorder ─▶ free the lock ─▶ requeue the candidate ─▶ pipelines
 force_cancel_loop     ┘        pending_monitor ─▶ drops entries of pending_orders
     └─▶ orders cache ─▶ GET /orders ◀─ fill confirmation, reprice loop
                                              │
 exit loop ─▶ execute_exit (one at a time) ─▶ row CLOSING ─▶ fill confirmation ─▶ CLOSED
                  ▲                               ├─ reconciliation (older than 20 s)
                  └──── reprice loop ─ cancel ────┤
                                                  └─ position synchronisations
 main.py, main_database.py ─▶ POST /token ─▶ settings.ini ─▶ every request of every process
```

The hard behaviours are: threads that outlive the wait for them (execute threads,
workers, waiters of a cache); three independent cancellers of one order; four
independent writers of one row; state handed over in module globals; locks keyed
by the symbol where the work is keyed by the side, or by the order; locks
replaced by others; stacked caches and backoffs; failures that look like empty
answers; answers that are lost after the station has acted. `PROJECT.json` lists
them as hazards, each at its line.

## 2. What is modelled

### `PositionsReadCache` and `ReadPromise`

`PositionsReadCache` is one entry of the cache, with any set of callers inside
`get()`. Each label of `pc` is a point between two lock operations:

| action | code in `get()` |
|---|---|
| `Call`, `FastPath` | the look without the mutex; `now` was read before it |
| `TryInflight`, `TakeAfterWait` | `acquire(blocking=False)`, then the blocking one |
| `SharedResult`, `GiveUp` | what a waiter does when it gets the mutex: shared answer, backoff, or "concurrent read failed"; it never sends a GET |
| `OwnerSkips`, `StartFetch` | the second look of an owner |
| `Sample`, `FetchOk`, `FetchFail` | the broker answers; `_note_ok` / `_note_error` |
| `Invalidate` | `invalidate(key=...)`, which takes only `e.lock` |

`ReadPromise` is the abstract specification of a read: it learns the broker's
state of some moment of the call, or shares one learned before, or refuses. Both
caches are shown to implement it (`PromiseSpec`, checked by TLC and proved).

### `OrdersReadCache`

The same cache for `/orders`, with the threads that use it: a canceller reads,
cancels an order that the answer shows, and calls `invalidate` (`Cancel`,
`Invalidate`). Orders are filled at any time. A waiter never sends a GET of its own,
whatever it finds when the wait is over. The reprice loop of the exits cancels
without an invalidation (`executor.py:1926`); that is a canceller that stops
between the two.

### `PositionState`

The service on top of the reader on top of the cache. *Callers* go through the
service as the gate, as `entry_allowed`, or as the exit loop; *direct readers* are
the threads that call `read_kabu_open_positions()` around it and share its
globals.

| actions | code |
|---|---|
| `Call`, `Look`, `TryInflight`, `TakeAfterWait`, `SharedResult`, `OwnerLook` | `get_state` and its callers: the look without the mutex, the mutex, what a waiter and an owner find |
| `ReadDb`, `SkipBroker`, `StartRead`, `NoteOk`, `Decide` | `_refresh`: the DB, the broker in its backoff or read, the global set, the global looked at, the decision table |
| `SharedRead`, `Queue`, `Refused` | a read that sends no GET: the cached answer, a wait for another thread's GET, the cache's backoff |
| `SendGet`, `Sample`, `BrokerGet`, `BlankGet`, `GetFails` | a GET: sent, answered by the station, stored with the time of its completion; stored without a list of positions; failed |
| `Fill`, `Unwind`, `Tick` | broker and time |

They are this many because other threads run between them, and because time
passes while a GET is under way: the cache stamps an answer when it is complete,
up to `GetTime` ticks after the station looked, and every bound on an age has to
include that. What the refinement of `ReadPromise` says of the cache does not
suffice here, as it says nothing of time, so the GET is modelled again, without
the parts of the cache that concern neither age nor waiting. A *blank* answer is a 2xx with an
empty body or a body without a list of positions: the fetch returns it and the cache
notes a success (`kabu_position_reader.py:308-309`).

History variables, not in the code: `fetched` (the caller's own read brought a list
back), `noted` (somebody has noted a success since this caller reset the global),
`heldFor`, `misread`.

### `EntryOrders`

The entry orders of one symbol. All tables and locks involved are keyed by the
symbol, so the other symbols appear only as time (`PipeDelay`) the pipeline
spends between its filter and our candidate.

| actions | code |
|---|---|
| `NewCandidate`, `Pick`, `Skip`, `SkipStale`, `Execute`, `Joined`, `JoinTimeout` | `add_pending`, the pipeline, its bounded join |
| `Refuse`, `EnterDup`, `NoOrderSent`, `Send`, `Register`, `Lock`, `Remember` | the execute thread of a side |
| `MonitorPut`, `MonitorDrop`, `MonitorDecide` | `pending_order_monitor` |
| `WatchLook`, `WatchPut`, `WatchEnd` | the thread of `unfilled_order_cancel_watch` |
| `PendingMonitorDrop`, `ForceCancel`, `SyncPositions` | the loops around |
| `Fill`, `Close`, `Tick` | broker and time |

`Requeue` is a helper, part of the canceller's step that calls it. The guards
that only judge data (liquidity, board, score, time of day) are the one
nondeterministic `Refuse`.

Abstractions to know of: the candidate bucket holds one candidate; one `Rounds`
serves both sides (the code has 2 for a BUY chase); `entry_cancel_retry_count`
is cut at 1, because `ENTRY_PASSIVE_RETRY_MAX` is 1; which mode an order gets is
free, because the intent is noted by symbol; the broker refuses to cancel a
filled order; the monitor's snapshot of `pending_orders` against a concurrent pop
is not modelled.

### `ExitOrders`

The close orders of one symbol. A hold is one fill of the entry, 100 shares with
a HoldID and a row of its own; holds beyond the first may be filled late, which is
how a symbol gets several rows.

| actions | code |
|---|---|
| `Call`, `SendLimit`, `SeeLimit`, `EndLimit`, `SendMarket`, `Record`, `Sweep` | `execute_exit` under `_exit_lock`: the board layer's limit order with its wait and cancel, the market order with its retry hold by hold, the marks on the rows, the sweep over further rows |
| `Reprice` | the unfilled-reprice loop: cancel, first CLOSING row back to OPEN, `execute_exit` again |
| `Confirm` | a pass of the fill confirmation |
| `Age`, `ReconcileRead`, `ReconcileWrite` | the reconciliation of CLOSING rows older than 20 s |
| `HoldRead`, `HoldWrite` | `sync_positions_from_kabus`, by HoldID |
| `LoopRead`, `LoopWrite` | a turn of the exit loop: `get_open_positions_safe` with the synchronisation by symbol; its reads, then the rows and the memory it writes (`Missing`, `Merged`) |
| `Fill`, `LateFill`, `Restart` | broker, and restarts of the process, any number of them, which forget the order ids |

A turn of the exit loop may have read the broker (`"read"`), failed (`"failed"`), or
taken for an answer what was none (`"blank"`): a GET without a body, or one that
failed while another reader set the `LAST_READ_OK` that
`open_position_sync.py:823-828` asks for after its read. The rows are written later
than they were read, so that a fill, a late hold or another writer may come between.
Whoever closes a row upon an answer that no GET gave is remembered for the properties
(`lies`, `misled`).

What the reading of the code fixed: `global_data.open_positions` answers a fresh
dict, so what the executor writes there is lost and `GC.positions` is what it
reads; only the ids of market orders are recorded, and several ids are joined to a
string that no order has (`Joined`); a hold that is sold is no longer listed by the
broker. A pass of the fill confirmation is one step, because a fill is final and
the write is conditional on CLOSING. A pass of the reconciliation that begins without an old row
changes nothing and is left out. What `get_positions` has cached (`seen`) is kept
only where the fault `"helper"` (its GET fails) can make it matter. Orders past the
bound `MaxOrders` are refused, as the broker may refuse any. A position for which
the executor falls back to the broker (`ExitPositions`) is sold but, having no row,
not marked: the success that `executor.py:2098-2109` has for that case looks the
symbol up in `global_data.open_positions`, the fresh dict again, and is never reached.

### `EntryWorkers` and `RunTurn`

Who may run an entry: the job's mark, the run lock, the guard's slots and the
pipeline lock. Threads are `Jobs`, the workers of the three kinds (`Outer`,
`Build`, `Control`) and `Summaries`, the SUMMARY runs. A thread that is done may be
a new one later.

| actions | code |
|---|---|
| `Dispatch`, `StaleClear` and the end of a job | `schedule_loop.py`: `_RUNNING_JOBS`, `_clear_if_stale`, `mark_done`, which pops whoever's mark |
| `TakeRunLock`, `Begin`, `Attach`, `Start`, `Join`, `Leave`, `Refused` (together `Call`) | `tasks.py` and `worker_guard.py`, for a job and for the worker inside it |
| `Proceed`, `Unlock`, `Finish`, `Built`, `Pop` | the workers, up to `finish()` in their `finally` |
| `Wait`, `MayReset`, `Reset`, `Fetch`, `Enter`, `Release` | the pipeline lock: waited for, found stale by a check that nothing guards, replaced by an `RLock`, fetched, taken, given back |

The lock is a variable (`lock`) that names an object, `First` or the `RLock` a SUMMARY
run has made, and each object has its `owner`. A SUMMARY run checks the cooldown and
replaces the lock in two steps, so that two that have passed the check replace it
one after the other; a pipeline fetches the object and takes it in two steps, so that
it may take one that is no longer in place; and it gives back the object that is in
place when it is done.

Time is left out: a wait may end at any moment and a mark may be stale at any
moment, which is more than the code can do and so sound for safety.

`RunTurn` is what the run lock is for: the run is somebody's turn, a job's until it
has started its worker, then the worker's, and only whoever has the turn gives it
back. The lock itself is a `threading.Lock` without an owner, so nothing but the
order of the code keeps it to that (`TurnSpec`, checked by TLC and proved).

### `TokenIssue`

The station knows one token; a new one ends the one before. `Parents` are the
processes whose startup may issue one (`main.py`, `main_database.py`; the second
runs the bootstrap again as a gate, `Gates`), `Users` the processes that send
requests with the token of `settings.ini`.

| actions | code |
|---|---|
| `Start`, `ReadCached`, `Preflight`, `Reread`, `LastPreflight`, `Ask` | `bootstrap_startup_token` with its counter of calls |
| `TakeLock`, `LockTimeout`, `LookAgain`, `Issue`, `IssueLost`, `IssueFails`, `Save`, `SaveFails`, `FreshPreflight` | `request_fresh_token` under the lock between processes |
| `SendRequest`, `Answer`, `Reload` | a request with the token of `settings.ini` or that of the memory, whichever the process puts first (`entry_count_unblock.py:104-119`, `token_manager.py:964-971`); its 401, the token of `settings.ini` tried once more |
| `Crash`, `StationRestart` | a parent is killed; the station forgets its token |

A save that fails may have left `settings.ini` as it was, empty, or with the new
token, written and then not read back (`token_manager.py:516-524`).

Faults are a set (`Faults`), so that a run can switch each off. History variables:
`orphan` (nobody will save the live token) and `bare` (a parent went on without the
lock). Left out: torn reads while the file is rewritten in place, the comparison
of the last four characters only, the second endpoint and the repeated preflight
for a fresh token (a token refused once is never live again), the meta file, the
copies in the environment and in memory, the TTL refresh (the policy replaces
it), and the runtime refresh that an environment variable can allow.

## 3. What is checked

| run | bounds | question and answer |
|---|---|---|
| `positions_cache` | 2 callers, 3 ticks, window 1, one fill | All six safety properties, the refinement of `ReadPromise`, and that the mutex comes back. |
| `orders_cache` | 2 callers that cancel, 2 orders, window 1, 3 ticks; symmetric callers and orders | No answer outlives a failure, the backoff holds for everybody, a read after a cancel is a new one unless a GET was under way, no thread cancels an order of which it knows that it is gone, and the refinement of `ReadPromise`. |
| `position_state` | 2 callers, 1 direct reader, 1 symbol, blank answers; the service's cache 2 ticks, window 1, a GET up to 1, backoffs of 1 | One refresh at a time, and a waiter that gets the mutex finds a state, so it never goes on into a refresh without the mutex; a success noted before a refresh never makes its state known; refreshes during which nobody gets through keep the positions; the gate lags by at most (TTL-1)+(Window-1)+GetTime ticks unless the state took a success that was not its own, or an answer that was none; both nested backoffs let go. Ages saturate, so behaviours are unbounded. |
| `position_state_direct` | 1 caller, 1 direct reader, no blank answers | **violated**: `KnownMeansRead`. |
| `entry_orders` | 2 orders, 2 sides, lost answers, cooldown 5 | A side never has two entries. The cooldown is the least that `DupCovers` allows; with 4 the run fails. |
| `entry_orders_attended` | 2 orders, 1 side, plain and buy_chase, a wait of the chase longer than the cooldown | As long as no order has had a longer wait, an order that waits at the broker has a thread that will cancel it, and the symbol's lock is given back. |
| `entry_orders_sides` | 2 orders, 2 sides | **violated**: `OneEntry`. |
| `exit_orders` | 2 holds, 2 close orders, any number of restarts; the loop's reads fail or count though they failed, answers are lost, marks fail | While the symbol has had one hold, CLOSED means sold, but where a loop took a read that gave nothing for an answer; with two holds every wrong row, those included, is corrected again and again once the process no longer restarts. |
| `exit_orders_unread` | the same holds and orders, no board layer; the GET of `get_positions` may fail | **violated**: `ClosedMeansSold`. |
| `entry_workers` | 2 job threads, 2 ranking workers, 1 build, 1 controller worker, 1 SUMMARY run | One worker of a kind at a time, no slot lost, nobody frees another's pipeline lock, the run lock follows the turn (`RunTurn`) and comes back. |
| `token_issue` | main.py started once, main_database.py twice, 1 user, 4 tokens, every fault | `settings.ini` has the live token but for three named reasons; the token another parent saved meanwhile is not killed; a 401 that stands could not be helped; every start ends. |
| `token_issue_once` | the same parents started once, no faults | **violated**: `OneIssue`. |

Why the bounds suffice. Two callers make every pair of roles (owner and waiter,
owner and fast path, a late owner and a new one); a third adds only waiters that
do what the second does, and the theorems hold for any number. One symbol is
enough where all state is per symbol or a set treated pointwise. Two orders are
the fewest that can break an exclusion; two holds the fewest for which the row
that is marked, confirmed or reopened can be the wrong one. Two job threads and two ranking
workers let a job that was dropped as stale meet its successor. Four tokens are
the one at the start, one for each parent, and one after a restart of the
station or a lost answer. `token_issue` sets `KABU_TOKEN_STARTUP_MAX_CALLS` to 1, so
that the limit is met within the bound; it holds with the default 2 as well.
Times are small and keep the order of the code's constants where a property
depends on it: a plain order's wait of 4 s and its watch thread's 10 s before the
force loop's 30 s, before the duplicate cooldown of 45 s, before the first wait of
a chase, 60 s.

`CHECK_DEADLOCK FALSE` in the entry and token runs: after `MaxOrders` orders with
nothing pending, or after `MaxStarts` starts, a behaviour may end.

`entry_workers` has one SUMMARY run, because two do not end within the time of a
run; two that replace the lock one after the other are in the model, and
`PipelineTurns` is proved for any number of them.

### What the violated runs show

* **`position_state_direct`**. `_read_broker_positions` calls the reader, which returns
  `{}` when its GET fails, and then asks `get_last_read_status()`, which reads a module
  global. A direct reader (`open_position_sync.py:823`, `executor.py:2042`) that notes
  its success in between makes the empty rows a known state: "not held".
* **`entry_orders_sides`**. A BUY execute thread past its join has neither lock nor
  position; its candidates are pruned; a SELL candidate passes the filter. The
  in-flight table and the cooldown know only `(symbol, side)`, and `entry_inflight`
  is not looked at again: both orders go out.
* **`exit_orders_unread`**. The reconciliation reads `kabu_api.positions.get_positions`,
  which answers `[]` when the GET failed and nothing was cached, and does not ask
  `positions_fetch_healthy`. The row of a hold whose close order still works is CLOSED.
  `SoloClosedIsSold` is the part of the claim that is true.
* **`token_issue_once`**. `request_fresh_token` reads the token to compare with
  (`before_tail`) after the preflight. When the other parent saves in between, that
  new token counts as the refused one, and a second is issued, which kills the
  first.

### Observed on the way, not stated as properties

*Positions.* `entry_allowed()` promises the state of this very moment, but its `force` reaches the
service's cache and not the shared GET, and a waiter takes the answer of a
refresh that began before the question. A waiter of the cache reports a failed
concurrent read when the answer has merely expired (line 297). A GET with an empty
body counts as an account with no positions (`kabu_position_reader.py:308-309`), and
like the flag that was set by another it makes a state that nobody read a known one:
that is `misread`. `invalidate` of the orders cache says that the next
read fetches anew (line 127), but a GET in flight stores what it sampled before.

*Entries.* `pending_monitor` drops every entry of `pending_orders` without a
`timestamp`, and the writer sets `created_at`: a buy_chase order, which its watch
thread leaves to the monitor, is then kept by nobody, and the symbol's lock stays taken
for good (`cleanup_entry_inflight`, meant for that, has no caller): `LockReleased`
therefore speaks of plain orders. So does `PlainAttended`: the first wait of a chase
(60 s) outlasts the duplicate cooldown (45 s), so that a chase that was filled, and
whose position was closed, can still be in `pending_orders` when the next, plain,
order of the symbol works; the monitor then frees that order's lock, and its watch
thread, which looks at the lock, leaves it. `force_cancel_loop` does not know of waits, and
cancels orders whose wait is not over. With candidates of both sides even a plain order
can lose its watch thread, because the cancel of the other side's order frees the
lock the watch thread looks at. `pending_order_monitor` puts the candidate back
whatever its cancel answered (line 393).

*Exits.* The sweep over further rows gives up after its first success, because
`_load_db_open_position` takes the newest row that is not CLOSED, the one just marked
CLOSING included (`executor.py:998`, `:1030`). The synchronisation by symbol closes
every row of a symbol when a read that gave nothing counts as one
(`open_position_sync.py:977-1002`, `misled`): the hold is there, its row says CLOSED,
and until the synchronisation by HoldID opens it again nobody exits it by its row.
With several holds a CLOSED row need
not be sold, which is why the safety property is about a single hold and the
liveness property about all.

*Workers.* `schedule_loop.py:22` promises that a job is never started twice; the
ranking job counts as stale after 30 s and may wait 35 s to 55 s for its worker, so
it is, and the guard and the run lock are what keeps two apart. After the first
reset the pipeline lock is an `RLock`, which has no `locked()` on Python 3.13: from
then on nobody waits or resets again. `_pipeline_inflight_count` answers 0, so the
reset is not held back by a run. Two SUMMARY runs past the check of the cooldown
(`entry_controller.py:3692`) each replace the lock, so that two pipelines may run
beside each other and beside the one whose lock was replaced: `PipelineTurns` says
that each has a lock of its own, not that there is one. The owner whose lock was
replaced releases the lock of that moment, which raises on an `RLock` of another. Nobody asks
`is_current()` before publishing.

*Token.* A first POST that failed allows a second, although the docstring says at
most one. An answer that is lost takes the token from every process until a
parent starts again, and nobody renews it at runtime when the station has
restarted.

### Fairness

* Positions cache: `WF(Step(c))`. A running thread runs and a GET has a timeout. The
  mutex is not fair: nothing says that a *waiter* gets it, only that a holder gives
  it back.
* Service: the same, and callers keep asking (the exit loop does every second);
  written out as `Goes(c)` over `CanGo(c)`. Direct readers have no fairness but that
  their GETs end (`GetsEnd`, a premise of `InflightReleased`). `Reopens` has in its
  premise that time passes, that GETs stop failing, and that a direct reader does not
  for ever reset `LAST_READ_OK` just when a caller is about to ask for it.
* Entry orders: threads that run go on, time passes, the mirror is refreshed and
  `force_cancel_loop` comes round; they are `while True` loops that catch their
  exceptions. Nothing is assumed of candidates, fills, or `pending_monitor`.
* Exit orders: a call of `execute_exit` ends (its wait is bounded), a turn of the exit
  loop ends, the reconciliation and the synchronisation by HoldID go on (weak
  fairness, written out as `CanExit`, `CanReconcile`, `CanHoldSync`); the exit loop comes
  to a good read again and again, and a row that is CLOSING again and again
  is old at some time between two passes (strong fairness, `LoopReads`, `CanAge`). No
  fill is assumed, and the fill confirmation is not needed. `RowsSettle` has in its
  premise that the process does not restart for ever.
* Workers: every wait for a worker has a timeout and the code between the calls
  ends. Whether a build or a pipeline run ever returns is left open.
* Token: a parent that runs goes on; every GET, POST and the wait for the lock has
  a timeout.

### What the models take for granted

An execute thread sends within `MaxHang`, below the 120 s after which it is
forgotten by `_EXECUTE_INFLIGHT`. `ForceEvery` assumes that entry orders are limit
orders and that `/orders` can be read. A PUT counts as instantaneous (it gives up
after 5 s). `Thread.start()` succeeds: if it raised, the run lock would be lost.

## 4. What is proved

TLAPS checks, for every value of the constants that satisfies the assumptions:

* `PositionsReadCacheProofs`: all six safety properties, `PromiseSpec`, and
  `InflightReleased`. The invariant says that the mutex is held by exactly the
  thread at a holder's label (`HolderOK`), that a sampled answer is not older than
  the last good one (`GotOK`), that the payload is the last good answer with no
  failure since (`PayloadOK`), that `nextTryAt` is the last failure plus its
  backoff (`BackoffOK`), and that a call began no later than now (`TimesOK`). Each
  property then follows from one look at the steps that return a result or start a
  GET. The refinement maps the cache's steps to `Learn`, `Share`, `Refuse`,
  `Withdraw`, `Change` or a stutter. The mutex comes back because nobody but the
  holder moves it and each of the holder's steps takes it from looking to asking
  to reading to the release.
* `OrdersReadCacheProofs`: all five safety properties and `PromiseSpec`, for any
  callers, orders and backoff schedule. To the cache's invariant come `VersionsOK`
  (versions grow from the last invalidation to the last answer, to the answer under
  way, to the broker) and `DoneOK` (what a thread knows to be done had ended when it
  invalidated, so no later answer shows it).
* `PositionStateProofs`, for any callers, any direct readers, with or without blank
  answers: type correctness, `RefreshAlone`, `KnownNeedsSuccess`,
  `DarkKeepsPositions`, `StaleOnlyByMisread` and `InflightReleased`. There are two
  invariants. `IInv` needs `NotedOK`: while a caller is between the reset of
  `LAST_READ_OK` and its look at it, the flag is set only if somebody has noted a
  success since, and so it never speaks of a success of before; `LastGoodOK`, that
  the positions kept are those published last; and `QueueOK`, that whoever waited for
  a GET finds its answer or its backoff. `AgeInv` follows a symbol's time at the broker
  through the copies that can miss it. What is missing from an answer under way was
  bought since its GET was sent (`AnswerAgeOK`); what is missing from the shared answer
  has been held for at most `GetTime` and the part of the window that is over
  (`CacheAgeOK`); rows leave that cache before its last tick and no tick passes before
  they are published (`RowsAgeOK`); so what is missing from a published state has been
  held for at most `Window - 1 + GetTime` ticks more than the state is old
  (`StateAgeOK`), unless the state is a misread. The last link is `WaiterFresh`: a
  waiter answers without a look at the age of the state, and its state is younger than
  `TTL` all the same, because the holder it waited for has looked at the age or
  published, and it goes on before the clock does. Without it the bound would fail at
  the shared result. `WaiterFresh` is also why no waiter falls through to a refresh
  without the mutex (`RefreshAlone`), and with that the mutex always comes back: the
  holder goes from own to DB to broker to its read, is at the longest in the queue
  behind another's GET, and goes to the decision, or is a waiter with a state.
* `EntryOrdersProofs`: type correctness, and `OneEntryPerSide` under `DupCovers`
  (`DupWait > 2 MaxHang + PipeDelay + ForceEvery + PosLag`). The position filter
  and the lock do not carry the argument: between filter and execution nobody
  looks at them again. What does is a race of clocks. `CooldownOK` bounds from
  below what is left of the cooldown by the age of the attempt, of its order,
  and of its unseen fill; `BlockedOK` says that any other attempt of the side
  will reach the cooldown before it is over. With the defaults of the code
  (45 s, and a force loop of 30 s) that leaves 15 s for two sends, the delay and
  the mirror.
* `EntryAttendedProofs`: `PlainAttended` for one side (`OneSide`) and a broker that
  answers (`Answers`), under `DupCovers` and `WaitsCover` (the cooldown outlasts a send
  and the wait of each canceller, which it does by 20 s and more with the code's
  defaults). An order loses its watch thread when the lock of the symbol is freed
  under it: by the cancel of an older order, by the watch thread of one, or by a
  position that appears. `LiveOK` says that nobody is busy with another order while one
  waits; it follows from `BusyOK` (whoever is busy with an order leaves it before the
  cooldown is over), `AloneOK` (so nobody is when a thread has passed it) and `SeenOK`
  (nobody passes it while a position shows).
* `ExitOrdersProofs`: type correctness, and `SoloClosedIsSold`, whatever fails. Every
  writer of CLOSED is looked at: the fill confirmation, the reconciliation and both
  synchronisations. Each of them closes the row of the only hold because an order of
  it was filled, because an answer of the broker did not list it, which stays true
  once it is sold, or because its answer was none, and then `misled` says so. The two
  violated claims about positions and rows are what happens in that last case.
* `EntryWorkersProofs`: type correctness, `OneWorker`, `NoSlotLost`,
  `PipelineTurns`, the refinement `TurnSpec` and `RunLockFreed`, for any numbers
  of threads. `RunLockOK` says whose turn it is, a job's up to the start of its
  worker and then the worker's, and that it is one thread's only; `SlotsOK` that
  whatever is not finished has its slot and is in somebody's hands until it runs;
  `PipelineOK` that a pipeline runs under the object it fetched, which it owns, and
  that an `RLock` has neither an owner nor anybody who has fetched it when it is put in
  place (`NewOK`), so that replacing a lock, once or several times, gives nobody's away.
  The type invariant has the hand-over itself (`HandsOK`): a worker is where its caller has brought it.
  Without the run lock the guard alone does not suffice, because `begin()` takes
  the slot of a thread that has not started yet for a dead one's. `RunLockOK` is
  also the refinement of `RunTurn`: a step of the thread whose turn it is is
  `Hand`, `GiveBack` or a stutter, and no other step moves the turn. That the turn
  ends is shown by counting (`Togo`): the calls still to be made and the steps of
  the present one, which every step of the turn's thread lowers and no other
  thread touches. `RunLockFreed` assumes for the proof that threads are created
  without end (`Crew[k]` is infinite), as in the code, where a new worker is a new
  thread; in the runs threads are used again instead.
* `TokenIssueProofs`: type correctness, `LockIsHeld`, `IniIsLive`,
  `WaitedForIsKept` and `RejectedForGood` for any parents, users, faults and
  bounds. `InsideHolds` says that a parent inside the lock has the file unless
  somebody went on without it; `SaveIsLive` that who is about to save has the live
  token, so that savers cannot come out of order; `PostIsNeeded` that what is
  about to be killed is the token that was there at the beginning;
  `RejectedIsDead` that a token that was refused stays dead. And `StartupEnds`:
  every step of a bootstrap lowers its `Rank`, the steps that are left of it and
  of the bootstrap a gate may run after it, and no step of another process raises
  it; a crash ends the bootstrap at once. The theorem assumes `"lock"` and
  `"refused"` among the faults. Without the first the model has a parent wait for
  the lock without the 30 s limit that the code has; without the second a POST
  could be stuck at the bound on tokens, which the code does not have.

*Liveness and the prover.* The prover does not know ENABLED, so the four liveness
theorems are about a specification in which the condition of weak fairness is
written out: `[]<>~CanStep(c) \/ []<><<Step(c)>>_vars` (`RunningSpec`; `FairSpec` of
`PositionState`). `CanStep` and its likes are not taken on trust: TLC has compared each
with `ENABLED <<Step(c)>>_vars` in every reachable state of the runs' instances, and
the conditions of `ExitOrders` for one close order. For the
run lock the condition is about whoever has the turn (`TurnRuns`), which is implied by
the fairness of every thread, because the turn's thread stays the same as long as
it does not move; TLC has checked that implication. The chains are finite: phases
named one by one, or a rank with a fixed bound; the rank arguments
go through a lemma on one rung, used once for each rung.

Every invariant and every action property of the passing runs is proved. Only
model-checked are three liveness properties:

* `LockReleased` (entry orders) and `RowsSettle` (exit orders) count ticks, waits and
  holds down from a constant of any size, which would need an induction over the
  constant, and `RowsSettle` needs strong fairness besides.
* `Reopens` (position state) has a rank in two backoffs of any length.

And one is proved that no run checks: `InflightReleased` of `PositionState`. With it
`position_state` would exceed its time, because the liveness graph doubles.
TLC has found it to hold for the constants of that run, in a run of its own.

Theorems are kept out of modules with recursive operators; there are none.
Induction over data is out of the prover's reach and not needed by what is stated.

## 5. Plan

Done: the read caches, the position state, the entry orders, the exit orders with
the synchronisations, the workers and locks of the ranking entry, the token.

Left, in this order:

1. **`SymbolTradeGuard`**: `record_exit` reads a loss count and writes it back in
   another connection; two exits of a symbol can lose one (`symbol_trade_guard.py:388`).
   Composed with `ExitOrders`, whose `_exit_lock` covers some of its callers.
2. **`WsOwner`**: the lock file, its metadata written beside it, and the eviction of a
   holder that looks dead.
3. **`PushRotation`**: which symbols are registered while a rotation and a reconnect
   overlap.
4. **`DbWriteQueue`**: one queue, one writer, and the shutdown flag.

## 6. Not modelled, and why

* *Scoring, ranking, indicators, AI gates, backtest* are the larger part of the source
  by lines: sequential numerical code whose result reaches the order path as a
  candidate or a refusal, both nondeterministic here. A model would repeat the
  formulas.
* *Data collection, push relay, alerts, console tee, charts*: I/O and logging.
* *Watchdogs, runtime manager, ai control*: they judge process lists, log ages and
  files; what they do to the modelled parts is a restart (`Restart`, `Crash`).
* *Rest coordinator*: imported by its tests only.
* *Runtime persistence*: nothing in the order path is restored from it.
* Of the modelled parts: cash close orders, the limit and rounds of the reprice
  loop, a sender injected by a test and `EXIT_MARK_CLOSED_ON_ORDER_ACCEPT=1`
  (exits); the TONOSAMA kinds of the guard with the watcher that prunes its flags
  without the lock (`tasks.py:744-778`), callers without a source, the retry after
  a run without an order (`entry_controller.py:3869-3875`), the RUNNING flag and
  cooldown of the ranking entry, the request to stop (workers); the mirroring into
  `positions.db` beyond what writes rows (positions); the protected orders of the
  short strategies and the sleeps after 401 and 429 (force cancel loop).
