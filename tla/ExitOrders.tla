------------------------------ MODULE ExitOrders ------------------------------
(***************************************************************************)
(* The life of a close order: trading/exit/executor.py with its sender     *)
(* (order_sender.py, kabu_api/close.py, kabu_api/exit_board_profit.py) and *)
(* the loops that correct the rows of positions.db afterwards.             *)
(*                                                                         *)
(* One symbol.  A hold is one fill of the entry, 100 shares with a HoldID  *)
(* of its own and one row of positions.db; a larger number is a newer one. *)
(*                                                                         *)
(* Threads: the exit loop and the unfilled-reprice loop call execute_exit, *)
(* one at a time under _exit_lock.  The fill confirmation, the CLOSING     *)
(* reconciliation, the hold synchronisation (kabu_api/positions.py) and    *)
(* the symbol synchronisation of the exit loop run beside them.            *)
(*                                                                         *)
(* The memory the executor reads is what the exit loop published to        *)
(* GC.positions.  global_data.open_positions is a property that answers a  *)
(* fresh dict, an empty one since nobody calls set_open: what is written   *)
(* there is lost, as is the CLOSING mark _execute_exit_single puts on its  *)
(* copy, and no position in it ever counts as one of the broker's.         *)
(***************************************************************************)
EXTENDS Integers, FiniteSets

CONSTANTS
    Holds,     \* the holds of the symbol, numbers; the newest is the largest
    First,     \* the hold that exists at the start; the others fill late
    MaxOrders, \* bound on the close orders
    Profit,    \* may the reason be one of EXIT_BOARD_PROFIT_REASONS
    Faults     \* what may fail: "read" a GET of read_kabu_open_positions,
               \* "helper" that of get_positions, "answer" the answer of a
               \* POST or a cancel, "write" the mark on the row

ASSUME HoldsAssumption == Holds \subseteq Nat \ {0} /\ First \in Holds
ASSUME BoundsAssumption == MaxOrders \in Nat
ASSUME SwitchesAssumption == Profit \in BOOLEAN

Threads == {"loop", "reprice"}
Ids     == 1 .. MaxOrders
NoId    == 0
Joined  == MaxOrders + 1 \* several ids in one string: the id of no order
Nobody  == "nobody"
NoOrder == [hold |-> 0, state |-> "no", limit |-> FALSE]
NoPos   == [status |-> "none", holds |-> {}]
NoList  == {0}           \* no list of positions is pending
NoLook  == [sync |-> "none", rows |-> {}]

VARIABLES
    \* the broker
    hold,   \* "none", "held" or "sold"
    order,  \* the close orders, by id
    \* positions.db and the memory of the process
    row,    \* status of the row of each hold
    old,    \* the CLOSING rows of EXIT_CLOSING_STALE_SEC and more
    idOf,   \* _EXIT_ORDER_ID_BY_ROW
    mem,    \* GC.positions
    seen,   \* _POS_CACHE: what get_positions answers when the GET fails
    \* execute_exit
    who,    \* holder of _exit_lock
    todo,   \* holds it has still to send for
    got,    \* the ids it was given
    bad,    \* one of its sends failed
    wait,   \* the limit order the board layer waits for
    pc,     \* where execute_exit stands, by thread
    target, \* the order the reprice loop is about to cancel
    \* the other loops
    rec,    \* what the reconciliation has read: "idle", "flat" or "held"
    list,   \* what the hold synchronisation has read
    look,   \* what the turn of the exit loop has read
    \* history: the answers in hand that no GET gave, and whether the row of
    \* First was last closed upon one
    lies, misled

broker == <<hold, order>>
db     == <<row, old>>
exec   == <<todo, got, bad, wait>>
loops  == <<rec, list, look>>
hist   == <<lies, misled>>
vars   == <<broker, db, idOf, mem, seen, who, exec, pc, target, loops, hist>>

Held     == {h \in Holds : hold[h] = "held"}
OpenLike == {h \in Holds : row[h] \in {"OPEN", "CLOSING"}}
Rows(st) == {h \in Holds : row[h] = st}
\* The newest and the oldest member, as a set: empty when S is.
Newest(S) == {h \in S : \A g \in S : g <= h}
Oldest(S) == {h \in S : \A g \in S : h <= g}
Placed   == {o \in Ids : order[o].state # "no"}
Working(h) == \E o \in Ids : order[o].state = "working" /\ order[o].hold = h

Init ==
    /\ hold = [h \in Holds |-> IF h = First THEN "held" ELSE "none"]
    /\ order = [o \in Ids |-> NoOrder]
    /\ row = [h \in Holds |-> IF h = First THEN "OPEN" ELSE "none"]
    /\ old = {}
    /\ idOf = [h \in Holds |-> NoId]
    /\ mem = NoPos
    /\ seen = {}
    /\ who = Nobody
    /\ todo = {} /\ got = {} /\ bad = FALSE /\ wait = NoId
    /\ pc = [t \in Threads |-> "idle"]
    /\ target = NoId
    /\ rec = "idle" /\ list = NoList /\ look = NoLook
    /\ lies = {} /\ misled = FALSE

Goto(t, label) == pc' = [pc EXCEPT ![t] = label]
SetRows(S, st) == row' = [h \in Holds |-> IF h \in S THEN st ELSE row[h]]

----------------------------------------------------------------------------
(* The broker *)

\* The broker takes a close order for a hold that is there and that no other
\* order has reserved; anything else, and an order past the bound, is Code 8.
Accepts(h) == hold[h] = "held" /\ ~Working(h) /\ Cardinality(Placed) < MaxOrders
NextId == Cardinality(Placed) + 1
Place(h, isLimit) ==
    order' = [order EXCEPT ![NextId] = [hold |-> h, state |-> "working", limit |-> isLimit]]

Fill(o) ==
    /\ order[o].state = "working"
    /\ order' = [order EXCEPT ![o].state = "filled"]
    /\ hold' = [hold EXCEPT ![order[o].hold] = "sold"]
    /\ UNCHANGED <<db, idOf, mem, seen, who, exec, pc, target, loops, hist>>

\* The rest of the entry fills: one more hold, and no row for it yet.
LateFill(h) ==
    /\ hold[h] = "none"
    /\ hold' = [hold EXCEPT ![h] = "held"]
    /\ UNCHANGED <<order, db, idOf, mem, seen, who, exec, pc, target, loops, hist>>

\* get_positions: the rows of the broker or, when the GET fails, those of the
\* last answer.  `seen` is kept only where a GET may fail.
GetPositions(ans, ok) ==
    \/ ok /\ ans = Held /\ seen' = IF "helper" \in Faults THEN Held ELSE seen
    \/ ~ok /\ "helper" \in Faults /\ ans = seen /\ UNCHANGED seen

\* history: a loop has an answer in hand, and closes rows upon one.
Told(reader, ok) ==
    lies' = IF ok THEN lies \ {reader} ELSE lies \cup {reader}
Closed(lie) ==
    misled' = (row'[First] = "CLOSED" /\ IF row[First] = "CLOSED" THEN misled ELSE lie)

----------------------------------------------------------------------------
(* execute_exit: _execute_exit_single under _exit_lock, then the sweep *)

\* _get_open_position: the memory, else the newest row that is not closed,
\* which is put into the memory with the status it has.
OpenPosition ==
    IF mem # NoPos \/ OpenLike = {} THEN mem
    ELSE [status |-> IF Newest(OpenLike) \subseteq Rows("OPEN") THEN "OPEN" ELSE "CLOSING",
          holds  |-> Newest(OpenLike)]

\* _get_open_position: where neither has one, what the broker lists, which is
\* not put into the memory.
ExitPositions ==
    IF OpenPosition # NoPos THEN {OpenPosition}
    ELSE {IF Held = {} THEN NoPos ELSE [status |-> "OPEN", holds |-> Held]}
         \cup IF "read" \in Faults THEN {NoPos} ELSE {}

\* A position that is missing or already CLOSING ends the call with False.
Call(t) ==
    /\ pc[t] = "due" /\ who = Nobody
    /\ mem' = OpenPosition
    /\ \E pos \in ExitPositions :
          IF pos.status # "OPEN"
          THEN Goto(t, "idle") /\ UNCHANGED <<who, exec>>
          ELSE /\ Goto(t, "send") /\ who' = t
               /\ todo' = pos.holds
               /\ got' = {} /\ bad' = FALSE /\ UNCHANGED wait
    /\ UNCHANGED <<broker, db, idOf, seen, target, loops, hist>>

\* The board layer sends a limit order first.  A refusal or a lost answer
\* leads to the market order.
SendLimit(t) ==
    /\ pc[t] = "send" /\ t = "loop" /\ Profit
    /\ \E h \in Oldest(todo) :
          \/ Accepts(h) /\ Place(h, TRUE) /\ wait' = NextId /\ Goto(t, "limit")
          \/ "answer" \in Faults /\ Accepts(h) /\ Place(h, TRUE)
             /\ UNCHANGED wait /\ Goto(t, "market")
          \/ ~Accepts(h) /\ UNCHANGED <<order, wait>> /\ Goto(t, "market")
    /\ UNCHANGED <<hold, db, idOf, mem, seen, who, todo, got, bad, target, loops, hist>>

\* /cancelorder: an order that is no longer working stays as it is, and the
\* callers ignore a cancel that failed.
Cancel(o) ==
    \/ order' = [order EXCEPT ![o].state = IF @ = "working" THEN "cancelled" ELSE @]
    \/ "answer" \in Faults /\ UNCHANGED order

\* The wait ends, by reversal or after EXIT_BOARD_MAX_WAIT_SEC.  It never ends
\* by a fill: _find_execution looks for "OrderId", the rows of /orders say "ID".
EndLimit(t) ==
    /\ pc[t] = "limit"
    /\ Cancel(wait)
    /\ wait' = NoId
    /\ Goto(t, "market")
    /\ UNCHANGED <<hold, db, idOf, mem, seen, who, todo, got, bad, target, loops, hist>>

\* The POST of a market order the broker takes.  Without an answer the order
\* may have arrived or not.
Failed == bad' = TRUE /\ UNCHANGED got
Post(h) ==
    \/ Place(h, FALSE) /\ got' = got \cup {NextId} /\ UNCHANGED bad
    \/ "answer" \in Faults /\ Failed /\ (Place(h, FALSE) \/ UNCHANGED order)

\* Code 8: the order is rebuilt from the listed holds, the oldest first, and
\* sent once more unless that is the order that was refused.
SplitRetry(h) ==
    \E ans \in SUBSET Holds :
       /\ \E ok \in BOOLEAN : GetPositions(ans, ok)
       /\ LET again == {g \in Oldest(ans) \ {h} : Accepts(g)}
          IN  \/ \E g \in again : Post(g)
              \/ again = {} /\ Failed /\ UNCHANGED order

\* One market order of send_kabu_close_order, which goes through the holds.
SendMarket(t) ==
    /\ pc[t] \in {"send", "market"}
    /\ \E h \in Oldest(todo) :
          /\ \/ Accepts(h) /\ Post(h) /\ UNCHANGED seen
             \/ ~Accepts(h) /\ SplitRetry(h)
          /\ todo' = todo \ {h}
          /\ Goto(t, IF todo = {h} THEN "record" ELSE "send")
    /\ UNCHANGED <<hold, db, idOf, mem, who, wait, target, loops, hist>>

\* _mark_db_position_closing takes the newest OPEN row, else the newest
\* CLOSING one: not by the hold the order was sent for.
RowToMark == Newest(IF Rows("OPEN") # {} THEN Rows("OPEN") ELSE Rows("CLOSING"))
IdString  == IF Cardinality(got) = 1 THEN CHOOSE o \in got : TRUE ELSE Joined

\* All sends accepted, and the row marked: the call answers True and forgets
\* the symbol in memory.  Otherwise it answers False, for a position of the
\* broker too: what would excuse the missing row there looks it up in the
\* empty dict of global_data.
Marked(t) ==
    /\ ~bad /\ OpenLike # {}
    /\ SetRows(RowToMark, "CLOSING") /\ old' = old \ RowToMark
    /\ idOf' = [h \in Holds |-> IF h \in RowToMark THEN IdString ELSE idOf[h]]
    /\ mem' = NoPos
    /\ Goto(t, "sweep")

Unmarked(t) ==
    /\ bad \/ OpenLike = {} \/ "write" \in Faults
    /\ Goto(t, "idle")
    /\ UNCHANGED <<db, idOf, mem>>

Record(t) ==
    /\ pc[t] = "record"
    /\ Marked(t) \/ Unmarked(t)
    /\ who' = Nobody
    /\ got' = {} /\ bad' = FALSE
    /\ UNCHANGED <<broker, seen, todo, wait, target, loops, hist>>

\* The sweep calls again while the symbol has OPEN rows (EXIT_SWEEP_MAX_ROWS
\* is larger than the bound on orders).
Sweep(t) ==
    /\ pc[t] = "sweep"
    /\ Goto(t, IF Rows("OPEN") = {} THEN "idle" ELSE "due")
    /\ UNCHANGED <<broker, db, idOf, mem, seen, who, exec, target, loops, hist>>

----------------------------------------------------------------------------
(* The unfilled-reprice loop *)

SeeLimit(o) ==
    /\ pc["reprice"] = "idle"
    /\ order[o].state = "working" /\ order[o].limit
    /\ target' = o
    /\ Goto("reprice", "cancel")
    /\ UNCHANGED <<broker, db, idOf, mem, seen, who, exec, loops, hist>>

\* Mutant: the row that is opened again keeps the time of its mark.
Reprice_KeepsTime ==
    /\ pc["reprice"] = "cancel"
    /\ Cancel(target)
    /\ SetRows(Oldest(Rows("CLOSING")), "OPEN")
    /\ target' = NoId
    /\ Goto("reprice", "due")
    /\ UNCHANGED <<hold, old, idOf, mem, seen, who, exec, loops, hist>>

\* Whatever became of the cancel, the first CLOSING row of the symbol goes
\* back to OPEN, and execute_exit is called again.
Reprice ==
    /\ pc["reprice"] = "cancel"
    /\ Cancel(target)
    /\ SetRows(Oldest(Rows("CLOSING")), "OPEN") /\ old' = old \ Oldest(Rows("CLOSING"))
    /\ target' = NoId
    /\ Goto("reprice", "due")
    /\ UNCHANGED <<hold, idOf, mem, seen, who, exec, loops, hist>>

----------------------------------------------------------------------------
(* The fill confirmation *)

\* _exit_fill_confirm_find_order: by id or, when the process knows none, the
\* newest close order of the day.
ConfirmedBy(h) ==
    IF idOf[h] = NoId THEN Newest(Placed) ELSE {idOf[h]} \cap Placed

Confirmed == {h \in Rows("CLOSING") : \E o \in ConfirmedBy(h) : order[o].state = "filled"}

\* One pass.  It reads the rows, /orders, and writes where a row says CLOSING
\* still; a fill is final, so it is one step.  (That a row is reopened and
\* marked anew within a pass is left out.)
Confirm ==
    /\ Confirmed # {}
    /\ SetRows(Confirmed, "CLOSED") /\ old' = old \ Confirmed
    /\ idOf' = [h \in Holds |-> IF h \in Confirmed THEN NoId ELSE idOf[h]]
    /\ Closed(FALSE)
    /\ UNCHANGED <<broker, mem, seen, who, exec, pc, target, loops, lies>>

----------------------------------------------------------------------------
(* The reconciliation of CLOSING rows *)

\* A row becomes old between two passes: a pass is shorter than 20 s, and a
\* row that gets there during one could have got there before it.  So a pass
\* that begins without an old row changes nothing, and is left out.
Age(h) ==
    /\ row[h] = "CLOSING" /\ h \notin old /\ rec = "idle"
    /\ old' = old \cup {h}
    /\ UNCHANGED <<broker, row, idOf, mem, seen, who, exec, pc, target, loops, hist>>

ReconcileRead ==
    /\ rec = "idle" /\ old # {}
    /\ \E ans \in SUBSET Holds, ok \in BOOLEAN :
          /\ GetPositions(ans, ok) /\ Told("rec", ok)
          /\ rec' = IF ans = {} THEN "flat" ELSE "held"
    /\ UNCHANGED <<broker, db, idOf, mem, who, exec, pc, target, list, look, misled>>

ReconcileWrite ==
    /\ rec # "idle"
    /\ SetRows(old, IF rec = "flat" THEN "CLOSED" ELSE "OPEN")
    /\ old' = {}
    /\ rec' = "idle"
    /\ Told("rec", TRUE) /\ Closed("rec" \in lies)
    /\ UNCHANGED <<broker, idOf, mem, seen, who, exec, pc, target, list, look>>

----------------------------------------------------------------------------
(* The synchronisations with the broker *)

\* sync_positions_from_kabus: an empty list is taken for a failed read.
HoldRead ==
    /\ list = NoList
    /\ \E ans \in SUBSET Holds, ok \in BOOLEAN :
          /\ GetPositions(ans, ok) /\ Told("list", ok)
          /\ ans # {} /\ list' = ans
    /\ UNCHANGED <<broker, db, idOf, mem, who, exec, pc, target, rec, look, misled>>

\* Mutant: a row that was closed is never opened again.
HoldWrite_ClosedStays ==
    /\ list # NoList
    /\ row' = [h \in Holds |->
                 IF h \in list THEN IF row[h] = "CLOSED" THEN row[h] ELSE "OPEN"
                 ELSE IF row[h] = "OPEN" THEN "CLOSED" ELSE row[h]]
    /\ old' = old \ list
    /\ list' = NoList
    /\ Told("list", TRUE) /\ Closed("list" \in lies)
    /\ UNCHANGED <<broker, idOf, mem, seen, who, exec, pc, target, rec, look>>

\* A listed hold is OPEN, whatever its row says; an OPEN row that is not
\* listed is closed.
HoldWrite ==
    /\ list # NoList
    /\ row' = [h \in Holds |->
                 IF h \in list THEN "OPEN"
                 ELSE IF row[h] = "OPEN" THEN "CLOSED" ELSE row[h]]
    /\ old' = old \ list
    /\ list' = NoList
    /\ Told("list", TRUE) /\ Closed("list" \in lies)
    /\ UNCHANGED <<broker, idOf, mem, seen, who, exec, pc, target, rec, look>>

\* A turn of the exit loop, get_open_positions_safe, reads the broker twice:
\* for the position state, and again in the symbol synchronisation, which asks
\* get_last_read_status after its read.  A GET that fails answers no rows, and
\* counts all the same where another reader has set that status meanwhile;
\* so does an answer without a body.  (Where nothing is held, such a read is
\* one more "read"; so is one that fails with the rows of the position state
\* at hand, as it closes nothing.)
LoopRead ==
    /\ pc["loop"] = "idle"
    /\ \E sync \in {"read", "blank", "failed"} :
          /\ sync # "read" => "read" \in Faults
          /\ sync = "blank" => Held # {}
          /\ look' = [sync |-> sync, rows |-> IF sync = "failed" THEN {} ELSE Held]
    /\ Goto("loop", "read")
    /\ UNCHANGED <<broker, db, idOf, mem, seen, who, exec, target, rec, list, hist>>

\* The rows the synchronisation has, and those of the position state, which
\* may have failed where the other did not.
SyncRows  == IF look.sync = "read" THEN look.rows ELSE {}
StateRows == {look.rows} \cup IF "read" \in Faults THEN {{}} ELSE {}

\* Mutant: nobody asks whether the read counts.
Missing_Unasked == IF SyncRows = {} THEN OpenLike ELSE {}

\* No rows and a read that counts: every open-like row of the symbol is closed.
Missing == IF look.sync \in {"read", "blank"} /\ SyncRows = {} THEN OpenLike ELSE {}

\* The sources are merged, a later one over an earlier: the last row, which
\* the position state still has when it was just closed, the rows of the
\* synchronisation, the memory, the rows of the position state.
Merged(state) ==
    IF state # {} THEN [status |-> "OPEN", holds |-> state]
    ELSE IF mem = NoPos /\ SyncRows # {} THEN [status |-> "OPEN", holds |-> SyncRows]
    ELSE OpenPosition

\* The rest of the turn, up to the exit rules, which may decide to exit.
LoopWrite ==
    /\ pc["loop"] = "read"
    /\ SetRows(Missing, "CLOSED") /\ old' = old \ Missing
    /\ \E state \in StateRows : mem' = Merged(state)
    /\ look' = NoLook
    /\ Closed(look.sync = "blank" /\ First \in look.rows)
    /\ \/ Goto("loop", "idle")
       \/ mem' # NoPos /\ Goto("loop", "due")
    /\ UNCHANGED <<broker, idOf, seen, who, exec, target, rec, list, lies>>

\* The process restarts, any number of times: positions.db and the broker are
\* what is left.
Restart ==
    /\ idOf' = [h \in Holds |-> NoId]
    /\ mem' = NoPos /\ seen' = {}
    /\ who' = Nobody
    /\ todo' = {} /\ got' = {} /\ bad' = FALSE /\ wait' = NoId
    /\ pc' = [t \in Threads |-> "idle"]
    /\ target' = NoId
    /\ rec' = "idle" /\ list' = NoList /\ look' = NoLook
    /\ lies' = {}
    /\ UNCHANGED <<broker, db, misled>>

Exit(t) ==
    Call(t) \/ SendLimit(t) \/ EndLimit(t) \/ SendMarket(t) \/ Record(t) \/ Sweep(t)

Next ==
    \/ \E t \in Threads : Exit(t)
    \/ \E o \in Ids : Fill(o) \/ SeeLimit(o)
    \/ \E h \in Holds : LateFill(h) \/ Age(h)
    \/ Reprice
    \/ Confirm
    \/ ReconcileRead \/ ReconcileWrite
    \/ HoldRead \/ HoldWrite
    \/ LoopRead \/ LoopWrite
    \/ Restart

Spec == Init /\ [][Next]_vars

----------------------------------------------------------------------------
(* Fairness: a call of execute_exit ends, the exit loop comes round again
   between its calls and has a good read now and then, the two
   synchronisations of rows go on, and 20 s pass.  The fill confirmation is
   not needed, and an order may never be filled. *)

Reconcile == ReconcileRead \/ ReconcileWrite
HoldSync  == HoldRead \/ HoldWrite
LoopReads == LoopRead /\ look'.sync = "read"

\* When each of them can take a step: fairness with its condition written out.
Running(t)   == pc[t] \in {"send", "limit", "market", "record", "sweep"}
CanExit      == \E t \in Threads : Running(t) \/ (pc[t] = "due" /\ who = Nobody)
CanAge       == rec = "idle" /\ Rows("CLOSING") \ old # {}
CanReconcile == rec # "idle" \/ old # {}
CanHoldSync  == list # NoList \/ Held # {} \/ ("helper" \in Faults /\ seen # {})

FairSpec ==
    /\ Spec
    /\ []<>~CanExit \/ []<><<\E t \in Threads : Exit(t)>>_vars
    /\ <>[](pc["loop"] # "idle") \/ []<><<LoopReads>>_vars
    /\ []<>(pc["loop"] # "read") \/ []<><<LoopWrite>>_vars
    /\ <>[]~CanAge \/ []<><<\E h \in Holds : Age(h)>>_vars
    /\ []<>~CanReconcile \/ []<><<Reconcile>>_vars
    /\ []<>~CanHoldSync \/ []<><<HoldSync>>_vars

----------------------------------------------------------------------------
(* Properties *)

Order == [hold : Holds \cup {0}, state : {"no", "working", "filled", "cancelled"},
          limit : BOOLEAN]

TypeOK ==
    /\ hold \in [Holds -> {"none", "held", "sold"}]
    /\ order \in [Ids -> Order]
    /\ row \in [Holds -> {"none", "OPEN", "CLOSING", "CLOSED"}]
    /\ old \subseteq Rows("CLOSING")
    /\ idOf \in [Holds -> Ids \cup {NoId, Joined}]
    /\ mem \in [status : {"none", "OPEN", "CLOSING"}, holds : SUBSET Holds]
    /\ seen \subseteq Holds
    /\ who \in Threads \cup {Nobody}
    /\ todo \subseteq Holds /\ got \subseteq Ids /\ bad \in BOOLEAN
    /\ wait \in Ids \cup {NoId}
    /\ pc \in [Threads -> {"idle", "due", "send", "limit", "market",
                           "record", "sweep", "cancel", "read"}]
    /\ target \in Ids \cup {NoId}
    /\ rec \in {"idle", "flat", "held"}
    /\ list \in {NoList} \cup SUBSET Holds
    /\ look \in [sync : {"none", "read", "blank", "failed"}, rows : SUBSET Holds]
    /\ lies \subseteq {"rec", "list"} /\ misled \in BOOLEAN

\* "CLOSED is never written before the fill" (executor.py, the purpose of the
\* fill confirmation), as it stands: while the symbol has had one hold only, a
\* row that says CLOSED is a hold that is sold.
Solo == \A h \in Holds \ {First} : hold[h] = "none"
ClosedMeansSold == Solo /\ row[First] = "CLOSED" => hold[First] = "sold"

\* As far as it is true: no interleaving of the four writers of the row, no
\* lost answer, failed mark or restart closes it early.  What does is a loop
\* that takes a GET that failed, or gave no body, for a list without the hold.
SoloClosedIsSold ==
    Solo /\ row[First] = "CLOSED" /\ ~misled => hold[First] = "sold"

\* "A filled close is not left in CLOSING" (same place), and no mistake about
\* a row lasts: again and again every row agrees with the broker, OPEN where
\* the hold is there and closed where it is sold, whatever went wrong before: a
\* row that was never marked, an order id that no order has, a mark on the row
\* of another hold, a late hold that was taken for a closed one, rows closed
\* upon a read that failed.  That the process does not restart for ever is
\* assumed.
Settled ==
    \A h \in Holds :
       /\ hold[h] = "held" => row[h] = "OPEN"
       /\ hold[h] = "sold" => h \notin OpenLike
RowsSettle == <>[][~Restart]_vars => []<>Settled
==============================================================================
