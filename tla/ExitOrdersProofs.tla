--------------------------- MODULE ExitOrdersProofs ---------------------------
(***************************************************************************)
(* Proofs about ExitOrders, for any set of holds and any bounds.           *)
(*                                                                         *)
(* That the rows settle is liveness and is left to TLC.                    *)
(***************************************************************************)
EXTENDS ExitOrders, FiniteSetTheorems, TLAPS

----------------------------------------------------------------------------
(* Type correctness *)

\* The next order id is a legal one whenever the broker takes an order.
LEMMA NextIdType ==
    ASSUME TypeOK, NEW h, Accepts(h)
    PROVE  NextId \in Ids /\ NextId # NoId
<1>1. IsFiniteSet(Placed)
  <2>1. IsFiniteSet(Ids)
    BY FS_Interval, BoundsAssumption DEF Ids
  <2>2. Placed \subseteq Ids
    BY DEF Placed
  <2> QED BY <2>1, <2>2, FS_Subset
<1>2. Cardinality(Placed) \in Nat
  BY <1>1, FS_CardinalityType
<1> QED BY <1>2, BoundsAssumption DEF Accepts, NextId, Ids, NoId

\* Placing an order and cancelling one keep the orders well formed.
LEMMA PlaceType ==
    ASSUME TypeOK, NEW h \in Holds, Accepts(h), NEW l \in BOOLEAN, Place(h, l)
    PROVE  order' \in [Ids -> Order]
<1>1. [hold |-> h, state |-> "working", limit |-> l] \in Order
  BY DEF Order
<1> QED BY <1>1 DEF TypeOK, Place

LEMMA CancelType ==
    ASSUME TypeOK, NEW o, Cancel(o)
    PROVE  order' \in [Ids -> Order]
<1>1. CASE UNCHANGED order
  BY <1>1 DEF TypeOK
<1>2. CASE order' = [order EXCEPT ![o].state = IF @ = "working" THEN "cancelled" ELSE @]
  <2>1. ASSUME NEW i \in Ids PROVE order'[i] \in Order
    <3>1. order[i] \in Order
      BY DEF TypeOK
    <3>2. CASE i = o /\ order[i].state = "working"
      BY <1>2, <3>1, <3>2 DEF TypeOK, Order
    <3>3. CASE ~(i = o /\ order[i].state = "working")
      <4>1. order'[i] = order[i]
        BY <1>2, <3>1, <3>3 DEF TypeOK, Order
      <4> QED BY <3>1, <4>1
    <3> QED BY <3>2, <3>3
  <2>2. order' = [i \in Ids |-> order'[i]]
    BY <1>2 DEF TypeOK
  <2> QED BY <2>1, <2>2
<1> QED BY <1>1, <1>2 DEF Cancel

LEMMA OpenPositionType ==
    ASSUME TypeOK
    PROVE  OpenPosition \in [status : {"none", "OPEN", "CLOSING"}, holds : SUBSET Holds]
<1>1. Newest(OpenLike) \subseteq Holds
  BY DEF Newest, OpenLike
<1> QED BY <1>1 DEF TypeOK, OpenPosition

LEMMA GetPositionsType ==
    ASSUME TypeOK, NEW ans \in SUBSET Holds, NEW ok, GetPositions(ans, ok)
    PROVE  seen' \subseteq Holds
BY DEF TypeOK, GetPositions, Held

\* The histories keep their types.
LEMMA HistoryType ==
    ASSUME TypeOK
    PROVE  /\ \A reader \in {"rec", "list"}, ok \in BOOLEAN :
                Told(reader, ok) => lies' \subseteq {"rec", "list"}
           /\ \A lie \in BOOLEAN : Closed(lie) => misled' \in BOOLEAN
<1>1. ASSUME NEW reader \in {"rec", "list"}, NEW ok \in BOOLEAN, Told(reader, ok)
      PROVE  lies' \subseteq {"rec", "list"}
  BY <1>1 DEF Told, TypeOK
<1>2. ASSUME NEW lie \in BOOLEAN, Closed(lie) PROVE misled' \in BOOLEAN
  BY <1>2 DEF Closed, TypeOK
<1> QED BY <1>1, <1>2

LEMMA IdStringType ==
    ASSUME TypeOK
    PROVE  IdString \in Ids \cup {NoId, Joined}
<1>1. CASE Cardinality(got) = 1
  <2>1. got # {}
    BY <1>1, FS_EmptySet
  <2> QED BY <1>1, <2>1 DEF TypeOK, IdString
<1>2. CASE Cardinality(got) # 1
  BY <1>2 DEF IdString
<1> QED BY <1>1, <1>2

\* A market order, or its retry, leaves the orders and the ids typed.
LEMMA PostType ==
    ASSUME TypeOK, NEW h \in Holds, Accepts(h), Post(h)
    PROVE  /\ order' \in [Ids -> Order]
           /\ got' \subseteq Ids /\ bad' \in BOOLEAN
<1>1. CASE Place(h, FALSE) /\ got' = got \cup {NextId} /\ UNCHANGED bad
  BY <1>1, PlaceType, NextIdType DEF TypeOK
<1>2. CASE Failed /\ Place(h, FALSE)
  BY <1>2, PlaceType DEF TypeOK, Failed
<1>3. CASE Failed /\ UNCHANGED order
  BY <1>3 DEF TypeOK, Failed
<1> QED BY <1>1, <1>2, <1>3 DEF Post

LEMMA SplitRetryType ==
    ASSUME TypeOK, NEW h \in Holds, SplitRetry(h)
    PROVE  /\ order' \in [Ids -> Order]
           /\ got' \subseteq Ids /\ bad' \in BOOLEAN /\ seen' \subseteq Holds
<1>1. PICK ans \in SUBSET Holds :
          /\ \E ok \in BOOLEAN : GetPositions(ans, ok)
          /\ \/ \E g \in {x \in Oldest(ans) \ {h} : Accepts(x)} : Post(g)
             \/ Failed /\ UNCHANGED order
  BY DEF SplitRetry
<1>2. seen' \subseteq Holds
  BY <1>1, GetPositionsType
<1>3. CASE \E g \in {x \in Oldest(ans) \ {h} : Accepts(x)} : Post(g)
  <2>1. PICK g \in Holds : Accepts(g) /\ Post(g)
    BY <1>3 DEF Oldest
  <2> QED BY <1>2, <2>1, PostType
<1>4. CASE Failed /\ UNCHANGED order
  BY <1>2, <1>4 DEF TypeOK, Failed
<1> QED BY <1>1, <1>3, <1>4

\* A new status on some rows keeps the statuses, and the old rows CLOSING.
LEMMA SetRowsType ==
    ASSUME TypeOK, NEW S \in SUBSET Holds, NEW st \in {"OPEN", "CLOSING", "CLOSED"},
           SetRows(S, st)
    PROVE  /\ row' \in [Holds -> {"none", "OPEN", "CLOSING", "CLOSED"}]
           /\ old \ S \subseteq Rows("CLOSING")'
BY DEF TypeOK, SetRows, Rows

\* Every step keeps the types.
LEMMA TypeStep == TypeOK /\ [Next]_vars => TypeOK'
<1> SUFFICES ASSUME TypeOK, [Next]_vars PROVE TypeOK'
  OBVIOUS
<1> USE DEF broker, db, exec, loops, hist, Goto
<1>1. ASSUME NEW t \in Threads, Call(t) PROVE TypeOK'
  <2>1. PICK pos \in ExitPositions :
          IF pos.status # "OPEN"
          THEN Goto(t, "idle") /\ UNCHANGED <<who, exec>>
          ELSE /\ Goto(t, "send") /\ who' = t
               /\ todo' = pos.holds
               /\ got' = {} /\ bad' = FALSE /\ UNCHANGED wait
    BY <1>1 DEF Call
  <2>2. pos \in [status : {"none", "OPEN", "CLOSING"}, holds : SUBSET Holds]
    BY OpenPositionType DEF ExitPositions, NoPos, Held
  <2>3. todo' \subseteq Holds /\ got' \subseteq Ids /\ bad' \in BOOLEAN
        /\ wait' \in Ids \cup {NoId} /\ who' \in Threads \cup {Nobody}
    BY <2>1, <2>2 DEF TypeOK
  <2>4. pc' \in [Threads -> {"idle", "due", "send", "limit", "market",
                             "record", "sweep", "cancel", "read"}]
    BY <2>1 DEF TypeOK
  <2> QED BY <1>1, <2>3, <2>4, OpenPositionType DEF Call, TypeOK, Rows
<1>2. ASSUME NEW t \in Threads, SendLimit(t) PROVE TypeOK'
  <2>1. PICK h \in Oldest(todo) :
          \/ Accepts(h) /\ Place(h, TRUE) /\ wait' = NextId /\ Goto(t, "limit")
          \/ "answer" \in Faults /\ Accepts(h) /\ Place(h, TRUE)
             /\ UNCHANGED wait /\ Goto(t, "market")
          \/ ~Accepts(h) /\ UNCHANGED <<order, wait>> /\ Goto(t, "market")
    BY <1>2 DEF SendLimit
  <2>2. h \in Holds
    BY DEF TypeOK, Oldest
  <2>3. order' \in [Ids -> Order] /\ wait' \in Ids \cup {NoId}
    BY <2>1, <2>2, PlaceType, NextIdType DEF TypeOK
  <2>4. pc' \in [Threads -> {"idle", "due", "send", "limit", "market",
                             "record", "sweep", "cancel", "read"}]
    BY <2>1 DEF TypeOK
  <2>5. UNCHANGED <<hold, db, idOf, mem, seen, who, todo, got, bad, target, loops, hist>>
    BY <1>2 DEF SendLimit
  <2> QED BY <2>3, <2>4, <2>5 DEF TypeOK, Rows
<1>3. ASSUME NEW t \in Threads, EndLimit(t) PROVE TypeOK'
  BY <1>3, CancelType DEF EndLimit, TypeOK, Rows
<1>4. ASSUME NEW t \in Threads, SendMarket(t) PROVE TypeOK'
  <2>1. PICK h \in Oldest(todo) :
          /\ \/ Accepts(h) /\ Post(h) /\ UNCHANGED seen
             \/ ~Accepts(h) /\ SplitRetry(h)
          /\ todo' = todo \ {h}
          /\ Goto(t, IF todo = {h} THEN "record" ELSE "send")
    BY <1>4 DEF SendMarket
  <2>2. h \in Holds
    BY DEF TypeOK, Oldest
  <2>3. /\ order' \in [Ids -> Order]
        /\ got' \subseteq Ids /\ bad' \in BOOLEAN /\ seen' \subseteq Holds
    BY <2>1, <2>2, PostType, SplitRetryType DEF TypeOK
  <2> QED BY <1>4, <2>1, <2>3 DEF SendMarket, TypeOK, Rows
<1>5. ASSUME NEW t \in Threads, Record(t) PROVE TypeOK'
  <2>1. CASE Marked(t)
    <3>1. RowToMark \in SUBSET Holds
      BY DEF RowToMark, Newest, Rows
    <3>2. /\ row' \in [Holds -> {"none", "OPEN", "CLOSING", "CLOSED"}]
          /\ old' \subseteq Rows("CLOSING")'
      BY <2>1, <3>1, SetRowsType DEF Marked
    <3>3. idOf' \in [Holds -> Ids \cup {NoId, Joined}]
      BY <2>1, IdStringType DEF Marked, TypeOK
    <3> QED BY <1>5, <2>1, <3>2, <3>3 DEF Record, Marked, TypeOK, NoPos
  <2>2. CASE Unmarked(t)
    BY <1>5, <2>2 DEF Record, Unmarked, TypeOK, Rows
  <2> QED BY <1>5, <2>1, <2>2 DEF Record
<1>6. ASSUME NEW t \in Threads, Sweep(t) PROVE TypeOK'
  BY <1>6 DEF Sweep, TypeOK, Rows
<1>7. ASSUME NEW o \in Ids, Fill(o) PROVE TypeOK'
  <2>1. order' \in [Ids -> Order]
    BY <1>7 DEF Fill, TypeOK, Order
  <2>2. hold' \in [Holds -> {"none", "held", "sold"}]
    BY <1>7 DEF Fill, TypeOK
  <2>3. UNCHANGED <<db, idOf, mem, seen, who, exec, pc, target, loops, hist>>
    BY <1>7 DEF Fill
  <2> QED BY <2>1, <2>2, <2>3 DEF TypeOK, Rows
<1>8. ASSUME NEW o \in Ids, SeeLimit(o) PROVE TypeOK'
  BY <1>8 DEF SeeLimit, TypeOK, Rows
<1>9. ASSUME NEW h \in Holds, LateFill(h) PROVE TypeOK'
  BY <1>9 DEF LateFill, TypeOK, Rows
<1>10. ASSUME NEW h \in Holds, Age(h) PROVE TypeOK'
  BY <1>10 DEF Age, TypeOK, Rows
<1>11. CASE Reprice
  <2>1. Oldest(Rows("CLOSING")) \in SUBSET Holds
    BY DEF Oldest, Rows
  <2>2. /\ row' \in [Holds -> {"none", "OPEN", "CLOSING", "CLOSED"}]
        /\ old' \subseteq Rows("CLOSING")'
    BY <1>11, <2>1, SetRowsType DEF Reprice
  <2>3. order' \in [Ids -> Order]
    BY <1>11, CancelType DEF Reprice
  <2>4. pc' = [pc EXCEPT !["reprice"] = "due"]
    BY <1>11 DEF Reprice, Goto
  <2>5. pc' \in [Threads -> {"idle", "due", "send", "limit", "market",
                            "record", "sweep", "cancel", "read"}]
    BY <2>4 DEF TypeOK
  <2>6. /\ target' = NoId
        /\ UNCHANGED <<hold, idOf, mem, seen, who, exec, loops, hist>>
    BY <1>11 DEF Reprice
  <2> QED BY <2>2, <2>3, <2>5, <2>6 DEF TypeOK, exec, loops, hist
<1>12. CASE Confirm
  <2>1. Confirmed \in SUBSET Holds
    BY DEF Confirmed, Rows
  <2>2. /\ row' \in [Holds -> {"none", "OPEN", "CLOSING", "CLOSED"}]
        /\ old' \subseteq Rows("CLOSING")'
    BY <1>12, <2>1, SetRowsType DEF Confirm
  <2>3. misled' \in BOOLEAN
    BY <1>12, HistoryType DEF Confirm
  <2> QED BY <1>12, <2>2, <2>3 DEF Confirm, TypeOK
<1>13. CASE ReconcileRead
  <2>1. seen' \subseteq Holds /\ lies' \subseteq {"rec", "list"}
    BY <1>13, GetPositionsType, HistoryType DEF ReconcileRead
  <2> QED BY <1>13, <2>1 DEF ReconcileRead, TypeOK, Rows
<1>14. CASE ReconcileWrite
  <2>1. old \in SUBSET Holds
    BY DEF TypeOK, Rows
  <2>2. row' \in [Holds -> {"none", "OPEN", "CLOSING", "CLOSED"}]
    BY <1>14, <2>1, SetRowsType DEF ReconcileWrite
  <2>3. lies' \subseteq {"rec", "list"} /\ misled' \in BOOLEAN
    <3>1. lies' \subseteq {"rec", "list"}
      BY <1>14, HistoryType DEF ReconcileWrite
    <3>2. Closed("rec" \in lies)
      BY <1>14 DEF ReconcileWrite
    <3> QED BY <3>1, <3>2 DEF Closed, TypeOK
  <2> QED BY <1>14, <2>2, <2>3 DEF ReconcileWrite, TypeOK
<1>15. CASE HoldRead
  <2>1. seen' \subseteq Holds /\ lies' \subseteq {"rec", "list"}
    BY <1>15, GetPositionsType, HistoryType DEF HoldRead
  <2> QED BY <1>15, <2>1 DEF HoldRead, TypeOK, Rows
<1>16. CASE HoldWrite
  <2>1. lies' \subseteq {"rec", "list"} /\ misled' \in BOOLEAN
    <3>1. lies' \subseteq {"rec", "list"}
      BY <1>16, HistoryType DEF HoldWrite
    <3>2. Closed("list" \in lies)
      BY <1>16 DEF HoldWrite
    <3> QED BY <3>1, <3>2 DEF Closed, TypeOK
  <2>2. row' \in [Holds -> {"none", "OPEN", "CLOSING", "CLOSED"}]
        /\ old' \subseteq Rows("CLOSING")'
    BY <1>16 DEF HoldWrite, TypeOK, Rows
  <2> QED BY <1>16, <2>1, <2>2 DEF HoldWrite, TypeOK
<1>17. CASE LoopRead
  <2>1. look' \in [sync : {"none", "read", "blank", "failed"}, rows : SUBSET Holds]
    BY <1>17 DEF LoopRead, Held
  <2> QED BY <1>17, <2>1 DEF LoopRead, TypeOK, Rows
<1>18. CASE LoopWrite
  <2>1. Missing \in SUBSET Holds
    BY DEF Missing, OpenLike
  <2>2. /\ row' \in [Holds -> {"none", "OPEN", "CLOSING", "CLOSED"}]
        /\ old' \subseteq Rows("CLOSING")'
    BY <1>18, <2>1, SetRowsType DEF LoopWrite
  <2>3. mem' \in [status : {"none", "OPEN", "CLOSING"}, holds : SUBSET Holds]
    <3>1. PICK state \in StateRows : mem' = Merged(state)
      BY <1>18 DEF LoopWrite
    <3>2. state \in SUBSET Holds /\ SyncRows \in SUBSET Holds
      BY DEF StateRows, SyncRows, TypeOK
    <3> QED BY <3>1, <3>2, OpenPositionType DEF Merged
  <2>4. look' \in [sync : {"none", "read", "blank", "failed"}, rows : SUBSET Holds]
    BY <1>18 DEF LoopWrite, NoLook
  <2>5. misled' \in BOOLEAN
    BY <1>18, HistoryType DEF LoopWrite
  <2>6. pc' \in [Threads -> {"idle", "due", "send", "limit", "market",
                             "record", "sweep", "cancel", "read"}]
    BY <1>18 DEF LoopWrite, TypeOK
  <2> QED BY <1>18, <2>2, <2>3, <2>4, <2>5, <2>6 DEF LoopWrite, TypeOK
<1>19. CASE Restart
  <2>1. mem' \in [status : {"none", "OPEN", "CLOSING"}, holds : SUBSET Holds]
    BY <1>19 DEF Restart, NoPos
  <2>2. look' \in [sync : {"none", "read", "blank", "failed"}, rows : SUBSET Holds]
    BY <1>19 DEF Restart, NoLook
  <2> QED BY <1>19, <2>1, <2>2 DEF Restart, TypeOK, Rows
<1>20. CASE UNCHANGED vars
  BY <1>20 DEF vars, TypeOK, Rows
<1> QED
  BY <1>1, <1>2, <1>3, <1>4, <1>5, <1>6, <1>7, <1>8, <1>9, <1>10, <1>11, <1>12,
     <1>13, <1>14, <1>15, <1>16, <1>17, <1>18, <1>19, <1>20 DEF Next, Exit

LEMMA InitType == Init => TypeOK
<1> SUFFICES ASSUME Init PROVE TypeOK
  OBVIOUS
<1> USE HoldsAssumption, BoundsAssumption DEF Init
<1>1. order \in [Ids -> Order]
  BY DEF Order, NoOrder
<1>2. old \subseteq Rows("CLOSING")
  OBVIOUS
<1>3. mem \in [status : {"none", "OPEN", "CLOSING"}, holds : SUBSET Holds]
  BY DEF NoPos
<1>4. /\ idOf \in [Holds -> Ids \cup {NoId, Joined}]
      /\ pc \in [Threads -> {"idle", "due", "send", "limit", "market",
                             "record", "sweep", "cancel", "read"}]
  OBVIOUS
<1>5. /\ look \in [sync : {"none", "read", "blank", "failed"}, rows : SUBSET Holds]
      /\ lies \subseteq {"rec", "list"} /\ misled \in BOOLEAN
  BY DEF NoLook
<1>6. /\ hold \in [Holds -> {"none", "held", "sold"}]
      /\ row \in [Holds -> {"none", "OPEN", "CLOSING", "CLOSED"}]
  OBVIOUS
<1>7. /\ todo \subseteq Holds /\ got \subseteq Ids /\ bad \in BOOLEAN
      /\ seen \subseteq Holds
      /\ wait \in Ids \cup {NoId} /\ target \in Ids \cup {NoId}
      /\ who \in Threads \cup {Nobody}
      /\ rec \in {"idle", "flat", "held"} /\ list \in {NoList} \cup SUBSET Holds
  OBVIOUS
<1> QED BY <1>1, <1>2, <1>3, <1>4, <1>5, <1>6, <1>7 DEF TypeOK

\* Every variable of the exit lifecycle keeps its type, and a row counts as
\* old only while it is CLOSING.
THEOREM TypeCorrect == Spec => []TypeOK
<1> QED BY InitType, TypeStep, PTL DEF Spec

----------------------------------------------------------------------------
(* SoloClosedIsSold.                                                        *)
(*                                                                          *)
(* A CLOSED row is the end of a chain: some loop read something, and wrote  *)
(* later.  The invariant says of each thing that was read what it means for *)
(* the hold: a filled order, a flat broker, a list without the hold, unless *)
(* no GET gave it.                                                          *)

\* No order is for a hold that never was, and a filled one sold its hold.
OrdersOK ==
    \A o \in Ids :
       /\ order[o].state # "no" =>
             order[o].hold \in Holds /\ hold[order[o].hold] # "none"
       /\ order[o].state = "filled" => hold[order[o].hold] = "sold"

\* What was read about the broker while the symbol has had one hold only.
ReadsOK ==
    Solo =>
      /\ rec = "flat" /\ "rec" \notin lies => hold[First] = "sold"
      /\ list # NoList /\ First \notin list /\ "list" \notin lies
            => hold[First] = "sold"
      /\ look.sync \in {"read", "blank"} /\ First \notin look.rows
            => hold[First] = "sold"

SoloInv ==
    /\ TypeOK
    /\ OrdersOK
    /\ hold[First] # "none"
    /\ ReadsOK
    /\ SoloClosedIsSold

LEMMA InitSolo == Init => SoloInv
<1> SUFFICES ASSUME Init PROVE SoloInv
  OBVIOUS
<1>1. TypeOK
  BY InitType
<1>2. OrdersOK
  BY DEF Init, OrdersOK, NoOrder
<1>3. hold[First] # "none" /\ ReadsOK /\ SoloClosedIsSold
  BY HoldsAssumption DEF Init, ReadsOK, SoloClosedIsSold, NoLook
<1> QED BY <1>1, <1>2, <1>3 DEF SoloInv

\* A hold that exists goes on existing and, once sold, stays sold; so a state
\* with one hold only comes from such a state.
LEMMA HoldStep ==
    ASSUME TypeOK, OrdersOK, Next, NEW h \in Holds
    PROVE  /\ hold[h] # "none" => hold'[h] # "none"
           /\ hold[h] = "sold" => hold'[h] = "sold"
<1>1. CASE UNCHANGED hold
  BY <1>1
<1>2. ASSUME NEW o \in Ids, Fill(o)
      PROVE  /\ hold[h] # "none" => hold'[h] # "none"
             /\ hold[h] = "sold" => hold'[h] = "sold"
  BY <1>2 DEF Fill, TypeOK
<1>3. ASSUME NEW g \in Holds, LateFill(g)
      PROVE  /\ hold[h] # "none" => hold'[h] # "none"
             /\ hold[h] = "sold" => hold'[h] = "sold"
  BY <1>3 DEF LateFill, TypeOK
<1> QED
  BY <1>1, <1>2, <1>3
     DEF Next, Exit, Call, SendLimit, EndLimit, SendMarket, Record, Sweep, SeeLimit,
         Reprice, Confirm, Age, ReconcileRead, ReconcileWrite, HoldRead, HoldWrite,
         LoopRead, LoopWrite, Restart, broker

\* Sending keeps OrdersOK: an order is placed for a hold that is there.
LEMMA PlaceKeeps ==
    ASSUME SoloInv, NEW h \in Holds, Accepts(h), NEW l \in BOOLEAN, Place(h, l), UNCHANGED hold
    PROVE  OrdersOK'
<1> SUFFICES ASSUME NEW o \in Ids
             PROVE  /\ order'[o].state # "no" =>
                         order'[o].hold \in Holds /\ hold[order'[o].hold] # "none"
                    /\ order'[o].state = "filled" => hold[order'[o].hold] = "sold"
  BY DEF OrdersOK
<1>1. CASE o = NextId
  BY <1>1, HoldsAssumption DEF SoloInv, TypeOK, Place, Accepts
<1>2. CASE o # NextId
  <2>1. order'[o] = order[o]
    BY <1>2 DEF SoloInv, TypeOK, Place
  <2> QED BY <2>1 DEF SoloInv, OrdersOK
<1> QED BY <1>1, <1>2

LEMMA CancelKeeps ==
    ASSUME SoloInv, NEW c, Cancel(c), UNCHANGED hold
    PROVE  OrdersOK'
<1> SUFFICES ASSUME NEW o \in Ids
             PROVE  /\ order'[o].state # "no" =>
                         order'[o].hold \in Holds /\ hold[order'[o].hold] # "none"
                    /\ order'[o].state = "filled" => hold[order'[o].hold] = "sold"
  BY DEF OrdersOK
<1>1. order[o] \in Order
  BY DEF SoloInv, TypeOK
<1>2. \/ order'[o] = order[o]
      \/ /\ order[o].state = "working"
         /\ order'[o].state = "cancelled" /\ order'[o].hold = order[o].hold
  BY <1>1 DEF SoloInv, TypeOK, Order, Cancel
<1> QED BY <1>2 DEF SoloInv, OrdersOK

LEMMA PostKeeps ==
    ASSUME SoloInv, NEW h \in Holds, Accepts(h), Post(h), UNCHANGED hold
    PROVE  OrdersOK'
<1>1. Place(h, FALSE) \/ UNCHANGED order
  BY DEF Post
<1> QED BY <1>1, PlaceKeeps DEF SoloInv, OrdersOK

LEMMA SplitRetryKeeps ==
    ASSUME SoloInv, NEW h \in Holds, SplitRetry(h), UNCHANGED hold
    PROVE  OrdersOK'
<1>1. UNCHANGED order \/ \E g \in Holds : Accepts(g) /\ Post(g)
  BY DEF SplitRetry, Oldest
<1> QED BY <1>1, PostKeeps DEF SoloInv, OrdersOK

LEMMA OrdersStep ==
    ASSUME SoloInv, Next
    PROVE  OrdersOK'
<1> USE DEF broker
<1>1. CASE UNCHANGED broker
  BY <1>1 DEF SoloInv, OrdersOK
<1>2. ASSUME NEW t \in Threads, SendLimit(t) PROVE OrdersOK'
  <2>1. UNCHANGED order \/ \E h \in Holds : Accepts(h) /\ Place(h, TRUE)
    BY <1>2 DEF SendLimit, Oldest, SoloInv, TypeOK
  <2>2. UNCHANGED hold
    BY <1>2 DEF SendLimit
  <2>3. CASE UNCHANGED order
    BY <2>2, <2>3 DEF SoloInv, OrdersOK
  <2>4. ASSUME NEW h \in Holds, Accepts(h), Place(h, TRUE) PROVE OrdersOK'
    BY <2>2, <2>4, PlaceKeeps
  <2> QED BY <2>1, <2>3, <2>4
<1>3. ASSUME NEW t \in Threads, EndLimit(t) PROVE OrdersOK'
  BY <1>3, CancelKeeps DEF EndLimit
<1>4. ASSUME NEW t \in Threads, SendMarket(t) PROVE OrdersOK'
  <2>1. \E h \in Holds : (Accepts(h) /\ Post(h)) \/ SplitRetry(h)
    BY <1>4 DEF SendMarket, Oldest, SoloInv, TypeOK
  <2>2. UNCHANGED hold
    BY <1>4 DEF SendMarket
  <2> QED BY <2>1, <2>2, PostKeeps, SplitRetryKeeps
<1>5. CASE Reprice
  BY <1>5, CancelKeeps DEF Reprice
<1>6. ASSUME NEW f \in Ids, Fill(f) PROVE OrdersOK'
  <2> SUFFICES ASSUME NEW o \in Ids
               PROVE  /\ order'[o].state # "no" =>
                           order'[o].hold \in Holds /\ hold'[order'[o].hold] # "none"
                      /\ order'[o].state = "filled" => hold'[order'[o].hold] = "sold"
    BY DEF OrdersOK
  <2>1. order[f].hold \in Holds /\ order[f] \in Order /\ order[o] \in Order
    BY <1>6 DEF Fill, SoloInv, OrdersOK, TypeOK
  <2>2. hold' = [hold EXCEPT ![order[f].hold] = "sold"]
    BY <1>6 DEF Fill
  <2>3. CASE o = f
    <3>1. order'[o].hold = order[f].hold
      BY <1>6, <2>1, <2>3 DEF Fill, SoloInv, TypeOK, Order
    <3>2. hold'[order[f].hold] = "sold"
      BY <2>1, <2>2 DEF SoloInv, TypeOK
    <3> QED BY <2>1, <3>1, <3>2
  <2>4. CASE o # f
    <3>1. order'[o] = order[o]
      BY <1>6, <2>4 DEF Fill, SoloInv, TypeOK
    <3>2. \A h \in Holds : hold'[h] = hold[h] \/ hold'[h] = "sold"
      BY <2>2 DEF SoloInv, TypeOK
    <3> QED BY <3>1, <3>2 DEF SoloInv, OrdersOK
  <2> QED BY <2>3, <2>4
<1>7. ASSUME NEW g \in Holds, LateFill(g) PROVE OrdersOK'
  BY <1>7 DEF LateFill, SoloInv, TypeOK, OrdersOK
<1> QED
  BY <1>1, <1>2, <1>3, <1>4, <1>5, <1>6, <1>7
     DEF Next, Exit, Call, Record, Sweep, SeeLimit, Confirm, Age, ReconcileRead,
         ReconcileWrite, HoldRead, HoldWrite, LoopRead, LoopWrite, Restart

LEMMA SoloBack ==
    ASSUME SoloInv, Next, Solo'
    PROVE  Solo
BY HoldStep DEF Solo, SoloInv

\* While there is one hold only and it is not sold, the broker lists it.
LEMMA Listed ==
    ASSUME SoloInv, NEW ans \in SUBSET Holds, NEW ok, GetPositions(ans, ok), ok
    PROVE  First \in ans \/ hold[First] = "sold"
BY HoldsAssumption DEF SoloInv, TypeOK, GetPositions, Held

LEMMA ReadsStep ==
    ASSUME SoloInv, Next
    PROVE  ReadsOK'
<1> SUFFICES ASSUME Solo'
             PROVE  /\ rec' = "flat" /\ "rec" \notin lies' => hold'[First] = "sold"
                    /\ list' # NoList /\ First \notin list' /\ "list" \notin lies'
                          => hold'[First] = "sold"
                    /\ look'.sync \in {"read", "blank"} /\ First \notin look'.rows
                          => hold'[First] = "sold"
  BY DEF ReadsOK
<1>1. Solo
  BY SoloBack
<1>2. hold[First] = "sold" => hold'[First] = "sold"
  BY HoldStep, HoldsAssumption DEF SoloInv
<1>3. CASE UNCHANGED <<rec, list, look, lies>>
  BY <1>1, <1>2, <1>3 DEF SoloInv, ReadsOK
<1>4. CASE ReconcileRead
  <2>1. PICK ans \in SUBSET Holds, ok \in BOOLEAN :
          /\ GetPositions(ans, ok) /\ Told("rec", ok)
          /\ rec' = IF ans = {} THEN "flat" ELSE "held"
    BY <1>4 DEF ReconcileRead
  <2>2. UNCHANGED <<list, look>>
    BY <1>4 DEF ReconcileRead
  <2>3. "list" \notin lies' => "list" \notin lies
    BY <2>1 DEF Told
  <2>4. rec' = "flat" /\ "rec" \notin lies' => hold[First] = "sold"
    BY <2>1, Listed DEF Told
  <2> QED BY <1>1, <1>2, <2>2, <2>3, <2>4 DEF SoloInv, ReadsOK
<1>5. CASE HoldRead
  <2>1. PICK ans \in SUBSET Holds, ok \in BOOLEAN :
          /\ GetPositions(ans, ok) /\ Told("list", ok)
          /\ list' = ans
    BY <1>5 DEF HoldRead
  <2>2. UNCHANGED <<rec, look>>
    BY <1>5 DEF HoldRead
  <2>3. "rec" \notin lies' => "rec" \notin lies
    BY <2>1 DEF Told
  <2>4. First \notin list' /\ "list" \notin lies' => hold[First] = "sold"
    BY <2>1, Listed DEF Told
  <2> QED BY <1>1, <1>2, <2>2, <2>3, <2>4 DEF SoloInv, ReadsOK
<1>6. CASE ReconcileWrite \/ HoldWrite
  <2>1. \/ rec' = "idle" /\ Told("rec", TRUE) /\ UNCHANGED <<list, look>>
        \/ list' = NoList /\ Told("list", TRUE) /\ UNCHANGED <<rec, look>>
    BY <1>6 DEF ReconcileWrite, HoldWrite
  <2> QED BY <1>1, <1>2, <2>1 DEF Told, SoloInv, ReadsOK
<1>7. CASE LoopRead
  <2>1. UNCHANGED <<rec, list, lies>>
    BY <1>7 DEF LoopRead, hist
  <2>2. look'.sync \in {"read", "blank"} => look'.rows = Held
    BY <1>7 DEF LoopRead
  <2>3. First \in Held \/ hold[First] = "sold"
    BY HoldsAssumption DEF Held, SoloInv, TypeOK
  <2> QED BY <1>1, <1>2, <2>1, <2>2, <2>3 DEF SoloInv, ReadsOK
<1>8. CASE LoopWrite
  <2>1. UNCHANGED <<rec, list, lies>> /\ look'.sync = "none"
    BY <1>8 DEF LoopWrite, NoLook
  <2> QED BY <1>1, <1>2, <2>1 DEF SoloInv, ReadsOK
<1>9. CASE Restart
  BY <1>9 DEF Restart, NoLook
<1> QED
  BY <1>3, <1>4, <1>5, <1>6, <1>7, <1>8, <1>9
     DEF Next, Exit, Call, SendLimit, EndLimit, SendMarket, Record, Sweep, Fill, LateFill,
         SeeLimit, Reprice, Confirm, Age, loops, hist

\* Whoever writes CLOSED on the row knows that the hold is sold, or was told
\* so by no GET.
LEMMA ClosedStep ==
    ASSUME SoloInv, Next
    PROVE  SoloClosedIsSold'
<1> SUFFICES ASSUME Solo', row'[First] = "CLOSED", ~misled'
             PROVE  hold'[First] = "sold"
  BY DEF SoloClosedIsSold
<1> USE HoldsAssumption
<1>1. Solo
  BY SoloBack
<1>2. SUFFICES hold[First] = "sold"
  BY HoldStep DEF SoloInv
<1>3. CASE row[First] = "CLOSED" /\ ~misled
  BY <1>1, <1>3 DEF SoloInv, SoloClosedIsSold
<1>4. CASE Confirm
  <2>1. CASE row[First] = "CLOSED"
    BY <1>3, <1>4, <2>1 DEF Confirm, Closed
  <2>2. CASE row[First] # "CLOSED"
    <3>1. First \in Confirmed
      BY <1>4, <2>2 DEF Confirm, SetRows
    <3>2. PICK o \in Placed : order[o].state = "filled"
      BY <3>1 DEF Confirmed, ConfirmedBy, Newest
    <3>3. order[o].hold \in Holds /\ hold[order[o].hold] = "sold"
      BY <3>2 DEF Placed, SoloInv, OrdersOK
    <3> QED BY <1>1, <3>3 DEF Solo
  <2> QED BY <2>1, <2>2
<1>5. CASE ReconcileWrite
  <2>1. CASE row[First] = "CLOSED"
    BY <1>3, <1>5, <2>1 DEF ReconcileWrite, Closed
  <2>2. CASE row[First] # "CLOSED"
    <3>1. rec = "flat" /\ rec # "idle"
      BY <1>5, <2>2 DEF ReconcileWrite, SetRows
    <3>2. "rec" \notin lies
      BY <1>5, <2>2 DEF ReconcileWrite, Closed
    <3> QED BY <1>1, <3>1, <3>2 DEF SoloInv, ReadsOK
  <2> QED BY <2>1, <2>2
<1>6. CASE HoldWrite
  <2>1. CASE row[First] = "CLOSED"
    BY <1>3, <1>6, <2>1 DEF HoldWrite, Closed
  <2>2. CASE row[First] # "CLOSED"
    <3>1. list # NoList /\ First \notin list
      BY <1>6, <2>2 DEF HoldWrite
    <3>2. "list" \notin lies
      BY <1>6, <2>2 DEF HoldWrite, Closed
    <3> QED BY <1>1, <3>1, <3>2 DEF SoloInv, ReadsOK
  <2> QED BY <2>1, <2>2
<1>7. CASE LoopWrite
  <2>1. CASE row[First] = "CLOSED"
    BY <1>3, <1>7, <2>1 DEF LoopWrite, Closed
  <2>2. CASE row[First] # "CLOSED"
    <3>1. First \in Missing
      BY <1>7, <2>2 DEF LoopWrite, SetRows
    <3>2. look.sync \in {"read", "blank"} /\ SyncRows = {}
      BY <3>1 DEF Missing
    <3>3. ~(look.sync = "blank" /\ First \in look.rows)
      BY <1>7, <2>2 DEF LoopWrite, Closed
    <3>4. First \notin look.rows
      BY <3>2, <3>3 DEF SyncRows
    <3> QED BY <1>1, <3>2, <3>4 DEF SoloInv, ReadsOK
  <2> QED BY <2>1, <2>2
<1>8. CASE Reprice
  <2>1. row[First] = "CLOSED" /\ UNCHANGED misled
    BY <1>8 DEF Reprice, SetRows, hist
  <2> QED BY <1>3, <2>1
<1>9. ASSUME NEW t \in Threads, Record(t) PROVE row[First] = "CLOSED" /\ ~misled
  BY <1>9 DEF Record, Marked, Unmarked, SetRows, db, hist
<1>10. CASE UNCHANGED <<row, misled>>
  BY <1>3, <1>10
<1> QED
  BY <1>3, <1>4, <1>5, <1>6, <1>7, <1>8, <1>9, <1>10
     DEF Next, Exit, Call, SendLimit, EndLimit, SendMarket, Sweep, Fill, LateFill,
         SeeLimit, Age, ReconcileRead, HoldRead, LoopRead, Restart, db, hist

LEMMA SoloStep ==
    SoloInv /\ [Next]_vars => SoloInv'
<1> SUFFICES ASSUME SoloInv, [Next]_vars PROVE SoloInv'
  OBVIOUS
<1>1. TypeOK'
  BY TypeStep DEF SoloInv
<1>2. CASE Next
  <2>1. hold'[First] # "none"
    BY <1>2, HoldStep, HoldsAssumption DEF SoloInv
  <2> QED BY <1>1, <1>2, <2>1, OrdersStep, ReadsStep, ClosedStep DEF SoloInv
<1>3. CASE UNCHANGED vars
  BY <1>1, <1>3
     DEF vars, broker, db, loops, hist, SoloInv, OrdersOK, ReadsOK, Solo, SoloClosedIsSold
<1> QED BY <1>2, <1>3

\* Whatever fails, and however the loops interleave, crash and lose answers:
\* as long as the symbol has had one hold only, its row does not say CLOSED
\* while the hold is still there, unless a loop closed it upon a GET that
\* failed, or gave no body, and was taken for an answer.
THEOREM ClosedIsSold == Spec => []SoloClosedIsSold
<1>1. SoloInv => SoloClosedIsSold
  BY DEF SoloInv
<1> QED BY InitSolo, SoloStep, <1>1, PTL DEF Spec
==============================================================================
