--------------------------- MODULE EntryOrdersProofs ---------------------------
(***************************************************************************)
(* Proofs about EntryOrders, for every set of sides, any number of orders  *)
(* and all times: the type invariant, and, when the duplicate cooldown     *)
(* covers everything that goes by between two attempts (DupCovers), that a *)
(* side never has two entries at once.                                     *)
(***************************************************************************)
EXTENDS EntryOrders, TLAPS

USE DEF vars, world, guards, pipeline, watchers, retry
USE OrdersAssumption, SidesAssumption, TimesAssumption, NoneAssumption

----------------------------------------------------------------------------
(* What the shared pieces of the actions do *)

\* A PUT leaves every order as it is, or takes the one it names from the market.
LEMMA PutCancels ==
    ASSUME TypeOK, NEW o \in Ids, NEW ok \in BOOLEAN, Put(o, ok)
    PROVE  /\ broker' \in [Ids -> {"none", "live", "filled", "dead", "closed"}]
           /\ \A p \in Ids : broker'[p] = broker[p] \/ (broker[p] = "live" /\ broker'[p] = "dead")
BY DEF TypeOK, Put

\* A bucket that takes a candidate holds a candidate.
LEMMA AddedType ==
    ASSUME TypeOK, NEW c \in Candidates
    PROVE  Added(c) \subseteq Candidates
<1>1. cand = None \/ cand \in Candidates
  BY DEF TypeOK
<1>2. CASE cand = None
  BY <1>2 DEF Added
<1>3. CASE cand # None
  BY <1>1, <1>3 DEF Added
<1> QED
  BY <1>2, <1>3

\* A candidate that is put back is a candidate of the next round.
LEMMA RequeueType ==
    ASSUME TypeOK, OrderOK, NEW o \in Ids, Requeue(o)
    PROVE  /\ cand' \in Candidates \cup {None}
           /\ restricted' \in Nat
           /\ memo' \subseteq memo
<1>1. CASE o \in memo /\ order[o].cand.round < Rounds
  <2>1. order[o].cand \in Candidates
    BY <1>1 DEF TypeOK, OrderOK
  <2>2. [order[o].cand EXCEPT !.round = @ + 1] \in Candidates
    BY <1>1, <2>1 DEF Candidates
  <2> QED
    BY <1>1, <2>2, AddedType DEF Requeue
<1>2. CASE ~(o \in memo /\ order[o].cand.round < Rounds)
  BY <1>2 DEF Requeue, TypeOK
<1> QED
  BY <1>1, <1>2

\* A thread that ends holds no item and no order.
LEMMA FinishType ==
    ASSUME TypeOK, NEW s \in Sides, NEW res \in {"ok", "ng"}, Finish(s, res)
    PROVE  /\ run' = [run EXCEPT ![s] = run'[s]]
           /\ run'[s] \in {NoRun, [NoRun EXCEPT !.pc = res]}
           /\ run'[s].pc \in {"idle", "ok", "ng"}
BY DEF TypeOK, Finish, NoRun

----------------------------------------------------------------------------
(* Types *)

RunRecord == [pc : {"idle", "guards", "build", "sent", "registered", "locked", "ok", "ng"},
              item : Candidates \cup {None}, o : Ids \cup {None}, hang : Nat]

\* Init is well typed.
LEMMA TypeInit == Init => TypeOK
<1> SUFFICES ASSUME Init PROVE TypeOK
  OBVIOUS
<1>1. /\ order \in [Ids -> [cand : Candidates \cup {None}, mode : Modes]]
      /\ run \in [Sides -> RunRecord]
      /\ pipe \in [pc : {"idle", "picked", "join"}, item : Candidates \cup {None}, wait : Nat]
  BY DEF Init, NoOrder, NoRun, Idle, RunRecord
<1>2. \A s \in Sides : run[s].pc = "idle"
  BY DEF Init, NoRun
<1>3. pipe.pc = "idle"
  BY DEF Init, Idle
<1>4. monitor \in [o : Ids, adverse : BOOLEAN, dropped : BOOLEAN] \cup {None}
  BY DEF Init
<1>5. cancels \in 0..1 /\ cand \in Candidates \cup {None}
  BY DEF Init
<1>6. /\ broker \in [Ids -> {"none", "live", "filled", "dead", "closed"}]
      /\ timer \in [Ids -> {"off", "on", "cancelled", "failed"}]
      /\ age \in [Ids -> Nat] /\ dup \in [Sides -> Nat]
  BY DEF Init
<1>7. /\ lag \in Nat /\ openPos \in BOOLEAN /\ restricted \in Nat /\ inflight \in BOOLEAN
      /\ watched \subseteq Ids /\ memo \subseteq Ids
  BY DEF Init
<1> QED
  BY <1>1, <1>2, <1>3, <1>4, <1>5, <1>6, <1>7 DEF TypeOK, RunRecord

\* The end of a thread keeps the types of the threads.
LEMMA FinishKeepsType ==
    ASSUME TypeOK, NEW s \in Sides, NEW res \in {"ok", "ng"}, Finish(s, res)
    PROVE  /\ run' \in [Sides -> RunRecord]
           /\ \A t \in Sides :
                /\ run'[t].pc \in {"guards", "build", "sent", "registered", "locked"}
                     => run'[t].item # None
                /\ run'[t].pc \in {"sent", "registered", "locked"} => run'[t].o # None
<1>1. run'[s] \in RunRecord
  BY FinishType DEF NoRun, RunRecord
<1>2. /\ run' = [run EXCEPT ![s] = run'[s]] /\ run'[s].pc \in {"idle", "ok", "ng"}
  BY FinishType
<1> QED
  BY <1>1, <1>2 DEF TypeOK, RunRecord

\* Every action keeps the types.
LEMMA TypeStep == TypeOK /\ OrderOK /\ [Next]_vars => TypeOK'
<1> SUFFICES ASSUME TypeOK, OrderOK, [Next]_vars PROVE TypeOK'
  OBVIOUS
<1>1. ASSUME NEW s \in Sides, NEW summary \in Summary, NewCandidate(s, summary) PROVE TypeOK'
  <2>1. [side |-> s, round |-> 0, summary |-> summary] \in Candidates
    BY DEF Candidates
  <2> QED
    BY <1>1, <2>1, AddedType DEF NewCandidate, TypeOK
<1>2. CASE Pick
  BY <1>2 DEF Pick, TypeOK
<1>3. CASE Skip \/ SkipStale \/ JoinTimeout
  BY <1>3 DEF Skip, SkipStale, JoinTimeout, TypeOK, Idle
<1>4. CASE Execute
  <2>1. pipe.item \in Candidates /\ pipe.item.side \in Sides
    BY <1>4 DEF Execute, TypeOK, Candidates
  <2> QED
    BY <1>4, <2>1 DEF Execute, TypeOK, NoRun
<1>5. CASE Joined
  <2>1. pipe.item.side \in Sides
    BY <1>5 DEF Joined, TypeOK, Candidates
  <2> QED
    BY <1>5, <2>1 DEF Joined, TypeOK, Idle, NoRun
<1>6. ASSUME NEW s \in Sides, Refuse(s) \/ NoOrderSent(s) PROVE TypeOK'
  <2>1. Finish(s, "ng")
    BY <1>6 DEF Refuse, NoOrderSent
  <2> QED
    BY <1>6, <2>1, FinishKeepsType DEF Refuse, NoOrderSent, TypeOK, RunRecord
<1>7. ASSUME NEW s \in Sides, EnterDup(s) PROVE TypeOK'
  BY <1>7 DEF EnterDup, TypeOK
<1>8. ASSUME NEW s \in Sides, NEW o \in Ids, NEW mode \in Modes, NEW lost \in BOOLEAN,
             Send(s, o, mode, lost) PROVE TypeOK'
  <2>1. /\ run' \in [Sides -> RunRecord]
        /\ \A t \in Sides :
             /\ run'[t].pc \in {"guards", "build", "sent", "registered", "locked"}
                  => run'[t].item # None
             /\ run'[t].pc \in {"sent", "registered", "locked"} => run'[t].o # None
    <3>1. CASE lost
      BY <1>8, <3>1, FinishKeepsType DEF Send
    <3>2. CASE ~lost
      <4>1. run[s] \in RunRecord /\ run[s].item # None
        BY <1>8 DEF Send, TypeOK, RunRecord
      <4>2. /\ [run[s] EXCEPT !.pc = "sent", !.o = o] \in RunRecord
            /\ [run[s] EXCEPT !.pc = "sent", !.o = o].item = run[s].item
            /\ [run[s] EXCEPT !.pc = "sent", !.o = o].o = o
        BY <4>1 DEF RunRecord
      <4>3. run' = [run EXCEPT ![s] = [run[s] EXCEPT !.pc = "sent", !.o = o]]
        BY <1>8, <3>2 DEF Send
      <4> QED
        BY <4>1, <4>2, <4>3 DEF TypeOK, RunRecord
    <3> QED
      BY <3>1, <3>2
  <2>2. order' \in [Ids -> [cand : Candidates \cup {None}, mode : Modes]]
    BY <1>8 DEF Send, TypeOK
  <2> QED
    BY <1>8, <2>1, <2>2 DEF Send, TypeOK, RunRecord
<1>9. ASSUME NEW s \in Sides, Register(s) \/ Lock(s) PROVE TypeOK'
  <2>1. run[s].o \in Ids
    BY <1>9 DEF Register, Lock, TypeOK
  <2>2. CASE Register(s)
    BY <2>1, <2>2 DEF Register, TypeOK
  <2>3. CASE Lock(s)
    BY <2>1, <2>3 DEF Lock, TypeOK
  <2> QED
    BY <1>9, <2>2, <2>3
<1>10. ASSUME NEW s \in Sides, Remember(s) PROVE TypeOK'
  <2>1. Finish(s, "ok") /\ memo' \subseteq Ids
    BY <1>10 DEF Remember, TypeOK
  <2> QED
    BY <1>10, <2>1, FinishKeepsType DEF Remember, TypeOK, RunRecord
<1>11. ASSUME NEW o \in Ids, NEW adverse \in BOOLEAN, NEW ok \in BOOLEAN,
              MonitorPut(o, adverse, ok) PROVE TypeOK'
  BY <1>11, PutCancels DEF MonitorPut, TypeOK
<1>12. CASE MonitorDrop
  BY <1>12 DEF MonitorDrop, TypeOK
<1>13. CASE MonitorDecide
  <2>1. monitor.o \in Ids
    BY <1>13 DEF MonitorDecide, TypeOK
  <2>2. cand' \in Candidates \cup {None} /\ restricted' \in Nat /\ memo' \subseteq memo
    BY <1>13, <2>1, RequeueType DEF MonitorDecide, TypeOK
  <2>3. cancels' \in 0..1
    BY <1>13 DEF MonitorDecide, TypeOK
  <2> QED
    BY <1>13, <2>2, <2>3 DEF MonitorDecide, TypeOK
<1>14. ASSUME NEW o \in Ids, WatchLook(o) PROVE TypeOK'
  BY <1>14 DEF WatchLook, TypeOK
<1>15. ASSUME NEW o \in Ids, NEW ok \in BOOLEAN, WatchPut(o, ok) PROVE TypeOK'
  BY <1>15, PutCancels DEF WatchPut, TypeOK
<1>16. ASSUME NEW o \in Ids, WatchEnd(o) PROVE TypeOK'
  <2>1. cand' \in Candidates \cup {None} /\ restricted' \in Nat /\ memo' \subseteq memo
    BY <1>16, RequeueType DEF WatchEnd, TypeOK
  <2> QED
    BY <1>16, <2>1 DEF WatchEnd, TypeOK
<1>17. ASSUME NEW o \in Ids, PendingMonitorDrop(o) \/ ForceCancel(o) \/ Fill(o) PROVE TypeOK'
  BY <1>17 DEF PendingMonitorDrop, ForceCancel, Fill, TypeOK
<1>18. CASE Close \/ SyncPositions
  <2>1. CASE Close
    BY <2>1 DEF Close, TypeOK
  <2>2. CASE SyncPositions
    <3>1. openPos' \in BOOLEAN /\ inflight' \in BOOLEAN
      BY <2>2, Zenon DEF SyncPositions, TypeOK
    <3> QED
      BY <2>2, <3>1 DEF SyncPositions, TypeOK
  <2> QED
    BY <1>18, <2>1, <2>2
<1>19. CASE Tick
  <2>1. /\ run' \in [Sides -> RunRecord]
        /\ \A s \in Sides : run'[s].pc = run[s].pc /\ run'[s].item = run[s].item
                              /\ run'[s].o = run[s].o
    <3>1. \A s \in Sides :
            /\ [run[s] EXCEPT !.hang = @ + 1] \in RunRecord
            /\ [run[s] EXCEPT !.hang = @ + 1].pc = run[s].pc
            /\ [run[s] EXCEPT !.hang = @ + 1].item = run[s].item
            /\ [run[s] EXCEPT !.hang = @ + 1].o = run[s].o
      BY DEF TypeOK, RunRecord
    <3> QED
      BY <1>19, <3>1 DEF Tick, TypeOK, RunRecord
  <2>2. /\ pipe' \in [pc : {"idle", "picked", "join"}, item : Candidates \cup {None}, wait : Nat]
        /\ pipe'.pc = pipe.pc /\ pipe'.item = pipe.item
    BY <1>19 DEF Tick, TypeOK
  <2>3. /\ age' \in [Ids -> Nat] /\ lag' \in Nat /\ restricted' \in Nat /\ dup' \in [Sides -> Nat]
    BY <1>19 DEF Tick, TypeOK
  <2> QED
    BY <1>19, <2>1, <2>2, <2>3 DEF Tick, TypeOK, RunRecord
<1>20. CASE UNCHANGED vars
  BY <1>20 DEF TypeOK
<1> QED
  BY <1>1, <1>2, <1>3, <1>4, <1>5, <1>6, <1>7, <1>8, <1>9, <1>10, <1>11, <1>12, <1>13, <1>14,
     <1>15, <1>16, <1>17, <1>18, <1>19, <1>20
     DEF Next, Pipeline, Runner, Monitor, Watch

----------------------------------------------------------------------------
(* Orders and threads *)

\* Init satisfies the rest of the invariant: nothing has been sent.
LEMMA RestInit == Init => OrderOK /\ ThreadsOK /\ CooldownOK /\ BlockedOK /\ OneEntryPerSide
<1> SUFFICES ASSUME Init
             PROVE  OrderOK /\ ThreadsOK /\ CooldownOK /\ BlockedOK /\ OneEntryPerSide
  OBVIOUS
<1>1. /\ \A o \in Ids : broker[o] = "none" /\ age[o] = 0 /\ timer[o] = "off"
      /\ watched = {} /\ memo = {} /\ lag = 0
  BY DEF Init
<1>2. \A s \in Sides : run[s].pc = "idle"
  BY DEF Init, NoRun
<1>3. pipe.pc = "idle"
  BY DEF Init, Idle
<1> QED
  BY <1>1, <1>2, <1>3 DEF OrderOK, ThreadsOK, CooldownOK, BlockedOK, OneEntryPerSide, Alive

\* The actions of the pipeline and of the threads that touch no order.
LEMMA OrderStep == TypeOK /\ OrderOK /\ ThreadsOK /\ [Next]_vars => OrderOK'
<1> SUFFICES ASSUME TypeOK, OrderOK, ThreadsOK, [Next]_vars PROVE OrderOK'
  OBVIOUS
<1> USE DEF OrderOK
<1>1. CASE UNCHANGED <<broker, order, age, watched, timer, memo>>
  BY <1>1
<1>2. ASSUME NEW s \in Sides, NEW o \in Ids, NEW mode \in Modes, NEW lost \in BOOLEAN,
             Send(s, o, mode, lost) PROVE OrderOK'
  BY <1>2 DEF Send, TypeOK
<1>3. ASSUME NEW s \in Sides, Register(s) \/ Lock(s) \/ Remember(s) PROVE OrderOK'
  <2>1. run[s].o \in Ids /\ broker[run[s].o] # "none"
    BY <1>3 DEF Register, Lock, Remember, ThreadsOK, TypeOK
  <2> QED
    BY <1>3, <2>1 DEF Register, Lock, Remember, TypeOK
<1>4. ASSUME NEW o \in Ids, NEW adverse \in BOOLEAN, NEW ok \in BOOLEAN,
             MonitorPut(o, adverse, ok) PROVE OrderOK'
  BY <1>4, PutCancels DEF MonitorPut, TypeOK
<1>5. CASE MonitorDrop
  BY <1>5 DEF MonitorDrop
<1>6. CASE MonitorDecide
  <2>1. memo' \subseteq memo
    BY <1>6, RequeueType DEF MonitorDecide, TypeOK
  <2> QED
    BY <1>6, <2>1 DEF MonitorDecide
<1>7. ASSUME NEW o \in Ids, WatchLook(o) PROVE OrderOK'
  BY <1>7 DEF WatchLook, TypeOK
<1>8. ASSUME NEW o \in Ids, NEW ok \in BOOLEAN, WatchPut(o, ok) PROVE OrderOK'
  BY <1>8, PutCancels DEF WatchPut, TypeOK
<1>9. ASSUME NEW o \in Ids, WatchEnd(o) PROVE OrderOK'
  <2>1. memo' \subseteq memo
    BY <1>9, RequeueType DEF WatchEnd
  <2> QED
    BY <1>9, <2>1 DEF WatchEnd, TypeOK
<1>10. ASSUME NEW o \in Ids, PendingMonitorDrop(o) \/ ForceCancel(o) \/ Fill(o) PROVE OrderOK'
  BY <1>10 DEF PendingMonitorDrop, ForceCancel, Fill, TypeOK
<1>11. CASE Close
  BY <1>11 DEF Close, TypeOK
<1>12. CASE Tick
  BY <1>12 DEF Tick, TypeOK
<1>13. ASSUME NEW s \in Sides, NEW summary \in Summary, NewCandidate(s, summary) PROVE OrderOK'
  BY <1>1, <1>13 DEF NewCandidate
<1>14. CASE Pipeline
  BY <1>1, <1>14 DEF Pipeline, Pick, Skip, SkipStale, Execute, Joined, JoinTimeout
<1>15. ASSUME NEW s \in Sides, Refuse(s) \/ EnterDup(s) \/ NoOrderSent(s) PROVE OrderOK'
  BY <1>1, <1>15 DEF Refuse, EnterDup, NoOrderSent
<1>16. CASE SyncPositions \/ UNCHANGED vars
  BY <1>1, <1>16 DEF SyncPositions
<1> QED
  BY <1>2, <1>3, <1>4, <1>5, <1>6, <1>7, <1>8, <1>9, <1>10, <1>11, <1>12, <1>13, <1>14, <1>15, <1>16
     DEF Next, Runner, Monitor, Watch

\* Where a thread goes that moves alone, without a tick and with no order sent.
LEMMA ThreadMoves ==
    ASSUME TypeOK, ThreadsOK, NEW s \in Sides, NEW r \in RunRecord,
           run' = [run EXCEPT ![s] = r],
           r.pc = "guards" => r.hang = 0,
           r.pc = "build" => r.hang = run[s].hang /\ run[s].pc = "guards",
           r.pc \in {"guards", "build", "sent", "registered", "locked"} => r.item.side = s,
           r.pc \in {"sent", "registered", "locked"} => broker'[r.o] # "none",
           \A o \in Ids : broker[o] # "none" => broker'[o] # "none",
           pipe' = pipe \/ pipe'.pc # "picked", lag' = lag
    PROVE  ThreadsOK'
BY DEF TypeOK, ThreadsOK, RunRecord

\* The bounds on the threads are kept, and whom they work for.
LEMMA ThreadsStep == TypeOK /\ OrderOK /\ ThreadsOK /\ [Next]_vars => ThreadsOK'
<1> SUFFICES ASSUME TypeOK, OrderOK, ThreadsOK, [Next]_vars PROVE ThreadsOK'
  OBVIOUS
<1> DEFINE Stays == \A o \in Ids : broker[o] # "none" => broker'[o] # "none"
<1>1. CASE Stays /\ run' = run /\ lag' = lag /\ (pipe' = pipe \/ pipe'.pc # "picked")
  BY <1>1 DEF TypeOK, ThreadsOK
<1>2. CASE Pick
  BY <1>2 DEF Pick, ThreadsOK
<1>3. CASE Skip \/ SkipStale \/ JoinTimeout
  BY <1>1, <1>3 DEF Skip, SkipStale, JoinTimeout, Idle
<1>4. CASE Execute
  <2>1. pipe.item \in Candidates /\ pipe.item.side \in Sides
    BY <1>4 DEF Execute, TypeOK, Candidates
  <2> DEFINE r == [NoRun EXCEPT !.pc = "guards", !.item = pipe.item]
  <2>2. r \in RunRecord /\ r.pc = "guards" /\ r.hang = 0 /\ r.item = pipe.item
    BY <2>1 DEF NoRun, RunRecord
  <2>3. run' = [run EXCEPT ![pipe.item.side] = r] /\ pipe'.pc # "picked"
    BY <1>4 DEF Execute, TypeOK
  <2>4. UNCHANGED <<broker, lag>>
    BY <1>4 DEF Execute
  <2> QED
    BY <2>1, <2>2, <2>3, <2>4, ThreadMoves
<1>5. CASE Joined
  <2>1. pipe.item.side \in Sides
    BY <1>5 DEF Joined, TypeOK, Candidates
  <2>2. NoRun \in RunRecord /\ NoRun.pc = "idle" /\ Idle.pc = "idle"
    BY DEF NoRun, RunRecord, Idle
  <2>3. run' = [run EXCEPT ![pipe.item.side] = NoRun] /\ pipe'.pc # "picked"
    BY <1>5, <2>2 DEF Joined
  <2>4. UNCHANGED <<broker, lag>>
    BY <1>5 DEF Joined
  <2> QED
    BY <2>1, <2>2, <2>3, <2>4, ThreadMoves
<1>6. ASSUME NEW s \in Sides, Refuse(s) \/ NoOrderSent(s) \/ Remember(s) PROVE ThreadsOK'
  <2>1. PICK res \in {"ok", "ng"} : Finish(s, res)
    BY <1>6 DEF Refuse, NoOrderSent, Remember
  <2>2. /\ run' = [run EXCEPT ![s] = run'[s]] /\ run'[s].pc \in {"idle", "ok", "ng"}
        /\ run'[s] \in RunRecord
    BY <2>1, FinishType, FinishKeepsType
  <2>3. UNCHANGED <<broker, lag, pipe>>
    BY <1>6 DEF Refuse, NoOrderSent, Remember
  <2> QED
    BY <2>2, <2>3, ThreadMoves
<1>7. ASSUME NEW s \in Sides, EnterDup(s) PROVE ThreadsOK'
  BY <1>7 DEF EnterDup, ThreadsOK, TypeOK
<1>8. ASSUME NEW s \in Sides, NEW o \in Ids, NEW mode \in Modes, NEW lost \in BOOLEAN,
             Send(s, o, mode, lost) PROVE ThreadsOK'
  <2>1. Stays /\ broker'[o] # "none" /\ pipe' = pipe /\ lag' = lag
    BY <1>8 DEF Send, TypeOK
  <2>2. CASE lost
    <3>1. /\ run' = [run EXCEPT ![s] = run'[s]] /\ run'[s].pc \in {"idle", "ok", "ng"}
          /\ run'[s] \in RunRecord
      BY <1>8, <2>2, FinishType, FinishKeepsType DEF Send
    <3> QED
      BY <2>1, <3>1, ThreadMoves
  <2>3. CASE ~lost
    <3> DEFINE r == [run[s] EXCEPT !.pc = "sent", !.o = o]
    <3>1. run[s] \in RunRecord /\ run[s].item.side = s
      BY <1>8 DEF Send, TypeOK, RunRecord, ThreadsOK
    <3>2. r \in RunRecord /\ r.pc = "sent" /\ r.o = o /\ r.item = run[s].item
      BY <3>1 DEF RunRecord
    <3>3. run' = [run EXCEPT ![s] = r]
      BY <1>8, <2>3 DEF Send
    <3> QED
      BY <2>1, <3>1, <3>2, <3>3, ThreadMoves
  <2> QED
    BY <2>2, <2>3
<1>9. ASSUME NEW s \in Sides, Register(s) \/ Lock(s) PROVE ThreadsOK'
  BY <1>9 DEF Register, Lock, ThreadsOK, TypeOK
<1>10. ASSUME NEW o \in Ids, NEW adverse \in BOOLEAN, NEW ok \in BOOLEAN,
              MonitorPut(o, adverse, ok) PROVE ThreadsOK'
  BY <1>1, <1>10, PutCancels DEF MonitorPut
<1>11. ASSUME NEW o \in Ids, NEW ok \in BOOLEAN, WatchPut(o, ok) PROVE ThreadsOK'
  BY <1>1, <1>11, PutCancels DEF WatchPut
<1>12. ASSUME NEW o \in Ids, WatchLook(o) \/ WatchEnd(o) \/ PendingMonitorDrop(o)
       PROVE  ThreadsOK'
  BY <1>1, <1>12 DEF WatchLook, WatchEnd, PendingMonitorDrop
<1>13. ASSUME NEW o \in Ids, ForceCancel(o) \/ Fill(o) PROVE ThreadsOK'
  BY <1>1, <1>13 DEF ForceCancel, Fill, TypeOK
<1>14. CASE Close
  BY <1>1, <1>14 DEF Close, TypeOK
<1>15. CASE SyncPositions
  BY <1>15 DEF SyncPositions, ThreadsOK
<1>16. CASE Tick
  <2>1. \A s \in Sides :
          /\ run'[s].pc = run[s].pc /\ run'[s].item = run[s].item /\ run'[s].o = run[s].o
          /\ run[s].pc \in {"guards", "build"} => run'[s].hang <= MaxHang
    <3>1. \A s \in Sides :
            /\ [run[s] EXCEPT !.hang = @ + 1].pc = run[s].pc
            /\ [run[s] EXCEPT !.hang = @ + 1].item = run[s].item
            /\ [run[s] EXCEPT !.hang = @ + 1].o = run[s].o
            /\ [run[s] EXCEPT !.hang = @ + 1].hang = run[s].hang + 1
      BY DEF TypeOK
    <3> QED
      BY <1>16, <3>1 DEF Tick, TypeOK
  <2>2. pipe'.pc = "picked" => pipe'.wait <= PipeDelay
    BY <1>16 DEF Tick, TypeOK, ThreadsOK
  <2>3. lag' <= PosLag /\ UNCHANGED broker
    BY <1>16 DEF Tick, TypeOK, ThreadsOK
  <2> QED
    BY <2>1, <2>2, <2>3 DEF ThreadsOK
<1>17. ASSUME NEW s \in Sides, NEW summary \in Summary, NewCandidate(s, summary) PROVE ThreadsOK'
  BY <1>1, <1>17 DEF NewCandidate
<1>18. CASE MonitorDrop \/ MonitorDecide \/ UNCHANGED vars
  BY <1>1, <1>18 DEF MonitorDrop, MonitorDecide
<1> QED
  BY <1>2, <1>3, <1>4, <1>5, <1>6, <1>7, <1>8, <1>9, <1>10, <1>11, <1>12, <1>13, <1>14, <1>15,
     <1>16, <1>17, <1>18
     DEF Next, Pipeline, Runner, Monitor, Watch

----------------------------------------------------------------------------
(* The cooldown *)

Cooled == CooldownOK /\ BlockedOK /\ OneEntryPerSide

\* An order that lives was sent for a side.
LEMMA SideOfType ==
    ASSUME TypeOK, OrderOK, NEW o \in Ids, broker[o] # "none"
    PROVE  SideOf(o) \in Sides
BY DEF TypeOK, OrderOK, SideOf, Candidates

\* Nothing is lost when orders leave the market, threads leave the part of
\* their way that leads to an order, or the pipeline gives a candidate up.
LEMMA CooledShrinks ==
    ASSUME TypeOK, OrderOK, Cooled,
           \A o \in Ids : broker'[o] = broker[o] \/ ~Alive(o)',
           \A s \in Sides : run'[s] = run[s] \/ run'[s].pc \notin {"guards", "build"},
           pipe' = pipe \/ pipe'.pc # "picked",
           UNCHANGED <<order, age, openPos, lag, dup>>
    PROVE  Cooled'
<1>1. CooldownOK'
  BY DEF Cooled, CooldownOK, Alive, SideOf
<1>2. BlockedOK'
  BY SideOfType DEF Cooled, BlockedOK, Alive, SideOf
<1>3. OneEntryPerSide'
  BY DEF Cooled, OneEntryPerSide, Alive
<1> QED
  BY <1>1, <1>2, <1>3 DEF Cooled

\* What the cooldown has left when the symbol shows no position.
LEMMA LeftOver ==
    ASSUME DupCovers, TypeOK, OrderOK, ThreadsOK, CooldownOK, ~openPos,
           NEW o \in Ids, Alive(o)
    PROVE  dup[SideOf(o)] > PipeDelay + MaxHang
<1>1. dup[SideOf(o)] \in Nat
  BY SideOfType DEF TypeOK, Alive
<1>2. age[o] \in Nat /\ lag \in Nat
  BY DEF TypeOK
<1> QED
  BY <1>1, <1>2 DEF DupCovers, ThreadsOK, CooldownOK, Alive

\* No step leads a side with an order that lives past the cooldown.
LEMMA CooledStep ==
    ASSUME DupCovers, TypeOK, OrderOK, ThreadsOK, TypeOK', Cooled, [Next]_vars
    PROVE  Cooled'
<1>1. CASE UNCHANGED <<broker, order, age, openPos, lag, dup, pipe, run>>
  BY <1>1, CooledShrinks
<1>2. CASE Pick
  <2>1. ASSUME NEW o \in Ids, Alive(o) PROVE dup[SideOf(o)] > PipeDelay + MaxHang
    BY <1>2, <2>1, LeftOver DEF Pick, CanEntry, Cooled
  <2>2. BlockedOK'
    BY <1>2, <2>1 DEF Pick, Cooled, BlockedOK, Alive, SideOf
  <2> QED
    BY <1>2, <2>2 DEF Pick, Cooled, CooldownOK, OneEntryPerSide, Alive, SideOf
<1>3. CASE Skip \/ SkipStale \/ JoinTimeout
  BY <1>3, CooledShrinks DEF Skip, SkipStale, JoinTimeout, Idle
<1>4. CASE Execute
  <2> DEFINE r == [NoRun EXCEPT !.pc = "guards", !.item = pipe.item]
  <2>1. pipe.item.side \in Sides /\ r.pc = "guards" /\ r.hang = 0
    BY <1>4 DEF Execute, TypeOK, Candidates, NoRun
  <2>2. /\ run' = [run EXCEPT ![pipe.item.side] = r] /\ pipe'.pc # "picked"
        /\ pipe.pc = "picked" /\ UNCHANGED <<broker, order, age, openPos, lag, dup>>
    BY <1>4 DEF Execute, TypeOK
  <2>3. CooldownOK'
    BY <2>1, <2>2 DEF Cooled, CooldownOK, SideOf, TypeOK
  <2>4. ASSUME NEW o \in Ids, Alive(o) PROVE
          LET s == SideOf(o) IN
          run'[s].pc # "build" /\ (run'[s].pc = "guards" => dup[s] + run'[s].hang > MaxHang)
    <3>1. SideOf(o) \in Sides
      BY <2>4, SideOfType DEF Alive
    <3>2. CASE SideOf(o) = pipe.item.side
      <4>1. dup[SideOf(o)] > pipe.wait + MaxHang
        BY <2>2, <2>4, <3>2 DEF Cooled, BlockedOK
      <4> QED
        BY <2>1, <2>2, <3>1, <3>2, <4>1 DEF TypeOK
    <3>3. CASE SideOf(o) # pipe.item.side
      BY <2>2, <2>4, <3>1, <3>3 DEF Cooled, BlockedOK, TypeOK
    <3> QED
      BY <3>2, <3>3
  <2>5. BlockedOK'
    BY <2>2, <2>4 DEF BlockedOK, Alive, SideOf
  <2> QED
    BY <2>2, <2>3, <2>5 DEF Cooled, OneEntryPerSide, Alive
<1>5. CASE Joined
  <2>1. pipe.item.side \in Sides /\ NoRun.pc = "idle" /\ Idle.pc = "idle"
    BY <1>5 DEF Joined, TypeOK, Candidates, NoRun, Idle
  <2> QED
    BY <1>5, <2>1, CooledShrinks DEF Joined, TypeOK
<1>6. ASSUME NEW s \in Sides, Refuse(s) \/ NoOrderSent(s) \/ Remember(s) PROVE Cooled'
  <2>1. PICK res \in {"ok", "ng"} : Finish(s, res)
    BY <1>6 DEF Refuse, NoOrderSent, Remember
  <2>2. run' = [run EXCEPT ![s] = run'[s]] /\ run'[s].pc \in {"idle", "ok", "ng"}
    BY <2>1, FinishType
  <2>3. \A t \in Sides : run'[t] = run[t] \/ run'[t].pc \notin {"guards", "build"}
    BY <2>2 DEF TypeOK
  <2> QED
    BY <1>6, <2>3, CooledShrinks DEF Refuse, NoOrderSent, Remember
<1>7. ASSUME NEW s \in Sides, EnterDup(s) PROVE Cooled'
  <2>1. \A o \in Ids : Alive(o) => SideOf(o) # s
    BY <1>7 DEF EnterDup, Cooled, BlockedOK, ThreadsOK, TypeOK
  <2>2. /\ dup' = [dup EXCEPT ![s] = DupWait] /\ run' = [run EXCEPT ![s].pc = "build"]
        /\ UNCHANGED <<broker, order, age, openPos, lag, pipe>>
    BY <1>7 DEF EnterDup
  <2>3. BlockedOK'
    BY <2>1, <2>2 DEF Cooled, BlockedOK, Alive, SideOf, TypeOK
  <2>4. CooldownOK'
    BY <2>1, <2>2 DEF Cooled, CooldownOK, Alive, SideOf, TypeOK
  <2> QED
    BY <2>2, <2>3, <2>4 DEF Cooled, OneEntryPerSide, Alive
<1>8. ASSUME NEW s \in Sides, NEW o \in Ids, NEW mode \in Modes, NEW lost \in BOOLEAN,
             Send(s, o, mode, lost) PROVE Cooled'
  <2>1. /\ run[s].pc = "build" /\ run[s].item.side = s /\ run[s].hang <= MaxHang
        /\ run[s].hang \in Nat /\ dup[s] \in Nat /\ dup[s] + run[s].hang >= DupWait
    BY <1>8 DEF Send, ThreadsOK, Cooled, CooldownOK, TypeOK
  <2>2. \A p \in Ids : Alive(p) => SideOf(p) # s
    BY <2>1 DEF Cooled, BlockedOK
  <2>3. /\ broker[o] = "none" /\ broker' = [broker EXCEPT ![o] = "live"]
        /\ \A p \in Ids : p # o => order'[p] = order[p]
        /\ order'[o].cand = run[s].item /\ age[o] = 0
        /\ UNCHANGED <<age, openPos, lag, dup, pipe>>
    BY <1>8 DEF Send, TypeOK, OrderOK
  <2>4. \A t \in Sides : t # s => run'[t] = run[t]
    BY <1>8 DEF Send, Finish, TypeOK
  <2>5. run'[s].pc \notin {"guards", "build"}
    <3>1. CASE lost
      BY <1>8, <3>1, FinishType DEF Send
    <3>2. CASE ~lost
      <4> DEFINE r == [run[s] EXCEPT !.pc = "sent", !.o = o]
      <4>1. r.pc = "sent"
        BY DEF TypeOK
      <4>2. run' = [run EXCEPT ![s] = r]
        BY <1>8, <3>2 DEF Send
      <4> QED
        BY <4>1, <4>2 DEF TypeOK
    <3> QED
      BY <3>1, <3>2
  <2>6. \A p \in Ids : Alive(p)' <=> Alive(p) \/ p = o
    BY <2>3 DEF Alive, TypeOK
  <2>7. CooldownOK'
    <3>1. \A t \in Sides : run'[t].pc = "build" => dup'[t] + run'[t].hang >= DupWait
      BY <2>3, <2>4, <2>5 DEF Cooled, CooldownOK
    <3>2. ASSUME NEW p \in Ids PROVE
            /\ broker'[p] = "live" =>
                  age'[p] <= ForceEvery /\ dup'[SideOf(p)'] + MaxHang + age'[p] >= DupWait
            /\ broker'[p] = "filled" /\ ~openPos' =>
                  dup'[SideOf(p)'] + MaxHang + ForceEvery + lag' >= DupWait
      <4>1. CASE p = o
        BY <2>1, <2>3, <4>1 DEF SideOf, TypeOK
      <4>2. CASE p # o
        BY <2>3, <4>2 DEF SideOf, TypeOK, Cooled, CooldownOK
      <4> QED
        BY <4>1, <4>2
    <3> QED
      BY <3>1, <3>2 DEF CooldownOK
  <2>8. BlockedOK'
    <3>1. ASSUME NEW p \in Ids, Alive(p)' PROVE
            LET t == SideOf(p)' IN
            /\ run'[t].pc # "build"
            /\ run'[t].pc = "guards" => dup'[t] + run'[t].hang > MaxHang
            /\ pipe'.pc = "picked" /\ pipe'.item.side = t => dup'[t] > pipe'.wait + MaxHang
      <4>1. CASE p = o
        <5>1. SideOf(p)' = s
          BY <2>1, <2>3, <4>1 DEF SideOf
        <5>2. pipe.pc = "picked" => dup[s] > pipe.wait + MaxHang
          BY <2>1 DEF DupCovers, ThreadsOK, TypeOK
        <5> QED
          BY <2>3, <2>5, <5>1, <5>2
      <4>2. CASE p # o
        <5>1. Alive(p) /\ SideOf(p)' = SideOf(p)
          BY <2>3, <2>6, <3>1, <4>2 DEF SideOf
        <5>2. SideOf(p) \in Sides /\ SideOf(p) # s
          BY <2>2, <5>1, SideOfType DEF Alive
        <5> QED
          BY <2>3, <2>4, <5>1, <5>2 DEF Cooled, BlockedOK
      <4> QED
        BY <4>1, <4>2
    <3> QED
      BY <3>1 DEF BlockedOK
  <2>9. OneEntryPerSide'
    <3>1. ASSUME NEW p \in Ids, Alive(p), p # o PROVE order'[p].cand.side # order'[o].cand.side
      BY <2>1, <2>2, <2>3, <3>1 DEF SideOf
    <3> QED
      BY <2>3, <2>6, <3>1 DEF Cooled, OneEntryPerSide
  <2> QED
    BY <2>7, <2>8, <2>9 DEF Cooled
<1>9. ASSUME NEW s \in Sides, Register(s) \/ Lock(s) PROVE Cooled'
  <2>1. \A t \in Sides : run'[t] = run[t] \/ run'[t].pc \notin {"guards", "build"}
    BY <1>9 DEF Register, Lock, TypeOK
  <2> QED
    BY <1>9, <2>1, CooledShrinks DEF Register, Lock
<1>10. ASSUME NEW o \in Ids, NEW adverse \in BOOLEAN, NEW ok \in BOOLEAN,
              MonitorPut(o, adverse, ok) PROVE Cooled'
  BY <1>10, PutCancels, CooledShrinks DEF MonitorPut, Alive
<1>11. ASSUME NEW o \in Ids, NEW ok \in BOOLEAN, WatchPut(o, ok) PROVE Cooled'
  BY <1>11, PutCancels, CooledShrinks DEF WatchPut, Alive
<1>12. ASSUME NEW o \in Ids, ForceCancel(o) PROVE Cooled'
  BY <1>12, CooledShrinks DEF ForceCancel, Alive, TypeOK
<1>13. CASE Close
  BY <1>13, CooledShrinks DEF Close, Alive, TypeOK
<1>14. ASSUME NEW o \in Ids, Fill(o) PROVE Cooled'
  <2>1. /\ broker[o] = "live" /\ broker' = [broker EXCEPT ![o] = "filled"]
        /\ UNCHANGED <<order, age, openPos, lag, dup, pipe, run>>
    BY <1>14 DEF Fill
  <2>2. \A p \in Ids : Alive(p)' <=> Alive(p)
    BY <2>1 DEF Alive, TypeOK
  <2>3. BlockedOK' /\ OneEntryPerSide'
    BY <2>1, <2>2 DEF Cooled, BlockedOK, OneEntryPerSide, SideOf
  <2>4. dup[SideOf(o)] + MaxHang + ForceEvery + lag >= DupWait
    <3>1. dup[SideOf(o)] \in Nat /\ age[o] \in Nat /\ lag \in Nat
      BY <2>1, SideOfType DEF TypeOK
    <3> QED
      BY <2>1, <3>1 DEF Cooled, CooldownOK
  <2>5. CooldownOK'
    BY <2>1, <2>4 DEF Cooled, CooldownOK, SideOf, TypeOK
  <2> QED
    BY <2>3, <2>5 DEF Cooled
<1>15. CASE SyncPositions
  <2>1. /\ openPos' # openPos
        /\ openPos' = \E o \in Ids : broker[o] = "filled"
        /\ UNCHANGED <<broker, order, age, dup, pipe, run>>
    BY <1>15 DEF SyncPositions
  <2>2. ~openPos' => \A o \in Ids : broker[o] # "filled"
    BY <2>1
  <2>3. CooldownOK'
    BY <2>1, <2>2 DEF Cooled, CooldownOK, SideOf
  <2> QED
    BY <2>1, <2>3 DEF Cooled, BlockedOK, OneEntryPerSide, Alive, SideOf
<1>16. CASE Tick
  <2>1. /\ UNCHANGED <<broker, order, openPos>>
        /\ \A s \in Sides : /\ dup[s] \in Nat /\ dup'[s] \in Nat
                             /\ dup'[s] + 1 >= dup[s] /\ (dup[s] > 0 => dup'[s] + 1 = dup[s])
    BY <1>16 DEF Tick, TypeOK
  <2>2. ASSUME NEW s \in Sides PROVE
          /\ run'[s].pc = run[s].pc
          /\ run[s].pc # "idle" => run'[s].hang = run[s].hang + 1
    <3>1. [run[s] EXCEPT !.hang = @ + 1].pc = run[s].pc
          /\ [run[s] EXCEPT !.hang = @ + 1].hang = run[s].hang + 1
      BY DEF TypeOK
    <3> QED
      BY <1>16, <3>1 DEF Tick
  <2>3. /\ pipe'.pc = pipe.pc /\ pipe'.item = pipe.item
        /\ pipe.pc = "picked" => pipe.wait > 0 /\ pipe'.wait = pipe.wait - 1
    BY <1>16 DEF Tick, TypeOK
  <2>4. \A o \in Ids : /\ age[o] \in Nat
                       /\ broker[o] = "live" => age[o] < ForceEvery /\ age'[o] = age[o] + 1
                       /\ broker[o] = "filled" /\ ~openPos => lag' = lag + 1
    BY <1>16 DEF Tick, TypeOK, Unseen
  <2>5. \A o \in Ids : Alive(o)' <=> Alive(o)
    BY <2>1 DEF Alive
  <2>6. CooldownOK'
    <3>1. ASSUME NEW s \in Sides, run'[s].pc = "build" PROVE dup'[s] + run'[s].hang >= DupWait
      BY <2>1, <2>2, <3>1 DEF Cooled, CooldownOK, TypeOK
    <3>2. ASSUME NEW o \in Ids, broker'[o] = "live" PROVE
            age'[o] <= ForceEvery /\ dup'[SideOf(o)'] + MaxHang + age'[o] >= DupWait
      <4>1. SideOf(o) \in Sides /\ SideOf(o)' = SideOf(o) /\ broker[o] = "live"
        BY <2>1, <3>2, SideOfType DEF SideOf
      <4>2. dup[SideOf(o)] + MaxHang + age[o] >= DupWait
        BY <4>1 DEF Cooled, CooldownOK
      <4> QED
        BY <2>1, <2>4, <4>1, <4>2
    <3>3. ASSUME NEW o \in Ids, broker'[o] = "filled", ~openPos' PROVE
            dup'[SideOf(o)'] + MaxHang + ForceEvery + lag' >= DupWait
      <4>1. SideOf(o) \in Sides /\ SideOf(o)' = SideOf(o) /\ broker[o] = "filled" /\ lag \in Nat
        BY <2>1, <3>3, SideOfType DEF SideOf, TypeOK
      <4>2. dup[SideOf(o)] + MaxHang + ForceEvery + lag >= DupWait
        BY <2>1, <3>3, <4>1 DEF Cooled, CooldownOK
      <4>3. lag' = lag + 1
        BY <2>1, <2>4, <3>3, <4>1
      <4>4. /\ dup[SideOf(o)] \in Nat /\ dup'[SideOf(o)] \in Nat
            /\ dup'[SideOf(o)] + 1 >= dup[SideOf(o)]
        BY <2>1, <4>1
      <4> QED
        BY <4>1, <4>2, <4>3, <4>4
    <3> QED
      BY <3>1, <3>2, <3>3 DEF CooldownOK
  <2>7. BlockedOK'
    <3>1. ASSUME NEW o \in Ids, Alive(o)' PROVE
            LET s == SideOf(o)' IN
            /\ run'[s].pc # "build"
            /\ run'[s].pc = "guards" => dup'[s] + run'[s].hang > MaxHang
            /\ pipe'.pc = "picked" /\ pipe'.item.side = s => dup'[s] > pipe'.wait + MaxHang
      <4> DEFINE s == SideOf(o)
      <4>1. s \in Sides /\ SideOf(o)' = s /\ Alive(o)
        BY <2>1, <2>5, <3>1, SideOfType DEF SideOf, Alive
      <4>2. /\ run[s].pc # "build"
            /\ run[s].pc = "guards" => dup[s] + run[s].hang > MaxHang /\ run[s].hang <= MaxHang
            /\ pipe.pc = "picked" /\ pipe.item.side = s => dup[s] > pipe.wait + MaxHang
        BY <4>1 DEF Cooled, BlockedOK, ThreadsOK
      <4>3. run[s].hang \in Nat /\ pipe.wait \in Nat
        BY <4>1 DEF TypeOK
      <4> HIDE DEF s
      <4>4. run[s].pc = "guards" => dup'[s] + run'[s].hang > MaxHang
        BY <2>1, <2>2, <4>1, <4>2, <4>3
      <4>5. pipe.pc = "picked" /\ pipe.item.side = s => dup'[s] > pipe'.wait + MaxHang
        BY <2>1, <2>3, <4>1, <4>2, <4>3
      <4> QED
        BY <2>2, <2>3, <4>1, <4>2, <4>4, <4>5
    <3> QED
      BY <3>1 DEF BlockedOK
  <2> QED
    BY <2>1, <2>5, <2>6, <2>7 DEF Cooled, OneEntryPerSide
<1>17. ASSUME NEW s \in Sides, NEW summary \in Summary, NewCandidate(s, summary) PROVE Cooled'
  BY <1>1, <1>17 DEF NewCandidate
<1>18. ASSUME NEW o \in Ids, WatchLook(o) \/ WatchEnd(o) \/ PendingMonitorDrop(o) PROVE Cooled'
  BY <1>1, <1>18 DEF WatchLook, WatchEnd, PendingMonitorDrop
<1>19. CASE MonitorDrop \/ MonitorDecide \/ UNCHANGED vars
  BY <1>1, <1>19 DEF MonitorDrop, MonitorDecide
<1> QED
  BY <1>2, <1>3, <1>4, <1>5, <1>6, <1>7, <1>8, <1>9, <1>10, <1>11, <1>12, <1>13, <1>14, <1>15,
     <1>16, <1>17, <1>18, <1>19
     DEF Next, Pipeline, Runner, Monitor, Watch

----------------------------------------------------------------------------
(* The theorems *)

\* Every behaviour of the entry orders keeps the types, whatever the sides,
\* the modes and the times.
THEOREM TypeCorrect == Spec => []TypeOK
<1>1. Init => TypeOK /\ OrderOK /\ ThreadsOK
  BY TypeInit, RestInit
<1>2. TypeOK /\ OrderOK /\ ThreadsOK /\ [Next]_vars => (TypeOK /\ OrderOK /\ ThreadsOK)'
  BY TypeStep, OrderStep, ThreadsStep
<1> QED
  BY <1>1, <1>2, PTL DEF Spec

\* A side never has two entries of the symbol at once, working or held: the
\* duplicate cooldown that _execute_best_candidate writes before it sends
\* outlasts every way to a second order, when DupCovers holds.
THEOREM OneEntryPerSideCorrect == ASSUME DupCovers PROVE Spec => []OneEntryPerSide
<1>1. Init => IInv
  BY TypeInit, RestInit DEF IInv
<1>2. IInv /\ [Next]_vars => IInv'
  BY TypeStep, OrderStep, ThreadsStep, CooledStep DEF IInv, Cooled
<1>3. IInv => OneEntryPerSide
  BY DEF IInv
<1> QED
  BY <1>1, <1>2, <1>3, PTL DEF Spec
=============================================================================
