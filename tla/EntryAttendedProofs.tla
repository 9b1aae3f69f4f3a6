-------------------------- MODULE EntryAttendedProofs --------------------------
(***************************************************************************)
(* PlainAttended, for candidates of one side, a broker that answers, any   *)
(* number of orders and all times that satisfy DupCovers and WaitsCover.   *)
(*                                                                         *)
(* An order loses its watch thread when the lock of the symbol is freed    *)
(* under it: by the cancel of an older order, by its watch thread, or by a *)
(* position that appears.  The invariant says that nobody is busy with     *)
(* another order while one waits (LiveOK).  It follows from the cooldown:  *)
(* an execute thread passes it only after everyone has left the order      *)
(* before (BusyOK, AloneOK) and no position shows (SeenOK).                *)
(***************************************************************************)
EXTENDS EntryOrdersProofs

USE DEF vars, world, guards, pipeline, watchers, retry
USE OrdersAssumption, SidesAssumption, TimesAssumption, NoneAssumption

----------------------------------------------------------------------------
(* Steps that only give something up *)

\* How run may change without anyone starting to send.
Onward == \A s \in Sides :
             Sending(s)' => Sending(s) /\ run'[s].o = run[s].o

\* Nobody gets busy who was not, and no time goes by.
LEMMA BusyShrinks ==
    ASSUME BusyOK, Onward, UNCHANGED <<age, dup>>,
           watched' \subseteq watched,
           \A o \in Ids : MonitorAt(o)' => MonitorAt(o) \/ o \in watched,
           \A o \in Ids : timer'[o] # "off" => timer[o] # "off"
    PROVE  BusyOK'
<1>1. \A o \in Ids : Busy(o)' => Busy(o)
  BY DEF Busy
<1> QED
  BY <1>1 DEF BusyOK, Onward

\* The same of the threads past the cooldown.
LEMMA AloneShrinks ==
    ASSUME AloneOK,
           \A s \in Sides : run'[s].pc = "build" => run[s].pc = "build",
           watched' \subseteq watched,
           \A o \in Ids : MonitorAt(o)' => MonitorAt(o) \/ o \in watched,
           \A o \in Ids : timer'[o] # "off" => timer[o] # "off"
    PROVE  AloneOK'
BY DEF AloneOK, Busy

\* Threads that leave the way to an order do not disturb SeenOK.
LEMMA SeenShrinks ==
    ASSUME SeenOK, openPos' => openPos, UNCHANGED dup,
           \A s \in Sides : run'[s] = run[s] \/ run'[s].pc \notin {"guards", "build"},
           pipe' = pipe \/ pipe'.pc # "picked"
    PROVE  SeenOK'
BY DEF SeenOK

\* Nothing that an order which waits relies on is touched.
LEMMA LiveShrinks ==
    ASSUME LiveOK, Onward,
           \A o \in Ids : broker'[o] = "live" => broker[o] = "live",
           UNCHANGED <<openPos, monitor, timer, inflight>>,
           watched' \subseteq watched,
           \A s \in Sides : Sending(s) => Sending(s)'
    PROVE  LiveOK'
BY DEF LiveOK, Onward

\* Where no order waits, nothing is to be shown.
LEMMA NobodyWaits ==
    ASSUME \A o \in Ids : broker'[o] # "live"
    PROVE  LiveOK'
BY DEF LiveOK

\* A PUT that is answered takes its order from the market.
LEMMA PutTakes ==
    ASSUME TypeOK, "put" \notin Failures, NEW o \in Ids, NEW ok \in BOOLEAN, Put(o, ok)
    PROVE  /\ broker'[o] # "live"
           /\ \A p \in Ids : broker'[p] = "live" => broker[p] = "live"
BY DEF TypeOK, Put

Rest == BusyOK /\ SeenOK /\ AloneOK /\ LiveOK

\* Nothing has been sent at the start.
LEMMA AttendedInit == Init => Rest
<1> SUFFICES ASSUME Init PROVE Rest
  OBVIOUS
<1>1. /\ \A o \in Ids : broker[o] = "none" /\ timer[o] = "off"
      /\ watched = {} /\ monitor = None /\ openPos = FALSE
  BY DEF Init
<1>2. \A s \in Sides : run[s].pc = "idle"
  BY DEF Init, NoRun
<1> QED
  BY <1>1, <1>2 DEF Rest, BusyOK, SeenOK, AloneOK, LiveOK, Busy, MonitorAt, Sending

----------------------------------------------------------------------------
(* Steps that leave Rest alone *)

Attended == AllPlain /\ TypeOK /\ OrderOK /\ ThreadsOK /\ Cooled /\ Rest

\* Steps of the pipeline and of an execute thread that is not sending.
LEMMA QuietStep ==
    ASSUME Attended, UNCHANGED <<broker, age, openPos, inflight, dup, watchers>>,
           \A s \in Sides : run'[s] = run[s] \/ run'[s].pc \notin {"guards", "build"},
           \A s \in Sides : Sending(s)' <=> Sending(s),
           \A s \in Sides : Sending(s) => run'[s].o = run[s].o,
           pipe' = pipe \/ pipe'.pc # "picked"
    PROVE  Rest'
<1>1. Onward /\ \A o \in Ids : MonitorAt(o)' => MonitorAt(o)
  BY DEF Onward, MonitorAt
<1>2. BusyOK'
  BY <1>1, BusyShrinks DEF Attended, Rest
<1>3. AloneOK'
  BY <1>1, AloneShrinks DEF Attended, Rest
<1>4. SeenOK'
  BY SeenShrinks DEF Attended, Rest
<1>5. LiveOK'
  BY <1>1, LiveShrinks DEF Attended, Rest
<1> QED
  BY <1>2, <1>3, <1>4, <1>5 DEF Rest

\* Orders leave the market, or the table pending_orders.
LEMMA MarketStep ==
    ASSUME Attended, UNCHANGED <<age, openPos, inflight, dup, monitor, timer, pipe, run>>,
           watched' \subseteq watched,
           \A o \in Ids : broker'[o] = "live" => broker[o] = "live"
    PROVE  Rest'
<1>1. Onward /\ (\A s \in Sides : Sending(s)' <=> Sending(s))
             /\ \A o \in Ids : MonitorAt(o)' => MonitorAt(o)
  BY DEF Onward, MonitorAt, Sending
<1>2. BusyOK'
  BY <1>1, BusyShrinks DEF Attended, Rest
<1>3. AloneOK'
  BY <1>1, AloneShrinks DEF Attended, Rest
<1>4. SeenOK'
  BY SeenShrinks DEF Attended, Rest
<1>5. LiveOK'
  BY <1>1, LiveShrinks DEF Attended, Rest
<1> QED
  BY <1>2, <1>3, <1>4, <1>5 DEF Rest

\* Somebody who is busy with an order moves, and no order waits after it.
LEMMA LastStep ==
    ASSUME Attended, UNCHANGED <<age, openPos, dup, pipe, run>>,
           watched' \subseteq watched,
           \A o \in Ids : MonitorAt(o)' => MonitorAt(o) \/ o \in watched,
           \A o \in Ids : timer'[o] # "off" => timer[o] # "off",
           \A o \in Ids : broker'[o] # "live"
    PROVE  Rest'
<1>1. Onward
  BY DEF Onward, Sending
<1>2. BusyOK'
  BY <1>1, BusyShrinks DEF Attended, Rest
<1>3. AloneOK'
  BY <1>1, AloneShrinks DEF Attended, Rest
<1>4. SeenOK'
  BY SeenShrinks DEF Attended, Rest
<1>5. LiveOK'
  BY NobodyWaits
<1> QED
  BY <1>2, <1>3, <1>4, <1>5 DEF Rest

----------------------------------------------------------------------------
(* The pipeline and the execute thread *)

\* The pipeline picks nothing while a position shows.
LEMMA PipelineStep ==
    ASSUME OneSide, DupCovers, Attended, TypeOK', Pipeline
    PROVE  Rest'
<1>1. CASE Pick
  <2>1. /\ ~openPos /\ UNCHANGED <<broker, age, openPos, inflight, dup, watchers, run>>
    BY <1>1 DEF Pick, CanEntry
  <2>2. SeenOK'
    BY <2>1 DEF SeenOK
  <2>3. Onward /\ (\A s \in Sides : Sending(s)' <=> Sending(s))
               /\ \A o \in Ids : MonitorAt(o)' => MonitorAt(o)
    BY <2>1 DEF Onward, MonitorAt, Sending
  <2>4. BusyOK'
    BY <2>1, <2>3, BusyShrinks DEF Attended, Rest
  <2>5. AloneOK'
    BY <2>1, <2>3, AloneShrinks DEF Attended, Rest
  <2>6. LiveOK'
    BY <2>1, <2>3, LiveShrinks DEF Attended, Rest
  <2> QED
    BY <2>2, <2>4, <2>5, <2>6 DEF Rest
<1>2. CASE Skip \/ SkipStale \/ JoinTimeout
  <2>1. /\ UNCHANGED <<broker, age, openPos, inflight, dup, watchers, run>>
        /\ pipe'.pc # "picked"
    BY <1>2 DEF Skip, SkipStale, JoinTimeout, Idle
  <2> QED
    BY <2>1, QuietStep DEF Sending
<1>3. CASE Execute
  <2> DEFINE r == [NoRun EXCEPT !.pc = "guards", !.item = pipe.item]
  <2>1. pipe.item.side \in Sides /\ r.pc = "guards" /\ r.hang = 0
    BY <1>3 DEF Execute, Attended, TypeOK, Candidates, NoRun
  <2>2. /\ run[pipe.item.side].pc = "idle" /\ run' = [run EXCEPT ![pipe.item.side] = r]
        /\ pipe'.pc # "picked" /\ pipe.pc = "picked"
        /\ UNCHANGED <<broker, age, openPos, inflight, dup, watchers>>
    BY <1>3 DEF Execute, Attended, TypeOK
  <2>3. \A s \in Sides : s = pipe.item.side /\ run'[s] = r
    BY <2>1, <2>2 DEF OneSide, Attended, TypeOK
  <2>4. \A s \in Sides : ~Sending(s) /\ ~Sending(s)'
    BY <2>1, <2>2, <2>3 DEF Sending
  <2>5. Onward /\ \A o \in Ids : MonitorAt(o)' => MonitorAt(o)
    BY <2>2, <2>4 DEF Onward, MonitorAt
  <2>6. BusyOK'
    BY <2>2, <2>5, BusyShrinks DEF Attended, Rest
  <2>7. AloneOK'
    BY <2>1, <2>2, <2>3, <2>5, AloneShrinks DEF Attended, Rest
  <2>8. SeenOK'
    <3>1. openPos => \A s \in Sides : dup[s] > MaxHang
      BY <2>2 DEF SeenOK, Attended, Rest, TypeOK
    <3> QED
      BY <2>1, <2>2, <2>3, <3>1 DEF SeenOK, Attended, TypeOK
  <2>9. LiveOK'
    BY <2>2, <2>4, <2>5, LiveShrinks DEF Attended, Rest
  <2> QED
    BY <2>6, <2>7, <2>8, <2>9 DEF Rest
<1>4. CASE Joined
  <2>1. pipe.item.side \in Sides /\ NoRun.pc = "idle" /\ Idle.pc = "idle"
    BY <1>4 DEF Joined, Attended, TypeOK, Candidates, NoRun, Idle
  <2>2. /\ run[pipe.item.side].pc \in {"ok", "ng"} /\ run' = [run EXCEPT ![pipe.item.side] = NoRun]
        /\ pipe'.pc # "picked"
        /\ UNCHANGED <<broker, age, openPos, inflight, dup, watchers>>
    BY <1>4, <2>1 DEF Joined
  <2>3. \A s \in Sides : run'[s] = run[s] \/ (run'[s].pc = "idle" /\ run[s].pc \in {"ok", "ng"})
    BY <2>1, <2>2 DEF Attended, TypeOK
  <2> QED
    BY <2>2, <2>3, QuietStep DEF Sending
<1> QED
  BY <1>1, <1>2, <1>3, <1>4 DEF Pipeline

\* A thread meets the cooldown when everyone has left the order before.
LEMMA NobodyBusy ==
    ASSUME WaitsCover, Attended, NEW s \in Sides, dup[s] = 0
    PROVE  \A o \in Ids : ~Busy(o)
<1> SUFFICES ASSUME NEW o \in Ids, Busy(o) PROVE FALSE
  OBVIOUS
<1>1. PICK w \in {CancelAfter, WatchAfter} : age[o] <= w + Late
  BY DEF Attended, Rest, BusyOK, Busy
<1>2. MaxHang + age[o] >= DupWait /\ age[o] \in Nat
  BY DEF Attended, Rest, BusyOK, TypeOK
<1> QED
  BY <1>1, <1>2 DEF WaitsCover

\* So it is alone with what it will send.
LEMMA EnterDupStep ==
    ASSUME OneSide, WaitsCover, Attended, NEW s \in Sides, EnterDup(s)
    PROVE  Rest'
<1>1. /\ run[s].pc = "guards" /\ dup[s] = 0 /\ dup' = [dup EXCEPT ![s] = DupWait]
      /\ run' = [run EXCEPT ![s].pc = "build"]
      /\ UNCHANGED <<broker, age, openPos, inflight, watchers, pipe>>
  BY DEF EnterDup
<1>2. \A t \in Sides : t = s /\ dup'[t] = DupWait /\ run'[t].pc = "build"
  BY <1>1 DEF OneSide, Attended, TypeOK
<1>3. \A t \in Sides : ~Sending(t) /\ ~Sending(t)'
  BY <1>1, <1>2 DEF Sending
<1>4. \A o \in Ids : ~Busy(o) /\ ~Busy(o)'
  BY <1>1, NobodyBusy DEF Busy, MonitorAt
<1>5. BusyOK' /\ AloneOK'
  BY <1>3, <1>4 DEF BusyOK, AloneOK, Busy
<1>6. ~openPos
  BY <1>1 DEF Attended, Rest, SeenOK, ThreadsOK, TypeOK
<1>7. SeenOK'
  BY <1>1, <1>6 DEF SeenOK
<1>8. LiveOK'
  <2>1. Onward
    BY <1>3 DEF Onward
  <2> QED
    BY <1>1, <1>3, <2>1, LiveShrinks DEF Attended, Rest
<1> QED
  BY <1>5, <1>7, <1>8 DEF Rest

\* What is sent is the only order anybody is concerned with.
LEMMA SendStep ==
    ASSUME OneSide, "answer" \notin Failures, Attended, TypeOK', NEW s \in Sides, NEW o \in Ids,
           NEW mode \in Modes, NEW lost \in BOOLEAN, Send(s, o, mode, lost)
    PROVE  Rest'
<1> DEFINE r == [run[s] EXCEPT !.pc = "sent", !.o = o]
<1>1. r.pc = "sent" /\ r.o = o
  BY DEF Attended, TypeOK
<1>2. /\ run[s].pc = "build" /\ run' = [run EXCEPT ![s] = r]
      /\ broker[o] = "none" /\ broker' = [broker EXCEPT ![o] = "live"]
      /\ UNCHANGED <<age, openPos, inflight, dup, watchers, pipe>>
  BY DEF Send, Attended, TypeOK
<1>3. \A t \in Sides : t = s /\ run'[t] = r
  BY <1>2 DEF OneSide, Attended, TypeOK
<1>4. \A p \in Ids : ~Busy(p) /\ ~Busy(p)'
  BY <1>2 DEF Attended, Rest, AloneOK, Busy, MonitorAt
<1>5. ~openPos
  BY <1>2 DEF Attended, Rest, SeenOK
<1>6. \A p \in Ids : broker'[p] = "live" => p = o
  <2>1. ASSUME NEW p \in Ids, broker[p] = "live" PROVE FALSE
    <3>1. SideOf(p) \in Sides
      BY <2>1, SideOfType DEF Attended
    <3>2. SideOf(p) = s
      BY <1>3, <3>1
    <3> QED
      BY <1>2, <2>1, <3>2 DEF Attended, Cooled, BlockedOK, Alive
  <2> QED
    BY <1>2, <2>1 DEF Attended, TypeOK
<1>7. BusyOK'
  <2>1. age[o] = 0 /\ dup[s] + MaxHang >= DupWait
    BY <1>2 DEF Attended, OrderOK, ThreadsOK, Cooled, CooldownOK, TypeOK
  <2> QED
    BY <1>1, <1>2, <1>3, <1>4, <2>1 DEF BusyOK, Busy
<1>8. AloneOK' /\ SeenOK'
  BY <1>1, <1>2, <1>3, <1>5 DEF AloneOK, SeenOK
<1>9. LiveOK'
  <2>1. monitor = None /\ watched = {} /\ \A p \in Ids : timer[p] = "off"
    BY <1>4 DEF Busy, MonitorAt, Attended, TypeOK
  <2>2. ~openPos' /\ monitor' = None /\ watched' = {} /\ timer' = timer
    BY <1>2, <1>5, <2>1
  <2>3. \A t \in Sides : Sending(t)' /\ run'[t].o = o
    BY <1>1, <1>3 DEF Sending
  <2> QED
    BY <1>6, <2>1, <2>2, <2>3 DEF LiveOK
<1> QED
  BY <1>7, <1>8, <1>9 DEF Rest

\* The registration and the lock, with the watch thread, of the order just sent.
LEMMA KeepStep ==
    ASSUME OneSide, Attended, NEW s \in Sides, Register(s) \/ Lock(s)
    PROVE  Rest'
<1>1. /\ Sending(s) /\ run[s].o \in Ids
      /\ \A t \in Sides : t = s /\ run'[t].o = run[s].o /\ run'[t].pc \in {"registered", "locked"}
      /\ UNCHANGED <<broker, age, openPos, dup, monitor, pipe>>
  BY DEF Register, Lock, Sending, OneSide, Attended, TypeOK
<1>2. age[run[s].o] = 0 /\ dup[s] + MaxHang >= DupWait
  BY <1>1 DEF Attended, Rest, BusyOK
<1>3. /\ watched' \subseteq watched \cup {run[s].o}
      /\ \A o \in Ids : o # run[s].o => timer'[o] = timer[o]
  BY <1>1 DEF Register, Lock, Attended, TypeOK
<1>4. \A o \in Ids : o # run[s].o => (Busy(o)' => Busy(o))
  BY <1>1, <1>3 DEF Busy, MonitorAt
<1>5. BusyOK'
  <2>1. ASSUME NEW o \in Ids PROVE
          /\ (o \in watched' \/ MonitorAt(o)') => age[o] <= CancelAfter + Late
          /\ timer'[o] # "off" => age[o] <= WatchAfter + Late
          /\ \A t \in Sides : Busy(o)' => dup[t] + MaxHang + age[o] >= DupWait
    <3> DEFINE q == run[s].o
    <3>1. CASE o = q
      BY <1>1, <1>2, <3>1 DEF Attended, TypeOK
    <3>2. CASE o # q
      BY <1>1, <1>3, <1>4, <3>2 DEF Attended, Rest, BusyOK, MonitorAt
    <3> QED
      BY <3>1, <3>2
  <2> QED
    BY <1>1, <1>2, <2>1 DEF BusyOK
<1>6. AloneOK' /\ SeenOK'
  <2>1. openPos => \A t \in Sides : pipe.pc = "picked" => dup[t] > pipe.wait + MaxHang
    BY DEF Attended, Rest, SeenOK
  <2> QED
    BY <1>1, <2>1 DEF AloneOK, SeenOK
<1>7. LiveOK'
  <2> SUFFICES ASSUME NEW o \in Ids, broker[o] = "live" PROVE
          /\ ~openPos /\ monitor = None /\ watched' \subseteq {o}
          /\ \A p \in Ids \ {o} : timer'[p] = "off"
          /\ timer'[o] \in {"off", "on"}
          /\ \A t \in Sides : Sending(t)' => run'[t].o = o
          /\ (timer'[o] = "on" /\ inflight') \/ \E t \in Sides : Sending(t)'
    BY <1>1 DEF LiveOK
  <2>1. /\ run[s].o = o /\ ~openPos /\ monitor = None /\ watched \subseteq {o}
        /\ \A p \in Ids \ {o} : timer[p] = "off"
        /\ timer[o] \in {"off", "on"}
    BY <1>1 DEF Attended, Rest, LiveOK
  <2>2. CASE Register(s)
    <3>1. timer' = timer /\ run'[s].pc = "registered"
      BY <2>2 DEF Register, Attended, TypeOK
    <3> QED
      BY <1>1, <1>3, <2>1, <3>1 DEF Sending
  <2>3. CASE Lock(s)
    <3>1. timer'[o] = "on" /\ inflight' = TRUE
      BY <2>1, <2>3 DEF Lock, Attended, TypeOK
    <3> QED
      BY <1>1, <1>3, <2>1, <3>1
  <2> QED
    BY <2>2, <2>3
<1> QED
  BY <1>5, <1>6, <1>7 DEF Rest

\* The steps of an execute thread.
LEMMA RunnerStep ==
    ASSUME OneSide, "answer" \notin Failures, WaitsCover, Attended, TypeOK',
           NEW s \in Sides, Runner(s)
    PROVE  Rest'
<1>1. CASE Refuse(s) \/ NoOrderSent(s) \/ Remember(s)
  <2>1. PICK res \in {"ok", "ng"} : Finish(s, res)
    BY <1>1 DEF Refuse, NoOrderSent, Remember
  <2>2. run' = [run EXCEPT ![s] = run'[s]] /\ run'[s].pc \in {"idle", "ok", "ng"}
    BY <2>1, FinishType DEF Attended
  <2>3. run[s].pc \in {"guards", "build", "locked"}
    BY <1>1 DEF Refuse, NoOrderSent, Remember
  <2>4. \A t \in Sides : /\ ~Sending(t) /\ ~Sending(t)'
                         /\ run'[t].pc \notin {"guards", "build"}
    BY <2>2, <2>3 DEF OneSide, Sending, Attended, TypeOK
  <2>5. UNCHANGED <<broker, age, openPos, inflight, dup, watchers, pipe>>
    BY <1>1 DEF Refuse, NoOrderSent, Remember
  <2> QED
    BY <2>4, <2>5, QuietStep
<1>2. CASE EnterDup(s)
  BY <1>2, EnterDupStep
<1>3. CASE \E o \in Ids, mode \in Modes, lost \in BOOLEAN : Send(s, o, mode, lost)
  BY <1>3, SendStep
<1>4. CASE Register(s) \/ Lock(s)
  BY <1>4, KeepStep
<1> QED
  BY <1>1, <1>2, <1>3, <1>4 DEF Runner

----------------------------------------------------------------------------
(* The cancellers *)

\* pending_order_monitor: the order it is at waits no longer, and it was the
\* only one.
LEMMA MonitorStep ==
    ASSUME "put" \notin Failures, Attended, TypeOK', Monitor
    PROVE  Rest'
<1>1. ASSUME NEW o \in Ids, NEW adverse \in BOOLEAN, NEW ok \in BOOLEAN,
             MonitorPut(o, adverse, ok) PROVE Rest'
  <2>1. /\ o \in watched /\ Put(o, ok)
        /\ UNCHANGED <<age, openPos, inflight, dup, pipe, run, watched, timer>>
    BY <1>1 DEF MonitorPut
  <2>2. \A p \in Ids : MonitorAt(p)' => p \in watched
    BY <1>1, <2>1 DEF MonitorPut, MonitorAt
  <2>3. \A p \in Ids : broker'[p] # "live"
    BY <2>1, PutTakes DEF Attended, Rest, LiveOK
  <2> QED
    BY <2>1, <2>2, <2>3, LastStep
<1>2. CASE MonitorDrop \/ MonitorDecide
  <2>1. /\ monitor # None /\ watched' \subseteq watched
        /\ UNCHANGED <<broker, age, openPos, dup, pipe, run, timer>>
    BY <1>2 DEF MonitorDrop, MonitorDecide
  <2>2. \A p \in Ids : MonitorAt(p)' => MonitorAt(p)
    BY <1>2 DEF MonitorDrop, MonitorDecide, MonitorAt, Attended, TypeOK
  <2>3. \A p \in Ids : broker'[p] # "live"
    BY <2>1 DEF Attended, Rest, LiveOK
  <2> QED
    BY <2>1, <2>2, <2>3, LastStep
<1> QED
  BY <1>1, <1>2 DEF Monitor

\* So it is with the watch thread, which moreover has no reason to leave an
\* order that waits.
LEMMA WatchStep ==
    ASSUME "put" \notin Failures, Attended, NEW o \in Ids, Watch(o)
    PROVE  Rest'
<1>1. CASE WatchLook(o)
  <2>1. /\ timer[o] = "on" /\ timer' = [timer EXCEPT ![o] = "off"]
        /\ UNCHANGED <<broker, age, openPos, dup, pipe, run, watched, monitor>>
        /\ ~openPos => /\ UNCHANGED inflight
                       /\ (o \in watched /\ order[o].mode # "plain") \/ ~inflight
    BY <1>1 DEF WatchLook
  <2>2. Onward /\ (\A s \in Sides : Sending(s)' <=> Sending(s))
               /\ \A p \in Ids : /\ MonitorAt(p)' => MonitorAt(p)
                                 /\ timer'[p] # "off" => timer[p] # "off"
    BY <2>1 DEF Onward, MonitorAt, Sending, Attended, TypeOK
  <2>3. BusyOK'
    BY <2>1, <2>2, BusyShrinks DEF Attended, Rest
  <2>4. AloneOK'
    BY <2>1, <2>2, AloneShrinks DEF Attended, Rest
  <2>5. SeenOK'
    BY <2>1, SeenShrinks DEF Attended, Rest
  <2>6. LiveOK'
    <3> SUFFICES ASSUME NEW p \in Ids, broker[p] = "live" PROVE
            /\ ~openPos /\ monitor = None /\ watched \subseteq {p}
            /\ \A q \in Ids \ {p} : timer'[q] = "off"
            /\ timer'[p] \in {"off", "on"}
            /\ \A s \in Sides : Sending(s) => run[s].o = p
            /\ (timer'[p] = "on" /\ inflight') \/ \E s \in Sides : Sending(s)
      BY <2>1 DEF LiveOK, Sending
    <3>1. /\ ~openPos /\ monitor = None /\ watched \subseteq {p}
          /\ \A q \in Ids \ {p} : timer[q] = "off"
          /\ \A s \in Sides : Sending(s) => run[s].o = p
          /\ inflight \/ \E s \in Sides : Sending(s)
          /\ order[p].mode = "plain"
      BY DEF Attended, AllPlain, Rest, LiveOK
    <3>2. p = o /\ timer'[p] = "off"
      BY <2>1, <3>1 DEF Attended, TypeOK
    <3> QED
      BY <2>1, <3>1, <3>2 DEF Attended, TypeOK
  <2> QED
    BY <2>3, <2>4, <2>5, <2>6 DEF Rest
<1>2. ASSUME NEW ok \in BOOLEAN, WatchPut(o, ok) PROVE Rest'
  <2>1. /\ timer[o] = "on" /\ Put(o, ok)
        /\ \A p \in Ids : p # o => timer'[p] = timer[p]
        /\ UNCHANGED <<age, openPos, dup, pipe, run, watched, monitor>>
    BY <1>2 DEF WatchPut, Attended, TypeOK
  <2>2. \A p \in Ids : broker'[p] # "live"
    BY <2>1, PutTakes DEF Attended, Rest, LiveOK
  <2> QED
    BY <2>1, <2>2, LastStep DEF MonitorAt
<1>3. CASE WatchEnd(o)
  <2>1. /\ timer[o] \in {"cancelled", "failed"}
        /\ timer' = [timer EXCEPT ![o] = "off"]
        /\ UNCHANGED <<broker, age, openPos, dup, pipe, run, watched, monitor>>
    BY <1>3 DEF WatchEnd
  <2>2. \A p \in Ids : broker'[p] # "live"
    BY <2>1 DEF Attended, Rest, LiveOK
  <2>3. \A p \in Ids : timer'[p] # "off" => timer[p] # "off"
    BY <2>1 DEF Attended, TypeOK
  <2> QED
    BY <2>1, <2>2, <2>3, LastStep DEF MonitorAt
<1> QED
  BY <1>1, <1>2, <1>3 DEF Watch

----------------------------------------------------------------------------
(* The broker, the positions, time *)

\* A position that appears is that of the one order there was.
LEMMA SyncStep ==
    ASSUME OneSide, DupCovers, Attended, SyncPositions
    PROVE  Rest'
<1>1. /\ openPos' # openPos /\ openPos' = \E o \in Ids : broker[o] = "filled"
      /\ UNCHANGED <<broker, age, dup, pipe, run, watchers>>
  BY DEF SyncPositions
<1>2. Onward /\ \A p \in Ids : MonitorAt(p)' => MonitorAt(p)
  BY <1>1 DEF Onward, Sending, MonitorAt
<1>3. BusyOK'
  BY <1>1, <1>2, BusyShrinks DEF Attended, Rest
<1>4. AloneOK'
  BY <1>1, <1>2, AloneShrinks DEF Attended, Rest
<1>5. ASSUME NEW o \in Ids, Alive(o) PROVE \A s \in Sides : s = SideOf(o)
  BY <1>5, SideOfType DEF OneSide, Attended, Alive
<1>6. SeenOK'
  <2> SUFFICES ASSUME openPos' PROVE SeenOK'
    BY DEF SeenOK
  <2>1. PICK o \in Ids : broker[o] = "filled"
    BY <1>1
  <2>2. /\ \A s \in Sides : s = SideOf(o)
        /\ Alive(o)
    BY <1>5, <2>1 DEF Alive
  <2>3. pipe.pc = "picked" => pipe.item.side \in Sides
    BY DEF Attended, TypeOK, Candidates
  <2> QED
    BY <1>1, <2>2, <2>3 DEF Attended, Cooled, BlockedOK, SeenOK
<1>7. \A o \in Ids : broker'[o] # "live"
  <2> SUFFICES ASSUME NEW o \in Ids, broker[o] = "live" PROVE FALSE
    BY <1>1
  <2>1. ~openPos
    BY DEF Attended, Rest, LiveOK
  <2>2. PICK p \in Ids : broker[p] = "filled"
    BY <1>1, <2>1 DEF Attended, TypeOK
  <2>3. SideOf(p) = SideOf(o)
    BY <1>5, <2>2, SideOfType DEF Alive, Attended
  <2>4. p = o
    BY <2>2, <2>3 DEF Attended, Cooled, OneEntryPerSide, Alive, SideOf
  <2> QED
    BY <2>2, <2>4
<1> QED
  BY <1>3, <1>4, <1>6, <1>7, NobodyWaits DEF Rest

\* The cooldown runs down no faster than what it covers grows old.
LEMMA TickStep ==
    ASSUME Attended, TypeOK', Tick
    PROVE  Rest'
<1>1. /\ UNCHANGED <<broker, order, openPos, inflight, watchers>>
      /\ monitor = None /\ \A o \in Ids : timer[o] \in {"off", "on"}
      /\ \A s \in Sides : ~Sending(s)
      /\ \A s \in Sides : /\ dup[s] \in Nat /\ dup'[s] \in Nat
                          /\ dup'[s] + 1 >= dup[s] /\ (dup[s] > 0 => dup'[s] + 1 = dup[s])
  <2>1. /\ UNCHANGED <<broker, order, openPos, inflight, watchers>>
        /\ monitor = None /\ \A o \in Ids : timer[o] \in {"off", "on"}
        /\ \A s \in Sides : ~Sending(s)
    BY DEF Tick, Walking, Sending
  <2>2. \A s \in Sides : dup[s] \in Nat
    BY DEF Attended, TypeOK
  <2>3. dup' = [s \in Sides |-> IF dup[s] > 0 THEN dup[s] - 1 ELSE 0]
    BY DEF Tick
  <2> QED
    BY <2>1, <2>2, <2>3
<1>2. \A s \in Sides :
        /\ run'[s].pc = run[s].pc
        /\ run[s].pc = "guards" =>
              run'[s].hang = run[s].hang + 1 /\ run[s].hang < MaxHang /\ run[s].hang \in Nat
  <2> SUFFICES ASSUME NEW s \in Sides PROVE
        /\ run'[s].pc = run[s].pc
        /\ run[s].pc = "guards" =>
              run'[s].hang = run[s].hang + 1 /\ run[s].hang < MaxHang /\ run[s].hang \in Nat
    OBVIOUS
  <2>1. [run[s] EXCEPT !.hang = @ + 1].pc = run[s].pc
        /\ [run[s] EXCEPT !.hang = @ + 1].hang = run[s].hang + 1
    BY DEF Attended, TypeOK
  <2> QED
    BY <2>1 DEF Tick, Attended, TypeOK
<1>3. \A s \in Sides : ~Sending(s)'
  BY <1>1, <1>2 DEF Sending
<1>4. \A o \in Ids :
        /\ age[o] \in Nat
        /\ o \in watched => age[o] < CancelAfter + Late
        /\ timer[o] = "on" => age[o] < WatchAfter + Late
        /\ Busy(o) => age'[o] = age[o] + 1
  BY <1>1 DEF Tick, Busy, MonitorAt, CancelWait, Attended, AllPlain, OrderOK, TypeOK
<1>5. \A o \in Ids : ~MonitorAt(o) /\ ~MonitorAt(o)' /\ (Busy(o)' <=> Busy(o))
  BY <1>1 DEF Busy, MonitorAt
<1>6. BusyOK'
  <2>1. ASSUME NEW o \in Ids, Busy(o) PROVE
          /\ o \in watched => age'[o] <= CancelAfter + Late
          /\ timer[o] # "off" => age'[o] <= WatchAfter + Late
          /\ \A s \in Sides : dup'[s] + MaxHang + age'[o] >= DupWait
    <3>1. age'[o] = age[o] + 1 /\ age[o] \in Nat
      BY <1>4, <2>1
    <3>2. \A s \in Sides : dup[s] + MaxHang + age[o] >= DupWait
      BY <2>1 DEF Attended, Rest, BusyOK
    <3> QED
      BY <1>1, <1>4, <3>1, <3>2
  <2> QED
    BY <1>1, <1>3, <1>5, <2>1 DEF BusyOK, Busy
<1>7. AloneOK'
  BY <1>2, <1>5 DEF Attended, Rest, AloneOK
<1>8. SeenOK'
  <2> SUFFICES ASSUME openPos, NEW s \in Sides PROVE
          /\ run'[s].pc # "build"
          /\ run'[s].pc = "guards" => dup'[s] + run'[s].hang > MaxHang
          /\ pipe'.pc = "picked" => dup'[s] > pipe'.wait + MaxHang
    BY <1>1 DEF SeenOK
  <2>1. /\ run[s].pc # "build"
        /\ run[s].pc = "guards" => dup[s] + run[s].hang > MaxHang
        /\ pipe.pc = "picked" => dup[s] > pipe.wait + MaxHang
    BY DEF Attended, Rest, SeenOK
  <2>2. /\ pipe'.pc = pipe.pc
        /\ pipe.pc = "picked" => pipe.wait > 0 /\ pipe'.wait = pipe.wait - 1 /\ pipe.wait \in Nat
    BY DEF Tick, Attended, TypeOK
  <2> QED
    BY <1>1, <1>2, <2>1, <2>2
<1>9. LiveOK'
  BY <1>1, <1>3, LiveShrinks DEF Onward, Attended, Rest
<1> QED
  BY <1>6, <1>7, <1>8, <1>9 DEF Rest

----------------------------------------------------------------------------
(* The theorem *)

Answers == "put" \notin Failures /\ "answer" \notin Failures

\* Every step keeps what the order that waits relies on.
LEMMA AttendedStep ==
    ASSUME OneSide, Answers, DupCovers, WaitsCover, Attended, TypeOK', [Next]_vars
    PROVE  Rest'
<1>1. CASE UNCHANGED vars \/ \E s \in Sides, summary \in Summary : NewCandidate(s, summary)
  <2>1. UNCHANGED <<broker, age, openPos, inflight, dup, watchers, pipe, run>>
    BY <1>1 DEF NewCandidate
  <2> QED
    BY <2>1, MarketStep
<1>2. CASE Pipeline
  BY <1>2, PipelineStep
<1>3. ASSUME NEW s \in Sides, Runner(s) PROVE Rest'
  BY <1>3, RunnerStep DEF Answers
<1>4. CASE Monitor
  BY <1>4, MonitorStep DEF Answers
<1>5. ASSUME NEW o \in Ids, Watch(o) PROVE Rest'
  BY <1>5, WatchStep DEF Answers
<1>6. ASSUME NEW o \in Ids, PendingMonitorDrop(o) \/ ForceCancel(o) \/ Fill(o) PROVE Rest'
  BY <1>6, MarketStep DEF PendingMonitorDrop, ForceCancel, Fill, Attended, TypeOK
<1>7. CASE Close
  BY <1>7, MarketStep DEF Close, Attended, TypeOK
<1>8. CASE SyncPositions
  BY <1>8, SyncStep
<1>9. CASE Tick
  BY <1>9, TickStep
<1> QED
  BY <1>1, <1>2, <1>3, <1>4, <1>5, <1>6, <1>7, <1>8, <1>9 DEF Next

\* What has been sent keeps its mode, so there was no longer wait before.
LEMMA PlainBefore ==
    ASSUME TypeOK, [Next]_vars, AllPlain'
    PROVE  AllPlain
<1> SUFFICES ASSUME NEW o \in Ids, broker[o] # "none" PROVE order[o].mode = "plain"
  BY DEF AllPlain
<1>1. CASE UNCHANGED <<broker, order>>
  BY <1>1 DEF AllPlain
<1>2. ASSUME NEW s \in Sides, NEW p \in Ids, NEW mode \in Modes, NEW lost \in BOOLEAN,
             Send(s, p, mode, lost) PROVE order[o].mode = "plain"
  BY <1>2 DEF Send, AllPlain, TypeOK
<1>3. CASE order' = order /\ \A p \in Ids : broker[p] # "none" => broker'[p] # "none"
  BY <1>3 DEF AllPlain
<1>4. ASSUME NEW p \in Ids, NEW adverse \in BOOLEAN, NEW ok \in BOOLEAN,
             MonitorPut(p, adverse, ok) \/ WatchPut(p, ok) PROVE order[o].mode = "plain"
  <2>1. Put(p, ok) /\ order' = order
    BY <1>4 DEF MonitorPut, WatchPut
  <2> QED
    BY <1>3, <2>1, PutCancels
<1>5. ASSUME NEW p \in Ids, ForceCancel(p) \/ Fill(p) PROVE order[o].mode = "plain"
  BY <1>3, <1>5 DEF ForceCancel, Fill, TypeOK
<1>6. CASE Close
  BY <1>3, <1>6 DEF Close, TypeOK
<1>7. ASSUME NEW s \in Sides, NEW summary \in Summary, NewCandidate(s, summary)
      PROVE  order[o].mode = "plain"
  BY <1>1, <1>7 DEF NewCandidate
<1>8. ASSUME NEW s \in Sides, Refuse(s) \/ EnterDup(s) \/ NoOrderSent(s) \/ Register(s)
                              \/ Lock(s) \/ Remember(s)
      PROVE  order[o].mode = "plain"
  BY <1>1, <1>8 DEF Refuse, EnterDup, NoOrderSent, Register, Lock, Remember
<1>9. CASE Pipeline
  BY <1>1, <1>9 DEF Pipeline, Pick, Skip, SkipStale, Execute, Joined, JoinTimeout
<1>10. CASE MonitorDrop \/ MonitorDecide \/ SyncPositions \/ Tick \/ UNCHANGED vars
  BY <1>1, <1>10 DEF MonitorDrop, MonitorDecide, SyncPositions, Tick
<1>11. ASSUME NEW p \in Ids, WatchLook(p) \/ WatchEnd(p) \/ PendingMonitorDrop(p)
       PROVE  order[o].mode = "plain"
  BY <1>1, <1>11 DEF WatchLook, WatchEnd, PendingMonitorDrop
<1> QED
  BY <1>2, <1>4, <1>5, <1>6, <1>7, <1>8, <1>9, <1>10, <1>11 DEF Next, Runner, Monitor, Watch

\* As long as no order has had a longer wait, an order that waits at the broker
\* always has a thread that will cancel it, although pending_monitor drops it
\* from pending_orders and three threads cancel orders and free the symbol's
\* lock beside each other: for candidates of one side and a broker that
\* answers, when the duplicate cooldown outlasts the waits of the cancellers
\* (WaitsCover) and of a second attempt (DupCovers).
THEOREM PlainAttendedCorrect ==
    ASSUME OneSide, Answers, DupCovers, WaitsCover
    PROVE  Spec => []PlainAttended
<1>1. Init => AInv
  BY TypeInit, RestInit, AttendedInit DEF AInv, IInv, Rest
<1>2. ASSUME AInv, [Next]_vars PROVE AInv'
  <2>1. IInv'
    BY <1>2, TypeStep, OrderStep, ThreadsStep, CooledStep DEF AInv, IInv, Cooled
  <2>2. ASSUME AllPlain' PROVE Rest'
    <3>1. Attended
      BY <1>2, <2>2, PlainBefore DEF AInv, IInv, Cooled, Attended, Rest
    <3> QED
      BY <1>2, <2>1, <3>1, AttendedStep DEF IInv
  <2> QED
    BY <2>1, <2>2 DEF AInv, Rest
<1>3. AInv => PlainAttended
  BY DEF AInv, LiveOK, PlainAttended, HasKeeper, Sending
<1> QED
  BY <1>1, <1>2, <1>3, PTL DEF Spec
=============================================================================
