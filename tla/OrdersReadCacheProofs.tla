------------------------ MODULE OrdersReadCacheProofs ------------------------
(***************************************************************************)
(* Proofs about OrdersReadCache, for any threads, orders, window and       *)
(* schedule.  IInv is inductive; what a step may do follows from it.       *)
(***************************************************************************)
EXTENDS OrdersReadCache, TLAPS

\* The waits of the schedule are natural numbers.
LEMMA BackoffWaitType == \A n \in Nat : BackoffWait(n) \in Nat
BY BackoffAssumption DEF BackoffWait

\* The invariant holds at the start.
LEMMA InitIInv == Init => IInv
<1> SUFFICES ASSUME Init PROVE IInv
  OBVIOUS
<1> USE NoneAssumption DEF Init
<1>1. TypeOK
  BY DEF TypeOK, Labels
<1>2. HolderOK /\ PayloadOK /\ BackoffOK
  BY DEF HolderOK, Holding, PayloadOK, BackoffOK
<1>3. VersionsOK /\ DoneOK /\ CancelledOnce
  BY DEF VersionsOK, DoneOK, CancelledOnce
<1> QED
  BY <1>1, <1>2, <1>3 DEF IInv

USE DEF vars, broker, cache, calls, cancels

\* The parts of the invariant that speak of the threads alone.
ThreadsOK ==
    /\ pc \in [Callers -> Labels]
    /\ t \in [Callers -> Nat]
    /\ got \in [Callers -> Nat \cup {None}]
    /\ res \in [Callers -> Nat \cup {None}]
    /\ todo \in [Callers -> SUBSET Orders]
    /\ cur \in [Callers -> Orders \cup {None}]
    /\ \A c \in Callers : /\ pc[c] = "inval" <=> cur[c] # None
                          /\ cur[c] \notin todo[c]
                          /\ todo[c] # {} => c \in Cancellers
    /\ cut \in Nat /\ done \in [Callers -> SUBSET Orders]
    /\ CancelledOnce

LEMMA ThreadsInv == IInv => ThreadsOK
BY DEF IInv, TypeOK, ThreadsOK

\* An order that was done before the last clean invalidation is not shown by
\* an answer that is no older.
LEMMA NotShown ==
    ASSUME IInv, NEW c \in Callers, NEW v \in Nat, cut <= v
    PROVE  Shown(v) \cap done[c] = {} /\ Shown(v) \in SUBSET Orders
BY DEF IInv, TypeOK, DoneOK, Shown

\* A thread that returns an answer no older than that, or none, is in order.
LEMMA AnswerThreads ==
    ASSUME IInv, NEW c \in Callers, NEW v \in Nat \cup {None}, v # None => cut <= v,
           Answer(c, v), pc[c] # "inval", UNCHANGED broker
    PROVE  ThreadsOK'
<1> USE ThreadsInv DEF ThreadsOK, CancelledOnce
<1>1. /\ res' \in [Callers -> Nat \cup {None}] /\ got' \in [Callers -> Nat \cup {None}]
      /\ t' = t /\ cur' = cur /\ cut' = cut /\ done' = done
  BY DEF Answer
<1>2. CASE v # None /\ c \in Cancellers /\ Shown(v) # {}
  <2>1. pc' = [pc EXCEPT ![c] = "cancel"] /\ todo' = [todo EXCEPT ![c] = Shown(v)]
    BY <1>2 DEF Answer, Goto
  <2>2. Shown(v) \cap done[c] = {} /\ Shown(v) \in SUBSET Orders
    BY <1>2, NotShown, NoneAssumption
  <2>3. cur[c] = None
    OBVIOUS
  <2>4. None \notin Shown(v)
    BY <2>2, NoneAssumption
  <2>5. pc' \in [Callers -> Labels] /\ todo' \in [Callers -> SUBSET Orders]
    BY <2>1, <2>2 DEF Labels
  <2>6. \A d \in Callers : /\ pc'[d] = "inval" <=> cur'[d] # None
                           /\ cur'[d] \notin todo'[d]
                           /\ todo'[d] # {} => d \in Cancellers
    BY <1>1, <1>2, <2>1, <2>3, <2>4
  <2>7. \A d \in Callers : todo'[d] \cap done'[d] = {}
    BY <1>1, <2>1, <2>2
  <2> QED
    BY <1>1, <2>5, <2>6, <2>7
<1>3. CASE ~(v # None /\ c \in Cancellers /\ Shown(v) # {})
  <2>1. pc' = [pc EXCEPT ![c] = "idle"] /\ todo' = todo
    BY <1>3 DEF Answer, Goto
  <2> QED
    BY <1>1, <2>1 DEF Labels
<1> QED
  BY <1>2, <1>3

\* Steps of get() that return an answer leave the rest of the invariant alone.
LEMMA AnswerStep ==
    ASSUME IInv, NEW c \in Callers, NEW v \in Nat \cup {None}, v # None => cut <= v,
           Answer(c, v), pc[c] # "inval", UNCHANGED <<now, broker, cache>>,
           \/ pc[c] = "fast" /\ UNCHANGED inflight
           \/ pc[c] \in {"shared", "own"} /\ inflight' = None
    PROVE  IInv'
<1>1. ThreadsOK'
  BY AnswerThreads
<1>2. \A d \in Callers : d # c => pc'[d] = pc[d] /\ got'[d] = got[d]
  BY DEF Answer, Goto, IInv, TypeOK
<1>3. pc'[c] \in {"idle", "cancel"} /\ got'[c] = None
  BY DEF Answer, Goto, IInv, TypeOK
<1>4. HolderOK'
  BY <1>2, <1>3, NoneAssumption DEF HolderOK, Holding, IInv, TypeOK
<1>5. TypeOK'
  BY <1>1, NoneAssumption DEF TypeOK, ThreadsOK, IInv
<1>6. VersionsOK' /\ DoneOK' /\ PayloadOK' /\ BackoffOK'
  BY <1>2, <1>3 DEF IInv, TypeOK, VersionsOK, DoneOK, PayloadOK, BackoffOK, Answer
<1> QED
  BY <1>1, <1>4, <1>5, <1>6 DEF IInv, ThreadsOK

\* A thread that only moves within get() keeps the invariant.
LEMMA MoveStep ==
    ASSUME IInv, NEW c \in Callers, NEW l \in InGet, pc[c] # "inval",
           pc' = [pc EXCEPT ![c] = l],
           t' = t \/ t' = [t EXCEPT ![c] = now],
           res' = res \/ res' = [res EXCEPT ![c] = None],
           UNCHANGED <<now, broker, cache, got, cancels>>,
           HolderOK', inflight' \in Callers \cup {None}, got[c] = None
    PROVE  IInv'
<1> USE NoneAssumption DEF IInv, TypeOK
<1>1. TypeOK'
  BY DEF Labels, InGet
<1>2. VersionsOK'
  BY DEF VersionsOK
<1>3. DoneOK' /\ CancelledOnce' /\ PayloadOK' /\ BackoffOK'
  BY DEF DoneOK, CancelledOnce, PayloadOK, BackoffOK
<1> QED
  BY <1>1, <1>2, <1>3

\* Every step keeps the inductive invariant.
LEMMA InvStep == IInv /\ [Next]_vars => IInv'
<1> SUFFICES ASSUME IInv, [Next]_vars PROVE IInv'
  OBVIOUS
<1>0. /\ TypeOK /\ HolderOK /\ PayloadOK /\ BackoffOK /\ VersionsOK
      /\ DoneOK /\ CancelledOnce
  BY DEF IInv
<1>n. \A c \in Callers : pc[c] # "get" => got[c] = None
  BY <1>0 DEF VersionsOK
<1>v. payload # None => payload.ver \in Nat /\ cut <= payload.ver
  BY <1>0 DEF VersionsOK, TypeOK, Snapshot
<1>1. ASSUME NEW c \in Callers, Call(c) PROVE IInv'
  <2>1. HolderOK' /\ inflight' \in Callers \cup {None}
    BY <1>0, <1>1 DEF Call, Goto, TypeOK, HolderOK, Holding
  <2> QED
    BY <1>1, <1>n, <2>1, MoveStep DEF Call, Goto, InGet
<1>2. ASSUME NEW c \in Callers, FastPath(c) PROVE IInv'
  <2>1. CASE Answer(c, payload.ver) /\ payload # None
    BY <1>2, <1>v, <2>1, AnswerStep DEF FastPath
  <2>2. CASE Goto(c, "try") /\ UNCHANGED <<calls, cancels>>
    <3>1. HolderOK' /\ inflight' \in Callers \cup {None}
      BY <1>0, <1>2, <2>2 DEF FastPath, Goto, TypeOK, HolderOK, Holding
    <3> QED
      BY <1>2, <1>n, <2>2, <3>1, MoveStep DEF FastPath, Goto, InGet
  <2> QED
    BY <1>2, <2>1, <2>2 DEF FastPath, Fresh
<1>3. ASSUME NEW c \in Callers, TryInflight(c) \/ TakeAfterWait(c) \/ StartFetch(c)
      PROVE  IInv'
  <2>1. /\ pc[c] \in {"try", "wait", "own"}
        /\ \E l \in InGet : pc' = [pc EXCEPT ![c] = l]
        /\ UNCHANGED <<now, broker, cache, calls, cancels>>
    BY <1>3 DEF TryInflight, TakeAfterWait, StartFetch, Goto, InGet
  <2>2. HolderOK' /\ inflight' \in Callers \cup {None}
    BY <1>0, <1>3, NoneAssumption
       DEF TryInflight, TakeAfterWait, StartFetch, Goto, TypeOK, HolderOK, Holding
  <2> QED
    BY <1>n, <2>1, <2>2, MoveStep
<1>4. ASSUME NEW c \in Callers, SharedResult(c) \/ OwnerSkips(c) PROVE IInv'
  <2>1. CASE Answer(c, payload.ver) /\ payload # None
    BY <1>4, <1>v, <2>1, AnswerStep DEF SharedResult, OwnerSkips, Release
  <2>2. CASE Refuse(c)
    BY <1>4, <2>2, AnswerStep DEF SharedResult, OwnerSkips, Release, Refuse
  <2> QED
    BY <1>4, <2>1, <2>2 DEF SharedResult, OwnerSkips, Fresh
<1>5. ASSUME NEW c \in Callers, Sample(c) PROVE IInv'
  <2>1. TypeOK'
    BY <1>0, <1>5 DEF Sample, TypeOK
  <2>2. HolderOK' /\ PayloadOK' /\ BackoffOK' /\ DoneOK' /\ CancelledOnce'
    BY <1>0, <1>5 DEF Sample, HolderOK, Holding, PayloadOK, BackoffOK, DoneOK, CancelledOnce
  <2>3. VersionsOK'
    BY <1>0, <1>5 DEF Sample, VersionsOK, TypeOK
  <2> QED
    BY <2>1, <2>2, <2>3 DEF IInv
<1>6. ASSUME NEW c \in Callers, FetchOk(c) \/ FetchFail(c) PROVE IInv'
  <2>1. got[c] # None => got[c] \in Nat /\ cut <= got[c] /\ got[c] <= ver
    BY <1>0 DEF VersionsOK, TypeOK
  <2>2. ThreadsOK'
    BY <1>6, <2>1, AnswerThreads DEF FetchOk, FetchFail, Refuse
  <2>3. /\ \/ payload' = None
           \/ payload' = [ver |-> got[c], at |-> now] /\ got[c] # None
        /\ pc[c] = "get" /\ inflight' = None /\ UNCHANGED <<now, broker>>
        /\ got' = [got EXCEPT ![c] = None] /\ UNCHANGED <<t, cur, cut, done>>
        /\ Goto(c, "cancel") \/ Goto(c, "idle")
    <3>1. CASE FetchOk(c)
      BY <3>1 DEF FetchOk, Release, Answer, Goto
    <3>2. CASE FetchFail(c)
      BY <3>2 DEF FetchFail, Refuse, Release, Answer, Goto
    <3> QED
      BY <1>6, <3>1, <3>2
  <2>4. /\ \A d \in Callers : d # c => pc'[d] = pc[d] /\ got'[d] = got[d]
        /\ pc'[c] \in {"idle", "cancel"} /\ got'[c] = None
    BY <1>0, <2>3 DEF Goto, TypeOK
  <2>5. HolderOK'
    BY <1>0, <2>3, <2>4, NoneAssumption DEF HolderOK, Holding, TypeOK
  <2>6. failStreak' \in Nat /\ nextTryAt' \in Nat /\ fails' \in Nat /\ failedAt' \in Nat
    BY <1>0, <1>6, BackoffWaitType DEF FetchOk, FetchFail, TypeOK
  <2>7. lastGood' \in Nat \cup {None} /\ payload' \in Snapshot \cup {None}
    BY <1>0, <1>6, <2>3, <2>1 DEF FetchOk, FetchFail, TypeOK, Snapshot
  <2>8. TypeOK'
    BY <1>0, <2>3, <2>2, <2>5, <2>6, <2>7 DEF TypeOK, ThreadsOK
  <2>9. PayloadOK' /\ BackoffOK'
    <3>1. CASE FetchOk(c)
      BY <3>1 DEF FetchOk, PayloadOK, BackoffOK
    <3>2. CASE FetchFail(c)
      <4>1. fails' - 1 = failStreak
        BY <1>0, <3>2 DEF FetchFail, BackoffOK, TypeOK
      <4> QED
        BY <1>0, <3>2, <4>1 DEF FetchFail, PayloadOK, BackoffOK
    <3> QED
      BY <1>6, <3>1, <3>2
  <2>10. VersionsOK'
    <3>1. cut' = cut
      BY <2>3
    <3>2. CASE FetchOk(c)
      <4>1. got[c] # None /\ lastGood' = got[c] /\ payload'.ver = got[c]
        BY <3>2 DEF FetchOk
      <4>2. \A d \in Callers : d # c => got[d] = None
        BY <1>0, <1>n, <3>2 DEF FetchOk, HolderOK, Holding
      <4> QED
        BY <1>0, <2>3, <2>1, <2>4, <3>1, <4>1, <4>2 DEF VersionsOK
    <3>3. CASE FetchFail(c)
      BY <1>0, <2>3, <2>4, <3>1, <3>3 DEF FetchFail, VersionsOK
    <3> QED
      BY <1>6, <3>2, <3>3
  <2>11. DoneOK'
    BY <1>0, <2>3 DEF DoneOK
  <2> QED
    BY <2>2, <2>5, <2>8, <2>9, <2>10, <2>11 DEF IInv, ThreadsOK
<1>7. ASSUME NEW c \in Callers, Cancel(c) PROVE IInv'
  <2>1. PICK o \in todo[c] : /\ todo' = [todo EXCEPT ![c] = @ \ {o}]
                             /\ cur' = [cur EXCEPT ![c] = o]
                             /\ (ended[o] = 0 /\ End(o)) \/ UNCHANGED broker
    BY <1>7 DEF Cancel
  <2>2. o \in Orders /\ o # None
    BY <1>0, <2>1, NoneAssumption DEF TypeOK
  <2>3. TypeOK'
    <3>1. ver' \in Nat /\ ended' \in [Orders -> Nat]
      BY <1>0, <2>1, <2>2 DEF TypeOK, End
    <3>2. /\ pc' \in [Callers -> Labels] /\ todo' \in [Callers -> SUBSET Orders]
          /\ cur' \in [Callers -> Orders \cup {None}]
      BY <1>0, <1>7, <2>1, <2>2 DEF TypeOK, Cancel, Goto, Labels
    <3>3. \A d \in Callers : /\ pc'[d] = "inval" <=> cur'[d] # None
                             /\ cur'[d] \notin todo'[d]
                             /\ todo'[d] # {} => d \in Cancellers
      BY <1>0, <1>7, <2>1, <2>2 DEF TypeOK, Cancel, Goto
    <3> QED
      BY <1>0, <1>7, <3>1, <3>2, <3>3 DEF TypeOK, Cancel
  <2>4. HolderOK' /\ PayloadOK' /\ BackoffOK'
    BY <1>0, <1>7 DEF Cancel, Goto, HolderOK, Holding, PayloadOK, BackoffOK, TypeOK
  <2>5. ver' \in Nat /\ ver <= ver'
    BY <1>0, <2>1 DEF End, TypeOK
  <2>6. VersionsOK'
    <3>1. \A d \in Callers : got[d] # None => pc'[d] = "get"
      BY <1>0, <1>7 DEF Cancel, Goto, VersionsOK, TypeOK
    <3> QED
      BY <1>0, <1>7, <2>5, <3>1 DEF Cancel, VersionsOK, TypeOK, Snapshot
  <2>7. DoneOK'
    BY <1>0, <1>7, <2>1, <2>2, <2>5 DEF Cancel, DoneOK, End, TypeOK
  <2>8. CancelledOnce'
    BY <1>0, <1>7, <2>1 DEF Cancel, CancelledOnce, TypeOK
  <2> QED
    BY <2>3, <2>4, <2>6, <2>7, <2>8 DEF IInv
<1>8. ASSUME NEW c \in Callers, Invalidate(c) PROVE IInv'
  <2>1. /\ pc[c] = "inval" /\ cur[c] \in Orders /\ cur[c] \notin todo[c]
        /\ payload' = None
    BY <1>0, <1>8 DEF Invalidate, TypeOK
  <2>2. \/ UNCHANGED <<cut, done>>
        \/ /\ \A d \in Callers : pc[d] # "get"
           /\ cut' = ver
           /\ done' = [done EXCEPT ![c] = IF ended[cur[c]] # 0 THEN @ \cup {cur[c]} ELSE @]
    BY <1>8 DEF Invalidate, Recorded, Quiet
  <2>3. TypeOK'
    <3>1. cut' \in Nat /\ done' \in [Callers -> SUBSET Orders]
      BY <1>0, <2>1, <2>2 DEF TypeOK
    <3>2. /\ pc' \in [Callers -> Labels] /\ cur' \in [Callers -> Orders \cup {None}]
          /\ todo' = todo
      BY <1>0, <1>8 DEF Invalidate, Goto, TypeOK, Labels
    <3>3. \A d \in Callers : /\ pc'[d] = "inval" <=> cur'[d] # None
                             /\ cur'[d] \notin todo'[d]
      BY <1>0, <1>8, <2>1, NoneAssumption DEF Invalidate, Goto, TypeOK
    <3> QED
      BY <1>0, <1>8, <2>1, <3>1, <3>2, <3>3 DEF Invalidate, TypeOK
  <2>4. HolderOK' /\ PayloadOK' /\ BackoffOK'
    BY <1>0, <1>8, <2>1 DEF Invalidate, Goto, HolderOK, Holding, PayloadOK, BackoffOK, TypeOK
  <2>5. VersionsOK'
    <3>1. cut' <= ver
      BY <1>0, <2>2 DEF VersionsOK, TypeOK
    <3>2. \A d \in Callers : got[d] # None => pc'[d] = "get" /\ cut' = cut
      BY <1>0, <1>8, <2>1, <2>2 DEF Invalidate, Goto, VersionsOK, TypeOK
    <3> QED
      BY <1>0, <1>8, <2>1, <3>1, <3>2 DEF Invalidate, VersionsOK
  <2>6. DoneOK' /\ CancelledOnce'
    <3>1. CASE UNCHANGED <<cut, done>>
      BY <1>0, <1>8, <3>1 DEF Invalidate, DoneOK, CancelledOnce
    <3>2. CASE cut' = ver /\ done' = [done EXCEPT ![c] =
                                        IF ended[cur[c]] # 0 THEN @ \cup {cur[c]} ELSE @]
      <4>1. \A d \in Callers : /\ done'[d] \in SUBSET Orders
                               /\ todo[d] \cap done'[d] = {}
                               /\ \A o \in done'[d] : ended[o] # 0
        BY <1>0, <2>1, <3>2 DEF TypeOK, DoneOK, CancelledOnce
      <4> QED
        BY <1>0, <1>8, <3>2, <4>1 DEF Invalidate, DoneOK, CancelledOnce
    <3> QED
      BY <2>2, <3>1, <3>2
  <2> QED
    BY <2>3, <2>4, <2>5, <2>6 DEF IInv
<1>9. ASSUME NEW o \in Orders, Fill(o) PROVE IInv'
  <2>1. TypeOK' /\ ver' = ver + 1
    BY <1>0, <1>9 DEF Fill, End, TypeOK
  <2>2. HolderOK' /\ PayloadOK' /\ BackoffOK' /\ CancelledOnce'
    BY <1>0, <1>9 DEF Fill, HolderOK, Holding, PayloadOK, BackoffOK, CancelledOnce
  <2>3. VersionsOK'
    BY <1>0, <1>9, <2>1 DEF Fill, VersionsOK, TypeOK
  <2>4. DoneOK'
    BY <1>0, <1>9 DEF Fill, End, DoneOK, TypeOK
  <2> QED
    BY <2>1, <2>2, <2>3, <2>4 DEF IInv
<1>10. CASE Tick \/ UNCHANGED vars
  <2>1. TypeOK' /\ UNCHANGED <<broker, inflight, cache, pc, calls, cancels>>
    BY <1>0, <1>10 DEF Tick, TypeOK
  <2> QED
    BY <1>0, <2>1 DEF IInv, HolderOK, Holding, PayloadOK, BackoffOK, VersionsOK,
                      DoneOK, CancelledOnce
<1> QED
  BY <1>1, <1>2, <1>3, <1>4, <1>5, <1>6, <1>7, <1>8, <1>9, <1>10 DEF Next, Step

\* IInv holds in every reachable state.
THEOREM Invariance == Spec => []IInv
<1>1. Init => IInv
  BY InitIInv
<1>2. IInv /\ [Next]_vars => IInv'
  BY InvStep
<1> QED
  BY <1>1, <1>2, PTL DEF Spec

----------------------------------------------------------------------------
(* Safety properties *)

\* Types are kept whatever the readers, the cancel loops and the broker do.
THEOREM TypeCorrect == Spec => []TypeOK
<1>1. IInv => TypeOK
  BY DEF IInv
<1> QED
  BY <1>1, Invariance, PTL

\* No loop cancels again what it has cancelled and invalidated for with no
\* GET under way: no later answer shows it (DoneOK, VersionsOK).
THEOREM CancelledOnceCorrect == Spec => []CancelledOnce
<1>1. IInv => CancelledOnce
  BY DEF IInv
<1> QED
  BY <1>1, Invariance, PTL

\* The only answers that were read: the payload served, or the GET just done.
LEMMA ReadResult ==
    ASSUME IInv, [Next]_vars, NEW c \in Callers, res'[c] # res[c], res'[c] # None
    PROVE  \/ FetchOk(c) /\ res'[c] = got[c]
           \/ payload # None /\ res'[c] = payload.ver /\ UNCHANGED <<payload, lastGood, fails>>
<1> USE DEF IInv, TypeOK
<1>a. ASSUME NEW d \in Callers, NEW v, Answer(d, v)
      PROVE  d = c /\ v # None /\ res'[c] = v
  BY <1>a DEF Answer
<1>b. res' # res
  OBVIOUS
<1>1. PICK d \in Callers : Step(d)
  BY <1>b DEF Next, Fill, Tick
<1>2. ~Call(d)
  <2> SUFFICES ASSUME Call(d) PROVE FALSE
    OBVIOUS
  <2>1. res' = [res EXCEPT ![d] = None]
    BY DEF Call
  <2> QED
    BY <2>1
<1>3. CASE FetchOk(d)
  BY <1>3, <1>a DEF FetchOk
<1>4. CASE FastPath(d) \/ SharedResult(d) \/ OwnerSkips(d)
  BY <1>4, <1>a, <1>b DEF FastPath, SharedResult, OwnerSkips, Fresh, Refuse
<1>5. ~FetchFail(d)
  BY <1>a DEF FetchFail, Refuse
<1>6. ~(TryInflight(d) \/ TakeAfterWait(d) \/ StartFetch(d) \/ Sample(d)
        \/ Cancel(d) \/ Invalidate(d))
  BY <1>b DEF TryInflight, TakeAfterWait, StartFetch, Sample, Cancel, Invalidate
<1> QED
  BY <1>1, <1>2, <1>3, <1>4, <1>5, <1>6 DEF Step

\* PayloadOK: what may be served is the last version read, with no failure since.
THEOREM FailureFenceCorrect == Spec => FailureFence
<1>1. ASSUME IInv, [Next]_vars, NEW c \in Callers, res'[c] # res[c], res'[c] # None
      PROVE  fails' = 0 /\ res'[c] = lastGood'
  BY <1>1, ReadResult DEF IInv, PayloadOK, FetchOk
<1>2. IInv /\ [Next]_vars =>
        [\A c \in Callers : res'[c] # res[c] /\ res'[c] # None =>
             fails' = 0 /\ res'[c] = lastGood']_vars
  BY <1>1
<1> QED
  BY <1>2, Invariance, PTL DEF Spec, FailureFence

\* BackoffOK: next_try_at is the last failure plus the backoff of its number.
THEOREM BackoffHonouredCorrect == Spec => BackoffHonoured
<1>1. ASSUME IInv, [Next]_vars, NEW c \in Callers, pc[c] # "get", pc'[c] = "get", fails > 0
      PROVE  now >= failedAt + Backoff[IF fails < Len(Backoff) THEN fails ELSE Len(Backoff)]
  <2>1. StartFetch(c)
    BY <1>1 DEF IInv, TypeOK, Next, Step, Call, FastPath, TryInflight, TakeAfterWait,
                SharedResult, OwnerSkips, StartFetch, Sample, FetchOk, FetchFail,
                Cancel, Invalidate, Fill, Tick, Goto, Answer, Refuse
  <2>2. now >= failedAt + BackoffWait(fails - 1)
    BY <1>1, <2>1 DEF StartFetch, ReadAllowed, IInv, BackoffOK
  <2>3. BackoffWait(fails - 1) = Backoff[IF fails < Len(Backoff) THEN fails ELSE Len(Backoff)]
    BY <1>1, BackoffAssumption DEF BackoffWait, IInv, TypeOK
  <2> QED
    BY <2>2, <2>3
<1>2. IInv /\ [Next]_vars =>
        [\A c \in Callers : pc[c] # "get" /\ pc'[c] = "get" /\ fails > 0 =>
             now >= failedAt + Backoff[IF fails < Len(Backoff) THEN fails ELSE Len(Backoff)]]_vars
  BY <1>1
<1> QED
  BY <1>2, Invariance, PTL DEF Spec, BackoffHonoured

\* VersionsOK: the payload and the answer under way are no older than the last
\* invalidation with no GET under way.
THEOREM RefetchAfterCancelCorrect == Spec => RefetchAfterCancel
<1>1. ASSUME IInv, [Next]_vars, NEW c \in Callers, res'[c] # res[c], res'[c] # None
      PROVE  cut <= res'[c]
  <2>1. CASE FetchOk(c) /\ res'[c] = got[c]
    BY <1>1, <2>1 DEF IInv, VersionsOK
  <2>2. CASE payload # None /\ res'[c] = payload.ver
    BY <1>1, <2>2 DEF IInv, VersionsOK
  <2> QED
    BY <1>1, <2>1, <2>2, ReadResult
<1>2. IInv /\ [Next]_vars =>
        [\A c \in Callers : res'[c] # res[c] /\ res'[c] # None => cut <= res'[c]]_vars
  BY <1>1
<1> QED
  BY <1>2, Invariance, PTL DEF Spec, RefetchAfterCancel

----------------------------------------------------------------------------
(* Refinement *)

\* Every step is a step of ReadPromise or a stutter.
THEOREM KeepsPromise == Spec => PromiseSpec
<1> USE NoneAssumption DEF Promise!vars
<1>1. Init => Promise!Init
  BY DEF Init, Promise!Init, Promise!Unread, InGet
<1>2. ASSUME IInv, [Next]_vars PROVE [Promise!Next]_Promise!vars
  <2> USE <1>2 DEF IInv, TypeOK
  <2> DEFINE Ans == [c \in Callers |->
                   IF pc[c] \in InGet THEN [says |-> "pending", ver |-> None]
                   ELSE IF res[c] # None THEN [says |-> "read", ver |-> res[c]]
                   ELSE [says |-> "unread", ver |-> None]]
  <2>1. ASSUME NEW c \in Callers, Call(c) PROVE Promise!Ask(c)
    <3>1. /\ \A d \in Callers \ {c} : pc'[d] = pc[d] /\ res'[d] = res[d]
          /\ pc'[c] = "fast"
      BY <2>1 DEF Call, Goto
    <3>2. Ans' = [Ans EXCEPT ![c] = Promise!Pending]
      BY <3>1 DEF Promise!Pending, InGet
    <3> QED
      BY <2>1, <3>2 DEF Call, Promise!Ask
  <2>a. ASSUME NEW c \in Callers, NEW v \in Nat \cup {None}, Answer(c, v)
        PROVE  Ans' = [Ans EXCEPT ![c] = IF v # None THEN Promise!Read(v) ELSE Promise!Unread]
    <3>1. /\ \A d \in Callers \ {c} : pc'[d] = pc[d] /\ res'[d] = res[d]
          /\ pc'[c] \in {"idle", "cancel"} /\ res'[c] = v
      BY <2>a DEF Answer, Goto
    <3> QED
      BY <3>1 DEF Promise!Read, Promise!Unread, InGet
  <2>2. ASSUME NEW c \in Callers, Answer(c, payload.ver), payload # None,
               UNCHANGED <<broker, cache>>
        PROVE  Promise!Share(c)
    <3>1. payload.ver = lastGood /\ payload.ver \in Nat
      BY <2>2 DEF PayloadOK, Snapshot
    <3> QED
      BY <2>2, <2>a, <3>1 DEF Promise!Share
  <2>3. ASSUME NEW c \in Callers, Refuse(c), payload' \in {payload, None},
               UNCHANGED <<broker, lastGood>>
        PROVE  Promise!Refuse(c)
    BY <2>3, <2>a DEF Refuse, Promise!Refuse
  <2>4. ASSUME NEW c \in Callers, FetchOk(c) PROVE Promise!Learn(c)
    <3>1. /\ lastGood' = got[c] /\ payload' = [ver |-> got[c], at |-> now]
          /\ Answer(c, got[c]) /\ got[c] # None /\ ver' = ver
      BY <2>4 DEF FetchOk
    <3>2. payload' # None
      BY <3>1
    <3>3. got[c] \in 0 .. ver /\ (lastGood # None => lastGood <= got[c])
      BY <3>1 DEF VersionsOK
    <3> QED
      BY <2>a, <3>1, <3>2, <3>3 DEF Promise!Learn
  <2>5. ASSUME NEW c \in Callers, FastPath(c)
        PROVE  Promise!Share(c) \/ UNCHANGED Promise!vars
    <3>1. CASE Goto(c, "try") /\ UNCHANGED <<calls, cancels>>
      BY <2>5, <3>1 DEF FastPath, Goto, InGet
    <3> QED
      BY <2>2, <2>5, <3>1 DEF FastPath, Fresh
  <2>6. ASSUME NEW c \in Callers, SharedResult(c) \/ OwnerSkips(c)
        PROVE  Promise!Share(c) \/ Promise!Refuse(c)
    BY <2>2, <2>3, <2>6 DEF SharedResult, OwnerSkips, Fresh
  <2>7. ASSUME NEW c \in Callers, FetchFail(c) PROVE Promise!Refuse(c)
    BY <2>3, <2>7 DEF FetchFail
  <2>8. ASSUME NEW c \in Callers,
               TryInflight(c) \/ TakeAfterWait(c) \/ StartFetch(c) \/ Sample(c)
        PROVE  UNCHANGED Promise!vars
    BY <2>8 DEF TryInflight, TakeAfterWait, StartFetch, Sample, Goto, InGet
  <2>9. ASSUME NEW c \in Callers, Cancel(c)
        PROVE  Promise!Change \/ UNCHANGED Promise!vars
    <3>1. Ans' = Ans /\ UNCHANGED <<payload, lastGood>>
      BY <2>9 DEF Cancel, Goto, InGet
    <3>2. ver' = ver + 1 \/ ver' = ver
      BY <2>9 DEF Cancel, End
    <3> QED
      BY <3>1, <3>2 DEF Promise!Change
  <2>10. ASSUME NEW c \in Callers, Invalidate(c) PROVE Promise!Withdraw
    <3>1. Ans' = Ans
      BY <2>10 DEF Invalidate, Goto, InGet
    <3> QED
      BY <2>10, <3>1 DEF Invalidate, Promise!Withdraw
  <2>11. ASSUME NEW o \in Orders, Fill(o) PROVE Promise!Change
    BY <2>11 DEF Fill, End, Promise!Change
  <2>12. CASE UNCHANGED vars \/ Tick
    BY <2>12 DEF Tick
  <2> QED
    BY <2>1, <2>4, <2>5, <2>6, <2>7, <2>8, <2>9, <2>10, <2>11, <2>12
       DEF Next, Step, Promise!Next
<1> QED
  BY <1>1, <1>2, Invariance, PTL DEF Spec, PromiseSpec, Promise!Spec
=============================================================================
