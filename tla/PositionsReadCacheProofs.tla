----------------------- MODULE PositionsReadCacheProofs -----------------------
(***************************************************************************)
(* Proofs about PositionsReadCache, for every set of callers, refetch      *)
(* window, backoff schedule and bound.  IInv is inductive; the properties  *)
(* of a step follow from it.                                               *)
(***************************************************************************)
EXTENDS PositionsReadCache, TLAPS

\* Every step of the schedule that can be waited for is a natural number.
LEMMA BackoffWaitType ==
    \A n \in Nat : BackoffWait(n) \in Nat
BY BackoffAssumption DEF BackoffWait

\* Init establishes the inductive invariant.
LEMMA InitIInv == Init => IInv
<1> SUFFICES ASSUME Init PROVE IInv
  OBVIOUS
<1> USE NoneAssumption DEF Init
<1>1. TypeOK
  BY DEF TypeOK, Labels, Result
<1>2. HolderOK
  BY DEF HolderOK, Holding
<1>3. PayloadOK /\ TimesOK /\ GotOK
  BY DEF PayloadOK, TimesOK, GotOK
<1>4. BackoffOK
  BY DEF BackoffOK
<1> QED
  BY <1>1, <1>2, <1>3, <1>4 DEF IInv

USE DEF vars, entry, callers

CallersOK ==
    /\ pc \in [Callers -> Labels]
    /\ force \in [Callers -> BOOLEAN]
    /\ t \in [Callers -> Nat]
    /\ got \in [Callers -> Nat \cup {None}]
    /\ res \in [Callers -> [ok : BOOLEAN, snap : Snapshot \cup {None}]]
    /\ \A c \in Callers : res[c].ok <=> res[c].snap # None

\* A call that returns a snapshot or None leaves well-typed callers.
LEMMA ReturnType ==
    ASSUME TypeOK, NEW c \in Callers, NEW snap \in Snapshot \cup {None},
           Return(c, Result(snap))
    PROVE  CallersOK'
<1>1. Result(snap) \in [ok : BOOLEAN, snap : Snapshot \cup {None}]
  BY DEF Result
<1>2. res' \in [Callers -> [ok : BOOLEAN, snap : Snapshot \cup {None}]]
  BY <1>1 DEF Return, TypeOK
<1>3. \A d \in Callers : res'[d].ok <=> res'[d].snap # None
  BY DEF Return, TypeOK, Result
<1> QED
  BY <1>2, <1>3 DEF Return, Goto, TypeOK, CallersOK, Labels

\* Every step keeps the types.
LEMMA TypeStep == TypeOK /\ [Next]_vars => TypeOK'
<1> SUFFICES ASSUME TypeOK, [Next]_vars PROVE TypeOK'
  OBVIOUS
<1> USE DEF TypeOK, Labels
<1>1. ASSUME NEW c \in Callers, NEW f \in BOOLEAN, Call(c, f) PROVE TypeOK'
  BY <1>1 DEF Call, Goto, Result
<1>2. ASSUME NEW c \in Callers, FastPath(c) PROVE TypeOK'
  <2>1. CASE Return(c, Result(payload))
    BY <1>2, <2>1, ReturnType DEF FastPath, CallersOK
  <2>2. CASE Goto(c, "try") /\ Stay
    BY <1>2, <2>2 DEF FastPath, Goto, Stay
  <2> QED
    BY <1>2, <2>1, <2>2 DEF FastPath
<1>3. ASSUME NEW c \in Callers, TryInflight(c) PROVE TypeOK'
  BY <1>3 DEF TryInflight, Goto
<1>4. ASSUME NEW c \in Callers, TakeAfterWait(c) PROVE TypeOK'
  BY <1>4 DEF TakeAfterWait, Goto
<1>5. ASSUME NEW c \in Callers, SharedResult(c) PROVE TypeOK'
  <2>1. ASSUME NEW snap \in {payload, None}, Return(c, Result(snap)) PROVE TypeOK'
    BY <1>5, <2>1, ReturnType DEF SharedResult, Release, CallersOK
  <2>2. CASE Goto(c, "gaveup") /\ Stay
    BY <1>5, <2>2 DEF SharedResult, Goto, Stay, Release
  <2> QED
    BY <1>5, <2>1, <2>2 DEF SharedResult
<1>6. ASSUME NEW c \in Callers, GiveUp(c) PROVE TypeOK'
  BY <1>6, ReturnType DEF GiveUp, CallersOK
<1>7. ASSUME NEW c \in Callers, OwnerSkips(c) PROVE TypeOK'
  <2>1. ASSUME NEW snap \in {payload, None}, Return(c, Result(snap)) PROVE TypeOK'
    BY <1>7, <2>1, ReturnType DEF OwnerSkips, Release, CallersOK
  <2> QED
    BY <1>7, <2>1 DEF OwnerSkips
<1>8. ASSUME NEW c \in Callers, StartFetch(c) PROVE TypeOK'
  BY <1>8 DEF StartFetch, Goto
<1>9. ASSUME NEW c \in Callers, Sample(c) PROVE TypeOK'
  BY <1>9 DEF Sample
<1>10. ASSUME NEW c \in Callers, FetchOk(c) PROVE TypeOK'
  <2>1. [ver |-> got[c], at |-> now] \in Snapshot
    BY <1>10, NoneAssumption DEF FetchOk, Snapshot
  <2>2. CallersOK'
    BY <1>10, <2>1, ReturnType DEF FetchOk
  <2> QED
    BY <1>10, <2>1, <2>2 DEF FetchOk, Release, CallersOK
<1>11. ASSUME NEW c \in Callers, FetchFail(c) PROVE TypeOK'
  <2>1. BackoffWait(failStreak) \in Nat
    BY BackoffWaitType
  <2>2. CallersOK'
    BY <1>11, ReturnType DEF FetchFail
  <2> QED
    BY <1>11, <2>1, <2>2 DEF FetchFail, Release, CallersOK
<1>12. CASE Invalidate
  BY <1>12 DEF Invalidate
<1>13. CASE Fill
  BY <1>13 DEF Fill
<1>14. CASE Tick
  BY <1>14 DEF Tick
<1>15. CASE UNCHANGED vars
  BY <1>15
<1> QED
  BY <1>1, <1>2, <1>3, <1>4, <1>5, <1>6, <1>7, <1>8, <1>9, <1>10, <1>11,
     <1>12, <1>13, <1>14, <1>15 DEF Next, Step

\* Every step keeps the inductive invariant.
LEMMA InvStep == IInv /\ [Next]_vars => IInv'
<1> SUFFICES ASSUME IInv, [Next]_vars PROVE IInv'
  OBVIOUS
<1>t. TypeOK'
  BY TypeStep DEF IInv
<1> USE NoneAssumption, <1>t DEF IInv, TypeOK, Labels, HolderOK, Holding
<1>1. ASSUME NEW c \in Callers, NEW f \in BOOLEAN, Call(c, f) PROVE IInv'
  BY <1>1 DEF Call, Goto, PayloadOK, BackoffOK, TimesOK, GotOK
<1>2. ASSUME NEW c \in Callers, FastPath(c) PROVE IInv'
  BY <1>2 DEF FastPath, Goto, Return, Stay, PayloadOK, BackoffOK, TimesOK, GotOK
<1>3. ASSUME NEW c \in Callers, TryInflight(c) PROVE IInv'
  BY <1>3 DEF TryInflight, Goto, PayloadOK, BackoffOK, TimesOK, GotOK
<1>4. ASSUME NEW c \in Callers, TakeAfterWait(c) PROVE IInv'
  BY <1>4 DEF TakeAfterWait, Goto, PayloadOK, BackoffOK, TimesOK, GotOK
<1>5. ASSUME NEW c \in Callers, SharedResult(c) PROVE IInv'
  BY <1>5 DEF SharedResult, Goto, Return, Stay, Release, PayloadOK, BackoffOK, TimesOK, GotOK
<1>6. ASSUME NEW c \in Callers, GiveUp(c) PROVE IInv'
  BY <1>6 DEF GiveUp, Goto, Return, PayloadOK, BackoffOK, TimesOK, GotOK
<1>7. ASSUME NEW c \in Callers, OwnerSkips(c) PROVE IInv'
  <2>1. /\ \E snap \in {payload, None} : Return(c, Result(snap))
        /\ Release
        /\ pc[c] = "own"
        /\ UNCHANGED <<now, ver, entry>>
    BY <1>7 DEF OwnerSkips
  <2> QED
    BY <2>1 DEF Goto, Return, Release, PayloadOK, BackoffOK, TimesOK, GotOK
<1>8. ASSUME NEW c \in Callers, StartFetch(c) PROVE IInv'
  BY <1>8 DEF StartFetch, Goto, PayloadOK, BackoffOK, TimesOK, GotOK
<1>9. ASSUME NEW c \in Callers, Sample(c) PROVE IInv'
  BY <1>9 DEF Sample, PayloadOK, BackoffOK, TimesOK, GotOK, Snapshot
<1>10. ASSUME NEW c \in Callers, FetchOk(c) PROVE IInv'
  <2>1. HolderOK'
    BY <1>10 DEF FetchOk, Goto, Return, Release
  <2>2. PayloadOK' /\ BackoffOK'
    BY <1>10 DEF FetchOk, PayloadOK, BackoffOK
  <2>3. TimesOK'
    BY <1>10 DEF FetchOk, Return, TimesOK, GotOK
  <2>4. GotOK'
    BY <1>10 DEF FetchOk, Goto, Return, GotOK
  <2> QED
    BY <1>t, <2>1, <2>2, <2>3, <2>4 DEF IInv
<1>11. ASSUME NEW c \in Callers, FetchFail(c) PROVE IInv'
  <2>1. HolderOK'
    BY <1>11 DEF FetchFail, Goto, Return, Release
  <2>2. PayloadOK' /\ BackoffOK'
    <3>1. fails' - 1 = failStreak
      BY <1>11 DEF FetchFail, BackoffOK
    <3> QED
      BY <1>11, <3>1 DEF FetchFail, PayloadOK, BackoffOK
  <2>3. TimesOK' /\ GotOK'
    BY <1>11 DEF FetchFail, Goto, Return, TimesOK, GotOK
  <2> QED
    BY <1>t, <2>1, <2>2, <2>3 DEF IInv
<1>12. CASE Invalidate
  BY <1>12 DEF Invalidate, PayloadOK, BackoffOK, TimesOK, GotOK
<1>13. CASE Fill
  BY <1>13 DEF Fill, PayloadOK, BackoffOK, TimesOK, GotOK, Snapshot
<1>14. CASE Tick
  BY <1>14 DEF Tick, PayloadOK, BackoffOK, TimesOK, GotOK, Snapshot
<1>15. CASE UNCHANGED vars
  BY <1>15 DEF PayloadOK, BackoffOK, TimesOK, GotOK
<1> QED
  BY <1>1, <1>2, <1>3, <1>4, <1>5, <1>6, <1>7, <1>8, <1>9, <1>10, <1>11,
     <1>12, <1>13, <1>14, <1>15 DEF Next, Step

\* IInv holds in every reachable state.
THEOREM Invariance == Spec => []IInv
<1>1. Init => IInv
  BY InitIInv
<1>2. IInv /\ [Next]_vars => IInv'
  BY InvStep
<1> QED
  BY <1>1, <1>2, PTL DEF Spec

----------------------------------------------------------------------------
(* Safety properties *)

\* Types are kept whatever the callers, the schedule and the broker do.
THEOREM TypeCorrect == Spec => []TypeOK
<1>1. IInv => TypeOK
  BY DEF IInv
<1> QED
  BY <1>1, Invariance, PTL

\* One GET at a time: both holders would be the one value of `inflight`.
THEOREM SingleFlightCorrect == Spec => []SingleFlight
<1>1. IInv => SingleFlight
  BY DEF IInv, HolderOK, Holding, SingleFlight
<1> QED
  BY <1>1, Invariance, PTL

\* What changes lastGood is FetchOk, whose version GotOK bounds from below.
THEOREM NoRegressionCorrect == Spec => NoRegression
<1>1. ASSUME IInv, [Next]_vars, lastGood # None
      PROVE  lastGood' # None /\ lastGood.ver <= lastGood'.ver /\ lastGood.at <= lastGood'.at
  <2> USE <1>1, NoneAssumption DEF IInv, TypeOK, Snapshot
  <2>1. ASSUME NEW c \in Callers, FetchOk(c)
        PROVE  /\ lastGood' # None
               /\ lastGood.ver <= lastGood'.ver
               /\ lastGood.at <= lastGood'.at
    BY <2>1 DEF FetchOk, GotOK, TimesOK
  <2>2. CASE lastGood' = lastGood
    BY <2>2
  <2>3. lastGood' = lastGood \/ \E c \in Callers : FetchOk(c)
    BY DEF Next, Step, Call, FastPath, TryInflight, TakeAfterWait, SharedResult,
           GiveUp, OwnerSkips, StartFetch, Sample, FetchFail, Invalidate, Fill, Tick
  <2> QED
    BY <2>1, <2>2, <2>3
<1>2. IInv /\ [Next]_vars =>
        [lastGood # None => /\ lastGood' # None
                            /\ lastGood.ver <= lastGood'.ver
                            /\ lastGood.at <= lastGood'.at]_vars
  BY <1>1
<1> QED
  BY <1>2, Invariance, PTL DEF Spec, NoRegression

\* The only results that are ok: the served payload, or the GET just done.
LEMMA OkResult ==
    ASSUME IInv, [Next]_vars, NEW c \in Callers, res'[c] # res[c], res'[c].ok
    PROVE  \/ FetchOk(c) /\ res'[c].snap = lastGood'
           \/ /\ Fresh(t[c]) \/ Fresh(now)
              /\ res'[c].snap = payload
              /\ payload' = payload
              /\ UNCHANGED <<lastGood, fails>>
<1> USE DEF IInv, TypeOK
<1>a. ASSUME NEW d \in Callers, NEW snap, Return(d, Result(snap))
      PROVE  d = c /\ snap # None /\ res'[c].snap = snap
  BY <1>a DEF Return, Result
<1>b. res' # res
  OBVIOUS
<1>1. PICK d \in Callers : Step(d)
  <2>1. ASSUME NEW d \in Callers, NEW f \in BOOLEAN PROVE ~Call(d, f)
    <3> SUFFICES ASSUME Call(d, f) PROVE FALSE
      OBVIOUS
    <3>1. res' = [res EXCEPT ![d] = Result(None)] /\ Result(None).ok = FALSE
      BY DEF Call, Result
    <3> QED
      BY <3>1
  <2> QED
    BY <2>1, <1>b DEF Next, Invalidate, Fill, Tick
<1>3. CASE FetchOk(d)
  <2>1. Return(d, Result([ver |-> got[d], at |-> now]))
        /\ lastGood' = [ver |-> got[d], at |-> now]
    BY <1>3 DEF FetchOk
  <2> QED
    BY <1>3, <2>1, <1>a
<1>4. CASE FastPath(d)
  BY <1>4, <1>a, <1>b DEF FastPath, Stay
<1>5. CASE SharedResult(d)
  BY <1>5, <1>a, <1>b DEF SharedResult, Stay
<1>6. CASE OwnerSkips(d)
  BY <1>6, <1>a, <1>b DEF OwnerSkips
<1>7. ~(GiveUp(d) \/ FetchFail(d))
  BY <1>a DEF GiveUp, FetchFail
<1>8. ~(TryInflight(d) \/ TakeAfterWait(d) \/ StartFetch(d) \/ Sample(d))
  BY <1>b DEF TryInflight, TakeAfterWait, StartFetch, Sample
<1> QED
  BY <1>1, <1>3, <1>4, <1>5, <1>6, <1>7, <1>8 DEF Step

\* PayloadOK: what may be served is the last good answer, with no failure since.
THEOREM FailureFenceCorrect == Spec => FailureFence
<1>1. ASSUME IInv, [Next]_vars, NEW c \in Callers, res'[c] # res[c], res'[c].ok
      PROVE  fails' = 0 /\ res'[c].snap = lastGood'
  <2>1. CASE FetchOk(c) /\ res'[c].snap = lastGood'
    BY <2>1 DEF FetchOk
  <2>2. CASE Fresh(t[c]) \/ Fresh(now)
    BY <1>1, <2>2, OkResult DEF Fresh, IInv, PayloadOK, FetchOk
  <2> QED
    BY <1>1, <2>1, <2>2, OkResult
<1>2. IInv /\ [Next]_vars =>
        [\A c \in Callers : res'[c] # res[c] /\ res'[c].ok =>
             fails' = 0 /\ res'[c].snap = lastGood']_vars
  BY <1>1
<1> QED
  BY <1>2, Invariance, PTL DEF Spec, FailureFence

\* BackoffOK: next_try_at is the last failure plus the backoff of its number.
THEOREM BackoffHonouredCorrect == Spec => BackoffHonoured
<1>1. ASSUME IInv, [Next]_vars, NEW c \in Callers, pc[c] # "get", pc'[c] = "get", fails > 0
      PROVE  now >= failedAt + Backoff[IF fails < Len(Backoff) THEN fails ELSE Len(Backoff)]
  <2>1. StartFetch(c)
    BY <1>1 DEF IInv, TypeOK, Next, Step, Call, FastPath, TryInflight, TakeAfterWait,
                SharedResult, GiveUp, OwnerSkips, StartFetch, Sample, FetchOk,
                FetchFail, Invalidate, Fill, Tick, Goto, Return, Stay
  <2>2. now >= failedAt + BackoffWait(fails - 1)
    BY <1>1, <2>1 DEF StartFetch, ReadAllowed, IInv, BackoffOK
  <2>3. BackoffWait(fails - 1) = Backoff[IF fails < Len(Backoff) THEN fails ELSE Len(Backoff)]
    BY <1>1, BackoffAssumption DEF BackoffWait, IInv, TypeOK
  <2> QED
    BY <2>2, <2>3
<1>2. IInv /\ [Next]_vars =>
        [\A c \in Callers : pc[c] # "get" /\ pc'[c] = "get" /\ fails > 0 =>
             now >= failedAt + Backoff[IF fails < Len(Backoff) THEN fails ELSE Len(Backoff)]]_vars
  BY <1>1
<1> QED
  BY <1>2, Invariance, PTL DEF Spec, BackoffHonoured

\* TimesOK: the call began no later than now.
THEOREM FreshResultCorrect == Spec => FreshResult
<1>1. ASSUME IInv, [Next]_vars, NEW c \in Callers, res'[c] # res[c], res'[c].ok
      PROVE  t[c] < res'[c].snap.at + Window
  <2> USE <1>1, WindowAssumption DEF IInv, TypeOK, TimesOK, Snapshot
  <2>1. CASE FetchOk(c) /\ res'[c].snap = lastGood'
    <3>1. lastGood'.at = now
      BY <2>1 DEF FetchOk
    <3> QED
      BY <2>1, <3>1
  <2>2. CASE (Fresh(t[c]) \/ Fresh(now)) /\ res'[c].snap = payload
    BY <2>2 DEF Fresh
  <2> QED
    BY <2>1, <2>2, OkResult
<1>2. IInv /\ [Next]_vars =>
        [\A c \in Callers : res'[c] # res[c] /\ res'[c].ok =>
             t[c] < res'[c].snap.at + Window]_vars
  BY <1>1
<1> QED
  BY <1>2, Invariance, PTL DEF Spec, FreshResult

----------------------------------------------------------------------------
(* Refinement *)

\* Every step of the cache is a step of ReadPromise or a stutter.
THEOREM KeepsPromise == Spec => PromiseSpec
<1> USE NoneAssumption DEF Promise!vars
<1>1. Init => Promise!Init
  <2>1. Result(None) = [ok |-> FALSE, snap |-> None]
    BY DEF Result
  <2> QED
    BY <2>1 DEF Init, Promise!Init, Promise!Unread
<1>2. ASSUME IInv, [Next]_vars PROVE [Promise!Next]_Promise!vars
  <2> USE <1>2 DEF IInv, TypeOK
  <2> DEFINE Ans == [c \in Callers |->
                   IF pc[c] # "idle" THEN [says |-> "pending", ver |-> None]
                   ELSE IF res[c].ok THEN [says |-> "read", ver |-> res[c].snap.ver]
                   ELSE [says |-> "unread", ver |-> None]]
  <2>1. ASSUME NEW c \in Callers, NEW f \in BOOLEAN, Call(c, f)
        PROVE  Promise!Ask(c)
    <3>1. \A d \in Callers \ {c} : pc'[d] = pc[d] /\ res'[d] = res[d]
      BY <2>1 DEF Call, Goto
    <3>2. pc'[c] # "idle"
      BY <2>1 DEF Call, Goto
    <3>3. Ans' = [Ans EXCEPT ![c] = Promise!Pending]
      BY <3>1, <3>2 DEF Promise!Pending
    <3> QED
      BY <2>1, <3>3 DEF Call, Promise!Ask
  <2>2. ASSUME NEW c \in Callers, Return(c, Result(payload)), payload # None,
               UNCHANGED <<ver, entry>>
        PROVE  Promise!Share(c)
    <3>1. Ans' = [Ans EXCEPT ![c] = Promise!Read(lastGood.ver)]
      BY <2>2 DEF Return, Goto, Result, PayloadOK, Promise!Read
    <3> QED
      BY <2>2, <3>1 DEF Promise!Share, PayloadOK
  <2>3. ASSUME NEW c \in Callers, Return(c, Result(None)), payload' \in {payload, None},
               UNCHANGED <<ver, lastGood>>
        PROVE  Promise!Refuse(c)
    <3>1. Ans' = [Ans EXCEPT ![c] = Promise!Unread]
      BY <2>3 DEF Return, Goto, Result, Promise!Unread
    <3> QED
      BY <2>3, <3>1 DEF Promise!Refuse
  <2>4. ASSUME NEW c \in Callers, FetchOk(c) PROVE Promise!Learn(c)
    <3> DEFINE snap == [ver |-> got[c], at |-> now]
    <3>1. lastGood' = snap /\ payload' = snap /\ Return(c, Result(snap)) /\ ver' = ver
      BY <2>4 DEF FetchOk
    <3>2. snap \in Snapshot /\ snap # None /\ snap.ver = got[c]
      BY <2>4 DEF FetchOk, Snapshot
    <3>3. Result(snap) = [ok |-> TRUE, snap |-> snap]
      BY <3>2 DEF Result
    <3> HIDE DEF snap
    <3>4. Ans' = [Ans EXCEPT ![c] = Promise!Read(got[c])]
      <4>1. \A d \in Callers \ {c} : pc'[d] = pc[d] /\ res'[d] = res[d]
        BY <3>1 DEF Return, Goto
      <4>2. pc'[c] = "idle" /\ res'[c].ok /\ res'[c].snap.ver = got[c]
        BY <3>1, <3>2, <3>3 DEF Return, Goto
      <4> QED
        BY <4>1, <4>2 DEF Promise!Read
    <3>5. got[c] \in 0 .. ver /\ (lastGood # None => lastGood.ver <= got[c])
      BY <2>4 DEF FetchOk, GotOK
    <3> QED
      BY <3>1, <3>2, <3>4, <3>5 DEF Promise!Learn
  <2>5. CASE Invalidate
    BY <2>5 DEF Invalidate, Promise!Next, Promise!Withdraw
  <2>6. CASE Fill
    BY <2>6 DEF Fill, Promise!Next, Promise!Change
  <2>7. CASE UNCHANGED vars \/ Tick
    BY <2>7 DEF Tick
  <2>8. ASSUME NEW c \in Callers, FastPath(c)
        PROVE  Promise!Share(c) \/ UNCHANGED Promise!vars
    BY <2>2, <2>8 DEF FastPath, Goto, Stay, Fresh
  <2>9. ASSUME NEW c \in Callers, SharedResult(c) \/ OwnerSkips(c)
        PROVE  Promise!Share(c) \/ Promise!Refuse(c) \/ UNCHANGED Promise!vars
    BY <2>2, <2>3, <2>9 DEF SharedResult, OwnerSkips, Goto, Stay, Fresh
  <2>10. ASSUME NEW c \in Callers, GiveUp(c) \/ FetchFail(c)
         PROVE  Promise!Refuse(c)
    BY <2>3, <2>10 DEF GiveUp, FetchFail
  <2>11. ASSUME NEW c \in Callers,
                TryInflight(c) \/ TakeAfterWait(c) \/ StartFetch(c) \/ Sample(c)
         PROVE  UNCHANGED Promise!vars
    BY <2>11 DEF TryInflight, TakeAfterWait, StartFetch, Sample, Goto
  <2> QED
    BY <2>1, <2>4, <2>5, <2>6, <2>7, <2>8, <2>9, <2>10, <2>11
       DEF Next, Step, Promise!Next
<1> QED
  BY <1>1, <1>2, Invariance, PTL DEF Spec, PromiseSpec, Promise!Spec

----------------------------------------------------------------------------
(* The mutex comes back: from a holder's first label to its last each step of
   the holder brings it on, and no step of another thread sets it back. *)

HIDE DEF vars, entry, callers

Looking(c) == inflight = c /\ pc[c] \in {"own", "shared"}
Asking(c)  == inflight = c /\ pc[c] = "get" /\ got[c] = None
Reading(c) == inflight = c /\ pc[c] = "get" /\ got[c] # None
Gone(c)    == inflight # c

\* Nothing but a step of the holder moves it.
LEMMA HolderStays ==
    ASSUME IInv, [Next]_vars, NEW c \in Callers, inflight = c, ~Step(c)
    PROVE  inflight' = c /\ pc'[c] = pc[c] /\ got'[c] = got[c]
<1>1. /\ pc \in [Callers -> Labels] /\ got \in [Callers -> Nat \cup {None}]
      /\ pc[c] \in {"own", "get", "shared"} /\ None \notin Callers
      /\ \A d \in Callers \ {c} : pc[d] \notin {"own", "get", "shared"}
  BY NoneAssumption DEF IInv, TypeOK, HolderOK, Holding
<1> USE <1>1 DEF Goto, Return, Stay, Release
<1>2. CASE Invalidate \/ Fill \/ Tick
  BY <1>2 DEF Invalidate, Fill, Tick, callers
<1>3. ASSUME NEW d \in Callers, NEW f \in BOOLEAN, Call(d, f)
      PROVE  inflight' = c /\ pc'[c] = pc[c] /\ got'[c] = got[c]
  BY <1>3 DEF Call
<1>4. ASSUME NEW d \in Callers, Step(d)
      PROVE  inflight' = c /\ pc'[c] = pc[c] /\ got'[c] = got[c]
  <2>1. d # c
    BY <1>4
  <2>2. pc[d] \in {"fast", "try", "gaveup"}
    BY <1>4, <2>1 DEF Step, FastPath, TryInflight, TakeAfterWait, SharedResult, GiveUp,
                      OwnerSkips, StartFetch, Sample, FetchOk, FetchFail
  <2>3. FastPath(d) \/ TryInflight(d) \/ GiveUp(d)
    BY <1>4, <2>2 DEF Step, TakeAfterWait, SharedResult, OwnerSkips, StartFetch, Sample,
                      FetchOk, FetchFail
  <2> QED
    BY <2>1, <2>3 DEF FastPath, TryInflight, GiveUp
<1>5. CASE UNCHANGED vars
  BY <1>5 DEF vars, callers
<1> QED
  BY <1>2, <1>3, <1>4, <1>5 DEF Next

\* Each of its steps brings the holder on, or gives the mutex back.
LEMMA HolderMoves ==
    ASSUME IInv, NEW c \in Callers, inflight = c, Step(c)
    PROVE  /\ Looking(c) => Asking(c)' \/ Gone(c)'
           /\ Asking(c) => Reading(c)' \/ Gone(c)'
           /\ Reading(c) => Gone(c)'
<1>1. /\ pc \in [Callers -> Labels] /\ got \in [Callers -> Nat \cup {None}]
      /\ ver \in Nat /\ None \notin Callers \cup Nat
      /\ pc[c] \in {"own", "get", "shared"} /\ (pc[c] # "get" => got[c] = None)
  BY NoneAssumption DEF IInv, TypeOK, HolderOK, Holding, GotOK
<1> USE <1>1 DEF Looking, Asking, Reading, Gone, Goto, Return, Stay, Release
<1>2. CASE SharedResult(c) \/ OwnerSkips(c) \/ FetchOk(c) \/ FetchFail(c)
  <2>1. inflight' = None
    BY <1>2 DEF SharedResult, OwnerSkips, FetchOk, FetchFail
  <2> QED
    BY <2>1
<1>3. CASE StartFetch(c)
  BY <1>3 DEF StartFetch
<1>4. CASE Sample(c)
  BY <1>4 DEF Sample
<1> QED
  BY <1>2, <1>3, <1>4 DEF Step, FastPath, TryInflight, TakeAfterWait, GiveUp

LEMMA HolderLeaves ==
    ASSUME NEW c \in Callers
    PROVE  Spec /\ Runs(c) => (inflight = c ~> inflight # c)
<1>1. IInv /\ [Next]_vars =>
          /\ Looking(c) => Looking(c)' \/ Asking(c)' \/ Gone(c)'
          /\ Asking(c) => Asking(c)' \/ Reading(c)' \/ Gone(c)'
          /\ Reading(c) => Reading(c)' \/ Gone(c)'
  BY HolderStays, HolderMoves DEF Looking, Asking, Reading
<1>2. IInv /\ <<Step(c)>>_vars =>
          /\ Looking(c) => Asking(c)' \/ Gone(c)'
          /\ Asking(c) => Reading(c)' \/ Gone(c)'
          /\ Reading(c) => Gone(c)'
  BY HolderMoves DEF Looking, Asking, Reading
<1>3. Looking(c) \/ Asking(c) \/ Reading(c) => CanStep(c)
  BY DEF Looking, Asking, Reading, CanStep
<1>4. IInv => ((inflight = c) <=> (Looking(c) \/ Asking(c) \/ Reading(c)))
  BY DEF IInv, HolderOK, Holding, Looking, Asking, Reading
<1>5. (inflight # c) <=> Gone(c)
  BY DEF Gone
<1> QED
  BY <1>1, <1>2, <1>3, <1>4, <1>5, Invariance, PTL DEF Spec, Runs

\* The mutex is always given back: whoever has taken it goes on, whatever the
\* other callers do and however the GET ends.
THEOREM InflightComesBack == RunningSpec => InflightReleased
<1>1. ASSUME NEW c \in Callers
      PROVE  Spec /\ Runs(c) => (inflight = c ~> inflight # c)
  BY HolderLeaves
<1> QED
  BY <1>1 DEF RunningSpec, InflightReleased
=============================================================================
