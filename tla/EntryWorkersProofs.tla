-------------------------- MODULE EntryWorkersProofs --------------------------
(***************************************************************************)
(* Proofs about EntryWorkers, for any sets of threads.                     *)
(*                                                                         *)
(* The invariant rests on who has the run lock: at most one caller, a job  *)
(* until its worker is started and that worker afterwards, is between      *)
(* begin() and start(), so that nobody else can take the slot of a worker  *)
(* in its hands.  From the same invariant come the refinement of RunTurn   *)
(* and, with the steps that the turn has left to go, that the lock is      *)
(* given back.                                                             *)
(***************************************************************************)
EXTENDS EntryWorkers, FiniteSetTheorems, TLAPS

----------------------------------------------------------------------------
(* The sorts of threads and one thread's move *)

\* What the labels of a thread of each sort are.
LEMMA Labels ==
    /\ \A j \in Jobs : LabelsOf(j) = {"idle", "lock"} \cup CallLabels
    /\ \A o \in Outer : LabelsOf(o) = {"next", "unlock", "end"} \cup CallLabels \cup SlotLabels
    /\ \A b \in Build : LabelsOf(b) = {"run"} \cup SlotLabels
    /\ \A k \in Control : LabelsOf(k) = {"wait", "core", "got", "trade"} \cup SlotLabels
    /\ \A s \in Summaries : LabelsOf(s) = {"wait", "stale", "reset", "core", "got", "trade"}
BY SortsAssumption DEF LabelsOf, Workers

\* A worker belongs to one crew.
LEMMA Crews ==
    /\ Crew["ranking"] = Outer /\ Crew["build"] = Build /\ Crew["controller"] = Control
    /\ \A k \in Kinds : Crew[k] \subseteq Workers
    /\ \A k, l \in Kinds : k # l => Crew[k] \cap Crew[l] = {}
    /\ None \notin Workers /\ None \notin Callers /\ None \notin Traders
BY SortsAssumption, NoneAssumption DEF Crew, Kinds, Workers, Callers, Traders, Threads

\* Only a pipeline run trades, only a worker has a slot.
LEMMA WhoIsWhere ==
    ASSUME TypeOK
    PROVE  /\ \A c \in Threads : pc[c] = "trade" => c \in Traders
           /\ \A c \in Threads : pc[c] \in SlotLabels => c \in Workers
           /\ \A c \in Threads : pc[c] \in CallLabels => c \in Callers
BY Labels DEF TypeOK, Threads, Workers, Callers, Traders, CallLabels, SlotLabels

\* A move of one thread changes its label and no other.
LEMMA MovePc ==
    ASSUME TypeOK, NEW c \in Threads, NEW l \in LabelsOf(c), Goto(c, l)
    PROVE  /\ DOMAIN pc' = Threads
           /\ pc'[c] = l
           /\ \A d \in Threads : d # c => pc'[d] = pc[d]
           /\ \A d \in Threads : pc'[d] \in LabelsOf(d)
BY DEF TypeOK, Goto

\* The kind of a call, and what it is about.
LEMMA KindType ==
    ASSUME TypeOK, NEW c \in Callers, pc[c] \in CallLabels
    PROVE  KindOf(c) \in Kinds /\ Crew[KindOf(c)] \subseteq Workers
<1>1. CASE c \in Jobs
  BY <1>1, Crews DEF KindOf, Kinds
<1>2. CASE c \in Outer
  <2>1. stage[c] \in 1 .. 3 /\ c \notin Jobs
    BY <1>2, SortsAssumption DEF TypeOK, HandsOK, Calls, Workers
  <2>2. Calls[stage[c]] \in Kinds
    BY <2>1 DEF Calls, Kinds
  <2> QED BY <2>1, <2>2, Crews DEF KindOf
<1> QED BY <1>1, <1>2 DEF Callers

\* Whoever holds the run lock is the only caller at work on a call.
LEMMA Alone ==
    ASSUME IInv, NEW c \in Callers, Holds(c)
    PROVE  /\ runLock
           /\ \A d \in Callers : d # c =>
                 ~Holds(d) /\ mate[d] = None /\ pc[d] \notin {"begin", "attach", "start"}
<1>1. \A d \in Callers : pc[d] \in {"begin", "attach", "start"} => Holds(d)
  BY DEF Callers, Holds, CallLabels
<1> QED BY <1>1 DEF IInv, RunLockOK, TypeOK, HandsOK

----------------------------------------------------------------------------
(* Moves that leave the slots alone *)

\* Nothing is in hand before the move or after it.
LEMMA MoveHands ==
    ASSUME TypeOK, NEW c \in Threads, NEW l \in LabelsOf(c), Goto(c, l), UNCHANGED mate,
           pc[c] \notin {"attach", "start", "begun", "made"},
           l \notin {"attach", "start", "begun", "made"},
           \A o \in Outer : o # c => stage'[o] = stage[o],
           c \in Outer /\ l \in CallLabels => stage'[c] > 0
    PROVE  HandsOK'
<1>1. /\ pc'[c] = l
      /\ \A d \in Threads : d # c => pc'[d] = pc[d]
  BY MovePc
<1>2. \A d \in Callers : d # c => KindOf(d)' = KindOf(d)
  BY DEF KindOf, Callers
<1>3. Callers \subseteq Threads /\ Workers \subseteq Threads /\ Outer \subseteq Threads
  BY DEF Callers, Workers, Threads
<1>4. \A o \in Outer : pc'[o] \in CallLabels => stage'[o] > 0
  BY <1>1, <1>3 DEF TypeOK, HandsOK
<1>5. ASSUME NEW d \in Callers
      PROVE  /\ mate'[d] # None <=> pc'[d] \in {"attach", "start"}
             /\ pc'[d] = "attach" => mate'[d] \in Crew[KindOf(d)'] /\ pc'[mate'[d]] = "begun"
             /\ pc'[d] = "start" => mate'[d] \in Crew[KindOf(d)'] /\ pc'[mate'[d]] = "made"
  <2>1. CASE d = c
    BY <1>1, <2>1 DEF TypeOK, HandsOK
  <2>2. CASE d # c
    <3>1. pc'[d] = pc[d] /\ mate'[d] = mate[d] /\ KindOf(d)' = KindOf(d)
      BY <1>1, <1>2, <1>3, <2>2
    <3>2. pc[d] \in {"attach", "start"} => mate[d] \in Threads /\ mate[d] # c
      BY <1>3 DEF TypeOK, HandsOK
    <3> QED BY <1>1, <3>1, <3>2 DEF TypeOK, HandsOK
  <2> QED BY <2>1, <2>2
<1> QED BY <1>4, <1>5 DEF HandsOK

\* No worker takes a slot or leaves it.
LEMMA MoveSlots ==
    ASSUME IInv, NEW c \in Threads, NEW l \in LabelsOf(c), Goto(c, l), UNCHANGED guard,
           c \in Workers => pc[c] \notin {"free", "pop"} /\ l \notin {"free", "begun", "made"}
    PROVE  SlotsOK'
<1> USE DEF guard
<1>1. /\ pc'[c] = l
      /\ \A d \in Threads : d # c => pc'[d] = pc[d]
  BY MovePc DEF IInv
<1>2. /\ Workers \subseteq Threads
      /\ \A k \in Kinds : Crew[k] \subseteq Workers
  BY Crews DEF Workers, Threads
<1>3. \A k \in Kinds : \A w \in Crew[k] : pc'[w] \notin {"free", "pop"} => active'[k] = w
  BY <1>1, <1>2 DEF IInv, SlotsOK
<1>4. \A k \in Kinds : active'[k] # None => active'[k] \in Crew[k] /\ pc'[active'[k]] # "free"
  BY <1>1, <1>2 DEF IInv, SlotsOK
<1>5. \A w \in Workers : pc'[w] \in {"begun", "made"} => \E d \in Callers : mate'[d] = w
  BY <1>1, <1>2 DEF IInv, SlotsOK
<1> QED BY <1>3, <1>4, <1>5 DEF SlotsOK

\* A thread that is no caller does not touch the run lock.
LEMMA MoveRunLock ==
    ASSUME IInv, NEW c \in Threads, NEW l \in LabelsOf(c), Goto(c, l), UNCHANGED runLock,
           c \in Callers => (Holds(c)' => Holds(c))
    PROVE  RunLockOK'
<1>1. \A d \in Threads : d # c => pc'[d] = pc[d]
  BY MovePc DEF IInv
<1>2. \A d \in Callers : Holds(d)' => Holds(d)
  BY <1>1 DEF Holds, Callers, Threads, Workers
<1> QED BY <1>2 DEF IInv, RunLockOK

\* Where a pipeline run has to do with the locks.
AtLock == {"stale", "reset", "got", "trade"}

\* Nothing changes there.
LEMMA KeepPipeline ==
    ASSUME IInv, UNCHANGED pipeline,
           \A c \in Traders : pc'[c] = pc[c] \/ (pc[c] \notin AtLock /\ pc'[c] \notin AtLock)
    PROVE  PipelineOK'
<1>1. UNCHANGED <<lock, got, owner>>
  BY DEF pipeline
<1>2. \A s \in Summaries : NewOK(s)' = NewOK(s)
  BY <1>1 DEF NewOK
<1>3. \A c \in Traders : \A l \in AtLock : pc'[c] = l <=> pc[c] = l
  BY DEF AtLock
<1>4. Summaries \subseteq Traders
  BY DEF Traders
<1> QED BY <1>1, <1>2, <1>3, <1>4 DEF IInv, PipelineOK, PipelineTurns, AtLock

\* A thread that moves elsewhere.
LEMMA MovePipeline ==
    ASSUME IInv, NEW c \in Threads, NEW l \in LabelsOf(c), Goto(c, l), UNCHANGED pipeline,
           pc[c] \notin AtLock, l \notin AtLock
    PROVE  PipelineOK'
<1>1. /\ pc'[c] = l
      /\ \A d \in Threads : d # c => pc'[d] = pc[d]
  BY MovePc DEF IInv
<1> QED BY <1>1, KeepPipeline DEF Traders, Threads, Workers

\* A move that leaves the guard alone, from the parts it may disturb.
LEMMA Move ==
    ASSUME IInv, NEW c \in Threads, NEW l \in LabelsOf(c), Goto(c, l), UNCHANGED guard,
           pc[c] \notin {"attach", "start", "begun", "made"},
           l \notin {"attach", "start", "begun", "made"},
           c \in Workers => pc[c] \notin {"free", "pop"} /\ l # "free",
           marked' \in BOOLEAN, runLock' \in BOOLEAN,
           stage' \in [Outer -> 0 .. Len(Calls)],
           \A o \in Outer : o # c => stage'[o] = stage[o],
           c \in Outer /\ l \in CallLabels => stage'[c] > 0,
           lock' \in Locks, got' \in [Traders -> Locks \cup {None}],
           owner' \in [Locks -> Traders \cup {None}],
           RunLockOK', PipelineOK'
    PROVE  IInv'
<1>1. HandsOK'
  BY MoveHands DEF IInv, guard
<1>2. SlotsOK'
  BY MoveSlots
<1>3. TypeOK'
  BY <1>1, MovePc DEF IInv, TypeOK, guard
<1> QED BY <1>2, <1>3 DEF IInv

----------------------------------------------------------------------------
(* The job and the run lock *)

LEMMA DispatchStep ==
    ASSUME IInv, NEW j \in Jobs, Dispatch(j)
    PROVE  IInv'
<1>1. j \in Threads /\ "lock" \in LabelsOf(j) /\ j \notin Workers /\ j \notin Outer
  BY Labels, SortsAssumption DEF Threads, Workers
<1>2. RunLockOK'
  BY <1>1, MoveRunLock, MovePc DEF Dispatch, Holds, IInv, CallLabels
<1>3. PipelineOK'
  BY <1>1, MovePipeline DEF Dispatch, AtLock
<1> QED BY <1>1, <1>2, <1>3, Move DEF Dispatch, IInv, TypeOK, pipeline, CallLabels

\* A job that holds the run lock or does not get it ends.
LEMMA JobEndsStep ==
    ASSUME IInv, NEW j \in Jobs, JobEnds(j), pc[j] \in {"lock", "begin", "join"},
           UNCHANGED <<stage, guard, pipeline>>,
           runLock' = (IF pc[j] = "begin" THEN FALSE ELSE runLock)
    PROVE  IInv'
<1>1. j \in Threads /\ "idle" \in LabelsOf(j) /\ j \notin Workers /\ j \notin Outer
  BY Labels, SortsAssumption DEF Threads, Workers
<1>2. Goto(j, "idle") /\ marked' = FALSE
  BY DEF JobEnds
<1>3. pc'[j] = "idle" /\ \A d \in Threads : d # j => pc'[d] = pc[d]
  BY <1>1, <1>2, MovePc DEF IInv
<1>4. RunLockOK'
  <2>1. ~Holds(j)'
    BY <1>1, <1>3 DEF Holds
  <2>2. CASE pc[j] = "begin"
    <3>1. Holds(j) /\ j \in Callers
      BY <2>2 DEF Holds, Callers
    <3>2. \A d \in Callers : ~Holds(d)'
      BY <1>3, <2>1, <3>1, Alone DEF Holds, Callers, Threads, Workers
    <3> QED BY <3>2 DEF RunLockOK
  <2>3. CASE pc[j] # "begin"
    BY <1>1, <1>2, <2>1, <2>3, MoveRunLock
  <2> QED BY <2>2, <2>3
<1>5. PipelineOK'
  BY <1>1, <1>2, MovePipeline DEF AtLock
<1> QED BY <1>1, <1>2, <1>4, <1>5, Move DEF IInv, TypeOK, pipeline, CallLabels

LEMMA TakeRunLockStep ==
    ASSUME IInv, NEW j \in Jobs, TakeRunLock(j)
    PROVE  IInv'
<1>1. CASE runLock
  BY <1>1, JobEndsStep DEF TakeRunLock
<1>2. CASE ~runLock
  <2>1. j \in Threads /\ "begin" \in LabelsOf(j) /\ j \notin Workers /\ j \notin Outer
    BY Labels, SortsAssumption DEF Threads, Workers, CallLabels
  <2>2. runLock' = TRUE /\ Goto(j, "begin") /\ UNCHANGED <<marked, stage, guard, pipeline>>
    BY <1>2 DEF TakeRunLock
  <2>3. pc'[j] = "begin" /\ \A d \in Threads : d # j => pc'[d] = pc[d]
    BY <2>1, <2>2, MovePc DEF IInv
  <2>4. RunLockOK'
    <3>1. \A d \in Callers : ~Holds(d)
      BY <1>2 DEF IInv, RunLockOK
    <3>2. \A d \in Callers : d # j => ~Holds(d)'
      BY <2>3, <3>1 DEF Holds, Callers, Threads, Workers
    <3> QED BY <2>2, <3>2 DEF RunLockOK
  <2>5. PipelineOK'
    BY <2>1, <2>2, MovePipeline DEF TakeRunLock, AtLock
  <2> QED BY <2>1, <2>2, <2>4, <2>5, Move DEF TakeRunLock, IInv, TypeOK, pipeline
<1> QED BY <1>1, <1>2

----------------------------------------------------------------------------
(* The ranking worker and the build *)

\* An outer worker goes on and keeps the run lock.
LEMMA OuterGoesOn ==
    ASSUME IInv, NEW o \in Outer, NEW l \in {"next", "begin", "unlock"}, Goto(o, l),
           pc[o] \in {"next", "begin", "join"},
           UNCHANGED <<marked, runLock, guard, pipeline>>,
           stage' \in [Outer -> 0 .. Len(Calls)],
           \A p \in Outer : p # o => stage'[p] = stage[p],
           l = "begin" => stage'[o] > 0
    PROVE  IInv'
<1>1. o \in Threads /\ l \in LabelsOf(o)
  BY Labels DEF Threads, Workers, CallLabels
<1>2. Holds(o)
  BY DEF Holds, CallLabels
<1>3. RunLockOK'
  BY <1>1, <1>2, MoveRunLock
<1>4. PipelineOK'
  BY <1>1, MovePipeline DEF AtLock
<1> QED BY <1>1, <1>3, <1>4, Move DEF IInv, TypeOK, pipeline, CallLabels

LEMMA ProceedStep ==
    ASSUME IInv, NEW o \in Outer, Proceed(o)
    PROVE  IInv'
<1>1. pc[o] = "next" /\ UNCHANGED <<marked, runLock, guard, pipeline>>
  BY DEF Proceed
<1>2. CASE Goto(o, "unlock") /\ UNCHANGED stage
  BY <1>1, <1>2, OuterGoesOn DEF IInv, TypeOK
<1>3. ASSUME NEW i \in 1 .. Len(Calls), stage' = [stage EXCEPT ![o] = i], Goto(o, "begin")
      PROVE  IInv'
  <2>1. i > 0 /\ i \in 0 .. Len(Calls)
    BY DEF Calls
  <2>2. /\ stage' \in [Outer -> 0 .. Len(Calls)] /\ stage'[o] > 0
        /\ \A p \in Outer : p # o => stage'[p] = stage[p]
    BY <1>3, <2>1 DEF IInv, TypeOK
  <2> QED BY <1>1, <1>3, <2>2, OuterGoesOn
<1> QED BY <1>2, <1>3 DEF Proceed

LEMMA UnlockStep ==
    ASSUME IInv, NEW o \in Outer, Unlock(o)
    PROVE  IInv'
<1>1. o \in Threads /\ "end" \in LabelsOf(o) /\ o \in Callers /\ o \notin Jobs
  BY Labels, SortsAssumption DEF Threads, Workers, Callers
<1>2. pc'[o] = "end" /\ \A d \in Threads : d # o => pc'[d] = pc[d]
  BY <1>1, MovePc DEF IInv, Unlock
<1>3. RunLockOK'
  <2>1. Holds(o)
    BY DEF Unlock, Holds
  <2>2. ~Holds(o)'
    BY <1>1, <1>2 DEF Holds, CallLabels
  <2>3. \A d \in Callers : ~Holds(d)'
    BY <1>1, <1>2, <2>1, <2>2, Alone DEF Holds, Callers, Threads, Workers
  <2> QED BY <2>3 DEF RunLockOK
<1>4. PipelineOK'
  BY <1>1, MovePipeline DEF Unlock, AtLock
<1>5. stage' \in [Outer -> 0 .. Len(Calls)] /\ \A p \in Outer : p # o => stage'[p] = stage[p]
  BY DEF Unlock, IInv, TypeOK, Calls
<1> QED BY <1>1, <1>3, <1>4, <1>5, Move DEF Unlock, IInv, TypeOK, pipeline, CallLabels

LEMMA FinishStep ==
    ASSUME IInv, NEW o \in Outer, Finish(o)
    PROVE  IInv'
<1>1. o \in Threads /\ "pop" \in LabelsOf(o) /\ o \notin Jobs
  BY Labels, SortsAssumption DEF Threads, Workers, SlotLabels
<1>2. RunLockOK'
  BY <1>1, MoveRunLock, MovePc DEF Finish, Holds, IInv, CallLabels
<1>3. PipelineOK'
  BY <1>1, MovePipeline DEF Finish, AtLock
<1> QED BY <1>1, <1>2, <1>3, Move DEF Finish, IInv, TypeOK, pipeline, CallLabels

LEMMA BuiltStep ==
    ASSUME IInv, NEW b \in Build, Built(b)
    PROVE  IInv'
<1>1. b \in Threads /\ "pop" \in LabelsOf(b) /\ b \notin Callers /\ b \notin Outer
  BY Labels, SortsAssumption DEF Threads, Workers, SlotLabels, Callers
<1>2. RunLockOK'
  BY <1>1, MoveRunLock DEF Built
<1>3. PipelineOK'
  BY <1>1, MovePipeline DEF Built, AtLock
<1> QED BY <1>1, <1>2, <1>3, Move DEF Built, IInv, TypeOK, pipeline

----------------------------------------------------------------------------
(* The pipeline *)

\* A thread of the pipeline moves on, once what it does to the lock is known.
LEMMA TraderMoves ==
    ASSUME IInv, NEW c \in Traders, NEW l \in {"core", "wait", "pop"} \cup AtLock,
           l \in LabelsOf(c), Goto(c, l), pc[c] \in {"core", "wait"} \cup AtLock,
           UNCHANGED <<marked, runLock, stage, guard>>,
           lock' \in Locks, got' \in [Traders -> Locks \cup {None}],
           owner' \in [Locks -> Traders \cup {None}],
           PipelineOK'
    PROVE  IInv'
<1>1. c \in Threads /\ c \notin Callers /\ c \notin Outer
  BY SortsAssumption DEF Threads, Workers, Callers, Traders
<1>2. RunLockOK'
  BY <1>1, MoveRunLock
<1> QED BY <1>1, <1>2, Move DEF IInv, TypeOK, AtLock

\* Where a run goes when it is over.
LEMMA LeaveGoto ==
    ASSUME NEW c \in Traders, Leave(c)
    PROVE  \E l \in {"wait", "pop"} : l \in LabelsOf(c) /\ Goto(c, l)
BY Labels, SortsAssumption DEF Leave, Traders, SlotLabels

\* What a step of c does to the labels and to what the others have fetched.
LEMMA TraderPc ==
    ASSUME IInv, NEW c \in Traders, NEW l \in LabelsOf(c), Goto(c, l)
    PROVE  /\ c \in Threads /\ pc'[c] = l
           /\ \A d \in Traders : d # c => pc'[d] = pc[d]
BY MovePc DEF IInv, Traders, Threads, Workers

\* The lock of the start, if it is still there, is the only one that is used.
LEMMA OnlyFirst ==
    ASSUME IInv, lock = First, NEW c \in Traders, got[c] \in Locks
    PROVE  got[c] = First
BY DEF IInv, PipelineOK, NewOK, Locks

\* A run that does not have a lock leaves.
LEMMA LeaveStep ==
    ASSUME IInv, NEW c \in Traders, Leave(c), pc[c] \in {"wait", "stale", "got"},
           UNCHANGED <<marked, runLock, stage, guard, lock, owner>>
    PROVE  IInv'
<1>1. PICK l \in {"wait", "pop"} : l \in LabelsOf(c) /\ Goto(c, l)
  BY LeaveGoto
<1>2. /\ pc'[c] = l /\ \A d \in Traders : d # c => pc'[d] = pc[d]
  BY <1>1, TraderPc
<1>3. /\ got' \in [Traders -> Locks \cup {None}] /\ got'[c] = None
      /\ \A d \in Traders : d # c => got'[d] = got[d]
  BY DEF Leave, IInv, TypeOK
<1>4. None \notin Locks
  BY FirstAssumption, NoneAssumption DEF Locks, Threads
<1>5. PipelineOK'
  <2>1. \A d \in Traders : got'[d] \in Locks <=> pc'[d] \in {"got", "trade"}
    BY <1>1, <1>2, <1>3, <1>4 DEF IInv, PipelineOK
  <2>2. \A s \in Summaries : NewOK(s) => NewOK(s)'
    BY <1>3, <1>4 DEF NewOK, Locks
  <2>3. \A s \in Summaries : pc'[s] \in {"stale", "reset"} => pc[s] \in {"stale", "reset"}
    BY <1>1, <1>2 DEF Traders
  <2>4. PipelineTurns'
    BY <1>1, <1>2, <1>3 DEF IInv, PipelineOK, PipelineTurns
  <2> QED BY <2>1, <2>2, <2>3, <2>4 DEF IInv, PipelineOK
<1> QED BY <1>1, <1>3, <1>5, TraderMoves DEF IInv, TypeOK, AtLock

LEMMA WaitStep ==
    ASSUME IInv, NEW c \in Traders, Wait(c)
    PROVE  IInv'
<1>1. pc[c] = "wait" /\ UNCHANGED <<marked, runLock, stage, guard, lock, owner>>
  BY DEF Wait
<1>2. CASE Leave(c)
  BY <1>1, <1>2, LeaveStep
<1>3. CASE Goto(c, "core") /\ UNCHANGED got
  <2>1. c \in Threads /\ "core" \in LabelsOf(c)
    BY Labels DEF Traders, Threads, Workers
  <2>2. PipelineOK'
    BY <1>1, <1>3, <2>1, MovePipeline DEF pipeline, AtLock
  <2> QED BY <1>1, <1>3, <2>1, <2>2, TraderMoves DEF IInv, TypeOK
<1>4. CASE SeenHeld /\ c \in Summaries /\ Goto(c, "stale") /\ UNCHANGED got
  <2>1. "stale" \in LabelsOf(c)
    BY <1>4, Labels
  <2>2. /\ pc'[c] = "stale" /\ \A d \in Traders : d # c => pc'[d] = pc[d]
    BY <1>4, <2>1, TraderPc
  <2>3. PipelineOK'
    <3>1. \A s \in Summaries : NewOK(s)'
      BY <1>1, <1>4 DEF SeenHeld, IInv, PipelineOK, NewOK
    <3>2. \A d \in Traders : pc'[d] \in {"got", "trade"} <=> pc[d] \in {"got", "trade"}
      BY <1>1, <2>2
    <3>3. \A d \in Traders : pc'[d] = "trade" => pc[d] = "trade"
      BY <1>1, <2>2
    <3> QED BY <1>1, <1>4, <3>1, <3>2, <3>3 DEF IInv, PipelineOK, PipelineTurns
  <2> QED BY <1>1, <1>4, <2>1, <2>3, TraderMoves DEF IInv, TypeOK, AtLock
<1> QED BY <1>2, <1>3, <1>4 DEF Wait

LEMMA MayResetStep ==
    ASSUME IInv, NEW s \in Summaries, MayReset(s)
    PROVE  IInv'
<1>1. s \in Traders /\ pc[s] = "stale" /\ UNCHANGED <<marked, runLock, stage, guard, lock, owner>>
  BY DEF MayReset, Traders
<1>2. CASE Leave(s)
  BY <1>1, <1>2, LeaveStep
<1>3. CASE Goto(s, "reset") /\ UNCHANGED got
  <2>1. "reset" \in LabelsOf(s)
    BY Labels
  <2>2. /\ pc'[s] = "reset" /\ \A d \in Traders : d # s => pc'[d] = pc[d]
    BY <1>1, <1>3, <2>1, TraderPc
  <2>3. PipelineOK'
    <3>1. \A t \in Summaries : pc'[t] \in {"stale", "reset"} <=> pc[t] \in {"stale", "reset"}
      BY <1>1, <2>2 DEF Traders
    <3>2. \A d \in Traders : pc'[d] \in {"got", "trade"} <=> pc[d] \in {"got", "trade"}
      BY <1>1, <2>2
    <3>3. \A d \in Traders : pc'[d] = "trade" => pc[d] = "trade"
      BY <1>1, <2>2
    <3> QED BY <1>1, <1>3, <3>1, <3>2, <3>3 DEF IInv, PipelineOK, PipelineTurns, NewOK
  <2> QED BY <1>1, <1>3, <2>1, <2>3, TraderMoves DEF IInv, TypeOK, AtLock
<1> QED BY <1>2, <1>3 DEF MayReset

LEMMA ResetStep ==
    ASSUME IInv, NEW s \in Summaries, Reset(s)
    PROVE  IInv'
<1>1. /\ s \in Traders /\ s \in Locks /\ s # First /\ "core" \in LabelsOf(s)
      /\ pc[s] = "reset" /\ lock' = s /\ Goto(s, "core")
      /\ UNCHANGED <<marked, runLock, stage, guard, got, owner>>
  BY Labels, FirstAssumption DEF Reset, Traders, Locks
<1>2. /\ pc'[s] = "core" /\ \A d \in Traders : d # s => pc'[d] = pc[d]
  BY <1>1, TraderPc
<1>3. PipelineOK'
  <2>1. ASSUME NEW t \in Summaries, pc'[t] \in {"stale", "reset"} PROVE NewOK(t)'
    <3>1. t # s /\ pc[t] \in {"stale", "reset"}
      BY <1>2, <2>1 DEF Traders
    <3> QED BY <1>1, <3>1 DEF IInv, PipelineOK, NewOK
  <2>2. \A d \in Traders : pc'[d] \in {"got", "trade"} <=> pc[d] \in {"got", "trade"}
    BY <1>1, <1>2
  <2>3. \A d \in Traders : pc'[d] = "trade" => pc[d] = "trade"
    BY <1>1, <1>2
  <2> QED BY <1>1, <2>1, <2>2, <2>3 DEF IInv, PipelineOK, PipelineTurns
<1> QED BY <1>1, <1>3, TraderMoves DEF IInv, TypeOK, AtLock

LEMMA FetchStep ==
    ASSUME IInv, NEW c \in Traders, Fetch(c)
    PROVE  IInv'
<1>1. /\ pc[c] = "core" /\ "got" \in LabelsOf(c) /\ Goto(c, "got")
      /\ UNCHANGED <<marked, runLock, stage, guard, lock, owner>>
  BY Labels DEF Fetch, Traders
<1>2. /\ pc'[c] = "got" /\ \A d \in Traders : d # c => pc'[d] = pc[d]
  BY <1>1, TraderPc
<1>3. /\ got' \in [Traders -> Locks \cup {None}] /\ got'[c] = lock /\ lock \in Locks
      /\ \A d \in Traders : d # c => got'[d] = got[d]
  BY DEF Fetch, IInv, TypeOK
<1>4. PipelineOK'
  <2>1. \A d \in Traders : got'[d] \in Locks <=> pc'[d] \in {"got", "trade"}
    BY <1>2, <1>3 DEF IInv, PipelineOK
  <2>2. \A s \in Summaries : NewOK(s) => NewOK(s)'
    BY <1>1, <1>3 DEF NewOK
  <2>3. \A s \in Summaries : pc'[s] \in {"stale", "reset"} => pc[s] \in {"stale", "reset"}
    BY <1>2 DEF Traders
  <2>4. PipelineTurns'
    BY <1>1, <1>2, <1>3 DEF IInv, PipelineOK, PipelineTurns
  <2> QED BY <1>1, <2>1, <2>2, <2>3, <2>4 DEF IInv, PipelineOK
<1> QED BY <1>1, <1>3, <1>4, TraderMoves DEF IInv, TypeOK, AtLock

\* A run that gets the lock it has fetched takes it from nobody.
LEMMA EnterStep ==
    ASSUME IInv, NEW c \in Traders, Enter(c)
    PROVE  IInv'
<1> DEFINE l == got[c]
<1>1. /\ "trade" \in LabelsOf(c) /\ pc[c] = "got"
      /\ UNCHANGED <<marked, runLock, stage, guard, lock>>
  BY Labels DEF Enter, Traders
<1>2. CASE Leave(c) /\ UNCHANGED owner
  BY <1>1, <1>2, LeaveStep
<1>3. CASE owner[l] = None /\ owner' = [owner EXCEPT ![l] = c] /\ Goto(c, "trade") /\ UNCHANGED got
  <2>1. /\ pc'[c] = "trade" /\ \A d \in Traders : d # c => pc'[d] = pc[d]
    BY <1>1, <1>3, TraderPc
  <2>2. l \in Locks
    BY <1>1 DEF IInv, PipelineOK
  <2>3. /\ owner' \in [Locks -> Traders \cup {None}] /\ owner'[l] = c
        /\ \A m \in Locks : m # l => owner'[m] = owner[m]
    BY <1>3, <2>2 DEF IInv, TypeOK
  <2>4. PipelineOK'
    <3>1. \A d \in Traders : got'[d] \in Locks <=> pc'[d] \in {"got", "trade"}
      BY <1>1, <1>3, <2>1 DEF IInv, PipelineOK
    <3>2. \A s \in Summaries : NewOK(s) => NewOK(s)'
      BY <1>1, <1>3, <2>3 DEF NewOK, Locks
    <3>3. \A s \in Summaries : pc'[s] \in {"stale", "reset"} => pc[s] \in {"stale", "reset"}
      BY <2>1 DEF Traders
    <3>4. ASSUME NEW d \in Traders, pc'[d] = "trade" PROVE got'[d] \in Locks /\ owner'[got'[d]] = d
      <4>1. CASE d = c
        BY <1>3, <2>2, <2>3, <4>1
      <4>2. CASE d # c
        <5>1. got[d] \in Locks /\ owner[got[d]] = d
          BY <2>1, <3>4, <4>2 DEF IInv, PipelineOK, PipelineTurns
        <5>2. got[d] # l
          BY <1>3, <5>1, Crews
        <5> QED BY <1>3, <2>3, <5>1, <5>2
      <4> QED BY <4>1, <4>2
    <3>5. PipelineTurns'
      BY <3>4 DEF PipelineTurns
    <3> QED BY <1>1, <3>1, <3>2, <3>3, <3>5 DEF IInv, PipelineOK
  <2> QED BY <1>1, <1>3, <2>3, <2>4, TraderMoves DEF IInv, TypeOK, AtLock
<1> QED BY <1>2, <1>3 DEF Enter

\* A release frees the lock of the run that releases, or none.
LEMMA ReleaseStep ==
    ASSUME IInv, NEW c \in Traders, Release(c)
    PROVE  IInv'
<1>1. /\ pc[c] = "trade" /\ lock' = lock /\ Leave(c)
      /\ UNCHANGED <<marked, runLock, stage, guard>>
      /\ owner' = IF lock = First \/ owner[lock] = c THEN [owner EXCEPT ![lock] = None] ELSE owner
  BY DEF Release
<1>2. PICK l \in {"wait", "pop"} : l \in LabelsOf(c) /\ Goto(c, l)
  BY <1>1, LeaveGoto
<1>3. /\ pc'[c] = l /\ \A d \in Traders : d # c => pc'[d] = pc[d]
  BY <1>2, TraderPc
<1>4. /\ got' \in [Traders -> Locks \cup {None}] /\ got'[c] = None
      /\ \A d \in Traders : d # c => got'[d] = got[d]
  BY <1>1 DEF Leave, IInv, TypeOK
<1>5. None \notin Locks
  BY FirstAssumption, NoneAssumption DEF Locks, Threads
<1>6. /\ owner' \in [Locks -> Traders \cup {None}]
      /\ \A m \in Locks : owner'[m] = owner[m] \/ (m = lock /\ owner'[m] = None)
  BY <1>1 DEF IInv, TypeOK
<1>7. got[c] \in Locks /\ owner[got[c]] = c
  BY <1>1 DEF IInv, PipelineOK, PipelineTurns
<1>8. owner' # owner => owner[lock] = c
  BY <1>1, <1>7, OnlyFirst
<1>9. PipelineOK'
  <2>1. \A d \in Traders : got'[d] \in Locks <=> pc'[d] \in {"got", "trade"}
    BY <1>2, <1>3, <1>4, <1>5 DEF IInv, PipelineOK
  <2>2. \A s \in Summaries : NewOK(s) => NewOK(s)'
    BY <1>1, <1>4, <1>5, <1>6 DEF NewOK, Locks
  <2>3. \A s \in Summaries : pc'[s] \in {"stale", "reset"} => pc[s] \in {"stale", "reset"}
    BY <1>2, <1>3 DEF Traders
  <2>4. ASSUME NEW d \in Traders, pc'[d] = "trade" PROVE got'[d] \in Locks /\ owner'[got'[d]] = d
    <3>1. d # c
      BY <1>2, <1>3, <2>4
    <3>2. got[d] \in Locks /\ owner[got[d]] = d
      BY <1>3, <2>4, <3>1 DEF IInv, PipelineOK, PipelineTurns
    <3>3. owner'[got[d]] = d
      BY <1>6, <1>8, <3>1, <3>2
    <3> QED BY <1>4, <3>1, <3>2, <3>3
  <2>5. PipelineTurns'
    BY <2>4 DEF PipelineTurns
  <2> QED BY <1>1, <2>1, <2>2, <2>3, <2>5 DEF IInv, PipelineOK
<1> QED BY <1>1, <1>2, <1>4, <1>6, <1>9, TraderMoves DEF IInv, TypeOK, AtLock

----------------------------------------------------------------------------
(* The caller, its worker and the slot *)

\* Nobody has a worker in hand but the caller that is at its call.
LEMMA NobodyElse ==
    ASSUME IInv, NEW c \in Callers, pc[c] \in {"begin", "attach", "start"}
    PROVE  /\ Holds(c) /\ runLock
           /\ \A d \in Callers : d # c =>
                 ~Holds(d) /\ mate[d] = None /\ pc[d] \notin {"begin", "attach", "start"}
<1>1. Holds(c)
  BY DEF Callers, Holds, CallLabels
<1> QED BY <1>1, Alone

\* A slot that is taken from a worker was the slot of one that has finished.
LEMMA SlotTaken ==
    ASSUME IInv, NEW c \in Callers, pc[c] = "begin", NEW k \in Kinds,
           active[k] # None, ~Blocks(active[k])
    PROVE  pc[active[k]] = "pop"
<1>1. mate[c] = None
  BY DEF IInv, TypeOK, HandsOK
<1>2. \A d \in Callers : mate[d] = None
  BY <1>1, NobodyElse
<1>3. active[k] \in Workers
  BY Crews DEF IInv, TypeOK
<1>4. pc[active[k]] # "made"
  BY <1>2, <1>3, Crews DEF IInv, SlotsOK
<1> QED BY <1>4 DEF Blocks

\* A worker of the kind is made and takes the slot.
LEMMA GrantedStep ==
    ASSUME IInv, NEW c \in Callers, pc[c] = "begin",
           active[KindOf(c)] # None => ~Blocks(active[KindOf(c)]),
           NEW w \in Crew[KindOf(c)], pc[w] = "free",
           active' = [active EXCEPT ![KindOf(c)] = w],
           mate' = [mate EXCEPT ![c] = w],
           pc' = [pc EXCEPT ![c] = "attach", ![w] = "begun"],
           UNCHANGED <<marked, runLock, stage, pipeline>>
    PROVE  IInv'
<1>1. KindOf(c) \in Kinds /\ w \in Workers /\ w \in Threads /\ c \in Threads /\ w # c /\ w # None
  BY KindType, Crews DEF IInv, CallLabels, Threads, Callers, Workers
<1>2. /\ DOMAIN pc' = Threads /\ pc'[c] = "attach" /\ pc'[w] = "begun"
      /\ \A d \in Threads : d # c /\ d # w => pc'[d] = pc[d]
  BY <1>1 DEF IInv, TypeOK
<1>3. \A d \in Callers : d # c => mate[d] = None /\ pc[d] \notin {"attach", "start"}
  BY NobodyElse
<1>4. \A d \in Callers : KindOf(d)' = KindOf(d)
  BY DEF KindOf
<1>5. \A d \in Threads : pc'[d] \in LabelsOf(d)
  BY <1>1, <1>2, Labels DEF IInv, TypeOK, Callers, Workers, CallLabels, SlotLabels
<1>6. /\ active' \in [Kinds -> Workers \cup {None}] /\ mate' \in [Callers -> Workers \cup {None}]
      /\ active'[KindOf(c)] = w /\ \A k \in Kinds : k # KindOf(c) => active'[k] = active[k]
      /\ mate'[c] = w /\ \A d \in Callers : d # c => mate'[d] = mate[d]
  BY <1>1 DEF IInv, TypeOK
<1>7. HandsOK'
  <2>1. \A o \in Outer : pc'[o] \in CallLabels => stage'[o] > 0
    BY <1>2 DEF IInv, TypeOK, HandsOK, Threads, Workers, CallLabels
  <2>2. \A d \in Callers : d # c => pc'[d] \notin {"attach", "start"} /\ mate'[d] = None
    BY <1>2, <1>3, <1>6 DEF Callers, Threads, Workers
  <2> QED BY <1>1, <1>2, <1>4, <1>6, <2>1, <2>2 DEF HandsOK
<1>8. TypeOK'
  BY <1>2, <1>5, <1>6, <1>7 DEF IInv, TypeOK, pipeline
<1>9. RunLockOK'
  <2>1. Holds(c) /\ runLock /\ \A d \in Callers : d # c => ~Holds(d)
    BY NobodyElse
  <2>2. \A d \in Callers : d # c => ~Holds(d)'
    BY <1>2, <2>1 DEF Holds, Callers, Threads, Workers, CallLabels
  <2> QED BY <2>1, <2>2 DEF RunLockOK
<1>10. SlotsOK'
  <2>1. active[KindOf(c)] # None => pc[active[KindOf(c)]] = "pop"
    BY <1>1, SlotTaken
  <2>2. ASSUME NEW k \in Kinds, NEW x \in Crew[k], pc'[x] \notin {"free", "pop"}
        PROVE  active'[k] = x
    <3>1. x \in Threads
      BY Crews DEF Threads, Workers
    <3>2. CASE x = w
      BY <1>1, <1>6, <3>2, Crews
    <3>3. CASE x # w
      <4>1. pc[x] \notin {"free", "pop"}
        BY <1>2, <2>2, <3>1, <3>3
      <4>2. active[k] = x /\ x # None
        BY <4>1, <2>2, Crews DEF IInv, SlotsOK
      <4>3. k # KindOf(c)
        BY <2>1, <4>1, <4>2
      <4> QED BY <1>6, <4>2, <4>3
    <3> QED BY <3>2, <3>3
  <2>3. ASSUME NEW k \in Kinds, active'[k] # None
        PROVE  active'[k] \in Crew[k] /\ pc'[active'[k]] # "free"
    <3>1. CASE k = KindOf(c)
      BY <1>2, <1>6, <3>1
    <3>2. CASE k # KindOf(c)
      <4>1. active[k] \in Crew[k] /\ pc[active[k]] # "free" /\ active'[k] = active[k]
        BY <1>6, <2>3, <3>2 DEF IInv, SlotsOK
      <4>2. active[k] \in Threads
        BY <4>1, Crews DEF Threads, Workers
      <4> QED BY <1>2, <4>1, <4>2
    <3> QED BY <3>1, <3>2
  <2>4. ASSUME NEW x \in Workers, pc'[x] \in {"begun", "made"}
        PROVE  \E d \in Callers : mate'[d] = x
    <3>1. CASE x = w
      BY <1>6, <3>1
    <3>2. CASE x # w
      <4>1. pc[x] \in {"begun", "made"}
        BY <1>2, <2>4, <3>2 DEF Threads
      <4>2. PICK d \in Callers : mate[d] = x
        BY <4>1 DEF IInv, SlotsOK
      <4>3. d # c
        BY <4>2, Crews DEF IInv, TypeOK, HandsOK
      <4> QED BY <1>6, <4>2, <4>3
    <3> QED BY <3>1, <3>2
  <2> QED BY <2>2, <2>3, <2>4 DEF SlotsOK
<1>11. PipelineOK'
  BY <1>1, <1>2, KeepPipeline DEF IInv, Traders, Threads, Workers, AtLock
<1> QED BY <1>8, <1>9, <1>10, <1>11 DEF IInv

LEMMA BeginStep ==
    ASSUME IInv, NEW c \in Callers, Begin(c)
    PROVE  IInv'
<1>1. pc[c] = "begin" /\ UNCHANGED <<stage, pipeline>>
  BY DEF Begin
<1>2. CASE Refused(c) /\ UNCHANGED guard
  <2>1. CASE c \in Jobs
    BY <1>1, <1>2, <2>1, JobEndsStep DEF Refused
  <2>2. CASE c \notin Jobs
    BY <1>1, <1>2, <2>2, OuterGoesOn DEF Refused, Callers, IInv, TypeOK
  <2> QED BY <2>1, <2>2
<1>3. ASSUME active[KindOf(c)] # None => ~Blocks(active[KindOf(c)]),
             NEW w \in Crew[KindOf(c)], pc[w] = "free",
             active' = [active EXCEPT ![KindOf(c)] = w],
             mate' = [mate EXCEPT ![c] = w],
             pc' = [pc EXCEPT ![c] = "attach", ![w] = "begun"],
             UNCHANGED <<marked, runLock>>
      PROVE  IInv'
  BY <1>1, <1>3, GrantedStep
<1> QED BY <1>2, <1>3 DEF Begin

\* What a caller and its worker have in common while it is in hand.
LEMMA InHand ==
    ASSUME IInv, NEW c \in Callers, pc[c] \in {"attach", "start"}
    PROVE  /\ mate[c] \in Crew[KindOf(c)] /\ KindOf(c) \in Kinds
           /\ mate[c] \in Workers /\ mate[c] \in Threads /\ c \in Threads
           /\ mate[c] # c /\ mate[c] # None
           /\ pc[mate[c]] = IF pc[c] = "attach" THEN "begun" ELSE "made"
<1>1. mate[c] \in Crew[KindOf(c)] /\ pc[mate[c]] = IF pc[c] = "attach" THEN "begun" ELSE "made"
  BY DEF IInv, TypeOK, HandsOK
<1>2. KindOf(c) \in Kinds /\ mate[c] \in Workers /\ mate[c] # None
  BY <1>1, KindType, Crews DEF IInv, CallLabels
<1> QED BY <1>1, <1>2 DEF Threads, Callers, Workers

LEMMA AttachStep ==
    ASSUME IInv, NEW c \in Callers, Attach(c)
    PROVE  IInv'
<1> DEFINE w == mate[c]
<1>1. /\ pc[c] = "attach" /\ pc' = [pc EXCEPT ![c] = "start", ![w] = "made"]
      /\ UNCHANGED <<marked, runLock, stage, mate, active, lock, got, owner>>
  BY DEF Attach, guard, pipeline
<1>2. /\ w \in Crew[KindOf(c)] /\ KindOf(c) \in Kinds /\ w \in Workers /\ w \in Threads
      /\ c \in Threads /\ w # c /\ w # None /\ pc[w] = "begun"
  BY <1>1, InHand
<1> HIDE DEF w
<1>3. /\ DOMAIN pc' = Threads /\ pc'[c] = "start" /\ pc'[w] = "made"
      /\ \A d \in Threads : d # c /\ d # w => pc'[d] = pc[d]
  BY <1>1, <1>2 DEF IInv, TypeOK
<1>4. \A d \in Callers : d # c => ~Holds(d) /\ mate[d] = None /\ pc[d] \notin {"attach", "start"}
  BY <1>1, NobodyElse
<1>5. \A d \in Threads : pc'[d] \in LabelsOf(d)
  BY <1>2, <1>3, Labels DEF IInv, TypeOK, Callers, Workers, CallLabels, SlotLabels
<1>6. HandsOK'
  <2>1. \A o \in Outer : pc'[o] \in CallLabels => stage'[o] > 0
    BY <1>1, <1>3 DEF IInv, TypeOK, HandsOK, Threads, Workers, CallLabels
  <2>2. \A d \in Callers : d # c => pc'[d] \notin {"attach", "start"} /\ mate'[d] = None
    BY <1>1, <1>3, <1>4 DEF Callers, Threads, Workers
  <2>3. mate'[c] = w /\ KindOf(c)' = KindOf(c)
    BY <1>1 DEF KindOf, w
  <2> QED BY <1>2, <1>3, <2>1, <2>2, <2>3 DEF HandsOK
<1>7. TypeOK'
  BY <1>1, <1>3, <1>5, <1>6 DEF IInv, TypeOK
<1>8. RunLockOK'
  <2>1. Holds(c) /\ runLock
    BY <1>1, NobodyElse
  <2>2. \A d \in Callers : d # c => ~Holds(d)'
    BY <1>3, <1>4 DEF Holds, Callers, Threads, Workers, CallLabels
  <2> QED BY <1>1, <2>1, <2>2 DEF RunLockOK
<1>9. SlotsOK'
  <2>1. \A d \in Workers : pc'[d] \in {"free", "pop"} <=> pc[d] \in {"free", "pop"}
    BY <1>1, <1>2, <1>3 DEF Threads
  <2>2. \A d \in Workers : pc'[d] = "free" <=> pc[d] = "free"
    BY <1>1, <1>2, <1>3 DEF Threads
  <2>3. \A d \in Workers : pc'[d] \in {"begun", "made"} => pc[d] \in {"begun", "made"}
    BY <1>2, <1>3 DEF Threads
  <2> QED BY <1>1, <2>1, <2>2, <2>3, Crews DEF IInv, SlotsOK
<1>10. PipelineOK'
  BY <1>1, <1>2, <1>3, KeepPipeline DEF pipeline, Traders, Threads, Workers, AtLock
<1> QED BY <1>7, <1>8, <1>9, <1>10 DEF IInv

\* The run lock passes from the job to the worker it starts.
LEMMA StartStep ==
    ASSUME IInv, NEW c \in Callers, Start(c)
    PROVE  IInv'
<1> DEFINE w == mate[c]
           first == CASE w \in Outer -> "next" [] w \in Build -> "run" [] OTHER -> "wait"
<1>1. /\ pc[c] = "start" /\ pc' = [pc EXCEPT ![c] = "join", ![w] = first]
      /\ mate' = [mate EXCEPT ![c] = None]
      /\ UNCHANGED <<marked, runLock, stage, active, lock, got, owner>>
  BY DEF Start, pipeline
<1>2. /\ w \in Crew[KindOf(c)] /\ KindOf(c) \in Kinds /\ w \in Workers /\ w \in Threads
      /\ c \in Threads /\ w # c /\ w # None /\ pc[w] = "made"
  BY <1>1, InHand
<1>3. /\ first \in LabelsOf(w) /\ first \in {"next", "run", "wait"}
      /\ first = "next" <=> w \in Outer
  BY <1>2, Labels, SortsAssumption DEF Workers
<1> HIDE DEF w, first
<1>4. /\ DOMAIN pc' = Threads /\ pc'[c] = "join" /\ pc'[w] = first
      /\ \A d \in Threads : d # c /\ d # w => pc'[d] = pc[d]
  BY <1>1, <1>2 DEF IInv, TypeOK
<1>5. \A d \in Callers : d # c => ~Holds(d) /\ mate[d] = None /\ pc[d] \notin {"attach", "start"}
  BY <1>1, NobodyElse
<1>6. \A d \in Threads : pc'[d] \in LabelsOf(d)
  BY <1>2, <1>3, <1>4, Labels DEF IInv, TypeOK, Callers, Workers, CallLabels
<1>7. mate' = [d \in Callers |-> None]
  BY <1>1, <1>5 DEF IInv, TypeOK
<1>8. HandsOK'
  <2>1. \A o \in Outer : pc'[o] \in CallLabels => stage'[o] > 0
    BY <1>1, <1>3, <1>4 DEF IInv, TypeOK, HandsOK, Threads, Workers, CallLabels
  <2>2. \A d \in Callers : pc'[d] \notin {"attach", "start"}
    BY <1>3, <1>4, <1>5 DEF Callers, Threads, Workers
  <2> QED BY <1>7, <2>1, <2>2 DEF HandsOK
<1>9. TypeOK'
  BY <1>1, <1>4, <1>6, <1>7, <1>8 DEF IInv, TypeOK
<1>10. RunLockOK'
  <2>1. runLock
    BY <1>1, NobodyElse
  <2>2. \A d \in Callers : d # c /\ d # w => ~Holds(d)'
    BY <1>4, <1>5 DEF Holds, Callers, Threads, Workers, CallLabels
  <2>3. CASE c \in Jobs
    <3>1. ~Holds(c)'
      BY <1>4, <2>3, SortsAssumption DEF Holds, Workers
    <3> QED BY <1>1, <2>1, <2>2, <3>1 DEF RunLockOK
  <2>4. CASE c \in Outer
    <3>1. KindOf(c) \in {"build", "controller"}
      BY <1>1, <2>4, SortsAssumption DEF KindOf, IInv, TypeOK, HandsOK, CallLabels, Calls, Workers
    <3>2. w \notin Callers
      BY <1>2, <3>1, Crews, SortsAssumption DEF Callers, Workers
    <3> QED BY <1>1, <2>1, <2>2, <3>2 DEF RunLockOK
  <2> QED BY <2>3, <2>4 DEF Callers
<1>11. SlotsOK'
  <2>1. \A d \in Workers : pc'[d] \in {"free", "pop"} <=> pc[d] \in {"free", "pop"}
    BY <1>1, <1>2, <1>3, <1>4 DEF Threads
  <2>2. \A d \in Workers : pc'[d] = "free" <=> pc[d] = "free"
    BY <1>1, <1>2, <1>3, <1>4 DEF Threads
  <2>3. \A d \in Workers : pc'[d] \notin {"begun", "made"}
    <3>1. ASSUME NEW d \in Workers, pc'[d] \in {"begun", "made"} PROVE FALSE
      <4>1. d # w /\ d # c /\ pc[d] \in {"begun", "made"}
        BY <1>3, <1>4, <3>1 DEF Threads
      <4>2. PICK e \in Callers : mate[e] = d
        BY <4>1 DEF IInv, SlotsOK
      <4>3. e = c
        BY <1>5, <4>2, Crews
      <4> QED BY <4>1, <4>2, <4>3 DEF w
    <3> QED BY <3>1
  <2> QED BY <1>1, <2>1, <2>2, <2>3, Crews DEF IInv, SlotsOK
<1>12. PipelineOK'
  BY <1>1, <1>2, <1>3, <1>4, KeepPipeline DEF pipeline, Traders, Threads, Workers, AtLock
<1> QED BY <1>9, <1>10, <1>11, <1>12 DEF IInv

LEMMA JoinStep ==
    ASSUME IInv, NEW c \in Callers, Join(c)
    PROVE  IInv'
<1>1. CASE c \in Jobs
  BY <1>1, JobEndsStep DEF Join
<1>2. CASE c \notin Jobs
  BY <1>2, OuterGoesOn DEF Join, Callers, IInv, TypeOK
<1> QED BY <1>1, <1>2

LEMMA PopStep ==
    ASSUME IInv, NEW w \in Workers, Pop(w)
    PROVE  IInv'
<1>1. /\ pc[w] = "pop" /\ Goto(w, "free")
      /\ active' = [k \in Kinds |-> IF active[k] = w THEN None ELSE active[k]]
      /\ UNCHANGED <<marked, runLock, stage, mate, pipeline>>
  BY DEF Pop
<1>2. w \in Threads /\ "free" \in LabelsOf(w) /\ w \notin Jobs
  BY Labels, SortsAssumption DEF Threads, Workers, SlotLabels
<1>3. pc'[w] = "free" /\ \A d \in Threads : d # w => pc'[d] = pc[d]
  BY <1>1, <1>2, MovePc DEF IInv
<1>4. HandsOK'
  BY <1>1, <1>2, MoveHands DEF IInv, CallLabels
<1>5. TypeOK'
  BY <1>1, <1>2, <1>4, MovePc DEF IInv, TypeOK, pipeline
<1>6. RunLockOK'
  BY <1>1, <1>2, <1>3, MoveRunLock DEF Holds, CallLabels
<1>7. SlotsOK'
  <2>1. \A d \in Workers : d # w => pc'[d] = pc[d]
    BY <1>3 DEF Threads
  <2>2. \A k \in Kinds : active'[k] = IF active[k] = w THEN None ELSE active[k]
    BY <1>1
  <2> QED BY <1>1, <1>3, <2>1, <2>2, Crews DEF IInv, SlotsOK
<1>8. PipelineOK'
  BY <1>1, <1>2, MovePipeline DEF AtLock
<1> QED BY <1>5, <1>6, <1>7, <1>8 DEF IInv

----------------------------------------------------------------------------
(* The theorems *)

LEMMA InitIInv == Init => IInv
<1> SUFFICES ASSUME Init PROVE IInv
  OBVIOUS
<1>1. /\ \A j \in Jobs : pc[j] = "idle"
      /\ \A w \in Workers : pc[w] = "free"
      /\ \A s \in Summaries : pc[s] = "wait"
  BY SortsAssumption DEF Init, Threads, Workers
<1>2. \A c \in Threads : pc[c] \in LabelsOf(c)
  BY <1>1, Labels DEF Threads, Workers, SlotLabels
<1>3. \A c \in Callers : pc[c] \notin CallLabels /\ ~Holds(c)
  BY <1>1 DEF Callers, Workers, CallLabels, Holds
<1>4. TypeOK
  <2>1. DOMAIN pc = Threads
    BY DEF Init
  <2>2. HandsOK
    BY <1>3 DEF Init, HandsOK, CallLabels, Callers
  <2>3. stage \in [Outer -> 0 .. Len(Calls)]
    BY DEF Init, Calls
  <2>4. mate \in [Callers -> Workers \cup {None}] /\ active \in [Kinds -> Workers \cup {None}]
    BY DEF Init
  <2>5. /\ marked \in BOOLEAN /\ runLock \in BOOLEAN /\ lock \in Locks
        /\ got \in [Traders -> Locks \cup {None}] /\ owner \in [Locks -> Traders \cup {None}]
    BY DEF Init, Locks
  <2> QED BY <1>2, <2>1, <2>2, <2>3, <2>4, <2>5 DEF TypeOK
<1>5. RunLockOK
  BY <1>3 DEF RunLockOK
<1>6. SlotsOK
  BY <1>1, Crews DEF Init, SlotsOK
<1>7. PipelineOK
  BY <1>1, FirstAssumption, NoneAssumption
     DEF Init, PipelineOK, PipelineTurns, NewOK, Locks, Traders, Threads, Workers
<1> QED BY <1>4, <1>5, <1>6, <1>7 DEF IInv

LEMMA NextIInv == IInv /\ [Next]_vars => IInv'
<1> SUFFICES ASSUME IInv, [Next]_vars PROVE IInv'
  OBVIOUS
<1>1. CASE UNCHANGED vars
  BY <1>1 DEF vars, IInv, TypeOK, HandsOK, KindOf, RunLockOK, Holds, SlotsOK, PipelineOK, PipelineTurns, NewOK
<1>2. CASE StaleClear
  BY <1>2 DEF StaleClear, guard, pipeline,
              IInv, TypeOK, HandsOK, KindOf, RunLockOK, Holds, SlotsOK, PipelineOK, PipelineTurns, NewOK
<1>3. ASSUME NEW j \in Jobs, Dispatch(j) \/ TakeRunLock(j) PROVE IInv'
  BY <1>3, DispatchStep, TakeRunLockStep
<1>4. ASSUME NEW c \in Callers, Call(c) PROVE IInv'
  BY <1>4, BeginStep, AttachStep, StartStep, JoinStep DEF Call
<1>5. ASSUME NEW w \in Workers, Pop(w) PROVE IInv'
  BY <1>5, PopStep
<1>6. ASSUME NEW o \in Outer, Proceed(o) \/ Unlock(o) \/ Finish(o) PROVE IInv'
  BY <1>6, ProceedStep, UnlockStep, FinishStep
<1>7. ASSUME NEW b \in Build, Built(b) PROVE IInv'
  BY <1>7, BuiltStep
<1>8. ASSUME NEW s \in Summaries, MayReset(s) \/ Reset(s) PROVE IInv'
  BY <1>8, MayResetStep, ResetStep
<1>9. ASSUME NEW c \in Traders, Wait(c) \/ Fetch(c) \/ Enter(c) \/ Release(c) PROVE IInv'
  BY <1>9, WaitStep, FetchStep, EnterStep, ReleaseStep
<1> QED BY <1>1, <1>2, <1>3, <1>4, <1>5, <1>6, <1>7, <1>8, <1>9 DEF Next

\* The inductive invariant holds in every reachable state.
THEOREM Invariance == Spec => []IInv
BY InitIInv, NextIInv, PTL DEF Spec

\* Types, and a worker that is made is in the hands of one caller until it runs.
THEOREM TypeCorrect == Spec => []TypeOK
<1>1. IInv => TypeOK
  BY DEF IInv
<1> QED BY <1>1, Invariance, PTL

\* worker_guard.py: two workers of a kind never run at a time.
THEOREM OneWorkerCorrect == Spec => []OneWorker
<1>1. IInv => OneWorker
  BY DEF IInv, SlotsOK, OneWorker, SlotLabels
<1> QED BY <1>1, Invariance, PTL

\* entry_controller.py: no release frees the pipeline lock of another run.
THEOREM PipelineTurnsCorrect == Spec => []PipelineTurns
<1>1. IInv => PipelineTurns
  BY DEF IInv, PipelineOK
<1> QED BY <1>1, Invariance, PTL

\* worker_guard.py, begin() and finish(): a slot is lost only by a worker that
\* has finished.
THEOREM NoSlotLostCorrect == Spec => NoSlotLost
<1> DEFINE A == \A k \in Kinds : active'[k] # active[k] /\ active[k] # None => pc[active[k]] = "pop"
<1>1. IInv /\ [Next]_vars => [A]_vars
  <2> SUFFICES ASSUME IInv, Next PROVE A
    BY DEF vars
  <2>1. CASE UNCHANGED active
    BY <2>1
  <2>2. ASSUME NEW c \in Callers, Begin(c) PROVE A
    <3>1. CASE UNCHANGED guard
      BY <3>1 DEF guard
    <3>2. ASSUME active[KindOf(c)] # None => ~Blocks(active[KindOf(c)]),
                 NEW w, active' = [active EXCEPT ![KindOf(c)] = w]
          PROVE  A
      <4>1. pc[c] = "begin" /\ KindOf(c) \in Kinds
        BY <2>2, KindType DEF Begin, IInv, CallLabels
      <4>2. \A k \in Kinds : active'[k] # active[k] => k = KindOf(c)
        BY <3>2 DEF IInv, TypeOK
      <4> QED BY <3>2, <4>1, <4>2, SlotTaken
    <3> QED BY <2>2, <3>1, <3>2 DEF Begin
  <2>3. ASSUME NEW w \in Workers, Pop(w) PROVE A
    BY <2>3 DEF Pop
  <2> QED BY <2>1, <2>2, <2>3 DEF Next, Call, guard, StaleClear, Dispatch, TakeRunLock, Attach,
                                  Start, Join, Proceed, Unlock, Finish, Built, MayReset, Reset, Wait, Fetch, Enter, Release
<1> QED BY <1>1, Invariance, PTL DEF Spec, NoSlotLost

----------------------------------------------------------------------------
(* The run lock is somebody's turn *)

Held == {"begin", "attach", "start", "join", "next", "unlock"}

\* A step is one of the thread whose turn it is, takes the run lock that is
\* free, or moves a thread whose turn it neither is nor becomes.
LEMMA StepKinds ==
    ASSUME IInv, Next
    PROVE  \/ \E c \in Callers : TurnStep(c)
           \/ \E j \in Jobs : TakeRunLock(j) /\ ~runLock
           \/ /\ UNCHANGED <<runLock, stage>>
              /\ \/ UNCHANGED pc
                 \/ \E t \in Threads : \E l \in LabelsOf(t) :
                       Goto(t, l) /\ (t \in Callers => ~Holds(t) /\ l \notin Held)
<1> DEFINE Aside(t) == \E l \in LabelsOf(t) :
                           Goto(t, l) /\ (t \in Callers => ~Holds(t) /\ l \notin Held)
           Goal == \/ \E c \in Callers : TurnStep(c)
                   \/ \E j \in Jobs : TakeRunLock(j) /\ ~runLock
                   \/ UNCHANGED <<runLock, stage>> /\ (UNCHANGED pc \/ \E t \in Threads : Aside(t))
<1>0. /\ Jobs \subseteq Threads /\ Workers \subseteq Threads /\ Outer \subseteq Threads
      /\ Build \subseteq Threads /\ Traders \subseteq Threads
      /\ Jobs \subseteq Callers /\ Outer \subseteq Callers /\ Jobs \cap Outer = {}
      /\ Build \cap Callers = {} /\ Traders \cap Callers = {}
  BY SortsAssumption DEF Threads, Workers, Callers, Traders
<1>1. CASE StaleClear
  BY <1>1 DEF StaleClear
<1>2. ASSUME NEW j \in Jobs, Dispatch(j) PROVE Goal
  <2>1. Goto(j, "lock") /\ "lock" \in LabelsOf(j) /\ ~Holds(j)
    BY <1>0, <1>2, Labels DEF Dispatch, Holds
  <2> QED BY <1>0, <1>2, <2>1 DEF Dispatch, Held
<1>3. ASSUME NEW j \in Jobs, JobEnds(j), UNCHANGED <<runLock, stage>>, pc[j] \in {"lock", "join"}
      PROVE  Goal
  <2>1. Goto(j, "idle") /\ "idle" \in LabelsOf(j) /\ ~Holds(j)
    BY <1>0, <1>3, Labels DEF JobEnds, Holds
  <2> QED BY <1>0, <1>3, <2>1 DEF Held
<1>4. ASSUME NEW j \in Jobs, TakeRunLock(j) PROVE Goal
  BY <1>3, <1>4 DEF TakeRunLock
<1>5. ASSUME NEW c \in Callers, Call(c) PROVE Goal
  <2>1. CASE Holds(c)
    BY <1>5, <2>1 DEF TurnStep
  <2>2. CASE ~Holds(c)
    <3>1. c \in Jobs /\ Join(c)
      BY <1>5, <2>2 DEF Holds, Callers, Call, Begin, Attach, Start, Join, CallLabels
    <3> QED BY <1>3, <3>1 DEF Join
  <2> QED BY <2>1, <2>2
<1>6. ASSUME NEW w \in Workers, Pop(w) PROVE Goal
  <2>1. Goto(w, "free") /\ "free" \in LabelsOf(w) /\ ~Holds(w)
    BY <1>6, Labels, SortsAssumption DEF Pop, Holds, Workers, SlotLabels, CallLabels
  <2> QED BY <1>0, <1>6, <2>1 DEF Pop, Held
<1>7. ASSUME NEW o \in Outer, Proceed(o) \/ Unlock(o) PROVE Goal
  <2>1. Holds(o)
    BY <1>7 DEF Holds, Proceed, Unlock
  <2> QED BY <1>0, <1>7, <2>1 DEF TurnStep
<1>8. ASSUME NEW o \in Outer, Finish(o) PROVE Goal
  <2>1. Goto(o, "pop") /\ "pop" \in LabelsOf(o) /\ ~Holds(o)
    BY <1>0, <1>8, Labels DEF Finish, Holds, SlotLabels, CallLabels
  <2> QED BY <1>0, <1>8, <2>1 DEF Finish, Held
<1>9. ASSUME NEW b \in Build, Built(b) PROVE Goal
  <2>1. Goto(b, "pop") /\ "pop" \in LabelsOf(b)
    BY <1>9, Labels DEF Built, SlotLabels
  <2> QED BY <1>0, <1>9, <2>1 DEF Built
<1>10. ASSUME NEW c \in Traders, UNCHANGED <<runLock, stage>>,
              Leave(c) \/ \E l \in LabelsOf(c) : Goto(c, l)
       PROVE  Goal
  <2>1. Aside(c)
    BY <1>0, <1>10, LeaveGoto
  <2> QED BY <1>0, <1>10, <2>1
<1>11. ASSUME NEW s \in Summaries, MayReset(s) \/ Reset(s) PROVE Goal
  <2>1. s \in Traders /\ "reset" \in LabelsOf(s) /\ "core" \in LabelsOf(s)
    BY Labels DEF Traders
  <2> QED BY <1>10, <1>11, <2>1 DEF MayReset, Reset
<1>12. ASSUME NEW c \in Traders, Wait(c) \/ Fetch(c) \/ Enter(c) \/ Release(c) PROVE Goal
  <2>1. /\ "core" \in LabelsOf(c) /\ "got" \in LabelsOf(c) /\ "trade" \in LabelsOf(c)
        /\ c \in Summaries => "stale" \in LabelsOf(c)
    BY Labels DEF Traders
  <2> QED BY <1>10, <1>12, <2>1 DEF Wait, Fetch, Enter, Release
<1> QED BY <1>1, <1>2, <1>4, <1>5, <1>6, <1>7, <1>8, <1>9, <1>11, <1>12 DEF Next

\* How far the turn of c has to go until the run lock is free: the steps that
\* are left at most.
Togo(c) ==
    IF c \in Jobs
    THEN CASE pc[c] = "begin" -> 20 [] pc[c] = "attach" -> 19 [] OTHER -> 18
    ELSE 5 * (3 - stage[c]) +
         CASE pc[c] = "begin" -> 6 [] pc[c] = "attach" -> 5 [] pc[c] = "start" -> 4
           [] pc[c] = "join" -> 3 [] pc[c] = "next" -> 2 [] OTHER -> 1

LEMMA TogoType ==
    ASSUME NEW c \in Callers
    PROVE  /\ TypeOK /\ Holds(c) => Togo(c) \in 1 .. 20
           /\ TypeOK' /\ Holds(c)' => Togo(c)' \in 1 .. 20
BY SortsAssumption DEF Togo, TypeOK, HandsOK, Holds, Callers, Calls, CallLabels, Workers

\* What another thread does leaves the turn where it is.
LEMMA TurnStays ==
    ASSUME IInv, [Next]_vars, NEW c \in Callers, Holds(c), ~TurnStep(c)
    PROVE  runLock' /\ Holds(c)' /\ Togo(c)' = Togo(c)
<1>1. runLock /\ \A d \in Callers : d # c => ~Holds(d)
  BY Alone
<1>2. UNCHANGED <<runLock, stage>> /\ pc'[c] = pc[c]
  <2>1. CASE UNCHANGED vars
    BY <2>1 DEF vars
  <2>2. CASE Next
    <3>1. ~ \E d \in Callers : TurnStep(d)
      BY <1>1 DEF TurnStep
    <3>2. /\ UNCHANGED <<runLock, stage>>
          /\ \/ UNCHANGED pc
             \/ \E t \in Threads : \E l \in LabelsOf(t) : Goto(t, l) /\ (t \in Callers => ~Holds(t))
      BY <1>1, <2>2, <3>1, StepKinds
    <3>3. c \in Threads
      BY DEF Callers, Threads, Workers
    <3> QED BY <3>2, <3>3, MovePc DEF IInv
  <2> QED BY <2>1, <2>2
<1> QED BY <1>1, <1>2 DEF Holds, Togo

\* A step of the thread whose turn it is brings it nearer to its end: it keeps
\* the turn, hands it to the worker it starts, or gives it back.
LEMMA TurnMoves ==
    ASSUME IInv, IInv', NEW c \in Callers, TurnStep(c)
    PROVE  \/ ~runLock'
           \/ Holds(c)' /\ Togo(c)' < Togo(c)
           \/ c \in Jobs /\ \E o \in Outer : Holds(o)' /\ Togo(o)' < Togo(c)
<1>0. /\ Holds(c) /\ c \in Threads /\ (c \in Jobs => c \notin Outer)
      /\ (c \in Jobs \/ (c \in Outer /\ c \notin Jobs))
      /\ DOMAIN pc = Threads
  <2>1. Holds(c) /\ DOMAIN pc = Threads
    BY DEF TurnStep, IInv, TypeOK
  <2>2. c \in Threads /\ (c \in Jobs \/ c \in Outer) /\ Jobs \cap Outer = {}
    BY SortsAssumption DEF Callers, Threads, Workers
  <2> QED BY <2>1, <2>2
<1>1. c \in Outer => stage[c] \in 0 .. 3 /\ stage'[c] \in 0 .. 3
  BY DEF IInv, TypeOK, Calls
<1>2. ASSUME NEW l \in Held, pc'[c] = l, c \in Jobs => l \in {"begin", "attach", "start"}
      PROVE  Holds(c)'
  BY <1>0, <1>2 DEF Holds, Held, CallLabels
<1>3. CASE Begin(c)
  <2>0. pc[c] = "begin" /\ stage' = stage
    BY <1>3 DEF Begin
  <2>1. CASE Refused(c) /\ c \in Jobs
    BY <2>1 DEF Refused
  <2>2. CASE Refused(c) /\ c \notin Jobs
    <3>1. pc'[c] = "next"
      BY <1>0, <2>2 DEF Refused, Goto
    <3> QED BY <1>0, <1>1, <1>2, <2>0, <2>2, <3>1 DEF Togo, Held
  <2>3. CASE \E w \in Crew[KindOf(c)] :
                 pc[w] = "free" /\ pc' = [pc EXCEPT ![c] = "attach", ![w] = "begun"]
    <3>1. pc'[c] = "attach"
      BY <1>0, <2>0, <2>3
    <3> QED BY <1>0, <1>1, <1>2, <2>0, <3>1 DEF Togo, Held
  <2> QED BY <1>3, <2>1, <2>2, <2>3 DEF Begin
<1>4. CASE Attach(c)
  <2>1. pc[c] = "attach" /\ pc'[c] = "start" /\ stage' = stage
    BY <1>0, <1>4, InHand DEF Attach
  <2> QED BY <1>0, <1>1, <1>2, <2>1 DEF Togo, Held
<1>5. CASE Start(c)
  <2>0. pc[c] = "start" /\ stage' = stage
    BY <1>5 DEF Start
  <2>1. PICK w \in Crew[KindOf(c)] : w = mate[c] /\ w # c /\ w \in Threads
    BY <2>0, InHand
  <2>2. pc'[c] = "join" /\ (w \in Outer => pc'[w] = "next")
    <3> DEFINE first == CASE w \in Outer -> "next" [] w \in Build -> "run" [] OTHER -> "wait"
    <3>1. pc' = [pc EXCEPT ![c] = "join", ![w] = first]
      BY <1>5, <2>1 DEF Start
    <3>2. w \in Outer => first = "next"
      BY SortsAssumption
    <3> HIDE DEF first
    <3> QED BY <1>0, <2>1, <3>1, <3>2
  <2>3. CASE c \in Outer
    BY <1>0, <1>1, <1>2, <2>0, <2>2, <2>3 DEF Togo, Held
  <2>4. CASE c \in Jobs
    <3>1. w \in Outer /\ w \notin Jobs
      BY <2>1, <2>4, Crews, SortsAssumption DEF KindOf, Workers
    <3>2. Holds(w)' /\ stage'[w] \in 0 .. 3
      BY <2>2, <3>1 DEF Holds, IInv, TypeOK, Calls
    <3>3. Togo(w)' < Togo(c)
      BY <2>0, <2>2, <2>4, <3>1, <3>2 DEF Togo
    <3> QED BY <2>4, <3>1, <3>2, <3>3
  <2> QED BY <1>0, <2>3, <2>4
<1>6. CASE Join(c)
  <2>1. pc[c] = "join" /\ stage' = stage
    BY <1>6 DEF Join
  <2>2. c \in Outer /\ pc'[c] = "next"
    BY <1>0, <1>6, <2>1 DEF Join, Goto, Holds
  <2> QED BY <1>0, <1>1, <1>2, <2>1, <2>2 DEF Togo, Held
<1>7. CASE c \in Outer /\ Proceed(c)
  <2>1. pc[c] = "next"
    BY <1>7 DEF Proceed
  <2>2. CASE Goto(c, "unlock") /\ UNCHANGED stage
    <3>1. pc'[c] = "unlock"
      BY <1>0, <2>2 DEF Goto
    <3> QED BY <1>0, <1>1, <1>2, <1>7, <2>1, <2>2, <3>1 DEF Togo, Held
  <2>3. CASE Goto(c, "begin") /\ stage'[c] > stage[c]
    <3>1. pc'[c] = "begin"
      BY <1>0, <2>3 DEF Goto
    <3> QED BY <1>0, <1>1, <1>2, <1>7, <2>1, <2>3, <3>1 DEF Togo, Held
  <2> QED BY <1>1, <1>7, <2>2, <2>3 DEF Proceed, IInv, TypeOK
<1>8. CASE Unlock(c)
  BY <1>8 DEF Unlock
<1> QED BY <1>3, <1>4, <1>5, <1>6, <1>7, <1>8 DEF TurnStep, Call

\* Where it is nobody's turn, somebody takes it or it stays nobody's.
LEMMA NobodysTurn ==
    ASSUME IInv, [Next]_vars, \A c \in Callers : ~Holds(c)
    PROVE  \/ ~runLock /\ runLock' /\ \E j \in Jobs : Holds(j)'
           \/ runLock' = runLock /\ \A c \in Callers : ~Holds(c)'
<1>1. CASE UNCHANGED vars
  BY <1>1 DEF vars, Holds
<1>2. ASSUME NEW j \in Jobs, TakeRunLock(j), ~runLock
      PROVE  runLock' /\ Holds(j)'
  <2>1. pc'[j] = "begin" /\ runLock'
    BY <1>2 DEF TakeRunLock, Goto, IInv, TypeOK, Threads
  <2> QED BY <2>1 DEF Holds
<1>3. CASE UNCHANGED <<runLock, stage, pc>>
  BY <1>3 DEF Holds
<1>4. ASSUME UNCHANGED runLock, NEW t \in Threads, NEW l \in LabelsOf(t), Goto(t, l),
             t \in Callers => l \notin Held
      PROVE  \A c \in Callers : ~Holds(c)'
  <2>1. pc'[t] = l /\ \A d \in Threads : d # t => pc'[d] = pc[d]
    BY <1>4, MovePc DEF IInv
  <2> QED BY <1>4, <2>1 DEF Holds, Held, CallLabels, Callers, Threads, Workers
<1>5. ~ \E c \in Callers : TurnStep(c)
  BY DEF TurnStep
<1> QED BY <1>1, <1>2, <1>3, <1>4, <1>5, StepKinds

HIDE DEF Held
\* tasks.py: the run lock implements RunTurn.  Nobody takes it while it is
\* somebody's turn, it passes from the job to its worker only, and only the
\* thread whose turn it is gives it back.
THEOREM TurnCorrect == Spec => TurnSpec
<1> DEFINE H == {c \in Callers : Holds(c)}
<1>1. Init => Turn!Init
  <2> SUFFICES ASSUME Init PROVE Turn!Init
    OBVIOUS
  <2>1. ~runLock /\ \A c \in Callers : ~Holds(c)
    BY InitIInv DEF IInv, RunLockOK, Init
  <2> QED BY <2>1 DEF Turn!Init
<1>2. IInv /\ [Next]_vars => [Turn!Next]_Turn!vars
  <2> SUFFICES ASSUME IInv, [Next]_vars PROVE [Turn!Next]_Turn!vars
    OBVIOUS
  <2>0. IInv'
    BY NextIInv
  <2>1. ASSUME NEW c \in Callers, Holds(c) PROVE H = {c} /\ runLock
    BY <2>1, Alone
  <2>2. ASSUME NEW c \in Callers, Holds(c)' PROVE H' = {c} /\ runLock'
    BY <2>0, <2>2 DEF IInv, RunLockOK
  <2>3. ~runLock' => H' = {}
    BY <2>0 DEF IInv, RunLockOK
  <2>4. ASSUME NEW c \in Callers, Holds(c), ~TurnStep(c) PROVE UNCHANGED Turn!vars
    BY <2>1, <2>2, <2>4, TurnStays DEF Turn!vars
  <2>5. ASSUME NEW c \in Callers, TurnStep(c) PROVE [Turn!Next]_Turn!vars
    <3>1. H = {c} /\ runLock
      BY <2>1, <2>5 DEF TurnStep
    <3>2. CASE ~runLock'
      BY <2>3, <3>1, <3>2 DEF Turn!Next, Turn!GiveBack, Callers
    <3>3. CASE Holds(c)'
      BY <2>2, <3>1, <3>3 DEF Turn!vars
    <3>4. ASSUME c \in Jobs, NEW o \in Outer, Holds(o)' PROVE Turn!Next
      BY <2>2, <3>1, <3>4 DEF Turn!Next, Turn!Hand, Callers
    <3> QED BY <2>0, <2>5, <3>2, <3>3, <3>4, TurnMoves
  <2>6. ASSUME \A c \in Callers : ~Holds(c) PROVE [Turn!Next]_Turn!vars
    <3>1. H = {}
      BY <2>6
    <3>2. ASSUME ~runLock, NEW j \in Jobs, Holds(j)' PROVE Turn!Next
      BY <2>2, <3>2 DEF Turn!Next, Turn!Take, Callers
    <3>3. ASSUME runLock' = runLock, \A c \in Callers : ~Holds(c)' PROVE UNCHANGED Turn!vars
      BY <3>1, <3>3 DEF Turn!vars
    <3> QED BY <2>6, <3>2, <3>3, NobodysTurn
  <2> QED BY <2>4, <2>5, <2>6
<1> QED BY <1>1, <1>2, Invariance, PTL DEF Spec, TurnSpec, Turn!Spec

----------------------------------------------------------------------------
(* The run lock is given back *)

\* The threads of the guard that have not ended.
Busy == {w \in Workers : pc[w] # "free"}

\* A step makes at most one of them.
LEMMA OneMore ==
    ASSUME IInv, [Next]_vars
    PROVE  \E w : Busy' \subseteq Busy \cup {w}
<1>1. CASE UNCHANGED pc
  BY <1>1 DEF Busy
<1>2. ASSUME NEW t \in Threads, NEW l \in LabelsOf(t), Goto(t, l) PROVE Busy' \subseteq Busy \cup {t}
  BY <1>2, MovePc DEF IInv, Busy, Threads
<1>3. ASSUME NEW c \in Callers, NEW w, NEW l, NEW m, pc[c] # "free",
             pc' = [pc EXCEPT ![c] = l, ![w] = m]
      PROVE  Busy' \subseteq Busy \cup {w}
  BY <1>3 DEF IInv, TypeOK, Busy, Threads
<1>4. ASSUME NEW c \in Callers, Call(c) PROVE \E w : Busy' \subseteq Busy \cup {w}
  <2>1. CASE Refused(c) \/ Join(c)
    <3>1. PICK l : Goto(c, l)
      BY <2>1 DEF Refused, Join, JobEnds
    <3>2. \A d \in Threads : d # c => pc'[d] = pc[d]
      BY <3>1 DEF Goto, IInv, TypeOK
    <3> QED BY <3>2 DEF Busy, Threads
  <2>2. CASE Attach(c) \/ Start(c)
    <3>1. PICK l, m : pc' = [pc EXCEPT ![c] = l, ![mate[c]] = m]
      BY <2>2 DEF Attach, Start
    <3>2. pc[c] # "free"
      BY <2>2 DEF Attach, Start
    <3> QED BY <1>3, <3>1, <3>2
  <2>3. ASSUME Begin(c), NEW w, pc' = [pc EXCEPT ![c] = "attach", ![w] = "begun"]
        PROVE  \E v : Busy' \subseteq Busy \cup {v}
    BY <1>3, <2>3 DEF Begin
  <2> QED BY <1>4, <2>1, <2>2, <2>3 DEF Call, Begin
<1>5. ASSUME NEW t \in Threads, NEW l, Goto(t, l) PROVE \E w : Busy' \subseteq Busy \cup {w}
  <2>1. \A d \in Threads : d # t => pc'[d] = pc[d]
    BY <1>5 DEF Goto, IInv, TypeOK
  <2> QED BY <2>1 DEF Busy, Threads
<1>6. CASE Next /\ ~ \E c \in Callers : TurnStep(c)
  <2>1. ASSUME NEW j \in Jobs, TakeRunLock(j) PROVE \E w : Busy' \subseteq Busy \cup {w}
    BY <1>5, <2>1 DEF TakeRunLock, JobEnds, Threads
  <2> QED BY <1>1, <1>2, <1>6, <2>1, StepKinds
<1>7. ASSUME NEW o \in Outer, Proceed(o) \/ Unlock(o) PROVE \E w : Busy' \subseteq Busy \cup {w}
  BY <1>5, <1>7 DEF Proceed, Unlock, Threads, Workers
<1> QED BY <1>1, <1>4, <1>6, <1>7 DEF TurnStep, vars

\* It is somebody's turn while the lock is taken, and few threads are there.
Inv ==
    /\ IInv
    /\ Turn!FreeOK
    /\ IsFiniteSet(Busy)

LEMMA InvAlways == Spec => []Inv
<1>1. Init => Inv
  <2> SUFFICES ASSUME Init PROVE Inv
    OBVIOUS
  <2>1. ~runLock /\ \A c \in Callers : ~Holds(c)
    BY InitIInv DEF IInv, RunLockOK, Init
  <2>2. Busy = {}
    BY SortsAssumption DEF Init, Busy, Threads, Workers
  <2> QED BY <2>1, <2>2, InitIInv, FS_EmptySet DEF Inv, Turn!FreeOK
<1>2. Inv /\ [Next]_vars => Inv'
  <2> SUFFICES ASSUME Inv, [Next]_vars PROVE Inv'
    OBVIOUS
  <2>1. IInv /\ IInv'
    BY NextIInv DEF Inv
  <2>2. IsFiniteSet(Busy')
    <3>1. PICK w : Busy' \subseteq Busy \cup {w}
      BY <2>1, OneMore
    <3>2. IsFiniteSet(Busy \cup {w})
      BY FS_AddElement DEF Inv
    <3> QED BY <3>1, <3>2, FS_Subset
  <2>3. runLock' => \E c \in Callers : Holds(c)'
    <3>1. CASE \E c \in Callers : Holds(c)
      BY <2>1, <3>1, TurnStays, TurnMoves DEF Callers
    <3>2. CASE \A c \in Callers : ~Holds(c)
      <4>1. ~runLock
        BY <3>2 DEF Inv, Turn!FreeOK
      <4> QED BY <2>1, <3>2, <4>1, NobodysTurn DEF Callers
    <3> QED BY <3>1, <3>2
  <2>4. Turn!FreeOK'
    BY <2>1, <2>3 DEF Turn!FreeOK, IInv, RunLockOK
  <2> QED BY <2>1, <2>2, <2>4 DEF Inv
<1> QED BY <1>1, <1>2, PTL DEF Spec

\* Whose turn it is can go on, as long as there are names for new threads.
LEMMA CanAlways ==
    ASSUME Inv, \A k \in Kinds : ~IsFiniteSet(Crew[k]), NEW c \in Callers, Holds(c)
    PROVE  CanGoOn(c)
<1>1. ASSUME pc[c] = "begin" PROVE \E w \in Crew[KindOf(c)] : pc[w] = "free"
  <2>1. KindOf(c) \in Kinds /\ Crew[KindOf(c)] \subseteq Workers
    BY <1>1, KindType DEF Inv, IInv, CallLabels
  <2>2. ASSUME \A w \in Crew[KindOf(c)] : pc[w] # "free" PROVE FALSE
    <3>1. Crew[KindOf(c)] \subseteq Busy
      BY <2>1, <2>2 DEF Busy
    <3> QED BY <2>1, <3>1, FS_Subset DEF Inv
  <2> QED BY <2>2
<1> QED BY <1>1 DEF CanGoOn

AnyTurn  == \E c \in Callers : TurnStep(c)
AnyCan   == \E c \in Callers : CanGoOn(c)
At(n)    == \E c \in Callers : Holds(c) /\ Togo(c) = n
Below(m) == ~runLock \/ \E c \in Callers : Holds(c) /\ Togo(c) <= m

\* What a step does with n steps to go, and m one less: any step keeps their
\* number or lowers it, one of the thread whose turn it is lowers it, and that
\* thread can go on.
Rung(n, m) ==
    /\ Inv /\ [Next]_vars => (At(n) => At(n)' \/ Below(m)')
    /\ Inv /\ <<AnyTurn>>_vars => (At(n) => Below(m)')
    /\ Inv => (At(n) => AnyCan)
    /\ Inv => (Below(n) => At(n) \/ Below(m))

LEMMA Rungs ==
    ASSUME \A k \in Kinds : ~IsFiniteSet(Crew[k]),
           NEW n \in 1 .. 20, NEW m \in 0 .. 19, n = m + 1
    PROVE  Rung(n, m)
<1>1. ASSUME IInv, [Next]_vars, NEW c \in Callers, TurnStep(c), Togo(c) = n PROVE Below(m)'
  <2>0. IInv' /\ TypeOK' /\ Jobs \subseteq Callers /\ Outer \subseteq Callers
    BY <1>1, NextIInv DEF IInv, Callers
  <2>1. ASSUME NEW d \in Callers, Holds(d)', Togo(d)' < Togo(c) PROVE Below(m)'
    <3>1. Togo(d)' \in 1 .. 20
      BY <2>0, <2>1, TogoType
    <3>2. Togo(d)' <= m
      BY <1>1, <2>1, <3>1
    <3> QED BY <2>1, <3>2 DEF Below
  <2>2. CASE ~runLock'
    BY <2>2 DEF Below
  <2> QED BY <1>1, <2>0, <2>1, <2>2, TurnMoves
<1>2. ASSUME IInv, [Next]_vars, NEW c \in Callers, Holds(c), Togo(c) = n PROVE At(n)' \/ Below(m)'
  <2>1. CASE TurnStep(c)
    BY <1>1, <1>2, <2>1
  <2>2. CASE ~TurnStep(c)
    BY <1>2, <2>2, TurnStays DEF At
  <2> QED BY <2>1, <2>2
<1>3. Inv /\ [Next]_vars => (At(n) => At(n)' \/ Below(m)')
  BY <1>2 DEF Inv, At
<1>4. Inv /\ <<AnyTurn>>_vars => (At(n) => Below(m)')
  <2> SUFFICES ASSUME Inv, NEW c \in Callers, TurnStep(c), NEW d \in Callers, Holds(d), Togo(d) = n
               PROVE  Below(m)'
    BY DEF AnyTurn, At
  <2>1. d = c /\ IInv
    BY DEF Inv, IInv, RunLockOK, TurnStep
  <2>2. Next
    BY DEF Next, TurnStep
  <2> QED BY <1>1, <2>1, <2>2
<1>5. Inv => (At(n) => AnyCan)
  BY CanAlways DEF At, AnyCan
<1>6. Inv => (Below(n) => At(n) \/ Below(m))
  BY TogoType DEF Inv, IInv, Below, At
<1> QED BY <1>3, <1>4, <1>5, <1>6 DEF Rung

HIDE DEF Inv

\* "Otherwise no later cycle could ever start": for any number of jobs and
\* summary runs, and with a name for every new thread, the run lock is always
\* given back if the thread whose turn it is goes on, whatever the builds, the
\* pipeline runs and the dispatch loop do meanwhile.
THEOREM RunLockComesBack ==
    ASSUME \A k \in Kinds : ~IsFiniteSet(Crew[k])
    PROVE  RunningSpec => RunLockFreed
<1>1. Rung(20, 19) /\ Rung(19, 18) /\ Rung(18, 17) /\ Rung(17, 16) /\ Rung(16, 15)
  BY Rungs
<1>2. Rung(15, 14) /\ Rung(14, 13) /\ Rung(13, 12) /\ Rung(12, 11) /\ Rung(11, 10)
  BY Rungs
<1>3. Rung(10, 9) /\ Rung(9, 8) /\ Rung(8, 7) /\ Rung(7, 6) /\ Rung(6, 5)
  BY Rungs
<1>4. Rung(5, 4) /\ Rung(4, 3) /\ Rung(3, 2) /\ Rung(2, 1) /\ Rung(1, 0)
  BY Rungs
<1>5. RunningSpec <=> Spec /\ ([]<>~AnyCan \/ []<><<AnyTurn>>_vars)
  BY DEF RunningSpec, TurnRuns, AnyCan, AnyTurn
<1> HIDE DEF AnyCan, AnyTurn
<1>6. RunningSpec => (Below(20) ~> Below(15))
  BY <1>1, <1>5, InvAlways, PTL DEF Spec, Rung
<1>7. RunningSpec => (Below(15) ~> Below(10))
  BY <1>2, <1>5, InvAlways, PTL DEF Spec, Rung
<1>8. RunningSpec => (Below(10) ~> Below(5))
  BY <1>3, <1>5, InvAlways, PTL DEF Spec, Rung
<1>9. RunningSpec => (Below(5) ~> Below(0))
  BY <1>4, <1>5, InvAlways, PTL DEF Spec, Rung
<1>10. Inv => Below(20) /\ (Below(0) => ~runLock)
  BY TogoType DEF Inv, IInv, Below, Turn!FreeOK
<1> QED BY <1>5, <1>6, <1>7, <1>8, <1>9, <1>10, InvAlways, PTL DEF RunLockFreed
=============================================================================
