-------------------------------- MODULE RunTurn --------------------------------
(***************************************************************************)
(* What _RANKING_ENTRY_RUN_LOCK of trading/entry_exit/tasks.py is for: the *)
(* run of the ranking entry is somebody's turn.  The lock itself knows no  *)
(* owner.  It is taken in the thread of a job, handed to a worker thread   *)
(* that outlives the job, and released in one of two places; a release too *)
(* many would free it under a run that still works, one too few would end  *)
(* the ranking entry for the day.                                          *)
(***************************************************************************)
CONSTANTS Jobs, Outer   \* the threads that take the turn, and their workers

VARIABLES
    free,   \* the lock can be taken
    turn    \* who has the turn: nobody or one thread

vars == <<free, turn>>

Init == free = TRUE /\ turn = {}

Take(j) ==
    /\ free
    /\ free' = FALSE /\ turn' = {j}

\* The worker is started; the job only waits for it from then on.
Hand(j, o) ==
    /\ turn = {j}
    /\ turn' = {o}
    /\ UNCHANGED free

GiveBack(c) ==
    /\ turn = {c}
    /\ turn' = {}
    /\ free' = TRUE

Next ==
    \/ \E j \in Jobs : Take(j)
    \/ \E j \in Jobs, o \in Outer : Hand(j, o)
    \/ \E c \in Jobs \cup Outer : GiveBack(c)

Spec == Init /\ [][Next]_vars

\* The lock is free exactly when it is nobody's turn.
FreeOK == free <=> turn = {}
=============================================================================
