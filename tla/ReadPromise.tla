------------------------------ MODULE ReadPromise ------------------------------
(***************************************************************************)
(* What the shared GET owner of kabu_api/positions_read_cache.py promises  *)
(* its callers (its header, lines 26-45), with no lock, clock or backoff:  *)
(*                                                                         *)
(*  - an answer is the newest broker state any GET has brought back, or    *)
(*    "unread": never an empty list made up for a failure;                 *)
(*  - what has been learnt never goes back to an older broker state;       *)
(*  - once a GET has failed (or the cache was invalidated) the last good   *)
(*    state is withdrawn until a later GET succeeds.                       *)
(***************************************************************************)
EXTENDS Naturals

CONSTANTS Callers,   \* the threads that call get_positions_cached
          None       \* no snapshot has been read yet

VARIABLES
    truth,    \* version of the positions held at the broker
    known,    \* version brought back by the newest successful GET, or None
    offered,  \* whether `known` may be handed out as the present state
    answer    \* answer[c]: what the last call of c returned

vars == <<truth, known, offered, answer>>

Pending == [says |-> "pending", ver |-> None]
Unread  == [says |-> "unread",  ver |-> None]
Read(v) == [says |-> "read",    ver |-> v]

Init ==
    /\ truth = 0
    /\ known = None
    /\ offered = FALSE
    /\ answer = [c \in Callers |-> Unread]

\* The broker's positions change (an order is filled).
Change ==
    /\ truth' = truth + 1
    /\ UNCHANGED <<known, offered, answer>>

Ask(c) ==
    /\ answer' = [answer EXCEPT ![c] = Pending]
    /\ UNCHANGED <<truth, known, offered>>

\* A GET of c brings back a version that is not older than what is known.
Learn(c) ==
    /\ known' \in 0 .. truth
    /\ known # None => known <= known'
    /\ offered' = TRUE
    /\ answer' = [answer EXCEPT ![c] = Read(known')]
    /\ UNCHANGED truth

\* The newest known version is shared with c.
Share(c) ==
    /\ offered
    /\ answer' = [answer EXCEPT ![c] = Read(known)]
    /\ UNCHANGED <<truth, known, offered>>

\* c is told that nothing could be read; a failed GET also withdraws.
Refuse(c) ==
    /\ offered' \in {offered, FALSE}
    /\ answer' = [answer EXCEPT ![c] = Unread]
    /\ UNCHANGED <<truth, known>>

Withdraw ==
    /\ offered' = FALSE
    /\ UNCHANGED <<truth, known, answer>>

Next ==
    \/ Change
    \/ Withdraw
    \/ \E c \in Callers : Ask(c) \/ Learn(c) \/ Share(c) \/ Refuse(c)

Spec == Init /\ [][Next]_vars
=============================================================================
