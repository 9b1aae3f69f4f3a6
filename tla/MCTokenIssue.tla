----------------------------- MODULE MCTokenIssue -----------------------------
(* Small instances of TokenIssue: main_database.py (db), which runs the        *)
(* bootstrap twice, and main.py (mp); one process that sends requests.         *)
EXTENDS TokenIssue

CONSTANTS db, mp, u1

MCParents == {db, mp}
MCGates == {db}
MCUsers == {u1}
AllFaults == FaultKinds
NoFaults == {}
MCMaxStarts == [p \in MCParents |-> IF p = db THEN 2 ELSE 1]
OneStart == [p \in MCParents |-> 1]
=============================================================================
