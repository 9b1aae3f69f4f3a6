------------------------------ MODULE TokenIssue ------------------------------
(***************************************************************************)
(* The token of the kabu Station REST API.  The station knows ONE token: a *)
(* new one ends the one before.  Two parents (main.py, main_database.py)   *)
(* may issue one when they start; everyone else reads settings.ini.        *)
(*   token_manager.py                  issue, lock between processes, save *)
(*   kabu_api/token_bootstrap.py       preflight and recovery at startup   *)
(*   kabu_api/token_startup_policy.py  no issue at runtime; a 401 makes a  *)
(*                                     request read settings.ini again     *)
(*   main_database.py                  the gate in front of its workers    *)
(*                                                                         *)
(* Tokens are numbered as they are issued; 0 is "none".  A token that was  *)
(* refused once is never live again, so the second endpoint of a preflight *)
(* and its repetition for a token issued a moment ago change nothing here. *)
(***************************************************************************)
EXTENDS Naturals

CONSTANTS
    Parents,    \* the processes that may issue
    Gates,      \* those whose main() runs the bootstrap again, as a gate
    Users,      \* processes that send requests
    None,
    MaxCalls,   \* KABU_TOKEN_STARTUP_MAX_CALLS
    MaxStarts,  \* bound: how often each parent is started
    MaxTokens,  \* bound: tokens issued
    Faults      \* subset of FaultKinds: what may go wrong

FaultKinds ==
    {"restart",  \* the station restarts: its token is gone
     "silent",   \* a preflight is not answered
     "down",     \* a preflight finds no station
     "refused",  \* POST /token fails, or there is no password for it
     "lost",     \* POST /token issues, and its answer is lost
     "save",     \* settings.ini cannot be written, or does not read back
     "lock",     \* the wait for the lock times out, or there is no lock file
     "crash"}    \* a parent is killed

ASSUME ConstantsAssumption ==
    /\ Gates \subseteq Parents /\ None \notin Parents
    /\ MaxCalls \in Nat \ {0} /\ MaxStarts \in [Parents -> Nat] /\ MaxTokens \in Nat \ {0}
    /\ Faults \subseteq FaultKinds

Tokens == 0 .. MaxTokens

VARIABLES
    station,    \* the live token
    issued,     \* the last one issued
    ini,        \* the token in settings.ini
    holder,     \* who has the lock file, or None
    pc,         \* where each parent is
    nth,        \* which of its bootstraps it runs
    starts,
    cached,     \* the token it found, or read again
    before,     \* the one in settings.ini when it asked for a new one
    token,      \* the one it was given
    calls,      \* _STARTUP_TOKEN_CALLS
    recovered,  \* _STARTUP_RECOVERY_ATTEMPTED
    req,        \* each user's request
    key         \* and the X-API-KEY of it

\* History, not in the code: nobody will save the live token, and some parent
\* went on without the lock.
VARIABLES orphan, bare

world   == <<station, issued, ini, orphan>>
lock    == <<holder, bare>>
process == <<nth, starts, calls, recovered>>
locals  == <<cached, before, token>>
users   == <<req, key>>
vars    == <<world, lock, pc, process, locals, users>>

Init ==
    /\ station \in {0, 1} /\ issued = 1 /\ ini \in {0, 1}
    /\ orphan = (station = 1 /\ ini = 0)
    /\ holder = None /\ bare = FALSE
    /\ pc = [p \in Parents |-> "off"]
    /\ nth = [p \in Parents |-> 1] /\ starts = [p \in Parents |-> 0]
    /\ calls = [p \in Parents |-> 0] /\ recovered = [p \in Parents |-> FALSE]
    /\ cached = [p \in Parents |-> 0] /\ before = [p \in Parents |-> 0]
    /\ token = [p \in Parents |-> 0]
    /\ req = [u \in Users |-> "idle"] /\ key = [u \in Users |-> 0]

----------------------------------------------------------------------------
(* The bootstrap of a parent *)

Goto(p, label) == pc' = [pc EXCEPT ![p] = label]

Start(p) ==
    /\ pc[p] = "off" /\ starts[p] < MaxStarts[p]
    /\ Goto(p, "read")
    /\ starts' = [starts EXCEPT ![p] = @ + 1]
    /\ nth' = [nth EXCEPT ![p] = 1]
    /\ calls' = [calls EXCEPT ![p] = 0]
    /\ recovered' = [recovered EXCEPT ![p] = FALSE]
    /\ UNCHANGED <<world, lock, locals, users>>

\* bootstrap_startup_token returns.  The policy's call, the first one, is not
\* looked at; the gate's call lets main_database work, or ends it.
Return(p, ok) ==
    /\ IF nth[p] = 1 /\ p \in Gates
       THEN Goto(p, "read") /\ nth' = [nth EXCEPT ![p] = 2]
       ELSE /\ Goto(p, IF ok \/ nth[p] = 1 THEN "up" ELSE "off")
            /\ UNCHANGED nth
    /\ cached' = [cached EXCEPT ![p] = 0]
    /\ before' = [before EXCEPT ![p] = 0]
    /\ token' = [token EXCEPT ![p] = 0]

\* Mutant: the limit is missed by one.
Exhausted_Late(p) == recovered[p] \/ calls[p] > MaxCalls

\* _startup_recovery_exhausted
Exhausted(p) == recovered[p] \/ calls[p] >= MaxCalls

\* On the way to POST /token: the call is counted before it is made.
ToRequest(p) ==
    /\ Goto(p, "ask")
    /\ calls' = [calls EXCEPT ![p] = @ + 1]
    /\ UNCHANGED <<nth, before, token>>

ReadCached(p) ==
    /\ pc[p] = "read"
    /\ \/ /\ ini # 0
          /\ cached' = [cached EXCEPT ![p] = ini]
          /\ Goto(p, "preflight")
          /\ UNCHANGED <<nth, before, token, calls>>
       \/ ini = 0 /\ Exhausted(p) /\ Return(p, FALSE) /\ UNCHANGED calls
       \/ ini = 0 /\ ~Exhausted(p) /\ ToRequest(p) /\ UNCHANGED cached
    /\ UNCHANGED <<world, lock, starts, recovered, users>>

\* Without an answer a token counts as one that may have expired.
NotAccepted(t) == t # station \/ "silent" \in Faults

\* Mutant: without a station it tries again.
Preflight_UntilUp(p) ==
    /\ pc[p] = "preflight"
    /\ \/ cached[p] = station /\ Return(p, TRUE) /\ UNCHANGED calls
       \/ "down" \in Faults /\ Goto(p, "read") /\ UNCHANGED <<nth, locals, calls>>
       \/ /\ NotAccepted(cached[p]) /\ Exhausted(p)
          /\ Goto(p, "reread")
          /\ UNCHANGED <<nth, locals, calls>>
       \/ /\ NotAccepted(cached[p]) /\ ~Exhausted(p)
          /\ ToRequest(p) /\ UNCHANGED cached
    /\ UNCHANGED <<world, lock, starts, recovered, users>>

Preflight(p) ==
    /\ pc[p] = "preflight"
    /\ \/ cached[p] = station /\ Return(p, TRUE) /\ UNCHANGED calls
       \/ "down" \in Faults /\ Return(p, FALSE) /\ UNCHANGED calls
       \/ /\ NotAccepted(cached[p]) /\ Exhausted(p)
          /\ Goto(p, "reread")
          /\ UNCHANGED <<nth, locals, calls>>
       \/ /\ NotAccepted(cached[p]) /\ ~Exhausted(p)
          /\ ToRequest(p) /\ UNCHANGED cached
    /\ UNCHANGED <<world, lock, starts, recovered, users>>

\* Before it gives up: another process may have saved a token in between.
Reread(p) ==
    /\ pc[p] = "reread"
    /\ IF ini \in {0, cached[p]}
       THEN Return(p, FALSE)
       ELSE /\ cached' = [cached EXCEPT ![p] = ini]
            /\ Goto(p, "last")
            /\ UNCHANGED <<nth, before, token>>
    /\ UNCHANGED <<world, lock, starts, calls, recovered, users>>

LastPreflight(p) ==
    /\ pc[p] = "last"
    /\ \/ cached[p] = station /\ Return(p, TRUE)
       \/ (NotAccepted(cached[p]) \/ "down" \in Faults) /\ Return(p, FALSE)
    /\ UNCHANGED <<world, lock, starts, calls, recovered, users>>

----------------------------------------------------------------------------
(* request_fresh_token *)

Ask(p) ==
    /\ pc[p] = "ask"
    /\ \/ /\ before' = [before EXCEPT ![p] = ini]
          /\ Goto(p, "wait")
          /\ UNCHANGED <<nth, cached, token>>
       \/ "refused" \in Faults /\ Return(p, FALSE)
    /\ UNCHANGED <<world, lock, starts, calls, recovered, users>>

\* Mutant: the lock is not looked at.
TakeLock_Any(p) ==
    /\ pc[p] = "wait"
    /\ holder' = p
    /\ Goto(p, "locked")
    /\ UNCHANGED <<world, bare, process, locals, users>>

TakeLock(p) ==
    /\ pc[p] = "wait" /\ holder = None
    /\ holder' = p
    /\ Goto(p, "locked")
    /\ UNCHANGED <<world, bare, process, locals, users>>

\* After 30 s, or if the file cannot be opened, it goes on without.
LockTimeout(p) ==
    /\ pc[p] = "wait" /\ "lock" \in Faults
    /\ bare' = TRUE
    /\ Goto(p, "locked")
    /\ UNCHANGED <<world, holder, process, locals, users>>

Release(p) == holder' = IF holder = p THEN None ELSE holder

\* Mutant: what another process has saved meanwhile is not looked at.
LookAgain_Not(p) ==
    /\ pc[p] = "locked"
    /\ Goto(p, "post")
    /\ UNCHANGED <<world, lock, process, locals, users>>

\* Another process has issued meanwhile: its token is taken.
LookAgain(p) ==
    /\ pc[p] = "locked"
    /\ IF ini \notin {0, before[p]}
       THEN /\ token' = [token EXCEPT ![p] = ini]
            /\ recovered' = [recovered EXCEPT ![p] = TRUE]
            /\ Release(p)
            /\ Goto(p, "fresh")
       ELSE Goto(p, "post") /\ UNCHANGED <<token, recovered, holder>>
    /\ UNCHANGED <<world, bare, nth, starts, calls, cached, before, users>>

NewToken ==
    /\ issued < MaxTokens
    /\ issued' = issued + 1
    /\ station' = issued + 1

Issue(p) ==
    /\ pc[p] = "post"
    /\ NewToken
    /\ token' = [token EXCEPT ![p] = issued + 1]
    /\ orphan' = FALSE
    /\ Goto(p, "save")
    /\ UNCHANGED <<ini, lock, process, cached, before, users>>

IssueLost(p) ==
    /\ pc[p] = "post" /\ "lost" \in Faults
    /\ NewToken
    /\ orphan' = TRUE
    /\ Release(p) /\ Return(p, FALSE)
    /\ UNCHANGED <<ini, bare, starts, calls, recovered, users>>

\* Mutant: the exception leaves the lock taken.
IssueFails_KeepsLock(p) ==
    /\ pc[p] = "post" /\ "refused" \in Faults
    /\ Return(p, FALSE)
    /\ UNCHANGED <<world, lock, starts, calls, recovered, users>>

IssueFails(p) ==
    /\ pc[p] = "post" /\ "refused" \in Faults
    /\ Release(p) /\ Return(p, FALSE)
    /\ UNCHANGED <<world, bare, starts, calls, recovered, users>>

Save(p) ==
    /\ pc[p] = "save"
    /\ ini' = token[p]
    /\ recovered' = [recovered EXCEPT ![p] = TRUE]
    /\ Release(p)
    /\ Goto(p, "fresh")
    /\ UNCHANGED <<station, issued, orphan, bare, nth, starts, calls, locals, users>>

\* What p has in hand is lost with it, unless settings.ini has it.
Forsaken(p) == orphan' = (orphan \/ (pc[p] = "save" /\ token[p] = station /\ ini' # station))

\* settings.ini is as it was, is emptied by a direct write that breaks off, or
\* has the new token and cannot be read back.
SaveFails(p) ==
    /\ pc[p] = "save" /\ "save" \in Faults
    /\ ini' \in {ini, 0, token[p]}
    /\ Forsaken(p)
    /\ Release(p) /\ Return(p, FALSE)
    /\ UNCHANGED <<station, issued, bare, starts, calls, recovered, users>>

FreshPreflight(p) ==
    /\ pc[p] = "fresh"
    /\ \/ token[p] = station /\ Return(p, TRUE)
       \/ (NotAccepted(token[p]) \/ "down" \in Faults) /\ Return(p, FALSE)
    /\ UNCHANGED <<world, lock, starts, calls, recovered, users>>

\* The process ends; the system frees its lock.
Crash(p) ==
    /\ "crash" \in Faults /\ pc[p] # "off"
    /\ Goto(p, "off")
    /\ UNCHANGED <<station, issued, ini, bare, process, users>>
    /\ Forsaken(p) /\ Release(p)
    /\ cached' = [cached EXCEPT ![p] = 0]
    /\ before' = [before EXCEPT ![p] = 0]
    /\ token' = [token EXCEPT ![p] = 0]

StationRestart ==
    /\ "restart" \in Faults /\ station # 0
    /\ station' = 0 /\ orphan' = FALSE
    /\ UNCHANGED <<issued, ini, lock, pc, process, locals, users>>

----------------------------------------------------------------------------
(* Requests at runtime *)

\* The first of the two that there is.
Or(t, other) == IF t # 0 THEN t ELSE other

\* get_valid_token: where entry_count_unblock is enabled the token of
\* settings.ini goes before the one in memory, elsewhere it is the other way
\* round.
SendRequest(u) ==
    /\ req[u] = "idle"
    /\ \E t \in {Or(ini, key[u]), Or(key[u], ini)} : key' = [key EXCEPT ![u] = t]
    /\ req' = [req EXCEPT ![u] = "sent"]
    /\ UNCHANGED <<world, lock, pc, process, locals>>

Refused(u) == key[u] = 0 \/ key[u] # station

Answer(u) ==
    /\ req[u] \in {"sent", "resent"}
    /\ req' = [req EXCEPT ![u] =
                  IF Refused(u) /\ @ = "sent" THEN "rejected" ELSE "idle"]
    /\ UNCHANGED <<world, lock, pc, process, locals, key>>

\* Mutant: the memory of the process comes first.
Reload_Memory(u) ==
    /\ req[u] = "rejected"
    /\ req' = [req EXCEPT ![u] = "idle"]
    /\ UNCHANGED <<world, lock, pc, process, locals, key>>

\* _retry_once_with_settings_ini_token: a 401 stands if settings.ini has no
\* other token.
GivesUp(u) == req[u] = "rejected" /\ ini \in {0, key[u]}
Reload(u) ==
    /\ req[u] = "rejected"
    /\ IF GivesUp(u)
       THEN req' = [req EXCEPT ![u] = "idle"] /\ UNCHANGED key
       ELSE /\ req' = [req EXCEPT ![u] = "resent"]
            /\ key' = [key EXCEPT ![u] = ini]
    /\ UNCHANGED <<world, lock, pc, process, locals>>

----------------------------------------------------------------------------

Step(p) ==
    \/ ReadCached(p) \/ Preflight(p) \/ Reread(p) \/ LastPreflight(p)
    \/ Ask(p) \/ TakeLock(p) \/ LockTimeout(p) \/ LookAgain(p)
    \/ Issue(p) \/ IssueLost(p) \/ IssueFails(p)
    \/ Save(p) \/ SaveFails(p) \/ FreshPreflight(p)
Request(u) == SendRequest(u) \/ Answer(u) \/ Reload(u)

Next ==
    \/ \E p \in Parents : Start(p) \/ Step(p) \/ Crash(p)
    \/ StationRestart
    \/ \E u \in Users : Request(u)

Spec == Init /\ [][Next]_vars

\* A parent that runs goes on: every GET and POST has a timeout, and so has the
\* wait for the lock.
FairSpec == Spec /\ \A p \in Parents : WF_vars(Step(p))

\* The same with the condition of weak fairness written out, for the prover,
\* which does not know ENABLED: a step of p is possible wherever p is in its
\* bootstrap, except while it waits for the lock without a limit, or where the
\* tokens of the bound are used up and POST /token cannot fail.
CanStep(p) ==
    /\ pc[p] \notin {"off", "up"}
    /\ pc[p] = "wait" => holder = None \/ "lock" \in Faults
    /\ pc[p] = "post" => issued < MaxTokens \/ "refused" \in Faults
Runs(p) == []<>~CanStep(p) \/ []<><<Step(p)>>_vars
RunningSpec == Spec /\ \A p \in Parents : Runs(p)

----------------------------------------------------------------------------
(* Properties *)

Asking == {"ask", "wait", "locked", "post", "save", "fresh"}
Labels == Asking \cup {"off", "up", "read", "preflight", "reread", "last"}

\* Values and their bounds: no token is used that was not issued, and a parent
\* asks for at most MaxCalls of them, over both of its bootstraps.
TypeOK ==
    /\ issued \in Tokens /\ station \in 0 .. issued /\ ini \in 0 .. issued
    /\ holder \in Parents \cup {None}
    /\ orphan \in BOOLEAN /\ bare \in BOOLEAN
    /\ pc \in [Parents -> Labels]
    /\ nth \in [Parents -> 1 .. 2] /\ starts \in [Parents -> Nat]
    /\ calls \in [Parents -> 0 .. MaxCalls]
    /\ recovered \in [Parents -> BOOLEAN]
    /\ cached \in [Parents -> Tokens] /\ before \in [Parents -> Tokens]
    /\ token \in [Parents -> Tokens]
    /\ \A p \in Parents : cached[p] <= issued /\ before[p] <= issued /\ token[p] <= issued
    /\ req \in [Users -> {"idle", "sent", "rejected", "resent"}]
    /\ key \in [Users -> Tokens]
    /\ \A u \in Users : key[u] <= issued

\* The lock is never left behind: who has the file is inside.
LockIsHeld ==
    holder # None => pc[holder] \in {"locked", "post", "save"}

Saving == \E p \in Parents : pc[p] = "save"

\* settings.ini has the live token, except while its issuer is about to write
\* it, after its issuer lost it, and after the lock gave up on someone.
IniIsLive ==
    (station # 0 /\ ~orphan /\ ~bare /\ ~Saving) => ini = station

\* A parent that issues kills no token that another one saved while it waited
\* for the lock.
WaitedForIsKept ==
    [][\A p \in Parents :
          (pc[p] = "post" /\ issued' # issued /\ pc'[p] # "post" /\ ~bare)
              => ini \in {0, before[p]}]_vars

\* A request whose 401 stands could not be helped: the station has no token, or
\* nobody but its issuer knows it.
RejectedForGood ==
    [][\A u \in Users :
          (req[u] = "rejected" /\ req'[u] = "idle")
              => (station = 0 \/ orphan \/ bare \/ Saving)]_vars

\* A parent that starts gets through, with a token or without: nothing waits for
\* the station to come up.
StartupEnds ==
    \A p \in Parents : pc[p] = "read" ~> pc[p] \in {"off", "up"}

\* token_manager.py says of its lock that POST /token is made once, in effect,
\* when several parents start.  It is not: what a parent compares settings.ini
\* with is read after its preflight, so that a token saved in between counts as
\* the one that was refused.
OneIssue == issued <= 2
=============================================================================
