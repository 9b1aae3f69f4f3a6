--------------------------- MODULE TokenIssueProofs ---------------------------
(***************************************************************************)
(* Proofs about TokenIssue, for any number of parents and requests and any *)
(* faults: the token in settings.ini is the live one whenever nobody is    *)
(* writing it, nobody lost it and nobody went on without the lock; what    *)
(* was saved while a parent waited is kept; and a request is not given up  *)
(* while settings.ini could help it.  Last, every bootstrap ends: each of  *)
(* its steps descends in a rank that nobody else's step raises.            *)
(***************************************************************************)
EXTENDS TokenIssue, TLAPS

Inside == {"locked", "post", "save"}

\* Who is inside has the lock, unless the lock gave up on someone.
InsideHolds ==
    \A p \in Parents : (pc[p] \in Inside /\ ~bare) => holder = p

\* What is about to be saved is the live token.
SaveIsLive ==
    \A p \in Parents :
        (pc[p] = "save" /\ station # 0 /\ ~orphan /\ ~bare) => token[p] = station

\* Nobody has saved a token since this parent looked again.
PostIsNeeded ==
    \A p \in Parents : (pc[p] = "post" /\ ~bare) => ini \in {0, before[p]}

\* A token that was refused is not live again: tokens are issued once.
RejectedIsDead ==
    \A u \in Users : req[u] = "rejected" => (key[u] = 0 \/ key[u] # station)

IInv ==
    /\ TypeOK /\ LockIsHeld /\ InsideHolds
    /\ SaveIsLive /\ IniIsLive /\ PostIsNeeded /\ RejectedIsDead

USE DEF vars, world, lock, process, locals, users, Tokens

\* The invariant holds at the start.
LEMMA InitIInv == Init => IInv
<1> SUFFICES ASSUME Init PROVE IInv
  OBVIOUS
<1> USE ConstantsAssumption DEF Init
<1>1. TypeOK
  <2>a. issued \in Tokens
    OBVIOUS
  <2>b. station \in 0 .. issued
    OBVIOUS
  <2>c. ini \in 0 .. issued
    OBVIOUS
  <2>d. holder \in Parents \cup {None}
    OBVIOUS
  <2>1. bare \in BOOLEAN
    OBVIOUS
  <2>2. orphan \in BOOLEAN
    BY Zenon
  <2>3. pc \in [Parents -> Labels]
    BY DEF Labels, Asking
  <2>4. /\ nth \in [Parents -> 1 .. 2] /\ starts \in [Parents -> Nat]
        /\ calls \in [Parents -> 0 .. MaxCalls] /\ recovered \in [Parents -> BOOLEAN]
    OBVIOUS
  <2>5. /\ cached \in [Parents -> Tokens] /\ before \in [Parents -> Tokens]
        /\ token \in [Parents -> Tokens]
        /\ \A p \in Parents : cached[p] <= issued /\ before[p] <= issued /\ token[p] <= issued
    OBVIOUS
  <2>6. /\ req \in [Users -> {"idle", "sent", "rejected", "resent"}]
        /\ key \in [Users -> Tokens] /\ \A u \in Users : key[u] <= issued
    OBVIOUS
  <2> QED
    BY <2>a, <2>b, <2>c, <2>d, <2>1, <2>2, <2>3, <2>4, <2>5, <2>6 DEF TypeOK
<1>2. LockIsHeld /\ InsideHolds /\ SaveIsLive /\ IniIsLive
  BY DEF LockIsHeld, InsideHolds, Inside, SaveIsLive, IniIsLive
<1>3. PostIsNeeded /\ RejectedIsDead
  BY DEF PostIsNeeded, RejectedIsDead
<1> QED
  BY <1>1, <1>2, <1>3 DEF IInv

----------------------------------------------------------------------------
(* Types: what a step may do to each variable *)

\* The end of a bootstrap, or of one of two.
LEMMA ReturnMoves ==
    ASSUME NEW p \in Parents, NEW ok \in BOOLEAN, Return(p, ok)
    PROVE  /\ \E l \in {"off", "up", "read"} : pc' = [pc EXCEPT ![p] = l]
           /\ nth' = nth \/ nth' = [nth EXCEPT ![p] = 2]
           /\ cached' = [cached EXCEPT ![p] = 0]
           /\ before' = [before EXCEPT ![p] = 0]
           /\ token' = [token EXCEPT ![p] = 0]
BY DEF Return, Goto

\* A step of a parent, seen variable by variable.
LEMMA ParentMoves ==
    ASSUME TypeOK, NEW p \in Parents, Start(p) \/ Step(p) \/ Crash(p)
    PROVE  /\ \E l \in Labels : pc' = [pc EXCEPT ![p] = l]
           /\ \E n \in 1 .. 2 : nth' = [nth EXCEPT ![p] = n]
           /\ \E n \in {0, ini, cached[p]} : cached' = [cached EXCEPT ![p] = n]
           /\ \E n \in {0, ini, before[p]} : before' = [before EXCEPT ![p] = n]
           /\ \E n \in {0, ini, issued', token[p]} : token' = [token EXCEPT ![p] = n]
           /\ \E n \in 0 .. MaxCalls : calls' = [calls EXCEPT ![p] = n]
           /\ \E b \in BOOLEAN : recovered' = [recovered EXCEPT ![p] = b]
           /\ \E n \in {starts[p], starts[p] + 1} : starts' = [starts EXCEPT ![p] = n]
           /\ issued' = issued \/ (issued' = issued + 1 /\ issued < MaxTokens)
           /\ station' = station \/ station' = issued'
           /\ ini' \in {ini, 0, token[p]}
           /\ holder' \in {holder, p, None}
           /\ bare' = bare \/ bare' = TRUE
           /\ UNCHANGED orphan \/ orphan' = FALSE \/ orphan' = TRUE \/ Forsaken(p)
           /\ UNCHANGED users
<1> USE ConstantsAssumption, ReturnMoves DEF Step, Start, ReadCached, Preflight, Reread,
       LastPreflight, Ask, TakeLock, LockTimeout, LookAgain, Issue, IssueLost,
       IssueFails, Save, SaveFails, FreshPreflight, Crash, Goto, ToRequest, TypeOK
<1>1. \E l \in Labels : pc' = [pc EXCEPT ![p] = l]
  BY DEF Labels, Asking
<1>2. \E n \in 1 .. 2 : nth' = [nth EXCEPT ![p] = n]
  <2>1. nth' \in {nth, [nth EXCEPT ![p] = 1], [nth EXCEPT ![p] = 2]}
    OBVIOUS
  <2>2. nth = [nth EXCEPT ![p] = nth[p]] /\ nth[p] \in 1 .. 2
    OBVIOUS
  <2> QED
    BY ONLY <2>1, <2>2
<1>3. \E n \in {0, ini, cached[p]} : cached' = [cached EXCEPT ![p] = n]
  OBVIOUS
<1>4. \E n \in {0, ini, before[p]} : before' = [before EXCEPT ![p] = n]
  OBVIOUS
<1>5. \E n \in {0, ini, issued', token[p]} : token' = [token EXCEPT ![p] = n]
  BY DEF NewToken
<1>6. \E n \in 0 .. MaxCalls : calls' = [calls EXCEPT ![p] = n]
  <2>1. \/ calls' \in {calls, [calls EXCEPT ![p] = 0]}
        \/ ~Exhausted(p) /\ calls' = [calls EXCEPT ![p] = @ + 1]
    OBVIOUS
  <2>2. calls = [calls EXCEPT ![p] = calls[p]] /\ calls[p] \in 0 .. MaxCalls /\ MaxCalls \in Nat
    OBVIOUS
  <2>3. ~Exhausted(p) => calls[p] < MaxCalls
    BY ONLY <2>2 DEF Exhausted
  <2> QED
    BY ONLY <2>1, <2>2, <2>3
<1>7. \E b \in BOOLEAN : recovered' = [recovered EXCEPT ![p] = b]
  <2>1. recovered' \in {recovered, [recovered EXCEPT ![p] = FALSE], [recovered EXCEPT ![p] = TRUE]}
    OBVIOUS
  <2>2. recovered = [recovered EXCEPT ![p] = recovered[p]] /\ recovered[p] \in BOOLEAN
    OBVIOUS
  <2> QED
    BY ONLY <2>1, <2>2
<1>8. \E n \in {starts[p], starts[p] + 1} : starts' = [starts EXCEPT ![p] = n]
  OBVIOUS
<1>9. /\ issued' = issued \/ (issued' = issued + 1 /\ issued < MaxTokens)
      /\ station' = station \/ station' = issued'
      /\ ini' \in {ini, 0, token[p]}
  BY DEF NewToken
<1>10. holder' \in {holder, p, None}
  BY DEF Release
<1>11. bare' = bare \/ bare' = TRUE
  OBVIOUS
<1>12. UNCHANGED orphan \/ orphan' = FALSE \/ orphan' = TRUE \/ Forsaken(p)
  OBVIOUS
<1>13. UNCHANGED users
  OBVIOUS
<1> QED
  BY <1>1, <1>2, <1>3, <1>4, <1>5, <1>6, <1>7, <1>8, <1>9, <1>10, <1>11, <1>12, <1>13

\* Every step keeps the types.
LEMMA TypeStep == TypeOK /\ [Next]_vars => TypeOK'
<1> SUFFICES ASSUME TypeOK, [Next]_vars PROVE TypeOK'
  OBVIOUS
<1> USE ConstantsAssumption
<1>1. ASSUME NEW p \in Parents, Start(p) \/ Step(p) \/ Crash(p) PROVE TypeOK'
  <2>1. pc' \in [Parents -> Labels]
    <3>1. PICK l \in Labels : pc' = [pc EXCEPT ![p] = l]
      BY <1>1, ParentMoves
    <3> QED
      BY <3>1 DEF TypeOK
  <2>2. nth' \in [Parents -> 1 .. 2]
    <3>1. PICK n \in 1 .. 2 : nth' = [nth EXCEPT ![p] = n]
      BY <1>1, ParentMoves
    <3> QED
      BY <3>1 DEF TypeOK
  <2>3. starts' \in [Parents -> Nat]
    <3>1. PICK n \in {starts[p], starts[p] + 1} : starts' = [starts EXCEPT ![p] = n]
      BY <1>1, ParentMoves
    <3> QED
      BY <3>1 DEF TypeOK
  <2>4. calls' \in [Parents -> 0 .. MaxCalls]
    <3>1. PICK n \in 0 .. MaxCalls : calls' = [calls EXCEPT ![p] = n]
      BY <1>1, ParentMoves
    <3> QED
      BY <3>1 DEF TypeOK
  <2>5. recovered' \in [Parents -> BOOLEAN]
    <3>1. PICK b \in BOOLEAN : recovered' = [recovered EXCEPT ![p] = b]
      BY <1>1, ParentMoves
    <3> QED
      BY <3>1 DEF TypeOK
  <2>6. /\ issued' = issued \/ (issued' = issued + 1 /\ issued < MaxTokens)
        /\ station' = station \/ station' = issued'
        /\ ini' \in {ini, 0, token[p]}
        /\ holder' \in {holder, p, None}
    BY <1>1, ParentMoves
  <2>7. issued \in 0 .. issued' /\ issued' \in Tokens
    BY <2>6 DEF TypeOK
  <2>8. station' \in 0 .. issued' /\ ini' \in 0 .. issued' /\ holder' \in Parents \cup {None}
    BY <2>6, <2>7 DEF TypeOK
  <2>9. cached' \in [Parents -> Tokens] /\ \A q \in Parents : cached'[q] <= issued'
    <3>1. PICK n \in {0, ini, cached[p]} : cached' = [cached EXCEPT ![p] = n]
      BY <1>1, ParentMoves
    <3> QED
      BY <2>7, <3>1 DEF TypeOK
  <2>10. before' \in [Parents -> Tokens] /\ \A q \in Parents : before'[q] <= issued'
    <3>1. PICK n \in {0, ini, before[p]} : before' = [before EXCEPT ![p] = n]
      BY <1>1, ParentMoves
    <3> QED
      BY <2>7, <3>1 DEF TypeOK
  <2>11. token' \in [Parents -> Tokens] /\ \A q \in Parents : token'[q] <= issued'
    <3>1. PICK n \in {0, ini, issued', token[p]} : token' = [token EXCEPT ![p] = n]
      BY <1>1, ParentMoves
    <3> QED
      BY <2>7, <3>1 DEF TypeOK
  <2>12. bare' \in BOOLEAN /\ orphan' \in BOOLEAN
    <3>1. /\ bare' = bare \/ bare' = TRUE
          /\ UNCHANGED orphan \/ orphan' = FALSE \/ orphan' = TRUE \/ Forsaken(p)
      BY <1>1, ParentMoves
    <3>2. Forsaken(p) => orphan' \in BOOLEAN
      BY Zenon DEF Forsaken
    <3> QED
      BY <3>1, <3>2 DEF TypeOK
  <2>13. /\ req' \in [Users -> {"idle", "sent", "rejected", "resent"}]
         /\ key' \in [Users -> Tokens] /\ \A u \in Users : key'[u] <= issued'
    <3>1. UNCHANGED users
      BY <1>1, ParentMoves
    <3> QED
      BY <2>7, <3>1 DEF TypeOK
  <2> QED
    BY <2>1, <2>2, <2>3, <2>4, <2>5, <2>7, <2>8, <2>9, <2>10, <2>11, <2>12, <2>13 DEF TypeOK
<1>2. ASSUME StationRestart PROVE TypeOK'
  <2>1. /\ station' = 0 /\ orphan' = FALSE
        /\ UNCHANGED <<issued, ini, lock, pc, process, locals, users>>
    BY <1>2 DEF StationRestart
  <2>2. station' \in 0 .. issued' /\ ini' \in 0 .. issued' /\ issued' \in Tokens
    BY <2>1 DEF TypeOK
  <2>3. orphan' \in BOOLEAN /\ bare' \in BOOLEAN
    BY <2>1 DEF TypeOK
  <2> QED
    BY <2>1, <2>2, <2>3 DEF TypeOK
<1>3. ASSUME NEW u \in Users, Request(u) PROVE TypeOK'
  <2> USE <1>3 DEF Request, SendRequest, Or, Answer, Reload
  <2>1. req' \in [Users -> {"idle", "sent", "rejected", "resent"}]
    BY DEF TypeOK
  <2>2. key' = key \/ \E t \in {ini, key[u]} : key' = [key EXCEPT ![u] = t]
    OBVIOUS
  <2>3. key' \in [Users -> Tokens] /\ \A w \in Users : key'[w] <= issued
    BY <2>2 DEF TypeOK
  <2>4. UNCHANGED <<world, lock, pc, process, locals>>
    OBVIOUS
  <2> QED
    BY <2>1, <2>3, <2>4 DEF TypeOK
<1>4. CASE UNCHANGED vars
  BY <1>4 DEF TypeOK
<1> QED
  BY <1>1, <1>2, <1>3, <1>4 DEF Next

----------------------------------------------------------------------------
(* The lock, the file and the station *)

\* What a step of p leaves to the others.
LEMMA OthersKeep ==
    ASSUME TypeOK, NEW p \in Parents, Start(p) \/ Step(p) \/ Crash(p)
    PROVE  /\ \A q \in Parents \ {p} : pc'[q] = pc[q] /\ token'[q] = token[q] /\ before'[q] = before[q]
           /\ holder' \in {holder, p, None}
<1>1. PICK l \in Labels : pc' = [pc EXCEPT ![p] = l]
  BY ParentMoves
<1>2. PICK n \in {0, ini, before[p]} : before' = [before EXCEPT ![p] = n]
  BY ParentMoves
<1>3. PICK t \in {0, ini, issued', token[p]} : token' = [token EXCEPT ![p] = t]
  BY ParentMoves
<1>4. holder' \in {holder, p, None}
  BY ParentMoves
<1> QED
  BY <1>1, <1>2, <1>3, <1>4 DEF TypeOK

\* Outside of the lock a parent changes nothing that is shared.
Outer(p) ==
    \/ Start(p) \/ ReadCached(p) \/ Preflight(p) \/ Reread(p) \/ LastPreflight(p)
    \/ Ask(p) \/ FreshPreflight(p)

LEMMA OuterMoves ==
    ASSUME TypeOK, NEW p \in Parents, Outer(p)
    PROVE  UNCHANGED <<world, lock, users>> /\ pc[p] \notin Inside /\ pc'[p] \notin Inside
<1>1. UNCHANGED <<world, lock, users>> /\ pc[p] \notin Inside
  BY DEF Outer, Start, ReadCached, Preflight, Reread, LastPreflight, Ask, FreshPreflight, Inside
<1>2. \E l \in {"off", "up", "read", "preflight", "reread", "last", "ask", "wait"} :
          pc' = [pc EXCEPT ![p] = l]
  BY ReturnMoves DEF Outer, Start, ReadCached, Preflight, Reread, LastPreflight, Ask,
     FreshPreflight, Goto, ToRequest
<1> QED
  BY <1>1, <1>2 DEF TypeOK, Inside

\* Where the steps inside the lock, and the way into it, lead.
LEMMA InnerMoves ==
    ASSUME TypeOK, NEW p \in Parents
    PROVE  /\ TakeLock(p) => holder = None /\ holder' = p /\ pc'[p] = "locked" /\ UNCHANGED bare
           /\ LockTimeout(p) => bare' = TRUE /\ holder' = holder /\ pc[p] = "wait"
           /\ LookAgain(p) => /\ pc[p] = "locked" /\ UNCHANGED bare
                              /\ \/ pc'[p] = "fresh" /\ Release(p)
                                 \/ pc'[p] = "post" /\ UNCHANGED holder /\ ini \in {0, before[p]}
           /\ Issue(p) => pc[p] = "post" /\ pc'[p] = "save" /\ UNCHANGED lock /\ token'[p] = issued'
           /\ (IssueLost(p) \/ IssueFails(p)) => pc[p] = "post" /\ pc'[p] \notin Inside /\ Release(p) /\ UNCHANGED bare
           /\ (Save(p) \/ SaveFails(p)) => pc[p] = "save" /\ pc'[p] \notin Inside /\ Release(p) /\ UNCHANGED bare
           /\ Crash(p) => pc'[p] \notin Inside /\ Release(p) /\ UNCHANGED bare
<1> USE DEF TypeOK
<1>1. TakeLock(p) => holder = None /\ holder' = p /\ pc'[p] = "locked" /\ UNCHANGED bare
  BY DEF TakeLock, Goto
<1>2. LockTimeout(p) => bare' = TRUE /\ holder' = holder /\ pc[p] = "wait"
  BY DEF LockTimeout
<1>3. LookAgain(p) => /\ pc[p] = "locked" /\ UNCHANGED bare
                      /\ \/ pc'[p] = "fresh" /\ Release(p)
                         \/ pc'[p] = "post" /\ UNCHANGED holder /\ ini \in {0, before[p]}
  BY DEF LookAgain, Goto
<1>4. Issue(p) => pc[p] = "post" /\ pc'[p] = "save" /\ UNCHANGED lock /\ token'[p] = issued'
  BY DEF Issue, Goto, NewToken
<1>5. (IssueLost(p) \/ IssueFails(p)) => pc[p] = "post" /\ pc'[p] \notin Inside /\ Release(p) /\ UNCHANGED bare
  BY ReturnMoves DEF IssueLost, IssueFails, Inside
<1>6. (Save(p) \/ SaveFails(p)) => pc[p] = "save" /\ pc'[p] \notin Inside /\ Release(p) /\ UNCHANGED bare
  BY ReturnMoves DEF Save, SaveFails, Goto, Inside
<1>7. Crash(p) => pc'[p] \notin Inside /\ Release(p) /\ UNCHANGED bare
  BY DEF Crash, Goto, Inside
<1> QED
  BY <1>1, <1>2, <1>3, <1>4, <1>5, <1>6, <1>7

\* Every step of a parent is one of these.
LEMMA ParentSteps ==
    ASSUME NEW p \in Parents, Start(p) \/ Step(p) \/ Crash(p)
    PROVE  \/ Outer(p) \/ TakeLock(p) \/ LockTimeout(p) \/ LookAgain(p) \/ Issue(p)
           \/ IssueLost(p) \/ IssueFails(p) \/ Save(p) \/ SaveFails(p) \/ Crash(p)
BY DEF Outer, Step

\* The lock is held by who is inside, and by nobody else.
LEMMA LockStep ==
    ASSUME TypeOK, LockIsHeld, InsideHolds,
           NEW p \in Parents, Start(p) \/ Step(p) \/ Crash(p)
    PROVE  LockIsHeld' /\ InsideHolds'
<1>1. \A q \in Parents \ {p} : pc'[q] = pc[q]
  BY OthersKeep
<1>2. holder \in Parents \cup {None} /\ None \notin Parents
  BY ConstantsAssumption DEF TypeOK
<1> USE DEF LockIsHeld, InsideHolds, Inside
<1>3. CASE UNCHANGED lock /\ (pc[p] \in Inside <=> pc'[p] \in Inside)
  BY <1>1, <1>2, <1>3
<1>4. CASE Release(p) /\ pc'[p] \notin Inside /\ UNCHANGED bare
  BY <1>1, <1>2, <1>4 DEF Release
<1>5. CASE holder = None /\ holder' = p /\ pc'[p] = "locked" /\ UNCHANGED bare
  BY <1>1, <1>2, <1>5
<1>6. CASE bare' = TRUE /\ holder' = holder /\ pc[p] = "wait"
  BY <1>1, <1>2, <1>6
<1>7. CASE Outer(p)
  BY <1>3, <1>7, OuterMoves
<1>8. CASE LookAgain(p)
  <2>1. /\ pc[p] = "locked" /\ UNCHANGED bare
        /\ \/ pc'[p] = "fresh" /\ Release(p)
           \/ pc'[p] = "post" /\ UNCHANGED holder
    BY <1>8, InnerMoves
  <2> QED
    BY <1>3, <1>4, <2>1
<1>9. CASE TakeLock(p)
  BY <1>5, <1>9, InnerMoves
<1>10. CASE LockTimeout(p)
  BY <1>6, <1>10, InnerMoves
<1>11. CASE Issue(p)
  <2>1. pc[p] = "post" /\ pc'[p] = "save" /\ UNCHANGED lock
    BY <1>11, InnerMoves
  <2> QED
    BY <1>3, <2>1
<1>12. CASE IssueLost(p) \/ IssueFails(p) \/ Save(p) \/ SaveFails(p) \/ Crash(p)
  BY <1>4, <1>12, InnerMoves
<1> QED
  BY <1>7, <1>8, <1>9, <1>10, <1>11, <1>12, ParentSteps

\* The token about to be saved, the one in the file and the live one.
LEMMA FileStep ==
    ASSUME IInv, NEW p \in Parents, Start(p) \/ Step(p) \/ Crash(p)
    PROVE  SaveIsLive' /\ IniIsLive' /\ PostIsNeeded'
<1>0. TypeOK /\ LockIsHeld /\ InsideHolds /\ SaveIsLive /\ IniIsLive /\ PostIsNeeded
  BY DEF IInv
<1>1. \A q \in Parents \ {p} : pc'[q] = pc[q] /\ token'[q] = token[q] /\ before'[q] = before[q]
  BY <1>0, OthersKeep
<1> USE DEF SaveIsLive, IniIsLive, PostIsNeeded, Saving
<1>2. CASE UNCHANGED <<world, bare>> /\ pc[p] # "save" /\ pc'[p] \notin {"post", "save"}
  BY <1>0, <1>1, <1>2
<1>3. ASSUME pc[p] \in Inside, ~bare PROVE \A q \in Parents \ {p} : pc[q] \notin Inside
  BY <1>0, <1>3 DEF InsideHolds
<1>4. CASE Outer(p)
  <2>1. UNCHANGED <<world, lock, users>> /\ pc[p] \notin Inside /\ pc'[p] \notin Inside
    BY <1>0, <1>4, OuterMoves
  <2> QED
    BY <1>2, <2>1 DEF Inside
<1>5. CASE TakeLock(p)
  <2>1. UNCHANGED <<world, bare>> /\ pc[p] = "wait" /\ pc'[p] = "locked"
    BY <1>0, <1>5, InnerMoves DEF TakeLock
  <2> QED
    BY <1>2, <2>1
<1>6. CASE LockTimeout(p)
  <2>1. bare' = TRUE
    BY <1>6 DEF LockTimeout
  <2> QED
    BY <2>1
<1>7. CASE LookAgain(p)
  <2>1. UNCHANGED <<world, bare, before>> /\ pc[p] = "locked"
    BY <1>7 DEF LookAgain
  <2>2. pc'[p] = "fresh" \/ (pc'[p] = "post" /\ ini \in {0, before[p]})
    BY <1>0, <1>7, InnerMoves
  <2> QED
    BY <1>0, <1>1, <2>1, <2>2
<1>8. CASE Issue(p)
  <2>1. pc[p] = "post" /\ pc'[p] = "save" /\ UNCHANGED lock /\ token'[p] = issued'
    BY <1>0, <1>8, InnerMoves
  <2>2. UNCHANGED <<ini, bare>> /\ station' = issued'
    BY <1>8 DEF Issue, NewToken
  <2>3. SaveIsLive' /\ PostIsNeeded'
    BY <1>1, <1>3, <2>1, <2>2 DEF Inside
  <2>4. Saving'
    BY <2>1
  <2> QED
    BY <2>3, <2>4
<1>9. CASE IssueLost(p)
  <2>1. orphan' = TRUE /\ UNCHANGED <<ini, bare>> /\ pc[p] = "post"
    BY <1>9 DEF IssueLost
  <2>2. pc'[p] \notin Inside
    BY <1>0, <1>9, InnerMoves
  <2> QED
    BY <1>1, <1>3, <2>1, <2>2 DEF Inside
<1>10. CASE IssueFails(p)
  <2>1. UNCHANGED <<world, bare>> /\ pc[p] = "post"
    BY <1>10 DEF IssueFails
  <2>2. pc'[p] \notin Inside
    BY <1>0, <1>10, InnerMoves
  <2> QED
    BY <1>2, <2>1, <2>2 DEF Inside
<1>11. CASE Save(p)
  <2>1. UNCHANGED <<station, orphan, bare>> /\ pc[p] = "save" /\ ini' = token[p]
    BY <1>11 DEF Save
  <2>2. pc'[p] \notin Inside
    BY <1>0, <1>11, InnerMoves
  <2> QED
    BY <1>0, <1>1, <1>3, <2>1, <2>2 DEF Inside
<1>12. CASE SaveFails(p) \/ (Crash(p) /\ pc[p] = "save")
  <2>1. UNCHANGED <<station, bare>> /\ pc[p] = "save" /\ Forsaken(p)
    BY <1>12 DEF SaveFails, Crash
  <2>2. pc'[p] \notin Inside
    BY <1>0, <1>12, InnerMoves
  <2>3. orphan' = (orphan \/ (token[p] = station /\ ini' # station))
    BY <2>1, Zenon DEF Forsaken
  <2>4. \A q \in Parents : pc'[q] \notin {"post", "save"} \/ bare'
    BY <1>1, <1>3, <2>1, <2>2 DEF Inside
  <2>5. (station' # 0 /\ ~orphan' /\ ~bare') => ini' = station'
    BY <1>0, <2>1, <2>3
  <2> QED
    BY <2>4, <2>5
<1>13. CASE Crash(p) /\ pc[p] # "save"
  <2>1. UNCHANGED <<station, ini, bare>> /\ Forsaken(p)
    BY <1>13 DEF Crash
  <2>2. pc'[p] \notin Inside
    BY <1>0, <1>13, InnerMoves
  <2>3. orphan' = orphan
    BY <1>0, <1>13, <2>1, Zenon DEF Forsaken, TypeOK
  <2> QED
    BY <1>0, <1>1, <1>13, <2>1, <2>2, <2>3 DEF Inside
<1> QED
  BY <1>4, <1>5, <1>6, <1>7, <1>8, <1>9, <1>10, <1>11, <1>12, <1>13, ParentSteps

\* The invariant is inductive.
LEMMA StepIInv == IInv /\ [Next]_vars => IInv'
<1> SUFFICES ASSUME IInv, [Next]_vars PROVE IInv'
  OBVIOUS
<1>1. TypeOK /\ TypeOK'
  BY TypeStep DEF IInv
<1>2. RejectedIsDead'
  <2>0. RejectedIsDead
    BY DEF IInv
  <2>1. ASSUME NEW p \in Parents, Start(p) \/ Step(p) \/ Crash(p) PROVE RejectedIsDead'
    <3>1. UNCHANGED users /\ (station' = station \/ station' = issued')
      BY <1>1, <2>1, ParentMoves
    <3>2. station' = station \/ station' = issued + 1
      <4>1. station' = station \/ NewToken
        BY <2>1 DEF Start, Step, ReadCached, Preflight, Reread, LastPreflight, Ask,
           TakeLock, LockTimeout, LookAgain, Issue, IssueLost, IssueFails, Save,
           SaveFails, FreshPreflight, Crash
      <4> QED
        BY <4>1 DEF NewToken
    <3> QED
      BY <1>1, <2>0, <3>1, <3>2, ConstantsAssumption DEF RejectedIsDead, TypeOK
  <2>2. CASE StationRestart
    BY <2>0, <2>2 DEF RejectedIsDead, StationRestart
  <2>3. ASSUME NEW u \in Users, Request(u) PROVE RejectedIsDead'
    <3>1. \A w \in Users \ {u} : req'[w] = req[w] /\ key'[w] = key[w]
      BY <1>1, <2>3 DEF Request, SendRequest, Or, Answer, Reload, TypeOK
    <3>2. req'[u] = "rejected" => Refused(u) /\ key' = key
      BY <1>1, <2>3 DEF Request, SendRequest, Or, Answer, Reload, TypeOK
    <3>3. station' = station
      BY <2>3 DEF Request, SendRequest, Or, Answer, Reload
    <3> QED
      BY <2>0, <3>1, <3>2, <3>3 DEF RejectedIsDead, Refused
  <2>4. CASE UNCHANGED vars
    BY <2>0, <2>4 DEF RejectedIsDead
  <2> QED
    BY <2>1, <2>2, <2>3, <2>4 DEF Next
<1>3. LockIsHeld' /\ InsideHolds' /\ SaveIsLive' /\ IniIsLive' /\ PostIsNeeded'
  <2>0. LockIsHeld /\ InsideHolds /\ SaveIsLive /\ IniIsLive /\ PostIsNeeded
    BY DEF IInv
  <2>1. ASSUME NEW p \in Parents, Start(p) \/ Step(p) \/ Crash(p)
        PROVE  LockIsHeld' /\ InsideHolds' /\ SaveIsLive' /\ IniIsLive' /\ PostIsNeeded'
    BY <1>1, <2>0, <2>1, LockStep, FileStep
  <2>2. ASSUME UNCHANGED <<lock, pc, before, token, ini>>, UNCHANGED <<station, orphan>> \/ station' = 0
        PROVE  LockIsHeld' /\ InsideHolds' /\ SaveIsLive' /\ IniIsLive' /\ PostIsNeeded'
    BY <2>0, <2>2 DEF LockIsHeld, InsideHolds, SaveIsLive, IniIsLive, PostIsNeeded, Saving
  <2>3. CASE StationRestart
    BY <2>2, <2>3 DEF StationRestart
  <2>4. ASSUME NEW u \in Users, Request(u)
        PROVE  UNCHANGED <<world, lock, pc, process, locals>>
    BY <2>4 DEF Request, SendRequest, Or, Answer, Reload
  <2> QED
    BY <2>1, <2>2, <2>3, <2>4 DEF Next
<1> QED
  BY <1>1, <1>2, <1>3 DEF IInv

----------------------------------------------------------------------------

\* The invariant holds in every reachable state.
THEOREM Invariance == Spec => []IInv
<1> QED
  BY InitIInv, StepIInv, PTL DEF Spec

\* For any number of parents, faults and bounds: types, and with them the limit
\* of the calls of POST /token per parent.
THEOREM TypeCorrect == Spec => []TypeOK
<1>1. IInv => TypeOK
  BY DEF IInv
<1> QED
  BY <1>1, Invariance, PTL

\* For any number of parents: no parent leaves the lock behind.
THEOREM LockKept == Spec => []LockIsHeld
<1>1. IInv => LockIsHeld
  BY DEF IInv
<1> QED
  BY <1>1, Invariance, PTL

\* For any number of parents and restarts of the station: settings.ini has the
\* live token.
THEOREM IniCorrect == Spec => []IniIsLive
<1>1. IInv => IniIsLive
  BY DEF IInv
<1> QED
  BY <1>1, Invariance, PTL

\* For any number of parents: what was saved while one waited is not killed by
\* it.
THEOREM WaitedForKept == Spec => WaitedForIsKept
<1>1. IInv /\ [Next]_vars =>
          [\A p \in Parents :
              (pc[p] = "post" /\ issued' # issued /\ pc'[p] # "post" /\ ~bare)
                  => ini \in {0, before[p]}]_vars
  BY DEF IInv, PostIsNeeded
<1> QED
  BY <1>1, Invariance, PTL DEF Spec, WaitedForIsKept

\* A step that gives a request up finds nothing in settings.ini that helps.
LEMMA GivesUpOnly ==
    ASSUME IInv, [Next]_vars, NEW u \in Users, req[u] = "rejected", req'[u] = "idle"
    PROVE  station = 0 \/ orphan \/ bare \/ Saving
<1>1. TypeOK /\ IniIsLive /\ RejectedIsDead
  BY DEF IInv
<1>2. GivesUp(u)
  <2>1. ASSUME NEW w \in Users, Request(w) PROVE GivesUp(u)
    <3>1. w = u
      BY <1>1, <2>1 DEF Request, SendRequest, Or, Answer, Reload, TypeOK
    <3> QED
      BY <1>1, <2>1, <3>1 DEF Request, SendRequest, Or, Answer, Reload, TypeOK
  <2>2. ASSUME NEW p \in Parents, Start(p) \/ Step(p) \/ Crash(p) PROVE FALSE
    <3>1. UNCHANGED users
      BY <1>1, <2>2, ParentMoves
    <3> QED
      BY <3>1
  <2> QED
    BY <2>1, <2>2 DEF Next, StationRestart
<1> QED
  BY <1>1, <1>2 DEF GivesUp, IniIsLive, RejectedIsDead

\* For any number of requests and parents: a 401 stands only where nothing in
\* settings.ini could help.
THEOREM RejectedRightly == Spec => RejectedForGood
<1>1. IInv /\ [Next]_vars =>
          [\A u \in Users :
              (req[u] = "rejected" /\ req'[u] = "idle")
                  => (station = 0 \/ orphan \/ bare \/ Saving)]_vars
  BY GivesUpOnly
<1> QED
  BY <1>1, Invariance, PTL DEF Spec, RejectedForGood

----------------------------------------------------------------------------
(* A bootstrap ends *)

\* How far the start of p has to go: the steps that are left of this bootstrap
\* at most, and of the one a gate may run after it.
Level(l) ==
    CASE l = "read" -> 8
      [] l = "preflight" -> 7
      [] l \in {"reread", "ask"} -> 6
      [] l \in {"last", "wait"} -> 5
      [] l = "locked" -> 4
      [] l = "post" -> 3
      [] l = "save" -> 2
      [] l = "fresh" -> 1
      [] OTHER -> 0
Rank(p) == Level(pc[p]) + (IF pc[p] \in {"off", "up"} \/ nth[p] = 2 THEN 0 ELSE 8)
Below(p, n) == Rank(p) <= n

LEMMA RankType ==
    ASSUME NEW p \in Parents
    PROVE  /\ TypeOK => Rank(p) \in 0 .. 16 /\ (Rank(p) = 0 <=> pc[p] \in {"off", "up"})
           /\ TypeOK' => Rank(p)' \in 0 .. 16
BY DEF Rank, Level, TypeOK, Labels, Asking

\* Where a bootstrap that returns leaves its parent.
LEMMA ReturnEnds ==
    ASSUME TypeOK, NEW p \in Parents, NEW ok \in BOOLEAN, Return(p, ok)
    PROVE  \/ pc'[p] \in {"off", "up"}
           \/ nth[p] = 1 /\ pc'[p] = "read" /\ nth'[p] = 2
BY DEF Return, Goto, TypeOK

\* Every step of a bootstrap brings it nearer to its end.
LEMMA StepDescends ==
    ASSUME TypeOK, TypeOK', NEW p \in Parents, Step(p)
    PROVE  Rank(p)' < Rank(p)
<1>0. /\ pc \in [Parents -> Labels] /\ nth \in [Parents -> 1 .. 2]
      /\ pc' \in [Parents -> Labels] /\ nth' \in [Parents -> 1 .. 2]
  BY DEF TypeOK
<1>1. ASSUME NEW ok \in BOOLEAN, Return(p, ok), pc[p] \notin {"off", "up"}
      PROVE  Rank(p)' < Rank(p)
  <2>1. pc[p] \in Labels \ {"off", "up"} => Level(pc[p]) \in 1 .. 8
    BY DEF Level, Labels, Asking
  <2>2. \/ pc'[p] \in {"off", "up"}
        \/ nth[p] = 1 /\ pc'[p] = "read" /\ nth'[p] = 2
    BY <1>1, ReturnEnds
  <2> QED
    BY <1>0, <1>1, <2>1, <2>2 DEF Rank, Level
<1>2. ASSUME nth'[p] = nth[p], pc[p] \notin {"off", "up"}, Level(pc'[p]) < Level(pc[p])
      PROVE  Rank(p)' < Rank(p)
  <2>1. Level(pc'[p]) \in Nat /\ Level(pc[p]) \in Nat
    BY DEF Level
  <2>2. pc'[p] \in {"off", "up"} => Level(pc'[p]) = 0
    BY DEF Level
  <2> QED
    BY <1>0, <1>2, <2>1, <2>2 DEF Rank
<1>3. CASE ReadCached(p)
  <2>1. \/ \E ok \in BOOLEAN : Return(p, ok)
        \/ nth'[p] = nth[p] /\ pc'[p] \in {"preflight", "ask"}
    BY <1>0, <1>3 DEF ReadCached, ToRequest, Goto
  <2>2. pc[p] = "read"
    BY <1>3 DEF ReadCached
  <2> QED
    BY <1>1, <1>2, <2>1, <2>2 DEF Level
<1>4. CASE Preflight(p)
  <2>1. \/ \E ok \in BOOLEAN : Return(p, ok)
        \/ nth'[p] = nth[p] /\ pc'[p] \in {"reread", "ask"}
    BY <1>0, <1>4 DEF Preflight, ToRequest, Goto
  <2>2. pc[p] = "preflight"
    BY <1>4 DEF Preflight
  <2> QED
    BY <1>1, <1>2, <2>1, <2>2 DEF Level
<1>5. CASE Reread(p)
  <2>1. \/ \E ok \in BOOLEAN : Return(p, ok)
        \/ nth'[p] = nth[p] /\ pc'[p] = "last"
    BY <1>0, <1>5 DEF Reread, Goto
  <2>2. pc[p] = "reread"
    BY <1>5 DEF Reread
  <2> QED
    BY <1>1, <1>2, <2>1, <2>2 DEF Level
<1>6. CASE LastPreflight(p) \/ FreshPreflight(p)
  BY <1>1, <1>6 DEF LastPreflight, FreshPreflight
<1>7. CASE Ask(p)
  <2>1. \/ \E ok \in BOOLEAN : Return(p, ok)
        \/ nth'[p] = nth[p] /\ pc'[p] = "wait"
    BY <1>0, <1>7 DEF Ask, Goto
  <2>2. pc[p] = "ask"
    BY <1>7 DEF Ask
  <2> QED
    BY <1>1, <1>2, <2>1, <2>2 DEF Level
<1>8. CASE TakeLock(p) \/ LockTimeout(p)
  <2>1. pc[p] = "wait" /\ nth'[p] = nth[p] /\ pc'[p] = "locked"
    BY <1>0, <1>8 DEF TakeLock, LockTimeout, Goto
  <2> QED
    BY <1>2, <2>1 DEF Level
<1>9. CASE LookAgain(p)
  <2>1. pc[p] = "locked" /\ nth'[p] = nth[p] /\ pc'[p] \in {"fresh", "post"}
    BY <1>0, <1>9 DEF LookAgain, Goto
  <2> QED
    BY <1>2, <2>1 DEF Level
<1>10. CASE Issue(p)
  <2>1. pc[p] = "post" /\ nth'[p] = nth[p] /\ pc'[p] = "save"
    BY <1>0, <1>10 DEF Issue, Goto
  <2> QED
    BY <1>2, <2>1 DEF Level
<1>11. CASE IssueLost(p) \/ IssueFails(p) \/ SaveFails(p)
  BY <1>1, <1>11 DEF IssueLost, IssueFails, SaveFails
<1>12. CASE Save(p)
  <2>1. pc[p] = "save" /\ nth'[p] = nth[p] /\ pc'[p] = "fresh"
    BY <1>0, <1>12 DEF Save, Goto
  <2> QED
    BY <1>2, <2>1 DEF Level
<1> QED
  BY <1>3, <1>4, <1>5, <1>6, <1>7, <1>8, <1>9, <1>10, <1>11, <1>12 DEF Step

\* No other step takes it back, once it has begun.
LEMMA NeverAscends ==
    ASSUME IInv, [Next]_vars, NEW p \in Parents, pc[p] \notin {"off", "up"}
    PROVE  Rank(p)' <= Rank(p)
<1>0. TypeOK /\ TypeOK'
  BY TypeStep DEF IInv
<1>1. Rank(p) \in 0 .. 16 /\ Rank(p)' \in 0 .. 16
  BY <1>0, RankType
<1>2. ASSUME pc'[p] = pc[p], nth'[p] = nth[p] PROVE Rank(p)' <= Rank(p)
  BY <1>1, <1>2 DEF Rank
<1>3. ASSUME NEW q \in Parents, Start(q) \/ Step(q) \/ Crash(q) PROVE Rank(p)' <= Rank(p)
  <2>1. CASE q # p
    <3>1. PICK l \in Labels : pc' = [pc EXCEPT ![q] = l]
      BY <1>0, <1>3, ParentMoves
    <3>2. PICK n \in 1 .. 2 : nth' = [nth EXCEPT ![q] = n]
      BY <1>0, <1>3, ParentMoves
    <3> QED
      BY <1>0, <1>2, <2>1, <3>1, <3>2 DEF TypeOK
  <2>2. CASE q = p /\ Step(p)
    BY <1>0, <1>1, <2>2, StepDescends
  <2>3. CASE q = p /\ Crash(p)
    <3>1. pc'[p] = "off"
      BY <1>0, <2>3 DEF Crash, Goto, TypeOK
    <3>2. Rank(p)' = 0
      BY <3>1 DEF Rank, Level
    <3> QED
      BY <1>1, <3>2
  <2>4. ~Start(p)
    BY DEF Start
  <2> QED
    BY <1>3, <2>1, <2>2, <2>3, <2>4
<1>4. ASSUME StationRestart \/ (\E u \in Users : Request(u)) \/ UNCHANGED vars
      PROVE  UNCHANGED <<pc, nth>>
  BY <1>4 DEF StationRestart, Request, SendRequest, Answer, Reload
<1> QED
  BY <1>2, <1>3, <1>4 DEF Next

HIDE DEF vars, world, lock, process, locals, users, Tokens

\* What a step does at rank n, with m the one below it: any step keeps the rank
\* or lowers it, one of p lowers it, and p can step.
Rung(p, n, m) ==
    /\ IInv /\ [Next]_vars => (Rank(p) = n => (Rank(p) = n)' \/ Below(p, m)')
    /\ IInv /\ <<Step(p)>>_vars => (Rank(p) = n => Below(p, m)')
    /\ IInv => (Rank(p) = n => CanStep(p))
    /\ IInv => (Below(p, n) => Rank(p) = n \/ Below(p, m))

LEMMA Rungs ==
    ASSUME {"lock", "refused"} \subseteq Faults, NEW p \in Parents,
           NEW n \in 1 .. 16, NEW m \in 0 .. 15, n = m + 1
    PROVE  Rung(p, n, m)
<1>1. ASSUME IInv, [Next]_vars, Rank(p) = n PROVE Rank(p)' = n \/ Rank(p)' <= m
  <2>1. TypeOK /\ TypeOK'
    BY <1>1, TypeStep DEF IInv
  <2>2. Rank(p)' \in 0 .. 16 /\ pc[p] \notin {"off", "up"}
    BY <1>1, <2>1, RankType
  <2>3. Rank(p)' <= Rank(p)
    BY <1>1, <2>2, NeverAscends
  <2> QED
    BY <1>1, <2>2, <2>3
<1>2. ASSUME IInv, Step(p), Rank(p) = n PROVE Rank(p)' <= m
  <2>1. TypeOK /\ [Next]_vars
    BY <1>2 DEF IInv, Next
  <2>2. TypeOK'
    BY <2>1, TypeStep
  <2>3. Rank(p)' \in 0 .. 16 /\ Rank(p)' < Rank(p)
    BY <1>2, <2>1, <2>2, RankType, StepDescends
  <2> QED
    BY <1>2, <2>3
<1>3. IInv => (Rank(p) = n => CanStep(p))
  BY RankType DEF IInv, CanStep
<1>4. IInv => (Below(p, n) => Rank(p) = n \/ Below(p, m))
  BY RankType DEF IInv, Below
<1> QED
  BY <1>1, <1>2, <1>3, <1>4 DEF Rung, Below

\* One rank after the other, from the first to the end.
LEMMA BootstrapEnds ==
    ASSUME {"lock", "refused"} \subseteq Faults, NEW p \in Parents
    PROVE  Spec /\ Runs(p) => (pc[p] = "read" ~> pc[p] \in {"off", "up"})
<1>1. Rung(p, 16, 15) /\ Rung(p, 15, 14) /\ Rung(p, 14, 13) /\ Rung(p, 13, 12)
  BY Rungs
<1>2. Rung(p, 12, 11) /\ Rung(p, 11, 10) /\ Rung(p, 10, 9) /\ Rung(p, 9, 8)
  BY Rungs
<1>3. Rung(p, 8, 7) /\ Rung(p, 7, 6) /\ Rung(p, 6, 5) /\ Rung(p, 5, 4)
  BY Rungs
<1>4. Rung(p, 4, 3) /\ Rung(p, 3, 2) /\ Rung(p, 2, 1) /\ Rung(p, 1, 0)
  BY Rungs
<1>5. Spec /\ Runs(p) => (Below(p, 16) ~> Below(p, 12))
  BY <1>1, Invariance, PTL DEF Spec, Runs, Rung
<1>6. Spec /\ Runs(p) => (Below(p, 12) ~> Below(p, 8))
  BY <1>2, Invariance, PTL DEF Spec, Runs, Rung
<1>7. Spec /\ Runs(p) => (Below(p, 8) ~> Below(p, 4))
  BY <1>3, Invariance, PTL DEF Spec, Runs, Rung
<1>8. Spec /\ Runs(p) => (Below(p, 4) ~> Below(p, 0))
  BY <1>4, Invariance, PTL DEF Spec, Runs, Rung
<1>9. IInv => Below(p, 16) /\ (Below(p, 0) => pc[p] \in {"off", "up"})
  BY RankType DEF IInv, Below
<1> QED
  BY <1>5, <1>6, <1>7, <1>8, <1>9, Invariance, PTL

\* For any number of parents, starts and faults: a parent that starts gets
\* through, up or ended, whatever the others do and wherever the station fails
\* it.  What makes it so is that every call has a limit, the wait for the lock
\* included, and that a bootstrap never goes back to a call it has made.
THEOREM StartupGetsThrough ==
    ASSUME {"lock", "refused"} \subseteq Faults
    PROVE  RunningSpec => StartupEnds
<1>1. ASSUME NEW p \in Parents
      PROVE  Spec /\ Runs(p) => (pc[p] = "read" ~> pc[p] \in {"off", "up"})
  BY BootstrapEnds
<1> QED
  BY <1>1 DEF RunningSpec, StartupEnds
=============================================================================
