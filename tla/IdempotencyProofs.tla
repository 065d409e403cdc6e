------------------------- MODULE IdempotencyProofs -------------------------
(***************************************************************************)
(* Proofs about Idempotency for any sets of requests and any bound on the  *)
(* polls.  Inv is inductive: the statements on the key compare the token,  *)
(* so that a request whose lock was not reclaimed (LocksHeld) is the only  *)
(* one that changes the row until it answers, and what it stores is what   *)
(* it inserted (InsertsKnown, KeyOK).                                      *)
(***************************************************************************)
EXTENDS Idempotency, TLAPS

\* The initial states satisfy the invariant.
LEMMA InitInv == Init => Inv
<1>1. Nobody \notin Requests /\ Keyed \subseteq Requests /\ Polls \in Nat
  BY RequestsAssumption, PollsAssumption
<1> QED
  BY <1>1 DEF Init, Inv, TypeOK, KeyOK, LocksHeld, InsertsKnown, RepliesExist,
     DuplicatesExcused, NoKey, Key, Maybe, Places, Clean, Holds

\* Every step preserves the invariant.
LEMMA NextInv == Inv /\ [Next]_vars => Inv'
<1> SUFFICES ASSUME Inv, [Next]_vars PROVE Inv'
  OBVIOUS
<1>1. Nobody \notin Requests /\ Keyed \subseteq Requests /\ Polls \in Nat
  BY RequestsAssumption, PollsAssumption
<1> USE <1>1 DEF Inv, TypeOK, KeyOK, LocksHeld, InsertsKnown, RepliesExist,
     DuplicatesExcused, NoKey, Key, Maybe, Places, Clean, Holds, self, Goto, Answer
<1>2. CASE Age
  BY <1>2 DEF Age
<1>3. ASSUME NEW q \in Requests, StartUnkeyed(q) PROVE Inv'
  BY <1>3 DEF StartUnkeyed
<1>4. ASSUME NEW q \in Requests, AcquireLock(q) PROVE Inv'
  <2> USE <1>4 DEF AcquireLock, Lock, Lockable
  <2>1. TypeOK'
    OBVIOUS
  <2>2. KeyOK'
    OBVIOUS
  <2>3. LocksHeld'
    OBVIOUS
  <2>4. InsertsKnown'
    OBVIOUS
  <2>5. RepliesExist'
    OBVIOUS
  <2>6. DuplicatesExcused'
    OBVIOUS
  <2> QED
    BY <2>1, <2>2, <2>3, <2>4, <2>5, <2>6
<1>5. ASSUME NEW q \in Requests, AcquireFails(q) PROVE Inv'
  <2> USE <1>5 DEF AcquireFails
  <2>1. CASE UNCHANGED <<key, self>>
    BY <2>1
  <2>2. CASE Lock(q)
    <3> USE <2>2 DEF Lock, Lockable
    <3>1. TypeOK' /\ KeyOK'
      OBVIOUS
    <3>2. LocksHeld' /\ InsertsKnown'
      OBVIOUS
    <3>3. RepliesExist' /\ DuplicatesExcused'
      OBVIOUS
    <3> QED
      BY <3>1, <3>2, <3>3
  <2> QED
    BY <2>1, <2>2
<1>6. ASSUME NEW q \in Requests, AcquireConflict(q) PROVE Inv'
  BY <1>6 DEF AcquireConflict
<1>7. ASSUME NEW q \in Requests, Replay(q) PROVE Inv'
  BY <1>7 DEF Replay
<1>8. ASSUME NEW q \in Requests, Poll(q) PROVE Inv'
  BY <1>8 DEF Poll
<1>9. ASSUME NEW q \in Requests, PollGivesUp(q) PROVE Inv'
  BY <1>9 DEF PollGivesUp
<1>10. ASSUME NEW q \in Requests, Reject(q) PROVE Inv'
  BY <1>10 DEF Reject
<1>11. ASSUME NEW q \in Requests, Create(q) PROVE Inv'
  BY <1>11 DEF Create
<1>12. ASSUME NEW q \in Requests, CreateFails(q) PROVE Inv'
  BY <1>12 DEF CreateFails
<1>13. ASSUME NEW q \in Requests, Complete(q) PROVE Inv'
  <2> USE <1>13 DEF Complete
  <2>1. CASE UNCHANGED key
    BY <2>1
  <2>2. CASE Holds(q) /\ q \in Keyed /\ key' = [key EXCEPT !.state = "COMPLETED", !.resource = q]
    <3>1. key' = [state |-> "COMPLETED", token |-> q, resource |-> q, stale |-> key.stale]
      BY <2>2
    <3>2. q \in resources \ unsure
      OBVIOUS
    <3> QED
      BY <2>2, <3>1, <3>2
  <2> QED
    BY <2>1, <2>2 DEF StoreAnswer
<1>14. ASSUME NEW q \in Requests, Release(q) PROVE Inv'
  <2> USE <1>14 DEF Release
  <2>1. CASE UNCHANGED key
    BY <2>1
  <2>2. CASE Holds(q) /\ q \in Keyed /\ key.state = "IN_PROGRESS" /\ key' = NoKey
    BY <2>2
  <2> QED
    BY <2>1, <2>2 DEF Unlock
<1>15. ASSUME NEW q \in Requests, Stop(q) PROVE Inv'
  BY <1>15 DEF Stop
<1>16. CASE UNCHANGED vars
  BY <1>16 DEF vars
<1> QED
  BY <1>2, <1>3, <1>4, <1>5, <1>6, <1>7, <1>8, <1>9, <1>10, <1>11, <1>12,
     <1>13, <1>14, <1>15, <1>16 DEF Next

-----------------------------------------------------------------------------
(* Theorems *)

\* Inv holds in every reachable state: the lock of the key protects its row.
THEOREM Invariance == Spec => []Inv
<1> QED
  BY InitInv, NextInv, PTL DEF Spec

\* Two requests that both inserted the resource are two because one of them
\* lost its lock to a reclaim or was told that its insert had failed.
THEOREM OneUnlessExcused == Spec => []DuplicatesExcused
<1>1. Inv => DuplicatesExcused
  BY DEF Inv
<1> QED
  BY <1>1, Invariance, PTL

\* Requests of the same key answer with the same resource, unless the lock of
\* the creator of one of them was reclaimed.
THEOREM SameAnswer == Spec => []AnswersAgree
<1>1. Inv => AnswersAgree
  <2> SUFFICES ASSUME Inv, NEW p \in Keyed, NEW q \in Keyed,
                      reply[p] # Nobody, reply[q] # Nobody,
                      {reply[p], reply[q]} \cap reclaimed = {}
               PROVE  reply[p] = reply[q]
    BY DEF AnswersAgree
  <2>1. reply[p] \in resources /\ Clean(reply[p]) /\ reply[q] \in resources /\ Clean(reply[q])
    BY DEF Inv, RepliesExist, Clean
  <2>2. Holds(reply[p]) /\ Holds(reply[q])
    BY <2>1 DEF Inv, DuplicatesExcused
  <2> QED
    BY <2>2 DEF Holds
<1> QED
  BY <1>1, Invariance, PTL

\* The answer stored with a completed key is final.
THEOREM AnswerIsFinal == Spec => CompletedForever
<1>1. Inv /\ [Next]_vars => [key.state = "COMPLETED" => key' = key]_vars
  <2> SUFFICES ASSUME Inv, [Next]_vars, key.state = "COMPLETED" PROVE key' = key
    OBVIOUS
  <2>1. ASSUME NEW q \in Requests, Complete(q) PROVE key' = key
    <3>1. q \in Keyed => key.token # q
      BY <2>1 DEF Complete, Inv, LocksHeld
    <3> QED
      BY <2>1, <3>1 DEF Complete, StoreAnswer, Holds
  <2> QED
    BY <2>1 DEF Next, vars, self, Age, StartUnkeyed, AcquireLock, AcquireFails, AcquireConflict,
       Replay, Poll, PollGivesUp, Reject, Create, CreateFails, Release, Stop,
       Lock, Lockable, Unlock
<1> QED
  BY <1>1, Invariance, PTL DEF Spec, CompletedForever
=============================================================================
