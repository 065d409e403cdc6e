---------------------------- MODULE Idempotency ----------------------------
(***************************************************************************)
(* Requests that create a run or a version under one Idempotency-Key       *)
(* (RunService.CreateRun, VersionService.CreateVersion, idempotency_repo). *)
(* A request locks the key, checks its arguments, inserts the resource and *)
(* stores the answer with the key, each in a statement of its own; the     *)
(* errors of the last two are ignored.  A lock older than a minute may be  *)
(* reclaimed, although its holder may only be slow.                        *)
(*                                                                         *)
(* Abstractions: a request creates at most one resource, which bears its   *)
(* name; a lock token is the request that drew it; time is the event Age.  *)
(* All requests ask for the same resource, so the body of the answer is    *)
(* the resource.  Requests without a key skip the statements on it.        *)
(***************************************************************************)
EXTENDS Naturals, FiniteSets

CONSTANTS
  Requests,    \* HTTP requests, retries by a client included
  Keyed,       \* those that carry the key
  Polls,       \* how often a request looks whether the holder is done
  Nobody       \* no request

ASSUME RequestsAssumption == Nobody \notin Requests /\ Keyed \subseteq Requests
ASSUME PollsAssumption    == Polls \in Nat

VARIABLES
  key,         \* the row of idempotency_keys
  resources,   \* the requests whose resource was inserted
  pc,          \* where each request is
  polls,       \* how often it has looked at the key
  reply,       \* the resource it answered with, Nobody for none or an error
  reclaimed,   \* requests whose lock another one reclaimed
  unsure       \* requests told that their insert failed though it succeeded

vars == <<key, resources, pc, polls, reply, reclaimed, unsure>>
self == <<resources, polls, reclaimed, unsure>>

Maybe == Requests \cup {Nobody}

Key == [state    : {"absent", "IN_PROGRESS", "COMPLETED"},
        token    : Maybe,      \* lock_token
        resource : Maybe,      \* resource_id, response_body
        stale    : BOOLEAN]    \* locked_at is more than a minute ago

NoKey == [state |-> "absent", token |-> Nobody, resource |-> Nobody, stale |-> FALSE]

Places == {"start", "waiting", "checking", "completing", "releasing", "done"}

TypeOK ==
  /\ key \in Key
  /\ resources \subseteq Requests
  /\ pc \in [Requests -> Places]
  /\ polls \in [Requests -> 0..Polls]
  /\ reply \in [Requests -> Maybe]
  /\ reclaimed \subseteq Requests
  /\ unsure \subseteq Requests

Init ==
  /\ key = NoKey
  /\ resources = {}
  /\ pc = [q \in Requests |-> "start"]
  /\ polls = [q \in Requests |-> 0]
  /\ reply = [q \in Requests |-> Nobody]
  /\ reclaimed = {}
  /\ unsure = {}

Goto(q, place) == pc' = [pc EXCEPT ![q] = place] /\ UNCHANGED reply

\* The request ends, with resource x or, for Nobody, with an error.
Answer(q, x) ==
  /\ pc' = [pc EXCEPT ![q] = "done"]
  /\ reply' = [reply EXCEPT ![q] = x]

-----------------------------------------------------------------------------
(* The statements on the key *)

\* Mutant: the upsert looks at the age of the lock only.
LockableWhenOld(q) == key.state = "absent" \/ key.stale

\* The upsert of Acquire leaves the caller's token in the row.
Lockable(q) == key.state = "absent" \/ (key.state = "IN_PROGRESS" /\ key.stale)

\* The upsert itself, with the new holder noted.
Lock(q) ==
  /\ Lockable(q)
  /\ key' = [NoKey EXCEPT !.state = "IN_PROGRESS", !.token = q]
  /\ reclaimed' = IF key.state = "absent" THEN reclaimed ELSE reclaimed \cup {key.token}
  /\ UNCHANGED <<resources, polls, unsure>>

\* Mutant: Complete and Release do not compare the token.
HoldsAnyway(q) == key.state # "absent"

\* The token in the row is still the caller's.
Holds(q) == key.state # "absent" /\ key.token = q

\* The UPDATE of Complete, on the token alone.
StoreAnswer(q) ==
  IF Holds(q)
    THEN key' = [key EXCEPT !.state = "COMPLETED", !.resource = q]
    ELSE UNCHANGED key

\* Mutant: Release deletes the row whoever holds it.
UnlockForAll(q) == IF key.state = "IN_PROGRESS" THEN key' = NoKey ELSE UNCHANGED key

\* The DELETE of Release.
Unlock(q) ==
  IF Holds(q) /\ key.state = "IN_PROGRESS" THEN key' = NoKey ELSE UNCHANGED key

-----------------------------------------------------------------------------
(* The requests *)

\* A request without a key goes straight to its checks.
StartUnkeyed(q) ==
  /\ pc[q] = "start" /\ q \notin Keyed
  /\ Goto(q, "checking")
  /\ UNCHANGED <<key, self>>

AcquireLock(q) ==
  /\ pc[q] = "start" /\ q \in Keyed
  /\ Lock(q)
  /\ Goto(q, "checking")

\* The statement runs but its answer is lost: the request ends, the lock stays.
AcquireFails(q) ==
  /\ pc[q] = "start" /\ q \in Keyed
  /\ Lock(q) \/ UNCHANGED <<key, self>>
  /\ Answer(q, Nobody)

\* The key is completed: its stored answer is returned.
Replay(q) ==
  /\ pc[q] = "start" /\ q \in Keyed
  /\ key.state = "COMPLETED"
  /\ Answer(q, key.resource)
  /\ UNCHANGED <<key, self>>

\* ErrIdempotencyConflict: the request waits for the holder.
AcquireConflict(q) ==
  /\ pc[q] = "start" /\ q \in Keyed
  /\ key.state = "IN_PROGRESS" /\ ~Lockable(q)
  /\ Goto(q, "waiting")
  /\ UNCHANGED <<key, self>>

\* One turn of the waiting loop; Get may fail and find nothing.
Poll(q) ==
  /\ pc[q] = "waiting" /\ polls[q] < Polls
  /\ polls' = [polls EXCEPT ![q] = @ + 1]
  /\ \/ (key.state = "COMPLETED" /\ Answer(q, key.resource))
     \/ UNCHANGED <<pc, reply>>
  /\ UNCHANGED <<key, resources, reclaimed, unsure>>

\* The loop is over: ErrConflict.
PollGivesUp(q) ==
  /\ pc[q] = "waiting" /\ polls[q] = Polls
  /\ Answer(q, Nobody)
  /\ UNCHANGED <<key, self>>

\* The snapshot or the source run is missing or belongs to another timetable.
Reject(q) ==
  /\ pc[q] = "checking"
  /\ Goto(q, "releasing")
  /\ UNCHANGED <<key, self>>

\* The INSERT of the run or the version.  Nothing checks that the lock is
\* still held.
Create(q) ==
  /\ pc[q] = "checking"
  /\ resources' = resources \cup {q}
  /\ Goto(q, "completing")
  /\ UNCHANGED <<key, polls, reclaimed, unsure>>

\* The INSERT reports an error, and may have happened all the same.
CreateFails(q) ==
  /\ pc[q] = "checking"
  /\ \/ (resources' = resources \cup {q} /\ unsure' = unsure \cup {q})
     \/ UNCHANGED <<resources, unsure>>
  /\ Goto(q, "releasing")
  /\ UNCHANGED <<key, polls, reclaimed>>

\* The answer is stored, unless the statement fails or the lock is lost, and
\* returned in any case.
Complete(q) ==
  /\ pc[q] = "completing"
  /\ UNCHANGED key \/ (q \in Keyed /\ StoreAnswer(q))
  /\ Answer(q, q)
  /\ UNCHANGED self

Release(q) ==
  /\ pc[q] = "releasing"
  /\ UNCHANGED key \/ (q \in Keyed /\ Unlock(q))
  /\ Answer(q, Nobody)
  /\ UNCHANGED self

\* The process stops, or the client goes away and its context with it.
Stop(q) ==
  /\ pc[q] \notin {"start", "done"}
  /\ Answer(q, Nobody)
  /\ UNCHANGED <<key, self>>

\* A minute passes since the key was locked.
Age ==
  /\ key.state = "IN_PROGRESS" /\ ~key.stale
  /\ key' = [key EXCEPT !.stale = TRUE]
  /\ UNCHANGED <<pc, reply, self>>

Next ==
  \/ Age
  \/ \E q \in Requests :
       \/ StartUnkeyed(q)
       \/ AcquireLock(q)
       \/ AcquireFails(q)
       \/ AcquireConflict(q)
       \/ Replay(q)
       \/ Poll(q)
       \/ PollGivesUp(q)
       \/ Reject(q)
       \/ Create(q)
       \/ CreateFails(q)
       \/ Complete(q)
       \/ Release(q)
       \/ Stop(q)

Spec == Init /\ [][Next]_vars

-----------------------------------------------------------------------------
(* Properties *)

\* The key in each of its states: a deleted key holds nothing, a lock no
\* answer yet, and a completed key stores the resource of the request that
\* holds it, which exists and was not reported as failed: a slow holder that
\* was overtaken never overwrites the answer of another.
KeyOK ==
  /\ key.state = "absent" <=> key.token = Nobody
  /\ key.state # "absent" => key.token \in Keyed /\ pc[key.token] \notin {"start", "waiting"}
  /\ key.state = "COMPLETED" =>
       key.resource = key.token /\ key.resource \in resources \ unsure

\* A request between Acquire and its answer still has the lock, unless that
\* was reclaimed; a reclaimed lock never comes back to its first holder.
LocksHeld ==
  \A q \in Keyed :
    IF q \in reclaimed
      THEN key.token # q /\ pc[q] \notin {"start", "waiting"}
      ELSE pc[q] \in {"checking", "completing", "releasing"} =>
             key.state = "IN_PROGRESS" /\ key.token = q

\* What each request has inserted so far, and whether it knows.
InsertsKnown ==
  \A q \in Requests :
    /\ pc[q] = "waiting" => q \in Keyed
    /\ pc[q] \in {"start", "waiting", "checking"} => q \notin resources
    /\ pc[q] = "completing" => q \in resources \ unsure
    /\ pc[q] = "releasing" /\ q \in resources => q \in unsure
    /\ q \in unsure => q \in resources

\* A keyed request answers with a resource of a request with the same key,
\* which exists and was not reported as failed.
RepliesExist ==
  \A q \in Keyed : reply[q] # Nobody => reply[q] \in Keyed \cap (resources \ unsure)

\* Requests whose lock was never reclaimed and whose insert told the truth.
Clean(q) == q \in Keyed /\ q \notin reclaimed /\ q \notin unsure

\* A second resource under the same key always has an excuse: of all requests
\* that inserted one, at most one neither lost its lock to a reclaim nor was
\* told that its insert had failed; and that one still has its token in the key.
DuplicatesExcused ==
  \A q \in resources : Clean(q) => Holds(q)

\* The inductive invariant.
Inv ==
  /\ TypeOK
  /\ KeyOK
  /\ LocksHeld
  /\ InsertsKnown
  /\ RepliesExist
  /\ DuplicatesExcused

\* Of two requests that answer with different resources, at least one names a
\* resource whose creator lost its lock to a reclaim: replays, late completions
\* and lost answers alone never make the answers differ.
AnswersAgree ==
  \A p, q \in Keyed :
    reply[p] # Nobody /\ reply[q] # Nobody =>
      reply[p] = reply[q] \/ {reply[p], reply[q]} \cap reclaimed # {}

\* Once completed, the key is never locked, deleted or completed again.
CompletedForever ==
  [][key.state = "COMPLETED" => key' = key]_vars

-----------------------------------------------------------------------------
(* What a test says and the code does not do *)

\* TestConcurrency_IdempotencyRace (application/concurrency_test.go): "expected
\* exactly 1 schedule run created" by the requests that share a key.
OneResourcePerKey == Cardinality(resources \cap Keyed) <= 1
=============================================================================
