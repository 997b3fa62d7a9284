------------------------------ MODULE AttemptGate ------------------------------
(***************************************************************************)
(* Gate.TryUnlock and VerifyPassword of internal/authgate (gate.go,        *)
(* password.go): requests that type a password, the mutex each client key  *)
(* gets while it has attempts in flight (lockKey), the failure counts, and *)
(* the two argon2id slots every gate of the process shares.                *)
(*                                                                         *)
(* An attempt's steps are the points where another request can run: the    *)
(* code takes keyLocksMu, the key's mutex, attemptsMu and a slot one after *)
(* the other and none of the first three covers the next.                  *)
(***************************************************************************)
EXTENDS PasswordThrottle, FiniteSets

CONSTANTS
    Attempt,    \* requests in flight
    Lock,       \* keyLock objects
    NoAttempt, NoLock, NoKey,
    Slots       \* maxConcurrentVerifies

ASSUME GateAssumption ==
    /\ IsFiniteSet(Attempt)
    /\ NoAttempt \notin Attempt /\ NoLock \notin Lock /\ NoKey \notin Key
    /\ Slots \in Nat

VARIABLES
    pc,      \* where each request is
    key,     \* the key of its TryUnlock
    lk,      \* l: the keyLock it got
    lockOf,  \* g.keyLocks
    refs,    \* keyLock.refs
    owner,   \* who holds keyLock.mu
    busy     \* len(verifySlots)

gateVars == <<pc, key, lk, lockOf, refs, owner, busy>>
vars == <<pc, key, lk, lockOf, refs, owner, busy, failures, locked>>

\* Points of TryUnlock at which the key's mutex is held, and those of them past
\* the lockout check.
Verifying == {"queue", "verify", "wrong", "right"}
Holding == {"check", "unlock"} \cup Verifying

Init ==
    /\ ThrottleInit
    /\ pc = [a \in Attempt |-> "idle"]
    /\ key = [a \in Attempt |-> NoKey]
    /\ lk = [a \in Attempt |-> NoLock]
    /\ lockOf = [k \in Key |-> NoLock]
    /\ refs = [l \in Lock |-> 0]
    /\ owner = [l \in Lock |-> NoAttempt]
    /\ busy = 0

Goto(a, from, to) == pc[a] = from /\ pc' = [pc EXCEPT ![a] = to]

\* A lock object nothing points to: what allocating a new one returns.
Fresh(l) == (\A b \in Attempt : lk[b] # l) /\ (\A k \in Key : lockOf[k] # l)

\* TryUnlock is called, and lockKey finds or makes the key's lock.
Arrive(a, k) ==
    /\ Goto(a, "idle", "lock")
    /\ key' = [key EXCEPT ![a] = k]
    /\ \E l \in Lock :
          /\ IF lockOf[k] = NoLock THEN Fresh(l) ELSE l = lockOf[k]
          /\ lk' = [lk EXCEPT ![a] = l]
          /\ lockOf' = [lockOf EXCEPT ![k] = l]
          /\ refs' = [refs EXCEPT ![l] = @ + 1]
    /\ UNCHANGED <<owner, busy, throttleVars>>

\* Fault: no mutex, attempts only count their users.
AcquireShared(a) ==
    /\ Goto(a, "lock", "check")
    /\ owner' = [owner EXCEPT ![lk[a]] = a]
    /\ UNCHANGED <<key, lk, lockOf, refs, busy, throttleVars>>

\* l.mu.Lock() returns.
Acquire(a) ==
    /\ Goto(a, "lock", "check")
    /\ owner[lk[a]] = NoAttempt
    /\ owner' = [owner EXCEPT ![lk[a]] = a]
    /\ UNCHANGED <<key, lk, lockOf, refs, busy, throttleVars>>

\* Fault: a locked-out attempt goes back to waiting instead of being refused.
LimitedWaits(a) ==
    /\ Goto(a, "check", "lock")
    /\ locked[key[a]] > 0
    /\ owner' = [owner EXCEPT ![lk[a]] = NoAttempt]
    /\ UNCHANGED <<key, lk, lockOf, refs, busy, throttleVars>>

\* rateLimited: still locked out, ErrRateLimited.
Limited(a) ==
    /\ Goto(a, "check", "unlock")
    /\ locked[key[a]] > 0
    /\ UNCHANGED <<key, lk, lockOf, refs, owner, busy, throttleVars>>

\* rateLimited: not locked out, on to VerifyPassword.
Pass(a) ==
    /\ Goto(a, "check", "queue")
    /\ locked[key[a]] = 0
    /\ UNCHANGED <<key, lk, lockOf, refs, owner, busy, throttleVars>>

\* Fault: giving the slot back is deferred before it is taken.
NoVerdictGivesBack(a) ==
    /\ Goto(a, "queue", "unlock")
    /\ busy' = busy - 1
    /\ UNCHANGED <<key, lk, lockOf, refs, owner, throttleVars>>

\* VerifyPassword without a verdict: the hash does not parse, or no slot was
\* free for verifyQueueWait.  The timer and a slot may be ready at once, so a
\* free slot does not rule it out.
NoVerdict(a) ==
    /\ Goto(a, "queue", "unlock")
    /\ UNCHANGED <<key, lk, lockOf, refs, owner, busy, throttleVars>>

\* Fault: one request too many gets a slot.
GetSlotExtra(a) ==
    /\ Goto(a, "queue", "verify")
    /\ busy <= Slots
    /\ busy' = busy + 1
    /\ UNCHANGED <<key, lk, lockOf, refs, owner, throttleVars>>

\* verifySlots <- struct{}{}.
GetSlot(a) ==
    /\ Goto(a, "queue", "verify")
    /\ busy < Slots
    /\ busy' = busy + 1
    /\ UNCHANGED <<key, lk, lockOf, refs, owner, throttleVars>>

\* argon2id is done and VerifyPassword returns, giving its slot back.
Verify(a) ==
    /\ \E verdict \in {"wrong", "right"} : Goto(a, "verify", verdict)
    /\ busy' = busy - 1
    /\ UNCHANGED <<key, lk, lockOf, refs, owner, throttleVars>>

\* TryUnlock records a wrong password.
RecordFailure(a) ==
    /\ Goto(a, "wrong", "unlock")
    /\ Wrong(key[a])
    /\ UNCHANGED <<key, lk, lockOf, refs, owner, busy>>

\* TryUnlock records a right one and issues its token.
RecordSuccess(a) ==
    /\ Goto(a, "right", "unlock")
    /\ Right(key[a])
    /\ UNCHANGED <<key, lk, lockOf, refs, owner, busy>>

\* The deferred unlock: l.mu.Unlock() ...
Unlock(a) ==
    /\ Goto(a, "unlock", "release")
    /\ owner' = [owner EXCEPT ![lk[a]] = NoAttempt]
    /\ UNCHANGED <<key, lk, lockOf, refs, busy, throttleVars>>

\* Fault: the entry goes although others wait on it.
ReleaseForAll(a) ==
    /\ Goto(a, "release", "idle")
    /\ refs' = [refs EXCEPT ![lk[a]] = @ - 1]
    /\ lockOf' = [lockOf EXCEPT ![key[a]] = NoLock]
    /\ key' = [key EXCEPT ![a] = NoKey]
    /\ lk' = [lk EXCEPT ![a] = NoLock]
    /\ UNCHANGED <<owner, busy, throttleVars>>

\* Fault: the entry is never dropped.
ReleaseKeeping(a) ==
    /\ Goto(a, "release", "idle")
    /\ refs' = [refs EXCEPT ![lk[a]] = @ - 1]
    /\ key' = [key EXCEPT ![a] = NoKey]
    /\ lk' = [lk EXCEPT ![a] = NoLock]
    /\ UNCHANGED <<lockOf, owner, busy, throttleVars>>

\* ... and, under keyLocksMu, the entry goes with the last that uses it.
Release(a) ==
    /\ Goto(a, "release", "idle")
    /\ refs' = [refs EXCEPT ![lk[a]] = @ - 1]
    /\ lockOf' = [lockOf EXCEPT ![key[a]] = IF refs'[lk[a]] = 0 THEN NoLock ELSE @]
    /\ key' = [key EXCEPT ![a] = NoKey]
    /\ lk' = [lk EXCEPT ![a] = NoLock]
    /\ UNCHANGED <<owner, busy, throttleVars>>

TimePasses == Tick /\ UNCHANGED gateVars

Step(a) ==
    \/ Acquire(a) \/ Limited(a) \/ Pass(a) \/ NoVerdict(a) \/ GetSlot(a) \/ Verify(a)
    \/ RecordFailure(a) \/ RecordSuccess(a) \/ Unlock(a) \/ Release(a)

Next ==
    \/ TimePasses
    \/ \E a \in Attempt : Step(a) \/ \E k \in Key : Arrive(a, k)

Spec == Init /\ [][Next]_vars

\* A goroutine that can run does, and a Go mutex, which hands itself to a
\* waiter of more than a millisecond, passes nobody over for ever.
FairSpec ==
    /\ Spec
    /\ \A a \in Attempt : WF_vars(Step(a)) /\ SF_vars(Acquire(a))
=============================================================================
