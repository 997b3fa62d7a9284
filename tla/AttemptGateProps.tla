---------------------------- MODULE AttemptGateProps ----------------------------
(***************************************************************************)
(* What must hold of password attempts (AttemptGate).                      *)
(***************************************************************************)
EXTENDS AttemptGate

Users(l) == {a \in Attempt : lk[a] = l}

Hashing == {a \in Attempt : pc[a] = "verify"}

\* Types of the variables of AttemptGate.
TypeOK ==
    /\ pc \in [Attempt -> {"idle", "lock", "release"} \cup Holding]
    /\ key \in [Attempt -> Key \cup {NoKey}]
    /\ lk \in [Attempt -> Lock \cup {NoLock}]
    /\ lockOf \in [Key -> Lock \cup {NoLock}]
    /\ refs \in [Lock -> Nat]
    /\ owner \in [Lock -> Attempt \cup {NoAttempt}]
    /\ busy \in Nat
    /\ failures \in [Key -> 0..MaxFailures]
    /\ locked \in [Key -> 0..MaxBackoff]

\* lockKey serializes the attempts of a key, although its lock object is made
\* and dropped as they come and go: no two are between check and record.
MutualExclusion ==
    \A a, b \in Attempt : pc[a] \in Holding /\ pc[b] \in Holding /\ key[a] = key[b] => a = b

\* No password is compared for a key that is locked out at that moment,
\* however many attempts were let in at once (the reason lockKey gives).
LockoutHonoured ==
    \A a \in Attempt : pc[a] \in Verifying => locked[key[a]] = 0

\* keyLocks has an entry for the keys with an attempt in flight and no others:
\* a server that is asked about ever new keys does not grow.
EntryWhileUsed ==
    \A k \in Key : lockOf[k] # NoLock <=> \E a \in Attempt : pc[a] # "idle" /\ key[a] = k

\* However many keys and gates are busy, maxConcurrentVerifies argon2id
\* computations run at most, and the slots taken are theirs.
SlotsBounded == busy = Cardinality(Hashing) /\ busy <= Slots

\* The parts of TypeOK and the properties above that each step relies on.
Using(a) ==
    IF pc[a] = "idle"
      THEN key[a] = NoKey /\ lk[a] = NoLock
      ELSE key[a] \in Key /\ lk[a] \in Lock /\ lockOf[key[a]] = lk[a]

\* The inductive invariant: entries, reference counts and owners agree with
\* where the attempts are.
IndInv ==
    /\ TypeOK
    /\ \A a \in Attempt : Using(a)
    /\ \A k, j \in Key : lockOf[k] # NoLock /\ lockOf[k] = lockOf[j] => k = j
    /\ \A k \in Key : lockOf[k] # NoLock => \E a \in Attempt : lk[a] = lockOf[k]
    /\ \A l \in Lock : refs[l] = Cardinality(Users(l))
    /\ \A l \in Lock, a \in Attempt : owner[l] = a <=> lk[a] = l /\ pc[a] \in Holding
    /\ LockoutHonoured
    /\ SlotsBounded

\* A lockout that has begun lasts its time: nothing but the clock shortens it,
\* not even a right password that was being checked when it began.
NeverCutShort == [][\A k \in Key : locked'[k] + 1 >= locked[k]]_vars

\* Every wrong password from the Threshold-th on locks its key, for at least
\* lockoutBase and at most lockoutMax, however many there have been.
FailureLocks ==
    [][\A a \in Attempt :
          pc[a] = "wrong" /\ pc'[a] = "unlock" /\ failures'[key[a]] >= Threshold
              => locked'[key[a]] \in Base..MaxBackoff]_vars

\* Seen through its counts alone, the gate takes whole attempts one by one.
ImplementsThrottle == ThrottleSpec

\* A request that types a password is answered: right, wrong, locked out or
\* busy; nobody waits for a key's lock for ever.
Answered == \A a \in Attempt : pc[a] # "idle" ~> pc[a] = "idle"
=============================================================================
