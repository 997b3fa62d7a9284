---------------------------- MODULE AttemptGateProofs ----------------------------
(***************************************************************************)
(* The attempt gate keeps its promises for any number of requests, keys    *)
(* and slots and any length of lockout.                                    *)
(***************************************************************************)
EXTENDS AttemptGateProps, FiniteSetTheorems, TLAPS

\* Sets of attempts are finite, and one attempt more or less is one more or less.
LEMMA CountUp ==
    ASSUME NEW S \in SUBSET Attempt, NEW a \in Attempt, a \notin S
    PROVE  Cardinality(S) \in Nat /\ Cardinality(S \cup {a}) = Cardinality(S) + 1
BY GateAssumption, FS_Subset, FS_CardinalityType, FS_AddElement

LEMMA CountDown ==
    ASSUME NEW S \in SUBSET Attempt, NEW a \in S
    PROVE  /\ Cardinality(S) \in Nat \ {0}
           /\ Cardinality(S \ {a}) \in Nat
           /\ Cardinality(S \ {a}) = Cardinality(S) - 1
<1>1. IsFiniteSet(S) /\ IsFiniteSet(S \ {a})
  BY GateAssumption, FS_Subset
<1>2. Cardinality(S) \in Nat /\ Cardinality(S \ {a}) \in Nat
  BY <1>1, FS_CardinalityType
<1>3. S = (S \ {a}) \cup {a} /\ a \notin S \ {a}
  OBVIOUS
<1>4. Cardinality(S) = Cardinality(S \ {a}) + 1
  BY <1>1, <1>3, FS_AddElement
<1> QED
  BY <1>2, <1>4

\* The length of a lockout.
LEMMA BackoffType == \A n : Backoff(n) \in 0..MaxBackoff
BY ThrottleAssumption DEF Backoff

\* Nobody is around at first.
LEMMA InitInv == Init => IndInv
<1> SUFFICES ASSUME Init PROVE IndInv
  OBVIOUS
<1>1. \A l \in Lock : Users(l) = {}
  BY GateAssumption DEF Init, Users
<1>2. Hashing = {}
  BY DEF Init, Hashing
<1> QED
  BY <1>1, <1>2, FS_EmptySet, GateAssumption, ThrottleAssumption
     DEF Init, ThrottleInit, IndInv, TypeOK, Using, LockoutHonoured, SlotsBounded, Verifying, Holding

\* What the throttle's own operations do to the types.
LEMMA WrongType ==
    ASSUME TypeOK, NEW k \in Key, Wrong(k)
    PROVE  /\ failures' \in [Key -> 0..MaxFailures] /\ locked' \in [Key -> 0..MaxBackoff]
           /\ \A j \in Key \ {k} : locked'[j] = locked[j] /\ failures'[j] = failures[j]
BY BackoffType, ThrottleAssumption DEF TypeOK, Wrong, Bumped

LEMMA RightType ==
    ASSUME TypeOK, NEW k \in Key, Right(k)
    PROVE  /\ failures' \in [Key -> 0..MaxFailures] /\ locked' \in [Key -> 0..MaxBackoff]
           /\ \A j \in Key \ {k} : locked'[j] = locked[j] /\ failures'[j] = failures[j]
BY ThrottleAssumption DEF TypeOK, Right

\* Two attempts of one key have one lock, and it has one owner.
LEMMA OneHolder == IndInv => MutualExclusion
BY DEF IndInv, Using, MutualExclusion, Holding, Verifying

\* An entry's attempts are those whose lock it is.
LEMMA Entries == IndInv => EntryWhileUsed
<1> SUFFICES ASSUME IndInv, NEW k \in Key
             PROVE  lockOf[k] # NoLock <=> \E a \in Attempt : pc[a] # "idle" /\ key[a] = k
  BY DEF EntryWhileUsed
<1>1. ASSUME lockOf[k] # NoLock PROVE \E a \in Attempt : pc[a] # "idle" /\ key[a] = k
  <2>1. PICK a \in Attempt : lk[a] = lockOf[k]
    BY <1>1 DEF IndInv
  <2> QED
    BY <1>1, <2>1 DEF IndInv, Using
<1>2. ASSUME NEW a \in Attempt, pc[a] # "idle", key[a] = k PROVE lockOf[k] # NoLock
  BY <1>2, GateAssumption DEF IndInv, Using
<1> QED
  BY <1>1, <1>2

\* The steps that move one attempt without touching the locks' users.
Steady == key' = key /\ lk' = lk /\ lockOf' = lockOf /\ refs' = refs

\* The clauses on keys, entries and counts see only these variables and idleness.
LEMMA SteadyStep ==
    ASSUME IndInv, NEW a \in Attempt, Steady, TypeOK',
           pc[a] # "idle", pc'[a] # "idle", \A b \in Attempt \ {a} : pc'[b] = pc[b],
           \A l \in Lock, b \in Attempt : owner'[l] = b <=> lk'[b] = l /\ pc'[b] \in Holding,
           LockoutHonoured', SlotsBounded'
    PROVE  IndInv'
<1>1. \A b \in Attempt : Using(b)'
  BY DEF IndInv, Using, Steady
<1>2. \A l \in Lock : Users(l)' = Users(l)
  BY DEF Users, Steady
<1> QED
  BY <1>1, <1>2 DEF IndInv, Steady

\* Every step preserves the invariant.
LEMMA NextInv == IndInv /\ [Next]_vars => IndInv'
<1> SUFFICES ASSUME IndInv, [Next]_vars PROVE IndInv'
  OBVIOUS
<1> USE GateAssumption DEF Goto, throttleVars, gateVars
<1>0. TypeOK /\ (\A a \in Attempt : Using(a)) /\ LockoutHonoured /\ SlotsBounded
      /\ (\A l \in Lock, a \in Attempt : owner[l] = a <=> lk[a] = l /\ pc[a] \in Holding)
  BY DEF IndInv
<1>1. ASSUME NEW a \in Attempt, NEW k \in Key, Arrive(a, k) PROVE IndInv'
  <2> USE <1>1
  <2>1. PICK l \in Lock : /\ IF lockOf[k] = NoLock THEN Fresh(l) ELSE l = lockOf[k]
                          /\ lk' = [lk EXCEPT ![a] = l]
                          /\ lockOf' = [lockOf EXCEPT ![k] = l]
                          /\ refs' = [refs EXCEPT ![l] = @ + 1]
    BY DEF Arrive
  <2>2. /\ pc[a] = "idle" /\ pc' = [pc EXCEPT ![a] = "lock"]
        /\ key' = [key EXCEPT ![a] = k]
        /\ UNCHANGED <<owner, busy, failures, locked>>
    BY DEF Arrive
  <2>3. TypeOK'
    BY <1>0, <2>1, <2>2 DEF TypeOK
  <2>4. \A b \in Attempt : Using(b)'
    BY <1>0, <2>1, <2>2 DEF TypeOK, Using
  <2>5. \A i, j \in Key : lockOf'[i] # NoLock /\ lockOf'[i] = lockOf'[j] => i = j
    <3>1. \A j \in Key \ {k} : lockOf[j] # l
      BY <2>1 DEF IndInv, Fresh
    <3> QED
      BY <1>0, <2>1, <3>1 DEF IndInv, TypeOK
  <2>6. \A j \in Key : lockOf'[j] # NoLock => \E b \in Attempt : lk'[b] = lockOf'[j]
    <3>1. lk[a] = NoLock
      BY <1>0, <2>2 DEF Using
    <3>2. \A j \in Key \ {k} : lockOf[j] # NoLock => \E b \in Attempt \ {a} : lk[b] = lockOf[j]
      BY <3>1 DEF IndInv
    <3> QED
      BY <1>0, <2>1, <3>2 DEF TypeOK
  <2>7. \A m \in Lock : refs'[m] = Cardinality(Users(m)')
    <3>1. Users(l)' = Users(l) \cup {a} /\ a \notin Users(l)
      BY <1>0, <2>1, <2>2 DEF TypeOK, Using, Users
    <3>2. \A m \in Lock \ {l} : Users(m)' = Users(m)
      BY <1>0, <2>1, <2>2 DEF TypeOK, Using, Users
    <3>3. Users(l) \in SUBSET Attempt
      BY DEF Users
    <3>4. Cardinality(Users(l)') = Cardinality(Users(l)) + 1
      BY <3>1, <3>3, CountUp
    <3> QED
      BY <1>0, <2>1, <3>2, <3>4 DEF IndInv, TypeOK
  <2>8. \A m \in Lock, b \in Attempt : owner'[m] = b <=> lk'[b] = m /\ pc'[b] \in Holding
    BY <1>0, <2>1, <2>2 DEF TypeOK, Using, Holding, Verifying
  <2>9. LockoutHonoured' /\ SlotsBounded'
    <3>1. Hashing' = Hashing
      BY <1>0, <2>2 DEF Hashing, TypeOK
    <3>2. SlotsBounded'
      BY <1>0, <2>2, <3>1 DEF SlotsBounded
    <3> QED
      BY <1>0, <2>2, <3>2 DEF LockoutHonoured, TypeOK, Verifying
  <2> QED
    BY <2>3, <2>4, <2>5, <2>6, <2>7, <2>8, <2>9 DEF IndInv
<1>2. ASSUME NEW a \in Attempt,
             Acquire(a) \/ Limited(a) \/ Pass(a) \/ NoVerdict(a) \/ GetSlot(a) \/ Verify(a)
             \/ RecordFailure(a) \/ RecordSuccess(a) \/ Unlock(a)
      PROVE  IndInv'
  <2>1. /\ Steady
        /\ pc[a] # "idle" /\ pc'[a] # "idle"
        /\ \A b \in Attempt \ {a} : pc'[b] = pc[b]
    BY <1>0, <1>2 DEF Acquire, Limited, Pass, NoVerdict, GetSlot, Verify, RecordFailure,
                      RecordSuccess, Unlock, Steady, TypeOK
  <2>2. key[a] \in Key /\ lk[a] \in Lock
    BY <1>0, <2>1 DEF Using
  <2>3. TypeOK' /\ (\A j \in Key \ {key[a]} : locked'[j] = locked[j])
    <3>1. CASE GetSlot(a) \/ Verify(a)
      <4>1. busy' \in Nat
        <5>1. CASE GetSlot(a)
          BY <1>0, <5>1 DEF GetSlot, TypeOK
        <5>2. CASE Verify(a)
          <6>1. a \in Hashing /\ Hashing \in SUBSET Attempt
            BY <5>2 DEF Verify, Hashing
          <6>2. busy \in Nat \ {0} /\ busy' = busy - 1
            BY <1>0, <5>2, <6>1, CountDown DEF Verify, SlotsBounded
          <6> QED
            BY <6>2
        <5> QED
          BY <3>1, <5>1, <5>2
      <4> QED
        BY <1>0, <3>1, <4>1 DEF GetSlot, Verify, TypeOK, Holding, Verifying
    <3>2. CASE RecordFailure(a)
      BY <1>0, <2>2, <3>2, WrongType DEF RecordFailure, TypeOK, Holding
    <3>3. CASE RecordSuccess(a)
      BY <1>0, <2>2, <3>3, RightType DEF RecordSuccess, TypeOK, Holding
    <3>4. CASE Acquire(a) \/ Limited(a) \/ Pass(a) \/ NoVerdict(a) \/ Unlock(a)
      BY <1>0, <2>2, <3>4 DEF Acquire, Limited, Pass, NoVerdict, Unlock, TypeOK, Holding, Verifying
    <3> QED
      BY <1>2, <3>1, <3>2, <3>3, <3>4
  <2>4. \A l \in Lock, b \in Attempt : owner'[l] = b <=> lk'[b] = l /\ pc'[b] \in Holding
    <3>1. CASE Acquire(a)
      BY <1>0, <2>2, <3>1 DEF Acquire, TypeOK, Holding, Verifying
    <3>2. CASE Unlock(a)
      BY <1>0, <2>2, <3>2 DEF Unlock, TypeOK, Holding, Verifying
    <3>3. CASE Limited(a) \/ Pass(a) \/ NoVerdict(a) \/ GetSlot(a) \/ Verify(a)
               \/ RecordFailure(a) \/ RecordSuccess(a)
      BY <1>0, <2>2, <3>3 DEF Limited, Pass, NoVerdict, GetSlot, Verify, RecordFailure,
                              RecordSuccess, TypeOK, Holding, Verifying
    <3> QED
      BY <1>2, <3>1, <3>2, <3>3
  <2>5. LockoutHonoured'
    <3>1. \A b \in Attempt \ {a} : pc[b] \in Verifying /\ pc[a] \in Holding => key[b] # key[a]
      BY OneHolder DEF MutualExclusion, Holding
    <3>2. CASE RecordFailure(a) \/ RecordSuccess(a)
      BY <1>0, <2>1, <2>2, <2>3, <3>1, <3>2
         DEF RecordFailure, RecordSuccess, LockoutHonoured, TypeOK, Steady, Using, Holding, Verifying
    <3>3. CASE Acquire(a) \/ Limited(a) \/ Pass(a) \/ NoVerdict(a) \/ GetSlot(a) \/ Verify(a) \/ Unlock(a)
      BY <1>0, <2>2, <3>3 DEF Acquire, Limited, Pass, NoVerdict, GetSlot, Verify, Unlock,
                              LockoutHonoured, TypeOK, Verifying
    <3> QED
      BY <1>2, <3>2, <3>3
  <2>6. SlotsBounded'
    <3>1. CASE GetSlot(a)
      <4>1. Hashing' = Hashing \cup {a} /\ a \notin Hashing /\ Hashing \in SUBSET Attempt
        BY <1>0, <3>1 DEF GetSlot, Hashing, TypeOK
      <4>2. Cardinality(Hashing') = Cardinality(Hashing) + 1
        BY <4>1, CountUp
      <4> QED
        BY <1>0, <3>1, <4>2 DEF GetSlot, SlotsBounded, TypeOK
    <3>2. CASE Verify(a)
      <4>1. Hashing' = Hashing \ {a} /\ a \in Hashing /\ Hashing \in SUBSET Attempt
        BY <1>0, <3>2 DEF Verify, Hashing, TypeOK
      <4>2. Cardinality(Hashing') = Cardinality(Hashing) - 1 /\ Cardinality(Hashing) \in Nat
        BY <4>1, CountDown
      <4> QED
        BY <1>0, <3>2, <4>2 DEF Verify, SlotsBounded, TypeOK
    <3>3. CASE ~(GetSlot(a) \/ Verify(a))
      <4>1. Hashing' = Hashing /\ busy' = busy
        BY <1>0, <1>2, <3>3 DEF Acquire, Limited, Pass, NoVerdict, RecordFailure,
                                RecordSuccess, Unlock, Hashing, TypeOK
      <4> QED
        BY <1>0, <4>1 DEF SlotsBounded
    <3> QED
      BY <3>1, <3>2, <3>3
  <2> QED
    BY <2>1, <2>3, <2>4, <2>5, <2>6, SteadyStep
<1>3. ASSUME NEW a \in Attempt, Release(a) PROVE IndInv'
  <2> USE <1>3
  <2>0. PICK l \in Lock, k \in Key : l = lk[a] /\ k = key[a] /\ lockOf[k] = l
    BY <1>0 DEF Release, Using
  <2>1. /\ pc[a] = "release" /\ pc' = [pc EXCEPT ![a] = "idle"]
        /\ refs' = [refs EXCEPT ![l] = @ - 1]
        /\ lockOf' = [lockOf EXCEPT ![k] = IF refs'[l] = 0 THEN NoLock ELSE @]
        /\ key' = [key EXCEPT ![a] = NoKey] /\ lk' = [lk EXCEPT ![a] = NoLock]
        /\ UNCHANGED <<owner, busy, failures, locked>>
    BY <2>0 DEF Release
  <2>2. l = lk[a] /\ k = key[a] /\ lockOf[k] = l
    BY <2>0
  <2>3. /\ Users(l) \in SUBSET Attempt /\ a \in Users(l) /\ Users(l)' = Users(l) \ {a}
        /\ \A m \in Lock \ {l} : Users(m)' = Users(m)
    BY <1>0, <2>1, <2>2 DEF Users, TypeOK
  <2>4. /\ Cardinality(Users(l)') = Cardinality(Users(l)) - 1
        /\ Cardinality(Users(l)) \in Nat \ {0} /\ Cardinality(Users(l)') \in Nat
    BY <2>3, CountDown
  <2>5. refs[l] = Cardinality(Users(l)) /\ refs'[l] = Cardinality(Users(l)') /\ refs'[l] \in Nat
    BY <1>0, <2>1, <2>2, <2>4 DEF IndInv, TypeOK
  <2>6. TypeOK'
    BY <1>0, <2>1, <2>2, <2>5 DEF TypeOK
  <2>7. \A m \in Lock : refs'[m] = Cardinality(Users(m)')
    <3>1. \A m \in Lock \ {l} : refs'[m] = refs[m] /\ refs[m] = Cardinality(Users(m))
      BY <1>0, <2>1 DEF IndInv, TypeOK
    <3> QED
      BY <2>3, <2>5, <3>1
  <2>8. refs'[l] = 0 <=> \A b \in Attempt \ {a} : lk[b] # l
    <3>1. Users(l)' = {b \in Attempt \ {a} : lk[b] = l}
      BY <2>3 DEF Users
    <3>2. IsFiniteSet(Users(l)')
      BY <2>3, <3>1, FS_Subset
    <3>3. Cardinality(Users(l)') = 0 <=> Users(l)' = {}
      BY <3>2, FS_EmptySet
    <3> QED
      BY <2>5, <3>1, <3>3
  <2>9. \A b \in Attempt : Using(b)'
    <3>1. \A b \in Attempt \ {a} : pc[b] # "idle" /\ key[b] = k => lk[b] = l
      BY <1>0, <2>2 DEF Using
    <3> QED
      BY <1>0, <2>1, <2>2, <2>8, <3>1 DEF TypeOK, Using
  <2>10. \A i, j \in Key : lockOf'[i] # NoLock /\ lockOf'[i] = lockOf'[j] => i = j
    BY <1>0, <2>1, <2>2 DEF IndInv, TypeOK
  <2>11. \A j \in Key : lockOf'[j] # NoLock => \E b \in Attempt : lk'[b] = lockOf'[j]
    <3>1. \A j \in Key \ {k} : lockOf[j] # l
      BY <2>2 DEF IndInv
    <3>2. \A j \in Key \ {k} : lockOf[j] # NoLock => \E b \in Attempt \ {a} : lk[b] = lockOf[j]
      BY <2>2, <3>1 DEF IndInv
    <3> QED
      BY <1>0, <2>1, <2>2, <2>8, <3>2 DEF TypeOK
  <2>12. \A m \in Lock, b \in Attempt : owner'[m] = b <=> lk'[b] = m /\ pc'[b] \in Holding
    BY <1>0, <2>1, <2>2 DEF TypeOK, Holding, Verifying
  <2>13. LockoutHonoured' /\ SlotsBounded'
    <3>1. Hashing' = Hashing
      BY <1>0, <2>1 DEF Hashing, TypeOK
    <3>2. SlotsBounded'
      BY <1>0, <2>1, <3>1 DEF SlotsBounded
    <3> QED
      BY <1>0, <2>1, <3>2 DEF LockoutHonoured, TypeOK, Verifying
  <2> QED
    BY <2>6, <2>7, <2>9, <2>10, <2>11, <2>12, <2>13 DEF IndInv
<1>4. CASE TimePasses
  <2>1. locked' = [k \in Key |-> IF locked[k] > 0 THEN locked[k] - 1 ELSE 0] /\ failures' = failures
    BY <1>4 DEF TimePasses, Tick
  <2>2. TypeOK'
    BY <1>0, <1>4, <2>1, ThrottleAssumption DEF TimePasses, TypeOK
  <2>3. LockoutHonoured'
    BY <1>0, <1>4, <2>1 DEF TimePasses, LockoutHonoured, Using, Verifying
  <2>4. SlotsBounded'
    BY <1>0, <1>4 DEF TimePasses, SlotsBounded, Hashing
  <2> QED
    BY <1>4, <2>2, <2>3, <2>4 DEF TimePasses, IndInv, Using, Users
<1>5. CASE UNCHANGED vars
  BY <1>0, <1>5 DEF vars, IndInv, TypeOK, Using, Users, LockoutHonoured, SlotsBounded, Hashing
<1> QED
  BY <1>1, <1>2, <1>3, <1>4, <1>5 DEF Next, Step

\* IndInv holds for any number of requests, keys, locks and slots.
THEOREM IndInvHolds == Spec => []IndInv
BY InitInv, NextInv, PTL DEF Spec

\* Attempts with one key are serialized, whatever becomes of the lock objects.
THEOREM MutualExclusionAlways == Spec => []MutualExclusion
BY IndInvHolds, OneHolder, PTL

\* No password is compared for a key that is locked out.
THEOREM LockoutHonouredAlways == Spec => []LockoutHonoured
<1>1. IndInv => LockoutHonoured
  BY DEF IndInv
<1> QED
  BY IndInvHolds, <1>1, PTL

\* keyLocks holds the keys with an attempt in flight and no others.
THEOREM EntryWhileUsedAlways == Spec => []EntryWhileUsed
BY IndInvHolds, Entries, PTL

\* The argon2id computations running at once never exceed the slots.
THEOREM SlotsBoundedAlways == Spec => []SlotsBounded
<1>1. IndInv => SlotsBounded
  BY DEF IndInv
<1> QED
  BY IndInvHolds, <1>1, PTL

\* A record is made for a key that is not locked out: a whole attempt, seen
\* from the counts, is one step of the throttle.
LEMMA StepRefines == IndInv /\ [Next]_vars => [ThrottleNext]_throttleVars
<1> SUFFICES ASSUME IndInv, [Next]_vars PROVE [ThrottleNext]_throttleVars
  OBVIOUS
<1>1. ASSUME NEW a \in Attempt, RecordFailure(a) \/ RecordSuccess(a)
      PROVE  ThrottleNext
  <2>1. key[a] \in Key /\ locked[key[a]] = 0
    BY <1>1 DEF RecordFailure, RecordSuccess, Goto, IndInv, Using, LockoutHonoured, Verifying
  <2> QED
    BY <1>1, <2>1 DEF RecordFailure, RecordSuccess, Attempted, ThrottleNext
<1>2. ASSUME NEW a \in Attempt,
             \/ Acquire(a) \/ Limited(a) \/ Pass(a) \/ NoVerdict(a) \/ GetSlot(a)
             \/ Verify(a) \/ Unlock(a) \/ Release(a) \/ \E k \in Key : Arrive(a, k)
      PROVE  UNCHANGED throttleVars
  BY <1>2 DEF Acquire, Limited, Pass, NoVerdict, GetSlot, Verify, Unlock, Release, Arrive, throttleVars
<1>3. CASE TimePasses
  BY <1>3 DEF TimePasses, ThrottleNext
<1>4. CASE UNCHANGED vars
  BY <1>4 DEF vars, throttleVars
<1> QED
  BY <1>1, <1>2, <1>3, <1>4 DEF Next, Step

\* The gate implements the throttle: attempts take effect one by one and only
\* while their key is not locked out.
THEOREM Implements == Spec => ImplementsThrottle
<1>1. Init => ThrottleInit
  BY DEF Init
<1> QED
  BY <1>1, IndInvHolds, StepRefines, PTL DEF Spec, ImplementsThrottle, ThrottleSpec

\* Nothing but the clock shortens a lockout.
THEOREM NeverCutShortAlways == Spec => NeverCutShort
<1>1. IndInv /\ [Next]_vars => [\A k \in Key : locked'[k] + 1 >= locked[k]]_vars
  <2> SUFFICES ASSUME IndInv, [Next]_vars, NEW k \in Key PROVE locked'[k] + 1 >= locked[k]
    OBVIOUS
  <2>1. locked \in [Key -> 0..MaxBackoff] /\ locked[k] \in Nat
    BY ThrottleAssumption DEF IndInv, TypeOK
  <2>2. CASE Tick
    BY <2>1, <2>2 DEF Tick
  <2>3. ASSUME NEW j \in Key, Attempted(j) PROVE locked'[k] + 1 >= locked[k]
    <3>1. locked'[j] \in 0..MaxBackoff \/ locked'[j] = locked[j]
      BY <2>1, <2>3, BackoffType, ThrottleAssumption DEF Attempted, Wrong, Right
    <3>2. CASE k = j
      BY <2>1, <2>3, <3>1, <3>2, ThrottleAssumption DEF Attempted
    <3>3. CASE k # j
      BY <2>1, <2>3, <3>3 DEF Attempted, Wrong, Right
    <3> QED
      BY <3>2, <3>3
  <2>4. CASE UNCHANGED throttleVars
    BY <2>1, <2>4 DEF throttleVars
  <2> QED
    BY <2>2, <2>3, <2>4, StepRefines DEF ThrottleNext
<1> QED
  BY <1>1, IndInvHolds, PTL DEF Spec, NeverCutShort
=============================================================================
