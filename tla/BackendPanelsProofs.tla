-------------------------- MODULE BackendPanelsProofs --------------------------
(***************************************************************************)
(* What each part of BackendPanels keeps to, whatever its constants are:    *)
(* for every part an inductive invariant, shown of its initial states and   *)
(* of each of its actions.  PanelsProofs puts the parts together.           *)
(***************************************************************************)
EXTENDS BackendPanels, Sequences, FiniteSetTheorems, WellFoundedInduction, TLAPS

(* Numbers and the sizes of sets.                                          *)

\* A set of numbers that is not empty has a least one.
LEMMA LeastNumber == ASSUME NEW S, S \subseteq Nat, S # {} PROVE \E m \in S : \A n \in S : m <= n
<1>1. PICK m \in S : \A n \in S : <<n, m>> \notin OpToRel(<, Nat)
  BY NatLessThanWellFounded, WFMin, Zenon
<1>2. ASSUME NEW n \in S PROVE m <= n
  <2>1. ~ (n < m)
    BY <1>1 DEF OpToRel
  <2> QED
    BY <2>1
<1> QED
  BY <1>2

\* Of a finite set of numbers, those with n or more below them are all but n at most.
LEMMA FewAreAbove ==
    ASSUME NEW S, IsFiniteSet(S), S \subseteq Nat, NEW n \in Int,
           NEW K, K = {j \in S : Cardinality({i \in S : i < j}) >= n}
    PROVE  K = {} \/ Cardinality(K) <= Cardinality(S) - n
<1> DEFINE below(j) == {i \in S : i < j}
<1>1. ASSUME K # {} PROVE Cardinality(K) <= Cardinality(S) - n
  <2>1. PICK m \in K : \A j \in K : m <= j
    <3>1. K \subseteq Nat
      OBVIOUS
    <3> QED
      BY <1>1, <3>1, LeastNumber
  <2>2. K \subseteq S \ below(m) /\ below(m) \subseteq S /\ Cardinality(below(m)) >= n
    <3>1. m \in Nat /\ \A j \in K : j \in S /\ j \in Nat /\ ~ (j < m)
      BY <2>1
    <3>2. K \subseteq S \ below(m)
      BY <3>1
    <3> QED
      BY <3>2
  <2> HIDE DEF below
  <2>3. IsFiniteSet(S \ below(m)) /\ Cardinality(S \ below(m)) = Cardinality(S) - Cardinality(S \cap below(m))
    BY FS_Difference
  <2>4. S \cap below(m) = below(m)
    BY <2>2
  <2>5. Cardinality(K) <= Cardinality(S \ below(m)) /\ IsFiniteSet(K) /\ IsFiniteSet(below(m))
    BY <2>2, <2>3, FS_Subset
  <2>6. Cardinality(S) \in Nat /\ Cardinality(below(m)) \in Nat /\ Cardinality(K) \in Nat
    BY <2>2, <2>3, FS_Subset, FS_CardinalityType
  <2>7. Cardinality(S \ below(m)) = Cardinality(S) - Cardinality(below(m))
    BY <2>3, <2>4
  <2> QED
    BY <2>2, <2>5, <2>6, <2>7
<1> QED
  BY <1>1

\* What a set's size becomes with one element more, and with fewer.
LEMMA OneMore ==
    ASSUME NEW S, IsFiniteSet(S), NEW e
    PROVE  /\ IsFiniteSet(S \cup {e}) /\ Cardinality(S) \in Nat /\ Cardinality(S \cup {e}) \in Nat
           /\ Cardinality(S \cup {e}) <= Cardinality(S) + 1
           /\ e \notin S => Cardinality(S \cup {e}) = Cardinality(S) + 1
<1>1. IsFiniteSet(S \cup {e})
  BY FS_AddElement
<1>2. Cardinality(S) \in Nat /\ Cardinality(S \cup {e}) \in Nat
  BY <1>1, FS_CardinalityType
<1>3. CASE e \in S
  <2>1. S \cup {e} = S
    BY <1>3
  <2>2. Cardinality(S \cup {e}) = Cardinality(S)
    BY <2>1, Zenon
  <2> QED
    BY <1>1, <1>2, <1>3, <2>2
<1>4. CASE e \notin S
  <2>1. Cardinality(S \cup {e}) = Cardinality(S) + 1
    BY <1>4, FS_AddElement
  <2> QED
    BY <1>1, <1>2, <2>1
<1> QED
  BY <1>3, <1>4

\* A part of a finite set is finite and no larger.
LEMMA Fewer ==
    ASSUME NEW S, NEW T, IsFiniteSet(T), S \subseteq T
    PROVE  IsFiniteSet(S) /\ Cardinality(S) \in Nat /\ Cardinality(T) \in Nat /\ Cardinality(S) <= Cardinality(T)
BY FS_Subset, FS_CardinalityType

\* What the size of a set becomes with an element less.
LEMMA OneLess ==
    ASSUME NEW S, IsFiniteSet(S), NEW e, e \in S
    PROVE  /\ IsFiniteSet(S \ {e}) /\ Cardinality(S \ {e}) \in Nat /\ Cardinality(S) \in Nat
           /\ Cardinality(S \ {e}) = Cardinality(S) - 1
BY FS_RemoveElement, FS_CardinalityType

\* What a function makes of finitely many, and the first numbers, are finitely many.
LEMMA ImageIsFinite ==
    ASSUME NEW S, IsFiniteSet(S), NEW f PROVE IsFiniteSet({f[x] : x \in S})
<1> DEFINE T == {f[x] : x \in S}
           g == [x \in S |-> f[x]]
<1>1. g \in Surjection(S, T)
  BY DEF Surjection
<1> HIDE DEF T, g
<1>2. IsFiniteSet(T)
  BY <1>1, FS_Surjection
<1> QED
  BY <1>2 DEF T

\* There are finitely many numbers up to another.
LEMMA UpTo == ASSUME NEW n \in Nat PROVE IsFiniteSet(1 .. n)
BY FS_Interval

-----------------------------------------------------------------------------
(* Jobs of mise: MiseJobs.                                                 *)

\* The part's own operators on finite sets are the library's.
LEMMA MiseCardinality == \A S : Mise!Cardinality(S) = Cardinality(S) /\ Mise!IsFiniteSet(S) = IsFiniteSet(S)
BY DEF Mise!Cardinality, Cardinality, Mise!IsFiniteSet, IsFiniteSet

\* As many of what is over are kept as leave room for what runs.
LEMMA MisePrune ==
    ASSUME Mise!TypeOK, Mise!StoreIsSound, NEW old \in Nat
    PROVE  /\ Mise!Running \subseteq Mise!Prune(old) /\ Mise!Prune(old) \subseteq x3.stored
           /\ IsFiniteSet(Mise!Running)
           /\ IsFiniteSet(Mise!Prune(old))
           /\ Cardinality(Mise!Prune(old)) <= MaxStored \/ Cardinality(Mise!Prune(old)) <= Cardinality(Mise!Running)
<1> DEFINE live == {j \in x3.stored : j \in Mise!Running \/ j > old}
           over == live \ Mise!Running
           n == Cardinality(live) - MaxStored
           kept == {j \in over : Cardinality({i \in over : i < j}) >= n}
<1>1. /\ x3.stored \subseteq 1 .. Len(x3.jobs) /\ Len(x3.jobs) \in Nat /\ Mise!Running \subseteq x3.stored
      /\ x3.stored \subseteq Nat
  BY DEF Mise!TypeOK, Mise!Servers, Mise!StoreIsSound
<1>2. IsFiniteSet(x3.stored)
  <2>1. IsFiniteSet(1 .. Len(x3.jobs))
    BY <1>1, FS_Interval
  <2> QED
    BY <1>1, <2>1, FS_Subset
<1>3. Mise!Running \subseteq live /\ over \subseteq live /\ live \subseteq x3.stored /\ over \subseteq Nat
  BY <1>1
<1>4. IsFiniteSet(live) /\ IsFiniteSet(Mise!Running) /\ IsFiniteSet(over)
  BY <1>2, <1>3, FS_Subset
<1>5. Cardinality(live) \in Nat /\ Cardinality(Mise!Running) \in Nat /\ n \in Int
  <2> HIDE DEF live
  <2> QED
    BY <1>4, FS_CardinalityType, MiseAssumption
<1>6. Cardinality(over) = Cardinality(live) - Cardinality(Mise!Running)
  <2>1. Mise!Running = live \cap Mise!Running
    BY <1>3
  <2> HIDE DEF live
  <2> QED
    BY <1>4, <2>1, FS_Difference
<1>7. Mise!Prune(old) = Mise!Running \cup kept
  <2>1. \A j \in over : Cardinality({i \in over : i < j}) \in Nat
    <3> SUFFICES ASSUME NEW j \in over PROVE Cardinality({i \in over : i < j}) \in Nat
      OBVIOUS
    <3>1. {i \in over : i < j} \subseteq over
      OBVIOUS
    <3> HIDE DEF over
    <3> QED
      BY <1>4, <3>1, FS_Subset, FS_CardinalityType
  <2>2. \A j \in over : Cardinality({i \in over : i < j}) + MaxStored < Cardinality(live) <=> ~ (Cardinality({i \in over : i < j}) >= n)
    BY <2>1, <1>5, MiseAssumption
  <2>3. Mise!Prune(old) = live \ {j \in over : Cardinality({i \in over : i < j}) + MaxStored < Cardinality(live)}
    BY MiseCardinality DEF Mise!Prune
  <2> QED
    BY <1>3, <2>2, <2>3
<1>8. kept = {} \/ Cardinality(kept) <= Cardinality(over) - n
  <2>1. kept = {j \in over : Cardinality({i \in over : i < j}) >= n}
    OBVIOUS
  <2> HIDE DEF over, n, kept
  <2> QED
    BY <1>3, <1>4, <1>5, <2>1, FewAreAbove
<1>9. kept \subseteq over
  OBVIOUS
<1> HIDE DEF kept, over, live
<1>10. IsFiniteSet(kept) /\ Cardinality(kept) \in Nat
  BY <1>4, <1>9, FS_Subset, FS_CardinalityType
<1>11. /\ IsFiniteSet(Mise!Running \cup kept)
       /\ Cardinality(Mise!Running \cup kept) <= Cardinality(Mise!Running) + Cardinality(kept)
  <2>1. Cardinality(Mise!Running \cap kept) \in Nat
    BY <1>4, FS_Intersection, FS_CardinalityType
  <2>2. /\ IsFiniteSet(Mise!Running \cup kept)
        /\ Cardinality(Mise!Running \cup kept) = Cardinality(Mise!Running) + Cardinality(kept) - Cardinality(Mise!Running \cap kept)
    BY <1>4, <1>10, FS_Union
  <2> QED
    BY <1>5, <1>10, <2>1, <2>2
<1>12. Cardinality(Mise!Running \cup kept) \in Nat
  BY <1>11, FS_CardinalityType
<1>15. Mise!Prune(old) \subseteq x3.stored
  BY <1>1, <1>3, <1>7, <1>9
<1>13. CASE kept = {}
  <2>1. Mise!Prune(old) = Mise!Running
    BY <1>7, <1>13
  <2>2. Cardinality(Mise!Prune(old)) <= Cardinality(Mise!Running)
    BY <1>5, <2>1
  <2> QED
    BY <1>4, <1>15, <2>1, <2>2
<1>14. CASE Cardinality(kept) <= Cardinality(over) - n
  <2>3. Cardinality(kept) + Cardinality(Mise!Running) <= MaxStored
    BY <1>5, <1>6, <1>10, <1>14, MiseAssumption
  <2>1. Cardinality(Mise!Running \cup kept) <= MaxStored
    BY <1>5, <1>10, <1>11, <1>12, <2>3, MiseAssumption
  <2>2. Cardinality(Mise!Prune(old)) <= MaxStored /\ IsFiniteSet(Mise!Prune(old)) /\ Mise!Running \subseteq Mise!Prune(old)
    BY <1>7, <1>11, <2>1, Zenon
  <2> QED
    BY <1>4, <1>15, <2>2
<1> QED
  BY <1>8, <1>13, <1>14

\* A job is started: it is in the store with every job that runs, the store is
\* of its size again and the others are as they were.
LEMMA MiseStartJob ==
    ASSUME Mise!TypeOK, Mise!StoreIsSound, Mise!RunningAreCounted, Mise!StartJob
    PROVE  /\ x3' \in Mise!Servers /\ Len(x3'.jobs) = Len(x3.jobs) + 1 /\ x3'.stored \subseteq DOMAIN x3'.jobs
           /\ \A j \in DOMAIN x3.jobs : j \in DOMAIN x3'.jobs /\ x3'.jobs[j] = x3.jobs[j]
           /\ Mise!StoreIsSound' /\ Mise!RunningAreCounted'
<1> DEFINE new == Len(x3.jobs) + 1
<1>1. /\ x3.jobs \in Seq({"running"} \cup Mise!Over) /\ Len(x3.jobs) \in Nat /\ DOMAIN x3.jobs = 1 .. Len(x3.jobs)
      /\ x3.stored \subseteq 1 .. Len(x3.jobs) /\ x3.old \in Nat /\ x3.peak \in Nat
  BY DEF Mise!TypeOK, Mise!Servers
<1>2. PICK old \in x3.old .. Len(x3.jobs) :
         x3' = [jobs |-> Append(x3.jobs, "running"), stored |-> Mise!Prune(old) \cup {new}, old |-> old,
                peak |-> IF Cardinality(Mise!Running) + 1 > x3.peak THEN Cardinality(Mise!Running) + 1 ELSE x3.peak]
  BY MiseCardinality DEF Mise!StartJob
<1>3. old \in Nat
  BY <1>1
<1>4. /\ Mise!Running \subseteq Mise!Prune(old) /\ Mise!Prune(old) \subseteq x3.stored
      /\ IsFiniteSet(Mise!Running) /\ IsFiniteSet(Mise!Prune(old))
      /\ Cardinality(Mise!Prune(old)) <= MaxStored \/ Cardinality(Mise!Prune(old)) <= Cardinality(Mise!Running)
  BY <1>3, MisePrune
<1>5. Cardinality(Mise!Running) \in Nat /\ Cardinality(Mise!Prune(old)) \in Nat
  BY <1>4, FS_CardinalityType
<1>6. new \notin x3.stored /\ new \notin Mise!Running /\ new \in Nat
  BY <1>1 DEF Mise!Running
<1>7. /\ x3'.jobs = Append(x3.jobs, "running") /\ x3'.jobs \in Seq({"running"} \cup Mise!Over)
      /\ Len(x3'.jobs) = new /\ DOMAIN x3'.jobs = 1 .. new /\ x3'.jobs[new] = "running"
      /\ \A j \in DOMAIN x3.jobs : j \in DOMAIN x3'.jobs /\ x3'.jobs[j] = x3.jobs[j]
  BY <1>1, <1>2
<1>8. Mise!Running' = Mise!Running \cup {new}
  BY <1>1, <1>7 DEF Mise!Running
<1>9. Cardinality(Mise!Running') = Cardinality(Mise!Running) + 1 /\ Cardinality(Mise!Running') \in Nat
  <2>1. Cardinality(Mise!Running \cup {new}) = Cardinality(Mise!Running) + 1
    BY <1>4, <1>6, FS_AddElement
  <2> QED
    BY <1>5, <1>8, <2>1
<1>10. /\ Cardinality(Mise!Prune(old) \cup {new}) = Cardinality(Mise!Prune(old)) + 1
       /\ x3'.stored = Mise!Prune(old) \cup {new}
  BY <1>2, <1>4, <1>5, <1>6, FS_AddElement
<1>11. x3'.peak \in Nat /\ x3'.peak >= Cardinality(Mise!Running) + 1 /\ x3'.peak >= x3.peak
  BY <1>1, <1>2, <1>5
<1>12. Mise!StoreIsSound'
  <2>1. Mise!Running' \subseteq x3'.stored
    BY <1>4, <1>8, <1>10
  <2>2. Cardinality(x3'.stored) <= MaxStored + 1 \/ Cardinality(x3'.stored) <= x3'.peak
    BY <1>4, <1>5, <1>10, <1>11, MiseAssumption
  <2> QED
    BY <2>1, <2>2, MiseCardinality DEF Mise!StoreIsSound
<1>13. Mise!RunningAreCounted'
  BY <1>9, <1>11, MiseCardinality DEF Mise!RunningAreCounted
<1>14. x3'.stored \subseteq DOMAIN x3'.jobs
  BY <1>1, <1>4, <1>7, <1>10
<1>15. x3' \in Mise!Servers
  <2>1. x3'.stored \in SUBSET Nat
    BY <1>7, <1>14
  <2>2. x3' = [jobs |-> x3'.jobs, stored |-> x3'.stored, old |-> old, peak |-> x3'.peak]
    BY <1>2
  <2> QED
    BY SMTT(30), <1>3, <1>7, <1>11, <2>1, <2>2 DEF Mise!Servers
<1> QED
  BY <1>7, <1>12, <1>13, <1>14, <1>15

\* The requests the page sends.
LEMMA MiseCalls ==
    /\ Mise!Call("load", None) \in Mise!Requests("load") /\ Mise!Call("load", None).kind = "load"
    /\ Mise!Call("tools", None) \in Mise!Requests("tools") /\ Mise!Call("tools", None).kind = "tools"
    /\ Mise!Call("restart", "panel") \in Mise!Requests("restart") /\ Mise!Call("restart", "panel").kind = "restart"
    /\ Mise!Call("restart", "panel").ask = "panel"
    /\ \A n \in Nat : /\ Mise!Call("start", n) \in Mise!Requests("start") /\ Mise!Call("start", n).kind = "start"
                      /\ ~ Mise!Call("start", n).done
                      /\ Mise!Call("poll", n) \in Mise!Requests("poll") /\ Mise!Call("poll", n).kind = "poll"
                      /\ Mise!Call("poll", n).ask = n /\ ~ Mise!Call("poll", n).done
                      /\ [Mise!Call("poll", n) EXCEPT !.reply = "again"] \in Mise!Requests("poll")
                      /\ [Mise!Call("poll", n) EXCEPT !.reply = "again"].kind = "poll"
                      /\ [Mise!Call("poll", n) EXCEPT !.reply = "again"].ask = n
                      /\ ~ [Mise!Call("poll", n) EXCEPT !.reply = "again"].done
BY DEF Mise!Call, Mise!Requests

\* The starts that are unserved have room when none is sent and none is served.
LEMMA MiseRoom ==
    ASSUME Mise!TypeOK, Mise!StartsHaveRoom, IsFiniteSet(x2'), Mise!Unserved' \subseteq Mise!Unserved, Len(x3'.jobs) <= Len(x3.jobs),
           Len(x3'.jobs) \in Nat
    PROVE  Mise!StartsHaveRoom'
<1>1. IsFiniteSet(Mise!Unserved) /\ Len(x3.jobs) \in Nat
  <2>1. Mise!Unserved \subseteq x2
    BY DEF Mise!Unserved, Mise!Waiting
  <2> QED
    BY <2>1, FS_Subset, MiseCardinality DEF Mise!StartsHaveRoom, Mise!TypeOK, Mise!Servers
<1>2. Cardinality(Mise!Unserved') <= Cardinality(Mise!Unserved) /\ IsFiniteSet(Mise!Unserved')
  BY <1>1, FS_Subset
<1>3. Cardinality(Mise!Unserved') \in Nat /\ Cardinality(Mise!Unserved) \in Nat
  BY <1>1, <1>2, FS_CardinalityType
<1> QED
  BY <1>1, <1>2, <1>3, MiseCardinality, BoundAssumption DEF Mise!StartsHaveRoom

\* A start is sent where there is room for one.
LEMMA MiseSendStart ==
    ASSUME Mise!TypeOK, Mise!StartsHaveRoom, Mise!MayStart, x2' = Mise!Sent(Mise!StartCall), x3' = x3
    PROVE  /\ Mise!StartsHaveRoom'
           /\ Mise!StartCall \in Mise!Requests("start") /\ Mise!StartCall.kind = "start" /\ ~ Mise!StartCall.done
<1> DEFINE starts == Mise!Waiting("start")
<1>1. IsFiniteSet(x2) /\ IsFiniteSet(starts) /\ IsFiniteSet(Mise!Unserved) /\ Mise!Unserved \subseteq starts
  <2>1. Mise!Unserved \subseteq starts /\ starts \subseteq x2
    BY DEF Mise!Unserved, Mise!Waiting
  <2> QED
    BY <2>1, FS_Subset, MiseCardinality DEF Mise!StartsHaveRoom
<1>2. Cardinality(starts) \in Nat /\ Cardinality(Mise!Unserved) \in Nat /\ Cardinality(Mise!Unserved) <= Cardinality(starts)
  BY <1>1, FS_Subset, FS_CardinalityType
<1>3. Mise!StartCall \in Mise!Requests("start") /\ Mise!StartCall.kind = "start" /\ ~ Mise!StartCall.done
  BY <1>2, MiseCalls, MiseCardinality DEF Mise!StartCall
<1>4. Mise!Unserved' \subseteq Mise!Unserved \cup {Mise!StartCall}
  BY DEF Mise!Unserved, Mise!Waiting, Mise!Sent
<1>5. /\ IsFiniteSet(Mise!Unserved \cup {Mise!StartCall})
      /\ Cardinality(Mise!Unserved \cup {Mise!StartCall}) <= Cardinality(Mise!Unserved) + 1
      /\ IsFiniteSet(x2')
  BY <1>1, OneMore DEF Mise!Sent
<1>6. Cardinality(Mise!Unserved') <= Cardinality(Mise!Unserved \cup {Mise!StartCall}) /\ IsFiniteSet(Mise!Unserved')
  BY <1>4, <1>5, FS_Subset
<1>7. Cardinality(Mise!Unserved') \in Nat /\ Cardinality(Mise!Unserved \cup {Mise!StartCall}) \in Nat
  BY <1>5, <1>6, FS_CardinalityType
<1>8. Len(x3.jobs) + Cardinality(starts) < MaxJobs /\ Len(x3.jobs) \in Nat
  BY MiseCardinality DEF Mise!MayStart, Mise!TypeOK, Mise!Servers
<1>9. Len(x3.jobs) + Cardinality(Mise!Unserved') <= MaxJobs
  <2> HIDE DEF starts
  <2> QED
    BY <1>2, <1>5, <1>6, <1>7, <1>8, BoundAssumption
<1> QED
  BY <1>3, <1>5, <1>9, MiseCardinality DEF Mise!StartsHaveRoom

\* The initial states satisfy the invariant.
LEMMA MiseInit == ASSUME Mise!Init PROVE Mise!IndInv
<1> USE DEF Mise!Init
<1>1. x1 \in Mise!Pages /\ x2 = {Mise!Call("load", None)}
  BY DEF Mise!Pages, Mise!Over
<1>2. x3 \in Mise!Servers /\ x3.jobs = <<>> /\ x3.stored = {} /\ x3.peak = 0
  BY DEF Mise!Servers
<1>3. Mise!TypeOK
  BY <1>1, <1>2, MiseCalls, BoundAssumption DEF Mise!TypeOK
<1>4. Mise!NothingStuck /\ Mise!PollsAreOfShown /\ Mise!StartsAreNew
  BY <1>1, MiseCalls DEF Mise!NothingStuck, Mise!PollsAreOfShown, Mise!StartsAreNew, Mise!Waiting
<1>5. Mise!Running = {} /\ Mise!Unserved = {}
  BY <1>1, <1>2, MiseCalls DEF Mise!Running, Mise!Unserved, Mise!Waiting
<1>6. Mise!StoreIsSound /\ Mise!RunningAreCounted
  BY <1>2, <1>5, FS_EmptySet, MiseCardinality, MiseAssumption DEF Mise!StoreIsSound, Mise!RunningAreCounted
<1>7. Mise!StartsHaveRoom
  <2>1. IsFiniteSet(x2)
    BY <1>1, FS_Singleton
  <2> QED
    BY <1>2, <1>5, <2>1, FS_EmptySet, MiseCardinality, BoundAssumption DEF Mise!StartsHaveRoom
<1> QED
  BY <1>3, <1>4, <1>6, <1>7 DEF Mise!IndInv

\* What the page does by itself leaves the backend as it is.
LEMMA MiseStay == ASSUME Mise!IndInv, x3' = x3 PROVE Mise!StoreIsSound' /\ Mise!RunningAreCounted' /\ x3 \in Mise!Servers
  /\ Len(x3'.jobs) \in Nat /\ Len(x3'.jobs) <= Len(x3.jobs) /\ Len(x3'.jobs) <= MaxJobs /\ DOMAIN x3'.jobs \subseteq Nat
  /\ x3'.stored \subseteq DOMAIN x3'.jobs
BY DEF Mise!IndInv, Mise!TypeOK, Mise!Servers, Mise!StoreIsSound, Mise!Running, Mise!RunningAreCounted

\* A request that is sent, of a kind but a start.
LEMMA MiseSend ==
    ASSUME Mise!IndInv, x3' = x3, NEW d, d.kind \in {"load", "tools", "poll", "restart"}, x2' = x2 \cup {d}
    PROVE  Mise!StartsHaveRoom'
<1>1. IsFiniteSet(x2')
  BY OneMore, MiseCardinality DEF Mise!IndInv, Mise!StartsHaveRoom
<1>2. Mise!Unserved' \subseteq Mise!Unserved
  BY DEF Mise!Unserved, Mise!Waiting
<1> QED
  BY <1>1, <1>2, MiseRoom, MiseStay DEF Mise!IndInv

\* Requests that are received, the server being the same, leave room for the
\* starts on their way.
LEMMA MiseReceive ==
    ASSUME Mise!IndInv, x3' = x3, x2' \subseteq x2
    PROVE  Mise!StartsHaveRoom'
<1>1. IsFiniteSet(x2')
  BY Fewer, MiseCardinality DEF Mise!IndInv, Mise!StartsHaveRoom
<1>2. Mise!Unserved' \subseteq Mise!Unserved
  BY DEF Mise!Unserved, Mise!Waiting
<1> QED
  BY <1>1, <1>2, MiseRoom, MiseStay DEF Mise!IndInv

\* What a page does without an answer keeps the invariant.
LEMMA MisePage ==
    ASSUME Mise!IndInv, x3' = x3,
           \/ Mise!Load \/ Mise!Start \/ Mise!Ask \/ Mise!Confirm \/ Mise!Cancel \/ Mise!Poll \/ Mise!CloseJob \/ Mise!PanelRestart
    PROVE  Mise!IndInv'
<1> USE NoneAssumption, MiseCalls, MiseStay
    DEF Mise!IndInv, Mise!TypeOK, Mise!NothingStuck, Mise!PollsAreOfShown, Mise!StartsAreNew, Mise!Waiting, Mise!Busy
<1>1. CASE Mise!Load
  <2>1. x1' \in Mise!Pages /\ x2' = x2 \cup {Mise!Call("load", None)}
    BY <1>1 DEF Mise!Load, Mise!Sent, Mise!Pages
  <2>2. Mise!StartsHaveRoom'
    BY <2>1, MiseSend
  <2> QED
    BY <1>1, <2>1, <2>2 DEF Mise!Load
<1>2. CASE Mise!Start
  <2>1. Mise!StartsHaveRoom' /\ Mise!StartCall \in Mise!Requests("start") /\ Mise!StartCall.kind = "start" /\ ~ Mise!StartCall.done
    BY <1>2, MiseSendStart DEF Mise!Start
  <2> QED
    BY <1>2, <2>1 DEF Mise!Start, Mise!Sent
<1>3. CASE Mise!Ask \/ Mise!Cancel
  <2>1. x2' = x2 /\ \E v \in BOOLEAN : x1' = [x1 EXCEPT !.dialog = v]
    BY <1>3 DEF Mise!Ask, Mise!Cancel
  <2>3. x1' \in Mise!Pages /\ x1'.job = x1.job /\ x1'.loading = x1.loading /\ x1'.panel = x1.panel
    BY <2>1 DEF Mise!Pages
  <2>2. Mise!StartsHaveRoom'
    BY <2>1, MiseReceive
  <2> QED
    BY <2>1, <2>2, <2>3
<1>4. CASE Mise!Confirm
  <2>1. Mise!StartsHaveRoom' /\ Mise!StartCall \in Mise!Requests("start") /\ Mise!StartCall.kind = "start" /\ ~ Mise!StartCall.done
    BY <1>4, MiseSendStart DEF Mise!Confirm
  <2>2. x2' = x2 \cup {Mise!StartCall} /\ x1' \in Mise!Pages /\ x1'.job = x1.job /\ x1'.loading = x1.loading /\ x1'.panel = x1.panel
    BY <1>4 DEF Mise!Confirm, Mise!Sent, Mise!Pages
  <2> QED
    BY <2>1, <2>2
<1>5. CASE Mise!Poll
  <2> DEFINE d == [Mise!Call("poll", x1.job.id) EXCEPT !.reply = "again"]
  <2>1. x1' = x1 /\ x1.job # None /\ x2' = x2 \cup {d} /\ Mise!Busy
    BY <1>5 DEF Mise!Poll, Mise!Sent
  <2>2. x1.job.id \in Nat
    BY <2>1 DEF Mise!Pages
  <2>3. d \in Mise!Requests("poll") /\ d.kind = "poll" /\ d.ask = x1.job.id /\ ~ d.done
    BY <2>2, MiseCalls
  <2> HIDE DEF d
  <2>4. Mise!StartsHaveRoom'
    BY <2>1, <2>3, MiseSend
  <2> QED
    BY <2>1, <2>3, <2>4
<1>6. CASE Mise!CloseJob
  <2> DEFINE gone(c) == [c EXCEPT !.ask = IF c.kind = "restart" /\ @ = "panel" THEN "gone" ELSE @]
             polled == {d \in x2 : d.kind # "poll"}
  <2>1. x2' = {gone(c) : c \in polled} /\ x1' \in Mise!Pages /\ x1'.job = None /\ x1'.loading = x1.loading /\ x1'.panel = "closed"
    BY <1>6 DEF Mise!CloseJob, Mise!Pages
  <2>2. ASSUME NEW c \in x2 PROVE /\ gone(c) \in Mise!Requests(c.kind) /\ gone(c).kind = c.kind /\ gone(c).done = c.done /\ gone(c).reply = c.reply
                                  /\ c.kind # "restart" => gone(c) = c
    <3>1. CASE c.kind = "restart"
      BY <3>1 DEF Mise!Requests
    <3>2. CASE c.kind = "load"
      BY <3>2 DEF Mise!Requests
    <3>5. CASE c.kind = "tools"
      BY <3>5 DEF Mise!Requests
    <3>3. CASE c.kind = "start"
      BY <3>3 DEF Mise!Requests
    <3>4. CASE c.kind = "poll"
      BY <3>4 DEF Mise!Requests
    <3> QED
      BY <3>1, <3>2, <3>3, <3>4, <3>5
  <2>3. Mise!StartsHaveRoom'
    <3>1. IsFiniteSet(x2)
      BY MiseCardinality DEF Mise!StartsHaveRoom
    <3>2. IsFiniteSet(polled)
      BY <3>1, Fewer
    <3>3. IsFiniteSet(x2')
      <4> DEFINE f == [c \in polled |-> gone(c)]
      <4>1. \A c \in polled : f[c] = gone(c)
        OBVIOUS
      <4> HIDE DEF f, polled, gone
      <4>2. x2' = {f[c] : c \in polled}
        BY <2>1, <4>1
      <4> QED
        BY <3>2, <4>2, ImageIsFinite
    <3>4. Mise!Unserved' \subseteq Mise!Unserved
      <4> HIDE DEF gone
      <4> QED
        BY <2>1, <2>2 DEF Mise!Unserved
    <3> QED
      BY <3>3, <3>4, MiseRoom
  <2> HIDE DEF gone
  <2> QED
    BY <2>1, <2>2, <2>3
<1>7. CASE Mise!PanelRestart
  <2>1. CASE x1.panel = "asked" /\ Mise!Room /\ x1' = [x1 EXCEPT !.panel = "restarting"] /\ x2' = Mise!Sent(Mise!Call("restart", "panel"))
    <3>1. x1' \in Mise!Pages /\ x2' = x2 \cup {Mise!Call("restart", "panel")}
      BY <2>1 DEF Mise!Sent, Mise!Pages
    <3>2. Mise!StartsHaveRoom'
      BY <3>1, MiseSend
    <3> QED
      BY <2>1, <3>1, <3>2 DEF Mise!Pages
  <2>2. CASE x2' = x2 /\ (x1' = [x1 EXCEPT !.panel = "asked"] \/ x1' = [x1 EXCEPT !.panel = "closed"])
    <3>1. x1' \in Mise!Pages /\ x1'.job = x1.job /\ x1'.loading = x1.loading /\ x1'.panel \in {"asked", "closed"}
      BY <2>2 DEF Mise!Pages
    <3>2. Mise!StartsHaveRoom'
      BY <2>2, MiseReceive
    <3> QED
      BY <2>2, <3>1, <3>2
  <2> QED
    BY <1>7, <2>1, <2>2 DEF Mise!PanelRestart
<1> QED
  BY <1>1, <1>2, <1>3, <1>4, <1>5, <1>6, <1>7

\* An answer that a page receives keeps the invariant.
LEMMA MiseAnswers ==
    ASSUME Mise!IndInv, x3' = x3, NEW c \in x2, Mise!Listed(c) \/ Mise!Started(c) \/ Mise!Polled(c) \/ Mise!Restarted(c)
    PROVE  Mise!IndInv'
<1> USE NoneAssumption, MiseStay
    DEF Mise!IndInv, Mise!TypeOK, Mise!NothingStuck, Mise!PollsAreOfShown, Mise!StartsAreNew, Mise!Waiting, Mise!Busy
<1>1. CASE Mise!Listed(c)
  <2>1. /\ x2' = x2 \ {c} /\ x1' \in Mise!Pages /\ x1'.job = x1.job /\ x1'.panel = x1.panel
        /\ c.kind \in {"load", "tools"} /\ x1'.loading = (x1.loading /\ c.kind # "load")
    BY <1>1 DEF Mise!Listed, Mise!Pages
  <2>2. Mise!StartsHaveRoom'
    BY <2>1, MiseReceive
  <2> QED
    BY <2>1, <2>2
<1>2. CASE Mise!Restarted(c)
  <2>1. x2' = x2 \ {c} /\ c.kind = "restart"
    BY <1>2 DEF Mise!Restarted
  <2>2. Mise!StartsHaveRoom'
    BY <2>1, MiseReceive
  <2>3. CASE c.ask = "panel"
    <3>1. x1' \in Mise!Pages /\ x1'.job = x1.job /\ x1'.panel = "closed" /\ x1'.loading = x1.loading
      BY <1>2, <2>3 DEF Mise!Restarted, Mise!Pages
    <3> QED
      BY <2>1, <2>2, <3>1
  <2>4. CASE c.ask # "panel" /\ x1' = x1
    BY <2>1, <2>2, <2>4
  <2> QED
    BY <1>2, <2>3, <2>4 DEF Mise!Restarted
<1>3. CASE Mise!Started(c)
  <2>1. CASE x2' = x2 \ {c} /\ x1' = x1
    <3>1. Mise!StartsHaveRoom'
      BY <2>1, MiseReceive
    <3>2. c.kind = "start"
      BY <1>3 DEF Mise!Started
    <3> QED
      BY <2>1, <3>1, <3>2
  <2>2. CASE c.reply # None
    <3> DEFINE j == [id |-> c.reply, status |-> "starting"]
               d == Mise!Call("poll", c.reply)
               rest == {e \in x2 \ {c} : e.kind # "poll"}
    <3>1. x2' = rest \cup {d} /\ x1' = [x1 EXCEPT !.job = j] /\ c.kind = "start" /\ c.done
      BY <1>3, <2>2 DEF Mise!Started
    <3>2. c.reply \in DOMAIN x3.jobs /\ c.reply \in Nat
      BY <2>2, <3>1
    <3>3. x1' \in Mise!Pages /\ x1'.job = j /\ x1'.loading = x1.loading /\ x1'.panel = x1.panel
      BY <3>1, <3>2 DEF Mise!Pages
    <3>4. d \in Mise!Requests("poll") /\ d.kind = "poll" /\ d.ask = c.reply /\ ~ d.done
      BY <3>2, MiseCalls
    <3>5. j.id = c.reply /\ j.status \notin Mise!Over /\ j # None
      <4>1. j \in [id : Nat, status : {"starting", "running", "ok", "failed"}]
        BY <3>2
      <4> QED
        BY <4>1, MiseAssumption DEF Mise!Over
    <3> HIDE DEF d, j
    <3>6. Mise!StartsHaveRoom'
      <4>1. IsFiniteSet(x2')
        <5>1. IsFiniteSet(rest)
          BY Fewer, MiseCardinality DEF Mise!StartsHaveRoom
        <5> QED
          BY <3>1, <5>1, OneMore
      <4>2. Mise!Unserved' \subseteq Mise!Unserved
        BY <3>1, <3>4 DEF Mise!Unserved
      <4> QED
        BY <4>1, <4>2, MiseRoom
    <3>7. Mise!TypeOK' /\ Mise!NothingStuck'
      BY <3>1, <3>2, <3>3, <3>4, <3>5
    <3>8. Mise!PollsAreOfShown'
      BY <3>1, <3>3, <3>4, <3>5
    <3>9. Mise!StartsAreNew'
      BY <2>2, <3>1, <3>3, <3>4, <3>5
    <3> QED
      BY <3>6, <3>7, <3>8, <3>9
  <2> QED
    BY <1>3, <2>1, <2>2 DEF Mise!Started
<1>4. CASE Mise!Polled(c)
  <2>1. c.kind = "poll" /\ c.done /\ x1.job # None /\ c.ask = x1.job.id /\ x1.job.id \in Nat /\ x1.job.status \notin Mise!Over /\ c.reply # "again"
    BY <1>4 DEF Mise!Polled, Mise!Pages
  <2>2. CASE x2' = x2 \ {c} /\ x1' = x1
    <3>1. Mise!StartsHaveRoom'
      BY <2>2, MiseReceive
    <3> QED
      BY <2>1, <2>2, <3>1
  <2>3. CASE c.reply # None
    <3> DEFINE j == [x1.job EXCEPT !.status = c.reply]
               again == j.status = "running" /\ x1.job.status = "starting"
               rest == IF j.status = x1.job.status THEN x2 \ {c} ELSE {e \in x2 : e.kind # "poll"}
               d == Mise!Call("poll", j.id)
               t == Mise!Call("tools", None)
    <3>1. /\ x1' = [x1 EXCEPT !.job = j]
          /\ x2' = (rest \cup (IF c.reply \in Mise!Over THEN {t} ELSE {})) \cup (IF again THEN {d} ELSE {})
      BY <1>4, <2>3 DEF Mise!Polled
    <3>2. c.reply \in {"running"} \cup Mise!Over
      BY <2>1, <2>3 DEF Mise!Requests
    <3>3. j.id = x1.job.id /\ j.status = c.reply /\ j # None /\ j \in [id : Nat, status : {"starting", "running"} \cup Mise!Over]
      <4>1. j \in [id : Nat, status : {"starting", "running"} \cup Mise!Over] /\ j.id = x1.job.id /\ j.status = c.reply
        BY <2>1, <3>2 DEF Mise!Pages
      <4>2. j \in [id : Nat, status : {"starting", "running", "ok", "failed"}]
        BY <4>1 DEF Mise!Over
      <4> QED
        BY <4>1, <4>2, MiseAssumption
    <3>4. d \in Mise!Requests("poll") /\ d.kind = "poll" /\ d.ask = x1.job.id /\ ~ d.done
      BY <2>1, <3>3, MiseCalls
    <3>5. t \in Mise!Requests("tools") /\ t.kind = "tools"
      BY MiseCalls
    <3>6. rest \subseteq x2 /\ {e \in x2 : e.kind # "poll"} \subseteq rest
          /\ \A e \in rest : e.kind = "poll" => j.status = x1.job.status
      BY <2>1
    <3>7. "running" \notin Mise!Over
      BY DEF Mise!Over
    <3> HIDE DEF j, d, t, rest
    <3>8. x1' \in Mise!Pages /\ x1'.job = j /\ x1'.loading = x1.loading /\ x1'.panel = x1.panel
      BY <3>1, <3>3 DEF Mise!Pages
    <3>9. Mise!StartsHaveRoom'
      <4>1. IsFiniteSet(x2')
        <5>1. IsFiniteSet(rest)
          BY <3>6, Fewer, MiseCardinality DEF Mise!StartsHaveRoom
        <5>2. IsFiniteSet(rest \cup {t}) /\ IsFiniteSet(rest \cup {d}) 
          BY <5>1, OneMore
        <5>3. IsFiniteSet((rest \cup {t}) \cup {d})
          BY <5>2, OneMore
        <5>4. x2' \subseteq (rest \cup {t}) \cup {d}
          BY <3>1
        <5> QED
          BY <5>3, <5>4, Fewer
      <4>2. Mise!Unserved' \subseteq Mise!Unserved
        BY <3>1, <3>4, <3>5, <3>6 DEF Mise!Unserved
      <4> QED
        BY <4>1, <4>2, MiseRoom
    <3>10. Mise!TypeOK'
      <4>1. \A e \in x2' : e.kind \in {"load", "tools", "start", "poll", "restart"} /\ e \in Mise!Requests(e.kind)
        BY <3>1, <3>4, <3>5, <3>6
      <4> QED
        BY <2>1, <3>3, <3>8, <4>1
    <3>11. Mise!NothingStuck'
      BY <3>1, <3>6, <3>8
    <3>12. Mise!PollsAreOfShown'
      BY <2>1, <3>1, <3>2, <3>3, <3>4, <3>5, <3>6, <3>7, <3>8
    <3>13. Mise!StartsAreNew'
      BY <2>1, <3>1, <3>3, <3>4, <3>5, <3>6, <3>8
    <3> QED
      BY <3>9, <3>10, <3>11, <3>12, <3>13
  <2> QED
    BY <1>4, <2>2, <2>3 DEF Mise!Polled
<1> QED
  BY <1>1, <1>2, <1>3, <1>4

\* An answer takes the place of the request it answers.
LEMMA MiseAnswered ==
    ASSUME Mise!IndInv, x1' = x1, NEW c \in x2, ~ c.done, NEW e \in Mise!Requests(c.kind),
           e.kind = c.kind, e.ask = c.ask, e.done, c.kind = "poll" => e.reply # "again",
           x2' = (x2 \ {c}) \cup {e}
    PROVE  /\ \A d \in x2' : d.kind \in {"load", "tools", "start", "poll", "restart"} /\ d \in Mise!Requests(d.kind)
           /\ Mise!NothingStuck' /\ Mise!PollsAreOfShown' /\ IsFiniteSet(x2')
           /\ Mise!Unserved' = IF c.kind = "start" THEN Mise!Unserved \ {c} ELSE Mise!Unserved
<1>1. e.kind = c.kind /\ e.ask = c.ask /\ e.done
  OBVIOUS
<1>2. \A d \in x2' : d.kind \in {"load", "tools", "start", "poll", "restart"} /\ d \in Mise!Requests(d.kind)
  BY <1>1 DEF Mise!IndInv, Mise!TypeOK
<1>3. Mise!NothingStuck'
  BY <1>1 DEF Mise!IndInv, Mise!NothingStuck, Mise!Waiting
<1>4. Mise!PollsAreOfShown'
  BY <1>1 DEF Mise!IndInv, Mise!PollsAreOfShown, Mise!Waiting, Mise!Busy
<1>5. IsFiniteSet(x2')
  <2>1. IsFiniteSet(x2 \ {c})
    BY Fewer, MiseCardinality DEF Mise!IndInv, Mise!StartsHaveRoom
  <2> QED
    BY <2>1, OneMore
<1>6. Mise!Unserved' = IF c.kind = "start" THEN Mise!Unserved \ {c} ELSE Mise!Unserved
  BY <1>1 DEF Mise!Unserved, Mise!Waiting
<1> QED
  BY <1>2, <1>3, <1>4, <1>5, <1>6

\* What the server does keeps the invariant.
LEMMA MiseServer ==
    ASSUME Mise!IndInv,
           \/ Mise!Elsewhere \/ Mise!Forget \/ (\E c \in x2 : Mise!Serve(c)) \/ (\E j \in DOMAIN x3.jobs : Mise!JobEnds(j))
    PROVE  Mise!IndInv'
<1> USE DEF Mise!IndInv
<1>0. /\ x1 \in Mise!Pages /\ x3.jobs \in Seq({"running"} \cup Mise!Over) /\ Len(x3.jobs) \in Nat /\ DOMAIN x3.jobs = 1 .. Len(x3.jobs)
      /\ Len(x3.jobs) <= MaxJobs /\ x3.stored \subseteq DOMAIN x3.jobs /\ x3.peak \in Nat /\ x3.old \in Nat
      /\ x1.job # None => x1.job.id \in DOMAIN x3.jobs
      /\ x3 = [jobs |-> x3.jobs, stored |-> x3.stored, old |-> x3.old, peak |-> x3.peak] /\ IsFiniteSet(x2)
  BY MiseCardinality DEF Mise!TypeOK, Mise!Servers, Mise!StartsHaveRoom
<1>00. IsFiniteSet(1 .. Len(x3.jobs))
  BY <1>0, UpTo
<1>1. CASE Mise!Elsewhere
  <2>1. /\ x3' \in Mise!Servers /\ Len(x3'.jobs) = Len(x3.jobs) + 1 /\ x3'.stored \subseteq DOMAIN x3'.jobs
        /\ \A j \in DOMAIN x3.jobs : j \in DOMAIN x3'.jobs
        /\ Mise!StoreIsSound' /\ Mise!RunningAreCounted' /\ x1' = x1 /\ x2' = x2
        /\ Len(x3.jobs) + Cardinality(Mise!Waiting("start")) < MaxJobs
    BY <1>1, MiseStartJob, MiseCardinality DEF Mise!Elsewhere
  <2>2. Mise!Unserved \subseteq Mise!Waiting("start") /\ Mise!Waiting("start") \subseteq x2
    BY DEF Mise!Unserved, Mise!Waiting
  <2>3. IsFiniteSet(Mise!Waiting("start"))
    BY <1>0, <2>2, Fewer
  <2>4. Cardinality(Mise!Unserved) <= Cardinality(Mise!Waiting("start")) /\ Cardinality(Mise!Unserved) \in Nat /\ Cardinality(Mise!Waiting("start")) \in Nat
    BY <2>2, <2>3, Fewer
  <2>5. Mise!Unserved' = Mise!Unserved
    BY <2>1 DEF Mise!Unserved, Mise!Waiting
  <2>6. Mise!StartsHaveRoom'
    BY <1>0, <2>1, <2>4, <2>5, MiseCardinality, BoundAssumption DEF Mise!StartsHaveRoom
  <2>7. Mise!TypeOK'
    BY SMTT(30), <1>0, <2>1, <2>4, BoundAssumption DEF Mise!TypeOK
  <2>8. Mise!NothingStuck' /\ Mise!PollsAreOfShown' /\ Mise!StartsAreNew'
    BY <2>1 DEF Mise!NothingStuck, Mise!PollsAreOfShown, Mise!StartsAreNew, Mise!Waiting, Mise!Busy
  <2> QED
    BY <2>1, <2>6, <2>7, <2>8
<1>2. ASSUME NEW jobs \in Seq({"running"} \cup Mise!Over), NEW stored, x1' = x1, x2' = x2,
             Len(jobs) = Len(x3.jobs), stored \subseteq x3.stored, x3' = [x3 EXCEPT !.stored = stored, !.jobs = jobs],
             \A j \in DOMAIN x3.jobs : jobs[j] = "running" => x3.jobs[j] = "running" /\ j \in stored
      PROVE  Mise!IndInv'
  <2>1. x3'.jobs = jobs /\ x3'.stored = stored /\ x3'.peak = x3.peak /\ DOMAIN jobs = DOMAIN x3.jobs
    BY <1>0, <1>2
  <2>2. x3' \in Mise!Servers
    <3>1. stored \in SUBSET Nat
      BY <1>0, <1>2
    <3> QED
      BY <1>0, <1>2, <3>1, Zenon DEF Mise!Servers, Mise!TypeOK
  <2>3. Mise!Running' \subseteq Mise!Running /\ Mise!Running' \subseteq stored
    BY <1>2, <2>1 DEF Mise!Running
  <2>4. Cardinality(Mise!Running') <= Cardinality(Mise!Running) /\ Cardinality(Mise!Running') \in Nat /\ Cardinality(Mise!Running) \in Nat
    <3>1. Mise!Running \subseteq 1 .. Len(x3.jobs)
      BY <1>0 DEF Mise!Running
    <3>2. IsFiniteSet(Mise!Running)
      BY <1>00, <1>0, <3>1, Fewer
    <3> QED
      BY <2>3, <3>2, Fewer
  <2>5. Cardinality(stored) <= Cardinality(x3.stored) /\ Cardinality(stored) \in Nat /\ Cardinality(x3.stored) \in Nat
    <3>1. IsFiniteSet(x3.stored)
      BY <1>00, <1>0, Fewer
    <3> QED
      BY <1>2, <3>1, Fewer
  <2>6. Mise!StoreIsSound' /\ Mise!RunningAreCounted'
    BY <1>0, <2>1, <2>3, <2>4, <2>5, MiseCardinality, MiseAssumption DEF Mise!StoreIsSound, Mise!RunningAreCounted
  <2>7. Mise!StartsHaveRoom'
    <3>1. Mise!Unserved' = Mise!Unserved
      BY <1>2 DEF Mise!Unserved, Mise!Waiting
    <3> QED
      BY <1>0, <1>2, <2>1, <3>1, MiseRoom
  <2>8. Mise!TypeOK'
    BY <1>0, <1>2, <2>1, <2>2 DEF Mise!TypeOK
  <2>9. Mise!NothingStuck' /\ Mise!PollsAreOfShown' /\ Mise!StartsAreNew'
    BY <1>2, <2>1 DEF Mise!NothingStuck, Mise!PollsAreOfShown, Mise!StartsAreNew, Mise!Waiting, Mise!Busy
  <2> QED
    BY <2>6, <2>7, <2>8, <2>9
<1>3. CASE Mise!Forget
  <2> DEFINE jobs == [j \in DOMAIN x3.jobs |-> IF j \in Mise!Running THEN "failed" ELSE x3.jobs[j]]
             none == {}
  <2>1. x1' = x1 /\ x2' = x2 /\ x3' = [x3 EXCEPT !.stored = none, !.jobs = jobs] /\ none \subseteq x3.stored
    BY <1>3 DEF Mise!Forget
  <2>2. jobs \in Seq({"running"} \cup Mise!Over) /\ Len(jobs) = Len(x3.jobs)
    BY <1>0 DEF Mise!Running, Mise!Over
  <2>3. \A j \in DOMAIN x3.jobs : jobs[j] = "running" => x3.jobs[j] = "running" /\ j \in none
    BY DEF Mise!Running
  <2> HIDE DEF jobs, none
  <2> QED
    BY <1>2, <2>1, <2>2, <2>3
<1>4. ASSUME NEW j \in DOMAIN x3.jobs, Mise!JobEnds(j) PROVE Mise!IndInv'
  <2>1. PICK r \in Mise!Over : x3' = [x3 EXCEPT !.jobs[j] = r]
    BY <1>4 DEF Mise!JobEnds
  <2> DEFINE jobs == [x3.jobs EXCEPT ![j] = r]
  <2>2. x1' = x1 /\ x2' = x2 /\ x3' = [x3 EXCEPT !.stored = x3.stored, !.jobs = jobs]
    BY <1>0, <1>4, <2>1 DEF Mise!JobEnds
  <2>3. /\ jobs \in Seq({"running"} \cup Mise!Over) /\ Len(jobs) = Len(x3.jobs)
        /\ \A i \in DOMAIN x3.jobs : jobs[i] = "running" => x3.jobs[i] = "running"
    BY <1>0 DEF Mise!Over
  <2>4. \A i \in DOMAIN x3.jobs : x3.jobs[i] = "running" => i \in x3.stored
    BY DEF Mise!StoreIsSound, Mise!Running
  <2> HIDE DEF jobs
  <2> QED
    BY <1>2, <2>2, <2>3, <2>4
<1>5. ASSUME NEW c \in x2, Mise!Serve(c) PROVE Mise!IndInv'
  <2>0. x1' = x1 /\ ~ c.done /\ c \in Mise!Requests(c.kind) /\ c.kind \in {"load", "tools", "start", "poll", "restart"}
    BY <1>5 DEF Mise!Serve, Mise!TypeOK
  <2>1. ASSUME NEW r, x2' = (x2 \ {c}) \cup {[c EXCEPT !.done = TRUE, !.reply = r]}, x3' = x3,
               [c EXCEPT !.done = TRUE, !.reply = r] \in Mise!Requests(c.kind),
               c.kind = "poll" => r # "again", c.kind = "start" => r = None
        PROVE  Mise!IndInv'
    <3> DEFINE e == [c EXCEPT !.done = TRUE, !.reply = r]
    <3>1. /\ \A d \in x2' : d.kind \in {"load", "tools", "start", "poll", "restart"} /\ d \in Mise!Requests(d.kind)
          /\ Mise!NothingStuck' /\ Mise!PollsAreOfShown' /\ IsFiniteSet(x2')
          /\ Mise!Unserved' \subseteq Mise!Unserved
          /\ e.kind = c.kind /\ e.done /\ e.reply = r
      <4>1. /\ e.kind = c.kind /\ e.ask = c.ask /\ e.done /\ e.reply = r
            /\ x2' = (x2 \ {c}) \cup {e} /\ e \in Mise!Requests(c.kind)
        BY <2>0, <2>1 DEF Mise!Requests
      <4> HIDE DEF e
      <4> QED
        BY <2>0, <2>1, <4>1, MiseAnswered
    <3>2. Mise!StartsAreNew'
      <4> HIDE DEF e
      <4> QED
        BY <2>0, <2>1, <3>1 DEF Mise!StartsAreNew, Mise!Waiting, e
    <3>3. Mise!StartsHaveRoom'
      BY <2>1, <3>1, MiseRoom, MiseStay
    <3>4. Mise!TypeOK'
      BY <2>0, <2>1, <3>1 DEF Mise!TypeOK
    <3> QED
      BY <2>1, <3>1, <3>2, <3>3, <3>4, MiseStay
  <2>2. CASE Mise!Answer(c, None) /\ x3' = x3
    <3>1. [c EXCEPT !.done = TRUE, !.reply = None] \in Mise!Requests(c.kind)
      BY <2>0 DEF Mise!Requests
    <3>2. None # "again"
      BY NoneAssumption
    <3> QED
      BY <2>1, <2>2, <3>1, <3>2 DEF Mise!Answer
  <2>3. CASE c.kind \in {"load", "tools", "restart"} /\ Mise!Answer(c, "ok") /\ x3' = x3
    <3>1. [c EXCEPT !.done = TRUE, !.reply = "ok"] \in Mise!Requests(c.kind)
      BY <2>0, <2>3 DEF Mise!Requests
    <3> QED
      BY <2>1, <2>3, <3>1 DEF Mise!Answer
  <2>4. CASE c.kind = "poll" /\ c.ask \in x3.stored /\ Mise!Answer(c, x3.jobs[c.ask]) /\ x3' = x3
    <3>1. x3.jobs[c.ask] \in {"running"} \cup Mise!Over /\ "again" \notin {"running"} \cup Mise!Over
      BY <1>0, <2>4 DEF Mise!Over
    <3>2. [c EXCEPT !.done = TRUE, !.reply = x3.jobs[c.ask]] \in Mise!Requests(c.kind)
      BY <2>0, <2>4, <3>1 DEF Mise!Requests
    <3> QED
      BY <2>1, <2>4, <3>1, <3>2 DEF Mise!Answer
  <2>5. CASE c.kind = "start" /\ Mise!Answer(c, Len(x3.jobs) + 1) /\ Mise!StartJob
    <3> DEFINE n == Len(x3.jobs) + 1
               e == [c EXCEPT !.done = TRUE, !.reply = n]
    <3>1. /\ x3' \in Mise!Servers /\ Len(x3'.jobs) = n /\ x3'.stored \subseteq DOMAIN x3'.jobs
          /\ \A j \in DOMAIN x3.jobs : j \in DOMAIN x3'.jobs
          /\ Mise!StoreIsSound' /\ Mise!RunningAreCounted'
      BY <2>5, MiseStartJob
    <3>2. n \in Nat /\ n \in DOMAIN x3'.jobs /\ n \notin DOMAIN x3.jobs
      BY <1>0, <3>1 DEF Mise!Servers
    <3>3. e \in Mise!Requests(c.kind) /\ x2' = (x2 \ {c}) \cup {e}
      BY <2>0, <2>5, <3>2 DEF Mise!Requests, Mise!Answer
    <3>4. /\ \A d \in x2' : d.kind \in {"load", "tools", "start", "poll", "restart"} /\ d \in Mise!Requests(d.kind)
          /\ Mise!NothingStuck' /\ Mise!PollsAreOfShown' /\ IsFiniteSet(x2')
          /\ Mise!Unserved' = Mise!Unserved \ {c}
          /\ e.kind = "start" /\ e.done /\ e.reply = n
      <4>1. e.kind = c.kind /\ e.ask = c.ask /\ e.done /\ e.reply = n
        BY <2>0, <2>5 DEF Mise!Requests
      <4> HIDE DEF e, n
      <4> QED
        BY <2>0, <2>5, <3>3, <4>1, MiseAnswered
    <3> HIDE DEF e, n
    <3>5. Mise!StartsAreNew'
      BY <1>0, <2>0, <2>5, <3>1, <3>2, <3>3, <3>4 DEF Mise!StartsAreNew, Mise!Waiting
    <3>6. c \in Mise!Unserved /\ IsFiniteSet(Mise!Unserved)
      <4>1. c \in Mise!Unserved /\ Mise!Unserved \subseteq x2
        BY <2>0, <2>5 DEF Mise!Unserved, Mise!Waiting
      <4> QED
        BY <1>0, <4>1, Fewer
    <3>7. Cardinality(Mise!Unserved') = Cardinality(Mise!Unserved) - 1 /\ Cardinality(Mise!Unserved) \in Nat /\ Cardinality(Mise!Unserved') \in Nat
      BY <3>4, <3>6, OneLess
    <3>8. Mise!StartsHaveRoom' /\ Len(x3'.jobs) <= MaxJobs
      BY <1>0, <3>1, <3>4, <3>7, MiseCardinality, BoundAssumption DEF Mise!StartsHaveRoom, n
    <3>9. Mise!TypeOK'
      BY <1>0, <2>0, <3>1, <3>4, <3>8 DEF Mise!TypeOK
    <3> QED
      BY <3>1, <3>4, <3>5, <3>8, <3>9
  <2> QED
    BY <1>5, <2>2, <2>3, <2>4, <2>5 DEF Mise!Serve
<1> QED
  BY <1>1, <1>3, <1>4, <1>5

\* Every step keeps the invariant.
LEMMA MiseStep == ASSUME Mise!IndInv, [Mise!Next]_(Mise!vars) PROVE Mise!IndInv'
<1>1. CASE \/ Mise!Load \/ Mise!Start \/ Mise!Ask \/ Mise!Confirm \/ Mise!Cancel \/ Mise!Poll \/ Mise!CloseJob \/ Mise!PanelRestart
  <2>1. x3' = x3
    BY <1>1 DEF Mise!Load, Mise!Start, Mise!Ask, Mise!Confirm, Mise!Cancel, Mise!Poll, Mise!CloseJob, Mise!PanelRestart
  <2> QED
    BY <1>1, <2>1, MisePage
<1>2. ASSUME NEW c \in x2, Mise!Listed(c) \/ Mise!Started(c) \/ Mise!Polled(c) \/ Mise!Restarted(c) PROVE Mise!IndInv'
  <2>1. x3' = x3
    BY <1>2 DEF Mise!Listed, Mise!Started, Mise!Polled, Mise!Restarted
  <2> QED
    BY <1>2, <2>1, MiseAnswers
<1>3. CASE \/ Mise!Elsewhere \/ Mise!Forget \/ (\E c \in x2 : Mise!Serve(c)) \/ (\E j \in DOMAIN x3.jobs : Mise!JobEnds(j))
  BY <1>3, MiseServer
<1>4. CASE UNCHANGED Mise!vars
  BY <1>4 DEF Mise!vars, Mise!IndInv, Mise!TypeOK, Mise!NothingStuck, Mise!StoreIsSound, Mise!PollsAreOfShown, Mise!StartsAreNew,
              Mise!StartsHaveRoom, Mise!RunningAreCounted, Mise!Running, Mise!Waiting, Mise!Unserved, Mise!Busy
<1> QED
  BY <1>1, <1>2, <1>3, <1>4 DEF Mise!Next

\* No step shows an older job or an older status than was shown.
LEMMA MiseNewest == ASSUME Mise!IndInv, [Mise!Next]_(Mise!vars) PROVE Mise!NewestStep
<1> USE DEF Mise!NewestStep
<1>0. x1 \in Mise!Pages
  BY DEF Mise!IndInv, Mise!TypeOK
<1>1. CASE x1'.job = x1.job
  BY <1>1
<1>2. CASE \/ Mise!Load \/ Mise!Start \/ Mise!Ask \/ Mise!Confirm \/ Mise!Cancel \/ Mise!Poll
  <2>1. x1' = x1 \/ x1' = [x1 EXCEPT !.loading = TRUE] \/ \E v \in BOOLEAN : x1' = [x1 EXCEPT !.dialog = v]
    BY <1>2 DEF Mise!Load, Mise!Start, Mise!Ask, Mise!Confirm, Mise!Cancel, Mise!Poll
  <2> QED
    BY <1>0, <1>1, <2>1 DEF Mise!Pages
<1>3. CASE Mise!CloseJob
  BY <1>0, <1>3 DEF Mise!CloseJob, Mise!Pages
<1>4. CASE Mise!PanelRestart
  <2>1. \E v : x1' = [x1 EXCEPT !.panel = v]
    BY <1>4 DEF Mise!PanelRestart
  <2> QED
    BY <1>0, <1>1, <2>1 DEF Mise!Pages
<1>5. ASSUME NEW c \in x2, Mise!Listed(c) \/ Mise!Restarted(c) PROVE Mise!NewestStep
  <2>1. \/ x1' = x1
        \/ x1' = [x1 EXCEPT !.panel = "closed"]
        \/ x1' = [x1 EXCEPT !.loading = @ /\ c.kind # "load"]
    BY <1>5 DEF Mise!Listed, Mise!Restarted
  <2> QED
    BY <1>0, <1>1, <2>1 DEF Mise!Pages
<1>6. ASSUME NEW c \in x2, Mise!Started(c) PROVE Mise!NewestStep
  <2>1. CASE x1' = x1
    BY <1>1, <2>1
  <2>2. CASE c.reply # None /\ x1' = [x1 EXCEPT !.job = [id |-> c.reply, status |-> "starting"]]
    <3>1. x1'.job.id = c.reply
      BY <1>0, <2>2 DEF Mise!Pages
    <3>2. x1.job # None => x1.job.id # c.reply
      BY <1>6, <2>2 DEF Mise!Started, Mise!IndInv, Mise!StartsAreNew, Mise!Waiting
    <3> QED
      BY <3>1, <3>2
  <2> QED
    BY <1>6, <2>1, <2>2 DEF Mise!Started
<1>7. ASSUME NEW c \in x2, Mise!Polled(c) PROVE Mise!NewestStep
  BY <1>7 DEF Mise!Polled, Mise!IndInv, Mise!PollsAreOfShown, Mise!Waiting, Mise!Busy
<1>8. CASE UNCHANGED x1
  BY <1>1, <1>8
<1> QED
  BY <1>2, <1>3, <1>4, <1>5, <1>6, <1>7, <1>8
     DEF Mise!Next, Mise!vars, Mise!Elsewhere, Mise!Forget, Mise!Serve, Mise!JobEnds

-----------------------------------------------------------------------------
(* The dialog that signs in: LoginDialog.                                  *)

\* A dialog that is gone and holds no session leaves none behind.
LEMMA DialogHeld ==
    ASSUME Dialog!TypeOK', Dialog!OneAtATime', Dialog!OneWay', Dialog!SessionIsHeld', Dialog!NeverStuck'
    PROVE  Dialog!IndInv'
BY DEF Dialog!IndInv, Dialog!NothingLeftRunning, Dialog!SessionIsHeld, Dialog!Gone, Dialog!TypeOK, Dialog!ServerType

\* The initial states satisfy the invariant.
LEMMA DialogInit == ASSUME Dialog!Init PROVE Dialog!IndInv
<1> USE BoundAssumption, NoneAssumption
<1>1. Dialog!TypeOK
  <2>1. x2 \in Dialog!RefsType
    BY DEF Dialog!Init, Dialog!RefsType
  <2>2. x11 \in Dialog!ServerType
    BY DEF Dialog!Init, Dialog!ServerType
  <2>3. x7 \subseteq [gen : 1 .. MaxStarts, id : {None} \cup 1 .. MaxStarts]
    BY DEF Dialog!Init
  <2> QED
    BY <2>1, <2>2, <2>3 DEF Dialog!Init, Dialog!TypeOK, Dialog!Phase
<1>2. Dialog!OneAtATime /\ Dialog!OneWay
  BY DEF Dialog!Init, Dialog!OneAtATime, Dialog!OneWay, Dialog!Gone, Dialog!Dialled
<1>3. Dialog!NeverStuck /\ Dialog!NothingLeftRunning /\ Dialog!SessionIsHeld
  BY DEF Dialog!Init, Dialog!NeverStuck, Dialog!NothingLeftRunning, Dialog!SessionIsHeld
<1> QED
  BY <1>1, <1>2, <1>3 DEF Dialog!IndInv

\* A dialog that is opened, or started again, holds nothing of the one before.
LEMMA DialogRestart == ASSUME Dialog!IndInv, Dialog!Restart PROVE Dialog!IndInv'
<1> USE BoundAssumption, NoneAssumption DEF Dialog!IndInv, Dialog!TypeOK, Dialog!OneAtATime, Dialog!OneWay, Dialog!RefsType, Dialog!ServerType,
        Dialog!Gone, Dialog!Allowed, Dialog!Dialled, Dialog!ui, Dialog!net
<1>1. Dialog!TypeOK'
  BY DEF Dialog!Phase, Dialog!Restart
<1>2. Dialog!OneAtATime'
  BY DEF Dialog!Restart
<1>3. Dialog!OneWay'
  BY DEF Dialog!Restart
<1>4. Dialog!SessionIsHeld'
  BY DEF Dialog!SessionIsHeld, Dialog!Restart
<1>5. Dialog!NeverStuck'
  BY DEF Dialog!NeverStuck, Dialog!Restart
<1> QED
  BY <1>1, <1>2, <1>3, <1>4, <1>5, DialogHeld

\* The server makes a session for a start that is still wanted.
LEMMA DialogStartServed == ASSUME Dialog!IndInv, Dialog!StartServed PROVE Dialog!IndInv'
<1> USE BoundAssumption, NoneAssumption
<1>1. Dialog!TypeOK'
  <2>1. x1' \in Dialog!Phase /\ x3' \in 1 .. MaxStarts /\ x4' \in {"none", "connecting", "open", "closed"} /\ x5' \subseteq {"reconnect", "autoclose", "cancel"} /\ x6' \in BOOLEAN
    BY DEF Dialog!IndInv, Dialog!TypeOK, Dialog!OneAtATime, Dialog!OneWay, Dialog!RefsType, Dialog!ServerType, Dialog!Gone, Dialog!Allowed, Dialog!Dialled, Dialog!ui, Dialog!net, Dialog!Phase, Dialog!StartServed
  <2>2. x2' \in Dialog!RefsType
    BY DEF Dialog!IndInv, Dialog!TypeOK, Dialog!OneAtATime, Dialog!OneWay, Dialog!RefsType, Dialog!ServerType, Dialog!Gone, Dialog!Allowed, Dialog!Dialled, Dialog!ui, Dialog!net, Dialog!Phase, Dialog!StartServed
  <2>3. x11' \in Dialog!ServerType
    <3> DEFINE n == x11.count + 1
    <3>1. x11 \in Dialog!ServerType /\ n \in 0 .. MaxStarts
      BY DEF Dialog!IndInv, Dialog!TypeOK, Dialog!OneAtATime, Dialog!ServerType, Dialog!StartServed
    <3>2. x11' = [x11 EXCEPT !.id = n, !.count = n]
      BY Zenon DEF Dialog!StartServed
    <3> HIDE DEF n
    <3> QED
      BY <3>1, <3>2, Zenon DEF Dialog!ServerType
  <2>4. x7' \subseteq [gen : 1 .. MaxStarts, id : {None} \cup 1 .. MaxStarts]
    BY DEF Dialog!IndInv, Dialog!TypeOK, Dialog!OneAtATime, Dialog!OneWay, Dialog!RefsType, Dialog!ServerType, Dialog!Gone, Dialog!Allowed, Dialog!Dialled, Dialog!ui, Dialog!net, Dialog!Phase, Dialog!StartServed
  <2>5. x8' \subseteq [gen : 1 .. MaxStarts, id : 1 .. MaxStarts]
    BY DEF Dialog!IndInv, Dialog!TypeOK, Dialog!OneAtATime, Dialog!OneWay, Dialog!RefsType, Dialog!ServerType, Dialog!Gone, Dialog!Allowed, Dialog!Dialled, Dialog!ui, Dialog!net, Dialog!Phase, Dialog!StartServed
  <2>6. x10' \subseteq 1 .. MaxStarts /\ x9' \subseteq BOOLEAN
    BY DEF Dialog!IndInv, Dialog!TypeOK, Dialog!OneAtATime, Dialog!OneWay, Dialog!RefsType, Dialog!ServerType, Dialog!Gone, Dialog!Allowed, Dialog!Dialled, Dialog!ui, Dialog!net, Dialog!Phase, Dialog!StartServed
  <2> QED
    BY <2>1, <2>2, <2>3, <2>4, <2>5, <2>6 DEF Dialog!TypeOK
<1>2. Dialog!OneAtATime'
  BY DEF Dialog!IndInv, Dialog!TypeOK, Dialog!OneAtATime, Dialog!OneWay, Dialog!RefsType, Dialog!ServerType, Dialog!Gone, Dialog!Allowed, Dialog!Dialled, Dialog!ui, Dialog!net, Dialog!StartServed
<1>3. Dialog!OneWay'
  BY DEF Dialog!IndInv, Dialog!TypeOK, Dialog!OneAtATime, Dialog!OneWay, Dialog!RefsType, Dialog!ServerType, Dialog!Gone, Dialog!Allowed, Dialog!Dialled, Dialog!ui, Dialog!net, Dialog!StartServed
<1>4. Dialog!SessionIsHeld'
  <2>1. PICK s \in x7 : x11'.id = x11.count + 1 /\ x7' = (x7 \ {s}) \cup {[s EXCEPT !.id = x11.count + 1]}
    BY DEF Dialog!IndInv, Dialog!TypeOK, Dialog!ServerType, Dialog!StartServed
  <2>2. [s EXCEPT !.id = x11.count + 1].id = x11.count + 1
    BY DEF Dialog!IndInv, Dialog!TypeOK
  <2> QED
    BY <2>1, <2>2 DEF Dialog!SessionIsHeld
<1>5. Dialog!NeverStuck'
  BY DEF Dialog!IndInv, Dialog!TypeOK, Dialog!OneAtATime, Dialog!OneWay, Dialog!RefsType, Dialog!ServerType, Dialog!Gone, Dialog!Allowed, Dialog!Dialled, Dialog!ui, Dialog!net, Dialog!NeverStuck, Dialog!StartServed
<1> QED
  BY <1>1, <1>2, <1>3, <1>4, <1>5, DialogHeld

\* The answer to a start: its session is kept, or cancelled when the dialog
\* went on.
LEMMA DialogStartAnswered == ASSUME Dialog!IndInv, Dialog!StartAnswered PROVE Dialog!IndInv'
<1> USE BoundAssumption, NoneAssumption DEF Dialog!IndInv, Dialog!TypeOK, Dialog!OneAtATime, Dialog!OneWay, Dialog!RefsType, Dialog!ServerType,
        Dialog!Gone, Dialog!Allowed, Dialog!Dialled, Dialog!ui, Dialog!net
<1>1. Dialog!TypeOK'
  BY DEF Dialog!Phase, Dialog!StartAnswered
<1>2. Dialog!OneAtATime'
  BY DEF Dialog!StartAnswered
<1>3. Dialog!OneWay'
  BY DEF Dialog!StartAnswered
<1>4. Dialog!SessionIsHeld'
  BY DEF Dialog!SessionIsHeld, Dialog!StartAnswered
<1>5. Dialog!NeverStuck'
  BY DEF Dialog!NeverStuck, Dialog!StartAnswered
<1> QED
  BY <1>1, <1>2, <1>3, <1>4, <1>5, DialogHeld

\* A start that fails shows an error.
LEMMA DialogStartFails == ASSUME Dialog!IndInv, Dialog!StartFails PROVE Dialog!IndInv'
<1> USE BoundAssumption, NoneAssumption DEF Dialog!IndInv, Dialog!TypeOK, Dialog!OneAtATime, Dialog!OneWay, Dialog!RefsType, Dialog!ServerType,
        Dialog!Gone, Dialog!Allowed, Dialog!Dialled, Dialog!ui, Dialog!net
<1>1. Dialog!TypeOK'
  BY DEF Dialog!Phase, Dialog!StartFails
<1>2. Dialog!OneAtATime'
  BY DEF Dialog!StartFails
<1>3. Dialog!OneWay'
  BY DEF Dialog!StartFails
<1>4. Dialog!SessionIsHeld'
  BY DEF Dialog!SessionIsHeld, Dialog!StartFails
<1>5. Dialog!NeverStuck'
  BY DEF Dialog!NeverStuck, Dialog!StartFails
<1> QED
  BY <1>1, <1>2, <1>3, <1>4, <1>5, DialogHeld

\* A reconnect that was due probes the session.
LEMMA DialogTimerFires == ASSUME Dialog!IndInv, Dialog!TimerFires PROVE Dialog!IndInv'
<1> USE BoundAssumption, NoneAssumption
<1>1. Dialog!TypeOK'
  <2>1. x1' \in Dialog!Phase /\ x3' \in 1 .. MaxStarts /\ x4' \in {"none", "connecting", "open", "closed"} /\ x5' \subseteq {"reconnect", "autoclose", "cancel"} /\ x6' \in BOOLEAN
    BY DEF Dialog!IndInv, Dialog!TypeOK, Dialog!OneAtATime, Dialog!OneWay, Dialog!RefsType, Dialog!ServerType, Dialog!Gone, Dialog!Allowed, Dialog!Dialled, Dialog!ui, Dialog!net, Dialog!Phase, Dialog!TimerFires, Dialog!Reconnect
  <2>2. x2' \in Dialog!RefsType
    <3>1. x2' = x2 \/ x2' = [x2 EXCEPT !.probing = TRUE]
      BY DEF Dialog!TimerFires, Dialog!Reconnect
    <3> QED
      BY <3>1 DEF Dialog!IndInv, Dialog!TypeOK, Dialog!RefsType
  <2>3. x11' \in Dialog!ServerType
    BY DEF Dialog!IndInv, Dialog!TypeOK, Dialog!OneAtATime, Dialog!OneWay, Dialog!RefsType, Dialog!ServerType, Dialog!Gone, Dialog!Allowed, Dialog!Dialled, Dialog!ui, Dialog!net, Dialog!Phase, Dialog!TimerFires, Dialog!Reconnect
  <2>4. x7' \subseteq [gen : 1 .. MaxStarts, id : {None} \cup 1 .. MaxStarts]
    BY DEF Dialog!IndInv, Dialog!TypeOK, Dialog!OneAtATime, Dialog!OneWay, Dialog!RefsType, Dialog!ServerType, Dialog!Gone, Dialog!Allowed, Dialog!Dialled, Dialog!ui, Dialog!net, Dialog!Phase, Dialog!TimerFires, Dialog!Reconnect
  <2>5. x8' \subseteq [gen : 1 .. MaxStarts, id : 1 .. MaxStarts]
    BY DEF Dialog!IndInv, Dialog!TypeOK, Dialog!OneAtATime, Dialog!OneWay, Dialog!RefsType, Dialog!ServerType, Dialog!Gone, Dialog!Allowed, Dialog!Dialled, Dialog!ui, Dialog!net, Dialog!Phase, Dialog!TimerFires, Dialog!Reconnect
  <2>6. x10' \subseteq 1 .. MaxStarts /\ x9' \subseteq BOOLEAN
    BY DEF Dialog!IndInv, Dialog!TypeOK, Dialog!OneAtATime, Dialog!OneWay, Dialog!RefsType, Dialog!ServerType, Dialog!Gone, Dialog!Allowed, Dialog!Dialled, Dialog!ui, Dialog!net, Dialog!Phase, Dialog!TimerFires, Dialog!Reconnect
  <2> QED
    BY <2>1, <2>2, <2>3, <2>4, <2>5, <2>6 DEF Dialog!TypeOK
<1>2. Dialog!OneAtATime'
  <2>1. CASE UNCHANGED <<x2, x8>>
    BY <2>1 DEF Dialog!IndInv, Dialog!TypeOK, Dialog!OneAtATime, Dialog!OneWay, Dialog!RefsType, Dialog!ServerType, Dialog!Gone, Dialog!Allowed, Dialog!Dialled, Dialog!ui, Dialog!net, Dialog!TimerFires, Dialog!Reconnect
  <2>2. CASE x2' = [x2 EXCEPT !.probing = TRUE] /\ x8' = x8 \cup {[gen |-> x3, id |-> x2.id]} /\ ~x2.probing /\ x2.id # 0 /\ Dialog!Allowed /\ ~Dialog!Dialled
                /\ x5' = x5 \ {"reconnect"} /\ x1' = x1
    <3>1. x8 = {} /\ x8' = {[gen |-> x3, id |-> x2.id]}
      BY <2>2 DEF Dialog!IndInv, Dialog!OneAtATime
    <3> QED
      BY <2>2, <3>1 DEF Dialog!IndInv, Dialog!TypeOK, Dialog!OneAtATime, Dialog!OneWay, Dialog!RefsType, Dialog!ServerType, Dialog!Gone, Dialog!Allowed, Dialog!Dialled, Dialog!ui, Dialog!net, Dialog!TimerFires
  <2> QED
    BY <2>1, <2>2 DEF Dialog!TimerFires, Dialog!Reconnect, Dialog!Allowed, Dialog!Dialled
<1>3. Dialog!OneWay'
  <2>1. CASE UNCHANGED <<x2, x8>>
    BY <2>1 DEF Dialog!IndInv, Dialog!TypeOK, Dialog!OneAtATime, Dialog!OneWay, Dialog!RefsType, Dialog!ServerType, Dialog!Gone, Dialog!Allowed, Dialog!Dialled, Dialog!ui, Dialog!net, Dialog!TimerFires, Dialog!Reconnect
  <2>2. CASE x2' = [x2 EXCEPT !.probing = TRUE] /\ x8' = x8 \cup {[gen |-> x3, id |-> x2.id]} /\ ~x2.probing /\ x2.id # 0 /\ Dialog!Allowed /\ ~Dialog!Dialled
                /\ x5' = x5 \ {"reconnect"} /\ x1' = x1
    <3>1. x8 = {} /\ x8' = {[gen |-> x3, id |-> x2.id]}
      BY <2>2 DEF Dialog!IndInv, Dialog!OneAtATime
    <3> QED
      BY <2>2, <3>1 DEF Dialog!IndInv, Dialog!TypeOK, Dialog!OneAtATime, Dialog!OneWay, Dialog!RefsType, Dialog!ServerType, Dialog!Gone, Dialog!Allowed, Dialog!Dialled, Dialog!ui, Dialog!net, Dialog!TimerFires
  <2> QED
    BY <2>1, <2>2 DEF Dialog!TimerFires, Dialog!Reconnect, Dialog!Allowed, Dialog!Dialled
<1>4. Dialog!SessionIsHeld'
  BY DEF Dialog!IndInv, Dialog!TypeOK, Dialog!OneAtATime, Dialog!OneWay, Dialog!RefsType, Dialog!ServerType, Dialog!Gone, Dialog!Allowed, Dialog!Dialled, Dialog!ui, Dialog!net, Dialog!SessionIsHeld, Dialog!TimerFires, Dialog!Reconnect
<1>5. Dialog!NeverStuck'
  <2>1. CASE UNCHANGED <<x2, x8>>
    BY <2>1 DEF Dialog!IndInv, Dialog!TypeOK, Dialog!OneAtATime, Dialog!OneWay, Dialog!RefsType, Dialog!ServerType, Dialog!Gone, Dialog!Allowed, Dialog!Dialled, Dialog!ui, Dialog!net, Dialog!NeverStuck, Dialog!TimerFires, Dialog!Reconnect
  <2>2. CASE x2' = [x2 EXCEPT !.probing = TRUE] /\ x8' = x8 \cup {[gen |-> x3, id |-> x2.id]} /\ ~x2.probing /\ x2.id # 0 /\ Dialog!Allowed /\ ~Dialog!Dialled
                /\ x5' = x5 \ {"reconnect"} /\ x1' = x1
    <3>1. x8 = {} /\ x8' = {[gen |-> x3, id |-> x2.id]}
      BY <2>2 DEF Dialog!IndInv, Dialog!OneAtATime
    <3> QED
      BY <2>2, <3>1 DEF Dialog!IndInv, Dialog!TypeOK, Dialog!OneAtATime, Dialog!OneWay, Dialog!RefsType, Dialog!ServerType, Dialog!Gone, Dialog!Allowed, Dialog!Dialled, Dialog!ui, Dialog!net, Dialog!NeverStuck, Dialog!TimerFires
  <2> QED
    BY <2>1, <2>2 DEF Dialog!TimerFires, Dialog!Reconnect, Dialog!Allowed, Dialog!Dialled
<1> QED
  BY <1>1, <1>2, <1>3, <1>4, <1>5, DialogHeld

\* So does a page that is back in the foreground.
LEMMA DialogForeground == ASSUME Dialog!IndInv, Dialog!Foreground PROVE Dialog!IndInv'
<1> USE BoundAssumption, NoneAssumption
<1>1. Dialog!TypeOK'
  <2>1. x1' \in Dialog!Phase /\ x3' \in 1 .. MaxStarts /\ x4' \in {"none", "connecting", "open", "closed"} /\ x5' \subseteq {"reconnect", "autoclose", "cancel"} /\ x6' \in BOOLEAN
    BY DEF Dialog!IndInv, Dialog!TypeOK, Dialog!OneAtATime, Dialog!OneWay, Dialog!RefsType, Dialog!ServerType, Dialog!Gone, Dialog!Allowed, Dialog!Dialled, Dialog!ui, Dialog!net, Dialog!Phase, Dialog!Foreground, Dialog!Reconnect
  <2>2. x2' \in Dialog!RefsType
    <3>1. x2' = x2 \/ x2' = [x2 EXCEPT !.probing = TRUE]
      BY DEF Dialog!Foreground, Dialog!Reconnect
    <3> QED
      BY <3>1 DEF Dialog!IndInv, Dialog!TypeOK, Dialog!RefsType
  <2>3. x11' \in Dialog!ServerType
    BY DEF Dialog!IndInv, Dialog!TypeOK, Dialog!OneAtATime, Dialog!OneWay, Dialog!RefsType, Dialog!ServerType, Dialog!Gone, Dialog!Allowed, Dialog!Dialled, Dialog!ui, Dialog!net, Dialog!Phase, Dialog!Foreground, Dialog!Reconnect
  <2>4. x7' \subseteq [gen : 1 .. MaxStarts, id : {None} \cup 1 .. MaxStarts]
    BY DEF Dialog!IndInv, Dialog!TypeOK, Dialog!OneAtATime, Dialog!OneWay, Dialog!RefsType, Dialog!ServerType, Dialog!Gone, Dialog!Allowed, Dialog!Dialled, Dialog!ui, Dialog!net, Dialog!Phase, Dialog!Foreground, Dialog!Reconnect
  <2>5. x8' \subseteq [gen : 1 .. MaxStarts, id : 1 .. MaxStarts]
    BY DEF Dialog!IndInv, Dialog!TypeOK, Dialog!OneAtATime, Dialog!OneWay, Dialog!RefsType, Dialog!ServerType, Dialog!Gone, Dialog!Allowed, Dialog!Dialled, Dialog!ui, Dialog!net, Dialog!Phase, Dialog!Foreground, Dialog!Reconnect
  <2>6. x10' \subseteq 1 .. MaxStarts /\ x9' \subseteq BOOLEAN
    BY DEF Dialog!IndInv, Dialog!TypeOK, Dialog!OneAtATime, Dialog!OneWay, Dialog!RefsType, Dialog!ServerType, Dialog!Gone, Dialog!Allowed, Dialog!Dialled, Dialog!ui, Dialog!net, Dialog!Phase, Dialog!Foreground, Dialog!Reconnect
  <2> QED
    BY <2>1, <2>2, <2>3, <2>4, <2>5, <2>6 DEF Dialog!TypeOK
<1>2. Dialog!OneAtATime'
  <2>1. CASE UNCHANGED <<x2, x8>>
    BY <2>1 DEF Dialog!IndInv, Dialog!TypeOK, Dialog!OneAtATime, Dialog!OneWay, Dialog!RefsType, Dialog!ServerType, Dialog!Gone, Dialog!Allowed, Dialog!Dialled, Dialog!ui, Dialog!net, Dialog!Foreground, Dialog!Reconnect
  <2>2. CASE x2' = [x2 EXCEPT !.probing = TRUE] /\ x8' = x8 \cup {[gen |-> x3, id |-> x2.id]} /\ ~x2.probing /\ x2.id # 0 /\ Dialog!Allowed /\ ~Dialog!Dialled
                /\ x5' = x5 \ {"reconnect"} /\ x1' = "reconnecting"
    <3>1. x8 = {} /\ x8' = {[gen |-> x3, id |-> x2.id]}
      BY <2>2 DEF Dialog!IndInv, Dialog!OneAtATime
    <3> QED
      BY <2>2, <3>1 DEF Dialog!IndInv, Dialog!TypeOK, Dialog!OneAtATime, Dialog!OneWay, Dialog!RefsType, Dialog!ServerType, Dialog!Gone, Dialog!Allowed, Dialog!Dialled, Dialog!ui, Dialog!net, Dialog!Foreground
  <2> QED
    BY <2>1, <2>2 DEF Dialog!Foreground, Dialog!Reconnect, Dialog!Allowed, Dialog!Dialled
<1>3. Dialog!OneWay'
  <2>1. CASE UNCHANGED <<x2, x8>>
    BY <2>1 DEF Dialog!IndInv, Dialog!TypeOK, Dialog!OneAtATime, Dialog!OneWay, Dialog!RefsType, Dialog!ServerType, Dialog!Gone, Dialog!Allowed, Dialog!Dialled, Dialog!ui, Dialog!net, Dialog!Foreground, Dialog!Reconnect
  <2>2. CASE x2' = [x2 EXCEPT !.probing = TRUE] /\ x8' = x8 \cup {[gen |-> x3, id |-> x2.id]} /\ ~x2.probing /\ x2.id # 0 /\ Dialog!Allowed /\ ~Dialog!Dialled
                /\ x5' = x5 \ {"reconnect"} /\ x1' = "reconnecting"
    <3>1. x8 = {} /\ x8' = {[gen |-> x3, id |-> x2.id]}
      BY <2>2 DEF Dialog!IndInv, Dialog!OneAtATime
    <3> QED
      BY <2>2, <3>1 DEF Dialog!IndInv, Dialog!TypeOK, Dialog!OneAtATime, Dialog!OneWay, Dialog!RefsType, Dialog!ServerType, Dialog!Gone, Dialog!Allowed, Dialog!Dialled, Dialog!ui, Dialog!net, Dialog!Foreground
  <2> QED
    BY <2>1, <2>2 DEF Dialog!Foreground, Dialog!Reconnect, Dialog!Allowed, Dialog!Dialled
<1>4. Dialog!SessionIsHeld'
  BY DEF Dialog!IndInv, Dialog!TypeOK, Dialog!OneAtATime, Dialog!OneWay, Dialog!RefsType, Dialog!ServerType, Dialog!Gone, Dialog!Allowed, Dialog!Dialled, Dialog!ui, Dialog!net, Dialog!SessionIsHeld, Dialog!Foreground, Dialog!Reconnect
<1>5. Dialog!NeverStuck'
  <2>1. CASE UNCHANGED <<x2, x8>>
    BY <2>1 DEF Dialog!IndInv, Dialog!TypeOK, Dialog!OneAtATime, Dialog!OneWay, Dialog!RefsType, Dialog!ServerType, Dialog!Gone, Dialog!Allowed, Dialog!Dialled, Dialog!ui, Dialog!net, Dialog!NeverStuck, Dialog!Foreground, Dialog!Reconnect
  <2>2. CASE x2' = [x2 EXCEPT !.probing = TRUE] /\ x8' = x8 \cup {[gen |-> x3, id |-> x2.id]} /\ ~x2.probing /\ x2.id # 0 /\ Dialog!Allowed /\ ~Dialog!Dialled
                /\ x5' = x5 \ {"reconnect"} /\ x1' = "reconnecting"
    <3>1. x8 = {} /\ x8' = {[gen |-> x3, id |-> x2.id]}
      BY <2>2 DEF Dialog!IndInv, Dialog!OneAtATime
    <3> QED
      BY <2>2, <3>1 DEF Dialog!IndInv, Dialog!TypeOK, Dialog!OneAtATime, Dialog!OneWay, Dialog!RefsType, Dialog!ServerType, Dialog!Gone, Dialog!Allowed, Dialog!Dialled, Dialog!ui, Dialog!net, Dialog!NeverStuck, Dialog!Foreground
  <2> QED
    BY <2>1, <2>2 DEF Dialog!Foreground, Dialog!Reconnect, Dialog!Allowed, Dialog!Dialled
<1> QED
  BY <1>1, <1>2, <1>3, <1>4, <1>5, DialogHeld

\* A probe that fails is tried again by a timer.
LEMMA DialogProbeFails == ASSUME Dialog!IndInv, Dialog!ProbeFails PROVE Dialog!IndInv'
<1> USE BoundAssumption, NoneAssumption
<1>1. Dialog!TypeOK'
  <2>1. x1' \in Dialog!Phase /\ x3' \in 1 .. MaxStarts /\ x4' \in {"none", "connecting", "open", "closed"} /\ x5' \subseteq {"reconnect", "autoclose", "cancel"} /\ x6' \in BOOLEAN
    BY DEF Dialog!IndInv, Dialog!TypeOK, Dialog!OneAtATime, Dialog!OneWay, Dialog!RefsType, Dialog!ServerType, Dialog!Gone, Dialog!Allowed, Dialog!Dialled, Dialog!ui, Dialog!net, Dialog!Phase, Dialog!ProbeFails, Dialog!Schedule
  <2>2. x2' \in Dialog!RefsType
    BY DEF Dialog!IndInv, Dialog!TypeOK, Dialog!OneAtATime, Dialog!OneWay, Dialog!RefsType, Dialog!ServerType, Dialog!Gone, Dialog!Allowed, Dialog!Dialled, Dialog!ui, Dialog!net, Dialog!Phase, Dialog!ProbeFails, Dialog!Schedule
  <2>3. x11' \in Dialog!ServerType
    BY DEF Dialog!IndInv, Dialog!TypeOK, Dialog!OneAtATime, Dialog!OneWay, Dialog!RefsType, Dialog!ServerType, Dialog!Gone, Dialog!Allowed, Dialog!Dialled, Dialog!ui, Dialog!net, Dialog!Phase, Dialog!ProbeFails, Dialog!Schedule
  <2>4. x7' \subseteq [gen : 1 .. MaxStarts, id : {None} \cup 1 .. MaxStarts]
    BY DEF Dialog!IndInv, Dialog!TypeOK, Dialog!OneAtATime, Dialog!OneWay, Dialog!RefsType, Dialog!ServerType, Dialog!Gone, Dialog!Allowed, Dialog!Dialled, Dialog!ui, Dialog!net, Dialog!Phase, Dialog!ProbeFails, Dialog!Schedule
  <2>5. x8' \subseteq [gen : 1 .. MaxStarts, id : 1 .. MaxStarts]
    BY DEF Dialog!IndInv, Dialog!TypeOK, Dialog!OneAtATime, Dialog!OneWay, Dialog!RefsType, Dialog!ServerType, Dialog!Gone, Dialog!Allowed, Dialog!Dialled, Dialog!ui, Dialog!net, Dialog!Phase, Dialog!ProbeFails, Dialog!Schedule
  <2>6. x10' \subseteq 1 .. MaxStarts /\ x9' \subseteq BOOLEAN
    BY DEF Dialog!IndInv, Dialog!TypeOK, Dialog!OneAtATime, Dialog!OneWay, Dialog!RefsType, Dialog!ServerType, Dialog!Gone, Dialog!Allowed, Dialog!Dialled, Dialog!ui, Dialog!net, Dialog!Phase, Dialog!ProbeFails, Dialog!Schedule
  <2> QED
    BY <2>1, <2>2, <2>3, <2>4, <2>5, <2>6 DEF Dialog!TypeOK
<1>2. Dialog!OneAtATime'
  BY DEF Dialog!IndInv, Dialog!TypeOK, Dialog!OneAtATime, Dialog!OneWay, Dialog!RefsType, Dialog!ServerType, Dialog!Gone, Dialog!Allowed, Dialog!Dialled, Dialog!ui, Dialog!net, Dialog!ProbeFails, Dialog!Schedule
<1>3. Dialog!OneWay'
  BY DEF Dialog!IndInv, Dialog!TypeOK, Dialog!OneAtATime, Dialog!OneWay, Dialog!RefsType, Dialog!ServerType, Dialog!Gone, Dialog!Allowed, Dialog!Dialled, Dialog!ui, Dialog!net, Dialog!ProbeFails, Dialog!Schedule
<1>4. Dialog!SessionIsHeld'
  BY DEF Dialog!IndInv, Dialog!TypeOK, Dialog!OneAtATime, Dialog!OneWay, Dialog!RefsType, Dialog!ServerType, Dialog!Gone, Dialog!Allowed, Dialog!Dialled, Dialog!ui, Dialog!net, Dialog!SessionIsHeld, Dialog!ProbeFails, Dialog!Schedule
<1>5. Dialog!NeverStuck'
  BY DEF Dialog!IndInv, Dialog!TypeOK, Dialog!OneAtATime, Dialog!OneWay, Dialog!RefsType, Dialog!ServerType, Dialog!Gone, Dialog!Allowed, Dialog!Dialled, Dialog!ui, Dialog!net, Dialog!NeverStuck, Dialog!ProbeFails, Dialog!Schedule
<1> QED
  BY <1>1, <1>2, <1>3, <1>4, <1>5, DialogHeld

\* A probe that finds the terminal locked asks for the password.
LEMMA DialogProbeLocked == ASSUME Dialog!IndInv, Dialog!ProbeLocked PROVE Dialog!IndInv'
<1> USE BoundAssumption, NoneAssumption DEF Dialog!IndInv, Dialog!TypeOK, Dialog!OneAtATime, Dialog!OneWay, Dialog!RefsType, Dialog!ServerType,
        Dialog!Gone, Dialog!Allowed, Dialog!Dialled, Dialog!ui, Dialog!net
<1>1. Dialog!TypeOK'
  BY ZenonT(60) DEF Dialog!Phase, Dialog!ProbeLocked
<1>2. Dialog!OneAtATime'
  BY DEF Dialog!ProbeLocked
<1>3. Dialog!OneWay'
  BY DEF Dialog!ProbeLocked
<1>4. Dialog!SessionIsHeld'
  BY DEF Dialog!SessionIsHeld, Dialog!ProbeLocked
<1>5. Dialog!NeverStuck'
  BY DEF Dialog!NeverStuck, Dialog!ProbeLocked
<1> QED
  BY <1>1, <1>2, <1>3, <1>4, <1>5, DialogHeld

\* A probe that is answered dials, or ends the session.
LEMMA DialogProbeAnswered == ASSUME Dialog!IndInv, Dialog!ProbeAnswered PROVE Dialog!IndInv'
<1> USE BoundAssumption, NoneAssumption DEF Dialog!IndInv, Dialog!TypeOK, Dialog!OneAtATime, Dialog!OneWay, Dialog!RefsType, Dialog!ServerType,
        Dialog!Gone, Dialog!Allowed, Dialog!Dialled, Dialog!ui, Dialog!net
<1>1. Dialog!TypeOK'
  <2>1. x11' \in Dialog!ServerType /\ x2' \in Dialog!RefsType
    <3>1. x11' = [x11 EXCEPT !.locked = FALSE] /\ x2' = [x2 EXCEPT !.probing = FALSE]
      BY DEF Dialog!ProbeAnswered
    <3> QED
      BY <3>1
  <2> QED
    BY <2>1 DEF Dialog!Phase, Dialog!ProbeAnswered
<1>2. Dialog!OneAtATime'
  BY DEF Dialog!ProbeAnswered
<1>3. Dialog!OneWay'
  BY DEF Dialog!ProbeAnswered
<1>4. Dialog!SessionIsHeld'
  BY DEF Dialog!SessionIsHeld, Dialog!ProbeAnswered
<1>5. Dialog!NeverStuck'
  BY DEF Dialog!NeverStuck, Dialog!ProbeAnswered
<1> QED
  BY <1>1, <1>2, <1>3, <1>4, <1>5, DialogHeld

\* A socket that opens shows the terminal.
LEMMA DialogSocketOpens == ASSUME Dialog!IndInv, Dialog!SocketOpens PROVE Dialog!IndInv'
<1> USE BoundAssumption, NoneAssumption DEF Dialog!IndInv, Dialog!TypeOK, Dialog!OneAtATime, Dialog!OneWay, Dialog!RefsType, Dialog!ServerType,
        Dialog!Gone, Dialog!Allowed, Dialog!Dialled, Dialog!ui, Dialog!net
<1>1. Dialog!TypeOK'
  BY DEF Dialog!Phase, Dialog!SocketOpens
<1>2. Dialog!OneAtATime'
  BY DEF Dialog!SocketOpens
<1>3. Dialog!OneWay'
  BY DEF Dialog!SocketOpens
<1>4. Dialog!SessionIsHeld'
  BY DEF Dialog!SessionIsHeld, Dialog!SocketOpens
<1>5. Dialog!NeverStuck'
  BY DEF Dialog!NeverStuck, Dialog!SocketOpens
<1> QED
  BY <1>1, <1>2, <1>3, <1>4, <1>5, DialogHeld

\* A socket that closes sets the timer of a reconnect.
LEMMA DialogSocketCloses == ASSUME Dialog!IndInv, Dialog!SocketCloses PROVE Dialog!IndInv'
<1> USE BoundAssumption, NoneAssumption
<1>1. Dialog!TypeOK'
  <2>1. x1' \in Dialog!Phase /\ x3' \in 1 .. MaxStarts /\ x4' \in {"none", "connecting", "open", "closed"} /\ x5' \subseteq {"reconnect", "autoclose", "cancel"} /\ x6' \in BOOLEAN
    BY ZenonT(60) DEF Dialog!IndInv, Dialog!TypeOK, Dialog!OneAtATime, Dialog!OneWay, Dialog!RefsType, Dialog!ServerType, Dialog!Gone, Dialog!Allowed, Dialog!Dialled, Dialog!ui, Dialog!net, Dialog!Phase, Dialog!SocketCloses, Dialog!Schedule
  <2>2. x2' \in Dialog!RefsType
    BY DEF Dialog!IndInv, Dialog!TypeOK, Dialog!OneAtATime, Dialog!OneWay, Dialog!RefsType, Dialog!ServerType, Dialog!Gone, Dialog!Allowed, Dialog!Dialled, Dialog!ui, Dialog!net, Dialog!Phase, Dialog!SocketCloses, Dialog!Schedule
  <2>3. x11' \in Dialog!ServerType
    BY DEF Dialog!IndInv, Dialog!TypeOK, Dialog!OneAtATime, Dialog!OneWay, Dialog!RefsType, Dialog!ServerType, Dialog!Gone, Dialog!Allowed, Dialog!Dialled, Dialog!ui, Dialog!net, Dialog!Phase, Dialog!SocketCloses, Dialog!Schedule
  <2>4. x7' \subseteq [gen : 1 .. MaxStarts, id : {None} \cup 1 .. MaxStarts]
    BY DEF Dialog!IndInv, Dialog!TypeOK, Dialog!OneAtATime, Dialog!OneWay, Dialog!RefsType, Dialog!ServerType, Dialog!Gone, Dialog!Allowed, Dialog!Dialled, Dialog!ui, Dialog!net, Dialog!Phase, Dialog!SocketCloses, Dialog!Schedule
  <2>5. x8' \subseteq [gen : 1 .. MaxStarts, id : 1 .. MaxStarts]
    BY DEF Dialog!IndInv, Dialog!TypeOK, Dialog!OneAtATime, Dialog!OneWay, Dialog!RefsType, Dialog!ServerType, Dialog!Gone, Dialog!Allowed, Dialog!Dialled, Dialog!ui, Dialog!net, Dialog!Phase, Dialog!SocketCloses, Dialog!Schedule
  <2>6. x10' \subseteq 1 .. MaxStarts /\ x9' \subseteq BOOLEAN
    BY DEF Dialog!IndInv, Dialog!TypeOK, Dialog!OneAtATime, Dialog!OneWay, Dialog!RefsType, Dialog!ServerType, Dialog!Gone, Dialog!Allowed, Dialog!Dialled, Dialog!ui, Dialog!net, Dialog!Phase, Dialog!SocketCloses, Dialog!Schedule
  <2> QED
    BY <2>1, <2>2, <2>3, <2>4, <2>5, <2>6 DEF Dialog!TypeOK
<1>2. Dialog!OneAtATime'
  BY ZenonT(60) DEF Dialog!IndInv, Dialog!TypeOK, Dialog!OneAtATime, Dialog!OneWay, Dialog!RefsType, Dialog!ServerType, Dialog!Gone, Dialog!Allowed, Dialog!Dialled, Dialog!ui, Dialog!net, Dialog!SocketCloses, Dialog!Schedule
<1>3. Dialog!OneWay'
  BY DEF Dialog!IndInv, Dialog!TypeOK, Dialog!OneAtATime, Dialog!OneWay, Dialog!RefsType, Dialog!ServerType, Dialog!Gone, Dialog!Allowed, Dialog!Dialled, Dialog!ui, Dialog!net, Dialog!SocketCloses, Dialog!Schedule
<1>4. Dialog!SessionIsHeld'
  BY DEF Dialog!IndInv, Dialog!TypeOK, Dialog!OneAtATime, Dialog!OneWay, Dialog!RefsType, Dialog!ServerType, Dialog!Gone, Dialog!Allowed, Dialog!Dialled, Dialog!ui, Dialog!net, Dialog!SessionIsHeld, Dialog!SocketCloses, Dialog!Schedule
<1>5. Dialog!NeverStuck'
  BY DEF Dialog!IndInv, Dialog!TypeOK, Dialog!OneAtATime, Dialog!OneWay, Dialog!RefsType, Dialog!ServerType, Dialog!Gone, Dialog!Allowed, Dialog!Dialled, Dialog!ui, Dialog!net, Dialog!NeverStuck, Dialog!SocketCloses, Dialog!Schedule
<1> QED
  BY <1>1, <1>2, <1>3, <1>4, <1>5, DialogHeld

\* The password is asked for.
LEMMA DialogAskUnlock == ASSUME Dialog!IndInv, Dialog!AskUnlock PROVE Dialog!IndInv'
<1> USE BoundAssumption, NoneAssumption DEF Dialog!IndInv, Dialog!TypeOK, Dialog!OneAtATime, Dialog!OneWay, Dialog!RefsType, Dialog!ServerType,
        Dialog!Gone, Dialog!Allowed, Dialog!Dialled, Dialog!ui, Dialog!net
<1>1. Dialog!TypeOK'
  BY DEF Dialog!Phase, Dialog!AskUnlock
<1>2. Dialog!OneAtATime'
  BY DEF Dialog!AskUnlock
<1>3. Dialog!OneWay'
  BY DEF Dialog!AskUnlock
<1>4. Dialog!SessionIsHeld'
  BY DEF Dialog!SessionIsHeld, Dialog!AskUnlock
<1>5. Dialog!NeverStuck'
  BY DEF Dialog!NeverStuck, Dialog!AskUnlock
<1> QED
  BY <1>1, <1>2, <1>3, <1>4, <1>5, DialogHeld

\* A password that is given reconnects.
LEMMA DialogUnlocked == ASSUME Dialog!IndInv, Dialog!Unlocked PROVE Dialog!IndInv'
<1> USE BoundAssumption, NoneAssumption
<1>1. Dialog!TypeOK'
  <2>1. x1' \in Dialog!Phase /\ x3' \in 1 .. MaxStarts /\ x4' \in {"none", "connecting", "open", "closed"} /\ x5' \subseteq {"reconnect", "autoclose", "cancel"} /\ x6' \in BOOLEAN
    <3>1. /\ x1 \in Dialog!Phase /\ x3 \in 1 .. MaxStarts /\ x4 \in {"none", "connecting", "open", "closed"}
          /\ x5 \subseteq {"reconnect", "autoclose", "cancel"} /\ x6 \in BOOLEAN
      BY DEF Dialog!IndInv, Dialog!TypeOK
    <3>2. (x1' = x1 \/ x1' = "reconnecting") /\ x3' = x3 /\ x4' = x4 /\ x5' \subseteq x5 /\ (x6' = x6 \/ x6' = FALSE)
      BY DEF Dialog!Unlocked, Dialog!Reconnect, Dialog!ui, Dialog!net
    <3> QED
      BY <3>1, <3>2 DEF Dialog!Phase
  <2>2. x2' \in Dialog!RefsType
    <3>1. x2' = x2 \/ x2' = [x2 EXCEPT !.probing = TRUE]
      BY DEF Dialog!Unlocked, Dialog!Reconnect
    <3> QED
      BY <3>1 DEF Dialog!IndInv, Dialog!TypeOK, Dialog!RefsType
  <2>3. x11' \in Dialog!ServerType
    BY DEF Dialog!IndInv, Dialog!TypeOK, Dialog!OneAtATime, Dialog!OneWay, Dialog!RefsType, Dialog!ServerType, Dialog!Gone, Dialog!Allowed, Dialog!Dialled, Dialog!ui, Dialog!net, Dialog!Phase, Dialog!Unlocked, Dialog!Reconnect
  <2>4. x7' \subseteq [gen : 1 .. MaxStarts, id : {None} \cup 1 .. MaxStarts]
    BY DEF Dialog!IndInv, Dialog!TypeOK, Dialog!OneAtATime, Dialog!OneWay, Dialog!RefsType, Dialog!ServerType, Dialog!Gone, Dialog!Allowed, Dialog!Dialled, Dialog!ui, Dialog!net, Dialog!Phase, Dialog!Unlocked, Dialog!Reconnect
  <2>5. x8' \subseteq [gen : 1 .. MaxStarts, id : 1 .. MaxStarts]
    BY DEF Dialog!IndInv, Dialog!TypeOK, Dialog!OneAtATime, Dialog!OneWay, Dialog!RefsType, Dialog!ServerType, Dialog!Gone, Dialog!Allowed, Dialog!Dialled, Dialog!ui, Dialog!net, Dialog!Phase, Dialog!Unlocked, Dialog!Reconnect
  <2>6. x10' \subseteq 1 .. MaxStarts /\ x9' \subseteq BOOLEAN
    BY DEF Dialog!IndInv, Dialog!TypeOK, Dialog!OneAtATime, Dialog!OneWay, Dialog!RefsType, Dialog!ServerType, Dialog!Gone, Dialog!Allowed, Dialog!Dialled, Dialog!ui, Dialog!net, Dialog!Phase, Dialog!Unlocked, Dialog!Reconnect
  <2> QED
    BY <2>1, <2>2, <2>3, <2>4, <2>5, <2>6 DEF Dialog!TypeOK
<1>2. Dialog!OneAtATime'
  <2>1. CASE UNCHANGED <<x2, x8>>
    BY <2>1 DEF Dialog!IndInv, Dialog!TypeOK, Dialog!OneAtATime, Dialog!OneWay, Dialog!RefsType, Dialog!ServerType, Dialog!Gone, Dialog!Allowed, Dialog!Dialled, Dialog!ui, Dialog!net, Dialog!Unlocked, Dialog!Reconnect
  <2>2. CASE x2' = [x2 EXCEPT !.probing = TRUE] /\ x8' = x8 \cup {[gen |-> x3, id |-> x2.id]} /\ ~x2.probing /\ x2.id # 0 /\ Dialog!Allowed /\ ~Dialog!Dialled
                /\ x5' = x5 \ {"reconnect"} /\ x1' = "reconnecting"
    <3>1. x8 = {} /\ x8' = {[gen |-> x3, id |-> x2.id]}
      BY <2>2 DEF Dialog!IndInv, Dialog!OneAtATime
    <3> QED
      BY <2>2, <3>1 DEF Dialog!IndInv, Dialog!TypeOK, Dialog!OneAtATime, Dialog!OneWay, Dialog!RefsType, Dialog!ServerType, Dialog!Gone, Dialog!Allowed, Dialog!Dialled, Dialog!ui, Dialog!net, Dialog!Unlocked
  <2> QED
    BY <2>1, <2>2 DEF Dialog!Unlocked, Dialog!Reconnect, Dialog!Allowed, Dialog!Dialled
<1>3. Dialog!OneWay'
  <2>1. CASE UNCHANGED <<x2, x8>>
    BY <2>1 DEF Dialog!IndInv, Dialog!TypeOK, Dialog!OneAtATime, Dialog!OneWay, Dialog!RefsType, Dialog!ServerType, Dialog!Gone, Dialog!Allowed, Dialog!Dialled, Dialog!ui, Dialog!net, Dialog!Unlocked, Dialog!Reconnect
  <2>2. CASE x2' = [x2 EXCEPT !.probing = TRUE] /\ x8' = x8 \cup {[gen |-> x3, id |-> x2.id]} /\ ~x2.probing /\ x2.id # 0 /\ Dialog!Allowed /\ ~Dialog!Dialled
                /\ x5' = x5 \ {"reconnect"} /\ x1' = "reconnecting"
    <3>1. x8 = {} /\ x8' = {[gen |-> x3, id |-> x2.id]}
      BY <2>2 DEF Dialog!IndInv, Dialog!OneAtATime
    <3> QED
      BY <2>2, <3>1 DEF Dialog!IndInv, Dialog!TypeOK, Dialog!OneAtATime, Dialog!OneWay, Dialog!RefsType, Dialog!ServerType, Dialog!Gone, Dialog!Allowed, Dialog!Dialled, Dialog!ui, Dialog!net, Dialog!Unlocked
  <2> QED
    BY <2>1, <2>2 DEF Dialog!Unlocked, Dialog!Reconnect, Dialog!Allowed, Dialog!Dialled
<1>4. Dialog!SessionIsHeld'
  BY DEF Dialog!IndInv, Dialog!TypeOK, Dialog!OneAtATime, Dialog!OneWay, Dialog!RefsType, Dialog!ServerType, Dialog!Gone, Dialog!Allowed, Dialog!Dialled, Dialog!ui, Dialog!net, Dialog!SessionIsHeld, Dialog!Unlocked, Dialog!Reconnect
<1>5. Dialog!NeverStuck'
  <2>1. CASE UNCHANGED <<x2, x8>>
    BY <2>1 DEF Dialog!IndInv, Dialog!TypeOK, Dialog!OneAtATime, Dialog!OneWay, Dialog!RefsType, Dialog!ServerType, Dialog!Gone, Dialog!Allowed, Dialog!Dialled, Dialog!ui, Dialog!net, Dialog!NeverStuck, Dialog!Unlocked, Dialog!Reconnect
  <2>2. CASE x2' = [x2 EXCEPT !.probing = TRUE] /\ x8' = x8 \cup {[gen |-> x3, id |-> x2.id]} /\ ~x2.probing /\ x2.id # 0 /\ Dialog!Allowed /\ ~Dialog!Dialled
                /\ x5' = x5 \ {"reconnect"} /\ x1' = "reconnecting"
    <3>1. x8 = {} /\ x8' = {[gen |-> x3, id |-> x2.id]}
      BY <2>2 DEF Dialog!IndInv, Dialog!OneAtATime
    <3> QED
      BY <2>2, <3>1 DEF Dialog!IndInv, Dialog!TypeOK, Dialog!OneAtATime, Dialog!OneWay, Dialog!RefsType, Dialog!ServerType, Dialog!Gone, Dialog!Allowed, Dialog!Dialled, Dialog!ui, Dialog!net, Dialog!NeverStuck, Dialog!Unlocked
  <2> QED
    BY <2>1, <2>2 DEF Dialog!Unlocked, Dialog!Reconnect, Dialog!Allowed, Dialog!Dialled
<1> QED
  BY <1>1, <1>2, <1>3, <1>4, <1>5, DialogHeld

\* One that is declined changes nothing.
LEMMA DialogUnlockDeclined == ASSUME Dialog!IndInv, Dialog!UnlockDeclined PROVE Dialog!IndInv'
<1> USE BoundAssumption, NoneAssumption
<1>1. Dialog!TypeOK'
  <2>1. x1' \in Dialog!Phase /\ x3' \in 1 .. MaxStarts /\ x4' \in {"none", "connecting", "open", "closed"} /\ x5' \subseteq {"reconnect", "autoclose", "cancel"} /\ x6' \in BOOLEAN
    BY DEF Dialog!IndInv, Dialog!TypeOK, Dialog!OneAtATime, Dialog!OneWay, Dialog!RefsType, Dialog!ServerType, Dialog!Gone, Dialog!Allowed, Dialog!Dialled, Dialog!ui, Dialog!net, Dialog!Phase, Dialog!UnlockDeclined
  <2>2. x2' \in Dialog!RefsType
    BY DEF Dialog!IndInv, Dialog!TypeOK, Dialog!OneAtATime, Dialog!OneWay, Dialog!RefsType, Dialog!ServerType, Dialog!Gone, Dialog!Allowed, Dialog!Dialled, Dialog!ui, Dialog!net, Dialog!Phase, Dialog!UnlockDeclined
  <2>3. x11' \in Dialog!ServerType
    BY DEF Dialog!IndInv, Dialog!TypeOK, Dialog!OneAtATime, Dialog!OneWay, Dialog!RefsType, Dialog!ServerType, Dialog!Gone, Dialog!Allowed, Dialog!Dialled, Dialog!ui, Dialog!net, Dialog!Phase, Dialog!UnlockDeclined
  <2>4. x7' \subseteq [gen : 1 .. MaxStarts, id : {None} \cup 1 .. MaxStarts]
    BY DEF Dialog!IndInv, Dialog!TypeOK, Dialog!OneAtATime, Dialog!OneWay, Dialog!RefsType, Dialog!ServerType, Dialog!Gone, Dialog!Allowed, Dialog!Dialled, Dialog!ui, Dialog!net, Dialog!Phase, Dialog!UnlockDeclined
  <2>5. x8' \subseteq [gen : 1 .. MaxStarts, id : 1 .. MaxStarts]
    BY DEF Dialog!IndInv, Dialog!TypeOK, Dialog!OneAtATime, Dialog!OneWay, Dialog!RefsType, Dialog!ServerType, Dialog!Gone, Dialog!Allowed, Dialog!Dialled, Dialog!ui, Dialog!net, Dialog!Phase, Dialog!UnlockDeclined
  <2>6. x10' \subseteq 1 .. MaxStarts /\ x9' \subseteq BOOLEAN
    BY DEF Dialog!IndInv, Dialog!TypeOK, Dialog!OneAtATime, Dialog!OneWay, Dialog!RefsType, Dialog!ServerType, Dialog!Gone, Dialog!Allowed, Dialog!Dialled, Dialog!ui, Dialog!net, Dialog!Phase, Dialog!UnlockDeclined
  <2> QED
    BY <2>1, <2>2, <2>3, <2>4, <2>5, <2>6 DEF Dialog!TypeOK
<1>2. Dialog!OneAtATime'
  BY DEF Dialog!IndInv, Dialog!TypeOK, Dialog!OneAtATime, Dialog!OneWay, Dialog!RefsType, Dialog!ServerType, Dialog!Gone, Dialog!Allowed, Dialog!Dialled, Dialog!ui, Dialog!net, Dialog!UnlockDeclined
<1>3. Dialog!OneWay'
  BY DEF Dialog!IndInv, Dialog!TypeOK, Dialog!OneAtATime, Dialog!OneWay, Dialog!RefsType, Dialog!ServerType, Dialog!Gone, Dialog!Allowed, Dialog!Dialled, Dialog!ui, Dialog!net, Dialog!UnlockDeclined
<1>4. Dialog!SessionIsHeld'
  BY DEF Dialog!IndInv, Dialog!TypeOK, Dialog!OneAtATime, Dialog!OneWay, Dialog!RefsType, Dialog!ServerType, Dialog!Gone, Dialog!Allowed, Dialog!Dialled, Dialog!ui, Dialog!net, Dialog!SessionIsHeld, Dialog!UnlockDeclined
<1>5. Dialog!NeverStuck'
  BY DEF Dialog!IndInv, Dialog!TypeOK, Dialog!OneAtATime, Dialog!OneWay, Dialog!RefsType, Dialog!ServerType, Dialog!Gone, Dialog!Allowed, Dialog!Dialled, Dialog!ui, Dialog!net, Dialog!NeverStuck, Dialog!UnlockDeclined
<1> QED
  BY <1>1, <1>2, <1>3, <1>4, <1>5, DialogHeld

\* The poll of whether the login is complete.
LEMMA DialogPoll == ASSUME Dialog!IndInv, Dialog!Poll PROVE Dialog!IndInv'
<1> USE BoundAssumption, NoneAssumption DEF Dialog!IndInv, Dialog!TypeOK, Dialog!OneAtATime, Dialog!OneWay, Dialog!RefsType, Dialog!ServerType,
        Dialog!Gone, Dialog!Allowed, Dialog!Dialled, Dialog!ui, Dialog!net
<1>1. Dialog!TypeOK'
  BY DEF Dialog!Phase, Dialog!Poll
<1>2. Dialog!OneAtATime'
  BY DEF Dialog!Poll
<1>3. Dialog!OneWay'
  BY DEF Dialog!Poll
<1>4. Dialog!SessionIsHeld'
  BY DEF Dialog!SessionIsHeld, Dialog!Poll
<1>5. Dialog!NeverStuck'
  BY DEF Dialog!NeverStuck, Dialog!Poll
<1> QED
  BY <1>1, <1>2, <1>3, <1>4, <1>5, DialogHeld

\* A login that is complete closes the dialog by a timer.
LEMMA DialogPollAnswered == ASSUME Dialog!IndInv, Dialog!PollAnswered PROVE Dialog!IndInv'
<1> USE BoundAssumption, NoneAssumption
<1>1. Dialog!TypeOK'
  <2>1. x1' \in Dialog!Phase /\ x3' \in 1 .. MaxStarts /\ x4' \in {"none", "connecting", "open", "closed"} /\ x5' \subseteq {"reconnect", "autoclose", "cancel"} /\ x6' \in BOOLEAN
    BY DEF Dialog!IndInv, Dialog!TypeOK, Dialog!OneAtATime, Dialog!OneWay, Dialog!RefsType, Dialog!ServerType, Dialog!Gone, Dialog!Allowed, Dialog!Dialled, Dialog!ui, Dialog!net, Dialog!Phase, Dialog!PollAnswered
  <2>2. x2' \in Dialog!RefsType
    <3>1. PICK done \in x9 :
            LET first == IF x2.baseline = None THEN done ELSE x2.baseline
                flip == done /\ ~first /\ ~x2.completed
            IN x2' = [x2 EXCEPT !.baseline = first, !.completed = @ \/ flip, !.scheduled = @ \/ (flip /\ ~x2.unmounted)]
      BY DEF Dialog!PollAnswered, Dialog!Gone
    <3> DEFINE first == IF x2.baseline = None THEN done ELSE x2.baseline
               c == x2.completed \/ (done /\ ~first /\ ~x2.completed)
               s == x2.scheduled \/ (done /\ ~first /\ ~x2.completed /\ ~x2.unmounted)
    <3>2. x2 \in Dialog!RefsType /\ first \in BOOLEAN \cup {None}
      BY DEF Dialog!IndInv, Dialog!TypeOK, Dialog!RefsType
    <3>3. c \in BOOLEAN /\ s \in BOOLEAN
      BY <3>2 DEF Dialog!RefsType
    <3>4. x2' = [x2 EXCEPT !.baseline = first, !.completed = c, !.scheduled = s]
      BY <3>1, Zenon
    <3> HIDE DEF first, c, s
    <3> QED
      BY <3>2, <3>3, <3>4, Zenon DEF Dialog!RefsType
  <2>3. x11' \in Dialog!ServerType
    BY DEF Dialog!IndInv, Dialog!TypeOK, Dialog!OneAtATime, Dialog!OneWay, Dialog!RefsType, Dialog!ServerType, Dialog!Gone, Dialog!Allowed, Dialog!Dialled, Dialog!ui, Dialog!net, Dialog!Phase, Dialog!PollAnswered
  <2>4. x7' \subseteq [gen : 1 .. MaxStarts, id : {None} \cup 1 .. MaxStarts]
    BY DEF Dialog!IndInv, Dialog!TypeOK, Dialog!OneAtATime, Dialog!OneWay, Dialog!RefsType, Dialog!ServerType, Dialog!Gone, Dialog!Allowed, Dialog!Dialled, Dialog!ui, Dialog!net, Dialog!Phase, Dialog!PollAnswered
  <2>5. x8' \subseteq [gen : 1 .. MaxStarts, id : 1 .. MaxStarts]
    BY DEF Dialog!IndInv, Dialog!TypeOK, Dialog!OneAtATime, Dialog!OneWay, Dialog!RefsType, Dialog!ServerType, Dialog!Gone, Dialog!Allowed, Dialog!Dialled, Dialog!ui, Dialog!net, Dialog!Phase, Dialog!PollAnswered
  <2>6. x10' \subseteq 1 .. MaxStarts /\ x9' \subseteq BOOLEAN
    BY DEF Dialog!IndInv, Dialog!TypeOK, Dialog!OneAtATime, Dialog!OneWay, Dialog!RefsType, Dialog!ServerType, Dialog!Gone, Dialog!Allowed, Dialog!Dialled, Dialog!ui, Dialog!net, Dialog!Phase, Dialog!PollAnswered
  <2> QED
    BY <2>1, <2>2, <2>3, <2>4, <2>5, <2>6 DEF Dialog!TypeOK
<1>2. Dialog!OneAtATime'
  BY DEF Dialog!IndInv, Dialog!TypeOK, Dialog!OneAtATime, Dialog!OneWay, Dialog!RefsType, Dialog!ServerType, Dialog!Gone, Dialog!Allowed, Dialog!Dialled, Dialog!ui, Dialog!net, Dialog!PollAnswered
<1>3. Dialog!OneWay'
  BY DEF Dialog!IndInv, Dialog!TypeOK, Dialog!OneAtATime, Dialog!OneWay, Dialog!RefsType, Dialog!ServerType, Dialog!Gone, Dialog!Allowed, Dialog!Dialled, Dialog!ui, Dialog!net, Dialog!PollAnswered
<1>4. Dialog!SessionIsHeld'
  BY DEF Dialog!IndInv, Dialog!TypeOK, Dialog!OneAtATime, Dialog!OneWay, Dialog!RefsType, Dialog!ServerType, Dialog!Gone, Dialog!Allowed, Dialog!Dialled, Dialog!ui, Dialog!net, Dialog!SessionIsHeld, Dialog!PollAnswered
<1>5. Dialog!NeverStuck'
  BY DEF Dialog!IndInv, Dialog!TypeOK, Dialog!OneAtATime, Dialog!OneWay, Dialog!RefsType, Dialog!ServerType, Dialog!Gone, Dialog!Allowed, Dialog!Dialled, Dialog!ui, Dialog!net, Dialog!NeverStuck, Dialog!PollAnswered
<1> QED
  BY <1>1, <1>2, <1>3, <1>4, <1>5, DialogHeld

\* A dialog closed by hand cancels its session.
LEMMA DialogManualClose == ASSUME Dialog!IndInv, Dialog!ManualClose PROVE Dialog!IndInv'
<1> USE BoundAssumption, NoneAssumption DEF Dialog!IndInv, Dialog!TypeOK, Dialog!OneAtATime, Dialog!OneWay, Dialog!RefsType, Dialog!ServerType,
        Dialog!Gone, Dialog!Allowed, Dialog!Dialled, Dialog!ui, Dialog!net
<1>1. Dialog!TypeOK'
  BY DEF Dialog!Phase, Dialog!ManualClose, Dialog!Close
<1>2. Dialog!OneAtATime'
  BY DEF Dialog!ManualClose, Dialog!Close
<1>3. Dialog!OneWay'
  BY DEF Dialog!ManualClose, Dialog!Close
<1>4. Dialog!SessionIsHeld'
  BY DEF Dialog!SessionIsHeld, Dialog!ManualClose, Dialog!Close
<1>5. Dialog!NeverStuck'
  BY DEF Dialog!NeverStuck, Dialog!ManualClose, Dialog!Close
<1> QED
  BY <1>1, <1>2, <1>3, <1>4, <1>5, DialogHeld

\* So does one that closes by its timer.
LEMMA DialogAutoClose == ASSUME Dialog!IndInv, Dialog!AutoClose PROVE Dialog!IndInv'
<1> USE BoundAssumption, NoneAssumption DEF Dialog!IndInv, Dialog!TypeOK, Dialog!OneAtATime, Dialog!OneWay, Dialog!RefsType, Dialog!ServerType,
        Dialog!Gone, Dialog!Allowed, Dialog!Dialled, Dialog!ui, Dialog!net
<1>1. Dialog!TypeOK'
  BY DEF Dialog!Phase, Dialog!AutoClose, Dialog!Close
<1>2. Dialog!OneAtATime'
  BY DEF Dialog!AutoClose, Dialog!Close
<1>3. Dialog!OneWay'
  BY DEF Dialog!AutoClose, Dialog!Close
<1>4. Dialog!SessionIsHeld'
  BY DEF Dialog!SessionIsHeld, Dialog!AutoClose, Dialog!Close
<1>5. Dialog!NeverStuck'
  BY DEF Dialog!NeverStuck, Dialog!AutoClose, Dialog!Close
<1> QED
  BY <1>1, <1>2, <1>3, <1>4, <1>5, DialogHeld

\* So does a page that goes.
LEMMA DialogUnmount == ASSUME Dialog!IndInv, Dialog!Unmount PROVE Dialog!IndInv'
<1> USE BoundAssumption, NoneAssumption
<1>1. Dialog!TypeOK'
  <2>1. x1' \in Dialog!Phase /\ x3' \in 1 .. MaxStarts /\ x4' \in {"none", "connecting", "open", "closed"} /\ x5' \subseteq {"reconnect", "autoclose", "cancel"} /\ x6' \in BOOLEAN
    BY DEF Dialog!IndInv, Dialog!TypeOK, Dialog!OneAtATime, Dialog!OneWay, Dialog!RefsType, Dialog!ServerType, Dialog!Gone, Dialog!Allowed, Dialog!Dialled, Dialog!ui, Dialog!net, Dialog!Phase, Dialog!Unmount
  <2>2. x2' \in Dialog!RefsType
    BY DEF Dialog!IndInv, Dialog!TypeOK, Dialog!OneAtATime, Dialog!OneWay, Dialog!RefsType, Dialog!ServerType, Dialog!Gone, Dialog!Allowed, Dialog!Dialled, Dialog!ui, Dialog!net, Dialog!Phase, Dialog!Unmount
  <2>3. x11' \in Dialog!ServerType
    BY DEF Dialog!IndInv, Dialog!TypeOK, Dialog!OneAtATime, Dialog!OneWay, Dialog!RefsType, Dialog!ServerType, Dialog!Gone, Dialog!Allowed, Dialog!Dialled, Dialog!ui, Dialog!net, Dialog!Phase, Dialog!Unmount
  <2>4. x7' \subseteq [gen : 1 .. MaxStarts, id : {None} \cup 1 .. MaxStarts]
    BY DEF Dialog!IndInv, Dialog!TypeOK, Dialog!OneAtATime, Dialog!OneWay, Dialog!RefsType, Dialog!ServerType, Dialog!Gone, Dialog!Allowed, Dialog!Dialled, Dialog!ui, Dialog!net, Dialog!Phase, Dialog!Unmount
  <2>5. x8' \subseteq [gen : 1 .. MaxStarts, id : 1 .. MaxStarts]
    BY DEF Dialog!IndInv, Dialog!TypeOK, Dialog!OneAtATime, Dialog!OneWay, Dialog!RefsType, Dialog!ServerType, Dialog!Gone, Dialog!Allowed, Dialog!Dialled, Dialog!ui, Dialog!net, Dialog!Phase, Dialog!Unmount
  <2>6. x10' \subseteq 1 .. MaxStarts /\ x9' \subseteq BOOLEAN
    BY DEF Dialog!IndInv, Dialog!TypeOK, Dialog!OneAtATime, Dialog!OneWay, Dialog!RefsType, Dialog!ServerType, Dialog!Gone, Dialog!Allowed, Dialog!Dialled, Dialog!ui, Dialog!net, Dialog!Phase, Dialog!Unmount
  <2> QED
    BY <2>1, <2>2, <2>3, <2>4, <2>5, <2>6 DEF Dialog!TypeOK
<1>2. Dialog!OneAtATime'
  BY DEF Dialog!IndInv, Dialog!TypeOK, Dialog!OneAtATime, Dialog!OneWay, Dialog!RefsType, Dialog!ServerType, Dialog!Gone, Dialog!Allowed, Dialog!Dialled, Dialog!ui, Dialog!net, Dialog!Unmount
<1>3. Dialog!OneWay'
  BY DEF Dialog!IndInv, Dialog!TypeOK, Dialog!OneAtATime, Dialog!OneWay, Dialog!RefsType, Dialog!ServerType, Dialog!Gone, Dialog!Allowed, Dialog!Dialled, Dialog!ui, Dialog!net, Dialog!Unmount
<1>4. Dialog!SessionIsHeld'
  BY DEF Dialog!IndInv, Dialog!TypeOK, Dialog!OneAtATime, Dialog!OneWay, Dialog!RefsType, Dialog!ServerType, Dialog!Gone, Dialog!Allowed, Dialog!Dialled, Dialog!ui, Dialog!net, Dialog!SessionIsHeld, Dialog!Unmount
<1>5. Dialog!NeverStuck'
  BY DEF Dialog!IndInv, Dialog!TypeOK, Dialog!OneAtATime, Dialog!OneWay, Dialog!RefsType, Dialog!ServerType, Dialog!Gone, Dialog!Allowed, Dialog!Dialled, Dialog!ui, Dialog!net, Dialog!NeverStuck, Dialog!Unmount
<1> QED
  BY <1>1, <1>2, <1>3, <1>4, <1>5, DialogHeld

\* A cancel that was put off is sent.
LEMMA DialogCancelFires == ASSUME Dialog!IndInv, Dialog!CancelFires PROVE Dialog!IndInv'
<1> USE BoundAssumption, NoneAssumption
<1>1. Dialog!TypeOK'
  <2>1. x1' \in Dialog!Phase /\ x3' \in 1 .. MaxStarts /\ x4' \in {"none", "connecting", "open", "closed"} /\ x5' \subseteq {"reconnect", "autoclose", "cancel"} /\ x6' \in BOOLEAN
    BY DEF Dialog!IndInv, Dialog!TypeOK, Dialog!OneAtATime, Dialog!OneWay, Dialog!RefsType, Dialog!ServerType, Dialog!Gone, Dialog!Allowed, Dialog!Dialled, Dialog!ui, Dialog!net, Dialog!Phase, Dialog!CancelFires
  <2>2. x2' \in Dialog!RefsType
    BY DEF Dialog!IndInv, Dialog!TypeOK, Dialog!OneAtATime, Dialog!OneWay, Dialog!RefsType, Dialog!ServerType, Dialog!Gone, Dialog!Allowed, Dialog!Dialled, Dialog!ui, Dialog!net, Dialog!Phase, Dialog!CancelFires
  <2>3. x11' \in Dialog!ServerType
    BY DEF Dialog!IndInv, Dialog!TypeOK, Dialog!OneAtATime, Dialog!OneWay, Dialog!RefsType, Dialog!ServerType, Dialog!Gone, Dialog!Allowed, Dialog!Dialled, Dialog!ui, Dialog!net, Dialog!Phase, Dialog!CancelFires
  <2>4. x7' \subseteq [gen : 1 .. MaxStarts, id : {None} \cup 1 .. MaxStarts]
    BY DEF Dialog!IndInv, Dialog!TypeOK, Dialog!OneAtATime, Dialog!OneWay, Dialog!RefsType, Dialog!ServerType, Dialog!Gone, Dialog!Allowed, Dialog!Dialled, Dialog!ui, Dialog!net, Dialog!Phase, Dialog!CancelFires
  <2>5. x8' \subseteq [gen : 1 .. MaxStarts, id : 1 .. MaxStarts]
    BY DEF Dialog!IndInv, Dialog!TypeOK, Dialog!OneAtATime, Dialog!OneWay, Dialog!RefsType, Dialog!ServerType, Dialog!Gone, Dialog!Allowed, Dialog!Dialled, Dialog!ui, Dialog!net, Dialog!Phase, Dialog!CancelFires
  <2>6. x10' \subseteq 1 .. MaxStarts /\ x9' \subseteq BOOLEAN
    <3>1. x10' \in {x10, x10 \cup {x2.id}} /\ (x2.id = 0 => x10' = x10) /\ x9' = x9
      BY DEF Dialog!CancelFires
    <3>2. x2.id \in 0 .. MaxStarts /\ x10 \subseteq 1 .. MaxStarts /\ x9 \subseteq BOOLEAN
      BY DEF Dialog!IndInv, Dialog!TypeOK, Dialog!RefsType
    <3> QED
      BY <3>1, <3>2
  <2> QED
    BY <2>1, <2>2, <2>3, <2>4, <2>5, <2>6 DEF Dialog!TypeOK
<1>2. Dialog!OneAtATime'
  BY DEF Dialog!IndInv, Dialog!TypeOK, Dialog!OneAtATime, Dialog!OneWay, Dialog!RefsType, Dialog!ServerType, Dialog!Gone, Dialog!Allowed, Dialog!Dialled, Dialog!ui, Dialog!net, Dialog!CancelFires
<1>3. Dialog!OneWay'
  BY DEF Dialog!IndInv, Dialog!TypeOK, Dialog!OneAtATime, Dialog!OneWay, Dialog!RefsType, Dialog!ServerType, Dialog!Gone, Dialog!Allowed, Dialog!Dialled, Dialog!ui, Dialog!net, Dialog!CancelFires
<1>4. Dialog!SessionIsHeld'
  BY DEF Dialog!IndInv, Dialog!TypeOK, Dialog!OneAtATime, Dialog!OneWay, Dialog!RefsType, Dialog!ServerType, Dialog!Gone, Dialog!Allowed, Dialog!Dialled, Dialog!ui, Dialog!net, Dialog!SessionIsHeld, Dialog!CancelFires
<1>5. Dialog!NeverStuck'
  BY DEF Dialog!IndInv, Dialog!TypeOK, Dialog!OneAtATime, Dialog!OneWay, Dialog!RefsType, Dialog!ServerType, Dialog!Gone, Dialog!Allowed, Dialog!Dialled, Dialog!ui, Dialog!net, Dialog!NeverStuck, Dialog!CancelFires
<1> QED
  BY <1>1, <1>2, <1>3, <1>4, <1>5, DialogHeld

\* The server ends the session that a cancel names.
LEMMA DialogCancelServed == ASSUME Dialog!IndInv, Dialog!CancelServed PROVE Dialog!IndInv'
<1> USE BoundAssumption, NoneAssumption
<1>1. Dialog!TypeOK'
  <2>1. x1' \in Dialog!Phase /\ x3' \in 1 .. MaxStarts /\ x4' \in {"none", "connecting", "open", "closed"} /\ x5' \subseteq {"reconnect", "autoclose", "cancel"} /\ x6' \in BOOLEAN
    BY DEF Dialog!IndInv, Dialog!TypeOK, Dialog!OneAtATime, Dialog!OneWay, Dialog!RefsType, Dialog!ServerType, Dialog!Gone, Dialog!Allowed, Dialog!Dialled, Dialog!ui, Dialog!net, Dialog!Phase, Dialog!CancelServed
  <2>2. x2' \in Dialog!RefsType
    BY DEF Dialog!IndInv, Dialog!TypeOK, Dialog!OneAtATime, Dialog!OneWay, Dialog!RefsType, Dialog!ServerType, Dialog!Gone, Dialog!Allowed, Dialog!Dialled, Dialog!ui, Dialog!net, Dialog!Phase, Dialog!CancelServed
  <2>3. x11' \in Dialog!ServerType
    <3>1. PICK i \in x10 : x11' = [x11 EXCEPT !.id = IF @ = i THEN 0 ELSE @, !.locked = FALSE]
      BY DEF Dialog!CancelServed
    <3> DEFINE n == IF x11.id = i THEN 0 ELSE x11.id
    <3>2. x11 \in Dialog!ServerType /\ n \in 0 .. MaxStarts
      BY DEF Dialog!IndInv, Dialog!TypeOK, Dialog!ServerType
    <3>3. x11' = [x11 EXCEPT !.id = n, !.locked = FALSE]
      BY <3>1, Zenon
    <3> HIDE DEF n
    <3> QED
      BY <3>2, <3>3, Zenon DEF Dialog!ServerType
  <2>4. x7' \subseteq [gen : 1 .. MaxStarts, id : {None} \cup 1 .. MaxStarts]
    BY DEF Dialog!IndInv, Dialog!TypeOK, Dialog!OneAtATime, Dialog!OneWay, Dialog!RefsType, Dialog!ServerType, Dialog!Gone, Dialog!Allowed, Dialog!Dialled, Dialog!ui, Dialog!net, Dialog!Phase, Dialog!CancelServed
  <2>5. x8' \subseteq [gen : 1 .. MaxStarts, id : 1 .. MaxStarts]
    BY DEF Dialog!IndInv, Dialog!TypeOK, Dialog!OneAtATime, Dialog!OneWay, Dialog!RefsType, Dialog!ServerType, Dialog!Gone, Dialog!Allowed, Dialog!Dialled, Dialog!ui, Dialog!net, Dialog!Phase, Dialog!CancelServed
  <2>6. x10' \subseteq 1 .. MaxStarts /\ x9' \subseteq BOOLEAN
    BY DEF Dialog!IndInv, Dialog!TypeOK, Dialog!OneAtATime, Dialog!OneWay, Dialog!RefsType, Dialog!ServerType, Dialog!Gone, Dialog!Allowed, Dialog!Dialled, Dialog!ui, Dialog!net, Dialog!Phase, Dialog!CancelServed
  <2> QED
    BY <2>1, <2>2, <2>3, <2>4, <2>5, <2>6 DEF Dialog!TypeOK
<1>2. Dialog!OneAtATime'
  BY DEF Dialog!IndInv, Dialog!TypeOK, Dialog!OneAtATime, Dialog!OneWay, Dialog!RefsType, Dialog!ServerType, Dialog!Gone, Dialog!Allowed, Dialog!Dialled, Dialog!ui, Dialog!net, Dialog!CancelServed
<1>3. Dialog!OneWay'
  BY DEF Dialog!IndInv, Dialog!TypeOK, Dialog!OneAtATime, Dialog!OneWay, Dialog!RefsType, Dialog!ServerType, Dialog!Gone, Dialog!Allowed, Dialog!Dialled, Dialog!ui, Dialog!net, Dialog!CancelServed
<1>4. Dialog!SessionIsHeld'
  BY DEF Dialog!IndInv, Dialog!TypeOK, Dialog!OneAtATime, Dialog!OneWay, Dialog!RefsType, Dialog!ServerType, Dialog!Gone, Dialog!Allowed, Dialog!Dialled, Dialog!ui, Dialog!net, Dialog!SessionIsHeld, Dialog!CancelServed
<1>5. Dialog!NeverStuck'
  BY DEF Dialog!IndInv, Dialog!TypeOK, Dialog!OneAtATime, Dialog!OneWay, Dialog!RefsType, Dialog!ServerType, Dialog!Gone, Dialog!Allowed, Dialog!Dialled, Dialog!ui, Dialog!net, Dialog!NeverStuck, Dialog!CancelServed
<1> QED
  BY <1>1, <1>2, <1>3, <1>4, <1>5, DialogHeld

\* A cancel is lost, and its session runs on.
LEMMA DialogCancelFails == ASSUME Dialog!IndInv, Dialog!CancelFails PROVE Dialog!IndInv'
<1> USE BoundAssumption, NoneAssumption DEF Dialog!IndInv, Dialog!TypeOK, Dialog!OneAtATime, Dialog!OneWay, Dialog!RefsType, Dialog!ServerType,
        Dialog!Gone, Dialog!Allowed, Dialog!Dialled, Dialog!ui, Dialog!net
<1>1. Dialog!TypeOK'
  BY DEF Dialog!Phase, Dialog!CancelFails
<1>2. Dialog!OneAtATime'
  BY DEF Dialog!CancelFails
<1>3. Dialog!OneWay'
  BY DEF Dialog!CancelFails
<1>4. Dialog!SessionIsHeld'
  BY DEF Dialog!SessionIsHeld, Dialog!CancelFails
<1>5. Dialog!NeverStuck'
  BY DEF Dialog!NeverStuck, Dialog!CancelFails
<1> QED
  BY <1>1, <1>2, <1>3, <1>4, <1>5, DialogHeld

\* A session that ends by itself.
LEMMA DialogSessionEnds == ASSUME Dialog!IndInv, Dialog!SessionEnds PROVE Dialog!IndInv'
<1> USE BoundAssumption, NoneAssumption DEF Dialog!IndInv, Dialog!TypeOK, Dialog!OneAtATime, Dialog!OneWay, Dialog!RefsType, Dialog!ServerType,
        Dialog!Gone, Dialog!Allowed, Dialog!Dialled, Dialog!ui, Dialog!net
<1>1. Dialog!TypeOK'
  BY DEF Dialog!Phase, Dialog!SessionEnds
<1>2. Dialog!OneAtATime'
  BY DEF Dialog!SessionEnds
<1>3. Dialog!OneWay'
  BY DEF Dialog!SessionEnds
<1>4. Dialog!SessionIsHeld'
  BY DEF Dialog!SessionIsHeld, Dialog!SessionEnds
<1>5. Dialog!NeverStuck'
  BY DEF Dialog!NeverStuck, Dialog!SessionEnds
<1> QED
  BY <1>1, <1>2, <1>3, <1>4, <1>5, DialogHeld

\* A login that completes on the server.
LEMMA DialogOnboarded == ASSUME Dialog!IndInv, Dialog!Onboarded PROVE Dialog!IndInv'
<1> USE BoundAssumption, NoneAssumption DEF Dialog!IndInv, Dialog!TypeOK, Dialog!OneAtATime, Dialog!OneWay, Dialog!RefsType, Dialog!ServerType,
        Dialog!Gone, Dialog!Allowed, Dialog!Dialled, Dialog!ui, Dialog!net
<1>1. Dialog!TypeOK'
  BY ZenonT(60) DEF Dialog!Phase, Dialog!Onboarded
<1>2. Dialog!OneAtATime'
  BY DEF Dialog!Onboarded
<1>3. Dialog!OneWay'
  BY DEF Dialog!Onboarded
<1>4. Dialog!SessionIsHeld'
  BY DEF Dialog!SessionIsHeld, Dialog!Onboarded
<1>5. Dialog!NeverStuck'
  BY DEF Dialog!NeverStuck, Dialog!Onboarded
<1> QED
  BY <1>1, <1>2, <1>3, <1>4, <1>5, DialogHeld

\* A password that runs out.
LEMMA DialogExpires == ASSUME Dialog!IndInv, Dialog!Expires PROVE Dialog!IndInv'
<1> USE BoundAssumption, NoneAssumption DEF Dialog!IndInv, Dialog!TypeOK, Dialog!OneAtATime, Dialog!OneWay, Dialog!RefsType, Dialog!ServerType,
        Dialog!Gone, Dialog!Allowed, Dialog!Dialled, Dialog!ui, Dialog!net
<1>1. Dialog!TypeOK'
  BY ZenonT(60) DEF Dialog!Phase, Dialog!Expires
<1>2. Dialog!OneAtATime'
  BY DEF Dialog!Expires
<1>3. Dialog!OneWay'
  BY DEF Dialog!Expires
<1>4. Dialog!SessionIsHeld'
  BY DEF Dialog!SessionIsHeld, Dialog!Expires
<1>5. Dialog!NeverStuck'
  BY DEF Dialog!NeverStuck, Dialog!Expires
<1> QED
  BY <1>1, <1>2, <1>3, <1>4, <1>5, DialogHeld

\* Every step keeps the invariant.
LEMMA DialogStep == ASSUME Dialog!IndInv, Dialog!Next PROVE Dialog!IndInv'
BY DialogRestart, DialogStartServed, DialogStartAnswered, DialogStartFails, DialogTimerFires, DialogForeground, DialogProbeFails, DialogProbeLocked, DialogProbeAnswered, DialogSocketOpens, DialogSocketCloses, DialogAskUnlock, DialogUnlocked, DialogUnlockDeclined, DialogPoll, DialogPollAnswered, DialogManualClose, DialogAutoClose, DialogUnmount, DialogCancelFires, DialogCancelServed, DialogCancelFails, DialogSessionEnds, DialogOnboarded, DialogExpires DEF Dialog!Next

\* So does a step that leaves the variables of the part alone.
LEMMA DialogStill == ASSUME Dialog!IndInv, UNCHANGED <<x1, x2, x3, x4, x5, x6, x7, x8, x9, x10, x11>> PROVE Dialog!IndInv'
BY DEF Dialog!IndInv, Dialog!TypeOK, Dialog!OneAtATime, Dialog!OneWay, Dialog!RefsType, Dialog!ServerType, Dialog!Gone, Dialog!Allowed, Dialog!Dialled, Dialog!NeverStuck, Dialog!NothingLeftRunning, Dialog!SessionIsHeld

-----------------------------------------------------------------------------
(* The Claude Code tab: ClaudePanel.                                       *)

\* The part's own operators on finite sets are the library's.
LEMMA ClaudeCardinality == \A S : Claude!Cardinality(S) = Cardinality(S) /\ Claude!IsFiniteSet(S) = IsFiniteSet(S)
BY DEF Claude!Cardinality, Cardinality, Claude!IsFiniteSet, IsFiniteSet

\* A new request is one of the tab, and unanswered.
LEMMA ClaudeCall ==
    ASSUME x1 \in Claude!Tabs, NEW k \in {"load", "version", "toggle", "start"}, NEW q, IF k = "toggle" THEN q \in BOOLEAN ELSE IF k = "start" THEN q \in Nat ELSE q = None,
           NEW d, d = Claude!Call(k, q)
    PROVE  Claude!IsCall(d) /\ d.kind = k /\ d.visit = x1.visit /\ d.view = x1.view /\ d.at = "sent"
<1>1. x1.visit \in Nat /\ x1.view \in Claude!Views
  BY DEF Claude!Tabs
<1> QED
  BY <1>1 DEF Claude!Call, Claude!IsCall, Claude!CallsOf

\* A tab's poll is sent, and asks for the job it shows.
LEMMA ClaudePollOf ==
    ASSUME NEW t \in Claude!Tabs, NEW d \in Claude!PollOf(t)
    PROVE  Claude!IsCall(d) /\ d.kind = "poll" /\ d.at = "sent" /\ d.ask = t.job.id /\ t.job.id # 0
<1>1. t.visit \in Nat /\ t.view \in Claude!Views /\ t.job.id \in Nat
  BY BoundAssumption DEF Claude!Tabs
<1>2. t.job.id # 0 /\ d = [kind |-> "poll", visit |-> t.visit, view |-> t.view, ask |-> t.job.id, at |-> "sent", reply |-> None]
  BY DEF Claude!PollOf
<1> QED
  BY <1>1, <1>2 DEF Claude!IsCall, Claude!CallsOf

\* The first request of a visit.
LEMMA ClaudeFirst ==
    ASSUME NEW v \in Nat, NEW d, d = [kind |-> "load", visit |-> v, view |-> "none", ask |-> None, at |-> "sent", reply |-> None]
    PROVE  /\ Claude!IsCall(d) /\ d.kind = "load" /\ d.visit = v /\ d.at = "sent"
           /\ Claude!Fresh(v) \in Claude!Tabs /\ Claude!Fresh(v).visit = v /\ Claude!Fresh(v).job = Claude!NoJob /\ Claude!Fresh(v).loading
<1>1. 0 \in 0 .. MaxOwnJobs
  BY BoundAssumption
<1>2. Claude!NoJob \in [id : 0 .. MaxOwnJobs, status : {"none", "starting", "running"} \cup Claude!Over]
  BY <1>1 DEF Claude!NoJob
<1>3. Claude!IsCall(d) /\ d.kind = "load" /\ d.visit = v /\ d.at = "sent"
  BY DEF Claude!IsCall, Claude!CallsOf, Claude!Views
<1>4. Claude!Fresh(v) \in Claude!Tabs /\ Claude!Fresh(v).visit = v /\ Claude!Fresh(v).job = Claude!NoJob /\ Claude!Fresh(v).loading
  BY <1>2 DEF Claude!Fresh, Claude!Tabs, Claude!Views
<1> QED
  BY <1>3, <1>4

\* The initial states satisfy the invariant.
LEMMA ClaudeInit == ASSUME Claude!Init PROVE Claude!IndInv
<1> USE BoundAssumption DEF Claude!Init
<1> DEFINE d == [kind |-> "load", visit |-> 1, view |-> "none", ask |-> None, at |-> "sent", reply |-> None]
<1>1. /\ Claude!IsCall(d) /\ d.kind = "load" /\ d.visit = 1 /\ d.at = "sent"
      /\ Claude!Fresh(1) \in Claude!Tabs /\ Claude!Fresh(1).visit = 1 /\ Claude!Fresh(1).job = Claude!NoJob /\ Claude!Fresh(1).loading
  BY ClaudeFirst
<1>2. x1 = Claude!Fresh(1) /\ x2 = 0 /\ x3 = {d}
  OBVIOUS
<1> HIDE DEF d
<1>3. Claude!NoJob.id = 0
  BY DEF Claude!NoJob
<1>4. \E n \in 0 .. MaxOwnJobs :
        x4 \in [installed : BOOLEAN, hide : BOOLEAN, jobs : [1 .. n -> {"running"} \cup Claude!Over], known : Nat]
  <2>1. <<>> \in [1 .. 0 -> {"running"} \cup Claude!Over] /\ 0 \in 0 .. MaxOwnJobs /\ 1 \in Nat
    OBVIOUS
  <2>2. x4 \in [installed : BOOLEAN, hide : BOOLEAN, jobs : [1 .. 0 -> {"running"} \cup Claude!Over], known : Nat]
    BY <2>1
  <2> QED
    BY <2>1, <2>2
<1>5. Claude!TypeOK
  BY <1>1, <1>2, <1>4 DEF Claude!TypeOK
<1>6. Claude!NothingStuck /\ Claude!JobIsKept /\ Claude!IdsAreOfJobs
  BY <1>1, <1>2, <1>3 DEF Claude!NothingStuck, Claude!Waiting, Claude!Mine, Claude!JobIsKept, Claude!IdsAreOfJobs
<1>7. Claude!AnswersAreSound
  BY <1>1, <1>2 DEF Claude!AnswersAreSound, Claude!AnswerIsSound
<1> QED
  BY <1>5, <1>6, <1>7 DEF Claude!IndInv

\* What the tab does: its requests are new ones, for jobs that are the server's.
LEMMA ClaudeTab ==
    ASSUME Claude!IndInv, x4' = x4, x1' \in Claude!Tabs, x2' \in 0 .. MaxOwnJobs,
           \A c \in x3' : \/ c \in x3
                          \/ Claude!IsCall(c) /\ c.at = "sent" /\ (c.kind = "poll" => c.ask \in DOMAIN x4.jobs),
           x1'.loading => \E c \in x3' : c.kind = "load" /\ c.visit = x1'.visit,
           x1'.job.id # 0 => x2' # 0, \A id \in {x1'.job.id, x2'} : id # 0 => id \in DOMAIN x4.jobs
    PROVE  Claude!IndInv'
<1>1. Claude!TypeOK'
  BY DEF Claude!IndInv, Claude!TypeOK
<1>2. Claude!AnswersAreSound'
  BY DEF Claude!IndInv, Claude!AnswersAreSound, Claude!AnswerIsSound
<1>3. Claude!NothingStuck' /\ Claude!JobIsKept' /\ Claude!IdsAreOfJobs'
  BY DEF Claude!NothingStuck, Claude!Waiting, Claude!Mine, Claude!JobIsKept, Claude!IdsAreOfJobs
<1> QED
  BY <1>1, <1>2, <1>3 DEF Claude!IndInv

\* What the server does: a request has its answer.
LEMMA ClaudeServes ==
    ASSUME Claude!IndInv, UNCHANGED <<x1, x2>>, NEW c \in x3, NEW d, x3' = (x3 \ {c}) \cup {d}, Claude!IsCall(d), d.kind = c.kind,
           d.visit = c.visit, d.ask = c.ask, Claude!AnswerIsSound(d)', DOMAIN x4.jobs \subseteq DOMAIN x4'.jobs,
           \E n \in 0 .. MaxOwnJobs :
              x4' \in [installed : BOOLEAN, hide : BOOLEAN, jobs : [1 .. n -> {"running"} \cup Claude!Over], known : Nat]
    PROVE  Claude!IndInv'
<1>1. Claude!TypeOK'
  BY DEF Claude!IndInv, Claude!TypeOK
<1>2. Claude!AnswersAreSound'
  BY DEF Claude!IndInv, Claude!AnswersAreSound, Claude!AnswerIsSound
<1>3. Claude!NothingStuck' /\ Claude!JobIsKept' /\ Claude!IdsAreOfJobs'
  BY DEF Claude!IndInv, Claude!NothingStuck, Claude!Waiting, Claude!Mine, Claude!JobIsKept, Claude!IdsAreOfJobs
<1> QED
  BY <1>1, <1>2, <1>3 DEF Claude!IndInv

\* Of a tab with another job that is the server's, or none, the polls are
\* that job's.
LEMMA ClaudePolls ==
    ASSUME NEW t \in Claude!Tabs, t.job.id # 0 => t.job.id \in DOMAIN x4.jobs
    PROVE  \A d \in Claude!PollOf(t) : Claude!IsCall(d) /\ d.at = "sent" /\ (d.kind = "poll" => d.ask \in DOMAIN x4.jobs)
BY ClaudePollOf

\* What the tab asks for keeps the invariant.
LEMMA ClaudeAsks ==
    ASSUME Claude!IndInv, Claude!Refresh \/ Claude!Toggle \/ Claude!Start \/ Claude!Poll
    PROVE  Claude!IndInv'
<1>0. /\ x1 \in Claude!Tabs /\ x2 \in 0 .. MaxOwnJobs /\ (x1.job.id # 0 => x2 # 0)
      /\ (\A id \in {x1.job.id, x2} : id # 0 => id \in DOMAIN x4.jobs)
      /\ (x1.loading => \E c \in x3 : c.kind = "load" /\ c.visit = x1.visit)
  BY DEF Claude!IndInv, Claude!TypeOK, Claude!JobIsKept, Claude!IdsAreOfJobs, Claude!NothingStuck, Claude!Waiting, Claude!Mine
<1>1. CASE Claude!Refresh
  <2>1. x1' = [x1 EXCEPT !.loading = TRUE] /\ UNCHANGED <<x2, x4>>
        /\ x3' = x3 \cup {Claude!Call("load", None)} \cup (IF x1.hide = FALSE THEN {Claude!Call("version", None)} ELSE {})
    BY <1>1 DEF Claude!Refresh, Claude!Load, Claude!Version
  <2>2. x1' \in Claude!Tabs /\ x1'.visit = x1.visit /\ x1'.job = x1.job
    BY <1>0, <2>1 DEF Claude!Tabs
  <2>3. \A d \in {Claude!Call("load", None), Claude!Call("version", None)} : Claude!IsCall(d) /\ d.at = "sent" /\ d.kind \in {"load", "version"}
    BY <1>0, ClaudeCall
  <2>4. Claude!Call("load", None).kind = "load" /\ Claude!Call("load", None).visit = x1.visit
    BY <1>0, ClaudeCall
  <2> QED
    BY <1>0, <2>1, <2>2, <2>3, <2>4, ClaudeTab
<1>2. CASE Claude!Toggle
  <2> DEFINE b == ~ x1.hide
             v == x1.version /\ x1.hide
  <2>1. b \in BOOLEAN /\ v \in BOOLEAN
    OBVIOUS
  <2>2. x1' = [x1 EXCEPT !.hide = b, !.version = v] /\ UNCHANGED <<x2, x4>>
        /\ x3' = x3 \cup {Claude!Call("toggle", b)} \cup (IF x1.hide /\ x1.inst THEN {Claude!Call("version", None)} ELSE {})
    BY <1>2 DEF Claude!Toggle, Claude!Version
  <2> HIDE DEF b, v
  <2>3. x1' \in Claude!Tabs
    BY <1>0, <2>1, <2>2, Zenon DEF Claude!Tabs
  <2>4. x1'.visit = x1.visit /\ x1'.job = x1.job /\ x1'.loading = x1.loading
    BY <1>0, <2>2 DEF Claude!Tabs
  <2>5. \A d \in {Claude!Call("toggle", b), Claude!Call("version", None)} : Claude!IsCall(d) /\ d.at = "sent" /\ d.kind \in {"toggle", "version"}
    BY <1>0, <2>1, ClaudeCall
  <2> QED
    BY <1>0, <2>2, <2>3, <2>4, <2>5, ClaudeTab
<1>3. CASE Claude!Start
  <2>1. PICK q \in Nat : x3' = x3 \cup {Claude!Call("start", q)} /\ UNCHANGED <<x1, x2, x4>>
    BY <1>3, BoundAssumption DEF Claude!Start
  <2>2. \A d \in {Claude!Call("start", q)} : Claude!IsCall(d) /\ d.at = "sent" /\ d.kind = "start"
    BY <1>0, ClaudeCall
  <2> QED
    BY <1>0, <2>1, <2>2, ClaudeTab
<1>4. CASE Claude!Poll
  <2>1. x3' = x3 \cup Claude!PollOf(x1) /\ UNCHANGED <<x1, x2, x4>>
    BY <1>4 DEF Claude!Poll
  <2>2. \A d \in Claude!PollOf(x1) : Claude!IsCall(d) /\ d.at = "sent" /\ (d.kind = "poll" => d.ask \in DOMAIN x4.jobs)
    BY <1>0, ClaudePolls
  <2> QED
    BY <1>0, <2>1, <2>2, ClaudeTab
<1> QED
  BY <1>1, <1>2, <1>3, <1>4

\* So does leaving the tab and coming back.
LEMMA ClaudeLeaves ==
    ASSUME Claude!IndInv, Claude!CloseJob \/ Claude!Reload \/ Claude!Visit
    PROVE  Claude!IndInv'
<1>0. /\ x1 \in Claude!Tabs /\ x2 \in 0 .. MaxOwnJobs /\ (x1.job.id # 0 => x2 # 0)
      /\ (\A id \in {x1.job.id, x2} : id # 0 => id \in DOMAIN x4.jobs)
      /\ (x1.loading => \E c \in x3 : c.kind = "load" /\ c.visit = x1.visit)
      /\ 0 \in 0 .. MaxOwnJobs /\ Claude!NoJob \in [id : 0 .. MaxOwnJobs, status : {"none", "starting", "running"} \cup Claude!Over]
      /\ Claude!NoJob.id = 0
  <2>1. 0 \in 0 .. MaxOwnJobs
    BY BoundAssumption
  <2> QED
    BY <2>1 DEF Claude!IndInv, Claude!TypeOK, Claude!JobIsKept, Claude!IdsAreOfJobs, Claude!NothingStuck, Claude!Waiting, Claude!Mine, Claude!NoJob
<1>1. CASE Claude!CloseJob
  <2>1. x1' = [x1 EXCEPT !.job = Claude!NoJob] /\ x2' = 0 /\ x3' = {c \in x3 : c.kind # "poll"} /\ x4' = x4
    BY <1>1 DEF Claude!CloseJob, Claude!NoPolls
  <2>2. x1' \in Claude!Tabs /\ x1'.visit = x1.visit /\ x1'.job = Claude!NoJob /\ x1'.loading = x1.loading
    BY <1>0, <2>1 DEF Claude!Tabs
  <2> QED
    BY <1>0, <2>1, <2>2, ClaudeTab
<1>2. CASE Claude!Reload
  <2> DEFINE load == IF x1.loading THEN {} ELSE {Claude!Call("load", None)}
             version == IF x1.view = "installed" THEN {Claude!Call("version", None)} ELSE {}
  <2>1. x1' = [x1 EXCEPT !.job = Claude!NoJob, !.loading = TRUE] /\ x2' = 0 /\ x4' = x4
        /\ x3' = {c \in x3 : c.kind # "poll"} \cup load \cup version
    BY <1>2 DEF Claude!Reload, Claude!NoPolls, Claude!Load, Claude!Version
  <2>2. TRUE \in BOOLEAN
    OBVIOUS
  <2>3. x1' \in Claude!Tabs
    BY <1>0, <2>1, <2>2, Zenon DEF Claude!Tabs
  <2>4. x1'.visit = x1.visit /\ x1'.job = Claude!NoJob
    BY <1>0, <2>1 DEF Claude!Tabs
  <2>5. \A d \in load \cup version : Claude!IsCall(d) /\ d.at = "sent" /\ d.kind \in {"load", "version"}
    BY <1>0, ClaudeCall
  <2>6. ~ x1.loading => \E d \in load : d.kind = "load" /\ d.visit = x1.visit
    BY <1>0, ClaudeCall
  <2> HIDE DEF load, version
  <2>7. \E d \in x3' : d.kind = "load" /\ d.visit = x1'.visit
    BY <1>0, <2>1, <2>4, <2>6
  <2> QED
    BY <1>0, <2>1, <2>3, <2>4, <2>5, <2>7, ClaudeTab
<1>3. CASE Claude!Visit
  <2> DEFINE v == x1.visit + 1
             d == [kind |-> "load", visit |-> v, view |-> "none", ask |-> None, at |-> "sent", reply |-> None]
  <2>1. v \in Nat
    BY <1>0 DEF Claude!Tabs
  <2>2. x1' = Claude!Fresh(v) /\ x3' = {c \in x3 : c.kind = "start"} \cup {[kind |-> "load", visit |-> Claude!Fresh(v).visit, view |-> "none", ask |-> None, at |-> "sent", reply |-> None]} /\ UNCHANGED <<x2, x4>>
    BY <1>3 DEF Claude!Visit
  <2>3. Claude!IsCall(d) /\ d.kind = "load" /\ d.visit = v /\ d.at = "sent" /\ Claude!Fresh(v) \in Claude!Tabs
        /\ Claude!Fresh(v).visit = v /\ Claude!Fresh(v).job = Claude!NoJob
    BY <2>1, ClaudeFirst
  <2>4. x3' = {c \in x3 : c.kind = "start"} \cup {d}
    BY <2>2, <2>3
  <2> HIDE DEF v, d
  <2> QED
    BY <1>0, <2>2, <2>3, <2>4, ClaudeTab
<1> QED
  BY <1>1, <1>2, <1>3

\* So do the answers it receives.
LEMMA ClaudeAnswers ==
    ASSUME Claude!IndInv, NEW c \in x3,
           Claude!Loaded(c) \/ Claude!VersionRead(c) \/ Claude!Toggled(c) \/ Claude!Started(c) \/ Claude!Polled(c)
    PROVE  Claude!IndInv'
<1>0. /\ x1 \in Claude!Tabs /\ x2 \in 0 .. MaxOwnJobs /\ (x1.job.id # 0 => x2 # 0)
      /\ (\A id \in {x1.job.id, x2} : id # 0 => id \in DOMAIN x4.jobs)
      /\ (x1.loading => \E d \in x3 : d.kind = "load" /\ d.visit = x1.visit)
      /\ Claude!NoJob \in [id : 0 .. MaxOwnJobs, status : {"none", "starting", "running"} \cup Claude!Over]
      /\ Claude!NoJob.id = 0 /\ 0 \in 0 .. MaxOwnJobs
  <2>1. 0 \in 0 .. MaxOwnJobs
    BY BoundAssumption
  <2> QED
    BY <2>1 DEF Claude!IndInv, Claude!TypeOK, Claude!JobIsKept, Claude!IdsAreOfJobs, Claude!NothingStuck, Claude!Waiting, Claude!Mine, Claude!NoJob
<1>a. Claude!IsCall(c) /\ c.at \in {"sent", "done", "failed"} /\ Claude!AnswerIsSound(c)
  BY DEF Claude!IndInv, Claude!TypeOK, Claude!AnswersAreSound, Claude!IsCall, Claude!CallsOf
<1>b. ASSUME NEW id \in DOMAIN x4.jobs PROVE id \in 0 .. MaxOwnJobs /\ id # 0
  <2>1. PICK n \in 0 .. MaxOwnJobs :
          x4 \in [installed : BOOLEAN, hide : BOOLEAN, jobs : [1 .. n -> {"running"} \cup Claude!Over], known : Nat]
    BY DEF Claude!IndInv, Claude!TypeOK
  <2>2. DOMAIN x4.jobs = 1 .. n
    BY <2>1
  <2> QED
    BY <2>1, <2>2, BoundAssumption
<1>1. CASE Claude!Loaded(c)
  <2>1. c.kind = "load" /\ c.at # "sent" /\ UNCHANGED <<x2, x4>>
    BY <1>1 DEF Claude!Loaded
  <2>2. c.at # "failed" => c.reply \in [installed : BOOLEAN, hide : BOOLEAN]
    BY <1>a, <2>1 DEF Claude!IsCall, Claude!CallsOf, Claude!AnswerIsSound
  <2> DEFINE v == IF c.at = "failed" THEN "error" ELSE IF c.reply.installed THEN "installed" ELSE "absent"
             job == IF v = "error" THEN Claude!NoJob ELSE IF v = x1.view THEN x1.job ELSE Claude!Kept(x2)
             hide == IF v = "error" THEN x1.hide ELSE c.reply.hide
             inst == IF v = "error" THEN x1.inst ELSE c.reply.installed
             version == x1.version /\ (v = "error" \/ (v = "installed" /\ ~ c.reply.hide))
             t == [x1 EXCEPT !.loading = FALSE, !.view = v, !.job = job, !.hide = hide, !.inst = inst, !.version = version]
             more == IF v = "installed" /\ ~c.reply.hide THEN {Claude!Call("version", None)} ELSE {}
  <2>3. x1' = t /\ x3' = (IF v = x1.view THEN x3 \ {c} ELSE (Claude!NoPolls \ {c}) \cup Claude!PollOf(t)) \cup more
    BY <1>1, Zenon DEF Claude!Loaded
  <2>4. v \in Claude!Views
    BY DEF Claude!Views
  <2>5. /\ job \in [id : 0 .. MaxOwnJobs, status : {"none", "starting", "running"} \cup Claude!Over] /\ job.id \in {0, x1.job.id, x2}
        /\ (job.id # 0 => x2 # 0)
    <3>1. Claude!Kept(x2) \in [id : 0 .. MaxOwnJobs, status : {"none", "starting", "running"} \cup Claude!Over] /\ Claude!Kept(x2).id = x2
      BY <1>0 DEF Claude!Kept, Claude!NoJob
    <3>2. x1.job \in [id : 0 .. MaxOwnJobs, status : {"none", "starting", "running"} \cup Claude!Over]
      BY <1>0 DEF Claude!Tabs
    <3> QED
      BY <1>0, <3>1, <3>2
  <2>6. version \in BOOLEAN
    OBVIOUS
  <2>7. inst \in BOOLEAN /\ hide \in BOOLEAN \cup {None}
    BY <1>0, <2>2 DEF Claude!Tabs
  <2>8. \A d \in more : Claude!IsCall(d) /\ d.at = "sent" /\ d.kind = "version"
    BY <1>0, ClaudeCall
  <2> HIDE DEF v, job, hide, inst, version, more
  <2>9. FALSE \in BOOLEAN
    OBVIOUS
  <2>10. t \in Claude!Tabs
    BY <1>0, <2>4, <2>5, <2>6, <2>7, <2>9, Zenon DEF Claude!Tabs
  <2>11. t.loading = FALSE /\ t.job = job
    BY <1>0 DEF Claude!Tabs
  <2> HIDE DEF t
  <2>12. \A d \in Claude!PollOf(t) : Claude!IsCall(d) /\ d.at = "sent" /\ (d.kind = "poll" => d.ask \in DOMAIN x4.jobs)
    BY <1>0, <2>5, <2>10, <2>11, ClaudePolls
  <2>13. \A d \in x3' : d \in x3 \/ d \in Claude!PollOf(t) \/ d \in more
    BY <2>3 DEF Claude!NoPolls
  <2>14. \A d \in x3' : d \in x3 \/ (Claude!IsCall(d) /\ d.at = "sent" /\ (d.kind = "poll" => d.ask \in DOMAIN x4.jobs))
    BY <2>8, <2>12, <2>13
  <2>15. x1' \in Claude!Tabs /\ ~ x1'.loading /\ x2' = x2 /\ x4' = x4 /\ x1'.job = job
    BY <2>1, <2>3, <2>10, <2>11
  <2> QED
    BY <1>0, <2>5, <2>14, <2>15, ClaudeTab
<1>2. CASE Claude!VersionRead(c)
  <2>1. x1' = [x1 EXCEPT !.version = c.at # "failed"] /\ x3' = x3 \ {c} /\ UNCHANGED <<x2, x4>> /\ c.kind = "version"
    BY <1>2 DEF Claude!VersionRead
  <2>2. x1' \in Claude!Tabs /\ x1'.visit = x1.visit /\ x1'.job = x1.job /\ x1'.loading = x1.loading
    BY <1>0, <2>1 DEF Claude!Tabs
  <2> QED
    BY <1>0, <2>1, <2>2, ClaudeTab
<1>3. CASE Claude!Toggled(c)
  <2> DEFINE b == ~ c.ask
             v == x1.version /\ c.ask
             t == [x1 EXCEPT !.hide = b, !.version = v]
  <2>1. x1' = (IF c.at = "failed" THEN t ELSE x1) /\ x3' = x3 \ {c} /\ UNCHANGED <<x2, x4>> /\ c.kind = "toggle"
    BY <1>3 DEF Claude!Toggled
  <2>2. b \in BOOLEAN /\ v \in BOOLEAN
    OBVIOUS
  <2> HIDE DEF b, v
  <2>3. t \in Claude!Tabs
    BY <1>0, <2>2, Zenon DEF Claude!Tabs
  <2>4. t.visit = x1.visit /\ t.job = x1.job /\ t.loading = x1.loading
    BY <1>0 DEF Claude!Tabs
  <2> HIDE DEF t
  <2>5. x1' \in Claude!Tabs /\ x1'.visit = x1.visit /\ x1'.job = x1.job /\ x1'.loading = x1.loading
    BY <1>0, <2>1, <2>3, <2>4
  <2> QED
    BY <1>0, <2>1, <2>5, ClaudeTab
<1>4. CASE Claude!Started(c)
  <2> DEFINE j == [id |-> c.reply, status |-> "starting"]
             t == [x1 EXCEPT !.job = j]
  <2>1. c.kind = "start" /\ c.at # "sent" /\ x4' = x4 /\ x2' = IF c.at = "failed" THEN x2 ELSE c.reply
    BY <1>4 DEF Claude!Started
  <2>2. c.at # "failed" => c.reply \in DOMAIN x4.jobs /\ c.reply \in 0 .. MaxOwnJobs /\ c.reply # 0
    BY <1>a, <1>b, <2>1 DEF Claude!AnswerIsSound
  <2>3. \/ x1' = x1 /\ x3' = x3 \ {c}
        \/ c.at # "failed" /\ x1' = t /\ x3' = x3 \ {c}
        \/ c.at # "failed" /\ x1' = t /\ x3' = (Claude!NoPolls \ {c}) \cup Claude!PollOf(t)
    BY <1>4 DEF Claude!Started
  <2>4. ASSUME c.at # "failed"
        PROVE  t \in Claude!Tabs /\ t.visit = x1.visit /\ t.loading = x1.loading /\ t.job.id = c.reply
    <3>1. j \in [id : 0 .. MaxOwnJobs, status : {"none", "starting", "running"} \cup Claude!Over] /\ j.id = c.reply
      BY <2>2, <2>4
    <3> HIDE DEF j
    <3> QED
      BY <1>0, <3>1 DEF Claude!Tabs
  <2> HIDE DEF t
  <2>5. ASSUME c.at # "failed"
        PROVE  \A d \in Claude!PollOf(t) : Claude!IsCall(d) /\ d.at = "sent" /\ (d.kind = "poll" => d.ask \in DOMAIN x4.jobs)
    BY <2>2, <2>4, <2>5, ClaudePolls
  <2>6. \A d \in x3' : d \in x3 \/ (Claude!IsCall(d) /\ d.at = "sent" /\ (d.kind = "poll" => d.ask \in DOMAIN x4.jobs))
    BY <2>3, <2>5 DEF Claude!NoPolls
  <2>7. \A d \in x3 : d.kind = "load" => d \in x3'
    BY <2>1, <2>3 DEF Claude!NoPolls
  <2>8. /\ x1' \in Claude!Tabs /\ x1'.visit = x1.visit /\ x1'.loading = x1.loading /\ x2' \in 0 .. MaxOwnJobs
        /\ x1'.job.id # 0 => x2' # 0
        /\ \A id \in {x1'.job.id, x2'} : id # 0 => id \in DOMAIN x4.jobs
    BY <1>0, <2>1, <2>2, <2>3, <2>4
  <2> QED
    BY <1>0, <2>1, <2>6, <2>7, <2>8, ClaudeTab
<1>5. CASE Claude!Polled(c)
  <2> DEFINE j == IF c.reply = "404" THEN Claude!NoJob ELSE [id |-> x1.job.id, status |-> c.reply]
             t == IF c.at = "failed" THEN x1 ELSE [x1 EXCEPT !.job = j]
  <2>1. c.kind = "poll" /\ c.at # "sent" /\ x4' = x4 /\ x1' = t /\ x2' = IF c.at = "done" /\ c.reply = "404" THEN 0 ELSE x2
    BY <1>5 DEF Claude!Polled
  <2>2. x3' = IF t = x1 THEN x3 \ {c} ELSE Claude!NoPolls \cup (IF t.job.status = "running" THEN Claude!PollOf(t) ELSE {})
    BY <1>5 DEF Claude!Polled
  <2>3. c.at # "failed" => c.reply \in {"404", "running"} \cup Claude!Over
    BY <1>a, <2>1 DEF Claude!IsCall, Claude!CallsOf, Claude!AnswerIsSound
  <2>4. t \in Claude!Tabs /\ t.visit = x1.visit /\ t.loading = x1.loading
        /\ t.job.id = IF c.at = "done" /\ c.reply = "404" THEN 0 ELSE x1.job.id
    <3>1. CASE c.at = "failed"
      BY <1>0, <3>1
    <3>2. CASE c.at # "failed"
      <4>1. x1.job.id \in 0 .. MaxOwnJobs
        BY <1>0 DEF Claude!Tabs
      <4>2. j \in [id : 0 .. MaxOwnJobs, status : {"none", "starting", "running"} \cup Claude!Over]
            /\ j.id = IF c.reply = "404" THEN 0 ELSE x1.job.id
        BY <1>0, <2>3, <3>2, <4>1
      <4> HIDE DEF j
      <4> QED
        BY <1>0, <1>a, <2>1, <3>2, <4>2 DEF Claude!Tabs
    <3> QED
      BY <3>1, <3>2
  <2> HIDE DEF j, t
  <2>5. \A d \in Claude!PollOf(t) : Claude!IsCall(d) /\ d.at = "sent" /\ (d.kind = "poll" => d.ask \in DOMAIN x4.jobs)
    BY <1>0, <2>4, ClaudePolls
  <2>6. \A d \in x3' : d \in x3 \/ (Claude!IsCall(d) /\ d.at = "sent" /\ (d.kind = "poll" => d.ask \in DOMAIN x4.jobs))
    BY <2>2, <2>5 DEF Claude!NoPolls
  <2>7. \A d \in x3 : d.kind = "load" => d \in x3'
    BY <2>1, <2>2 DEF Claude!NoPolls
  <2>8. /\ x1' \in Claude!Tabs /\ x1'.visit = x1.visit /\ x1'.loading = x1.loading /\ x2' \in 0 .. MaxOwnJobs
        /\ x1'.job.id # 0 => x2' # 0
        /\ \A id \in {x1'.job.id, x2'} : id # 0 => id \in DOMAIN x4.jobs
    BY <1>0, <2>1, <2>4
  <2> QED
    BY <1>0, <2>1, <2>6, <2>7, <2>8, ClaudeTab
<1> QED
  BY <1>1, <1>2, <1>3, <1>4, <1>5

\* So does a request that the server answers.
LEMMA ClaudeServed == ASSUME Claude!IndInv, NEW c \in x3, Claude!Serve(c) PROVE Claude!IndInv'
<1>0. Claude!IsCall(c) /\ Claude!AnswerIsSound(c) /\ c.at = "sent" /\ UNCHANGED <<x1, x2>>
  BY DEF Claude!IndInv, Claude!TypeOK, Claude!AnswersAreSound, Claude!Serve
<1>1. PICK n \in 0 .. MaxOwnJobs :
        x4 \in [installed : BOOLEAN, hide : BOOLEAN, jobs : [1 .. n -> {"running"} \cup Claude!Over], known : Nat]
  BY DEF Claude!IndInv, Claude!TypeOK
<1>2. DOMAIN x4.jobs = 1 .. n /\ Claude!Cardinality(DOMAIN x4.jobs) = n /\ n \in Nat
  <2>1. DOMAIN x4.jobs = 1 .. n /\ n \in Nat
    BY <1>1, BoundAssumption
  <2>2. Cardinality(1 .. n) = n
    BY <2>1, FS_Interval
  <2> QED
    BY <2>1, <2>2, ClaudeCardinality
<1>3. ASSUME NEW d, x3' = (x3 \ {c}) \cup {d}, x4' = x4, Claude!IsCall(d), d.kind = c.kind, d.visit = c.visit, d.ask = c.ask,
             Claude!AnswerIsSound(d)
      PROVE  Claude!IndInv'
  <2>1. Claude!AnswerIsSound(d)'
    BY <1>3 DEF Claude!AnswerIsSound
  <2> QED
    BY <1>0, <1>1, <1>3, <2>1, ClaudeServes
<1>4. CASE x3' = (x3 \ {c}) \cup {[c EXCEPT !.at = "failed"]} /\ UNCHANGED x4
  <2> DEFINE d == [c EXCEPT !.at = "failed"]
  <2>1. Claude!IsCall(d) /\ d.kind = c.kind /\ d.visit = c.visit /\ d.ask = c.ask /\ d.at = "failed"
    BY <1>0 DEF Claude!IsCall, Claude!CallsOf
  <2> HIDE DEF d
  <2>2. x3' = (x3 \ {c}) \cup {d} /\ x4' = x4
    BY <1>4 DEF d
  <2> QED
    BY <1>0, <1>3, <2>1, <2>2 DEF Claude!AnswerIsSound
\* An answer of the request's kind.
<1>5. ASSUME NEW r, Claude!Answer(c, r), x4' = x4,
             \/ c.kind = "load" /\ r \in [installed : BOOLEAN, hide : BOOLEAN]
             \/ c.kind \in {"version", "toggle"} /\ r = "ok"
             \/ c.kind = "poll" /\ r \in {"404", "running"} \cup Claude!Over
      PROVE  Claude!IndInv'
  <2> DEFINE d == [c EXCEPT !.at = "done", !.reply = r]
  <2>1. Claude!IsCall(d) /\ d.kind = c.kind /\ d.visit = c.visit /\ d.ask = c.ask /\ d.at = "done" /\ d.reply = r
    <3>1. CASE c.kind = "load" /\ r \in [installed : BOOLEAN, hide : BOOLEAN]
      BY <1>0, <3>1 DEF Claude!IsCall, Claude!CallsOf
    <3>2. CASE c.kind \in {"version", "toggle"} /\ r = "ok"
      BY <1>0, <3>2 DEF Claude!IsCall, Claude!CallsOf
    <3>3. CASE c.kind = "poll" /\ r \in {"404", "running"} \cup Claude!Over
      BY <1>0, <3>3 DEF Claude!IsCall, Claude!CallsOf
    <3> QED
      BY <1>5, <3>1, <3>2, <3>3
  <2>2. r # None
    BY <1>5, NoneAssumption DEF Claude!Over
  <2>3. x3' = (x3 \ {c}) \cup {d}
    BY <1>5 DEF Claude!Answer
  <2> HIDE DEF d
  <2>4. Claude!AnswerIsSound(d)
    BY <1>0, <1>5, <2>1, <2>2 DEF Claude!AnswerIsSound
  <2> QED
    BY <1>3, <1>5, <2>1, <2>3, <2>4
<1>6. CASE c.kind = "load" /\ UNCHANGED x4 /\ Claude!Answer(c, [installed |-> x4.installed, hide |-> x4.hide])
  <2>1. [installed |-> x4.installed, hide |-> x4.hide] \in [installed : BOOLEAN, hide : BOOLEAN]
    BY <1>1
  <2> QED
    BY <1>5, <1>6, <2>1
<1>7. CASE c.kind = "version" /\ Claude!Answer(c, "ok") /\ UNCHANGED x4
  BY <1>5, <1>7
<1>8. CASE c.kind = "toggle" /\ Claude!Answer(c, "ok") /\ x4' = [x4 EXCEPT !.hide = c.ask]
  <2> DEFINE d == [c EXCEPT !.at = "done", !.reply = "ok"]
  <2>1. Claude!IsCall(d) /\ d.kind = "toggle" /\ d.visit = c.visit /\ d.ask = c.ask /\ d.at = "done" /\ d.reply = "ok"
    BY <1>0, <1>8 DEF Claude!IsCall, Claude!CallsOf
  <2>2. x3' = (x3 \ {c}) \cup {d}
    BY <1>8 DEF Claude!Answer
  <2>3. c.ask \in BOOLEAN
    BY <1>0, <1>8 DEF Claude!IsCall, Claude!CallsOf
  <2>4. x4' \in [installed : BOOLEAN, hide : BOOLEAN, jobs : [1 .. n -> {"running"} \cup Claude!Over], known : Nat] /\ x4'.jobs = x4.jobs
    BY <1>1, <1>8, <2>3
  <2> HIDE DEF d
  <2>5. Claude!AnswerIsSound(d)'
    BY <2>1, NoneAssumption DEF Claude!AnswerIsSound
  <2> QED
    BY <1>0, <1>8, <2>1, <2>2, <2>4, <2>5, ClaudeServes
<1>9. CASE c.kind = "poll" /\ Claude!Answer(c, IF c.ask >= x4.known THEN x4.jobs[c.ask] ELSE "404") /\ UNCHANGED x4
  <2> DEFINE r == IF c.ask >= x4.known THEN x4.jobs[c.ask] ELSE "404"
  <2>1. r \in {"404", "running"} \cup Claude!Over
    BY <1>0, <1>1, <1>2, <1>9 DEF Claude!AnswerIsSound
  <2>2. Claude!Answer(c, r)
    BY <1>9
  <2> HIDE DEF r
  <2> QED
    BY <1>5, <1>9, <2>1, <2>2
<1>10. CASE LET m == Claude!Cardinality(DOMAIN x4.jobs) + 1 IN
            /\ c.kind = "start" /\ m <= MaxOwnJobs /\ Claude!Answer(c, m)
            /\ x4' = [x4 EXCEPT !.jobs = [j \in 1 .. m |-> IF j = m THEN "running" ELSE x4.jobs[j]]]
  <2> DEFINE m == n + 1
             d == [c EXCEPT !.at = "done", !.reply = m]
             jobs == [j \in 1 .. m |-> IF j = m THEN "running" ELSE x4.jobs[j]]
  <2>0. m \in Nat /\ m = Claude!Cardinality(DOMAIN x4.jobs) + 1
    BY <1>2
  <2> HIDE DEF m
  <2>11. /\ c.kind = "start" /\ m <= MaxOwnJobs /\ Claude!Answer(c, m)
         /\ x4' = [x4 EXCEPT !.jobs = [j \in 1 .. m |-> IF j = m THEN "running" ELSE x4.jobs[j]]]
    BY <1>10, <2>0, Zenon
  <2>1. c.kind = "start" /\ m \in 0 .. MaxOwnJobs /\ m \in Nat /\ x3' = (x3 \ {c}) \cup {d} /\ x4' = [x4 EXCEPT !.jobs = jobs]
    BY <2>0, <2>11, BoundAssumption DEF Claude!Answer
  <2> USE DEF m
  <2>2. Claude!IsCall(d) /\ d.kind = "start" /\ d.visit = c.visit /\ d.ask = c.ask /\ d.at = "done" /\ d.reply = m
    BY <1>0, <2>1 DEF Claude!IsCall, Claude!CallsOf
  <2>3. jobs \in [1 .. m -> {"running"} \cup Claude!Over] /\ DOMAIN jobs = 1 .. m /\ m \in 1 .. m
    <3>1. ASSUME NEW j \in 1 .. m, j # m PROVE j \in 1 .. n
      BY <1>2, <3>1
    <3> QED
      BY <1>1, <1>2, <3>1
  <2>4. m # None
    BY <2>1, NoneAssumption
  <2>5. 1 .. n \subseteq 1 .. m
    BY <1>2
  <2> HIDE DEF d, jobs, m
  <2>6. /\ x4' \in [installed : BOOLEAN, hide : BOOLEAN, jobs : [1 .. m -> {"running"} \cup Claude!Over], known : Nat]
        /\ x4'.jobs = jobs
    BY <1>1, <2>1, <2>3
  <2>7. Claude!AnswerIsSound(d)'
    BY <2>2, <2>3, <2>4, <2>6 DEF Claude!AnswerIsSound
  <2>8. DOMAIN x4.jobs \subseteq DOMAIN x4'.jobs
    BY <1>2, <2>3, <2>5, <2>6
  <2> QED
    BY <1>0, <2>1, <2>2, <2>6, <2>7, <2>8, ClaudeServes
<1> QED
  BY <1>4, <1>6, <1>7, <1>8, <1>9, <1>10 DEF Claude!Serve

\* So do the jobs that the server runs.
LEMMA ClaudeBehind ==
    ASSUME Claude!IndInv, Claude!Forget \/ \E j \in DOMAIN x4.jobs : Claude!JobEnds(j)
    PROVE  Claude!IndInv'
<1>1. PICK n \in 0 .. MaxOwnJobs :
        x4 \in [installed : BOOLEAN, hide : BOOLEAN, jobs : [1 .. n -> {"running"} \cup Claude!Over], known : Nat]
  BY DEF Claude!IndInv, Claude!TypeOK
<1>2. DOMAIN x4.jobs = 1 .. n /\ Claude!Cardinality(DOMAIN x4.jobs) = n /\ n + 1 \in Nat
  <2>1. DOMAIN x4.jobs = 1 .. n /\ n \in Nat
    BY <1>1, BoundAssumption
  <2>2. Cardinality(1 .. n) = n
    BY <2>1, FS_Interval
  <2> QED
    BY <2>1, <2>2, ClaudeCardinality
<1>3. ASSUME UNCHANGED <<x1, x2, x3>>, DOMAIN x4'.jobs = DOMAIN x4.jobs,
             x4' \in [installed : BOOLEAN, hide : BOOLEAN, jobs : [1 .. n -> {"running"} \cup Claude!Over], known : Nat]
      PROVE  Claude!IndInv'
  <2>1. Claude!TypeOK'
    BY <1>3 DEF Claude!IndInv, Claude!TypeOK
  <2>2. Claude!AnswersAreSound'
    BY <1>3 DEF Claude!IndInv, Claude!AnswersAreSound, Claude!AnswerIsSound
  <2>3. Claude!NothingStuck' /\ Claude!JobIsKept' /\ Claude!IdsAreOfJobs'
    BY <1>3 DEF Claude!IndInv, Claude!NothingStuck, Claude!Waiting, Claude!Mine, Claude!JobIsKept, Claude!IdsAreOfJobs
  <2> QED
    BY <2>1, <2>2, <2>3 DEF Claude!IndInv
<1>4. CASE Claude!Forget
  <2> DEFINE jobs == [j \in DOMAIN x4.jobs |-> IF x4.jobs[j] = "running" THEN "failed" ELSE x4.jobs[j]]
  <2>1. jobs \in [1 .. n -> {"running"} \cup Claude!Over] /\ DOMAIN jobs = 1 .. n
    BY <1>1 DEF Claude!Over
  <2>2. x4' = [x4 EXCEPT !.known = n + 1, !.jobs = jobs] /\ UNCHANGED <<x1, x2, x3>>
    BY <1>2, <1>4 DEF Claude!Forget
  <2> HIDE DEF jobs
  <2>3. x4' \in [installed : BOOLEAN, hide : BOOLEAN, jobs : [1 .. n -> {"running"} \cup Claude!Over], known : Nat] /\ x4'.jobs = jobs
    BY <1>1, <1>2, <2>1, <2>2
  <2> QED
    BY <1>2, <1>3, <2>1, <2>2, <2>3
<1>5. ASSUME NEW j \in DOMAIN x4.jobs, NEW r \in Claude!Over, UNCHANGED <<x1, x2, x3>>,
             x4' = [x4 EXCEPT !.jobs[j] = r, !.installed = x4.installed \/ r = "ok"]
      PROVE  Claude!IndInv'
  <2> DEFINE jobs == [x4.jobs EXCEPT ![j] = r]
             b == x4.installed \/ r = "ok"
  <2>1. jobs \in [1 .. n -> {"running"} \cup Claude!Over] /\ DOMAIN jobs = 1 .. n
    BY <1>1, <1>2
  <2>2. b \in BOOLEAN
    OBVIOUS
  <2>3. x4' = [x4 EXCEPT !.jobs = jobs, !.installed = b]
    BY <1>1, <1>5
  <2> HIDE DEF jobs, b
  <2>4. x4' \in [installed : BOOLEAN, hide : BOOLEAN, jobs : [1 .. n -> {"running"} \cup Claude!Over], known : Nat]
    BY <1>1, <2>1, <2>2, <2>3, Zenon
  <2>5. x4'.jobs = jobs
    BY <1>1, <2>3
  <2> QED
    BY <1>2, <1>3, <1>5, <2>1, <2>4, <2>5
<1> QED
  BY <1>4, <1>5 DEF Claude!JobEnds

\* Every step keeps the invariant.
LEMMA ClaudeStep == ASSUME Claude!IndInv, Claude!Next PROVE Claude!IndInv'
BY ClaudeAsks, ClaudeLeaves, ClaudeAnswers, ClaudeServed, ClaudeBehind DEF Claude!Next

\* So does a step that leaves the variables of the part alone.
LEMMA ClaudeStill == ASSUME Claude!IndInv, UNCHANGED <<x1, x2, x3, x4>> PROVE Claude!IndInv'
<1>1. Claude!TypeOK' /\ Claude!AnswersAreSound'
  BY DEF Claude!IndInv, Claude!TypeOK, Claude!AnswersAreSound, Claude!AnswerIsSound
<1>2. Claude!NothingStuck' /\ Claude!JobIsKept' /\ Claude!IdsAreOfJobs'
  BY DEF Claude!IndInv, Claude!NothingStuck, Claude!Waiting, Claude!Mine, Claude!JobIsKept, Claude!IdsAreOfJobs
<1> QED
  BY <1>1, <1>2 DEF Claude!IndInv

\* A start that has its answer leaves with it stored, whatever the tab does.
LEMMA ClaudeNewest == ASSUME Claude!Next PROVE Claude!KeepsStart
<1>1. CASE Claude!Refresh \/ Claude!Toggle \/ Claude!Start \/ Claude!Poll \/ Claude!Forget \/ \E j \in DOMAIN x4.jobs : Claude!JobEnds(j)
  BY <1>1 DEF Claude!Refresh, Claude!Toggle, Claude!Start, Claude!Poll, Claude!Forget, Claude!JobEnds, Claude!KeepsStart
<1>2. CASE Claude!CloseJob \/ Claude!Reload \/ Claude!Visit
  BY <1>2 DEF Claude!CloseJob, Claude!Reload, Claude!Visit, Claude!NoPolls, Claude!KeepsStart
<1>3. ASSUME NEW c \in x3, Claude!VersionRead(c) \/ Claude!Toggled(c) PROVE Claude!KeepsStart
  BY <1>3 DEF Claude!VersionRead, Claude!Toggled, Claude!KeepsStart
<1>4. ASSUME NEW c \in x3, Claude!Loaded(c) PROVE Claude!KeepsStart
  <2>1. c.kind = "load" /\ \A d \in x3 : d.kind = "start" /\ d # c => d \in x3'
    BY <1>4 DEF Claude!Loaded, Claude!NoPolls
  <2> QED
    BY <2>1 DEF Claude!KeepsStart
<1>5. ASSUME NEW c \in x3, Claude!Started(c) PROVE Claude!KeepsStart
  <2>1. \A d \in x3 : d.kind = "start" /\ d # c => d \in x3'
    BY <1>5 DEF Claude!Started, Claude!NoPolls
  <2>2. c.at = "done" => x2' = c.reply
    BY <1>5 DEF Claude!Started
  <2> QED
    BY <2>1, <2>2 DEF Claude!KeepsStart
<1>6. ASSUME NEW c \in x3, Claude!Polled(c) PROVE Claude!KeepsStart
  <2>1. c.kind = "poll" /\ \A d \in x3 : d.kind = "start" /\ d # c => d \in x3'
    BY <1>6 DEF Claude!Polled, Claude!NoPolls
  <2> QED
    BY <2>1 DEF Claude!KeepsStart
<1>7. ASSUME NEW c \in x3, Claude!Serve(c) PROVE Claude!KeepsStart
  <2>1. c.at = "sent" /\ \A d \in x3 : d # c => d \in x3'
    BY <1>7 DEF Claude!Serve, Claude!Answer
  <2> QED
    BY <2>1 DEF Claude!KeepsStart
<1> QED
  BY <1>1, <1>2, <1>3, <1>4, <1>5, <1>6, <1>7 DEF Claude!Next

-----------------------------------------------------------------------------
(* The login of Claude Code: ClaudeLogin.                                  *)

\* The module's own operators on finite sets are the library's.
LEMMA LoginFinite == \A S : Login!Cardinality(S) = Cardinality(S) /\ Login!IsFiniteSet(S) = IsFiniteSet(S)
BY DEF Login!Cardinality, Login!IsFiniteSet, Cardinality, IsFiniteSet

\* The newest session has the number of how many there were.
LEMMA LoginCurrent ==
    ASSUME Login!TypeOK
    PROVE  /\ Login!Current \in 0 .. MaxStarts /\ Login!Current \in Nat /\ DOMAIN x4.sessions = 1 .. Login!Current
           /\ x4 \in [sessions : [1 .. Login!Current -> {"running", "in", "out"}], login : BOOLEAN]
<1>1. PICK n \in 0 .. MaxStarts : x4 \in [sessions : [1 .. n -> {"running", "in", "out"}], login : BOOLEAN]
  BY DEF Login!TypeOK
<1>2. n \in Nat /\ DOMAIN x4.sessions = 1 .. n
  BY <1>1, BoundAssumption
<1>3. Cardinality(1 .. n) = n
  BY <1>2, FS_Interval
<1>4. Login!Current = n
  BY <1>2, <1>3, LoginFinite DEF Login!Current
<1> QED
  BY <1>1, <1>2, <1>4

\* Requests stay finitely many, and those to start within the bound, when one or two are added.
LEMMA LoginRequests ==
    ASSUME Login!TypeOK, NEW a, NEW b, x3' \subseteq x3 \cup {a, b} PROVE Login!IsFiniteSet(x3')
<1>1. IsFiniteSet(x3)
  BY LoginFinite DEF Login!TypeOK
<1>2. IsFiniteSet((x3 \cup {a}) \cup {b})
  BY <1>1, FS_AddElement
<1>3. x3' \subseteq (x3 \cup {a}) \cup {b}
  OBVIOUS
<1>4. IsFiniteSet(x3')
  BY <1>2, <1>3, FS_Subset
<1> QED
  BY <1>4, LoginFinite

\* With the sessions there were and no more starts on their way, no start is
\* beyond the bound.
LEMMA LoginFits ==
    ASSUME Login!IndInv, DOMAIN x4'.sessions = DOMAIN x4.sessions, Login!Unserved' \subseteq Login!Unserved
    PROVE  Login!StartsFit'
<1>1. Login!Current' = Login!Current /\ Login!Current \in Nat
  BY LoginCurrent DEF Login!IndInv, Login!Current
<1>2. IsFiniteSet(x3) /\ Login!Unserved \subseteq x3
  BY LoginFinite DEF Login!IndInv, Login!TypeOK, Login!Unserved
<1>3. IsFiniteSet(Login!Unserved)
  BY <1>2, FS_Subset
<1>4. Cardinality(Login!Unserved') <= Cardinality(Login!Unserved) /\ Cardinality(Login!Unserved') \in Nat /\ Cardinality(Login!Unserved) \in Nat
  BY <1>3, Fewer
<1>5. Login!Current + Cardinality(Login!Unserved) <= MaxStarts
  BY LoginFinite DEF Login!IndInv, Login!StartsFit
<1>6. Login!Current' + Cardinality(Login!Unserved') <= MaxStarts
  BY <1>1, <1>4, <1>5, BoundAssumption
<1> QED
  BY <1>6, LoginFinite DEF Login!StartsFit

\* What the requests are when the panel becomes another.
LEMMA LoginBecomes ==
    ASSUME NEW p, NEW others, NEW poll, poll = [kind |-> "poll", session |-> p.session, mount |-> p.at, reply |-> "none"],
           NEW cancel, cancel = Login!Call("cancel", x1.session), Login!Becomes(p, others)
    PROVE  /\ x1' = p /\ x3' \subseteq others \cup {poll, cancel}
           /\ \A c \in others : c.kind # "poll" => c \in x3'
           /\ x1.session \notin {0, p.session} => cancel \in x3'
           /\ \A c \in x3' : \/ c \in others /\ (c.kind = "poll" => p.session = x1.session /\ p.phase = x1.phase)
                             \/ c = poll /\ p.phase = "running" /\ p.session # 0
                             \/ c = cancel /\ x1.session \notin {0, p.session}
BY DEF Login!Becomes

\* A panel that becomes another, of the same mount or gone, keeps the
\* invariant if what it gives up or no longer hears of was not running.
LEMMA LoginMoves ==
    ASSUME Login!IndInv, NEW p \in Login!Panels, NEW others, others \subseteq x3, Login!Becomes(p, others),
           UNCHANGED <<x2, x4>>, x5' \subseteq Login!Session, x5 \subseteq x5',
           IF p.phase = "idle" THEN p.session = 0 ELSE p.at # 0 /\ p.session \in DOMAIN x4.sessions,
           p.starting => \E c \in others : c.kind = "start" /\ c.mount = p.at,
           p.submitting => \E c \in others : c.kind = "code" /\ c.mount = p.at,
           \A c \in x3 \ others : c.kind \notin {"cancel", "logout"} /\ (c.kind = "start" /\ Login!Running(c.session) => c.session \in x5' \cup {p.session}),
           p.phase \in {"success", "failed", "expired"} => ~Login!Running(p.session)
    PROVE  Login!IndInv'
<1> DEFINE poll == [kind |-> "poll", session |-> p.session, mount |-> p.at, reply |-> "none"]
           cancel == Login!Call("cancel", x1.session)
<1>1. /\ x1' = p /\ x3' \subseteq others \cup {poll, cancel}
      /\ \A c \in others : c.kind # "poll" => c \in x3'
      /\ x1.session \notin {0, p.session} => cancel \in x3'
      /\ \A c \in x3' : \/ c \in others /\ (c.kind = "poll" => p.session = x1.session /\ p.phase = x1.phase)
                        \/ c = poll /\ p.phase = "running" /\ p.session # 0
                        \/ c = cancel /\ x1.session \notin {0, p.session}
  BY LoginBecomes
<1>2. /\ poll \in Login!Requests /\ poll.kind = "poll" /\ poll.session = p.session /\ poll.reply = "none"
      /\ cancel \in Login!Requests /\ cancel.kind = "cancel" /\ cancel.session = x1.session /\ cancel.reply = "none"
  BY DEF Login!IndInv, Login!TypeOK, Login!Panels, Login!Requests, Login!Call
<1> HIDE DEF poll, cancel
<1>3. Login!TypeOK'
  <2>1. x3' \subseteq x3 \cup {poll, cancel}
    BY <1>1
  <2>2. Login!IsFiniteSet(x3')
    BY <2>1, LoginRequests DEF Login!IndInv
  <2>3. x3' \subseteq Login!Requests
    BY <1>2, <2>1 DEF Login!IndInv, Login!TypeOK
  <2> QED
    BY <1>1, <2>2, <2>3 DEF Login!IndInv, Login!TypeOK
<1>4. Login!NothingStuck'
  BY <1>1 DEF Login!IndInv, Login!NothingStuck, Login!Mine
<1>5. \A s : Login!Running(s)' <=> Login!Running(s)
  BY DEF Login!Running
<1>6. Login!NothingLeftRunning'
  <2> SUFFICES ASSUME NEW s \in Login!Session, Login!Running(s)
               PROVE  p.session = s \/ s \in x5' \/ \E c \in x3' : c.kind \in {"start", "cancel"} /\ c.session = s
    BY <1>1, <1>5 DEF Login!NothingLeftRunning
  <2>1. CASE x1.session = s
    <3>1. s # 0
      BY BoundAssumption DEF Login!Session
    <3> QED
      BY <1>1, <1>2, <2>1, <3>1
  <2>2. CASE \E c \in x3 : c.kind \in {"start", "cancel"} /\ c.session = s
    <3>1. PICK c \in x3 : c.kind \in {"start", "cancel"} /\ c.session = s
      BY <2>2
    <3>2. c \notin others => s \in x5' \/ p.session = s
      BY <3>1
    <3>3. c \in others => c \in x3'
      BY <1>1, <3>1
    <3> QED
      BY <3>1, <3>2, <3>3
  <2> QED
    BY <2>1, <2>2 DEF Login!IndInv, Login!NothingLeftRunning
<1>7. Login!EndIsTrue' /\ Login!OnlyNewestRuns' /\ Login!PanelIsSound'
  BY <1>1, <1>5 DEF Login!IndInv, Login!EndIsTrue, Login!OnlyNewestRuns, Login!PanelIsSound, Login!Current
<1>8. Login!CallsAreSound'
  <2> SUFFICES ASSUME NEW c \in x3' PROVE Login!CallIsSound(c)'
    BY DEF Login!CallsAreSound
  <2>1. CASE c \in others /\ (c.kind = "poll" => p.session = x1.session /\ p.phase = x1.phase)
    BY <1>1, <1>5, <2>1 DEF Login!IndInv, Login!CallsAreSound, Login!CallIsSound
  <2>2. CASE c = poll /\ p.phase = "running" /\ p.session # 0
    BY <1>1, <1>2, <2>2 DEF Login!CallIsSound
  <2>3. CASE c = cancel /\ x1.session \notin {0, p.session}
    BY <1>1, <1>2, <2>3 DEF Login!IndInv, Login!PanelIsSound, Login!CallIsSound
  <2> QED
    BY <1>1, <2>1, <2>2, <2>3
<1>9. Login!Unserved' \subseteq Login!Unserved
  BY <1>1, <1>2 DEF Login!Unserved
<1>10. Login!StartsFit'
  BY <1>9, LoginFits
<1> QED
  BY <1>3, <1>4, <1>6, <1>7, <1>8, <1>10 DEF Login!IndInv

\* A panel that is reset cancels the session it shows.
LEMMA LoginReset == ASSUME Login!IndInv, Login!Reset PROVE Login!IndInv'
<1> DEFINE p == [x1 EXCEPT !.session = 0, !.phase = "idle"]
<1>1. x1 \in Login!Panels /\ 0 \in 0 .. MaxStarts
  BY BoundAssumption DEF Login!IndInv, Login!TypeOK
<1>2. p \in Login!Panels
  BY <1>1, Zenon DEF Login!Panels
<1>3. p.session = 0 /\ p.phase = "idle" /\ p.starting = x1.starting /\ p.submitting = x1.submitting /\ p.at = x1.at
  BY <1>1 DEF Login!Panels
<1>4. Login!Becomes(p, x3) /\ UNCHANGED <<x2, x4, x5>>
  BY DEF Login!Reset
<1>5. p.starting => \E c \in x3 : c.kind = "start" /\ c.mount = p.at
  BY <1>3 DEF Login!IndInv, Login!NothingStuck, Login!Mine
<1>6. p.submitting => \E c \in x3 : c.kind = "code" /\ c.mount = p.at
  BY <1>3 DEF Login!IndInv, Login!NothingStuck, Login!Mine
<1> HIDE DEF p
<1> QED
  BY <1>2, <1>3, <1>4, <1>5, <1>6, LoginMoves DEF Login!IndInv, Login!TypeOK

\* So does a panel that goes.
LEMMA LoginUnmount == ASSUME Login!IndInv, Login!Unmount PROVE Login!IndInv'
<1> DEFINE p == Login!Gone
<1>1. x1 \in Login!Panels /\ 0 \in 0 .. MaxStarts
  BY BoundAssumption DEF Login!IndInv, Login!TypeOK
<1>2. p \in Login!Panels
  BY <1>1, FALSE \in BOOLEAN, Zenon DEF Login!Panels, Login!Gone
<1>3. p.session = 0 /\ p.phase = "idle" /\ p.starting = FALSE /\ p.submitting = FALSE
  BY <1>1 DEF Login!Panels, Login!Gone
<1>4. Login!Becomes(p, x3) /\ UNCHANGED <<x2, x4, x5>>
  BY DEF Login!Unmount
<1> HIDE DEF p
<1> QED
  BY <1>2, <1>3, <1>4, LoginMoves DEF Login!IndInv, Login!TypeOK

\* An answer about a session that ended ends what the panel shows.
LEMMA LoginPolled == ASSUME Login!IndInv, NEW c \in x3, Login!Polled(c) PROVE Login!IndInv'
<1> DEFINE p == [x1 EXCEPT !.phase = Login!PhaseOf(c.reply)]
<1>1. x1 \in Login!Panels /\ x5 \subseteq Login!Session
  BY DEF Login!IndInv, Login!TypeOK
<1>2. c.kind = "poll" /\ Login!CallIsSound(c)
  BY DEF Login!Polled, Login!IndInv, Login!CallsAreSound
<1>3. Login!PhaseOf(c.reply) \in {"running", "success", "failed", "expired"}
  BY <1>2 DEF Login!PhaseOf, Login!CallIsSound
<1>4. Login!PhaseOf(c.reply) # "running" => c.reply \in {"in", "out", "404"}
  BY <1>2 DEF Login!PhaseOf, Login!CallIsSound
<1>5. /\ p \in Login!Panels /\ p.phase = Login!PhaseOf(c.reply) /\ p.session = x1.session
      /\ p.starting = x1.starting /\ p.submitting = x1.submitting /\ p.at = x1.at
  BY <1>1, <1>3 DEF Login!Panels
<1>6. Login!Becomes(p, x3 \ {c}) /\ UNCHANGED <<x2, x4, x5>>
  BY DEF Login!Polled
<1>7. p.starting => \E d \in x3 \ {c} : d.kind = "start" /\ d.mount = p.at
  BY <1>2, <1>5 DEF Login!IndInv, Login!NothingStuck, Login!Mine
<1>8. p.submitting => \E d \in x3 \ {c} : d.kind = "code" /\ d.mount = p.at
  BY <1>2, <1>5 DEF Login!IndInv, Login!NothingStuck, Login!Mine
<1>9. p.phase # "idle" /\ p.at # 0 /\ p.session \in DOMAIN x4.sessions
  BY <1>2, <1>3, <1>5 DEF Login!IndInv, Login!PanelIsSound, Login!CallIsSound
<1>10. p.phase \in {"success", "failed", "expired"} => ~Login!Running(p.session)
  BY <1>2, <1>4, <1>5 DEF Login!CallIsSound
<1>11. \A d \in x3 \ (x3 \ {c}) : d.kind \notin {"start", "cancel", "logout"}
  BY <1>2
<1> HIDE DEF p
<1> QED
  BY <1>1, <1>5, <1>6, <1>7, <1>8, <1>9, <1>10, <1>11, LoginMoves

\* The answer to a start gives the panel its session, or no panel.
LEMMA LoginStarted == ASSUME Login!IndInv, NEW c \in x3, Login!Started(c) PROVE Login!IndInv'
<1>1. x1 \in Login!Panels /\ x5 \subseteq Login!Session /\ c \in Login!Requests
  BY DEF Login!IndInv, Login!TypeOK
<1>2. c.kind = "start" /\ Login!CallIsSound(c) /\ c.reply # "none" /\ UNCHANGED <<x2, x4>>
  BY DEF Login!Started, Login!IndInv, Login!CallsAreSound
<1>3. c.reply = "ok" => c.session \in DOMAIN x4.sessions /\ c.session \in Login!Session
  BY <1>2, LoginCurrent, BoundAssumption DEF Login!CallIsSound, Login!IndInv, Login!Session
<1>4. c.reply # "ok" => ~Login!Running(c.session)
  <2>1. ~(0 \in DOMAIN x4.sessions)
    BY LoginCurrent DEF Login!IndInv
  <2> QED
    BY <1>2, <2>1 DEF Login!CallIsSound, Login!Running
<1>5. CASE ~Login!Mine(c)
  <2>1. x1' = x1 /\ x3' = x3 \ {c} /\ x5 \subseteq x5' /\ x5' \subseteq Login!Session /\ (c.reply = "ok" => c.session \in x5')
    BY <1>1, <1>2, <1>3, <1>5 DEF Login!Started
  <2>2. Login!TypeOK'
    <3>1. x3' \subseteq x3 \cup {c, c}
      BY <2>1
    <3>2. Login!IsFiniteSet(x3')
      BY <3>1, LoginRequests DEF Login!IndInv
    <3> QED
      BY <1>2, <2>1, <3>2 DEF Login!IndInv, Login!TypeOK
  <2>3. Login!NothingStuck'
    BY <1>2, <1>5, <2>1 DEF Login!IndInv, Login!NothingStuck, Login!Mine
  <2>4. Login!NothingLeftRunning'
    BY <1>2, <1>4, <2>1 DEF Login!IndInv, Login!NothingLeftRunning, Login!Running
  <2>5. Login!EndIsTrue' /\ Login!OnlyNewestRuns' /\ Login!PanelIsSound' /\ Login!CallsAreSound'
    BY <1>2, <2>1 DEF Login!IndInv, Login!EndIsTrue, Login!OnlyNewestRuns, Login!PanelIsSound, Login!Current, Login!Running, Login!CallsAreSound, Login!CallIsSound
  <2>6. Login!StartsFit'
    BY <1>2, <2>1, LoginFits DEF Login!Unserved
  <2> QED
    BY <2>2, <2>3, <2>4, <2>5, <2>6 DEF Login!IndInv
<1>6. ASSUME Login!Mine(c), NEW p \in Login!Panels, Login!Becomes(p, x3 \ {c}), x5' = x5,
             p.starting = FALSE, p.submitting = x1.submitting, p.at = x1.at,
             \/ c.reply = "ok" /\ p.session = c.session /\ p.phase = "running" /\ x1.at # 0
             \/ c.reply # "ok" /\ p.session = x1.session /\ p.phase = x1.phase
      PROVE  Login!IndInv'
  <2>1. IF p.phase = "idle" THEN p.session = 0 ELSE p.at # 0 /\ p.session \in DOMAIN x4.sessions
    BY <1>3, <1>6 DEF Login!IndInv, Login!PanelIsSound
  <2>2. p.submitting => \E d \in x3 \ {c} : d.kind = "code" /\ d.mount = p.at
    BY <1>2, <1>6 DEF Login!IndInv, Login!NothingStuck, Login!Mine
  <2>3. p.phase \in {"success", "failed", "expired"} => ~Login!Running(p.session)
    BY <1>6 DEF Login!IndInv, Login!EndIsTrue
  <2>4. \A d \in x3 \ (x3 \ {c}) : d.kind \notin {"cancel", "logout"} /\ (d.kind = "start" /\ Login!Running(d.session) => d.session \in x5' \cup {p.session})
    BY <1>2, <1>4, <1>6
  <2> QED
    BY <1>1, <1>2, <1>6, <2>1, <2>2, <2>3, <2>4, LoginMoves
<1>7. CASE Login!Mine(c) /\ c.reply = "ok"
  <2> DEFINE p == [x1 EXCEPT !.starting = FALSE, !.session = c.session, !.phase = "running"]
  <2>1. p \in Login!Panels
    BY <1>1, FALSE \in BOOLEAN, Zenon DEF Login!Panels, Login!Requests
  <2>2. p.starting = FALSE /\ p.submitting = x1.submitting /\ p.at = x1.at /\ p.session = c.session /\ p.phase = "running"
    BY <1>1 DEF Login!Panels
  <2>3. Login!Becomes(p, x3 \ {c}) /\ x5' = x5
    BY <1>7 DEF Login!Started
  <2>4. x1.at # 0
    BY <1>2, <1>7 DEF Login!Mine, Login!CallIsSound
  <2> HIDE DEF p
  <2> QED
    BY <1>6, <1>7, <2>1, <2>2, <2>3, <2>4
<1>8. CASE Login!Mine(c) /\ c.reply # "ok"
  <2> DEFINE p == [x1 EXCEPT !.starting = FALSE]
  <2>1. /\ p \in Login!Panels
        /\ p.starting = FALSE /\ p.submitting = x1.submitting /\ p.at = x1.at /\ p.session = x1.session /\ p.phase = x1.phase
    BY <1>1 DEF Login!Panels
  <2>2. Login!Becomes(p, x3 \ {c}) /\ x5' = x5
    BY <1>8 DEF Login!Started
  <2> HIDE DEF p
  <2> QED
    BY <1>6, <1>8, <2>1, <2>2
<1> QED
  BY <1>5, <1>7, <1>8

\* A panel asks after its session's state.
LEMMA LoginPoll == ASSUME Login!IndInv, Login!Poll PROVE Login!IndInv'
<1> USE BoundAssumption DEF Login!IndInv, Login!TypeOK, Login!Panels, Login!Requests, Login!Session, Login!Poll, Login!Call
<1>1. Login!TypeOK'
  <2>1. x1' \in Login!Panels
    OBVIOUS
  <2>2. x3' \subseteq Login!Requests
    OBVIOUS
  <2>3. Login!IsFiniteSet(x3')
    BY LoginRequests
  <2>4. x5' \subseteq Login!Session /\ x2' \in {"none", "closed", "asked", "busy"}
    BY DEF Login!CallsAreSound, Login!CallIsSound
  <2>5. \E n \in 0 .. MaxStarts : x4' \in [sessions : [1 .. n -> {"running", "in", "out"}], login : BOOLEAN]
    BY LoginCurrent
  <2> QED
    BY <2>1, <2>2, <2>3, <2>4, <2>5
<1>2. Login!NothingStuck'
  BY DEF Login!NothingStuck, Login!Mine
<1>3. Login!NothingLeftRunning'
  BY DEF Login!NothingLeftRunning, Login!Running, Login!CallsAreSound, Login!CallIsSound
<1>4. Login!EndIsTrue'
  BY DEF Login!EndIsTrue, Login!Running, Login!PanelIsSound, Login!CallsAreSound, Login!CallIsSound
<1>5. Login!OnlyNewestRuns'
  BY DEF Login!OnlyNewestRuns, Login!Running, Login!Current
<1>6. Login!PanelIsSound'
  BY DEF Login!PanelIsSound, Login!CallsAreSound, Login!CallIsSound
<1>7. Login!CallsAreSound'
  BY DEF Login!PanelIsSound, Login!CallsAreSound, Login!CallIsSound, Login!Running
<1>8. Login!StartsFit'
  BY LoginFits DEF Login!Unserved
<1> QED
  BY <1>1, <1>2, <1>3, <1>4, <1>5, <1>6, <1>7, <1>8

\* The answer to a code ends nothing that runs.
LEMMA LoginCodeAnswered == ASSUME Login!IndInv, NEW c \in x3, Login!CodeAnswered(c) PROVE Login!IndInv'
<1> USE BoundAssumption DEF Login!IndInv, Login!TypeOK, Login!Panels, Login!Requests, Login!Session, Login!CodeAnswered, Login!Mine
<1>1. Login!TypeOK'
  <2>1. x1' \in Login!Panels
    OBVIOUS
  <2>2. x3' \subseteq Login!Requests
    OBVIOUS
  <2>3. Login!IsFiniteSet(x3')
    BY LoginRequests
  <2>4. x5' \subseteq Login!Session /\ x2' \in {"none", "closed", "asked", "busy"}
    BY DEF Login!CallsAreSound, Login!CallIsSound
  <2>5. \E n \in 0 .. MaxStarts : x4' \in [sessions : [1 .. n -> {"running", "in", "out"}], login : BOOLEAN]
    BY LoginCurrent
  <2> QED
    BY <2>1, <2>2, <2>3, <2>4, <2>5
<1>2. Login!NothingStuck'
  BY DEF Login!NothingStuck, Login!Mine
<1>3. Login!NothingLeftRunning'
  BY DEF Login!NothingLeftRunning, Login!Running, Login!CallsAreSound, Login!CallIsSound
<1>4. Login!EndIsTrue'
  BY DEF Login!EndIsTrue, Login!Running, Login!PanelIsSound, Login!CallsAreSound, Login!CallIsSound
<1>5. Login!OnlyNewestRuns'
  BY DEF Login!OnlyNewestRuns, Login!Running, Login!Current
<1>6. Login!PanelIsSound'
  BY DEF Login!PanelIsSound, Login!CallsAreSound, Login!CallIsSound
<1>7. Login!CallsAreSound'
  BY DEF Login!PanelIsSound, Login!CallsAreSound, Login!CallIsSound, Login!Running
<1>8. Login!StartsFit'
  BY LoginFits DEF Login!Unserved
<1> QED
  BY <1>1, <1>2, <1>3, <1>4, <1>5, <1>6, <1>7, <1>8

\* Nor does the answer to a logout.
LEMMA LoginLoggedOut == ASSUME Login!IndInv, NEW c \in x3, Login!LoggedOut(c) PROVE Login!IndInv'
<1> USE BoundAssumption DEF Login!IndInv, Login!TypeOK, Login!Panels, Login!Requests, Login!Session, Login!LoggedOut
<1>1. Login!TypeOK'
  <2>1. x1' \in Login!Panels
    OBVIOUS
  <2>2. x3' \subseteq Login!Requests
    OBVIOUS
  <2>3. Login!IsFiniteSet(x3')
    BY LoginRequests
  <2>4. x5' \subseteq Login!Session /\ x2' \in {"none", "closed", "asked", "busy"}
    BY DEF Login!CallsAreSound, Login!CallIsSound
  <2>5. \E n \in 0 .. MaxStarts : x4' \in [sessions : [1 .. n -> {"running", "in", "out"}], login : BOOLEAN]
    BY LoginCurrent
  <2> QED
    BY <2>1, <2>2, <2>3, <2>4, <2>5
<1>2. Login!NothingStuck'
  BY DEF Login!NothingStuck, Login!Mine
<1>3. Login!NothingLeftRunning'
  BY DEF Login!NothingLeftRunning, Login!Running, Login!CallsAreSound, Login!CallIsSound
<1>4. Login!EndIsTrue'
  BY DEF Login!EndIsTrue, Login!Running, Login!PanelIsSound, Login!CallsAreSound, Login!CallIsSound
<1>5. Login!OnlyNewestRuns'
  BY DEF Login!OnlyNewestRuns, Login!Running, Login!Current
<1>6. Login!PanelIsSound'
  BY DEF Login!PanelIsSound, Login!CallsAreSound, Login!CallIsSound
<1>7. Login!CallsAreSound'
  BY DEF Login!PanelIsSound, Login!CallsAreSound, Login!CallIsSound, Login!Running
<1>8. Login!StartsFit'
  BY LoginFits DEF Login!Unserved
<1> QED
  BY <1>1, <1>2, <1>3, <1>4, <1>5, <1>6, <1>7, <1>8

\* A request for the panel or the button is one that it waits for.
LEMMA LoginAsks ==
    ASSUME Login!IndInv, NEW k \in {"start", "code", "logout"}, NEW m \in 0 .. MaxStarts, NEW s \in 0 .. MaxStarts,
           NEW d, d = [kind |-> k, session |-> s, mount |-> m, reply |-> "none"], x3' = x3 \cup {d},
           k = "start" => m # 0 /\ s = 0 /\ Login!Current + Cardinality({c \in x3 : c.kind = "start"}) < MaxStarts
    PROVE  /\ d \in Login!Requests /\ d.kind = k /\ d.session = s /\ d.mount = m /\ d.reply = "none"
           /\ x3' \subseteq Login!Requests /\ Login!IsFiniteSet(x3')
           /\ UNCHANGED <<x4>> => Login!StartsFit'
<1>1. d \in Login!Requests /\ d.kind = k /\ d.session = s /\ d.mount = m /\ d.reply = "none"
  BY DEF Login!Requests
<1>2. x3' \subseteq Login!Requests
  BY <1>1 DEF Login!IndInv, Login!TypeOK
<1>3. Login!IsFiniteSet(x3')
  <2>1. x3' \subseteq x3 \cup {d, d}
    OBVIOUS
  <2> QED
    BY <2>1, LoginRequests DEF Login!IndInv
<1>4. ASSUME UNCHANGED <<x4>> PROVE Login!StartsFit'
  <2>1. CASE k # "start"
    <3>1. Login!Unserved' \subseteq Login!Unserved
      BY <1>1, <2>1 DEF Login!Unserved
    <3> QED
      BY <1>4, <3>1, LoginFits
  <2>2. CASE k = "start"
    <3> DEFINE S == {c \in x3 : c.kind = "start"}
    <3>1. IsFiniteSet(x3) /\ S \subseteq x3
      BY LoginFinite DEF Login!IndInv, Login!TypeOK
    <3>2. IsFiniteSet(S)
      BY <3>1, FS_Subset
    <3>3. Login!Unserved' \subseteq S \cup {d}
      BY DEF Login!Unserved
    <3>4. Login!Current + Cardinality(S) < MaxStarts
      BY <2>2
    <3> HIDE DEF S
    <3>5. Cardinality(S \cup {d}) <= Cardinality(S) + 1 /\ IsFiniteSet(S \cup {d}) /\ Cardinality(S) \in Nat /\ Cardinality(S \cup {d}) \in Nat
      BY <3>2, OneMore
    <3>6. Cardinality(Login!Unserved') <= Cardinality(S \cup {d}) /\ Cardinality(Login!Unserved') \in Nat
      BY <3>3, <3>5, Fewer
    <3>7. Login!Current \in Nat /\ Login!Current' = Login!Current
      BY <1>4, LoginCurrent DEF Login!IndInv, Login!Current
    <3>8. Login!Current' + Cardinality(Login!Unserved') <= MaxStarts
      BY <3>4, <3>5, <3>6, <3>7, BoundAssumption
    <3> QED
      BY <3>8, LoginFinite DEF Login!StartsFit
  <2> QED
    BY <2>1, <2>2
<1> QED
  BY <1>1, <1>2, <1>3, <1>4

\* What is left when one request more is asked and the session stays as it is.
LEMMA LoginWaits ==
    ASSUME Login!IndInv, NEW k \in {"start", "code", "logout"}, NEW m \in 0 .. MaxStarts, NEW s \in 0 .. MaxStarts,
           NEW d, d = [kind |-> k, session |-> s, mount |-> m, reply |-> "none"], x3' = x3 \cup {d},
           k = "start" => m # 0 /\ s = 0 /\ Login!Current + Cardinality({c \in x3 : c.kind = "start"}) < MaxStarts,
           x1' \in Login!Panels, x1'.session = x1.session, x1'.phase = x1.phase, x1'.at = x1.at,
           x1'.starting => x1.starting \/ (k = "start" /\ m = x1.at),
           x1'.submitting => x1.submitting \/ (k = "code" /\ m = x1.at),
           x2' \in {"none", "closed", "asked", "busy"}, x2' = "busy" => x2 = "busy" \/ k = "logout",
           UNCHANGED <<x4, x5>>
    PROVE  Login!IndInv'
<1>1. d \in Login!Requests /\ d.kind = k /\ d.session = s /\ d.mount = m /\ d.reply = "none" /\ x3' \subseteq Login!Requests
  BY LoginAsks
<1>2. Login!IsFiniteSet(x3') /\ Login!StartsFit'
  BY ZenonT(60), LoginAsks
<1>3. Login!TypeOK'
  BY <1>1, <1>2 DEF Login!IndInv, Login!TypeOK
<1>4. Login!NothingStuck'
  BY <1>1 DEF Login!IndInv, Login!NothingStuck, Login!Mine
<1>5. Login!NothingLeftRunning' /\ Login!EndIsTrue'
  BY <1>1 DEF Login!IndInv, Login!NothingLeftRunning, Login!EndIsTrue, Login!Running
<1>6. Login!OnlyNewestRuns' /\ Login!PanelIsSound'
  BY DEF Login!IndInv, Login!OnlyNewestRuns, Login!PanelIsSound, Login!Current, Login!Running
<1>7. Login!CallsAreSound'
  <2> SUFFICES ASSUME NEW c \in x3' PROVE Login!CallIsSound(c)'
    BY DEF Login!CallsAreSound
  <2>1. CASE c \in x3
    BY <2>1 DEF Login!IndInv, Login!CallsAreSound, Login!CallIsSound, Login!Running
  <2>2. CASE c = d
    BY <1>1, <2>2 DEF Login!CallIsSound
  <2> QED
    BY <2>1, <2>2
<1> QED
  BY <1>2, <1>3, <1>4, <1>5, <1>6, <1>7 DEF Login!IndInv

\* A start is asked for of a panel that shows no session.
LEMMA LoginStart == ASSUME Login!IndInv, Login!Start PROVE Login!IndInv'
<1>1. x1 \in Login!Panels /\ x1' = [x1 EXCEPT !.starting = TRUE]
  BY DEF Login!Start, Login!IndInv, Login!TypeOK
<1>2. x1' \in Login!Panels /\ x1'.starting /\ x1'.submitting = x1.submitting /\ x1'.session = x1.session /\ x1'.phase = x1.phase /\ x1'.at = x1.at
  BY <1>1 DEF Login!Panels
<1>3. x1.at \in 0 .. MaxStarts /\ x1.at # 0 /\ 0 \in 0 .. MaxStarts
  BY <1>1, BoundAssumption DEF Login!Start, Login!Panels
<1>4. Login!Current + Cardinality({c \in x3 : c.kind = "start"}) < MaxStarts
  BY LoginFinite DEF Login!Start
<1>5. x3' = x3 \cup {[kind |-> "start", session |-> 0, mount |-> x1.at, reply |-> "none"]} /\ UNCHANGED <<x2, x4, x5>>
  BY DEF Login!Start, Login!Call
<1>6. x2' \in {"none", "closed", "asked", "busy"} /\ (x2' = "busy" => x2 = "busy")
  BY <1>5 DEF Login!IndInv, Login!TypeOK
<1> QED
  BY <1>2, <1>3, <1>4, <1>5, <1>6, LoginWaits

\* A code is submitted to the session that is shown.
LEMMA LoginSubmitCode == ASSUME Login!IndInv, Login!SubmitCode PROVE Login!IndInv'
<1>1. x1 \in Login!Panels /\ x1' = [x1 EXCEPT !.submitting = TRUE]
  BY DEF Login!SubmitCode, Login!IndInv, Login!TypeOK
<1>2. x1' \in Login!Panels /\ x1'.submitting /\ x1'.starting = x1.starting /\ x1'.session = x1.session /\ x1'.phase = x1.phase /\ x1'.at = x1.at
  BY <1>1 DEF Login!Panels
<1>3. x1.at \in 0 .. MaxStarts /\ x1.session \in 0 .. MaxStarts
  BY <1>1 DEF Login!Panels
<1>5. x3' = x3 \cup {[kind |-> "code", session |-> x1.session, mount |-> x1.at, reply |-> "none"]} /\ UNCHANGED <<x2, x4, x5>>
  BY DEF Login!SubmitCode, Login!Call
<1>6. x2' \in {"none", "closed", "asked", "busy"} /\ (x2' = "busy" => x2 = "busy")
  BY <1>5 DEF Login!IndInv, Login!TypeOK
<1> QED
  BY <1>2, <1>3, <1>5, <1>6, LoginWaits

\* A logout is asked for.
LEMMA LoginLogout == ASSUME Login!IndInv, Login!Logout PROVE Login!IndInv'
<1>1. x1 \in Login!Panels /\ UNCHANGED <<x1, x4, x5>> /\ x2' \in {"none", "closed", "asked", "busy"}
  BY DEF Login!Logout, Login!IndInv, Login!TypeOK
<1>2. CASE x2' = "busy" /\ x3' = x3 \cup {[Login!Call("logout", 0) EXCEPT !.mount = 0]}
  <2>1. x3' = x3 \cup {[kind |-> "logout", session |-> 0, mount |-> 0, reply |-> "none"]} /\ 0 \in 0 .. MaxStarts
    BY <1>2, BoundAssumption DEF Login!Call
  <2> QED
    BY <1>1, <2>1, LoginWaits
<1>3. CASE x2' # "busy" /\ UNCHANGED x3
  <2>1. Login!TypeOK' /\ Login!NothingStuck'
    BY <1>1, <1>3 DEF Login!IndInv, Login!TypeOK, Login!NothingStuck, Login!Mine
  <2>2. Login!NothingLeftRunning' /\ Login!EndIsTrue' /\ Login!OnlyNewestRuns' /\ Login!PanelIsSound' /\ Login!CallsAreSound' /\ Login!StartsFit'
    BY <1>1, <1>3 DEF Login!IndInv, Login!NothingLeftRunning, Login!EndIsTrue, Login!OnlyNewestRuns, Login!PanelIsSound, Login!CallsAreSound,
                      Login!CallIsSound, Login!StartsFit, Login!Unserved, Login!Running, Login!Current
  <2> QED
    BY <2>1, <2>2 DEF Login!IndInv
<1> QED
  BY <1>2, <1>3 DEF Login!Logout

\* A panel that is back starts with nothing of the one before.
LEMMA LoginMount == ASSUME Login!IndInv, Login!Mount PROVE Login!IndInv'
<1>1. x1 \in Login!Panels /\ UNCHANGED <<x3, x4, x5>> /\ x2' \in {"none", "closed", "asked", "busy"} /\ x2' # "busy" /\ x1.phase = "idle" /\ x1.session = 0
  BY DEF Login!Mount, Login!IndInv, Login!TypeOK, Login!PanelIsSound
<1>2. x1' = x1 \/ (x1' = Login!Idle(x1.mounts + 1) /\ x1.mounts < MaxStarts)
  BY DEF Login!Mount
<1>3. x1' \in Login!Panels /\ x1'.phase = "idle" /\ x1'.session = 0 /\ (x1' = x1 \/ (x1'.starting = FALSE /\ x1'.submitting = FALSE))
  <2>1. x1' = x1 \/ (x1' = Login!Idle(x1.mounts + 1) /\ x1.mounts + 1 \in 0 .. MaxStarts /\ 0 \in 0 .. MaxStarts)
    BY <1>1, <1>2, BoundAssumption DEF Login!Panels
  <2>2. CASE x1' = x1
    BY <1>1, <2>2
  <2>3. CASE x1' = Login!Idle(x1.mounts + 1) /\ x1.mounts + 1 \in 0 .. MaxStarts /\ 0 \in 0 .. MaxStarts
    <3>1. x1' \in Login!Panels
      BY <2>3, FALSE \in BOOLEAN, Zenon DEF Login!Idle, Login!Panels
    <3> QED
      BY <2>3, <3>1 DEF Login!Idle
  <2> QED
    BY <2>1, <2>2, <2>3
<1>4. Login!TypeOK' /\ Login!NothingStuck'
  BY <1>1, <1>3 DEF Login!IndInv, Login!TypeOK, Login!NothingStuck, Login!Mine
<1>5. Login!NothingLeftRunning'
  <2>1. \A s \in Login!Session : s # 0
    BY BoundAssumption DEF Login!Session
  <2> QED
    BY <1>1, <2>1 DEF Login!IndInv, Login!NothingLeftRunning, Login!Running
<1>6. Login!EndIsTrue' /\ Login!OnlyNewestRuns' /\ Login!PanelIsSound' /\ Login!CallsAreSound' /\ Login!StartsFit'
  BY <1>1, <1>3 DEF Login!IndInv, Login!EndIsTrue, Login!OnlyNewestRuns, Login!PanelIsSound, Login!CallsAreSound,
                    Login!CallIsSound, Login!StartsFit, Login!Unserved, Login!Running, Login!Current
<1> QED
  BY <1>4, <1>5, <1>6 DEF Login!IndInv

\* A cancel that is answered was of a session that is over.
LEMMA LoginCancelled == ASSUME Login!IndInv, NEW c \in x3, Login!Cancelled(c) PROVE Login!IndInv'
<1>1. c.kind = "cancel" /\ Login!CallIsSound(c) /\ c \in Login!Requests /\ x3' = x3 \ {c} /\ UNCHANGED <<x1, x2, x4>>
  BY DEF Login!Cancelled, Login!IndInv, Login!TypeOK, Login!CallsAreSound
<1>2. c.session \in Login!Session
  BY <1>1, LoginCurrent, BoundAssumption DEF Login!CallIsSound, Login!IndInv, Login!Session
<1>3. x5 \subseteq x5' /\ x5' \subseteq Login!Session /\ (Login!Running(c.session) => c.session \in x5')
  <2>1. x5' = x5 \cup {c.session} \/ (c.reply = "ok" /\ x5' = x5)
    BY <1>1 DEF Login!Cancelled, Login!Requests, Login!CallIsSound
  <2> QED
    BY <1>1, <1>2, <2>1 DEF Login!IndInv, Login!TypeOK, Login!CallIsSound
<1>4. Login!TypeOK'
  <2>1. x3' \subseteq x3 \cup {c, c}
    BY <1>1
  <2>2. Login!IsFiniteSet(x3')
    BY <2>1, LoginRequests DEF Login!IndInv
  <2> QED
    BY <1>1, <1>3, <2>2 DEF Login!IndInv, Login!TypeOK
<1>5. Login!NothingStuck'
  BY <1>1 DEF Login!IndInv, Login!NothingStuck, Login!Mine
<1>6. Login!NothingLeftRunning'
  BY <1>1, <1>3 DEF Login!IndInv, Login!NothingLeftRunning, Login!Running
<1>7. Login!EndIsTrue' /\ Login!OnlyNewestRuns' /\ Login!PanelIsSound' /\ Login!CallsAreSound'
  BY <1>1 DEF Login!IndInv, Login!EndIsTrue, Login!OnlyNewestRuns, Login!PanelIsSound, Login!CallsAreSound,
              Login!CallIsSound, Login!Running, Login!Current
<1>8. Login!StartsFit'
  BY <1>1, LoginFits DEF Login!Unserved
<1> QED
  BY <1>4, <1>5, <1>6, <1>7, <1>8 DEF Login!IndInv

\* An answer, of which only what is asked for matters.
LEMMA LoginAnswers ==
    ASSUME Login!IndInv, NEW c \in x3, NEW d \in Login!Requests, d.kind = c.kind, d.mount = c.mount, d.reply # "none",
           x3' = (x3 \ {c}) \cup {d}, UNCHANGED <<x1, x2>>
    PROVE  /\ x3' \subseteq Login!Requests /\ Login!IsFiniteSet(x3')
           /\ Login!NothingStuck' /\ Login!Unserved' \subseteq Login!Unserved \ {c}
<1>1. x3 \subseteq Login!Requests
  BY DEF Login!IndInv, Login!TypeOK
<1>2. Login!IsFiniteSet(x3')
  <2>1. x3' \subseteq x3 \cup {d, d}
    OBVIOUS
  <2> QED
    BY <2>1, LoginRequests DEF Login!IndInv
<1>3. Login!NothingStuck'
  <2>1. \A e \in x3 : \E f \in x3' : f.kind = e.kind /\ f.mount = e.mount
    OBVIOUS
  <2> QED
    BY <2>1 DEF Login!IndInv, Login!NothingStuck, Login!Mine
<1>4. Login!Unserved' \subseteq Login!Unserved \ {c}
  BY DEF Login!Unserved
<1> QED
  BY <1>1, <1>2, <1>3, <1>4

\* The sessions there are change only from running to ended.
LEMMA LoginServes ==
    ASSUME Login!IndInv, NEW c \in x3, c.reply = "none", NEW r \in {"ok", "failed", "404", "running", "in", "out"},
           Login!Answer(c, r, c.session), UNCHANGED <<x1, x2, x5>>,
           NEW n \in 0 .. MaxStarts, x4' \in [sessions : [1 .. n -> {"running", "in", "out"}], login : BOOLEAN],
           DOMAIN x4'.sessions = DOMAIN x4.sessions, \A s : Login!Running(s)' => Login!Running(s),
           c.kind = "start" => r = "failed", c.kind = "cancel" => r = "failed" \/ (r = "ok" /\ ~Login!Running(c.session)'),
           c.kind = "poll" /\ r \in {"in", "out", "404"} => ~Login!Running(c.session)'
    PROVE  Login!IndInv'
<1> DEFINE d == [c EXCEPT !.reply = r, !.session = c.session]
<1>1. c.session \in 0 .. MaxStarts
  BY DEF Login!IndInv, Login!TypeOK, Login!Requests
<1>2. /\ d \in Login!Requests /\ d.kind = c.kind /\ d.mount = c.mount /\ d.reply = r /\ d.session = c.session
      /\ x3' = (x3 \ {c}) \cup {d} /\ x3' \subseteq Login!Requests /\ Login!IsFiniteSet(x3')
      /\ Login!NothingStuck' /\ Login!Unserved' \subseteq Login!Unserved \ {c}
  <2>1. d \in Login!Requests
    BY <1>1, Zenon DEF Login!IndInv, Login!TypeOK, Login!Requests
  <2>2. d.kind = c.kind /\ d.mount = c.mount /\ d.reply = r /\ d.session = c.session
    BY DEF Login!IndInv, Login!TypeOK, Login!Requests
  <2>3. x3' = (x3 \ {c}) \cup {d}
    BY DEF Login!Answer
  <2> HIDE DEF d
  <2> QED
    BY <2>1, <2>2, <2>3, LoginAnswers
<1> HIDE DEF d
<1>3. Login!TypeOK'
  BY <1>2 DEF Login!IndInv, Login!TypeOK
<1>4. Login!NothingLeftRunning'
  BY <1>2 DEF Login!IndInv, Login!NothingLeftRunning
<1>5. Login!EndIsTrue' /\ Login!OnlyNewestRuns' /\ Login!PanelIsSound'
  BY DEF Login!IndInv, Login!EndIsTrue, Login!OnlyNewestRuns, Login!PanelIsSound, Login!Current
<1>6. Login!CallsAreSound'
  <2> SUFFICES ASSUME NEW e \in x3' PROVE Login!CallIsSound(e)'
    BY DEF Login!CallsAreSound
  <2>1. CASE e \in x3
    BY <2>1 DEF Login!IndInv, Login!CallsAreSound, Login!CallIsSound
  <2>2. CASE e = d
    BY <1>2, <2>2 DEF Login!IndInv, Login!CallsAreSound, Login!CallIsSound
  <2> QED
    BY <1>2, <2>1, <2>2
<1>7. Login!StartsFit'
  BY <1>2, LoginFits
<1> QED
  BY <1>2, <1>3, <1>4, <1>5, <1>6, <1>7 DEF Login!IndInv

\* A start kills what still runs, and takes the place of what was asked.
LEMMA LoginStartServed ==
    ASSUME Login!IndInv, NEW c \in x3, c.reply = "none", c.kind = "start", Login!StartServed(c), UNCHANGED <<x1, x2, x5>>
    PROVE  Login!IndInv'
<1> DEFINE n == Login!Current + 1
           d == [c EXCEPT !.reply = "ok", !.session = n]
<1>1. /\ Login!Current \in Nat /\ DOMAIN x4.sessions = 1 .. Login!Current
      /\ x4 \in [sessions : [1 .. Login!Current -> {"running", "in", "out"}], login : BOOLEAN]
  BY LoginCurrent DEF Login!IndInv
<1>2. Login!IsFiniteSet(x3) /\ c \in Login!Unserved /\ Login!Unserved \subseteq x3
  BY DEF Login!IndInv, Login!TypeOK, Login!Unserved
<1>3. IsFiniteSet(Login!Unserved)
  BY <1>2, LoginFinite, FS_Subset
<1>4. IsFiniteSet(Login!Unserved \ {c}) /\ Cardinality(Login!Unserved \ {c}) \in Nat /\ Cardinality(Login!Unserved) \in Nat
      /\ Cardinality(Login!Unserved \ {c}) = Cardinality(Login!Unserved) - 1
  BY <1>2, <1>3, OneLess
<1>5. Login!Current + Cardinality(Login!Unserved) <= MaxStarts
  BY LoginFinite DEF Login!IndInv, Login!StartsFit
<1>6. n \in 1 .. MaxStarts /\ n \in 0 .. MaxStarts /\ n \in Nat
  BY <1>1, <1>4, <1>5, BoundAssumption
<1>7. Login!Answer(c, "ok", n)
  BY DEF Login!StartServed
<1>8. /\ d \in Login!Requests /\ d.kind = "start" /\ d.mount = c.mount /\ d.reply = "ok" /\ d.session = n
      /\ x3' = (x3 \ {c}) \cup {d} /\ x3' \subseteq Login!Requests /\ Login!IsFiniteSet(x3')
      /\ Login!NothingStuck' /\ Login!Unserved' \subseteq Login!Unserved \ {c}
  <2> HIDE DEF n
  <2>1. c \in Login!Requests
    BY DEF Login!IndInv, Login!TypeOK
  <2>2. d \in Login!Requests
    BY <1>6, <2>1, "ok" \in {"none", "ok", "failed", "404", "running", "in", "out"}, Zenon DEF Login!Requests
  <2>3. d.kind = "start" /\ d.mount = c.mount /\ d.reply = "ok" /\ d.session = n
    BY <2>1 DEF Login!Requests
  <2>4. x3' = (x3 \ {c}) \cup {d}
    BY <1>7 DEF Login!Answer
  <2> HIDE DEF d
  <2> QED
    BY <2>2, <2>3, <2>4, LoginAnswers
<1> DEFINE f == [s \in 1 .. n |-> IF s = n THEN "running" ELSE IF x4.sessions[s] = "running" THEN "out" ELSE x4.sessions[s]]
<1>9. x4' = [x4 EXCEPT !.sessions = f]
  BY DEF Login!StartServed
<1>10. f \in [1 .. n -> {"running", "in", "out"}] /\ DOMAIN f = 1 .. n /\ (\A s \in 1 .. n : f[s] = "running" <=> s = n)
  <2>1. \A s \in 1 .. n : s # n => s \in 1 .. Login!Current
    BY <1>1
  <2>2. \A s \in 1 .. Login!Current : x4.sessions[s] \in {"running", "in", "out"}
    BY <1>1
  <2> QED
    BY <2>1, <2>2
<1>11. DOMAIN x4.sessions \subseteq 1 .. n /\ n \notin DOMAIN x4.sessions /\ n \in 1 .. n
  BY <1>1
<1> HIDE DEF d, f, n
<1>12. x4' \in [sessions : [1 .. n -> {"running", "in", "out"}], login : BOOLEAN] /\ x4'.sessions = f
  BY <1>1, <1>9, <1>10
<1>13. \A s : Login!Running(s)' <=> s = n
  BY <1>10, <1>11, <1>12 DEF Login!Running
<1>14. Login!Current' = n
  <2>1. Cardinality(1 .. n) = n
    BY <1>6, FS_Interval
  <2> QED
    BY <1>10, <1>12, <2>1, LoginFinite DEF Login!Current
<1>15. Login!TypeOK'
  BY <1>6, <1>8, <1>12 DEF Login!IndInv, Login!TypeOK
<1>16. Login!NothingLeftRunning'
  BY <1>8, <1>13 DEF Login!NothingLeftRunning
<1>17. Login!EndIsTrue' /\ Login!OnlyNewestRuns' /\ Login!PanelIsSound'
  BY <1>10, <1>11, <1>12, <1>13, <1>14 DEF Login!IndInv, Login!EndIsTrue, Login!OnlyNewestRuns, Login!PanelIsSound
<1>18. Login!CallsAreSound'
  <2> SUFFICES ASSUME NEW e \in x3' PROVE Login!CallIsSound(e)'
    BY DEF Login!CallsAreSound
  <2>1. CASE e \in x3
    <3>1. Login!CallIsSound(e) /\ (x1.phase = "running" => x1.session \in DOMAIN x4.sessions)
      BY <2>1 DEF Login!IndInv, Login!CallsAreSound, Login!PanelIsSound
    <3>2. DOMAIN x4'.sessions = 1 .. n
      BY <1>10, <1>12
    <3> QED
      BY <1>11, <1>13, <3>1, <3>2 DEF Login!CallIsSound
  <2>2. CASE e = d
    BY <1>8, <1>10, <1>11, <1>12, <2>2 DEF Login!IndInv, Login!CallsAreSound, Login!CallIsSound
  <2> QED
    BY <1>8, <2>1, <2>2
<1>19. Login!StartsFit'
  <2>1. Cardinality(Login!Unserved') <= Cardinality(Login!Unserved \ {c}) /\ Cardinality(Login!Unserved') \in Nat
    BY <1>4, <1>8, Fewer
  <2>2. Login!Current' + Cardinality(Login!Unserved') <= MaxStarts
    BY <1>1, <1>4, <1>5, <1>14, <2>1, BoundAssumption DEF n
  <2> QED
    BY <2>2, LoginFinite DEF Login!StartsFit
<1> QED
  BY <1>8, <1>15, <1>16, <1>17, <1>18, <1>19 DEF Login!IndInv

\* One of the manager's sessions ends.
LEMMA LoginEnds ==
    ASSUME Login!TypeOK, NEW r \in {"in", "out"}, Login!Running(Login!Current), x4' \in [sessions : {[x4.sessions EXCEPT ![Login!Current] = r]}, login : BOOLEAN]
    PROVE  /\ x4' \in [sessions : [1 .. Login!Current -> {"running", "in", "out"}], login : BOOLEAN]
           /\ DOMAIN x4'.sessions = DOMAIN x4.sessions /\ ~Login!Running(Login!Current)' /\ Login!Current \in 0 .. MaxStarts
           /\ \A s : Login!Running(s)' => Login!Running(s)
<1>1. /\ Login!Current \in 0 .. MaxStarts /\ DOMAIN x4.sessions = 1 .. Login!Current
      /\ x4 \in [sessions : [1 .. Login!Current -> {"running", "in", "out"}], login : BOOLEAN]
  BY LoginCurrent
<1>2. Login!Current' = Login!Current
  BY <1>1 DEF Login!Current
<1>3. Login!Current \in DOMAIN x4.sessions
  BY DEF Login!Running
<1>4. x4'.sessions \in [1 .. Login!Current -> {"running", "in", "out"}] /\ DOMAIN x4'.sessions = DOMAIN x4.sessions /\ x4' \in [sessions : {x4'.sessions}, login : BOOLEAN]
  BY <1>1
<1>5. ~Login!Running(Login!Current)' /\ \A s : Login!Running(s)' => Login!Running(s)
  BY <1>1, <1>2, <1>3 DEF Login!Running
<1> QED
  BY <1>1, <1>4, <1>5

\* The server answers a request.
LEMMA LoginServe == ASSUME Login!IndInv, NEW c \in x3, Login!Serve(c) PROVE Login!IndInv'
<1>1. c.reply = "none" /\ UNCHANGED <<x1, x2, x5>> /\ c \in Login!Requests /\ Login!CallIsSound(c)
  BY DEF Login!Serve, Login!IndInv, Login!TypeOK, Login!CallsAreSound
<1>2. /\ Login!Current \in 0 .. MaxStarts /\ DOMAIN x4.sessions = 1 .. Login!Current
      /\ x4 \in [sessions : [1 .. Login!Current -> {"running", "in", "out"}], login : BOOLEAN]
  BY LoginCurrent DEF Login!IndInv
<1>3. \A s : Login!Running(s) => s = Login!Current
  BY <1>2, BoundAssumption DEF Login!IndInv, Login!OnlyNewestRuns, Login!Running, Login!Session
<1>4. ASSUME NEW r \in {"ok", "failed", "404", "running", "in", "out"}, Login!Answer(c, r, c.session), UNCHANGED x4,
             c.kind = "start" => r = "failed", c.kind = "cancel" => r = "failed" \/ (r = "ok" /\ ~Login!Running(c.session)),
             c.kind = "poll" /\ r \in {"in", "out", "404"} => ~Login!Running(c.session)
      PROVE  Login!IndInv'
  <2>1. \A s : Login!Running(s)' <=> Login!Running(s)
    BY <1>4 DEF Login!Running
  <2>2. x4' \in [sessions : [1 .. Login!Current -> {"running", "in", "out"}], login : BOOLEAN] /\ DOMAIN x4'.sessions = DOMAIN x4.sessions
    BY <1>2, <1>4
  <2> HIDE DEF Login!Running
  <2> QED
    BY <1>1, <1>2, <1>4, <2>1, <2>2, LoginServes
<1>5. CASE Login!Answer(c, "failed", c.session) /\ UNCHANGED x4
  BY <1>4, <1>5
<1>6. CASE c.kind = "start" /\ Login!StartServed(c)
  BY <1>1, <1>6, LoginStartServed
<1>7. CASE c.kind = "poll" /\ Login!Answer(c, IF c.session = Login!Current THEN x4.sessions[Login!Current] ELSE "404", c.session) /\ UNCHANGED x4
  <2> DEFINE r == IF c.session = Login!Current THEN x4.sessions[Login!Current] ELSE "404"
  <2>1. c.session \in DOMAIN x4.sessions
    BY <1>1, <1>7 DEF Login!CallIsSound, Login!IndInv, Login!PanelIsSound
  <2>2. r \in {"404", "running", "in", "out"} /\ (r \in {"in", "out", "404"} => ~Login!Running(c.session))
    BY <1>2, <1>3, <2>1 DEF Login!Running
  <2>3. Login!Answer(c, r, c.session)
    BY <1>7
  <2> HIDE DEF r
  <2> QED
    BY <1>4, <1>7, <2>2, <2>3
<1>8. CASE c.kind = "code" /\ Login!Answer(c, IF c.session = Login!Current /\ Login!Running(Login!Current) THEN "ok" ELSE "failed", c.session) /\ UNCHANGED x4
  BY <1>4, <1>8
<1>9. CASE c.kind = "cancel" /\ Login!CancelServed(c)
  <2>1. CASE c.session = Login!Current /\ Login!Running(Login!Current)
    <3>1. x4' = [x4 EXCEPT !.sessions[Login!Current] = "out"] /\ Login!Answer(c, "ok", c.session)
      BY <1>9, <2>1 DEF Login!CancelServed
    <3>2. x4' \in [sessions : {[x4.sessions EXCEPT ![Login!Current] = "out"]}, login : BOOLEAN]
      BY <1>2, <3>1
    <3>3. /\ x4' \in [sessions : [1 .. Login!Current -> {"running", "in", "out"}], login : BOOLEAN]
          /\ DOMAIN x4'.sessions = DOMAIN x4.sessions /\ \A s : Login!Running(s)' => Login!Running(s)
      BY <2>1, <3>2, LoginEnds DEF Login!IndInv
    <3>4. ~Login!Running(Login!Current)'
      BY <2>1, <3>2, LoginEnds DEF Login!IndInv
    <3>5. Login!Current' = Login!Current
      BY <3>3 DEF Login!Current
    <3>6. ~Login!Running(c.session)'
      BY <2>1, <3>4, <3>5 DEF Login!Running
    <3> QED
      BY <1>1, <1>2, <1>9, <3>1, <3>3, <3>6, LoginServes
  <2>2. CASE ~(c.session = Login!Current /\ Login!Running(Login!Current))
    <3>1. Login!Answer(c, "ok", c.session) /\ UNCHANGED x4 /\ ~Login!Running(c.session)
      BY <1>3, <1>9, <2>2 DEF Login!CancelServed
    <3> QED
      BY <1>4, <1>9, <3>1
  <2> QED
    BY <2>1, <2>2
<1>10. CASE c.kind = "logout" /\ Login!Answer(c, "ok", 0) /\ x4' = [x4 EXCEPT !.login = FALSE]
  <2> DEFINE d == [c EXCEPT !.reply = "ok", !.session = 0]
  <2>1. d \in Login!Requests
    <3>1. 0 \in 0 .. MaxStarts
      BY BoundAssumption
    <3> QED
      BY <1>1, <3>1, "ok" \in {"none", "ok", "failed", "404", "running", "in", "out"}, Zenon DEF Login!Requests
  <2>9. d.kind = c.kind /\ d.mount = c.mount /\ d.reply = "ok" /\ d.session = 0 /\ x3' = (x3 \ {c}) \cup {d}
    BY <1>1, <1>10 DEF Login!Requests, Login!Answer
  <2> HIDE DEF d
  <2>2. /\ d \in Login!Requests /\ d.kind = c.kind /\ d.mount = c.mount /\ d.reply = "ok" /\ d.session = 0
        /\ x3' = (x3 \ {c}) \cup {d} /\ x3' \subseteq Login!Requests /\ Login!IsFiniteSet(x3')
        /\ Login!NothingStuck' /\ Login!Unserved' \subseteq Login!Unserved \ {c}
    BY <1>1, <2>1, <2>9, LoginAnswers
  <2>3. x4' \in [sessions : [1 .. Login!Current -> {"running", "in", "out"}], login : BOOLEAN] /\ x4'.sessions = x4.sessions
    BY <1>2, <1>10
  <2>4. \A s : Login!Running(s)' <=> Login!Running(s)
    BY <2>3 DEF Login!Running
  <2>5. Login!TypeOK'
    BY <1>1, <1>2, <2>2, <2>3 DEF Login!IndInv, Login!TypeOK
  <2>6. Login!NothingLeftRunning' /\ Login!EndIsTrue' /\ Login!OnlyNewestRuns' /\ Login!PanelIsSound'
    BY <1>1, <1>10, <2>2, <2>3, <2>4 DEF Login!IndInv, Login!NothingLeftRunning, Login!EndIsTrue, Login!OnlyNewestRuns, Login!PanelIsSound, Login!Current
  <2>7. Login!CallsAreSound'
    BY <1>1, <1>10, <2>2, <2>3, <2>4 DEF Login!IndInv, Login!CallsAreSound, Login!CallIsSound
  <2>8. Login!StartsFit'
    BY <2>2, <2>3, LoginFits
  <2> QED
    BY <2>2, <2>5, <2>6, <2>7, <2>8 DEF Login!IndInv
<1> QED
  BY <1>5, <1>6, <1>7, <1>8, <1>9, <1>10 DEF Login!Serve

\* An answer that is lost says nothing, and a start that it was of is lost.
LEMMA LoginAnswerLost == ASSUME Login!IndInv, NEW c \in x3, Login!AnswerLost(c) PROVE Login!IndInv'
<1> DEFINE t == IF c.kind = "start" THEN 0 ELSE c.session
           d == [c EXCEPT !.reply = "failed", !.session = t]
<1>1. c \in Login!Requests /\ c.reply # "none" /\ UNCHANGED <<x1, x2, x4>> /\ Login!CallIsSound(c) /\ t \in 0 .. MaxStarts
  BY BoundAssumption DEF Login!AnswerLost, Login!IndInv, Login!TypeOK, Login!CallsAreSound, Login!Requests
<1>2. x3' = (x3 \ {c}) \cup {d}
  BY DEF Login!AnswerLost, Login!Answer
<1>3. c.kind = "start" => t = 0 /\ x5' = x5 \cup {c.session} /\ c.session \in Login!Session
  <2>1. c.kind = "start" => c.session \in DOMAIN x4.sessions
    BY <1>1 DEF Login!AnswerLost, Login!CallIsSound
  <2> QED
    BY <2>1, LoginCurrent, BoundAssumption DEF Login!AnswerLost, Login!IndInv, Login!Session
<1>4. c.kind # "start" => t = c.session /\ x5' = x5
  BY DEF Login!AnswerLost
<1>5. d \in Login!Requests /\ d.kind = c.kind /\ d.mount = c.mount /\ d.reply = "failed" /\ d.session = t
  <2> HIDE DEF t
  <2>1. d \in Login!Requests
    BY <1>1, "failed" \in {"none", "ok", "failed", "404", "running", "in", "out"}, Zenon DEF Login!Requests
  <2> QED
    BY <1>1, <2>1 DEF Login!Requests
<1> HIDE DEF d, t
<1>6. /\ x3' \subseteq Login!Requests /\ Login!IsFiniteSet(x3')
      /\ Login!NothingStuck' /\ Login!Unserved' \subseteq Login!Unserved \ {c}
  BY <1>1, <1>2, <1>5, LoginAnswers
<1>7. Login!TypeOK'
  BY <1>1, <1>3, <1>4, <1>6 DEF Login!IndInv, Login!TypeOK
<1>8. Login!NothingLeftRunning'
  BY <1>1, <1>2, <1>3, <1>4, <1>5 DEF Login!IndInv, Login!NothingLeftRunning, Login!Running
<1>9. Login!EndIsTrue' /\ Login!OnlyNewestRuns' /\ Login!PanelIsSound'
  BY <1>1 DEF Login!IndInv, Login!EndIsTrue, Login!OnlyNewestRuns, Login!PanelIsSound, Login!Current, Login!Running
<1>10. Login!CallsAreSound'
  <2> SUFFICES ASSUME NEW e \in x3' PROVE Login!CallIsSound(e)'
    BY DEF Login!CallsAreSound
  <2>1. CASE e \in x3
    BY <1>1, <2>1 DEF Login!IndInv, Login!CallsAreSound, Login!CallIsSound, Login!Running
  <2>2. CASE e = d
    BY <1>1, <1>3, <1>4, <1>5, <2>2 DEF Login!CallIsSound
  <2> QED
    BY <1>2, <2>1, <2>2
<1>11. Login!StartsFit'
  BY <1>1, <1>6, LoginFits
<1> QED
  BY <1>6, <1>7, <1>8, <1>9, <1>10, <1>11 DEF Login!IndInv

\* A session of the server ends by itself.
LEMMA LoginExits == ASSUME Login!IndInv, Login!Exits PROVE Login!IndInv'
<1>1. PICK r \in {"in", "out"} : x4' = [x4 EXCEPT !.sessions[Login!Current] = r, !.login = @ \/ r = "in"]
  BY DEF Login!Exits
<1>2. UNCHANGED <<x1, x2, x3, x5>> /\ Login!Running(Login!Current)
  BY DEF Login!Exits
<1>3. x4 \in [sessions : [1 .. Login!Current -> {"running", "in", "out"}], login : BOOLEAN]
  BY LoginCurrent DEF Login!IndInv
<1> DEFINE f == [x4.sessions EXCEPT ![Login!Current] = r]
           l == x4.login \/ r = "in"
<1>4. x4' = [x4 EXCEPT !.sessions = f, !.login = l] /\ l \in BOOLEAN
  BY <1>1, <1>3
<1>5. f \in {f}
  OBVIOUS
<1> HIDE DEF f, l
<1>6. x4' \in [sessions : {f}, login : BOOLEAN]
  BY <1>3, <1>4
<1>7. /\ x4' \in [sessions : [1 .. Login!Current -> {"running", "in", "out"}], login : BOOLEAN]
      /\ DOMAIN x4'.sessions = DOMAIN x4.sessions /\ Login!Current \in 0 .. MaxStarts
      /\ \A s : Login!Running(s)' => Login!Running(s)
  BY <1>2, <1>6, LoginEnds DEF Login!IndInv, f
<1>8. Login!TypeOK' /\ Login!NothingStuck'
  BY <1>2, <1>7 DEF Login!IndInv, Login!TypeOK, Login!NothingStuck, Login!Mine
<1>9. Login!NothingLeftRunning' /\ Login!EndIsTrue' /\ Login!OnlyNewestRuns' /\ Login!PanelIsSound'
  BY <1>2, <1>7 DEF Login!IndInv, Login!NothingLeftRunning, Login!EndIsTrue, Login!OnlyNewestRuns, Login!PanelIsSound, Login!Current
<1>10. Login!CallsAreSound'
  BY <1>2, <1>7 DEF Login!IndInv, Login!CallsAreSound, Login!CallIsSound
<1>11. Login!StartsFit'
  BY <1>2, <1>7, LoginFits DEF Login!Unserved
<1> QED
  BY <1>8, <1>9, <1>10, <1>11 DEF Login!IndInv

\* The initial states satisfy the invariant.
LEMMA LoginInit == ASSUME Login!Init PROVE Login!IndInv
<1>1. PICK l \in BOOLEAN : x4 = [sessions |-> <<>>, login |-> l] /\ x1 = Login!Idle(IF l THEN 0 ELSE 1) /\ x2 = IF l THEN "closed" ELSE "none"
  BY DEF Login!Init
<1>2. x3 = {} /\ x5 = {} /\ IsFiniteSet({}) /\ Cardinality({}) = 0
  BY FS_EmptySet DEF Login!Init
<1>3. x1 \in Login!Panels /\ x1.session = 0 /\ x1.phase = "idle" /\ x1.starting = FALSE /\ x1.submitting = FALSE
  <2>1. 0 \in 0 .. MaxStarts /\ (IF l THEN 0 ELSE 1) \in 0 .. MaxStarts
    BY BoundAssumption
  <2>2. x1 \in Login!Panels
    BY <1>1, <2>1, FALSE \in BOOLEAN, Zenon DEF Login!Idle, Login!Panels
  <2> QED
    BY <1>1, <2>2 DEF Login!Idle
<1>4. x4.sessions = <<>> /\ x4 \in [sessions : [1 .. 0 -> {"running", "in", "out"}], login : BOOLEAN] /\ DOMAIN x4.sessions = {} /\ 0 \in 0 .. MaxStarts
  BY <1>1, BoundAssumption
<1>5. Login!TypeOK
  BY <1>1, <1>2, <1>3, <1>4, LoginFinite DEF Login!TypeOK
<1>6. Login!NothingStuck /\ Login!NothingLeftRunning /\ Login!EndIsTrue /\ Login!OnlyNewestRuns /\ Login!PanelIsSound /\ Login!CallsAreSound
  BY <1>1, <1>2, <1>3, <1>4 DEF Login!NothingStuck, Login!NothingLeftRunning, Login!EndIsTrue, Login!OnlyNewestRuns, Login!PanelIsSound, Login!CallsAreSound, Login!Running
<1>7. Login!StartsFit
  <2>1. Login!Unserved = {} /\ Login!Current = 0
    BY <1>2, <1>4, LoginFinite DEF Login!Unserved, Login!Current
  <2> QED
    BY <1>2, <2>1, LoginFinite, BoundAssumption DEF Login!StartsFit
<1> QED
  BY <1>5, <1>6, <1>7 DEF Login!IndInv

\* Every step keeps the invariant.
LEMMA LoginStep == ASSUME Login!IndInv, Login!Next PROVE Login!IndInv'
BY LoginStart, LoginPoll, LoginReset, LoginSubmitCode, LoginUnmount, LoginMount, LoginLogout, LoginExits,
   LoginStarted, LoginPolled, LoginCodeAnswered, LoginCancelled, LoginLoggedOut, LoginServe, LoginAnswerLost DEF Login!Next

\* So does a step that leaves the variables of the part alone.
LEMMA LoginStill == ASSUME Login!IndInv, UNCHANGED <<x1, x2, x3, x4, x5>> PROVE Login!IndInv'
<1>1. Login!TypeOK' /\ Login!NothingStuck' /\ Login!StartsFit'
  BY DEF Login!IndInv, Login!TypeOK, Login!NothingStuck, Login!Mine, Login!StartsFit, Login!Unserved, Login!Current
<1>2. Login!NothingLeftRunning' /\ Login!EndIsTrue' /\ Login!OnlyNewestRuns' /\ Login!PanelIsSound' /\ Login!CallsAreSound'
  BY DEF Login!IndInv, Login!NothingLeftRunning, Login!EndIsTrue, Login!OnlyNewestRuns, Login!PanelIsSound, Login!CallsAreSound,
         Login!CallIsSound, Login!Running, Login!Current
<1> QED
  BY <1>1, <1>2 DEF Login!IndInv

-----------------------------------------------------------------------------
(* The logs: LogView.                                                      *)

\* The three panels of logs are different ones.
LEMMA LogsPanels ==
    /\ Logs!Logs # Logs!LogPanel /\ Logs!Logs # Logs!DindLogPanel /\ Logs!LogPanel # Logs!DindLogPanel
    /\ Logs!Logs.full /\ Logs!Logs.stamped /\ ~ Logs!LogPanel.full /\ ~ Logs!LogPanel.stamped
    /\ ~ Logs!DindLogPanel.full /\ ~ Logs!DindLogPanel.stamped /\ ~ Logs!DindLogPanel.choice
<1>1. /\ Logs!Logs.full /\ Logs!Logs.stamped /\ ~ Logs!LogPanel.full /\ ~ Logs!LogPanel.stamped
      /\ ~ Logs!DindLogPanel.full /\ ~ Logs!DindLogPanel.stamped /\ ~ Logs!DindLogPanel.choice /\ Logs!LogPanel.choice
  BY DEF Logs!Logs, Logs!LogPanel, Logs!DindLogPanel
<1> QED
  BY <1>1

\* A page that is asked for with the next number, by whatever the page is
\* changed to and beside whatever is still on its way.
LEMMA LogsFirst ==
    ASSUME NEW p \in Logs!Pages, NEW cs \in SUBSET Logs!Requests, NEW f \in Logs!Filter, NEW why \in {"show", "purge"},
           Logs!First(p, cs, f, why),
           p.table.ask <= p.ask, \A c \in cs : c.kind = "first" => c.ask <= p.ask,
           \A c \in cs : c.kind \in {"poll", "more"} => c.why = "show",
           ~ p.is.full => p.purge = "closed" /\ \A c \in cs : c.kind \notin {"purge", "range"},
           p.is = Logs!DindLogPanel => \A c \in cs : c.kind # "first",
           p.more => \E c \in cs : c.kind = "more", p.polling => \E c \in cs : c.kind = "poll",
           p.purging => why = "purge" \/ \E c \in cs : c.why = "purge"
    PROVE  Logs!IndInv'
<1> DEFINE d == Logs!Call("first", p.ask + 1, f, why)
<1>1. x1' = [p EXCEPT !.ask = p.ask + 1, !.loading = TRUE] /\ x2' = cs \cup {d} /\ p.ask < MaxPages
  BY DEF Logs!First
<1>2. p.ask \in 1 .. MaxPages /\ p.ask + 1 \in 1 .. MaxPages /\ p.ask + 1 \in 0 .. MaxPages /\ p.table.ask \in 0 .. MaxPages
  BY <1>1, LogsAssumption DEF Logs!Pages
<1>3. x1' \in Logs!Pages
  <2>1. TRUE \in BOOLEAN
    OBVIOUS
  <2> QED
    BY <1>1, <1>2, <2>1, Zenon DEF Logs!Pages
<1>4. /\ x1'.ask = p.ask + 1 /\ x1'.loading /\ x1'.is = p.is /\ x1'.table = p.table /\ x1'.purge = p.purge /\ x1'.purging = p.purging
      /\ x1'.more = p.more /\ x1'.polling = p.polling
  BY <1>1 DEF Logs!Pages
<1>5. d \in Logs!Requests /\ d.kind = "first" /\ d.ask = p.ask + 1 /\ d.why = why
  BY <1>2 DEF Logs!Call, Logs!Requests
<1> HIDE DEF d
<1>6. Logs!TypeOK'
  BY <1>1, <1>3, <1>5 DEF Logs!TypeOK
<1>7. Logs!NothingStuck'
  BY <1>1, <1>4, <1>5 DEF Logs!NothingStuck, Logs!Waiting
<1>8. Logs!AsksAreOfPage'
  <2>1. \A c \in cs : c.ask \in 0 .. MaxPages
    BY DEF Logs!Requests
  <2> QED
    BY <1>1, <1>2, <1>4, <1>5, <2>1 DEF Logs!AsksAreOfPage
<1>9. Logs!WhysAreOfKinds' /\ Logs!OneFirst'
  BY <1>1, <1>4, <1>5 DEF Logs!WhysAreOfKinds, Logs!OneFirst
<1> QED
  BY <1>6, <1>7, <1>8, <1>9 DEF Logs!IndInv

\* The initial states satisfy the invariant.
LEMMA LogsInit == ASSUME Logs!Init PROVE Logs!IndInv
<1> DEFINE f == [app |-> All, ranged |-> FALSE]
<1>1. PICK is \in {Logs!Logs, Logs!LogPanel, Logs!DindLogPanel} :
        /\ x1 = [is |-> is, filter |-> f, ask |-> 1, loading |-> TRUE, table |-> [ask |-> 0, of |-> {}], hasMore |-> FALSE,
                 more |-> FALSE, polling |-> FALSE, live |-> FALSE, range |-> "unread", purge |-> "closed", purging |-> FALSE]
        /\ x2 = {Logs!Call("first", 1, f, "show")} \cup (IF is.full THEN {Logs!Call("range", 0, f, "show")} ELSE {})
  BY DEF Logs!Init, Logs!DindInspectPanel
<1>2. f \in Logs!Filter /\ 1 \in 1 .. MaxPages /\ 1 \in 0 .. MaxPages /\ 0 \in 0 .. MaxPages
  BY LogsAssumption DEF Logs!Filter
<1>3. x1 \in Logs!Pages
  <2>1. [ask |-> 0, of |-> {}] \in [ask : 0 .. MaxPages, of : SUBSET Logs!Filter]
    BY <1>2
  <2> QED
    BY <1>1, <1>2, <2>1 DEF Logs!Pages
<1>4. /\ Logs!Call("first", 1, f, "show") \in Logs!Requests /\ Logs!Call("range", 0, f, "show") \in Logs!Requests
      /\ Logs!Call("first", 1, f, "show").kind = "first" /\ Logs!Call("range", 0, f, "show").kind = "range"
      /\ Logs!Call("first", 1, f, "show").ask = 1
  BY <1>2 DEF Logs!Call, Logs!Requests
<1>5. x1.is = is /\ x1.ask = 1 /\ x1.table.ask = 0 /\ x1.purge = "closed" /\ x1.loading /\ ~ x1.more /\ ~ x1.polling /\ ~ x1.purging
  BY <1>1
<1> HIDE DEF f
<1>6. Logs!TypeOK /\ Logs!NothingStuck
  BY <1>1, <1>3, <1>4, <1>5 DEF Logs!TypeOK, Logs!NothingStuck, Logs!Waiting
<1>7. Logs!AsksAreOfPage /\ Logs!WhysAreOfKinds /\ Logs!OneFirst
  BY <1>1, <1>4, <1>5, LogsPanels DEF Logs!AsksAreOfPage, Logs!WhysAreOfKinds, Logs!OneFirst
<1> QED
  BY <1>6, <1>7 DEF Logs!IndInv

\* A page that shows an answer keeps what it waits for, and its table is of the
\* answer or the one it had.
LEMMA LogsShown ==
    ASSUME NEW p \in Logs!Pages, NEW c \in Logs!Requests, NEW of \in {{}, {c.filter}}, NEW hasMore \in BOOLEAN
    PROVE  LET q == Logs!Shown(p, c, of, hasMore) IN
           /\ q \in Logs!Pages /\ q.is = p.is /\ q.ask = p.ask /\ q.loading = p.loading /\ q.more = p.more /\ q.polling = p.polling
           /\ q.purge = p.purge /\ q.purging = p.purging /\ q.table.ask \in {p.table.ask, c.ask}
<1>1. CASE c.is = "failed"
  BY <1>1 DEF Logs!Shown
<1>2. CASE c.is # "failed"
  <2> DEFINE b == hasMore /\ p.is.full /\ of # {}
             t == [ask |-> c.ask, of |-> of]
             q == [p EXCEPT !.table = t, !.hasMore = b]
  <2>1. b \in BOOLEAN
    OBVIOUS
  <2>2. t \in [ask : 0 .. MaxPages, of : SUBSET Logs!Filter] /\ t.ask = c.ask
    BY DEF Logs!Requests
  <2> HIDE DEF b, t
  <2>3. q \in Logs!Pages
    BY <2>1, <2>2, Zenon DEF Logs!Pages
  <2>4. /\ q.is = p.is /\ q.ask = p.ask /\ q.loading = p.loading /\ q.more = p.more /\ q.polling = p.polling
        /\ q.purge = p.purge /\ q.purging = p.purging /\ q.table = t
    BY DEF Logs!Pages
  <2>5. Logs!Shown(p, c, of, hasMore) = q
    BY <1>2, Zenon DEF Logs!Shown, b, t
  <2> HIDE DEF q
  <2> QED
    BY <2>2, <2>3, <2>4, <2>5
<1> QED
  BY <1>1, <1>2

\* The answer of a purge changes nothing of a page but whether it purges.
LEMMA LogsPurged ==
    ASSUME NEW p \in Logs!Pages, NEW c, NEW q, q = Logs!Purged(p, c)
    PROVE  /\ q \in Logs!Pages /\ q.is = p.is /\ q.ask = p.ask /\ q.loading = p.loading /\ q.more = p.more /\ q.polling = p.polling
           /\ q.purge = p.purge /\ q.table = p.table /\ (q.purging => p.purging /\ c.why # "purge")
<1>1. CASE c.why = "purge"
  BY <1>1 DEF Logs!Purged, Logs!Pages
<1>2. CASE c.why # "purge"
  BY <1>2 DEF Logs!Purged
<1> QED
  BY <1>1, <1>2

\* A request that is sent beside the others, and the flag it holds.
LEMMA LogsSend ==
    ASSUME Logs!IndInv, NEW k \in {"poll", "more", "purge"}, NEW why, why = IF k = "purge" THEN "purge" ELSE "show",
           k = "purge" => x1.is.full, x2' = x2 \cup {Logs!Call(k, x1.ask, x1.filter, why)},
           x1' \in Logs!Pages, x1'.is = x1.is, x1'.ask = x1.ask, x1'.loading = x1.loading, x1'.purge = x1.purge, x1'.table = x1.table,
           x1'.more => x1.more \/ k = "more", x1'.polling => x1.polling \/ k = "poll", x1'.purging => x1.purging \/ k = "purge"
    PROVE  Logs!IndInv'
<1> DEFINE d == Logs!Call(k, x1.ask, x1.filter, why)
<1>1. d \in Logs!Requests /\ d.kind = k /\ d.why = why
  BY LogsAssumption DEF Logs!Call, Logs!Requests, Logs!IndInv, Logs!TypeOK, Logs!Pages
<1> HIDE DEF d
<1>2. x2' = x2 \cup {d}
  BY DEF d
<1> USE DEF Logs!IndInv
<1>3. Logs!TypeOK'
  BY <1>1, <1>2 DEF Logs!TypeOK
<1>4. Logs!NothingStuck'
  BY <1>1, <1>2 DEF Logs!NothingStuck, Logs!Waiting
<1>5. Logs!AsksAreOfPage'
  BY <1>1, <1>2 DEF Logs!AsksAreOfPage
<1>6. Logs!WhysAreOfKinds'
  BY <1>1, <1>2 DEF Logs!WhysAreOfKinds
<1>7. Logs!OneFirst'
  BY <1>1, <1>2 DEF Logs!OneFirst
<1> QED
  BY <1>3, <1>4, <1>5, <1>6, <1>7

\* An answer that is read, and the flag it held.
LEMMA LogsReceive ==
    ASSUME Logs!IndInv, NEW c \in x2, x2' = x2 \ {c},
           x1' \in Logs!Pages, x1'.is = x1.is, x1'.ask = x1.ask, x1'.purge \in {x1.purge, "closed"},
           x1'.loading => x1.loading /\ (c.kind = "first" => x1.is.stamped /\ c.ask # x1.ask),
           c.kind = "first" \/ x1'.loading = x1.loading,
           x1'.more => x1.more /\ c.kind # "more", x1'.polling => x1.polling /\ c.kind # "poll",
           x1'.purging => x1.purging /\ c.why # "purge",
           x1'.table.ask = x1.table.ask \/ (c.kind = "first" /\ x1'.table.ask = c.ask)
    PROVE  Logs!IndInv'
<1> USE DEF Logs!IndInv
<1>1. Logs!TypeOK'
  BY DEF Logs!TypeOK
<1>2. Logs!NothingStuck'
  BY DEF Logs!NothingStuck, Logs!Waiting
<1>3. Logs!AsksAreOfPage'
  BY DEF Logs!AsksAreOfPage
<1>4. Logs!WhysAreOfKinds'
  BY DEF Logs!WhysAreOfKinds
<1>5. Logs!OneFirst'
  BY DEF Logs!OneFirst
<1> QED
  BY <1>1, <1>2, <1>3, <1>4, <1>5

\* A first page or a range that is read, with what is on its way besides.
LEMMA LogsStep == ASSUME Logs!IndInv, [Logs!Next]_(Logs!vars) PROVE Logs!IndInv'
<1>0. x1 \in Logs!Pages /\ x2 \subseteq Logs!Requests /\ x1.filter \in Logs!Filter /\ x1.is \in {Logs!Logs, Logs!LogPanel, Logs!DindLogPanel}
  BY DEF Logs!IndInv, Logs!TypeOK, Logs!Pages
<1>1. CASE Logs!Refresh
  <2>1. ~ x1.loading /\ Logs!First(x1, x2, x1.filter, "show")
    BY <1>1 DEF Logs!Refresh
  <2>2. /\ x1.table.ask <= x1.ask /\ \A c \in x2 : c.kind = "first" => c.ask <= x1.ask
        /\ \A c \in x2 : c.kind \in {"poll", "more"} => c.why = "show"
        /\ ~ x1.is.full => x1.purge = "closed" /\ \A c \in x2 : c.kind \notin {"purge", "range"}
        /\ x1.is = Logs!DindLogPanel => \A c \in x2 : c.kind # "first"
        /\ x1.more => \E c \in x2 : c.kind = "more"
        /\ x1.polling => \E c \in x2 : c.kind = "poll"
        /\ x1.purging => \E c \in x2 : c.why = "purge"
    BY <2>1 DEF Logs!IndInv, Logs!NothingStuck, Logs!Waiting, Logs!AsksAreOfPage, Logs!WhysAreOfKinds, Logs!OneFirst
  <2> QED
    BY <1>0, <2>1, <2>2, LogsFirst
<1>2. ASSUME NEW f \in Logs!Filter, NEW p \in Logs!Pages, Logs!First(p, x2, f, "show"), x1.is.choice,
             p.is = x1.is, p.ask = x1.ask, p.table = x1.table, p.purge = x1.purge, p.purging = x1.purging, p.more = x1.more, p.polling = x1.polling
      PROVE  Logs!IndInv'
  <2>1. x1.is # Logs!DindLogPanel
    BY <1>2, LogsPanels
  <2>2. /\ p.table.ask <= p.ask /\ \A c \in x2 : c.kind = "first" => c.ask <= p.ask
        /\ \A c \in x2 : c.kind \in {"poll", "more"} => c.why = "show"
        /\ ~ p.is.full => p.purge = "closed" /\ \A c \in x2 : c.kind \notin {"purge", "range"}
        /\ p.more => \E c \in x2 : c.kind = "more"
        /\ p.polling => \E c \in x2 : c.kind = "poll"
        /\ p.purging => \E c \in x2 : c.why = "purge"
    BY <1>2 DEF Logs!IndInv, Logs!NothingStuck, Logs!Waiting, Logs!AsksAreOfPage, Logs!WhysAreOfKinds
  <2> QED
    BY <1>0, <1>2, <2>1, <2>2, LogsFirst
<1>3. ASSUME NEW f \in Logs!Filter, Logs!Choose(f) PROVE Logs!IndInv'
  <2>1. Logs!First([x1 EXCEPT !.filter = f], x2, f, "show") /\ x1.is.choice
    BY <1>3 DEF Logs!Choose, Logs!Controls
  <2>2. [x1 EXCEPT !.filter = f] \in Logs!Pages
    BY <1>0, Zenon DEF Logs!Pages
  <2>3. LET p == [x1 EXCEPT !.filter = f] IN
        p.is = x1.is /\ p.ask = x1.ask /\ p.table = x1.table /\ p.purge = x1.purge /\ p.purging = x1.purging /\ p.more = x1.more /\ p.polling = x1.polling
    BY <1>0 DEF Logs!Pages
  <2> DEFINE p == [x1 EXCEPT !.filter = f]
  <2> HIDE DEF p
  <2> QED
    BY <1>2, <2>1, <2>2, <2>3 DEF p
<1>4. CASE Logs!Live
  <2> DEFINE f == IF x1.live THEN x1.filter ELSE [x1.filter EXCEPT !.ranged = FALSE]
             live == ~ x1.live
             p == [x1 EXCEPT !.live = live, !.filter = f]
  <2>1. f \in Logs!Filter /\ live \in BOOLEAN
    BY <1>0 DEF Logs!Filter
  <2>2. x1.is.choice /\ \/ f = x1.filter /\ x1' = p /\ x2' = x2
                        \/ Logs!First(p, x2, f, "show")
    BY <1>4 DEF Logs!Live, Logs!Controls
  <2> HIDE DEF f, live
  <2>3. p \in Logs!Pages
    BY <1>0, <2>1, Zenon DEF Logs!Pages
  <2>4. /\ p.is = x1.is /\ p.ask = x1.ask /\ p.table = x1.table /\ p.purge = x1.purge /\ p.purging = x1.purging /\ p.more = x1.more
        /\ p.polling = x1.polling /\ p.loading = x1.loading
    BY <1>0 DEF Logs!Pages
  <2> HIDE DEF p
  <2>5. CASE x1' = p /\ x2' = x2
    BY <2>3, <2>4, <2>5 DEF Logs!IndInv, Logs!TypeOK, Logs!NothingStuck, Logs!Waiting, Logs!AsksAreOfPage, Logs!WhysAreOfKinds, Logs!OneFirst
  <2> QED
    BY <1>2, <2>1, <2>2, <2>3, <2>4, <2>5
<1>5. CASE Logs!PollNew
  <2>1. x1' = [x1 EXCEPT !.polling = TRUE] /\ x2' = x2 \cup {Logs!Call("poll", x1.ask, x1.filter, "show")}
    BY <1>5 DEF Logs!PollNew
  <2>2. /\ x1' \in Logs!Pages /\ x1'.is = x1.is /\ x1'.ask = x1.ask /\ x1'.loading = x1.loading /\ x1'.purge = x1.purge
        /\ x1'.table = x1.table /\ x1'.more = x1.more /\ x1'.purging = x1.purging
    BY <1>0, <2>1 DEF Logs!Pages
  <2> QED
    BY <2>1, <2>2, LogsSend
<1>6. CASE Logs!LoadMore
  <2>1. x1' = [x1 EXCEPT !.more = TRUE] /\ x2' = x2 \cup {Logs!Call("more", x1.ask, x1.filter, "show")}
    BY <1>6 DEF Logs!LoadMore
  <2>2. /\ x1' \in Logs!Pages /\ x1'.is = x1.is /\ x1'.ask = x1.ask /\ x1'.loading = x1.loading /\ x1'.purge = x1.purge
        /\ x1'.table = x1.table /\ x1'.polling = x1.polling /\ x1'.purging = x1.purging
    BY <1>0, <2>1 DEF Logs!Pages
  <2> QED
    BY <2>1, <2>2, LogsSend
<1>7. CASE Logs!Purge
  <2>1. /\ x1' = [x1 EXCEPT !.purging = TRUE] /\ x2' = x2 \cup {Logs!Call("purge", x1.ask, x1.filter, "purge")}
        /\ x1.purge = "open"
    BY <1>7 DEF Logs!Purge
  <2>2. /\ x1' \in Logs!Pages /\ x1'.is = x1.is /\ x1'.ask = x1.ask /\ x1'.loading = x1.loading /\ x1'.purge = x1.purge
        /\ x1'.table = x1.table /\ x1'.polling = x1.polling /\ x1'.more = x1.more
    BY <1>0, <2>1 DEF Logs!Pages
  <2>3. x1.is.full
    BY <2>1 DEF Logs!IndInv, Logs!WhysAreOfKinds
  <2> QED
    BY <2>1, <2>2, <2>3, LogsSend
<1>8. CASE Logs!AskPurge \/ Logs!DropPurge
  <2>1. PICK v \in {"open", "closed"} : x1' = [x1 EXCEPT !.purge = v] /\ x2' = x2 /\ (v = "open" => x1.is.full)
    BY <1>8 DEF Logs!AskPurge, Logs!DropPurge
  <2>2. /\ x1' \in Logs!Pages /\ x1'.is = x1.is /\ x1'.ask = x1.ask /\ x1'.loading = x1.loading /\ x1'.purge = v
        /\ x1'.table = x1.table /\ x1'.polling = x1.polling /\ x1'.more = x1.more /\ x1'.purging = x1.purging
    BY <1>0, <2>1 DEF Logs!Pages
  <2> QED
    BY <2>1, <2>2 DEF Logs!IndInv, Logs!TypeOK, Logs!NothingStuck, Logs!Waiting, Logs!AsksAreOfPage, Logs!WhysAreOfKinds, Logs!OneFirst
<1>9. ASSUME NEW c \in x2, Logs!FirstRead(c) PROVE Logs!IndInv'
  <2>1. PICK of \in {{}, {c.filter}}, hasMore \in BOOLEAN :
           x1' = IF x1.is.stamped /\ c.ask # x1.ask THEN Logs!Purged(x1, c)
                 ELSE Logs!Purged([Logs!Shown(x1, c, of, hasMore) EXCEPT !.loading = FALSE], c)
    BY <1>9 DEF Logs!FirstRead
  <2>2. c.kind = "first" /\ x2' = x2 \ {c}
    BY <1>9 DEF Logs!FirstRead
  <2>3. CASE x1.is.stamped /\ c.ask # x1.ask
    <3>1. x1' = Logs!Purged(x1, c)
      BY <2>1, <2>3
    <3>2. /\ x1' \in Logs!Pages /\ x1'.is = x1.is /\ x1'.ask = x1.ask /\ x1'.more = x1.more /\ x1'.polling = x1.polling
          /\ x1'.loading = x1.loading /\ x1'.purge = x1.purge /\ x1'.table = x1.table /\ (x1'.purging => x1.purging /\ c.why # "purge")
      BY ZenonT(60), <1>0, <3>1, LogsPurged
    <3> QED
      BY <2>2, <2>3, <3>2, LogsReceive
  <2>4. CASE ~ (x1.is.stamped /\ c.ask # x1.ask)
    <3> DEFINE q == Logs!Shown(x1, c, of, hasMore)
               p == [q EXCEPT !.loading = FALSE]
    <3>1. /\ q \in Logs!Pages /\ q.is = x1.is /\ q.ask = x1.ask /\ q.more = x1.more /\ q.polling = x1.polling
          /\ q.purge = x1.purge /\ q.purging = x1.purging /\ q.table.ask \in {x1.table.ask, c.ask}
      BY ZenonT(60), <1>0, LogsShown
    <3> HIDE DEF q
    <3>2. /\ p \in Logs!Pages /\ p.is = x1.is /\ p.ask = x1.ask /\ p.more = x1.more /\ p.polling = x1.polling /\ ~ p.loading
          /\ p.purge = x1.purge /\ p.purging = x1.purging /\ p.table.ask \in {x1.table.ask, c.ask}
      BY <3>1 DEF Logs!Pages
    <3>3. x1' = Logs!Purged(p, c)
      BY <2>1, <2>4 DEF q
    <3> HIDE DEF p
    <3>4. /\ x1' \in Logs!Pages /\ x1'.is = x1.is /\ x1'.ask = x1.ask /\ x1'.more = x1.more /\ x1'.polling = x1.polling /\ ~ x1'.loading
          /\ x1'.purge = x1.purge /\ (x1'.purging => x1.purging /\ c.why # "purge") /\ x1'.table.ask \in {x1.table.ask, c.ask}
      <4>1. /\ x1' \in Logs!Pages /\ x1'.is = p.is /\ x1'.ask = p.ask /\ x1'.more = p.more /\ x1'.polling = p.polling
            /\ x1'.loading = p.loading /\ x1'.purge = p.purge /\ x1'.table = p.table /\ (x1'.purging => p.purging /\ c.why # "purge")
        BY <3>2, <3>3, LogsPurged
      <4> QED
        BY <3>2, <4>1
    <3> QED
      BY <2>2, <3>4, LogsReceive
  <2> QED
    BY <2>3, <2>4
<1>10. ASSUME NEW c \in x2, Logs!PageRead(c) PROVE Logs!IndInv'
  <2>1. c.kind \in {"poll", "more"} /\ x2' = x2 \ {c} /\ c.why = "show" /\ c.filter \in Logs!Filter
    BY <1>0, <1>10 DEF Logs!PageRead, Logs!Requests, Logs!IndInv, Logs!WhysAreOfKinds
  <2>2. PICK some \in BOOLEAN, hasMore \in BOOLEAN :
           LET grown == IF some /\ c.is = "done" THEN [x1 EXCEPT !.table.of = @ \cup {c.filter}] ELSE x1 IN
           x1' = IF c.kind = "poll" THEN [grown EXCEPT !.polling = FALSE]
                 ELSE [grown EXCEPT !.more = FALSE, !.hasMore = IF c.is = "done" THEN hasMore ELSE @]
    BY <1>10 DEF Logs!PageRead
  <2> DEFINE grown == IF some /\ c.is = "done" THEN [x1 EXCEPT !.table.of = @ \cup {c.filter}] ELSE x1
             more == IF c.is = "done" THEN hasMore ELSE grown.hasMore
  <2>3. /\ grown \in Logs!Pages /\ grown.is = x1.is /\ grown.ask = x1.ask /\ grown.loading = x1.loading /\ grown.purge = x1.purge
        /\ grown.table.ask = x1.table.ask /\ grown.polling = x1.polling /\ grown.more = x1.more /\ grown.purging = x1.purging
    <3>1. CASE some /\ c.is = "done"
      <4> DEFINE t == [x1.table EXCEPT !.of = @ \cup {c.filter}]
      <4>1. t \in [ask : 0 .. MaxPages, of : SUBSET Logs!Filter] /\ t.ask = x1.table.ask
        BY <1>0, <2>1 DEF Logs!Pages
      <4>2. grown = [x1 EXCEPT !.table = t]
        BY <1>0, <3>1 DEF Logs!Pages
      <4> HIDE DEF t, grown
      <4> QED
        BY <1>0, <4>1, <4>2 DEF Logs!Pages
    <3>2. CASE ~ (some /\ c.is = "done")
      BY <1>0, <3>2
    <3> QED
      BY <3>1, <3>2
  <2>4. x1' = IF c.kind = "poll" THEN [grown EXCEPT !.polling = FALSE] ELSE [grown EXCEPT !.more = FALSE, !.hasMore = more]
    BY <2>2
  <2> HIDE DEF grown
  <2>5. more \in BOOLEAN
    BY <2>3 DEF Logs!Pages
  <2> HIDE DEF more
  <2>6. /\ x1' \in Logs!Pages /\ x1'.is = x1.is /\ x1'.ask = x1.ask /\ x1'.loading = x1.loading /\ x1'.purge = x1.purge
        /\ x1'.table.ask = x1.table.ask /\ x1'.purging = x1.purging
        /\ x1'.more = (x1.more /\ c.kind # "more") /\ x1'.polling = (x1.polling /\ c.kind # "poll")
    <3>1. CASE c.kind = "poll"
      BY <2>3, <2>4, <3>1 DEF Logs!Pages
    <3>2. CASE c.kind = "more"
      <4>1. x1' = [grown EXCEPT !.more = FALSE, !.hasMore = more]
        BY <2>4, <3>2
      <4>2. x1' \in Logs!Pages
        BY <2>3, <2>5, <4>1, Zenon DEF Logs!Pages
      <4> QED
        BY <2>3, <3>2, <4>1, <4>2 DEF Logs!Pages
    <3> QED
      BY <2>1, <3>1, <3>2
  <2> QED
    BY <2>1, <2>6, LogsReceive
<1>11. ASSUME NEW c \in x2, Logs!Emptied(c) PROVE Logs!IndInv'
  <2>0. c.kind = "purge" /\ c.is # "sent" /\ x1.is.full /\ c \in Logs!Requests
    BY <1>0, <1>11 DEF Logs!Emptied, Logs!IndInv, Logs!WhysAreOfKinds
  <2>1. CASE x1' = [x1 EXCEPT !.purging = FALSE] /\ x2' = x2 \ {c}
    <3>1. /\ x1' \in Logs!Pages /\ x1'.is = x1.is /\ x1'.ask = x1.ask /\ x1'.loading = x1.loading /\ x1'.purge = x1.purge
          /\ x1'.table = x1.table /\ x1'.polling = x1.polling /\ x1'.more = x1.more /\ ~ x1'.purging
      BY <1>0, <2>1 DEF Logs!Pages
    <3> QED
      BY <2>0, <2>1, <3>1, LogsReceive
  <2>2. CASE x1' = [x1 EXCEPT !.purge = "closed"] /\ x2' = (x2 \ {c}) \cup {Logs!Call("range", 0, c.filter, "purge")}
    <3> DEFINE d == Logs!Call("range", 0, c.filter, "purge")
    <3>1. /\ x1' \in Logs!Pages /\ x1'.is = x1.is /\ x1'.ask = x1.ask /\ x1'.loading = x1.loading /\ x1'.purge = "closed"
          /\ x1'.table = x1.table /\ x1'.polling = x1.polling /\ x1'.more = x1.more
      BY <1>0, <2>2 DEF Logs!Pages
    <3>2. d \in Logs!Requests /\ d.kind = "range" /\ d.why = "purge" /\ x2' = (x2 \ {c}) \cup {d}
      BY <2>0, <2>2, LogsAssumption DEF Logs!Call, Logs!Requests
    <3> HIDE DEF d
    <3>3. Logs!TypeOK' /\ Logs!NothingStuck'
      BY <1>0, <2>0, <3>1, <3>2 DEF Logs!IndInv, Logs!TypeOK, Logs!NothingStuck, Logs!Waiting
    <3>4. Logs!AsksAreOfPage' /\ Logs!WhysAreOfKinds' /\ Logs!OneFirst'
      BY <2>0, <3>1, <3>2 DEF Logs!IndInv, Logs!AsksAreOfPage, Logs!WhysAreOfKinds, Logs!OneFirst
    <3> QED
      BY <3>3, <3>4 DEF Logs!IndInv
  <2> QED
    BY <1>11, <2>1, <2>2 DEF Logs!Emptied
<1>12. ASSUME NEW c \in x2, Logs!RangeRead(c) PROVE Logs!IndInv'
  <2>0. c.kind = "range" /\ c \in Logs!Requests /\ x1.is.full
    BY <1>0, <1>12 DEF Logs!RangeRead, Logs!IndInv, Logs!WhysAreOfKinds
  <2>1. CASE x1' = Logs!Purged(x1, c) /\ x2' = x2 \ {c}
    <3>1. /\ x1' \in Logs!Pages /\ x1'.is = x1.is /\ x1'.ask = x1.ask /\ x1'.more = x1.more /\ x1'.polling = x1.polling
          /\ x1'.loading = x1.loading /\ x1'.purge = x1.purge /\ x1'.table = x1.table /\ (x1'.purging => x1.purging /\ c.why # "purge")
      BY ZenonT(60), <1>0, <2>1, LogsPurged
    <3> QED
      BY <2>0, <2>1, <3>1, LogsReceive
  <2>2. ASSUME NEW range \in {"none", "some"},
               \/ c.why = "purge" /\ Logs!First([x1 EXCEPT !.range = range], x2 \ {c}, c.filter, "purge")
               \/ c.why # "purge" /\ x1' = [x1 EXCEPT !.range = range] /\ x2' = x2 \ {c}
        PROVE  Logs!IndInv'
    <3> DEFINE p == [x1 EXCEPT !.range = range]
    <3>1. /\ p \in Logs!Pages /\ p.is = x1.is /\ p.ask = x1.ask /\ p.loading = x1.loading /\ p.purge = x1.purge
          /\ p.table = x1.table /\ p.polling = x1.polling /\ p.more = x1.more /\ p.purging = x1.purging
      BY <1>0 DEF Logs!Pages
    <3>2. \/ c.why = "purge" /\ Logs!First(p, x2 \ {c}, c.filter, "purge")
          \/ c.why # "purge" /\ x1' = p /\ x2' = x2 \ {c}
      BY <2>2
    <3> HIDE DEF p
    <3>3. CASE c.why # "purge" /\ x1' = p /\ x2' = x2 \ {c}
      BY <2>0, <3>1, <3>3, LogsReceive
    <3>4. CASE c.why = "purge" /\ Logs!First(p, x2 \ {c}, c.filter, "purge")
      <4> DEFINE cs == x2 \ {c}
      <4>1. /\ p.table.ask <= p.ask /\ \A d \in cs : d.kind = "first" => d.ask <= p.ask
            /\ \A d \in cs : d.kind \in {"poll", "more"} => d.why = "show"
            /\ p.is.full /\ p.is # Logs!DindLogPanel
            /\ p.more => \E d \in cs : d.kind = "more"
            /\ p.polling => \E d \in cs : d.kind = "poll"
        BY <2>0, <3>1, LogsPanels DEF Logs!IndInv, Logs!NothingStuck, Logs!Waiting, Logs!AsksAreOfPage, Logs!WhysAreOfKinds
      <4>2. cs \in SUBSET Logs!Requests /\ c.filter \in Logs!Filter /\ Logs!First(p, cs, c.filter, "purge")
        BY <1>0, <2>0, <3>4 DEF Logs!Requests
      <4> HIDE DEF cs
      <4> QED
        BY <3>1, <4>1, <4>2, LogsFirst
    <3> QED
      BY <3>2, <3>3, <3>4
  <2> QED
    BY <1>12, <2>1, <2>2 DEF Logs!RangeRead
<1>13. ASSUME NEW c \in x2, Logs!Serve(c) PROVE Logs!IndInv'
  <2>1. PICK is \in {"done", "failed"} : x2' = (x2 \ {c}) \cup {[c EXCEPT !.is = is]} /\ x1' = x1
    BY <1>13 DEF Logs!Serve
  <2> DEFINE d == [c EXCEPT !.is = is]
  <2>2. d \in Logs!Requests /\ d.kind = c.kind /\ d.ask = c.ask /\ d.why = c.why /\ x2' = (x2 \ {c}) \cup {d}
    BY <1>0, <2>1 DEF Logs!Requests
  <2> HIDE DEF d
  <2>3. Logs!TypeOK' /\ Logs!NothingStuck'
    BY <1>0, <2>1, <2>2 DEF Logs!IndInv, Logs!TypeOK, Logs!NothingStuck, Logs!Waiting
  <2>4. Logs!AsksAreOfPage' /\ Logs!WhysAreOfKinds' /\ Logs!OneFirst'
    BY <2>1, <2>2 DEF Logs!IndInv, Logs!AsksAreOfPage, Logs!WhysAreOfKinds, Logs!OneFirst
  <2> QED
    BY <2>3, <2>4 DEF Logs!IndInv
<1>14. CASE UNCHANGED Logs!vars
  BY <1>14 DEF Logs!vars, Logs!IndInv, Logs!TypeOK, Logs!NothingStuck, Logs!Waiting, Logs!AsksAreOfPage, Logs!WhysAreOfKinds, Logs!OneFirst
<1> QED
  BY <1>1, <1>3, <1>4, <1>5, <1>6, <1>7, <1>8, <1>9, <1>10, <1>11, <1>12, <1>13, <1>14 DEF Logs!Next

\* No answer to an older question is shown after a newer one.
LEMMA LogsNewest == ASSUME Logs!IndInv, [Logs!Next]_(Logs!vars) PROVE Logs!NewestStep
<1>0. /\ x1 \in Logs!Pages /\ x2 \subseteq Logs!Requests /\ x1.table.ask \in 0 .. MaxPages /\ x1.ask \in 1 .. MaxPages
      /\ x1.is \in {Logs!Logs, Logs!LogPanel, Logs!DindLogPanel}
  BY DEF Logs!IndInv, Logs!TypeOK, Logs!Pages
<1>1. ASSUME x1'.table.ask = x1.table.ask PROVE Logs!NewestStep
  BY <1>0, <1>1 DEF Logs!NewestStep
<1>2. ASSUME NEW p \in Logs!Pages, NEW cs, NEW f, NEW why, Logs!First(p, cs, f, why), p.table = x1.table PROVE Logs!NewestStep
  <2>1. x1'.table = p.table
    BY <1>2 DEF Logs!First, Logs!Pages
  <2> QED
    BY <1>1, <1>2, <2>1
<1>3. CASE Logs!Refresh
  BY <1>0, <1>2, <1>3 DEF Logs!Refresh
<1>4. ASSUME NEW f \in Logs!Filter, Logs!Choose(f) PROVE Logs!NewestStep
  <2> DEFINE p == [x1 EXCEPT !.filter = f]
  <2>1. p \in Logs!Pages /\ p.table = x1.table
    BY <1>0 DEF Logs!Pages
  <2>2. Logs!First(p, x2, f, "show")
    BY <1>4 DEF Logs!Choose
  <2> HIDE DEF p
  <2> QED
    BY <1>2, <2>1, <2>2
<1>5. CASE Logs!Live
  <2>1. x1'.table = x1.table
    BY <1>0, <1>5 DEF Logs!Live, Logs!First, Logs!Pages
  <2> QED
    BY <1>1, <2>1
<1>6. CASE Logs!PollNew \/ Logs!LoadMore \/ Logs!AskPurge \/ Logs!DropPurge \/ Logs!Purge
  <2>1. \E v : x1' = [x1 EXCEPT !.polling = v] \/ x1' = [x1 EXCEPT !.more = v] \/ x1' = [x1 EXCEPT !.purge = v] \/ x1' = [x1 EXCEPT !.purging = v]
    BY <1>6 DEF Logs!PollNew, Logs!LoadMore, Logs!AskPurge, Logs!DropPurge, Logs!Purge
  <2>2. x1'.table = x1.table
    BY <1>0, <2>1 DEF Logs!Pages
  <2> QED
    BY <1>1, <2>2
<1>7. ASSUME NEW c \in x2, Logs!FirstRead(c) PROVE Logs!NewestStep
  <2>0. c.kind = "first" /\ c.ask \in 0 .. MaxPages
    BY <1>0, <1>7 DEF Logs!FirstRead, Logs!Requests
  <2>1. PICK of \in {{}, {c.filter}}, hasMore \in BOOLEAN :
           x1' = IF x1.is.stamped /\ c.ask # x1.ask THEN Logs!Purged(x1, c)
                 ELSE Logs!Purged([Logs!Shown(x1, c, of, hasMore) EXCEPT !.loading = FALSE], c)
    BY <1>7 DEF Logs!FirstRead
  <2>2. CASE x1.is.stamped /\ c.ask # x1.ask
    <3>1. x1' = Logs!Purged(x1, c)
      BY <2>1, <2>2
    <3>2. x1'.table = x1.table
      BY <1>0, <3>1, LogsPurged
    <3> QED
      BY <1>1, <3>2
  <2>3. CASE ~ (x1.is.stamped /\ c.ask # x1.ask)
    <3> DEFINE q == Logs!Shown(x1, c, of, hasMore)
               p == [q EXCEPT !.loading = FALSE]
    <3>1. q \in Logs!Pages /\ q.table.ask \in {x1.table.ask, c.ask}
      BY <1>0, LogsShown
    <3> HIDE DEF q
    <3>2. p \in Logs!Pages /\ p.table = q.table
      BY <3>1 DEF Logs!Pages
    <3>3. x1' = Logs!Purged(p, c)
      BY <2>1, <2>3 DEF q
    <3> HIDE DEF p
    <3>4. x1'.table.ask \in {x1.table.ask, c.ask}
      BY ZenonT(60), <3>1, <3>2, <3>3, LogsPurged
    <3>5. x1.is # Logs!LogPanel => c.ask = x1.ask
      BY <1>0, <2>0, <2>3, LogsPanels DEF Logs!IndInv, Logs!OneFirst
    <3>6. x1.table.ask <= x1.ask
      BY DEF Logs!IndInv, Logs!AsksAreOfPage
    <3> QED
      BY <1>0, <3>4, <3>5, <3>6 DEF Logs!NewestStep
  <2> QED
    BY <2>2, <2>3
<1>8. ASSUME NEW c \in x2, Logs!PageRead(c) PROVE Logs!NewestStep
  <2>1. x1'.table.ask = x1.table.ask
    BY <1>0, <1>8 DEF Logs!PageRead, Logs!Pages
  <2> QED
    BY <1>1, <2>1
<1>9. ASSUME NEW c \in x2, Logs!Emptied(c) PROVE Logs!NewestStep
  <2>1. x1'.table = x1.table
    BY <1>0, <1>9 DEF Logs!Emptied, Logs!Pages
  <2> QED
    BY <1>1, <2>1
<1>10. ASSUME NEW c \in x2, Logs!RangeRead(c) PROVE Logs!NewestStep
  <2>1. \/ x1' = Logs!Purged(x1, c)
        \/ \E range \in {"none", "some"} : \/ Logs!First([x1 EXCEPT !.range = range], x2 \ {c}, c.filter, "purge")
                                           \/ x1' = [x1 EXCEPT !.range = range]
    BY <1>10 DEF Logs!RangeRead
  <2>2. CASE x1' = Logs!Purged(x1, c)
    <3>1. x1'.table = x1.table
      BY <1>0, <2>2, LogsPurged
    <3> QED
      BY <1>1, <3>1
  <2>3. ASSUME NEW range \in {"none", "some"}, Logs!First([x1 EXCEPT !.range = range], x2 \ {c}, c.filter, "purge") PROVE Logs!NewestStep
    <3> DEFINE p == [x1 EXCEPT !.range = range]
    <3>1. p \in Logs!Pages /\ p.table = x1.table
      BY <1>0 DEF Logs!Pages
    <3>2. Logs!First(p, x2 \ {c}, c.filter, "purge")
      BY <2>3
    <3> HIDE DEF p
    <3> QED
      BY <1>2, <3>1, <3>2
  <2>4. ASSUME NEW range \in {"none", "some"}, x1' = [x1 EXCEPT !.range = range] PROVE Logs!NewestStep
    BY <1>0, <1>1, <2>4 DEF Logs!Pages
  <2> QED
    BY <2>1, <2>2, <2>3, <2>4
<1>11. CASE UNCHANGED x1
  BY <1>1, <1>11
<1> QED
  BY <1>3, <1>4, <1>5, <1>6, <1>7, <1>8, <1>9, <1>10, <1>11 DEF Logs!Next, Logs!Serve, Logs!vars

-----------------------------------------------------------------------------
(* The projects: ProjectList.                                              *)

\* The initial states satisfy the invariant.
LEMMA ProjectsInit == ASSUME Projects!Init PROVE Projects!IndInv
<1> USE ProjectsAssumption DEF Projects!Init
<1>1. PICK scanned \in BOOLEAN :
        x3 = [listed |-> IF scanned THEN [p \in Project |-> IF p = Clone THEN "no" ELSE "built"] ELSE Projects!Nothing,
              scanned |-> scanned, scanning |-> FALSE, scan |-> Projects!Idle, job |-> "none", missed |-> FALSE]
  OBVIOUS
<1>2. Projects!Nothing \in [Project -> {"no", "plain", "built"}] /\ Projects!Nothing[Clone] = "no"
  BY DEF Projects!Nothing
<1>3. /\ Projects!Idle \in Projects!Scans /\ Projects!Idle.at = "none" /\ Projects!Idle.got = Projects!Nothing /\ Projects!Idle.left = {}
  BY <1>2 DEF Projects!Idle, Projects!Scans
<1>4. /\ x3.listed \in [Project -> {"no", "plain", "built"}] /\ x3.listed[Clone] = "no"
  BY <1>1, <1>2
<1>5. x3 \in Projects!Servers /\ ~ x3.scanning /\ x3.scan = Projects!Idle /\ x3.job = "none"
  BY <1>1, <1>2, <1>3, <1>4 DEF Projects!Servers
<1>6. x1 \in Projects!Pages /\ x1.rescanning = {} /\ x1.busy = {} /\ x1.clone = "form"
  BY DEF Projects!Pages
<1> DEFINE d == Projects!Call("list", None, 0)
<1>7. d \in Projects!Requests /\ d.kind = "list" /\ d.is = "sent" /\ x2 = {d}
  BY DEF Projects!Call, Projects!Requests
<1> HIDE DEF d
<1>8. Projects!TypeOK
  BY <1>5, <1>6, <1>7 DEF Projects!TypeOK
<1>9. Projects!NothingStuck /\ Projects!OnceAtATime /\ Projects!AnswersAreSound /\ Projects!SentIsBusy
  BY <1>3, <1>5, <1>6, <1>7
     DEF Projects!NothingStuck, Projects!OnceAtATime, Projects!AnswersAreSound, Projects!AnswerIsSound, Projects!SentIsBusy
<1>10. Projects!CloneIsAskedOnce /\ Projects!CloneIsMadeOnce /\ Projects!CloneIsSeen
  <2>1. x4[Clone] = "gone"
    OBVIOUS
  <2> QED
    BY <1>2, <1>3, <1>4, <1>5, <1>7, <2>1 DEF Projects!CloneIsAskedOnce, Projects!CloneIsMadeOnce, Projects!CloneIsSeen
<1> QED
  BY <1>8, <1>9, <1>10 DEF Projects!IndInv

\* The server and the disk alone.
LEMMA ProjectsBehind ==
    ASSUME Projects!IndInv, UNCHANGED <<x1, x2, x5>>, x3' \in Projects!Servers, x4' \in [Project -> {"gone", "plain", "built"}],
           x3'.scanning <=> x3'.scan.at # "none",
           \A c \in x2 : c.is = "removed" => x4'[c.project] = x4[c.project],
           x3.job = "none" => x3'.job = "none", Projects!CloneIsMadeOnce', Projects!CloneIsSeen'
    PROVE  Projects!IndInv'
<1> USE DEF Projects!IndInv
<1>1. Projects!TypeOK'
  BY DEF Projects!TypeOK
<1>2. Projects!NothingStuck'
  BY DEF Projects!NothingStuck
<1>3. Projects!OnceAtATime' /\ Projects!SentIsBusy' /\ Projects!CloneIsAskedOnce'
  BY DEF Projects!OnceAtATime, Projects!SentIsBusy, Projects!CloneIsAskedOnce
<1>4. Projects!AnswersAreSound'
  BY DEF Projects!AnswersAreSound, Projects!AnswerIsSound
<1> QED
  BY <1>1, <1>2, <1>3, <1>4

\* A request that is on its way to its answer.
LEMMA ProjectsServed ==
    ASSUME Projects!IndInv, UNCHANGED <<x1, x5>>, NEW c \in x2, NEW d \in Projects!Requests, x2' = (x2 \ {c}) \cup {d},
           d.kind = c.kind, d.project = c.project, d.is # "sent", Projects!AnswerIsSound(d)',
           x3' \in Projects!Servers, x4' \in [Project -> {"gone", "plain", "built"}],
           x3'.scanning <=> x3'.scan.at # "none", \A p \in Project : x4[p] = "gone" => x4'[p] = "gone",
           x3'.job = x3.job \/ (c.kind = "clone" /\ c.is = "sent"), Projects!CloneIsMadeOnce', Projects!CloneIsSeen'
    PROVE  Projects!IndInv'
<1> USE DEF Projects!IndInv
<1>1. Projects!TypeOK'
  BY DEF Projects!TypeOK
<1>2. Projects!NothingStuck'
  BY DEF Projects!NothingStuck
<1>3. Projects!OnceAtATime' /\ Projects!SentIsBusy'
  BY DEF Projects!OnceAtATime, Projects!SentIsBusy
<1>4. Projects!CloneIsAskedOnce'
  BY DEF Projects!CloneIsAskedOnce
<1>5. Projects!AnswersAreSound'
  <2>1. ASSUME NEW e \in x2 PROVE Projects!AnswerIsSound(e)'
    BY DEF Projects!AnswersAreSound, Projects!AnswerIsSound
  <2> QED
    BY <2>1 DEF Projects!AnswersAreSound
<1> QED
  BY <1>1, <1>2, <1>3, <1>4, <1>5

\* What the page takes back, and what it sends.
LEMMA ProjectsHeard ==
    ASSUME Projects!IndInv, UNCHANGED <<x3, x4>>, x5' \in Nat, x1' \in Projects!Pages, x2' \subseteq x2,
           Projects!NothingStuck', Projects!SentIsBusy'
    PROVE  Projects!IndInv'
<1> USE DEF Projects!IndInv
<1>1. Projects!TypeOK'
  BY DEF Projects!TypeOK
<1>2. Projects!OnceAtATime' /\ Projects!CloneIsAskedOnce'
  BY DEF Projects!OnceAtATime, Projects!CloneIsAskedOnce
<1>3. Projects!AnswersAreSound'
  BY DEF Projects!AnswersAreSound, Projects!AnswerIsSound
<1>4. Projects!CloneIsMadeOnce' /\ Projects!CloneIsSeen'
  BY DEF Projects!CloneIsMadeOnce, Projects!CloneIsSeen
<1> QED
  BY <1>1, <1>2, <1>3, <1>4

\* A request that is sent for what the page then waits for keeps the invariant.
LEMMA ProjectsSent ==
    ASSUME Projects!IndInv, UNCHANGED <<x3, x4>>, x5' \in Nat, x1' \in Projects!Pages,
           NEW k \in {"list", "scan", "rescan", "clean", "delete", "clone", "status"}, NEW p \in Project \cup {None}, NEW n \in Nat,
           NEW cs, cs \subseteq x2, x2' = cs \cup {Projects!Call(k, p, n)}, \A c \in x2 : c.kind # "status" => c \in cs,
           k \in {"rescan", "clean", "delete"} => p \in Project, k \in {"clean", "delete"} => k \notin x1.busy,
           k = "clone" => x3.job = "none" /\ \A c \in x2 : c.kind # "clone",
           x1'.loading => x1.loading \/ k \in {"list", "scan"}, x1'.reading => x1.reading \/ k = "list",
           \A q \in x1'.rescanning : q \in x1.rescanning \/ (k = "rescan" /\ q = p),
           x1'.busy = x1.busy \cup ({k} \cap {"clean", "delete"}), x1'.clone = "starting" => x1.clone = "starting" \/ k = "clone"
    PROVE  Projects!IndInv'
<1> DEFINE d == Projects!Call(k, p, n)
<1> USE DEF Projects!IndInv
<1>1. d \in Projects!Requests /\ d.kind = k /\ d.is = "sent" /\ d.project = p
  BY DEF Projects!Call, Projects!Requests
<1> HIDE DEF d
<1>2. x2' = cs \cup {d}
  BY DEF d
<1>8. Projects!NothingStuck'
  <2>1. Projects!NothingStuck /\ \A c \in x2 : c.kind # "status" => c \in x2'
    BY <1>2
  <2>2. d \in x2'
    BY <1>2
  <2>3. x1'.loading => \E c \in x2' : c.kind \in {"list", "scan"}
    BY <1>1, <2>1, <2>2 DEF Projects!NothingStuck
  <2>4. x1'.reading => \E c \in x2' : c.kind = "list"
    BY <1>1, <2>1, <2>2 DEF Projects!NothingStuck
  <2>5. \A q \in x1'.rescanning : \E c \in x2' : c.kind = "rescan" /\ c.project = q
    BY <1>1, <2>1, <2>2 DEF Projects!NothingStuck
  <2>6. \A b \in x1'.busy : \E c \in x2' : c.kind = b
    <3>1. ASSUME NEW b \in x1.busy PROVE \E c \in x2' : c.kind = b
      <4>1. b \in {"clean", "delete"}
        BY DEF Projects!TypeOK, Projects!Pages
      <4> QED
        BY <2>1, <4>1 DEF Projects!NothingStuck
    <3> QED
      BY <1>1, <2>2, <3>1
  <2>7. x1'.clone = "starting" => \E c \in x2' : c.kind = "clone"
    BY <1>1, <2>1, <2>2 DEF Projects!NothingStuck
  <2>8. x3'.scanning <=> x3'.scan.at # "none"
    BY <2>1 DEF Projects!NothingStuck
  <2> QED
    BY <2>3, <2>4, <2>5, <2>6, <2>7, <2>8 DEF Projects!NothingStuck
<1>3. Projects!TypeOK'
  BY <1>1, <1>2 DEF Projects!TypeOK
<1>4. Projects!OnceAtATime' /\ Projects!SentIsBusy'
  BY <1>1, <1>2 DEF Projects!OnceAtATime, Projects!SentIsBusy
<1>5. Projects!CloneIsAskedOnce'
  BY <1>1, <1>2 DEF Projects!CloneIsAskedOnce
<1>6. Projects!AnswersAreSound'
  BY <1>1, <1>2 DEF Projects!AnswersAreSound, Projects!AnswerIsSound
<1>7. Projects!CloneIsMadeOnce' /\ Projects!CloneIsSeen'
  BY <1>1, <1>2 DEF Projects!CloneIsMadeOnce, Projects!CloneIsSeen
<1> QED
  BY <1>3, <1>4, <1>5, <1>6, <1>7, <1>8

\* What the scanner does keeps the invariant.
LEMMA ProjectsScan ==
    ASSUME Projects!IndInv, Projects!Discover \/ (\E p \in Project : Projects!ScanOne(p)) \/ Projects!Store \/ Projects!ScanEnds
    PROVE  Projects!IndInv'
<1> USE ProjectsAssumption DEF Projects!IndInv, Projects!TypeOK
<1>0. x3.scan \in Projects!Scans /\ x3 \in Projects!Servers /\ x4 \in [Project -> {"gone", "plain", "built"}]
  BY DEF Projects!Servers
<1>1. CASE Projects!Discover
  <2> DEFINE left == {p \in Project : x4[p] # "gone"}
             scan == [at |-> "reading", left |-> left, got |-> Projects!Nothing]
  <2>1. scan \in Projects!Scans /\ scan.at = "reading" /\ scan.left = left /\ scan.got = Projects!Nothing /\ Projects!Nothing[Clone] = "no"
    BY DEF Projects!Scans, Projects!Nothing
  <2>2. (Clone \in left) = (x4[Clone] # "gone")
    OBVIOUS
  <2> HIDE DEF left, scan
  <2>3. x3' = [x3 EXCEPT !.scan = scan] /\ x3.scan.at = "begun" /\ UNCHANGED <<x1, x2, x4, x5>>
    BY <1>1 DEF Projects!Discover, left, scan
  <2>4. x3' \in Projects!Servers /\ x3'.scan = scan /\ x3'.scanning = x3.scanning /\ x3'.job = x3.job /\ x3'.listed = x3.listed
        /\ x3'.missed = x3.missed
    BY <1>0, <2>1, <2>3 DEF Projects!Servers
  <2>5. Projects!CloneIsMadeOnce' /\ Projects!CloneIsSeen'
    BY <2>1, <2>2, <2>3, <2>4 DEF Projects!CloneIsMadeOnce, Projects!CloneIsSeen
  <2>6. x3'.scanning <=> x3'.scan.at # "none"
    BY <2>1, <2>3, <2>4 DEF Projects!NothingStuck
  <2> QED
    BY <1>0, <2>3, <2>4, <2>5, <2>6, ProjectsBehind
<1>2. ASSUME NEW p \in Project, Projects!ScanOne(p) PROVE Projects!IndInv'
  <2> DEFINE scan == [x3.scan EXCEPT !.left = x3.scan.left \ {p}, !.got[p] = Projects!Seen(p)]
  <2>1. Projects!Seen(p) \in {"plain", "built"}
    BY DEF Projects!Seen
  <2>2. scan \in Projects!Scans /\ scan.at = x3.scan.at /\ scan.left = x3.scan.left \ {p}
        /\ scan.got[p] = Projects!Seen(p) /\ \A q \in Project : q # p => scan.got[q] = x3.scan.got[q]
    BY <1>0, <2>1 DEF Projects!Scans
  <2>3. x3' = [x3 EXCEPT !.scan = scan] /\ p \in x3.scan.left /\ UNCHANGED <<x1, x2, x4, x5>>
    BY <1>0, <1>2 DEF Projects!ScanOne, Projects!Servers, Projects!Scans
  <2> HIDE DEF scan
  <2>4. x3' \in Projects!Servers /\ x3'.scan = scan /\ x3'.scanning = x3.scanning /\ x3'.job = x3.job /\ x3'.listed = x3.listed
        /\ x3'.missed = x3.missed
    BY <1>0, <2>2, <2>3 DEF Projects!Servers
  <2>5. Projects!CloneIsMadeOnce' /\ Projects!CloneIsSeen'
    BY <2>1, <2>2, <2>3, <2>4 DEF Projects!CloneIsMadeOnce, Projects!CloneIsSeen
  <2>6. x3'.scanning <=> x3'.scan.at # "none"
    BY <2>2, <2>4 DEF Projects!NothingStuck
  <2> QED
    BY <1>0, <2>3, <2>4, <2>5, <2>6, ProjectsBehind
<1>3. CASE Projects!Store
  <2> DEFINE scan == [Projects!Idle EXCEPT !.at = "stored"]
  <2>1. scan \in Projects!Scans /\ scan.at = "stored" /\ scan.got[Clone] = "no" /\ scan.left = {}
    BY DEF Projects!Scans, Projects!Idle, Projects!Nothing
  <2>2. x3' = [x3 EXCEPT !.listed = x3.scan.got, !.scanned = TRUE, !.scan = scan] /\ x3.scan.at = "reading" /\ x3.scan.left = {}
        /\ UNCHANGED <<x1, x2, x4, x5>>
    BY <1>3 DEF Projects!Store
  <2> HIDE DEF scan
  <2>3. TRUE \in BOOLEAN /\ x3.scan.got \in [Project -> {"no", "plain", "built"}]
    BY <1>0 DEF Projects!Scans
  <2>4. x3' \in Projects!Servers
    BY <1>0, <2>1, <2>2, <2>3, Zenon DEF Projects!Servers
  <2>5. x3'.scan = scan /\ x3'.scanning = x3.scanning /\ x3'.job = x3.job /\ x3'.listed = x3.scan.got
        /\ x3'.missed = x3.missed
    BY <1>0, <2>2 DEF Projects!Servers
  <2>6. Projects!CloneIsMadeOnce' /\ Projects!CloneIsSeen'
    BY <2>1, <2>2, <2>5 DEF Projects!CloneIsMadeOnce, Projects!CloneIsSeen
  <2>7. x3'.scanning <=> x3'.scan.at # "none"
    BY <2>1, <2>2, <2>5 DEF Projects!NothingStuck
  <2> QED
    BY <1>0, <2>2, <2>4, <2>5, <2>6, <2>7, ProjectsBehind
<1>4. CASE Projects!ScanEnds
  <2>1. Projects!Idle \in Projects!Scans /\ Projects!Idle.at = "none" /\ Projects!Idle.got[Clone] = "no" /\ Projects!Idle.left = {}
    BY DEF Projects!Scans, Projects!Idle, Projects!Nothing
  <2>2. x3' = [x3 EXCEPT !.scanning = FALSE, !.scan = Projects!Idle] /\ x3.scan.at = "stored" /\ UNCHANGED <<x1, x2, x4, x5>>
    BY <1>4 DEF Projects!ScanEnds
  <2>3. FALSE \in BOOLEAN
    OBVIOUS
  <2>4. x3' \in Projects!Servers
    BY <1>0, <2>1, <2>2, <2>3, Zenon DEF Projects!Servers
  <2>5. x3'.scan = Projects!Idle /\ x3'.scanning = FALSE /\ x3'.job = x3.job /\ x3'.listed = x3.listed /\ x3'.missed = x3.missed
    BY <1>0, <2>2 DEF Projects!Servers
  <2>6. Projects!CloneIsMadeOnce' /\ Projects!CloneIsSeen'
    BY <2>1, <2>2, <2>5 DEF Projects!CloneIsMadeOnce, Projects!CloneIsSeen
  <2> QED
    BY <1>0, <2>1, <2>2, <2>4, <2>5, <2>6, ProjectsBehind
<1> QED
  BY <1>1, <1>2, <1>3, <1>4

\* A scan that is triggered: none ran, or nothing is done.
LEMMA ProjectsTriggered ==
    ASSUME NEW s \in Projects!Servers, s.scanning <=> s.scan.at # "none"
    PROVE  /\ Projects!TriggerScan(s) \in Projects!Servers /\ Projects!TriggerScan(s).scanning
           /\ Projects!TriggerScan(s).scan \in Projects!Scans
           /\ Projects!TriggerScan(s).scan.at = IF s.scanning THEN s.scan.at ELSE "begun"
           /\ Projects!TriggerScan(s).scan.left = s.scan.left /\ Projects!TriggerScan(s).scan.got = s.scan.got
           /\ Projects!TriggerScan(s).job = s.job /\ Projects!TriggerScan(s).listed = s.listed /\ Projects!TriggerScan(s).missed = s.missed
<1> DEFINE scan == [s.scan EXCEPT !.at = "begun"]
           t == [s EXCEPT !.scanning = TRUE, !.scan = scan]
<1>1. scan \in Projects!Scans /\ scan.at = "begun" /\ scan.left = s.scan.left /\ scan.got = s.scan.got
  BY DEF Projects!Servers, Projects!Scans
<1>2. CASE s.scanning
  BY <1>2 DEF Projects!TriggerScan, Projects!Servers
<1>3. CASE ~ s.scanning
  <2>1. Projects!TriggerScan(s) = t
    BY <1>3 DEF Projects!TriggerScan, Projects!Servers, Projects!Scans
  <2> HIDE DEF scan
  <2>2. TRUE \in BOOLEAN
    OBVIOUS
  <2>3. t \in Projects!Servers
    BY <1>1, <2>2, Zenon DEF Projects!Servers
  <2>4. t.scanning /\ t.scan = scan /\ t.job = s.job /\ t.listed = s.listed /\ t.missed = s.missed
    BY DEF Projects!Servers
  <2> HIDE DEF t
  <2> QED
    BY <1>1, <1>3, <2>1, <2>3, <2>4
<1> QED
  BY <1>2, <1>3

\* The clone.
LEMMA ProjectsGit == ASSUME Projects!IndInv, Projects!GitMakes \/ Projects!GitEnds \/ Projects!Told PROVE Projects!IndInv'
<1> USE ProjectsAssumption DEF Projects!IndInv, Projects!TypeOK
<1>0. x3.scan \in Projects!Scans /\ x3 \in Projects!Servers /\ x4 \in [Project -> {"gone", "plain", "built"}]
      /\ (x3.scanning <=> x3.scan.at # "none")
  BY DEF Projects!Servers, Projects!NothingStuck
<1>1. ASSUME NEW j \in {"made", "done", "failed"}, x3' = [x3 EXCEPT !.job = j], x3.job \in {"begun", "made"}, UNCHANGED <<x1, x2, x5>>,
             x4' = x4 \/ (x3.job = "begun" /\ x4' = [x4 EXCEPT ![Clone] = "plain"]) \/ x4' = [x4 EXCEPT ![Clone] = "gone"]
      PROVE  Projects!IndInv'
  <2>1. x3' \in Projects!Servers /\ x3'.scan = x3.scan /\ x3'.scanning = x3.scanning /\ x3'.job = j
    BY <1>0, <1>1 DEF Projects!Servers
  <2>2. x4' \in [Project -> {"gone", "plain", "built"}]
    BY <1>0, <1>1
  <2>3. ASSUME NEW c \in x2, c.is = "removed" PROVE x4'[c.project] = x4[c.project]
    BY <1>0, <1>1, <2>3 DEF Projects!CloneIsMadeOnce, Projects!AnswersAreSound, Projects!AnswerIsSound
  <2>4. Projects!CloneIsMadeOnce' /\ Projects!CloneIsSeen'
    BY <1>1, <2>1 DEF Projects!CloneIsMadeOnce, Projects!CloneIsSeen
  <2> QED
    BY <1>0, <1>1, <2>1, <2>2, <2>3, <2>4, ProjectsBehind
<1>2. CASE Projects!GitMakes
  BY <1>1, <1>2 DEF Projects!GitMakes
<1>3. CASE Projects!GitEnds
  BY <1>1, <1>3 DEF Projects!GitEnds
<1>4. CASE Projects!Told
  <2> DEFINE t == Projects!TriggerScan(x3)
  <2>1. /\ t \in Projects!Servers /\ t.scanning /\ t.scan \in Projects!Scans /\ t.scan.at = IF x3.scanning THEN x3.scan.at ELSE "begun"
        /\ t.scan.left = x3.scan.left /\ t.scan.got = x3.scan.got /\ t.job = x3.job /\ t.listed = x3.listed /\ t.missed = x3.missed
    BY <1>0, ProjectsTriggered
  <2>2. x3' = [t EXCEPT !.job = "told", !.missed = x3.scanning] /\ x3.job = "done" /\ UNCHANGED <<x1, x2, x4, x5>>
    BY <1>4 DEF Projects!Told
  <2> HIDE DEF t
  <2>3. x3.scanning \in BOOLEAN
    BY <1>0 DEF Projects!Servers
  <2>4. x3' \in Projects!Servers
    BY <2>1, <2>2, <2>3, Zenon DEF Projects!Servers
  <2>5. x3'.scanning = t.scanning /\ x3'.scan = t.scan /\ x3'.job = "told" /\ x3'.missed = x3.scanning
    BY <2>1, <2>2 DEF Projects!Servers
  <2>6. Projects!CloneIsMadeOnce' /\ Projects!CloneIsSeen'
    BY <2>1, <2>2, <2>5 DEF Projects!CloneIsMadeOnce, Projects!CloneIsSeen
  <2>7. x3'.scanning <=> x3'.scan.at # "none"
    BY <1>0, <2>1, <2>5
  <2> QED
    BY <1>0, <2>2, <2>4, <2>5, <2>6, <2>7, ProjectsBehind
<1> QED
  BY <1>2, <1>3, <1>4

\* An answer, or the next thing that is done for it.
LEMMA ProjectsNextIs ==
    ASSUME NEW c \in Projects!Requests, NEW is \in {"asked", "known", "found", "removed", "alive", "read", "done", "failed"},
           NEW got \in {"no", "plain", "built", "none", "running", "done", "failed", "told"}, Projects!Gets(c, is, got)
    PROVE  \E d \in Projects!Requests :
             /\ x2' = (x2 \ {c}) \cup {d} /\ d.kind = c.kind /\ d.project = c.project /\ d.is = is /\ d.is # "sent"
             /\ d.got = got /\ d.list = c.list
<1> DEFINE d == [c EXCEPT !.is = is, !.got = got]
<1>1. d \in Projects!Requests /\ d.kind = c.kind /\ d.project = c.project /\ d.is = is /\ d.got = got /\ d.list = c.list
  BY ZenonT(60) DEF Projects!Requests
<1>2. x2' = (x2 \ {c}) \cup {d}
  BY DEF Projects!Gets
<1> HIDE DEF d
<1> QED
  BY <1>1, <1>2

\* So does a list that is read.
LEMMA ProjectsListServed == ASSUME Projects!IndInv, NEW c \in x2, Projects!ListServed(c) PROVE Projects!IndInv'
<1> USE DEF Projects!IndInv, Projects!TypeOK
<1>0. /\ x3.scan \in Projects!Scans /\ x3 \in Projects!Servers /\ x4 \in [Project -> {"gone", "plain", "built"}] /\ c \in Projects!Requests
      /\ (x3.scanning <=> x3.scan.at # "none") /\ x3.scanning \in BOOLEAN /\ x3.listed \in [Project -> {"no", "plain", "built"}]
      /\ c.got \in {"no", "plain", "built", "none", "running", "done", "failed", "told"}
  BY DEF Projects!Servers, Projects!NothingStuck, Projects!Requests
<1>1. c.kind \in {"list", "scan"} /\ UNCHANGED <<x1, x4, x5>>
  BY DEF Projects!ListServed
<1>2. CASE Projects!At(c, "asked") /\ x3' = Projects!TriggerScan(x3)
  <2>1. PICK d \in Projects!Requests : /\ x2' = (x2 \ {c}) \cup {d} /\ d.kind = c.kind /\ d.project = c.project /\ d.is = "asked"
    BY <1>0, <1>2, ProjectsNextIs DEF Projects!At
  <2> DEFINE t == Projects!TriggerScan(x3)
  <2>2. /\ t \in Projects!Servers /\ t.scanning /\ t.scan \in Projects!Scans /\ t.scan.at = IF x3.scanning THEN x3.scan.at ELSE "begun"
        /\ t.scan.left = x3.scan.left /\ t.scan.got = x3.scan.got /\ t.job = x3.job /\ t.listed = x3.listed /\ t.missed = x3.missed
    BY <1>0, ProjectsTriggered
  <2>3. x3' = t
    BY <1>2
  <2> HIDE DEF t
  <2>4. Projects!CloneIsMadeOnce'
    BY <1>1, <2>1, <2>2, <2>3 DEF Projects!CloneIsMadeOnce
  <2>5. Projects!CloneIsSeen'
    BY <1>0, <1>1, <2>1, <2>2, <2>3 DEF Projects!CloneIsSeen
  <2>6. Projects!AnswerIsSound(d)'
    BY <1>1, <2>1 DEF Projects!AnswerIsSound
  <2>7. (x3'.scanning <=> x3'.scan.at # "none") /\ x3' \in Projects!Servers /\ x3'.job = x3.job
    BY <1>0, <2>2, <2>3
  <2> QED
    BY <1>0, <1>1, <2>1, <2>4, <2>5, <2>6, <2>7, ProjectsServed
<1>3. CASE x2' = (x2 \ {c}) \cup {[c EXCEPT !.is = "done", !.list = [scanning |-> x3.scanning, listed |-> x3.listed]]} /\ UNCHANGED x3
  <2>1. PICK l \in Projects!Listing : l = [scanning |-> x3.scanning, listed |-> x3.listed]
    BY <1>0 DEF Projects!Listing
  <2>2. PICK d \in Projects!Requests : /\ x2' = (x2 \ {c}) \cup {d} /\ d.kind = c.kind /\ d.project = c.project /\ d.is = "done" /\ d.list = l
    <3> DEFINE d == [c EXCEPT !.is = "done", !.list = l]
    <3>1. d \in Projects!Requests /\ d.kind = c.kind /\ d.project = c.project /\ d.is = "done" /\ d.list = l
      BY <1>0, <2>1 DEF Projects!Requests
    <3>2. x2' = (x2 \ {c}) \cup {d}
      BY <1>3, <2>1
    <3> HIDE DEF d
    <3> QED
      BY <3>1, <3>2
  <2>3. UNCHANGED x3
    BY <1>3
  <2>4. Projects!AnswerIsSound(d)'
    BY <1>1, <2>2 DEF Projects!AnswerIsSound
  <2>5. Projects!CloneIsMadeOnce' /\ Projects!CloneIsSeen'
    BY <1>1, <2>2, <2>3 DEF Projects!CloneIsMadeOnce, Projects!CloneIsSeen
  <2> QED
    BY <1>0, <1>1, <2>2, <2>3, <2>4, <2>5, ProjectsServed
<1> QED
  BY <1>2, <1>3 DEF Projects!ListServed

\* A project's request, on its way.
LEMMA ProjectsMoves ==
    ASSUME Projects!IndInv, NEW c \in x2,
           \/ Projects!Known(c) \/ Projects!Removed(c) \/ Projects!Dropped(c) \/ Projects!Statted(c) \/ Projects!Rescans(c)
           \/ Projects!Stored(c) \/ Projects!Cloned(c) \/ Projects!StatusServed(c) \/ Projects!Lost(c)
    PROVE  Projects!IndInv'
<1> USE ProjectsAssumption DEF Projects!IndInv, Projects!TypeOK
<1>0. /\ x3.scan \in Projects!Scans /\ x3 \in Projects!Servers /\ x4 \in [Project -> {"gone", "plain", "built"}] /\ c \in Projects!Requests
      /\ (x3.scanning <=> x3.scan.at # "none") /\ x3.listed \in [Project -> {"no", "plain", "built"}]
      /\ c.got \in {"no", "plain", "built", "none", "running", "done", "failed", "told"} /\ Projects!AnswerIsSound(c)
  BY DEF Projects!Servers, Projects!NothingStuck, Projects!Requests, Projects!AnswersAreSound
<1>1. ASSUME UNCHANGED <<x1, x3, x5>>, NEW is \in {"asked", "known", "found", "removed", "alive", "read", "done", "failed"},
             NEW got \in {"no", "plain", "built", "none", "running", "done", "failed", "told"}, Projects!Gets(c, is, got),
             x4' \in [Project -> {"gone", "plain", "built"}], \A p \in Project : x4[p] = "gone" => x4'[p] = "gone",
             is \in {"known", "found", "removed", "alive", "read"} => c.kind \in {"rescan", "clean", "delete"},
             is = "removed" => c.kind = "delete" /\ x4'[c.project] = "gone",
             is = "done" => c.kind \notin {"list", "scan", "rescan", "clean"}, is = "read" => got \in {"plain", "built"},
             is \in {"found", "removed"} /\ c.project = Clone => x3.listed[Clone] # "no" \/ c.is = "found"
      PROVE  Projects!IndInv'
  <2>1. PICK d \in Projects!Requests :
           /\ x2' = (x2 \ {c}) \cup {d} /\ d.kind = c.kind /\ d.project = c.project /\ d.is = is /\ d.is # "sent" /\ d.got = got
    BY SMTT(30), <1>0, <1>1, ProjectsNextIs
  <2>2. Projects!AnswerIsSound(d)'
    BY <1>0, <1>1, <2>1 DEF Projects!AnswerIsSound
  <2>3. Projects!CloneIsMadeOnce' /\ Projects!CloneIsSeen'
    BY <1>1, <2>1 DEF Projects!CloneIsMadeOnce, Projects!CloneIsSeen
  <2> QED
    BY <1>0, <1>1, <2>1, <2>2, <2>3, ProjectsServed
<1>2. CASE Projects!Known(c)
  <2> DEFINE known == IF c.kind = "clean" THEN {"built"} ELSE {"plain", "built"}
             is == IF x3.listed[c.project] \notin known THEN "failed" ELSE IF c.kind = "rescan" THEN "known" ELSE "found"
  <2>1. Projects!Gets(c, is, c.got) /\ UNCHANGED <<x1, x3, x4, x5>> /\ c.kind \in {"rescan", "clean", "delete"}
    BY <1>2 DEF Projects!Known, Projects!At
  <2>2. is \in {"failed", "known", "found"} /\ (is = "found" => x3.listed[c.project] # "no")
    OBVIOUS
  <2> HIDE DEF is
  <2> QED
    BY <1>0, <1>1, <2>1, <2>2
<1>3. CASE Projects!Removed(c)
  <2>1. c.is = "found" /\ c.kind \in {"rescan", "clean", "delete"} /\ c.project \in Project /\ UNCHANGED <<x1, x3, x5>>
    BY <1>0, <1>3 DEF Projects!Removed, Projects!AnswerIsSound
  <2>2. CASE Projects!At(c, "failed") /\ UNCHANGED x4
    BY <1>0, <1>1, <2>1, <2>2 DEF Projects!At
  <2>3. CASE /\ x4' = [x4 EXCEPT ![c.project] = IF c.kind = "delete" THEN "gone" ELSE IF @ = "built" THEN "plain" ELSE @]
             /\ Projects!At(c, IF c.kind = "delete" THEN "removed" ELSE "known")
    <3> DEFINE is == IF c.kind = "delete" THEN "removed" ELSE "known"
    <3>1. Projects!Gets(c, is, c.got)
      BY <2>3 DEF Projects!At
    <3>2. is \in {"removed", "known"} /\ (is = "removed" => c.kind = "delete")
      OBVIOUS
    <3>3. /\ x4' \in [Project -> {"gone", "plain", "built"}] /\ \A p \in Project : x4[p] = "gone" => x4'[p] = "gone"
          /\ c.kind = "delete" => x4'[c.project] = "gone"
      BY <1>0, <2>1, <2>3
    <3> HIDE DEF is
    <3> QED
      BY <1>0, <1>1, <2>1, <3>1, <3>2, <3>3
  <2> QED
    BY <1>3, <2>2, <2>3 DEF Projects!Removed
<1>4. CASE Projects!Rescans(c)
  <2>1. Projects!Seen(c.project) \in {"plain", "built"} /\ c.kind \in {"rescan", "clean", "delete"}
    BY <1>0, <1>4 DEF Projects!Seen, Projects!Rescans, Projects!AnswerIsSound
  <2> QED
    BY <1>0, <1>1, <1>4, <2>1 DEF Projects!Rescans
<1>5. CASE Projects!StatusServed(c)
  <2> DEFINE got == IF x3.job \in {"begun", "made"} THEN "running" ELSE x3.job
  <2>1. got \in {"none", "running", "done", "failed", "told"}
    BY <1>0 DEF Projects!Servers
  <2>2. Projects!Gets(c, "done", got) /\ c.kind = "status" /\ UNCHANGED <<x1, x3, x4, x5>>
    BY <1>5 DEF Projects!StatusServed
  <2> HIDE DEF got
  <2> QED
    BY <1>0, <1>1, <2>1, <2>2
<1>6. CASE Projects!Lost(c)
  BY <1>0, <1>1, <1>6 DEF Projects!Lost, Projects!At
\* What the list loses, or has replaced.
<1>7. ASSUME UNCHANGED <<x1, x4, x5>>, NEW is \in {"done", "failed"}, Projects!At(c, is), c.is \in {"known", "removed", "read"},
             NEW s \in {"no", "plain", "built"}, x3' = [x3 EXCEPT !.listed[c.project] = s],
             s = "no" => x4[c.project] = "gone" \/ x3.listed[c.project] = "no", s # "no" => x3.listed[c.project] # "no",
             is = "done" => c.is # "known", is = "done" /\ c.kind \in {"rescan", "clean"} => c.is = "read"
      PROVE  Projects!IndInv'
  <2>1. PICK d \in Projects!Requests :
           /\ x2' = (x2 \ {c}) \cup {d} /\ d.kind = c.kind /\ d.project = c.project /\ d.is = is /\ d.is # "sent" /\ d.got = c.got
    BY <1>0, <1>7, ProjectsNextIs DEF Projects!At
  <2>2. c.project \in Project /\ c.kind \in {"rescan", "clean", "delete"}
    BY <1>0, <1>7 DEF Projects!AnswerIsSound
  <2> DEFINE l == [x3.listed EXCEPT ![c.project] = s]
  <2>3. l \in [Project -> {"no", "plain", "built"}] /\ \A p \in Project : l[p] = IF p = c.project THEN s ELSE x3.listed[p]
    BY <1>0, <2>2
  <2>4. x3' = [x3 EXCEPT !.listed = l]
    BY <1>0, <1>7 DEF Projects!Servers
  <2> HIDE DEF l
  <2>5. x3' \in Projects!Servers /\ x3'.listed = l /\ x3'.scan = x3.scan /\ x3'.scanning = x3.scanning /\ x3'.job = x3.job /\ x3'.missed = x3.missed
    BY <1>0, <2>3, <2>4 DEF Projects!Servers
  <2>6. Projects!AnswerIsSound(d)'
    BY <1>0, <1>7, <2>1, <2>2 DEF Projects!AnswerIsSound
  <2>7. Projects!CloneIsMadeOnce' /\ Projects!CloneIsSeen'
    BY <1>7, <2>1, <2>3, <2>5 DEF Projects!CloneIsMadeOnce, Projects!CloneIsSeen
  <2> QED
    BY <1>0, <1>7, <2>1, <2>5, <2>6, <2>7, ProjectsServed
<1>8. CASE Projects!Dropped(c)
  <2>1. c.is = "removed" /\ c.kind = "delete" /\ x4[c.project] = "gone" /\ UNCHANGED <<x1, x4, x5>> /\ x3' = [x3 EXCEPT !.listed[c.project] = "no"]
        /\ \E is \in {"done", "failed"} : Projects!At(c, is)
    BY <1>0, <1>8 DEF Projects!Dropped, Projects!AnswerIsSound
  <2> QED
    BY <1>7, <2>1
<1>9. CASE Projects!Statted(c)
  <2>1. CASE x4[c.project] = "gone"
    BY <1>7, <1>9, <2>1 DEF Projects!Statted
  <2>2. CASE x4[c.project] # "gone"
    BY <1>0, <1>1, <1>9, <2>2 DEF Projects!Statted, Projects!At, Projects!AnswerIsSound
  <2> QED
    BY <2>1, <2>2
<1>10. CASE Projects!Stored(c)
  <2> DEFINE s == IF x3.listed[c.project] = "no" THEN "no" ELSE c.got
  <2>1. c.is = "read" /\ c.got \in {"plain", "built"} /\ c.project \in Project
    BY <1>0, <1>10 DEF Projects!Stored, Projects!AnswerIsSound
  <2>2. s \in {"no", "plain", "built"} /\ (s = "no" => x3.listed[c.project] = "no") /\ (s # "no" => x3.listed[c.project] # "no")
    BY <2>1
  <2>3. x3' = [x3 EXCEPT !.listed[c.project] = s] /\ UNCHANGED <<x1, x4, x5>> /\ \E is \in {"done", "failed"} : Projects!At(c, is)
    BY <1>0, <1>10, <2>1 DEF Projects!Stored, Projects!Servers
  <2> HIDE DEF s
  <2> QED
    BY <1>7, <2>1, <2>2, <2>3
<1>11. CASE Projects!Cloned(c)
  <2>1. CASE Projects!At(c, "failed") /\ UNCHANGED x3
    BY <1>0, <1>1, <1>11, <2>1 DEF Projects!Cloned, Projects!At
  <2>2. CASE Projects!At(c, "done") /\ x3' = [x3 EXCEPT !.job = "begun"]
    <3>1. PICK d \in Projects!Requests : /\ x2' = (x2 \ {c}) \cup {d} /\ d.kind = c.kind /\ d.project = c.project /\ d.is = "done"
      BY <1>0, <2>2, ProjectsNextIs DEF Projects!At
    <3>2. c.kind = "clone" /\ c.is = "sent" /\ x3.job = "none" /\ UNCHANGED <<x1, x4, x5>>
      BY <1>11 DEF Projects!Cloned, Projects!CloneIsAskedOnce
    <3>3. x3' \in Projects!Servers /\ x3'.scan = x3.scan /\ x3'.scanning = x3.scanning /\ x3'.job = "begun" /\ x3'.listed = x3.listed
      BY <1>0, <2>2 DEF Projects!Servers
    <3>4. Projects!AnswerIsSound(d)'
      BY <3>1, <3>2 DEF Projects!AnswerIsSound
    <3>5. Projects!CloneIsMadeOnce' /\ Projects!CloneIsSeen'
      BY <3>1, <3>2, <3>3 DEF Projects!CloneIsMadeOnce, Projects!CloneIsSeen
    <3> QED
      BY <1>0, <3>1, <3>2, <3>3, <3>4, <3>5, ProjectsServed
  <2> QED
    BY <1>11, <2>1, <2>2 DEF Projects!Cloned
<1> QED
  BY <1>2, <1>3, <1>4, <1>5, <1>6, <1>8, <1>9, <1>10, <1>11

\* So does what the page asks for.
LEMMA ProjectsSends ==
    ASSUME Projects!IndInv, Projects!Poll \/ Projects!RescanAll \/ (\E p \in Project : Projects!Rescan(p)) \/ Projects!Confirm
                            \/ Projects!Submit \/ Projects!PollJob
    PROVE  Projects!IndInv'
<1>0. /\ x1 \in Projects!Pages /\ x5 \in Nat /\ x5 + 1 \in Nat /\ x2 \subseteq x2 /\ 0 \in Nat /\ None \in Project \cup {None}
      /\ x1.busy \subseteq {"clean", "delete"}
  BY DEF Projects!IndInv, Projects!TypeOK, Projects!Pages
<1>1. CASE Projects!Poll
  <2>1. x1' = [x1 EXCEPT !.reading = TRUE, !.loading = TRUE] /\ x2' = x2 \cup {Projects!Call("list", None, 0)} /\ UNCHANGED <<x3, x4, x5>>
    BY <1>1 DEF Projects!Poll, Projects!Load
  <2>2. /\ x1' \in Projects!Pages /\ x1'.rescanning = x1.rescanning /\ x1'.busy = x1.busy /\ x1'.clone = x1.clone
    BY <1>0, <2>1 DEF Projects!Pages
  <2> QED
    BY <1>0, <2>1, <2>2, ProjectsSent
<1>2. CASE Projects!RescanAll
  <2>1. x1' = [x1 EXCEPT !.loading = TRUE] /\ x2' = x2 \cup {Projects!Call("scan", None, x5)} /\ UNCHANGED <<x3, x4>> /\ x5' = x5 + 1
    BY <1>2 DEF Projects!RescanAll, Projects!Acts
  <2>2. /\ x1' \in Projects!Pages /\ x1'.rescanning = x1.rescanning /\ x1'.busy = x1.busy /\ x1'.clone = x1.clone /\ x1'.reading = x1.reading
    BY <1>0, <2>1 DEF Projects!Pages
  <2> QED
    BY <1>0, <2>1, <2>2, ProjectsSent
<1>3. ASSUME NEW p \in Project, Projects!Rescan(p) PROVE Projects!IndInv'
  <2>1. x1' = [x1 EXCEPT !.rescanning = x1.rescanning \cup {p}] /\ x2' = x2 \cup {Projects!Call("rescan", p, x5)}
        /\ UNCHANGED <<x3, x4>> /\ x5' = x5 + 1
    BY <1>3 DEF Projects!Rescan, Projects!Acts
  <2>2. /\ x1' \in Projects!Pages /\ x1'.rescanning = x1.rescanning \cup {p} /\ x1'.busy = x1.busy /\ x1'.clone = x1.clone
        /\ x1'.reading = x1.reading /\ x1'.loading = x1.loading
    BY <1>0, <2>1 DEF Projects!Pages
  <2> QED
    BY <1>0, <2>1, <2>2, ProjectsSent
<1>4. CASE Projects!Confirm
  <2> DEFINE k == x1.target.kind
             p == x1.target.project
  <2>1. k \in {"clean", "delete"} /\ p \in Project /\ k \notin x1.busy
    BY <1>0, <1>4 DEF Projects!Confirm, Projects!Pages
  <2>2. x1' = [x1 EXCEPT !.busy = x1.busy \cup {k}] /\ x2' = x2 \cup {Projects!Call(k, p, x5)} /\ UNCHANGED <<x3, x4>> /\ x5' = x5 + 1
    BY <1>4 DEF Projects!Confirm, Projects!Acts
  <2> HIDE DEF k, p
  <2>3. /\ x1' \in Projects!Pages /\ x1'.rescanning = x1.rescanning /\ x1'.busy = x1.busy \cup {k} /\ x1'.clone = x1.clone
        /\ x1'.reading = x1.reading /\ x1'.loading = x1.loading
    BY <1>0, <2>1, <2>2 DEF Projects!Pages
  <2>4. {k} \cap {"clean", "delete"} = {k} /\ k \notin {"list", "scan", "clone", "rescan"} /\ p \in Project \cup {None}
    BY <2>1
  <2> QED
    BY <1>0, <2>1, <2>2, <2>3, <2>4, ProjectsSent
<1>5. CASE Projects!Submit
  <2>1. x1' = [x1 EXCEPT !.clone = "starting"] /\ x2' = x2 \cup {Projects!Call("clone", Clone, x5)} /\ UNCHANGED <<x3, x4>> /\ x5' = x5 + 1
        /\ x3.job = "none" /\ \A c \in x2 : c.kind # "clone"
    BY <1>5 DEF Projects!Submit, Projects!Acts
  <2>2. /\ x1' \in Projects!Pages /\ x1'.rescanning = x1.rescanning /\ x1'.busy = x1.busy
        /\ x1'.reading = x1.reading /\ x1'.loading = x1.loading
    BY <1>0, <2>1 DEF Projects!Pages
  <2> QED
    BY <1>0, <2>1, <2>2, ProjectsSent, ProjectsAssumption
<1>6. CASE Projects!PollJob
  <2>1. x2' = x2 \cup {Projects!Call("status", None, 0)} /\ UNCHANGED <<x1, x3, x4, x5>>
    BY <1>6 DEF Projects!PollJob
  <2> QED
    BY <1>0, <2>1, ProjectsSent
<1> QED
  BY <1>1, <1>2, <1>3, <1>4, <1>5, <1>6

\* So do its dialogs.
LEMMA ProjectsDialogs ==
    ASSUME Projects!IndInv, \/ Projects!Dismiss \/ Projects!CloseClone \/ \E p \in Project : Projects!Ask("delete", p) \/ Projects!Ask("clean", p)
    PROVE  Projects!IndInv'
<1>0. x1 \in Projects!Pages /\ x5 \in Nat /\ Projects!NothingStuck /\ Projects!SentIsBusy
  BY DEF Projects!IndInv, Projects!TypeOK
<1>1. ASSUME x1' \in Projects!Pages, x2' \subseteq x2, \A c \in x2 : c.kind # "status" => c \in x2', UNCHANGED <<x3, x4, x5>>,
             x1'.loading = x1.loading, x1'.reading = x1.reading, x1'.rescanning = x1.rescanning, x1'.busy = x1.busy,
             x1'.clone = x1.clone \/ x1'.clone = "form"
      PROVE  Projects!IndInv'
  <2>1. Projects!SentIsBusy'
    BY <1>0, <1>1 DEF Projects!SentIsBusy
  <2>2. \A b \in x1'.busy : \E c \in x2' : c.kind = b
    <3>1. \A b \in x1.busy : b \in {"clean", "delete"}
      BY <1>0 DEF Projects!Pages
    <3> QED
      BY <1>0, <1>1, <3>1 DEF Projects!NothingStuck
  <2>3. Projects!NothingStuck'
    BY <1>0, <1>1, <2>2 DEF Projects!NothingStuck
  <2> QED
    BY <1>0, <1>1, <2>1, <2>3, ProjectsHeard
<1>2. CASE Projects!Dismiss
  <2>1. x1' = [x1 EXCEPT !.target = None] /\ UNCHANGED <<x2, x3, x4, x5>>
    BY <1>2 DEF Projects!Dismiss
  <2>2. /\ x1' \in Projects!Pages /\ x1'.loading = x1.loading /\ x1'.reading = x1.reading /\ x1'.rescanning = x1.rescanning
        /\ x1'.busy = x1.busy /\ x1'.clone = x1.clone
    BY <1>0, <2>1 DEF Projects!Pages
  <2> QED
    BY <1>1, <2>1, <2>2
<1>3. ASSUME NEW p \in Project, NEW k \in {"clean", "delete"}, Projects!Ask(k, p) PROVE Projects!IndInv'
  <2> DEFINE t == [kind |-> k, project |-> p]
  <2>1. t \in [kind : {"clean", "delete"}, project : Project]
    OBVIOUS
  <2>2. x1' = [x1 EXCEPT !.target = t] /\ UNCHANGED <<x2, x3, x4, x5>>
    BY <1>3 DEF Projects!Ask
  <2> HIDE DEF t
  <2>3. /\ x1' \in Projects!Pages /\ x1'.loading = x1.loading /\ x1'.reading = x1.reading /\ x1'.rescanning = x1.rescanning
        /\ x1'.busy = x1.busy /\ x1'.clone = x1.clone
    BY <1>0, <2>1, <2>2 DEF Projects!Pages
  <2> QED
    BY <1>1, <2>2, <2>3
<1>4. CASE Projects!CloseClone
  <2>1. x1' = [x1 EXCEPT !.clone = "form"] /\ x2' = {c \in x2 : c.kind # "status"} /\ UNCHANGED <<x3, x4, x5>>
    BY <1>4 DEF Projects!CloseClone
  <2>2. /\ x1' \in Projects!Pages /\ x1'.loading = x1.loading /\ x1'.reading = x1.reading /\ x1'.rescanning = x1.rescanning
        /\ x1'.busy = x1.busy /\ x1'.clone = "form"
    BY <1>0, <2>1 DEF Projects!Pages
  <2> QED
    BY <1>1, <2>1, <2>2
<1> QED
  BY <1>2, <1>3, <1>4

\* A row of the page that shows one, and what the page is otherwise.
LEMMA ProjectsRow ==
    ASSUME NEW v \in Projects!Pages, v.shown = x1.shown, NEW p \in Project, NEW is \in {"no", "plain", "built"},
           NEW q, q = Projects!Row(v, p, is)
    PROVE  /\ q \in Projects!Pages /\ q.loading = v.loading /\ q.reading = v.reading /\ q.rescanning = v.rescanning /\ q.busy = v.busy
           /\ q.clone = v.clone /\ q.target = v.target
           /\ q.shown = x1.shown \/ (p \in Projects!Rows /\ \A r \in Project : r # p => q.shown.listed[r] = x1.shown.listed[r])
<1>1. CASE p \notin Projects!Rows
  BY <1>1 DEF Projects!Row
<1>2. CASE p \in Projects!Rows
  <2> DEFINE l == [x1.shown.listed EXCEPT ![p] = is]
             s == [x1.shown EXCEPT !.listed = l]
  <2>1. x1.shown \in Projects!Listing
    BY <1>2 DEF Projects!Rows, Projects!Pages
  <2>2. l \in [Project -> {"no", "plain", "built"}] /\ \A r \in Project : r # p => l[r] = x1.shown.listed[r]
    BY <2>1 DEF Projects!Listing
  <2> HIDE DEF l
  <2>3. s \in Projects!Listing /\ s.listed = l
    BY <2>1, <2>2 DEF Projects!Listing
  <2>4. q = [v EXCEPT !.shown = s]
    BY <1>2, <2>1 DEF Projects!Row, Projects!Pages, Projects!Listing, l
  <2> HIDE DEF s
  <2> QED
    BY <1>2, <2>2, <2>3, <2>4 DEF Projects!Pages
<1> QED
  BY <1>1, <1>2

\* So do the answers it receives.
LEMMA ProjectsAnswers ==
    ASSUME Projects!IndInv, NEW c \in x2,
           Projects!ListRead(c) \/ Projects!Rescanned(c) \/ Projects!Confirmed(c) \/ Projects!Started(c) \/ Projects!Polled(c)
    PROVE  /\ Projects!IndInv' /\ UNCHANGED <<x3, x4, x5>> /\ c \in x2 \ x2'
           /\ \/ c.kind \in {"list", "scan"} \/ x1'.shown = x1.shown
              \/ \E p \in Projects!Rows : \A r \in Project : r # p => x1'.shown.listed[r] = x1.shown.listed[r]
<1>0. x1 \in Projects!Pages /\ x5 \in Nat /\ Projects!NothingStuck /\ Projects!SentIsBusy /\ c \in Projects!Requests /\ Projects!AnswerIsSound(c)
      /\ Projects!OnceAtATime
  BY DEF Projects!IndInv, Projects!TypeOK, Projects!AnswersAreSound
<1>1. ASSUME x1' \in Projects!Pages, x2' = x2 \ {c}, UNCHANGED <<x3, x4, x5>>,
             x1'.loading => x1.loading /\ c.kind \notin {"list", "scan"}, x1'.reading => x1.reading /\ c.kind # "list",
             \A p \in x1'.rescanning : p \in x1.rescanning /\ (c.kind = "rescan" => p # c.project),
             x1'.busy = x1.busy \ {c.kind}, x1'.clone = "starting" => x1.clone = "starting" /\ c.kind # "clone"
      PROVE  Projects!IndInv'
  <2>1. Projects!SentIsBusy'
    BY <1>0, <1>1 DEF Projects!SentIsBusy, Projects!OnceAtATime
  <2>2. \A b \in x1'.busy : \E d \in x2' : d.kind = b
    BY <1>0, <1>1 DEF Projects!NothingStuck
  <2>3. (x1'.loading => \E d \in x2' : d.kind \in {"list", "scan"}) /\ (x1'.reading => \E d \in x2' : d.kind = "list")
    BY <1>0, <1>1 DEF Projects!NothingStuck
  <2>4. \A p \in x1'.rescanning : \E d \in x2' : d.kind = "rescan" /\ d.project = p
    BY <1>0, <1>1 DEF Projects!NothingStuck
  <2>5. (x1'.clone = "starting" => \E d \in x2' : d.kind = "clone") /\ (x3'.scanning <=> x3'.scan.at # "none")
    BY <1>0, <1>1 DEF Projects!NothingStuck
  <2>6. Projects!NothingStuck'
    BY <2>2, <2>3, <2>4, <2>5 DEF Projects!NothingStuck
  <2> QED
    BY <1>0, <1>1, <2>1, <2>6, ProjectsHeard
<1>2. x1.busy \subseteq {"clean", "delete"} /\ x1.busy \ {"x"} = x1.busy
  BY <1>0 DEF Projects!Pages
<1>3. CASE Projects!ListRead(c)
  <2> DEFINE s == IF c.is = "done" THEN c.list ELSE x1.shown
             b == x1.reading /\ c.kind = "scan"
  <2>1. s \in {None} \cup Projects!Listing /\ b \in BOOLEAN /\ c.kind \in {"list", "scan"} /\ x2' = x2 \ {c} /\ UNCHANGED <<x3, x4, x5>>
    BY <1>0, <1>3 DEF Projects!ListRead, Projects!AnswerIsSound, Projects!Pages
  <2>2. x1' = [x1 EXCEPT !.shown = s, !.loading = FALSE, !.reading = b]
    BY <1>3 DEF Projects!ListRead
  <2>3. b => x1.reading /\ c.kind # "list"
    OBVIOUS
  <2> HIDE DEF s, b
  <2>4. FALSE \in BOOLEAN
    OBVIOUS
  <2>5. x1' \in Projects!Pages
    BY <1>0, <2>1, <2>2, <2>4, Zenon DEF Projects!Pages
  <2>6. x1'.loading = FALSE /\ x1'.reading = b /\ x1'.rescanning = x1.rescanning /\ x1'.busy = x1.busy /\ x1'.clone = x1.clone
    BY <1>0, <2>2 DEF Projects!Pages
  <2>7. x1.busy = x1.busy \ {c.kind}
    BY <1>2, <2>1
  <2> QED
    BY <1>1, <2>1, <2>3, <2>5, <2>6, <2>7
<1>4. CASE Projects!Rescanned(c)
  <2> DEFINE over == [x1 EXCEPT !.rescanning = x1.rescanning \ {c.project}]
  <2>1. over \in Projects!Pages /\ over.shown = x1.shown /\ over.loading = x1.loading /\ over.reading = x1.reading
        /\ over.rescanning = x1.rescanning \ {c.project} /\ over.busy = x1.busy /\ over.clone = x1.clone
    BY <1>0 DEF Projects!Pages
  <2>2. c.kind = "rescan" /\ c.project \in Project /\ x2' = x2 \ {c} /\ UNCHANGED <<x3, x4, x5>> /\ (c.is = "done" => c.got \in {"no", "plain", "built"})
    BY <1>0, <1>4 DEF Projects!Rescanned, Projects!AnswerIsSound
  <2>3. x1' = over \/ (c.is = "done" /\ x1' = Projects!Row(over, c.project, c.got))
    BY <1>4 DEF Projects!Rescanned
  <2> HIDE DEF over
  <2>4. /\ x1' \in Projects!Pages /\ x1'.loading = x1.loading /\ x1'.reading = x1.reading /\ x1'.rescanning = x1.rescanning \ {c.project}
        /\ x1'.busy = x1.busy /\ x1'.clone = x1.clone
        /\ x1'.shown = x1.shown \/ \E p \in Projects!Rows : \A r \in Project : r # p => x1'.shown.listed[r] = x1.shown.listed[r]
    BY <2>1, <2>2, <2>3, ProjectsRow
  <2>5. x1.busy = x1.busy \ {c.kind}
    BY <1>2, <2>2
  <2> QED
    BY <1>1, <2>2, <2>4, <2>5
<1>5. CASE Projects!Confirmed(c)
  <2> DEFINE over == [x1 EXCEPT !.busy = x1.busy \ {c.kind}]
             shut == IF x1.target # None /\ x1.target.kind = c.kind THEN [over EXCEPT !.target = None] ELSE over
  <2>1. /\ over \in Projects!Pages /\ over.shown = x1.shown /\ over.loading = x1.loading /\ over.reading = x1.reading
        /\ over.rescanning = x1.rescanning /\ over.busy = x1.busy \ {c.kind} /\ over.clone = x1.clone
        /\ over.target = x1.target
    BY <1>0 DEF Projects!Pages
  <2>2. c.kind \in {"clean", "delete"} /\ c.project \in Project /\ x2' = x2 \ {c} /\ UNCHANGED <<x3, x4, x5>> /\ c.is \in {"done", "failed"}
        /\ (c.is = "done" /\ c.kind = "clean" => c.got \in {"no", "plain", "built"})
    BY <1>0, <1>5 DEF Projects!Confirmed, Projects!AnswerIsSound
  <2>3. \/ x1' = over \/ x1' = Projects!Row(shut, c.project, "no")
        \/ (c.is = "done" /\ c.kind = "clean" /\ x1' = Projects!Row(shut, c.project, c.got))
    <3>1. x1' = IF c.is = "failed" THEN over ELSE Projects!Row(shut, c.project, IF c.kind = "clean" THEN c.got ELSE "no")
      BY <1>5, Zenon DEF Projects!Confirmed
    <3> HIDE DEF over, shut
    <3> QED
      BY <2>2, <3>1
  <2> HIDE DEF over
  <2>4. /\ shut \in Projects!Pages /\ shut.shown = x1.shown /\ shut.loading = x1.loading /\ shut.reading = x1.reading
        /\ shut.rescanning = x1.rescanning /\ shut.busy = x1.busy \ {c.kind} /\ shut.clone = x1.clone
    BY <2>1 DEF Projects!Pages
  <2> HIDE DEF shut
  <2>5. /\ x1' \in Projects!Pages /\ x1'.loading = x1.loading /\ x1'.reading = x1.reading /\ x1'.rescanning = x1.rescanning
        /\ x1'.busy = x1.busy \ {c.kind} /\ x1'.clone = x1.clone
        /\ x1'.shown = x1.shown \/ \E p \in Projects!Rows : \A r \in Project : r # p => x1'.shown.listed[r] = x1.shown.listed[r]
    BY <2>1, <2>2, <2>3, <2>4, ProjectsRow
  <2> QED
    BY <1>1, <2>2, <2>5
<1>6. CASE Projects!Started(c)
  <2> DEFINE to == IF c.is = "done" THEN "polling" ELSE "form"
  <2>1. to \in {"polling", "form"} /\ c.kind = "clone" /\ x2' = x2 \ {c} /\ UNCHANGED <<x3, x4, x5>> /\ x1' = [x1 EXCEPT !.clone = to]
    BY <1>6 DEF Projects!Started
  <2> HIDE DEF to
  <2>2. /\ x1' \in Projects!Pages /\ x1'.loading = x1.loading /\ x1'.reading = x1.reading /\ x1'.rescanning = x1.rescanning
        /\ x1'.busy = x1.busy /\ x1'.clone = to /\ x1'.shown = x1.shown
    BY <1>0, <2>1 DEF Projects!Pages
  <2>3. x1.busy = x1.busy \ {c.kind}
    BY <1>2, <2>1
  <2> QED
    BY <1>1, <2>1, <2>2, <2>3
<1>7. CASE Projects!Polled(c)
  <2>1. c.kind = "status" /\ UNCHANGED <<x3, x4, x5>>
    BY <1>7 DEF Projects!Polled
  <2>2. x1.busy = x1.busy \ {c.kind}
    BY <1>2, <2>1
  <2> DEFINE o == [x1 EXCEPT !.clone = "over"]
  <2>3. /\ o \in Projects!Pages /\ o.loading = x1.loading /\ o.reading = x1.reading /\ o.rescanning = x1.rescanning
        /\ o.busy = x1.busy /\ o.clone = "over" /\ o.shown = x1.shown
    BY <1>0 DEF Projects!Pages
  <2>4. (x1' = x1 /\ x2' = x2 \ {c}) \/ (x1' = o /\ x2' = x2 \ {c}) \/ Projects!Load(o, x2 \ {c})
    BY <1>7 DEF Projects!Polled
  <2> HIDE DEF o
  <2>5. CASE x1' = x1 /\ x2' = x2 \ {c}
    BY <1>0, <1>1, <2>1, <2>2, <2>5
  <2>6. CASE x1' = o /\ x2' = x2 \ {c}
    BY <1>1, <2>1, <2>2, <2>3, <2>6
  <2>7. CASE Projects!Load(o, x2 \ {c}) /\ ~ o.reading
    <3>1. x1' = [o EXCEPT !.reading = TRUE, !.loading = TRUE] /\ x2' = (x2 \ {c}) \cup {Projects!Call("list", None, 0)}
      BY <2>7 DEF Projects!Load
    <3>2. /\ x1' \in Projects!Pages /\ x1'.rescanning = x1.rescanning /\ x1'.busy = x1.busy /\ x1'.clone = "over" /\ x1'.shown = x1.shown
      BY <2>3, <3>1 DEF Projects!Pages
    <3>3. x1.busy \cup ({"list"} \cap {"clean", "delete"}) = x1.busy /\ 0 \in Nat /\ None \in Project \cup {None} /\ x2 \ {c} \subseteq x2
      OBVIOUS
    <3>4. \A d \in x2 : d.kind # "status" => d \in x2 \ {c}
      BY <2>1
    <3>5. Projects!IndInv'
      BY <1>0, <2>1, <3>1, <3>2, <3>3, <3>4, ProjectsSent
    <3>6. c \notin x2'
      BY <2>1, <3>1 DEF Projects!Call
    <3> QED
      BY <2>1, <3>2, <3>5, <3>6
  <2>8. CASE Projects!Load(o, x2 \ {c}) /\ o.reading
    BY <1>1, <2>1, <2>2, <2>3, <2>8 DEF Projects!Load
  <2> QED
    BY <2>4, <2>5, <2>6, <2>7, <2>8
<1> QED
  BY <1>3, <1>4, <1>5, <1>6, <1>7

\* What the scanner and its requests do is the server's.
LEMMA ProjectsListed ==
    ASSUME Projects!IndInv,
           \/ Projects!Discover \/ (\E p \in Project : Projects!ScanOne(p)) \/ Projects!Store \/ Projects!ScanEnds
           \/ Projects!GitMakes \/ Projects!GitEnds \/ Projects!Told
           \/ \E c \in x2 : \/ Projects!ListServed(c) \/ Projects!Known(c) \/ Projects!Removed(c) \/ Projects!Dropped(c) \/ Projects!Statted(c)
                            \/ Projects!Rescans(c) \/ Projects!Stored(c) \/ Projects!Cloned(c) \/ Projects!StatusServed(c) \/ Projects!Lost(c)
    PROVE  x1' = x1 /\ \A p \in Project : x3.listed[p] = "no" /\ x3'.listed[p] # "no" => x3.scan.got[p] # "no"
<1>0. /\ x3 \in Projects!Servers /\ x3.listed \in [Project -> {"no", "plain", "built"}] /\ (x3.scanning <=> x3.scan.at # "none")
      /\ \A c \in x2 : c \in Projects!Requests /\ Projects!AnswerIsSound(c)
  BY DEF Projects!IndInv, Projects!TypeOK, Projects!Servers, Projects!NothingStuck, Projects!AnswersAreSound
<1>1. CASE Projects!Discover \/ (\E p \in Project : Projects!ScanOne(p)) \/ Projects!Store \/ Projects!ScanEnds
  BY <1>0, <1>1 DEF Projects!Discover, Projects!ScanOne, Projects!Store, Projects!ScanEnds, Projects!Servers
<1>2. CASE Projects!GitMakes \/ Projects!GitEnds
  BY <1>0, <1>2 DEF Projects!GitMakes, Projects!GitEnds, Projects!Servers
<1>3. CASE Projects!Told
  <2> DEFINE t == Projects!TriggerScan(x3)
  <2>1. t \in Projects!Servers /\ t.listed = x3.listed
    BY <1>0, ProjectsTriggered
  <2>2. x3' = [t EXCEPT !.job = "told", !.missed = x3.scanning] /\ x1' = x1
    BY <1>3 DEF Projects!Told
  <2> HIDE DEF t
  <2> QED
    BY <2>1, <2>2 DEF Projects!Servers
<1>4. ASSUME NEW c \in x2, Projects!ListServed(c) PROVE x1' = x1 /\ x3'.listed = x3.listed
  BY <1>0, <1>4, ProjectsTriggered DEF Projects!ListServed
<1>5. ASSUME NEW c \in x2, \/ Projects!Known(c) \/ Projects!Removed(c) \/ Projects!Rescans(c) \/ Projects!StatusServed(c) \/ Projects!Lost(c)
      PROVE  x1' = x1 /\ x3' = x3
  BY <1>5 DEF Projects!Known, Projects!Removed, Projects!Rescans, Projects!StatusServed, Projects!Lost
<1>6. ASSUME NEW c \in x2, \/ Projects!Dropped(c) \/ Projects!Statted(c)
      PROVE  x1' = x1 /\ \A p \in Project : x3.listed[p] = "no" => x3'.listed[p] = "no"
  BY <1>0, <1>6 DEF Projects!Dropped, Projects!Statted, Projects!Servers
<1>7. ASSUME NEW c \in x2, Projects!Stored(c)
      PROVE  x1' = x1 /\ \A p \in Project : x3.listed[p] = "no" => x3'.listed[p] = "no"
  BY <1>0, <1>7 DEF Projects!Stored, Projects!Servers
<1>8. ASSUME NEW c \in x2, Projects!Cloned(c) PROVE x1' = x1 /\ x3'.listed = x3.listed
  BY <1>0, <1>8 DEF Projects!Cloned, Projects!Servers
<1> QED
  BY <1>1, <1>2, <1>3, <1>4, <1>5, <1>6, <1>7, <1>8

\* What the page asks for, or closes, shows nothing new.
LEMMA ProjectsShown ==
    ASSUME Projects!IndInv,
           \/ Projects!Poll \/ Projects!RescanAll \/ (\E p \in Project : Projects!Rescan(p)) \/ Projects!Confirm
           \/ Projects!Submit \/ Projects!PollJob \/ Projects!Dismiss \/ Projects!CloseClone
           \/ \E p \in Project : Projects!Ask("delete", p) \/ Projects!Ask("clean", p)
    PROVE  x1'.shown = x1.shown /\ x3' = x3
<1>0. x1 \in Projects!Pages
  BY DEF Projects!IndInv, Projects!TypeOK
<1>1. CASE Projects!Poll \/ Projects!RescanAll \/ \E p \in Project : Projects!Rescan(p)
  BY <1>0, <1>1 DEF Projects!Poll, Projects!Load, Projects!RescanAll, Projects!Rescan, Projects!Pages
<1>2. CASE Projects!Confirm \/ Projects!Submit \/ Projects!PollJob
  BY <1>0, <1>2 DEF Projects!Confirm, Projects!Submit, Projects!PollJob, Projects!Pages
<1>3. CASE \/ Projects!Dismiss \/ Projects!CloseClone \/ \E p \in Project : Projects!Ask("delete", p) \/ Projects!Ask("clean", p)
  BY <1>0, <1>3 DEF Projects!Dismiss, Projects!CloseClone, Projects!Ask, Projects!Pages
<1> QED
  BY <1>1, <1>2, <1>3

\* Every step keeps the invariant, and none brings back what has left the list.
LEMMA ProjectsStep == ASSUME Projects!IndInv, Projects!Next PROVE Projects!IndInv' /\ Projects!NothingComesBack
<1>1. CASE \/ Projects!Discover \/ (\E p \in Project : Projects!ScanOne(p)) \/ Projects!Store \/ Projects!ScanEnds
           \/ Projects!GitMakes \/ Projects!GitEnds \/ Projects!Told
           \/ \E c \in x2 : \/ Projects!ListServed(c) \/ Projects!Known(c) \/ Projects!Removed(c) \/ Projects!Dropped(c) \/ Projects!Statted(c)
                            \/ Projects!Rescans(c) \/ Projects!Stored(c) \/ Projects!Cloned(c) \/ Projects!StatusServed(c) \/ Projects!Lost(c)
  <2>1. Projects!IndInv'
    BY <1>1, ProjectsScan, ProjectsGit, ProjectsListServed, ProjectsMoves
  <2>2. x1' = x1 /\ \A p \in Project : x3.listed[p] = "no" /\ x3'.listed[p] # "no" => x3.scan.got[p] # "no"
    BY <1>1, ProjectsListed
  <2> QED
    BY <2>1, <2>2 DEF Projects!NothingComesBack
<1>2. CASE \/ Projects!Poll \/ Projects!RescanAll \/ (\E p \in Project : Projects!Rescan(p)) \/ Projects!Confirm
           \/ Projects!Submit \/ Projects!PollJob \/ Projects!Dismiss \/ Projects!CloseClone
           \/ \E p \in Project : Projects!Ask("delete", p) \/ Projects!Ask("clean", p)
  <2>1. Projects!IndInv'
    BY <1>2, ProjectsSends, ProjectsDialogs
  <2>2. x1'.shown = x1.shown /\ x3' = x3
    BY <1>2, ProjectsShown
  <2> QED
    BY <2>1, <2>2 DEF Projects!NothingComesBack
<1>3. ASSUME NEW c \in x2, Projects!ListRead(c) \/ Projects!Rescanned(c) \/ Projects!Confirmed(c) \/ Projects!Started(c) \/ Projects!Polled(c)
      PROVE  Projects!IndInv' /\ Projects!NothingComesBack
  <2>1. /\ Projects!IndInv' /\ UNCHANGED <<x3, x4, x5>> /\ c \in x2 \ x2'
        /\ \/ c.kind \in {"list", "scan"} \/ x1'.shown = x1.shown
           \/ \E p \in Projects!Rows : \A r \in Project : r # p => x1'.shown.listed[r] = x1.shown.listed[r]
    BY <1>3, ProjectsAnswers
  <2> QED
    BY <2>1 DEF Projects!NothingComesBack, Projects!Rows
<1> QED
  BY <1>1, <1>2, <1>3 DEF Projects!Next

\* A clone that is there is listed once the scan after it has ended.
LEMMA ProjectsListsClone == ASSUME Projects!IndInv PROVE Projects!ClonedIsListed
<1>1. x3 \in Projects!Servers /\ x3.missed \in BOOLEAN
  BY DEF Projects!IndInv, Projects!TypeOK, Projects!Servers
<1> QED
  BY <1>1 DEF Projects!IndInv, Projects!NothingStuck, Projects!CloneIsSeen, Projects!ClonedIsListed

\* So does a step that leaves the variables of the part alone.
LEMMA ProjectsStill == ASSUME Projects!IndInv, UNCHANGED <<x1, x2, x3, x4, x5>> PROVE Projects!IndInv'
<1>1. x3.scanning <=> x3.scan.at # "none"
  BY DEF Projects!IndInv, Projects!NothingStuck
<1>2. Projects!CloneIsMadeOnce' /\ Projects!CloneIsSeen' /\ x3 \in Projects!Servers /\ x4 \in [Project -> {"gone", "plain", "built"}]
  BY DEF Projects!IndInv, Projects!TypeOK, Projects!CloneIsMadeOnce, Projects!CloneIsSeen
<1> QED
  BY <1>1, <1>2, ProjectsBehind

-----------------------------------------------------------------------------
(* The fingerprint unlock, of any gate: FingerprintUnlock.                 *)

\* The part's own operators on finite sets are the library's.
LEMMA FingerprintSizes == ASSUME NEW g \in Gate PROVE \A S : Fingerprint(g)!Cardinality(S) = Cardinality(S) /\ Fingerprint(g)!IsFiniteSet(S) = IsFiniteSet(S)
BY DEF Fingerprint!Cardinality, Cardinality, Fingerprint!IsFiniteSet, IsFiniteSet

\* Who is let in: nobody new is while the lockout goes on ...
LEMMA FingerprintFewerLetIn ==
    ASSUME NEW g \in Gate, Fingerprint(g)!LetInAreCounted, Fingerprint(g)!LetIn' \subseteq Fingerprint(g)!LetIn, x4'.locked = x4.locked, x9' = x9, x9 \in Nat
    PROVE  Fingerprint(g)!LetInAreCounted'
<1>1. Fingerprint(g)!LetIn \subseteq Handler
  BY DEF Fingerprint!LetIn
<1>2. IsFiniteSet(Fingerprint(g)!LetIn) /\ IsFiniteSet(Handler)
  BY <1>1, FingerprintAssumption, Fewer
<1>3. /\ Cardinality(Fingerprint(g)!LetIn) \in Nat /\ Cardinality(Fingerprint(g)!LetIn') \in Nat /\ Cardinality(Handler) \in Nat
      /\ Cardinality(Fingerprint(g)!LetIn') <= Cardinality(Fingerprint(g)!LetIn)
  BY <1>1, <1>2, Fewer
<1> QED
  BY <1>3, FingerprintSizes DEF Fingerprint!LetInAreCounted

\* ... and of each that verifies its assertion there is one less.
LEMMA FingerprintOneLessLetIn ==
    ASSUME NEW g \in Gate, Fingerprint(g)!LetInAreCounted, NEW r \in Fingerprint(g)!LetIn, Fingerprint(g)!LetIn' \subseteq Fingerprint(g)!LetIn \ {r}, x4' = x4, x9 \in Nat,
           x9' = IF x4.locked THEN x9 + 1 ELSE x9
    PROVE  Fingerprint(g)!LetInAreCounted'
<1>1. Fingerprint(g)!LetIn \subseteq Handler
  BY DEF Fingerprint!LetIn
<1>2. IsFiniteSet(Fingerprint(g)!LetIn) /\ IsFiniteSet(Handler)
  BY <1>1, FingerprintAssumption, Fewer
<1>3. IsFiniteSet(Fingerprint(g)!LetIn \ {r}) /\ Cardinality(Fingerprint(g)!LetIn \ {r}) = Cardinality(Fingerprint(g)!LetIn) - 1
  BY <1>2, OneLess
<1>4. /\ Cardinality(Fingerprint(g)!LetIn) \in Nat /\ Cardinality(Fingerprint(g)!LetIn') \in Nat /\ Cardinality(Handler) \in Nat
      /\ Cardinality(Fingerprint(g)!LetIn') <= Cardinality(Fingerprint(g)!LetIn \ {r})
  BY <1>1, <1>2, <1>3, Fewer
<1> QED
  BY <1>3, <1>4, FingerprintSizes DEF Fingerprint!LetInAreCounted

\* The assertions verified during a lockout are less than the requests.
LEMMA FingerprintOverrun ==
    ASSUME NEW S, S \subseteq Handler, NEW n \in Nat, NEW b, IF b THEN n + Cardinality(S) < Cardinality(Handler) ELSE n = 0
    PROVE  n < Cardinality(Handler)
<1>1. Cardinality(S) \in Nat /\ Cardinality(Handler) \in Nat
  BY FingerprintAssumption, Fewer
<1>2. Cardinality(Handler) # 0
  BY FingerprintAssumption, FS_EmptySet
<1> QED
  BY <1>1, <1>2

\* The count of the assertions let in over the backoff bounds how far it is
\* overrun.
LEMMA FingerprintBounded ==
    ASSUME NEW g \in Gate
    PROVE  /\ Fingerprint(g)!LetInAreCounted /\ x9 \in Nat => Fingerprint(g)!OverrunIsBounded
           /\ (Fingerprint(g)!LetInAreCounted /\ x9 \in Nat)' => Fingerprint(g)!OverrunIsBounded'
<1>1. Fingerprint(g)!LetIn \subseteq Handler /\ Fingerprint(g)!LetIn' \subseteq Handler
  BY DEF Fingerprint!LetIn
<1>2. Fingerprint(g)!LetInAreCounted /\ x9 \in Nat => Fingerprint(g)!OverrunIsBounded
  <2> DEFINE S == Fingerprint(g)!LetIn
  <2>1. SUFFICES ASSUME Fingerprint(g)!LetInAreCounted, x9 \in Nat PROVE x9 < Cardinality(Handler)
    BY FingerprintSizes DEF Fingerprint!OverrunIsBounded
  <2>2. IF x4.locked THEN x9 + Cardinality(S) < Cardinality(Handler) ELSE x9 = 0
    BY <2>1, FingerprintSizes DEF Fingerprint!LetInAreCounted
  <2>3. S \subseteq Handler
    BY <1>1
  <2> HIDE DEF S
  <2> QED
    BY <2>1, <2>2, <2>3, FingerprintOverrun
<1>3. (Fingerprint(g)!LetInAreCounted /\ x9 \in Nat)' => Fingerprint(g)!OverrunIsBounded'
  BY <1>1, FingerprintOverrun, FingerprintSizes DEF Fingerprint!LetInAreCounted, Fingerprint!OverrunIsBounded
<1> QED
  BY <1>2, <1>3

\* Ceremonies that go without being finished, and a file that is saved or not,
\* leave the credentials what they were enrolled as.
LEMMA FingerprintKept ==
    ASSUME NEW g \in Gate, Fingerprint(g)!CeremonyWinsOnce, Fingerprint(g)!CeremoniesAreBegun, Fingerprint(g)!CredentialsAreEnrolled, Fingerprint(g)!DeletedAreGone,
           x1' = x1, x6' = x6, x7' = x7, x8' = x8, x3' \subseteq x3,
           x2'.on = x2.on, x2'.tag = x2.tag, x2'.creds = x2.creds, x2'.saved = x2.saved \/ (x2'.saved = x2.creds /\ (x2.on \/ x2.creds # {}))
    PROVE  Fingerprint(g)!CeremonyWinsOnce' /\ Fingerprint(g)!CeremoniesAreBegun' /\ Fingerprint(g)!CredentialsAreEnrolled' /\ Fingerprint(g)!DeletedAreGone'
<1>1. Fingerprint(g)!CeremonyWinsOnce'
  BY DEF Fingerprint!CeremonyWinsOnce
<1>2. Fingerprint(g)!CeremoniesAreBegun'
  BY DEF Fingerprint!CeremoniesAreBegun
<1>3. Fingerprint(g)!CredentialsAreEnrolled'
  BY DEF Fingerprint!CredentialsAreEnrolled
<1>4. Fingerprint(g)!DeletedAreGone'
  BY DEF Fingerprint!DeletedAreGone
<1> QED
  BY <1>1, <1>2, <1>3, <1>4

\* The initial states satisfy the invariant.
LEMMA FingerprintInit == ASSUME NEW g \in Gate, Fingerprint(g)!Init PROVE Fingerprint(g)!IndInv
<1> USE FingerprintAssumption DEF Fingerprint!Init, Fingerprint!NoFailures, Fingerprint!Idle
<1>1. Fingerprint(g)!TypeOK
  <2>1. x1 \in g.hash /\ x2 \in [on : BOOLEAN, creds : SUBSET Fingerprint(g)!Credentials, saved : SUBSET Fingerprint(g)!Credentials, tag : g.hash]
    OBVIOUS
  <2>2. x3 = {} /\ IsFiniteSet(x3) /\ Cardinality(x3) = 0
    BY FS_EmptySet
  <2>3. x4 \in [failures : 0 .. Threshold, locked : BOOLEAN]
    OBVIOUS
  <2>4. x5 \in [Handler -> [at : {"idle", "failed", "passed"}] \cup [at : {"typed", "asking"}, host : g.host]
                              \cup [at : {"checked"}, id : Nat, host : g.host]]
    OBVIOUS
  <2>5. x6 = <<>> /\ x7 = <<>> /\ x8 = {} /\ x9 = 0
    OBVIOUS
  <2> QED
    BY <2>1, <2>2, <2>3, <2>4, <2>5, FingerprintSizes DEF Fingerprint!TypeOK
<1>2. Fingerprint(g)!CeremonyWinsOnce /\ Fingerprint(g)!CeremoniesAreBegun /\ Fingerprint(g)!CredentialsAreEnrolled /\ Fingerprint(g)!DeletedAreGone
  BY DEF Fingerprint!CeremonyWinsOnce, Fingerprint!CeremoniesAreBegun, Fingerprint!CredentialsAreEnrolled, Fingerprint!DeletedAreGone
<1>3. Fingerprint(g)!LetInAreCounted
  BY DEF Fingerprint!LetInAreCounted
<1> QED
  BY <1>1, <1>2, <1>3, FingerprintBounded DEF Fingerprint!IndInv, Fingerprint!TypeOK

\* A ceremony that is begun: there is room for it, and its number is new.
LEMMA FingerprintPut ==
    ASSUME NEW g \in Gate, Fingerprint(g)!TypeOK, Fingerprint(g)!CeremonyWinsOnce, Fingerprint(g)!CeremoniesAreBegun, Fingerprint(g)!CredentialsAreEnrolled, Fingerprint(g)!DeletedAreGone,
           NEW kind \in {"register", "unlock"}, NEW h \in g.host, Fingerprint(g)!Put(kind, h),
           x1' = x1, x2' = x2, x4' = x4, x8' = x8, x9' = x9,
           x5' \in [Handler -> [at : {"idle", "failed", "passed"}] \cup [at : {"typed", "asking"}, host : g.host]
                                  \cup [at : {"checked"}, id : Nat, host : g.host]]
    PROVE  Fingerprint(g)!TypeOK' /\ Fingerprint(g)!CeremonyWinsOnce' /\ Fingerprint(g)!CeremoniesAreBegun' /\ Fingerprint(g)!CredentialsAreEnrolled' /\ Fingerprint(g)!DeletedAreGone'
<1> DEFINE kept == {c \in x3 : ~c.late}
           n == Len(x6) + 1
           c == [id |-> n, kind |-> kind, host |-> h, late |-> FALSE, creds |-> Fingerprint(g)!Of(x2.creds, h)]
           a == [kind |-> kind, host |-> h, hash |-> x1]
           C == [id : Nat, kind : {"register", "unlock"}, host : g.host, late : BOOLEAN, creds : SUBSET Fingerprint(g)!Credentials]
<1>1. /\ x6' = Append(x6, a) /\ x7' = Append(x7, <<>>)
      /\ \E newest \in SUBSET kept :
              /\ IF Cardinality(kept) < g.room THEN newest = kept ELSE Cardinality(newest) = g.room - 1
              /\ x3' = newest \cup {c}
  BY FingerprintSizes DEF Fingerprint!Put
<1>2. PICK newest \in SUBSET kept : /\ IF Cardinality(kept) < g.room THEN newest = kept ELSE Cardinality(newest) = g.room - 1
                                    /\ x3' = newest \cup {c}
  BY <1>1
<1>3. /\ x1 \in g.hash /\ x2.creds \subseteq Fingerprint(g)!Credentials /\ x3 \subseteq C /\ IsFiniteSet(x3) /\ Len(x6) \in Nat /\ Len(x7) = Len(x6)
      /\ x6 \in Seq([kind : {"register", "unlock"}, host : g.host, hash : g.hash])
      /\ x7 \in Seq(Seq([kind : {"register", "unlock"}, host : g.host])) /\ g.room \in Nat \ {0}
  BY FingerprintSizes, FingerprintAssumption DEF Fingerprint!TypeOK
<1>4. newest \subseteq x3 /\ IsFiniteSet(newest) /\ IsFiniteSet(kept)
  BY <1>3, Fewer
<1>5. IsFiniteSet(x3') /\ Cardinality(x3') <= g.room
  <2>1. IsFiniteSet(newest \cup {c}) /\ Cardinality(newest \cup {c}) <= Cardinality(newest) + 1 /\ Cardinality(newest) \in Nat
        /\ Cardinality(newest \cup {c}) \in Nat
    BY <1>4, OneMore
  <2>2. Cardinality(kept) \in Nat
    BY <1>4, FS_CardinalityType
  <2>3. Cardinality(newest) <= g.room - 1
    <3> HIDE DEF kept
    <3> QED
      BY <1>2, <1>3, <2>1, <2>2
  <2> HIDE DEF kept, c
  <2> QED
    BY <1>2, <1>3, <2>1, <2>3
<1>6. /\ c \in C /\ c.id = n /\ c.kind = kind /\ c.host = h /\ a \in [kind : {"register", "unlock"}, host : g.host, hash : g.hash]
  BY <1>3 DEF Fingerprint!Of
<1>7. /\ x6' \in Seq([kind : {"register", "unlock"}, host : g.host, hash : g.hash]) /\ DOMAIN x6 = 1 .. Len(x6) /\ DOMAIN x6' = 1 .. n
      /\ x6'[n] = a /\ \A i \in DOMAIN x6 : i \in DOMAIN x6' /\ x6'[i] = x6[i]
  <2> HIDE DEF a
  <2> QED
    BY <1>1, <1>3, <1>6
<1>8. /\ x7' \in Seq(Seq([kind : {"register", "unlock"}, host : g.host])) /\ Len(x7') = n /\ DOMAIN x7' = 1 .. n /\ Len(x6') = n
      /\ x7'[n] = <<>> /\ \A i \in DOMAIN x6 : x7'[i] = x7[i]
  BY <1>1, <1>3
<1>9. n \notin DOMAIN x6 /\ n \in DOMAIN x6'
  BY <1>3, <1>7
<1> HIDE DEF n, kept, c
<1>10. Fingerprint(g)!TypeOK'
  BY <1>2, <1>3, <1>4, <1>5, <1>6, <1>7, <1>8, FingerprintSizes DEF Fingerprint!TypeOK
<1>11. Fingerprint(g)!CeremonyWinsOnce'
  <2>1. ASSUME NEW i \in DOMAIN x6', x7'[i] # <<>> PROVE x7'[i] = <<[kind |-> x6'[i].kind, host |-> x6'[i].host]>>
    <3>1. i \in DOMAIN x6
      <4>1. i # n /\ i \in 1 .. n
        BY <1>7, <1>8, <2>1
      <4> QED
        BY <1>3, <1>7, <4>1 DEF n
    <3> QED
      BY <1>7, <1>8, <2>1, <3>1 DEF Fingerprint!CeremonyWinsOnce
  <2>2. \A k \in x2'.creds : k.hash = x1' /\ x6'[k.id] = [kind |-> "register", host |-> k.host, hash |-> x1']
    BY <1>7 DEF Fingerprint!CeremonyWinsOnce, Fingerprint!CredentialsAreEnrolled
  <2> QED
    BY <2>1, <2>2 DEF Fingerprint!CeremonyWinsOnce
<1>12. Fingerprint(g)!CeremoniesAreBegun'
  <2>1. ASSUME NEW d \in newest PROVE /\ d.id \in DOMAIN x6' /\ d.id # n /\ x7'[d.id] = <<>>
                                      /\ x6'[d.id] = [kind |-> d.kind, host |-> d.host, hash |-> x1']
                                      /\ \A e \in newest : e.id = d.id => e = d
    BY <1>4, <1>7, <1>8, <1>9 DEF Fingerprint!CeremoniesAreBegun
  <2>2. x7'[n] = <<>> /\ x6'[n] = [kind |-> c.kind, host |-> c.host, hash |-> x1']
    BY <1>6, <1>7, <1>8
  <2> QED
    BY <1>2, <1>6, <1>9, <2>1, <2>2 DEF Fingerprint!CeremoniesAreBegun
<1>13. Fingerprint(g)!CredentialsAreEnrolled' /\ Fingerprint(g)!DeletedAreGone'
  BY ZenonT(60), <1>7, <1>8 DEF Fingerprint!CredentialsAreEnrolled, Fingerprint!DeletedAreGone
<1> QED
  BY <1>10, <1>11, <1>12, <1>13

\* A ceremony that is finished: nobody finishes it again.
LEMMA FingerprintWon ==
    ASSUME NEW g \in Gate, Fingerprint(g)!TypeOK, Fingerprint(g)!CeremonyWinsOnce, Fingerprint(g)!CeremoniesAreBegun, Fingerprint(g)!CredentialsAreEnrolled, Fingerprint(g)!DeletedAreGone,
           NEW c \in x3, Fingerprint(g)!Take(c.id), Fingerprint(g)!Won(c.id, c.kind, c.host), x1' = x1, x6' = x6
    PROVE  /\ \A i \in DOMAIN x6 : x7'[i] # <<>> => x7'[i] = <<[kind |-> x6[i].kind, host |-> x6[i].host]>>
           /\ Fingerprint(g)!CeremoniesAreBegun' /\ c.id \in DOMAIN x6 /\ x7'[c.id] # <<>> /\ x7[c.id] = <<>>
           /\ x6[c.id] = [kind |-> c.kind, host |-> c.host, hash |-> x1]
           /\ \A i \in DOMAIN x6 : x7[i] # <<>> => x7'[i] # <<>>
           /\ x7' \in Seq(Seq([kind : {"register", "unlock"}, host : g.host])) /\ Len(x7') = Len(x7)
<1> DEFINE w == [kind |-> c.kind, host |-> c.host]
<1>1. /\ x7 \in Seq(Seq([kind : {"register", "unlock"}, host : g.host])) /\ Len(x7) = Len(x6) /\ DOMAIN x7 = DOMAIN x6
      /\ w \in [kind : {"register", "unlock"}, host : g.host]
  BY DEF Fingerprint!TypeOK
<1>2. /\ c.id \in DOMAIN x6 /\ x7[c.id] = <<>> /\ x6[c.id] = [kind |-> c.kind, host |-> c.host, hash |-> x1]
  BY DEF Fingerprint!CeremoniesAreBegun
<1>3. x7' = [x7 EXCEPT ![c.id] = Append(x7[c.id], w)]
  BY DEF Fingerprint!Won
<1>4. Append(x7[c.id], w) = <<w>> /\ <<w>> \in Seq([kind : {"register", "unlock"}, host : g.host]) /\ <<w>> # <<>>
  <2> HIDE DEF w
  <2> QED
    BY <1>1, <1>2
<1>5. x7' = [x7 EXCEPT ![c.id] = <<w>>]
  BY <1>3, <1>4
<1>6. x7' \in Seq(Seq([kind : {"register", "unlock"}, host : g.host])) /\ Len(x7') = Len(x7) /\ DOMAIN x7' = DOMAIN x6
      /\ x7'[c.id] = <<w>> /\ \A i \in DOMAIN x6 : i # c.id => x7'[i] = x7[i]
  <2> HIDE DEF w
  <2> QED
    BY <1>1, <1>2, <1>4, <1>5
<1>7. \A i \in DOMAIN x6 : x7'[i] # <<>> => x7'[i] = <<[kind |-> x6[i].kind, host |-> x6[i].host]>>
  <2>1. x6[c.id].kind = c.kind /\ x6[c.id].host = c.host
    BY <1>2
  <2>2. x7'[c.id] = <<[kind |-> x6[c.id].kind, host |-> x6[c.id].host]>>
    BY <1>6, <2>1
  <2> QED
    BY <1>6, <2>2 DEF Fingerprint!CeremonyWinsOnce
<1>8. Fingerprint(g)!CeremoniesAreBegun'
  BY <1>6 DEF Fingerprint!CeremoniesAreBegun, Fingerprint!Take, Fingerprint!Without
<1> QED
  BY <1>2, <1>4, <1>6, <1>7, <1>8

\* Where a request goes next.
LEMMA FingerprintGoes ==
    ASSUME NEW g \in Gate, Fingerprint(g)!TypeOK, NEW r \in Handler, NEW to,
           \/ to \in [at : {"idle", "failed", "passed"}] \/ to \in [at : {"typed", "asking"}, host : g.host]
           \/ to \in [at : {"checked"}, id : Nat, host : g.host],
           x5' = [x5 EXCEPT ![r] = to]
    PROVE  /\ x5' \in [Handler -> [at : {"idle", "failed", "passed"}] \cup [at : {"typed", "asking"}, host : g.host]
                                     \cup [at : {"checked"}, id : Nat, host : g.host]]
           /\ to.at # "checked" => Fingerprint(g)!LetIn' \subseteq Fingerprint(g)!LetIn \ {r}
<1>1. \A q \in Handler : x5'[q] = IF q = r THEN to ELSE x5[q]
  BY DEF Fingerprint!TypeOK
<1>2. to.at # "checked" => Fingerprint(g)!LetIn' \subseteq Fingerprint(g)!LetIn \ {r}
  BY <1>1 DEF Fingerprint!LetIn
<1>3. x5' \in [Handler -> [at : {"idle", "failed", "passed"}] \cup [at : {"typed", "asking"}, host : g.host]
                            \cup [at : {"checked"}, id : Nat, host : g.host]]
  BY DEF Fingerprint!TypeOK
<1> QED
  BY <1>2, <1>3

\* A request that is over leaves the handlers typed, and is no longer one that
\* was let in.
LEMMA FingerprintIdle ==
    ASSUME NEW g \in Gate, Fingerprint(g)!TypeOK, NEW r \in Handler, NEW to, Fingerprint(g)!Goes(r, to), to \in {"idle", "failed", "passed"}
    PROVE  /\ x5' \in [Handler -> [at : {"idle", "failed", "passed"}] \cup [at : {"typed", "asking"}, host : g.host]
                                     \cup [at : {"checked"}, id : Nat, host : g.host]]
           /\ Fingerprint(g)!LetIn' \subseteq Fingerprint(g)!LetIn \ {r}
<1> DEFINE v == IF to = "idle" THEN Fingerprint(g)!Idle ELSE [at |-> to]
<1>1. x5' = [x5 EXCEPT ![r] = v]
  BY DEF Fingerprint!Goes
<1>2. v \in [at : {"idle", "failed", "passed"}] /\ v.at # "checked"
  BY DEF Fingerprint!Idle
<1> HIDE DEF v
<1> QED
  BY <1>1, <1>2, FingerprintGoes

\* Ceremonies that are fewer, or late, are no more.
LEMMA FingerprintTaken ==
    ASSUME NEW g \in Gate, Fingerprint(g)!TypeOK, x3' \subseteq x3
    PROVE  /\ IsFiniteSet(x3') /\ Cardinality(x3') <= g.room
           /\ x3' \subseteq [id : Nat, kind : {"register", "unlock"}, host : g.host, late : BOOLEAN, creds : SUBSET Fingerprint(g)!Credentials]
<1>1. IsFiniteSet(x3) /\ Cardinality(x3) <= g.room
  BY FingerprintSizes DEF Fingerprint!TypeOK
<1>2. IsFiniteSet(x3') /\ Cardinality(x3') <= Cardinality(x3) /\ Cardinality(x3') \in Nat /\ Cardinality(x3) \in Nat
  BY <1>1, Fewer
<1>3. g.room \in Nat
  BY FingerprintAssumption
<1> QED
  BY <1>1, <1>2, <1>3 DEF Fingerprint!TypeOK

\* What a request does that begins and finishes nothing.
LEMMA FingerprintQuiet ==
    ASSUME NEW g \in Gate, Fingerprint(g)!TypeOK, Fingerprint(g)!CeremonyWinsOnce, Fingerprint(g)!CeremoniesAreBegun, Fingerprint(g)!CredentialsAreEnrolled, Fingerprint(g)!DeletedAreGone,
           x1' = x1, x6' = x6, x7' = x7, x8' = x8, x3' \subseteq x3, x9' \in Nat,
           x2' = x2 \/ \E done \in BOOLEAN : Fingerprint(g)!Save(x2.creds, done) /\ (x2.on \/ x2.creds # {}),
           x4' \in [failures : 0 .. Threshold, locked : BOOLEAN],
           x5' \in [Handler -> [at : {"idle", "failed", "passed"}] \cup [at : {"typed", "asking"}, host : g.host]
                                  \cup [at : {"checked"}, id : Nat, host : g.host]]
    PROVE  Fingerprint(g)!TypeOK' /\ Fingerprint(g)!CeremonyWinsOnce' /\ Fingerprint(g)!CeremoniesAreBegun' /\ Fingerprint(g)!CredentialsAreEnrolled' /\ Fingerprint(g)!DeletedAreGone'
<1>1. x2 \in [on : BOOLEAN, creds : SUBSET Fingerprint(g)!Credentials, saved : SUBSET Fingerprint(g)!Credentials, tag : g.hash]
  BY DEF Fingerprint!TypeOK
<1>2. \/ x2' = x2
      \/ \E s \in {x2.creds, x2.saved} : x2' = [x2 EXCEPT !.creds = x2.creds, !.saved = s] /\ (x2.on \/ x2.creds # {})
  BY DEF Fingerprint!Save
<1>3. /\ x2' \in [on : BOOLEAN, creds : SUBSET Fingerprint(g)!Credentials, saved : SUBSET Fingerprint(g)!Credentials, tag : g.hash]
      /\ x2'.on = x2.on /\ x2'.tag = x2.tag /\ x2'.creds = x2.creds
      /\ x2'.saved = x2.saved \/ (x2'.saved = x2.creds /\ (x2.on \/ x2.creds # {}))
  <2>1. CASE x2' = x2
    BY <1>1, <2>1
  <2>2. ASSUME NEW s \in {x2.creds, x2.saved}, x2' = [x2 EXCEPT !.creds = x2.creds, !.saved = s], x2.on \/ x2.creds # {}
        PROVE  <1>3!:
    BY <1>1, <2>2
  <2> QED
    BY <1>2, <2>1, <2>2
<1>4. Fingerprint(g)!CeremonyWinsOnce' /\ Fingerprint(g)!CeremoniesAreBegun' /\ Fingerprint(g)!CredentialsAreEnrolled' /\ Fingerprint(g)!DeletedAreGone'
  BY <1>3, FingerprintKept
<1>5. Fingerprint(g)!TypeOK'
  BY <1>3, FingerprintTaken, FingerprintSizes DEF Fingerprint!TypeOK
<1> QED
  BY <1>4, <1>5

\* What a request does keeps the invariant.
LEMMA FingerprintRequests ==
    ASSUME NEW g \in Gate, Fingerprint(g)!IndInv, NEW r \in Handler,
           \/ Fingerprint(g)!RegisterBegin(r) \/ Fingerprint(g)!BeginUnlock(r) \/ Fingerprint(g)!Unread(r) \/ Fingerprint(g)!Unknown(r) \/ Fingerprint(g)!Wrong(r) \/ Fingerprint(g)!Failed(r) \/ Fingerprint(g)!Passed(r)
           \/ \E h \in g.host : \/ Fingerprint(g)!PasswordTyped(r, h) \/ Fingerprint(g)!UnlockBegin(r, h)
                                \/ \E id \in DOMAIN x6 : Fingerprint(g)!UnlockFinish(r, id, h)
    PROVE  Fingerprint(g)!IndInv'
<1> DEFINE Handlers == [Handler -> [at : {"idle", "failed", "passed"}] \cup [at : {"typed", "asking"}, host : g.host]
                                     \cup [at : {"checked"}, id : Nat, host : g.host]]
<1>0. /\ Fingerprint(g)!TypeOK /\ Fingerprint(g)!CeremonyWinsOnce /\ Fingerprint(g)!CeremoniesAreBegun /\ Fingerprint(g)!CredentialsAreEnrolled /\ Fingerprint(g)!DeletedAreGone /\ Fingerprint(g)!LetInAreCounted
      /\ x9 \in Nat /\ x4 \in [failures : 0 .. Threshold, locked : BOOLEAN] /\ x5 \in Handlers
  BY DEF Fingerprint!IndInv, Fingerprint!TypeOK
<1>1. ASSUME x1' = x1, x6' = x6, x7' = x7, x8' = x8, x3' \subseteq x3, x9' \in Nat,
             x2' = x2 \/ \E done \in BOOLEAN : Fingerprint(g)!Save(x2.creds, done) /\ (x2.on \/ x2.creds # {}),
             x4' \in [failures : 0 .. Threshold, locked : BOOLEAN], x5' \in Handlers, Fingerprint(g)!LetInAreCounted'
      PROVE  Fingerprint(g)!IndInv'
  <2>1. Fingerprint(g)!TypeOK' /\ Fingerprint(g)!CeremonyWinsOnce' /\ Fingerprint(g)!CeremoniesAreBegun' /\ Fingerprint(g)!CredentialsAreEnrolled' /\ Fingerprint(g)!DeletedAreGone'
    BY <1>0, <1>1, FingerprintQuiet
  <2> QED
    BY <1>1, <2>1, FingerprintBounded DEF Fingerprint!IndInv
<1>2. ASSUME NEW kind \in {"register", "unlock"}, NEW h \in g.host, Fingerprint(g)!Put(kind, h), x1' = x1, x2' = x2, x4' = x4, x8' = x8, x9' = x9,
             x5' \in Handlers, Fingerprint(g)!LetIn' \subseteq Fingerprint(g)!LetIn
      PROVE  Fingerprint(g)!IndInv'
  <2>1. Fingerprint(g)!TypeOK' /\ Fingerprint(g)!CeremonyWinsOnce' /\ Fingerprint(g)!CeremoniesAreBegun' /\ Fingerprint(g)!CredentialsAreEnrolled' /\ Fingerprint(g)!DeletedAreGone'
    BY <1>0, <1>2, FingerprintPut
  <2>2. Fingerprint(g)!LetInAreCounted'
    BY <1>0, <1>2, FingerprintFewerLetIn
  <2> QED
    BY <1>0, <1>2, <2>1, <2>2, FingerprintBounded DEF Fingerprint!IndInv
<1>3. Fingerprint(g)!Idle \in [at : {"idle", "failed", "passed"}] /\ Fingerprint(g)!Idle.at # "checked"
  BY DEF Fingerprint!Idle
<1>4. CASE Fingerprint(g)!RegisterBegin(r)
  <2>1. x5[r].at = "typed" /\ x5' = [x5 EXCEPT ![r] = Fingerprint(g)!Idle]
    BY <1>4 DEF Fingerprint!RegisterBegin
  <2>2. x5' \in Handlers /\ Fingerprint(g)!LetIn' \subseteq Fingerprint(g)!LetIn \ {r}
    BY <1>0, <1>3, <2>1, FingerprintGoes
  <2>3. x5[r].host \in g.host
    BY <1>0, <2>1
  <2>4. CASE Fingerprint(g)!Put("register", x5[r].host)
    BY <1>2, <1>4, <2>2, <2>3, <2>4 DEF Fingerprint!RegisterBegin
  <2>5. CASE UNCHANGED <<x3, x6, x7>>
    <3>1. Fingerprint(g)!LetInAreCounted'
      BY <1>0, <1>4, <2>2, FingerprintFewerLetIn DEF Fingerprint!RegisterBegin
    <3> QED
      BY <1>0, <1>1, <1>4, <2>2, <2>5, <3>1 DEF Fingerprint!RegisterBegin
  <2> QED
    BY <1>4, <2>4, <2>5 DEF Fingerprint!RegisterBegin
<1>5. CASE Fingerprint(g)!BeginUnlock(r)
  <2>1. x5[r].at = "asking" /\ x5' = [x5 EXCEPT ![r] = Fingerprint(g)!Idle]
    BY <1>5 DEF Fingerprint!BeginUnlock
  <2>2. x5' \in Handlers /\ Fingerprint(g)!LetIn' \subseteq Fingerprint(g)!LetIn \ {r}
    BY <1>0, <1>3, <2>1, FingerprintGoes
  <2>3. x5[r].host \in g.host
    BY <1>0, <2>1
  <2>4. CASE Fingerprint(g)!Put("unlock", x5[r].host)
    BY <1>2, <1>5, <2>2, <2>3, <2>4 DEF Fingerprint!BeginUnlock
  <2>5. CASE UNCHANGED <<x3, x6, x7>>
    <3>1. Fingerprint(g)!LetInAreCounted'
      BY <1>0, <1>5, <2>2, FingerprintFewerLetIn DEF Fingerprint!BeginUnlock
    <3> QED
      BY <1>0, <1>1, <1>5, <2>2, <2>5, <3>1 DEF Fingerprint!BeginUnlock
  <2> QED
    BY <1>5, <2>4, <2>5 DEF Fingerprint!BeginUnlock
<1>6. CASE Fingerprint(g)!Unread(r)
  <2>1. x5' \in Handlers /\ Fingerprint(g)!LetIn' \subseteq Fingerprint(g)!LetIn \ {r} /\ UNCHANGED <<x1, x2, x3, x4, x6, x7, x8, x9>>
    BY <1>0, <1>6, FingerprintIdle DEF Fingerprint!Unread, Fingerprint!history
  <2>2. Fingerprint(g)!LetInAreCounted'
    BY <1>0, <2>1, FingerprintFewerLetIn
  <2> QED
    BY <1>0, <1>1, <2>1, <2>2
<1>7. CASE Fingerprint(g)!Unknown(r)
  <2>1. x5' \in Handlers /\ Fingerprint(g)!LetIn' \subseteq Fingerprint(g)!LetIn \ {r} /\ x3' \subseteq x3 /\ UNCHANGED <<x1, x2, x4, x6, x7, x8, x9>>
    BY <1>0, <1>7, FingerprintIdle DEF Fingerprint!Unknown, Fingerprint!Take, Fingerprint!Without, Fingerprint!history
  <2>2. Fingerprint(g)!LetInAreCounted'
    BY <1>0, <2>1, FingerprintFewerLetIn
  <2> QED
    BY <1>0, <1>1, <2>1, <2>2
<1>8. CASE Fingerprint(g)!Wrong(r)
  <2>1. x5' \in Handlers /\ Fingerprint(g)!LetIn' \subseteq Fingerprint(g)!LetIn \ {r} /\ x3' \subseteq x3 /\ UNCHANGED <<x1, x2, x4, x6, x7, x8>> /\ r \in Fingerprint(g)!LetIn
        /\ x9' = IF x4.locked THEN x9 + 1 ELSE x9
    BY <1>0, <1>8, FingerprintIdle DEF Fingerprint!Wrong, Fingerprint!Take, Fingerprint!Without, Fingerprint!LetIn
  <2>2. Fingerprint(g)!LetInAreCounted' /\ x9' \in Nat
    BY <1>0, <2>1, FingerprintOneLessLetIn
  <2> QED
    BY <1>0, <1>1, <2>1, <2>2
<1>9. CASE Fingerprint(g)!Failed(r)
  <2> DEFINE n == IF x4.failures < Threshold THEN x4.failures + 1 ELSE Threshold
             b == [failures |-> n, locked |-> x4.locked \/ n = Threshold]
  <2>1. x5' \in Handlers /\ Fingerprint(g)!LetIn' \subseteq Fingerprint(g)!LetIn \ {r} /\ UNCHANGED <<x1, x2, x3, x6, x7, x8>>
    BY <1>0, <1>9, FingerprintIdle DEF Fingerprint!Failed
  <2>2. x4' = b /\ x9' = IF b.locked /\ x4.locked THEN x9 ELSE 0
    BY <1>9 DEF Fingerprint!Failed, Fingerprint!Locks
  <2>3. n \in 0 .. Threshold
    BY <1>0, FingerprintAssumption
  <2>4. x4' \in [failures : 0 .. Threshold, locked : BOOLEAN] /\ (x4.locked => x4'.locked) /\ b.locked = x4'.locked
    BY <1>0, <2>2, <2>3
  <2> HIDE DEF n, b
  <2>5. x9' \in Nat
    BY <1>0, <2>2
  <2>6. Fingerprint(g)!LetInAreCounted'
    <3>1. CASE x4.locked
      BY <1>0, <2>1, <2>2, <2>4, <3>1, FingerprintFewerLetIn
    <3>2. CASE ~ x4.locked
      <4>1. x9' = 0 /\ Fingerprint(g)!LetIn' \subseteq Handler \ {r}
        BY <2>1, <2>2, <3>2 DEF Fingerprint!LetIn
      <4>2. IsFiniteSet(Handler \ {r}) /\ Cardinality(Handler \ {r}) = Cardinality(Handler) - 1 /\ Cardinality(Handler) \in Nat
        BY FingerprintAssumption, OneLess
      <4>3. Cardinality(Fingerprint(g)!LetIn') <= Cardinality(Handler \ {r}) /\ Cardinality(Fingerprint(g)!LetIn') \in Nat /\ Cardinality(Handler \ {r}) \in Nat
        BY <4>1, <4>2, Fewer
      <4>4. 0 + Cardinality(Fingerprint(g)!LetIn') < Cardinality(Handler)
        BY <4>2, <4>3
      <4> QED
        BY <4>1, <4>4, FingerprintSizes DEF Fingerprint!LetInAreCounted
    <3> QED
      BY <3>1, <3>2
  <2> QED
    BY <1>0, <1>1, <2>1, <2>4, <2>5, <2>6
<1>10. CASE Fingerprint(g)!Passed(r)
  <2>1. x5' \in Handlers /\ Fingerprint(g)!LetIn' \subseteq Fingerprint(g)!LetIn \ {r} /\ UNCHANGED <<x1, x2, x3, x6, x7, x8>>
    BY <1>0, <1>10, FingerprintIdle DEF Fingerprint!Passed
  <2>2. CASE UNCHANGED <<x4, x9>>
    <3>1. Fingerprint(g)!LetInAreCounted'
      BY <1>0, <2>1, <2>2, FingerprintFewerLetIn
    <3> QED
      BY <1>0, <1>1, <2>1, <2>2, <3>1
  <2>3. CASE Fingerprint(g)!Locks(Fingerprint(g)!NoFailures)
    <3>1. x4' \in [failures : 0 .. Threshold, locked : BOOLEAN] /\ ~ x4'.locked /\ x9' = 0
      BY <2>3, FingerprintAssumption DEF Fingerprint!Locks, Fingerprint!NoFailures
    <3>2. Fingerprint(g)!LetInAreCounted'
      BY <3>1 DEF Fingerprint!LetInAreCounted
    <3> QED
      BY <1>0, <1>1, <2>1, <3>1, <3>2
  <2> QED
    BY <1>10, <2>2, <2>3 DEF Fingerprint!Passed
<1>11. ASSUME NEW h \in g.host, Fingerprint(g)!PasswordTyped(r, h) PROVE Fingerprint(g)!IndInv'
  <2> DEFINE to == [at |-> "typed", host |-> h]
  <2>1. to \in [at : {"typed", "asking"}, host : g.host] /\ to.at # "checked" /\ x5' = [x5 EXCEPT ![r] = to]
    BY <1>11 DEF Fingerprint!PasswordTyped
  <2> HIDE DEF to
  <2>2. x5' \in Handlers /\ Fingerprint(g)!LetIn' \subseteq Fingerprint(g)!LetIn
    BY <1>0, <2>1, FingerprintGoes
  <2>3. /\ UNCHANGED <<x1, x3, x4, x6, x7, x8, x9>> /\ x2.on /\ \E done \in BOOLEAN : Fingerprint(g)!Save(x2.creds, done)
    BY <1>11 DEF Fingerprint!PasswordTyped, Fingerprint!history
  <2>4. Fingerprint(g)!LetInAreCounted'
    BY <1>0, <2>2, <2>3, FingerprintFewerLetIn
  <2> QED
    BY <1>0, <1>1, <2>2, <2>3, <2>4
<1>12. ASSUME NEW h \in g.host, Fingerprint(g)!UnlockBegin(r, h) PROVE Fingerprint(g)!IndInv'
  <2> DEFINE to == [at |-> "asking", host |-> h]
  <2>1. to \in [at : {"typed", "asking"}, host : g.host] /\ to.at # "checked" /\ x5' = [x5 EXCEPT ![r] = to]
    BY <1>12 DEF Fingerprint!UnlockBegin
  <2> HIDE DEF to
  <2>2. x5' \in Handlers /\ Fingerprint(g)!LetIn' \subseteq Fingerprint(g)!LetIn
    BY <1>0, <2>1, FingerprintGoes
  <2>3. UNCHANGED <<x1, x2, x3, x4, x6, x7, x8, x9>>
    BY <1>12 DEF Fingerprint!UnlockBegin, Fingerprint!history
  <2>4. Fingerprint(g)!LetInAreCounted'
    BY <1>0, <2>2, <2>3, FingerprintFewerLetIn
  <2> QED
    BY <1>0, <1>1, <2>2, <2>3, <2>4
<1>13. ASSUME NEW h \in g.host, NEW id \in DOMAIN x6, Fingerprint(g)!UnlockFinish(r, id, h) PROVE Fingerprint(g)!IndInv'
  <2> DEFINE to == [at |-> "checked", id |-> id, host |-> h]
  <2>1. to \in [at : {"checked"}, id : Nat, host : g.host] /\ x5' = [x5 EXCEPT ![r] = to]
    BY <1>0, <1>13 DEF Fingerprint!UnlockFinish, Fingerprint!TypeOK
  <2> HIDE DEF to
  <2>2. x5' \in Handlers
    BY <1>0, <2>1, FingerprintGoes
  <2>3. UNCHANGED <<x1, x2, x3, x4, x6, x7, x8, x9>> /\ ~ x4.locked
    BY <1>13 DEF Fingerprint!UnlockFinish, Fingerprint!history
  <2>4. Fingerprint(g)!LetInAreCounted'
    BY <1>0, <2>3 DEF Fingerprint!LetInAreCounted
  <2> QED
    BY <1>0, <1>1, <2>2, <2>3, <2>4
<1> QED
  BY <1>4, <1>5, <1>6, <1>7, <1>8, <1>9, <1>10, <1>11, <1>12, <1>13

\* An assertion that is right: its ceremony is finished, or its use could not
\* be saved.
LEMMA FingerprintRight == ASSUME NEW g \in Gate, Fingerprint(g)!IndInv, NEW r \in Handler, Fingerprint(g)!Right(r) PROVE Fingerprint(g)!IndInv'
<1> DEFINE Handlers == [Handler -> [at : {"idle", "failed", "passed"}] \cup [at : {"typed", "asking"}, host : g.host]
                                     \cup [at : {"checked"}, id : Nat, host : g.host]]
<1>0. /\ Fingerprint(g)!TypeOK /\ Fingerprint(g)!CeremonyWinsOnce /\ Fingerprint(g)!CeremoniesAreBegun /\ Fingerprint(g)!CredentialsAreEnrolled /\ Fingerprint(g)!DeletedAreGone /\ Fingerprint(g)!LetInAreCounted
      /\ x9 \in Nat /\ x4 \in [failures : 0 .. Threshold, locked : BOOLEAN]
  BY DEF Fingerprint!IndInv, Fingerprint!TypeOK
<1>1. PICK done \in BOOLEAN : /\ Fingerprint(g)!Save(x2.creds, done) /\ Fingerprint(g)!Goes(r, IF done THEN "passed" ELSE "failed")
                              /\ IF done THEN Fingerprint(g)!Won(x5[r].id, "unlock", x5[r].host) ELSE UNCHANGED x7
  BY DEF Fingerprint!Right
<1>2. PICK c \in Fingerprint(g)!Good("unlock", x5[r].id) : c.host = x5[r].host /\ c.creds \cap Fingerprint(g)!Of(x2.creds, x5[r].host) # {}
  BY DEF Fingerprint!Right
<1>3. /\ c \in x3 /\ c.id = x5[r].id /\ c.kind = "unlock" /\ c.host = x5[r].host /\ x2.creds # {}
  BY <1>2 DEF Fingerprint!Good, Fingerprint!Of
<1>4. /\ r \in Fingerprint(g)!LetIn /\ Fingerprint(g)!Take(c.id) /\ x3' \subseteq x3 /\ x9' = (IF x4.locked THEN x9 + 1 ELSE x9) /\ UNCHANGED <<x1, x4, x6, x8>>
  BY <1>3 DEF Fingerprint!Right, Fingerprint!LetIn, Fingerprint!Take, Fingerprint!Without
<1>5. x5' \in Handlers /\ Fingerprint(g)!LetIn' \subseteq Fingerprint(g)!LetIn \ {r}
  <2> DEFINE to == IF done THEN "passed" ELSE "failed"
  <2>1. Fingerprint(g)!Goes(r, to) /\ to \in {"idle", "failed", "passed"}
    BY <1>1
  <2> HIDE DEF to
  <2> QED
    BY <1>0, <2>1, FingerprintIdle
<1>6. Fingerprint(g)!LetInAreCounted' /\ x9' \in Nat
  BY <1>0, <1>4, <1>5, FingerprintOneLessLetIn
<1>7. CASE ~ done
  <2>1. UNCHANGED x7
    BY <1>1, <1>7
  <2>2. Fingerprint(g)!TypeOK' /\ Fingerprint(g)!CeremonyWinsOnce' /\ Fingerprint(g)!CeremoniesAreBegun' /\ Fingerprint(g)!CredentialsAreEnrolled' /\ Fingerprint(g)!DeletedAreGone'
    BY <1>0, <1>1, <1>3, <1>4, <1>5, <1>6, <2>1, FingerprintQuiet
  <2> QED
    BY <1>6, <2>2, FingerprintBounded DEF Fingerprint!IndInv
<1>8. CASE done
  <2>1. Fingerprint(g)!Won(c.id, c.kind, c.host)
    BY <1>1, <1>3, <1>8
  <2>2. /\ \A i \in DOMAIN x6 : x7'[i] # <<>> => x7'[i] = <<[kind |-> x6[i].kind, host |-> x6[i].host]>>
        /\ Fingerprint(g)!CeremoniesAreBegun' /\ \A i \in DOMAIN x6 : x7[i] # <<>> => x7'[i] # <<>>
        /\ x7' \in Seq(Seq([kind : {"register", "unlock"}, host : g.host])) /\ Len(x7') = Len(x7)
    BY <1>0, <1>3, <1>4, <2>1, FingerprintWon
  <2>3. x2' = [x2 EXCEPT !.creds = x2.creds, !.saved = x2.creds]
        /\ x2 \in [on : BOOLEAN, creds : SUBSET Fingerprint(g)!Credentials, saved : SUBSET Fingerprint(g)!Credentials, tag : g.hash]
    BY <1>0, <1>1, <1>8 DEF Fingerprint!Save, Fingerprint!TypeOK
  <2>4. /\ x2' \in [on : BOOLEAN, creds : SUBSET Fingerprint(g)!Credentials, saved : SUBSET Fingerprint(g)!Credentials, tag : g.hash]
        /\ x2'.on = x2.on /\ x2'.tag = x2.tag /\ x2'.creds = x2.creds /\ x2'.saved = x2.creds
    BY <2>3
  <2>5. Fingerprint(g)!CeremonyWinsOnce'
    BY <1>0, <1>4, <2>2, <2>4 DEF Fingerprint!CeremonyWinsOnce
  <2>6. Fingerprint(g)!CredentialsAreEnrolled' /\ Fingerprint(g)!DeletedAreGone'
    BY <1>0, <1>3, <1>4, <2>2, <2>4 DEF Fingerprint!CredentialsAreEnrolled, Fingerprint!DeletedAreGone
  <2>7. Fingerprint(g)!TypeOK'
    BY <1>0, <1>4, <1>5, <1>6, <2>2, <2>4, FingerprintTaken, FingerprintSizes DEF Fingerprint!TypeOK
  <2> QED
    BY <1>6, <2>2, <2>5, <2>6, <2>7, FingerprintBounded DEF Fingerprint!IndInv
<1> QED
  BY <1>7, <1>8

\* An attestation: whatever its ceremony is, it is gone, and what is enrolled
\* was begun with the password that is set.
LEMMA FingerprintFinishRegistration ==
    ASSUME NEW g \in Gate, Fingerprint(g)!IndInv, NEW h \in g.host, NEW id \in DOMAIN x6, Fingerprint(g)!FinishRegistration(id, h)
    PROVE  Fingerprint(g)!IndInv'
<1>0. /\ Fingerprint(g)!TypeOK /\ Fingerprint(g)!CeremonyWinsOnce /\ Fingerprint(g)!CeremoniesAreBegun /\ Fingerprint(g)!CredentialsAreEnrolled /\ Fingerprint(g)!DeletedAreGone /\ Fingerprint(g)!LetInAreCounted
      /\ x9 \in Nat /\ x4 \in [failures : 0 .. Threshold, locked : BOOLEAN]
      /\ x5 \in [Handler -> [at : {"idle", "failed", "passed"}] \cup [at : {"typed", "asking"}, host : g.host]
                              \cup [at : {"checked"}, id : Nat, host : g.host]]
      /\ x2 \in [on : BOOLEAN, creds : SUBSET Fingerprint(g)!Credentials, saved : SUBSET Fingerprint(g)!Credentials, tag : g.hash] /\ x1 \in g.hash
  BY DEF Fingerprint!IndInv, Fingerprint!TypeOK
<1>1. x2.on /\ x3' \subseteq x3 /\ Fingerprint(g)!Take(id) /\ UNCHANGED <<x1, x4, x5, x6, x8, x9>>
  BY DEF Fingerprint!FinishRegistration, Fingerprint!Take, Fingerprint!Without
<1>2. Fingerprint(g)!LetInAreCounted' /\ x9' \in Nat
  BY <1>0, <1>1 DEF Fingerprint!LetInAreCounted, Fingerprint!LetIn
<1>3. CASE UNCHANGED <<x2, x7>>
  <2>1. Fingerprint(g)!TypeOK' /\ Fingerprint(g)!CeremonyWinsOnce' /\ Fingerprint(g)!CeremoniesAreBegun' /\ Fingerprint(g)!CredentialsAreEnrolled' /\ Fingerprint(g)!DeletedAreGone'
    BY <1>0, <1>1, <1>2, <1>3, FingerprintQuiet
  <2> QED
    BY <1>2, <2>1, FingerprintBounded DEF Fingerprint!IndInv
<1>4. ASSUME NEW c \in Fingerprint(g)!Good("register", id), NEW done \in BOOLEAN, c.host = h,
             Fingerprint(g)!Save(x2.creds \cup {[id |-> id, host |-> h, hash |-> x1]}, done), Fingerprint(g)!Won(id, "register", h)
      PROVE  Fingerprint(g)!IndInv'
  <2> DEFINE k == [id |-> id, host |-> h, hash |-> x1]
             s == IF done THEN x2.creds \cup {k} ELSE x2.saved
  <2>1. c \in x3 /\ c.id = id /\ c.kind = "register" /\ Fingerprint(g)!Take(c.id) /\ Fingerprint(g)!Won(c.id, c.kind, c.host)
    BY <1>1, <1>4 DEF Fingerprint!Good
  <2>2. /\ \A i \in DOMAIN x6 : x7'[i] # <<>> => x7'[i] = <<[kind |-> x6[i].kind, host |-> x6[i].host]>>
        /\ Fingerprint(g)!CeremoniesAreBegun' /\ \A i \in DOMAIN x6 : x7[i] # <<>> => x7'[i] # <<>>
        /\ c.id \in DOMAIN x6 /\ x7'[c.id] # <<>> /\ x7[c.id] = <<>> /\ x6[c.id] = [kind |-> c.kind, host |-> c.host, hash |-> x1]
        /\ x7' \in Seq(Seq([kind : {"register", "unlock"}, host : g.host])) /\ Len(x7') = Len(x7)
    BY <1>0, <1>1, <2>1, FingerprintWon
  <2>3. /\ k \in Fingerprint(g)!Credentials /\ k.id = id /\ k.host = h /\ k.hash = x1 /\ x7'[k.id] # <<>> /\ x7[k.id] = <<>> /\ k.id \in DOMAIN x6
        /\ x6[k.id] = [kind |-> "register", host |-> k.host, hash |-> k.hash]
    <3>1. id \in Nat
      BY <1>0 DEF Fingerprint!TypeOK
    <3> QED
      BY <1>0, <1>4, <2>1, <2>2, <3>1 DEF Fingerprint!Credentials
  <2>4. x2' = [x2 EXCEPT !.creds = x2.creds \cup {k}, !.saved = s]
    BY <1>4 DEF Fingerprint!Save
  <2>5. k \notin x8
    BY <1>0, <2>3 DEF Fingerprint!CredentialsAreEnrolled
  <2>6. s = x2.saved \/ s = x2.creds \cup {k}
    OBVIOUS
  <2> HIDE DEF k, s
  <2>7. /\ x2' \in [on : BOOLEAN, creds : SUBSET Fingerprint(g)!Credentials, saved : SUBSET Fingerprint(g)!Credentials, tag : g.hash]
        /\ x2'.on = x2.on /\ x2'.tag = x2.tag /\ x2'.creds = x2.creds \cup {k} /\ x2'.saved = s
    BY <1>0, <2>3, <2>4, <2>6
  <2>8. Fingerprint(g)!CeremonyWinsOnce'
    BY <1>0, <1>1, <2>2, <2>3, <2>7 DEF Fingerprint!CeremonyWinsOnce
  <2>9. Fingerprint(g)!CredentialsAreEnrolled'
    <3>1. ASSUME NEW q \in x2'.creds \cup x2'.saved \cup x8'
          PROVE  q.id \in DOMAIN x6' /\ x7'[q.id] # <<>> /\ x6'[q.id] = [kind |-> "register", host |-> q.host, hash |-> q.hash]
      <4>1. q = k \/ q \in x2.creds \cup x2.saved \cup x8
        BY <1>1, <2>6, <2>7
      <4> QED
        BY <1>0, <1>1, <2>2, <2>3, <4>1 DEF Fingerprint!CredentialsAreEnrolled
    <3>2. \A q \in x2'.creds : q.hash = x1'
      BY <1>0, <1>1, <2>3, <2>7 DEF Fingerprint!CredentialsAreEnrolled
    <3>3. \A q \in x2'.saved : q.hash = x2'.tag
      BY <1>0, <1>1, <2>3, <2>6, <2>7 DEF Fingerprint!CredentialsAreEnrolled
    <3>4. IF x2'.on THEN x2'.tag = x1' ELSE x2'.creds = {}
      BY <1>0, <1>1, <2>7 DEF Fingerprint!CredentialsAreEnrolled
    <3> QED
      BY <3>1, <3>2, <3>3, <3>4 DEF Fingerprint!CredentialsAreEnrolled
  <2>10. Fingerprint(g)!DeletedAreGone'
    BY <1>0, <1>1, <2>5, <2>6, <2>7 DEF Fingerprint!DeletedAreGone
  <2>11. Fingerprint(g)!TypeOK'
    BY <1>0, <1>1, <1>2, <2>2, <2>7, FingerprintTaken, FingerprintSizes DEF Fingerprint!TypeOK
  <2> QED
    BY <1>2, <2>2, <2>8, <2>9, <2>10, <2>11, FingerprintBounded DEF Fingerprint!IndInv
<1> QED
  BY <1>3, <1>4 DEF Fingerprint!FinishRegistration

\* A credential that is deleted is gone from the file too.
LEMMA FingerprintDelete == ASSUME NEW g \in Gate, Fingerprint(g)!IndInv, NEW k \in x2.creds, Fingerprint(g)!Delete(k) PROVE Fingerprint(g)!IndInv'
<1>0. /\ Fingerprint(g)!TypeOK /\ Fingerprint(g)!CeremonyWinsOnce /\ Fingerprint(g)!CeremoniesAreBegun /\ Fingerprint(g)!CredentialsAreEnrolled /\ Fingerprint(g)!DeletedAreGone /\ Fingerprint(g)!LetInAreCounted
      /\ x2 \in [on : BOOLEAN, creds : SUBSET Fingerprint(g)!Credentials, saved : SUBSET Fingerprint(g)!Credentials, tag : g.hash]
  BY DEF Fingerprint!IndInv, Fingerprint!TypeOK
<1> DEFINE s == x2.creds \ {k}
<1>1. x2' = [x2 EXCEPT !.creds = s, !.saved = s] /\ x8' = x8 \cup {k} /\ UNCHANGED <<x1, x3, x4, x5, x6, x7, x9>> /\ x2.on
  BY DEF Fingerprint!Delete, Fingerprint!Save
<1>2. s \subseteq x2.creds /\ k \notin s
  OBVIOUS
<1> HIDE DEF s
<1>3. /\ x2' \in [on : BOOLEAN, creds : SUBSET Fingerprint(g)!Credentials, saved : SUBSET Fingerprint(g)!Credentials, tag : g.hash]
      /\ x2'.on = x2.on /\ x2'.tag = x2.tag /\ x2'.creds = s /\ x2'.saved = s
  BY <1>0, <1>1, <1>2
<1>4. Fingerprint(g)!CeremonyWinsOnce'
  BY <1>0, <1>1, <1>2, <1>3 DEF Fingerprint!CeremonyWinsOnce
<1>5. Fingerprint(g)!CeremoniesAreBegun'
  BY <1>0, <1>1 DEF Fingerprint!CeremoniesAreBegun
<1>6. Fingerprint(g)!CredentialsAreEnrolled'
  BY <1>0, <1>1, <1>2, <1>3 DEF Fingerprint!CredentialsAreEnrolled
<1>7. Fingerprint(g)!DeletedAreGone'
  BY <1>0, <1>1, <1>2, <1>3 DEF Fingerprint!DeletedAreGone
<1>8. Fingerprint(g)!LetInAreCounted'
  BY <1>0, <1>1 DEF Fingerprint!LetInAreCounted, Fingerprint!LetIn
<1>9. k \in Fingerprint(g)!Credentials
  BY <1>0
<1>10. Fingerprint(g)!TypeOK'
  BY <1>0, <1>1, <1>3, <1>9 DEF Fingerprint!TypeOK
<1>11. x9' \in Nat
  BY <1>10 DEF Fingerprint!TypeOK
<1> QED
  BY <1>4, <1>5, <1>6, <1>7, <1>8, <1>10, <1>11, FingerprintBounded DEF Fingerprint!IndInv

\* No ceremony outlives the process, nor anything under another password.
LEMMA FingerprintRestart == ASSUME NEW g \in Gate, Fingerprint(g)!IndInv, NEW h \in g.hash, Fingerprint(g)!Restart(h) PROVE Fingerprint(g)!IndInv'
<1>0. /\ Fingerprint(g)!TypeOK /\ Fingerprint(g)!CeremonyWinsOnce /\ Fingerprint(g)!CeremoniesAreBegun /\ Fingerprint(g)!CredentialsAreEnrolled /\ Fingerprint(g)!DeletedAreGone
      /\ x2 \in [on : BOOLEAN, creds : SUBSET Fingerprint(g)!Credentials, saved : SUBSET Fingerprint(g)!Credentials, tag : g.hash]
  BY DEF Fingerprint!IndInv, Fingerprint!TypeOK
<1>1. x1' = h /\ x3' = {} /\ x4' = Fingerprint(g)!NoFailures /\ x9' = 0 /\ x5' = [r \in Handler |-> Fingerprint(g)!Idle] /\ UNCHANGED <<x6, x7, x8>>
  BY DEF Fingerprint!Restart, Fingerprint!Locks, Fingerprint!NoFailures
<1>2. \/ x2.tag = h /\ x2' = [x2 EXCEPT !.on = TRUE, !.creds = x2.saved]
      \/ x2' = [on |-> TRUE, creds |-> {}, saved |-> {}, tag |-> h]
      \/ x2' = [x2 EXCEPT !.on = FALSE, !.creds = {}]
  BY DEF Fingerprint!Restart
<1>3. /\ x2' \in [on : BOOLEAN, creds : SUBSET Fingerprint(g)!Credentials, saved : SUBSET Fingerprint(g)!Credentials, tag : g.hash]
      /\ x2'.creds = {} \/ (x2'.creds = x2.saved /\ x2'.saved = x2.saved /\ x2'.tag = x2.tag /\ x2.tag = h)
      /\ x2'.saved = {} \/ (x2'.saved = x2.saved /\ x2'.tag = x2.tag)
      /\ IF x2'.on THEN x2'.tag = h ELSE x2'.creds = {}
  <2>1. CASE x2.tag = h /\ x2' = [x2 EXCEPT !.on = TRUE, !.creds = x2.saved]
    BY <1>0, <2>1
  <2>2. CASE x2' = [on |-> TRUE, creds |-> {}, saved |-> {}, tag |-> h]
    BY <2>2
  <2>3. CASE x2' = [x2 EXCEPT !.on = FALSE, !.creds = {}]
    BY <1>0, <2>3
  <2> QED
    BY <1>2, <2>1, <2>2, <2>3
<1>4. Fingerprint(g)!CredentialsAreEnrolled'
  BY <1>0, <1>1, <1>3 DEF Fingerprint!CredentialsAreEnrolled
<1>5. Fingerprint(g)!CeremonyWinsOnce' /\ Fingerprint(g)!CeremoniesAreBegun' /\ Fingerprint(g)!DeletedAreGone'
  BY <1>0, <1>1, <1>3 DEF Fingerprint!CeremonyWinsOnce, Fingerprint!CeremoniesAreBegun, Fingerprint!DeletedAreGone, Fingerprint!CredentialsAreEnrolled
<1>6. IsFiniteSet(x3') /\ Cardinality(x3') <= g.room
  BY <1>1, FS_EmptySet, FingerprintAssumption
<1>7. x4' \in [failures : 0 .. Threshold, locked : BOOLEAN] /\ ~ x4'.locked
  BY <1>1, FingerprintAssumption DEF Fingerprint!NoFailures
<1>8. x5' \in [Handler -> [at : {"idle", "failed", "passed"}] \cup [at : {"typed", "asking"}, host : g.host]
                            \cup [at : {"checked"}, id : Nat, host : g.host]]
  BY <1>1 DEF Fingerprint!Idle
<1>9. Fingerprint(g)!TypeOK'
  BY <1>0, <1>1, <1>3, <1>6, <1>7, <1>8, FingerprintSizes DEF Fingerprint!TypeOK
<1>10. Fingerprint(g)!LetInAreCounted' /\ x9' \in Nat
  BY <1>1, <1>7 DEF Fingerprint!LetInAreCounted
<1> QED
  BY <1>4, <1>5, <1>9, <1>10, FingerprintBounded DEF Fingerprint!IndInv

\* A ceremony that expires stays what it was begun as.
LEMMA FingerprintExpires == ASSUME NEW g \in Gate, Fingerprint(g)!IndInv, Fingerprint(g)!Expires PROVE Fingerprint(g)!IndInv'
<1>0. /\ Fingerprint(g)!TypeOK /\ Fingerprint(g)!CeremonyWinsOnce /\ Fingerprint(g)!CeremoniesAreBegun /\ Fingerprint(g)!CredentialsAreEnrolled /\ Fingerprint(g)!DeletedAreGone /\ Fingerprint(g)!LetInAreCounted
  BY DEF Fingerprint!IndInv
<1>1. PICK c \in x3 : x3' = (x3 \ {c}) \cup {[c EXCEPT !.late = TRUE]}
  BY DEF Fingerprint!Expires
<1>2. UNCHANGED <<x1, x2, x4, x5, x6, x7, x8, x9>>
  BY DEF Fingerprint!Expires, Fingerprint!history
<1> DEFINE C == [id : Nat, kind : {"register", "unlock"}, host : g.host, late : BOOLEAN, creds : SUBSET Fingerprint(g)!Credentials]
           e == [c EXCEPT !.late = TRUE]
<1>3. x3 \subseteq C /\ IsFiniteSet(x3) /\ Cardinality(x3) <= g.room /\ g.room \in Nat
  BY FingerprintSizes, FingerprintAssumption, <1>0 DEF Fingerprint!TypeOK
<1>4. e \in C /\ e.id = c.id /\ e.kind = c.kind /\ e.host = c.host
  BY <1>3
<1> HIDE DEF e
<1>5. x3' \subseteq C /\ x3' = (x3 \ {c}) \cup {e}
  BY <1>1, <1>3, <1>4 DEF e
<1>6. IsFiniteSet(x3') /\ Cardinality(x3') <= g.room
  <2>1. IsFiniteSet(x3 \ {c}) /\ Cardinality(x3 \ {c}) = Cardinality(x3) - 1 /\ Cardinality(x3) \in Nat
    BY <1>3, OneLess, FS_CardinalityType
  <2>2. IsFiniteSet((x3 \ {c}) \cup {e}) /\ Cardinality((x3 \ {c}) \cup {e}) <= Cardinality(x3 \ {c}) + 1
        /\ Cardinality((x3 \ {c}) \cup {e}) \in Nat
    BY <2>1, OneMore
  <2> QED
    BY <1>3, <1>5, <2>1, <2>2
<1>7. Fingerprint(g)!CeremoniesAreBegun'
  BY <1>0, <1>2, <1>4, <1>5 DEF Fingerprint!CeremoniesAreBegun
<1>8. Fingerprint(g)!CeremonyWinsOnce' /\ Fingerprint(g)!CredentialsAreEnrolled' /\ Fingerprint(g)!DeletedAreGone'
  BY <1>0, <1>2 DEF Fingerprint!CeremonyWinsOnce, Fingerprint!CredentialsAreEnrolled, Fingerprint!DeletedAreGone
<1>9. Fingerprint(g)!LetInAreCounted'
  BY <1>0, <1>2 DEF Fingerprint!LetInAreCounted, Fingerprint!LetIn
<1>10. Fingerprint(g)!TypeOK'
  BY <1>0, <1>2, <1>5, <1>6, FingerprintSizes DEF Fingerprint!TypeOK
<1>11. x9' \in Nat
  BY <1>10 DEF Fingerprint!TypeOK
<1> QED
  BY <1>7, <1>8, <1>9, <1>10, <1>11, FingerprintBounded DEF Fingerprint!IndInv

\* So does a lockout that ends.
LEMMA FingerprintLockoutEnds == ASSUME NEW g \in Gate, Fingerprint(g)!IndInv, Fingerprint(g)!LockoutEnds PROVE Fingerprint(g)!IndInv'
<1>0. /\ Fingerprint(g)!TypeOK /\ Fingerprint(g)!CeremonyWinsOnce /\ Fingerprint(g)!CeremoniesAreBegun /\ Fingerprint(g)!CredentialsAreEnrolled /\ Fingerprint(g)!DeletedAreGone
      /\ x4 \in [failures : 0 .. Threshold, locked : BOOLEAN]
      /\ x5 \in [Handler -> [at : {"idle", "failed", "passed"}] \cup [at : {"typed", "asking"}, host : g.host]
                              \cup [at : {"checked"}, id : Nat, host : g.host]]
  BY DEF Fingerprint!IndInv, Fingerprint!TypeOK
<1>1. x4' \in [failures : 0 .. Threshold, locked : BOOLEAN] /\ ~ x4'.locked /\ x9' = 0 /\ UNCHANGED <<x1, x2, x3, x5, x6, x7, x8>>
  BY <1>0 DEF Fingerprint!LockoutEnds, Fingerprint!Locks
<1>2. Fingerprint(g)!LetInAreCounted'
  BY <1>1 DEF Fingerprint!LetInAreCounted
<1>3. Fingerprint(g)!TypeOK' /\ Fingerprint(g)!CeremonyWinsOnce' /\ Fingerprint(g)!CeremoniesAreBegun' /\ Fingerprint(g)!CredentialsAreEnrolled' /\ Fingerprint(g)!DeletedAreGone'
  BY <1>0, <1>1, FingerprintQuiet
<1> QED
  BY <1>1, <1>2, <1>3, FingerprintBounded DEF Fingerprint!IndInv

\* So does a step that leaves the variables of the part alone.
LEMMA FingerprintStill == ASSUME NEW g \in Gate, Fingerprint(g)!IndInv, UNCHANGED <<x1, x2, x3, x4, x5, x6, x7, x8, x9>> PROVE Fingerprint(g)!IndInv'
<1>0. /\ Fingerprint(g)!TypeOK /\ Fingerprint(g)!CeremonyWinsOnce /\ Fingerprint(g)!CeremoniesAreBegun /\ Fingerprint(g)!CredentialsAreEnrolled /\ Fingerprint(g)!DeletedAreGone /\ Fingerprint(g)!LetInAreCounted
      /\ Fingerprint(g)!OverrunIsBounded
  BY DEF Fingerprint!IndInv
<1>1. Fingerprint(g)!TypeOK'
  BY <1>0 DEF Fingerprint!TypeOK
<1>2. Fingerprint(g)!CeremonyWinsOnce' /\ Fingerprint(g)!CeremoniesAreBegun' /\ Fingerprint(g)!CredentialsAreEnrolled' /\ Fingerprint(g)!DeletedAreGone'
  BY <1>0, FingerprintKept
<1>3. Fingerprint(g)!LetInAreCounted' /\ Fingerprint(g)!OverrunIsBounded'
  BY <1>0 DEF Fingerprint!LetInAreCounted, Fingerprint!LetIn, Fingerprint!OverrunIsBounded
<1> QED
  BY <1>1, <1>2, <1>3 DEF Fingerprint!IndInv

\* Every step keeps the invariant.
LEMMA FingerprintStep == ASSUME NEW g \in Gate, Fingerprint(g)!IndInv, Fingerprint(g)!Next PROVE Fingerprint(g)!IndInv'
<1>1. CASE Fingerprint(g)!Expires
  BY <1>1, FingerprintExpires
<1>2. CASE Fingerprint(g)!LockoutEnds
  BY <1>2, FingerprintLockoutEnds
<1>3. ASSUME NEW h \in g.hash, Fingerprint(g)!Restart(h) PROVE Fingerprint(g)!IndInv'
  BY <1>3, FingerprintRestart
<1>4. ASSUME NEW h \in g.host, NEW id \in DOMAIN x6, Fingerprint(g)!FinishRegistration(id, h) PROVE Fingerprint(g)!IndInv'
  BY <1>4, FingerprintFinishRegistration
<1>5. ASSUME NEW k \in x2.creds, Fingerprint(g)!Delete(k) PROVE Fingerprint(g)!IndInv'
  BY <1>5, FingerprintDelete
<1>6. ASSUME NEW r \in Handler, Fingerprint(g)!Right(r) PROVE Fingerprint(g)!IndInv'
  BY <1>6, FingerprintRight
<1>7. ASSUME NEW r \in Handler,
             \/ Fingerprint(g)!RegisterBegin(r) \/ Fingerprint(g)!BeginUnlock(r) \/ Fingerprint(g)!Unread(r) \/ Fingerprint(g)!Unknown(r) \/ Fingerprint(g)!Wrong(r) \/ Fingerprint(g)!Failed(r) \/ Fingerprint(g)!Passed(r)
             \/ \E h \in g.host : \/ Fingerprint(g)!PasswordTyped(r, h) \/ Fingerprint(g)!UnlockBegin(r, h)
                                  \/ \E id \in DOMAIN x6 : Fingerprint(g)!UnlockFinish(r, id, h)
      PROVE  Fingerprint(g)!IndInv'
  BY <1>7, FingerprintRequests
<1> QED
  BY <1>1, <1>2, <1>3, <1>4, <1>5, <1>6, <1>7 DEF Fingerprint!Next

\* What was deleted is gone before the step and after it.
LEMMA FingerprintNewest == ASSUME NEW g \in Gate, Fingerprint(g)!IndInv, Fingerprint(g)!IndInv', x8 \subseteq x8' PROVE Fingerprint(g)!DeletedStaysDeleted
BY DEF Fingerprint!IndInv, Fingerprint!DeletedAreGone, Fingerprint!DeletedStaysDeleted

\* What was deleted is remembered.
LEMMA FingerprintDeleted == ASSUME NEW g \in Gate, Fingerprint(g)!Next PROVE x8 \subseteq x8'
<1>1. ASSUME NEW r \in Handler, Fingerprint(g)!RegisterBegin(r) \/ Fingerprint(g)!BeginUnlock(r) \/ Fingerprint(g)!Unread(r) \/ Fingerprint(g)!Unknown(r) \/ Fingerprint(g)!Wrong(r) \/ Fingerprint(g)!Right(r)
             \/ Fingerprint(g)!Failed(r) \/ Fingerprint(g)!Passed(r)
      PROVE  x8' = x8
  BY <1>1 DEF Fingerprint!RegisterBegin, Fingerprint!BeginUnlock, Fingerprint!Unread, Fingerprint!Unknown, Fingerprint!Wrong, Fingerprint!Right, Fingerprint!Failed, Fingerprint!Passed, Fingerprint!history
<1>2. ASSUME NEW r \in Handler, NEW h \in g.host, Fingerprint(g)!PasswordTyped(r, h) \/ Fingerprint(g)!UnlockBegin(r, h) PROVE x8' = x8
  BY <1>2 DEF Fingerprint!PasswordTyped, Fingerprint!UnlockBegin, Fingerprint!history
<1>3. ASSUME NEW r \in Handler, NEW h \in g.host, NEW id \in DOMAIN x6, Fingerprint(g)!UnlockFinish(r, id, h) PROVE x8' = x8
  BY <1>3 DEF Fingerprint!UnlockFinish, Fingerprint!history
<1>4. ASSUME NEW h \in g.host, NEW id \in DOMAIN x6, Fingerprint(g)!FinishRegistration(id, h) PROVE x8' = x8
  BY <1>4 DEF Fingerprint!FinishRegistration
<1>5. ASSUME Fingerprint(g)!Expires \/ Fingerprint(g)!LockoutEnds \/ \E h \in g.hash : Fingerprint(g)!Restart(h) PROVE x8' = x8
  BY <1>5 DEF Fingerprint!Expires, Fingerprint!LockoutEnds, Fingerprint!Restart, Fingerprint!history
<1>6. ASSUME NEW k \in x2.creds, Fingerprint(g)!Delete(k) PROVE x8 \subseteq x8'
  BY <1>6 DEF Fingerprint!Delete
<1> QED
  BY <1>1, <1>2, <1>3, <1>4, <1>5, <1>6 DEF Fingerprint!Next

-----------------------------------------------------------------------------
(* Editors of settings: EditedFiles.                                       *)

\* What the editors have in common.
LEMMA EditorKinds ==
    /\ \A e \in Editor!Editor :
        /\ e.guard \in {"version", "compare", "none"} /\ e.after \in {"sent", "reload", "answer"}
        /\ e.asks => e.guard = "version" /\ e.after = "sent" /\ e.retry
    /\ Editor!ClaudeSettings.guard = "compare"
BY DEF Editor!Editor, Editor!FileEditorSheet, Editor!RawConfigEditor, Editor!SshConfigRaw, Editor!GlobalGitignore, Editor!ClaudeSettings,
        Editor!GitUserForm, Editor!AiTrailer, Editor!CommitSigning

\* The initial states satisfy the invariant.
LEMMA EditorInit == ASSUME Editor!Init PROVE Editor!IndInv
<1> USE EditorAssumption, EditorKinds
<1>1. PICK e \in Editor!Editor : x1 = [is |-> e, phase |-> "loading", text |-> Empty, saved |-> Empty,
                               base |-> IF e = Editor!ClaudeSettings THEN None ELSE Empty, busy |-> "no", changed |-> FALSE, discard |-> FALSE, saves |-> 0]
  BY DEF Editor!Init
<1>2. PICK t \in Text : x3 = [text |-> t, was |-> {t}, writes |-> 0]
  BY DEF Editor!Init
<1>3. x2 = {Editor!Call("load", None, None, None, None)} /\ x4 = {}
  BY DEF Editor!Init, Editor!Load
<1>4. Editor!TypeOK
  BY <1>1, <1>2, <1>3 DEF Editor!TypeOK, Editor!Editors, Editor!Requests, Editor!Texts, Editor!Call
<1>5. Editor!NothingStuck /\ Editor!OthersAreKept /\ Editor!SavedWasStored
  BY <1>1, <1>2, <1>3 DEF Editor!NothingStuck, Editor!OthersAreKept, Editor!SavedWasStored
<1>6. Editor!BaseIsSaved /\ Editor!TextWas /\ Editor!OneCall
  BY <1>1, <1>2, <1>3 DEF Editor!BaseIsSaved, Editor!TextWas, Editor!OneCall
<1>7. Editor!CallFits /\ Editor!AnswersWere /\ Editor!SavesFit
  BY <1>1, <1>2, <1>3 DEF Editor!CallFits, Editor!AnswersWere, Editor!SavesFit, Editor!Call
<1> QED
  BY <1>4, <1>5, <1>6, <1>7 DEF Editor!IndInv

\* An editor whose file could not be read reads it again.
LEMMA EditorRetry ==
    ASSUME Editor!IndInv,
           Editor!Retry
    PROVE  Editor!IndInv'
<1> USE EditorAssumption, EditorKinds
<1>1. x1' \in Editor!Editors
  BY DEF Editor!IndInv, Editor!TypeOK, Editor!OneCall, Editor!CallFits, Editor!Editors, Editor!Requests, Editor!Texts, Editor!BaseIsSaved, Editor!SavesFit, Editor!Retry
<1>2. x2' \subseteq Editor!Requests
  BY DEF Editor!IndInv, Editor!TypeOK, Editor!OneCall, Editor!CallFits, Editor!Editors, Editor!Requests, Editor!Texts, Editor!SavesFit, Editor!Call, Editor!Load, Editor!Retry
<1>3. x3' \in [text : Editor!Texts, was : SUBSET Editor!Texts, writes : Nat]
  BY DEF Editor!IndInv, Editor!TypeOK, Editor!OneCall, Editor!CallFits, Editor!Editors, Editor!Requests, Editor!Texts, Editor!SavesFit, Editor!Retry
<1>4. Editor!NothingStuck'
  BY DEF Editor!IndInv, Editor!TypeOK, Editor!OneCall, Editor!CallFits, Editor!NothingStuck, Editor!Editors, Editor!Load, Editor!Retry
<1>5. Editor!OthersAreKept'
  BY DEF Editor!IndInv, Editor!TypeOK, Editor!OneCall, Editor!CallFits, Editor!OthersAreKept, Editor!Requests, Editor!Editors, Editor!SavesFit, Editor!Looked, Editor!Retry
<1>6. Editor!SavedWasStored'
  BY DEF Editor!IndInv, Editor!TypeOK, Editor!OneCall, Editor!CallFits, Editor!SavedWasStored, Editor!AnswersWere, Editor!Editors, Editor!Requests, Editor!Retry
<1>7. Editor!BaseIsSaved' /\ Editor!TextWas'
  BY DEF Editor!IndInv, Editor!TypeOK, Editor!OneCall, Editor!CallFits, Editor!BaseIsSaved, Editor!TextWas, Editor!Editors, Editor!Requests, Editor!Retry
<1>8. Editor!OneCall'
  BY DEF Editor!IndInv, Editor!TypeOK, Editor!OneCall, Editor!CallFits, Editor!Call, Editor!Load, Editor!Retry
<1>9. Editor!CallFits'
  BY DEF Editor!IndInv, Editor!TypeOK, Editor!OneCall, Editor!CallFits, Editor!Editors, Editor!Requests, Editor!Call, Editor!Load, Editor!Retry
<1>10. Editor!AnswersWere'
  BY DEF Editor!IndInv, Editor!TypeOK, Editor!OneCall, Editor!CallFits, Editor!AnswersWere, Editor!TextWas, Editor!Requests, Editor!Call, Editor!Load, Editor!Retry
<1>11. Editor!SavesFit'
  BY DEF Editor!IndInv, Editor!TypeOK, Editor!OneCall, Editor!CallFits, Editor!SavesFit, Editor!Looked, Editor!TextWas, Editor!AnswersWere, Editor!BaseIsSaved, Editor!Editors, Editor!Requests, Editor!Texts, Editor!Call, Editor!Load, Editor!Retry
<1> QED
  BY <1>1, <1>2, <1>3, <1>4, <1>5, <1>6, <1>7, <1>8, <1>9, <1>10, <1>11 DEF Editor!IndInv, Editor!TypeOK

\* The text of the file replaces the one in the editor.
LEMMA EditorKeepTheirs ==
    ASSUME Editor!IndInv,
           Editor!KeepTheirs
    PROVE  Editor!IndInv'
<1> USE EditorAssumption, EditorKinds
<1>1. x1' \in Editor!Editors
  BY DEF Editor!IndInv, Editor!TypeOK, Editor!OneCall, Editor!CallFits, Editor!Editors, Editor!Requests, Editor!Texts, Editor!BaseIsSaved, Editor!SavesFit, Editor!KeepTheirs
<1>2. x2' \subseteq Editor!Requests
  BY DEF Editor!IndInv, Editor!TypeOK, Editor!OneCall, Editor!CallFits, Editor!Editors, Editor!Requests, Editor!Texts, Editor!SavesFit, Editor!Call, Editor!Load, Editor!KeepTheirs
<1>3. x3' \in [text : Editor!Texts, was : SUBSET Editor!Texts, writes : Nat]
  BY DEF Editor!IndInv, Editor!TypeOK, Editor!OneCall, Editor!CallFits, Editor!Editors, Editor!Requests, Editor!Texts, Editor!SavesFit, Editor!KeepTheirs
<1>4. Editor!NothingStuck'
  BY DEF Editor!IndInv, Editor!TypeOK, Editor!OneCall, Editor!CallFits, Editor!NothingStuck, Editor!Editors, Editor!Load, Editor!KeepTheirs
<1>5. Editor!OthersAreKept'
  BY DEF Editor!IndInv, Editor!TypeOK, Editor!OneCall, Editor!CallFits, Editor!OthersAreKept, Editor!Requests, Editor!Editors, Editor!SavesFit, Editor!Looked, Editor!KeepTheirs
<1>6. Editor!SavedWasStored'
  BY DEF Editor!IndInv, Editor!TypeOK, Editor!OneCall, Editor!CallFits, Editor!SavedWasStored, Editor!AnswersWere, Editor!Editors, Editor!Requests, Editor!KeepTheirs
<1>7. Editor!BaseIsSaved' /\ Editor!TextWas'
  BY DEF Editor!IndInv, Editor!TypeOK, Editor!OneCall, Editor!CallFits, Editor!BaseIsSaved, Editor!TextWas, Editor!Editors, Editor!Requests, Editor!KeepTheirs
<1>8. Editor!OneCall'
  BY DEF Editor!IndInv, Editor!TypeOK, Editor!OneCall, Editor!CallFits, Editor!Call, Editor!Load, Editor!KeepTheirs
<1>9. Editor!CallFits'
  BY DEF Editor!IndInv, Editor!TypeOK, Editor!OneCall, Editor!CallFits, Editor!Editors, Editor!Requests, Editor!Call, Editor!Load, Editor!KeepTheirs
<1>10. Editor!AnswersWere'
  BY DEF Editor!IndInv, Editor!TypeOK, Editor!OneCall, Editor!CallFits, Editor!AnswersWere, Editor!TextWas, Editor!Requests, Editor!Call, Editor!Load, Editor!KeepTheirs
<1>11. Editor!SavesFit'
  BY DEF Editor!IndInv, Editor!TypeOK, Editor!OneCall, Editor!CallFits, Editor!SavesFit, Editor!Looked, Editor!TextWas, Editor!AnswersWere, Editor!BaseIsSaved, Editor!Editors, Editor!Requests, Editor!Texts, Editor!Call, Editor!Load, Editor!KeepTheirs
<1> QED
  BY <1>1, <1>2, <1>3, <1>4, <1>5, <1>6, <1>7, <1>8, <1>9, <1>10, <1>11 DEF Editor!IndInv, Editor!TypeOK

\* An editor with changes asks before it closes.
LEMMA EditorCloseAsks ==
    ASSUME Editor!IndInv,
           x1.phase # "closed", x1' = [x1 EXCEPT !.discard = TRUE], UNCHANGED <<x2, x3, x4>>
    PROVE  Editor!IndInv'
<1> USE EditorAssumption, EditorKinds
<1>1. x1' \in Editor!Editors
  <2>1. x1 \in Editor!Editors /\ TRUE \in BOOLEAN
    BY DEF Editor!IndInv, Editor!TypeOK
  <2> QED
    BY <2>1, Zenon DEF Editor!Editors
<1>2. x2' \subseteq Editor!Requests
  BY DEF Editor!IndInv, Editor!TypeOK, Editor!OneCall, Editor!CallFits, Editor!Editors, Editor!Requests, Editor!Texts, Editor!SavesFit, Editor!Call, Editor!Load
<1>3. x3' \in [text : Editor!Texts, was : SUBSET Editor!Texts, writes : Nat]
  BY DEF Editor!IndInv, Editor!TypeOK, Editor!OneCall, Editor!CallFits, Editor!Editors, Editor!Requests, Editor!Texts, Editor!SavesFit
<1>4. Editor!NothingStuck'
  BY DEF Editor!IndInv, Editor!TypeOK, Editor!OneCall, Editor!CallFits, Editor!NothingStuck, Editor!Editors, Editor!Load
<1>5. Editor!OthersAreKept'
  BY DEF Editor!IndInv, Editor!TypeOK, Editor!OneCall, Editor!CallFits, Editor!OthersAreKept, Editor!Requests, Editor!Editors, Editor!SavesFit, Editor!Looked
<1>6. Editor!SavedWasStored'
  BY DEF Editor!IndInv, Editor!TypeOK, Editor!OneCall, Editor!CallFits, Editor!SavedWasStored, Editor!AnswersWere, Editor!Editors, Editor!Requests
<1>7. Editor!BaseIsSaved' /\ Editor!TextWas'
  BY DEF Editor!IndInv, Editor!TypeOK, Editor!OneCall, Editor!CallFits, Editor!BaseIsSaved, Editor!TextWas, Editor!Editors, Editor!Requests
<1>8. Editor!OneCall'
  BY DEF Editor!IndInv, Editor!TypeOK, Editor!OneCall, Editor!CallFits, Editor!Call, Editor!Load
<1>9. Editor!CallFits'
  BY DEF Editor!IndInv, Editor!TypeOK, Editor!OneCall, Editor!CallFits, Editor!Editors, Editor!Requests, Editor!Call, Editor!Load
<1>10. Editor!AnswersWere'
  BY DEF Editor!IndInv, Editor!TypeOK, Editor!OneCall, Editor!CallFits, Editor!AnswersWere, Editor!TextWas, Editor!Requests, Editor!Call, Editor!Load
<1>11. Editor!SavesFit'
  BY DEF Editor!IndInv, Editor!TypeOK, Editor!OneCall, Editor!CallFits, Editor!SavesFit, Editor!Looked, Editor!TextWas, Editor!AnswersWere, Editor!BaseIsSaved, Editor!Editors, Editor!Requests, Editor!Texts, Editor!Call, Editor!Load
<1> QED
  BY <1>1, <1>2, <1>3, <1>4, <1>5, <1>6, <1>7, <1>8, <1>9, <1>10, <1>11 DEF Editor!IndInv, Editor!TypeOK

\* One without closes.
LEMMA EditorCloseNow ==
    ASSUME Editor!IndInv,
           x1' = [x1 EXCEPT !.phase = "closed", !.busy = "no"], UNCHANGED <<x2, x3, x4>>
    PROVE  Editor!IndInv'
<1> USE EditorAssumption, EditorKinds
<1>1. x1' \in Editor!Editors
  <2>1. x1 \in Editor!Editors /\ "closed" \in {"loading", "failed", "ready", "closed"} /\ "no" \in {"no", "check", "put", "reload"}
    BY DEF Editor!IndInv, Editor!TypeOK
  <2> QED
    BY <2>1, Zenon DEF Editor!Editors
<1>2. x2' \subseteq Editor!Requests
  BY DEF Editor!IndInv, Editor!TypeOK, Editor!OneCall, Editor!CallFits, Editor!Editors, Editor!Requests, Editor!Texts, Editor!SavesFit, Editor!Call, Editor!Load
<1>3. x3' \in [text : Editor!Texts, was : SUBSET Editor!Texts, writes : Nat]
  BY DEF Editor!IndInv, Editor!TypeOK, Editor!OneCall, Editor!CallFits, Editor!Editors, Editor!Requests, Editor!Texts, Editor!SavesFit
<1>4. Editor!NothingStuck'
  BY DEF Editor!IndInv, Editor!TypeOK, Editor!OneCall, Editor!CallFits, Editor!NothingStuck, Editor!Editors, Editor!Load
<1>5. Editor!OthersAreKept'
  BY DEF Editor!IndInv, Editor!TypeOK, Editor!OneCall, Editor!CallFits, Editor!OthersAreKept, Editor!Requests, Editor!Editors, Editor!SavesFit, Editor!Looked
<1>6. Editor!SavedWasStored'
  BY DEF Editor!IndInv, Editor!TypeOK, Editor!OneCall, Editor!CallFits, Editor!SavedWasStored, Editor!AnswersWere, Editor!Editors, Editor!Requests
<1>7. Editor!BaseIsSaved' /\ Editor!TextWas'
  BY DEF Editor!IndInv, Editor!TypeOK, Editor!OneCall, Editor!CallFits, Editor!BaseIsSaved, Editor!TextWas, Editor!Editors, Editor!Requests
<1>8. Editor!OneCall'
  BY DEF Editor!IndInv, Editor!TypeOK, Editor!OneCall, Editor!CallFits, Editor!Call, Editor!Load
<1>9. Editor!CallFits'
  BY DEF Editor!IndInv, Editor!TypeOK, Editor!OneCall, Editor!CallFits, Editor!Editors, Editor!Requests, Editor!Call, Editor!Load
<1>10. Editor!AnswersWere'
  BY DEF Editor!IndInv, Editor!TypeOK, Editor!OneCall, Editor!CallFits, Editor!AnswersWere, Editor!TextWas, Editor!Requests, Editor!Call, Editor!Load
<1>11. Editor!SavesFit'
  BY DEF Editor!IndInv, Editor!TypeOK, Editor!OneCall, Editor!CallFits, Editor!SavesFit, Editor!Looked, Editor!TextWas, Editor!AnswersWere, Editor!BaseIsSaved, Editor!Editors, Editor!Requests, Editor!Texts, Editor!Call, Editor!Load
<1> QED
  BY <1>1, <1>2, <1>3, <1>4, <1>5, <1>6, <1>7, <1>8, <1>9, <1>10, <1>11 DEF Editor!IndInv, Editor!TypeOK

\* The question is declined.
LEMMA EditorBackToEditor ==
    ASSUME Editor!IndInv,
           Editor!BackToEditor
    PROVE  Editor!IndInv'
<1> USE EditorAssumption, EditorKinds
<1>1. x1' \in Editor!Editors
  BY DEF Editor!IndInv, Editor!TypeOK, Editor!OneCall, Editor!CallFits, Editor!Editors, Editor!Requests, Editor!Texts, Editor!BaseIsSaved, Editor!SavesFit, Editor!BackToEditor
<1>2. x2' \subseteq Editor!Requests
  BY DEF Editor!IndInv, Editor!TypeOK, Editor!OneCall, Editor!CallFits, Editor!Editors, Editor!Requests, Editor!Texts, Editor!SavesFit, Editor!Call, Editor!Load, Editor!BackToEditor
<1>3. x3' \in [text : Editor!Texts, was : SUBSET Editor!Texts, writes : Nat]
  BY DEF Editor!IndInv, Editor!TypeOK, Editor!OneCall, Editor!CallFits, Editor!Editors, Editor!Requests, Editor!Texts, Editor!SavesFit, Editor!BackToEditor
<1>4. Editor!NothingStuck'
  BY DEF Editor!IndInv, Editor!TypeOK, Editor!OneCall, Editor!CallFits, Editor!NothingStuck, Editor!Editors, Editor!Load, Editor!BackToEditor
<1>5. Editor!OthersAreKept'
  BY DEF Editor!IndInv, Editor!TypeOK, Editor!OneCall, Editor!CallFits, Editor!OthersAreKept, Editor!Requests, Editor!Editors, Editor!SavesFit, Editor!Looked, Editor!BackToEditor
<1>6. Editor!SavedWasStored'
  BY DEF Editor!IndInv, Editor!TypeOK, Editor!OneCall, Editor!CallFits, Editor!SavedWasStored, Editor!AnswersWere, Editor!Editors, Editor!Requests, Editor!BackToEditor
<1>7. Editor!BaseIsSaved' /\ Editor!TextWas'
  BY DEF Editor!IndInv, Editor!TypeOK, Editor!OneCall, Editor!CallFits, Editor!BaseIsSaved, Editor!TextWas, Editor!Editors, Editor!Requests, Editor!BackToEditor
<1>8. Editor!OneCall'
  BY DEF Editor!IndInv, Editor!TypeOK, Editor!OneCall, Editor!CallFits, Editor!Call, Editor!Load, Editor!BackToEditor
<1>9. Editor!CallFits'
  BY DEF Editor!IndInv, Editor!TypeOK, Editor!OneCall, Editor!CallFits, Editor!Editors, Editor!Requests, Editor!Call, Editor!Load, Editor!BackToEditor
<1>10. Editor!AnswersWere'
  BY DEF Editor!IndInv, Editor!TypeOK, Editor!OneCall, Editor!CallFits, Editor!AnswersWere, Editor!TextWas, Editor!Requests, Editor!Call, Editor!Load, Editor!BackToEditor
<1>11. Editor!SavesFit'
  BY DEF Editor!IndInv, Editor!TypeOK, Editor!OneCall, Editor!CallFits, Editor!SavesFit, Editor!Looked, Editor!TextWas, Editor!AnswersWere, Editor!BaseIsSaved, Editor!Editors, Editor!Requests, Editor!Texts, Editor!Call, Editor!Load, Editor!BackToEditor
<1> QED
  BY <1>1, <1>2, <1>3, <1>4, <1>5, <1>6, <1>7, <1>8, <1>9, <1>10, <1>11 DEF Editor!IndInv, Editor!TypeOK

\* The text is edited.
LEMMA EditorType ==
    ASSUME Editor!IndInv,
           NEW t \in Text,
           Editor!Type(t)
    PROVE  Editor!IndInv'
<1> USE EditorAssumption, EditorKinds
<1>1. x1' \in Editor!Editors
  BY DEF Editor!IndInv, Editor!TypeOK, Editor!OneCall, Editor!CallFits, Editor!Editors, Editor!Requests, Editor!Texts, Editor!BaseIsSaved, Editor!SavesFit, Editor!Type
<1>2. x2' \subseteq Editor!Requests
  BY DEF Editor!IndInv, Editor!TypeOK, Editor!OneCall, Editor!CallFits, Editor!Editors, Editor!Requests, Editor!Texts, Editor!SavesFit, Editor!Call, Editor!Load, Editor!Type
<1>3. x3' \in [text : Editor!Texts, was : SUBSET Editor!Texts, writes : Nat]
  BY DEF Editor!IndInv, Editor!TypeOK, Editor!OneCall, Editor!CallFits, Editor!Editors, Editor!Requests, Editor!Texts, Editor!SavesFit, Editor!Type
<1>4. Editor!NothingStuck'
  BY DEF Editor!IndInv, Editor!TypeOK, Editor!OneCall, Editor!CallFits, Editor!NothingStuck, Editor!Editors, Editor!Load, Editor!Type
<1>5. Editor!OthersAreKept'
  BY DEF Editor!IndInv, Editor!TypeOK, Editor!OneCall, Editor!CallFits, Editor!OthersAreKept, Editor!Requests, Editor!Editors, Editor!SavesFit, Editor!Looked, Editor!Type
<1>6. Editor!SavedWasStored'
  BY DEF Editor!IndInv, Editor!TypeOK, Editor!OneCall, Editor!CallFits, Editor!SavedWasStored, Editor!AnswersWere, Editor!Editors, Editor!Requests, Editor!Type
<1>7. Editor!BaseIsSaved' /\ Editor!TextWas'
  BY DEF Editor!IndInv, Editor!TypeOK, Editor!OneCall, Editor!CallFits, Editor!BaseIsSaved, Editor!TextWas, Editor!Editors, Editor!Requests, Editor!Type
<1>8. Editor!OneCall'
  BY DEF Editor!IndInv, Editor!TypeOK, Editor!OneCall, Editor!CallFits, Editor!Call, Editor!Load, Editor!Type
<1>9. Editor!CallFits'
  BY DEF Editor!IndInv, Editor!TypeOK, Editor!OneCall, Editor!CallFits, Editor!Editors, Editor!Requests, Editor!Call, Editor!Load, Editor!Type
<1>10. Editor!AnswersWere'
  BY DEF Editor!IndInv, Editor!TypeOK, Editor!OneCall, Editor!CallFits, Editor!AnswersWere, Editor!TextWas, Editor!Requests, Editor!Call, Editor!Load, Editor!Type
<1>11. Editor!SavesFit'
  BY DEF Editor!IndInv, Editor!TypeOK, Editor!OneCall, Editor!CallFits, Editor!SavesFit, Editor!Looked, Editor!TextWas, Editor!AnswersWere, Editor!BaseIsSaved, Editor!Editors, Editor!Requests, Editor!Texts, Editor!Call, Editor!Load, Editor!Type
<1> QED
  BY <1>1, <1>2, <1>3, <1>4, <1>5, <1>6, <1>7, <1>8, <1>9, <1>10, <1>11 DEF Editor!IndInv, Editor!TypeOK

\* Another program writes the file.
LEMMA EditorOtherWrites ==
    ASSUME Editor!IndInv,
           NEW t \in Text,
           Editor!OtherWrites(t)
    PROVE  Editor!IndInv'
<1> USE EditorAssumption, EditorKinds
<1>1. x1' \in Editor!Editors
  BY DEF Editor!IndInv, Editor!TypeOK, Editor!OneCall, Editor!CallFits, Editor!Editors, Editor!Requests, Editor!Texts, Editor!BaseIsSaved, Editor!SavesFit, Editor!OtherWrites
<1>2. x2' \subseteq Editor!Requests
  BY DEF Editor!IndInv, Editor!TypeOK, Editor!OneCall, Editor!CallFits, Editor!Editors, Editor!Requests, Editor!Texts, Editor!SavesFit, Editor!Call, Editor!Load, Editor!OtherWrites
<1>3. x3' \in [text : Editor!Texts, was : SUBSET Editor!Texts, writes : Nat]
  BY DEF Editor!IndInv, Editor!TypeOK, Editor!OneCall, Editor!CallFits, Editor!Editors, Editor!Requests, Editor!Texts, Editor!SavesFit, Editor!OtherWrites
<1>4. Editor!NothingStuck'
  BY DEF Editor!IndInv, Editor!TypeOK, Editor!OneCall, Editor!CallFits, Editor!NothingStuck, Editor!Editors, Editor!Load, Editor!OtherWrites
<1>5. Editor!OthersAreKept'
  BY DEF Editor!IndInv, Editor!TypeOK, Editor!OneCall, Editor!CallFits, Editor!OthersAreKept, Editor!Requests, Editor!Editors, Editor!SavesFit, Editor!Looked, Editor!OtherWrites
<1>6. Editor!SavedWasStored'
  BY DEF Editor!IndInv, Editor!TypeOK, Editor!OneCall, Editor!CallFits, Editor!SavedWasStored, Editor!AnswersWere, Editor!Editors, Editor!Requests, Editor!OtherWrites
<1>7. Editor!BaseIsSaved' /\ Editor!TextWas'
  BY DEF Editor!IndInv, Editor!TypeOK, Editor!OneCall, Editor!CallFits, Editor!BaseIsSaved, Editor!TextWas, Editor!Editors, Editor!Requests, Editor!OtherWrites
<1>8. Editor!OneCall'
  BY DEF Editor!IndInv, Editor!TypeOK, Editor!OneCall, Editor!CallFits, Editor!Call, Editor!Load, Editor!OtherWrites
<1>9. Editor!CallFits'
  BY DEF Editor!IndInv, Editor!TypeOK, Editor!OneCall, Editor!CallFits, Editor!Editors, Editor!Requests, Editor!Call, Editor!Load, Editor!OtherWrites
<1>10. Editor!AnswersWere'
  BY DEF Editor!IndInv, Editor!TypeOK, Editor!OneCall, Editor!CallFits, Editor!AnswersWere, Editor!TextWas, Editor!Requests, Editor!Call, Editor!Load, Editor!OtherWrites
<1>11. Editor!SavesFit'
  BY DEF Editor!IndInv, Editor!TypeOK, Editor!OneCall, Editor!CallFits, Editor!SavesFit, Editor!Looked, Editor!TextWas, Editor!AnswersWere, Editor!BaseIsSaved, Editor!Editors, Editor!Requests, Editor!Texts, Editor!Call, Editor!Load, Editor!OtherWrites
<1> QED
  BY <1>1, <1>2, <1>3, <1>4, <1>5, <1>6, <1>7, <1>8, <1>9, <1>10, <1>11 DEF Editor!IndInv, Editor!TypeOK

\* A save is sent, or asks first whether the file is what was read.
LEMMA EditorSave ==
    ASSUME Editor!IndInv,
           NEW force \in BOOLEAN,
           Editor!Save(force)
    PROVE  Editor!IndInv'
<1> USE EditorAssumption, EditorKinds
<1>1. x1' \in Editor!Editors
  <2> DEFINE b == IF x1.is.guard = "compare" THEN "check" ELSE "put"
             n == x1.saves + 1
  <2>1. x1 \in Editor!Editors /\ b \in {"no", "check", "put", "reload"} /\ n \in Nat
    BY DEF Editor!IndInv, Editor!TypeOK, Editor!Editors
  <2>2. x1' = [x1 EXCEPT !.busy = b, !.saves = n]
    BY Zenon DEF Editor!Save
  <2> HIDE DEF b, n
  <2> QED
    BY <2>1, <2>2, Zenon DEF Editor!Editors
<1>2. x2' \subseteq Editor!Requests
  BY DEF Editor!IndInv, Editor!TypeOK, Editor!OneCall, Editor!CallFits, Editor!Editors, Editor!Requests, Editor!Texts, Editor!SavesFit, Editor!Call, Editor!Load, Editor!Save
<1>3. x3' \in [text : Editor!Texts, was : SUBSET Editor!Texts, writes : Nat]
  BY DEF Editor!IndInv, Editor!TypeOK, Editor!OneCall, Editor!CallFits, Editor!Editors, Editor!Requests, Editor!Texts, Editor!SavesFit, Editor!Save
<1>4. Editor!NothingStuck'
  BY DEF Editor!IndInv, Editor!TypeOK, Editor!OneCall, Editor!CallFits, Editor!NothingStuck, Editor!Editors, Editor!Load, Editor!Save
<1>5. Editor!OthersAreKept'
  BY DEF Editor!IndInv, Editor!TypeOK, Editor!OneCall, Editor!CallFits, Editor!OthersAreKept, Editor!Requests, Editor!Editors, Editor!SavesFit, Editor!Looked, Editor!Save
<1>6. Editor!SavedWasStored'
  BY DEF Editor!IndInv, Editor!TypeOK, Editor!OneCall, Editor!CallFits, Editor!SavedWasStored, Editor!AnswersWere, Editor!Editors, Editor!Requests, Editor!Save
<1>7. Editor!BaseIsSaved' /\ Editor!TextWas'
  BY DEF Editor!IndInv, Editor!TypeOK, Editor!OneCall, Editor!CallFits, Editor!BaseIsSaved, Editor!TextWas, Editor!Editors, Editor!Requests, Editor!Save
<1>8. Editor!OneCall'
  BY DEF Editor!IndInv, Editor!TypeOK, Editor!OneCall, Editor!CallFits, Editor!Call, Editor!Load, Editor!Save
<1>9. Editor!CallFits'
  BY DEF Editor!IndInv, Editor!TypeOK, Editor!OneCall, Editor!CallFits, Editor!Editors, Editor!Requests, Editor!Call, Editor!Load, Editor!Save
<1>10. Editor!AnswersWere'
  BY DEF Editor!IndInv, Editor!TypeOK, Editor!OneCall, Editor!CallFits, Editor!AnswersWere, Editor!TextWas, Editor!Requests, Editor!Call, Editor!Load, Editor!Save
<1>11. Editor!SavesFit'
  BY DEF Editor!IndInv, Editor!TypeOK, Editor!OneCall, Editor!CallFits, Editor!SavesFit, Editor!Looked, Editor!TextWas, Editor!AnswersWere, Editor!BaseIsSaved, Editor!Editors, Editor!Requests, Editor!Texts, Editor!Call, Editor!Load, Editor!Save
<1> QED
  BY <1>1, <1>2, <1>3, <1>4, <1>5, <1>6, <1>7, <1>8, <1>9, <1>10, <1>11 DEF Editor!IndInv, Editor!TypeOK

\* The file is read into the editor.
LEMMA EditorLoaded ==
    ASSUME Editor!IndInv,
           NEW c \in x2,
           x1.phase # "closed",
           Editor!Loaded(c)
    PROVE  Editor!IndInv'
<1> USE EditorAssumption, EditorKinds
<1>1. x1' \in Editor!Editors
  <2>1. x1 \in Editor!Editors /\ "no" \in {"no", "check", "put", "reload"} /\ "ready" \in {"loading", "failed", "ready", "closed"}
    BY DEF Editor!IndInv, Editor!TypeOK
  <2>2. CASE c.at = "failed"
    <3> DEFINE p == IF x1.phase = "loading" /\ x1.is.retry THEN "failed" ELSE "ready"
    <3>1. x1' = [x1 EXCEPT !.phase = p, !.busy = "no"] /\ p \in {"loading", "failed", "ready", "closed"}
      BY <2>2 DEF Editor!Loaded
    <3> HIDE DEF p
    <3> QED
      BY <2>1, <3>1, Zenon DEF Editor!Editors
  <2>3. CASE c.at # "failed"
    <3>1. c.reply \in Editor!Texts
      BY <2>3 DEF Editor!IndInv, Editor!TypeOK, Editor!AnswersWere, Editor!Loaded, Editor!Answered
    <3>2. x1' = [x1 EXCEPT !.phase = "ready", !.text = c.reply, !.saved = c.reply, !.base = c.reply, !.busy = "no"]
      BY <2>3, Zenon DEF Editor!Loaded
    <3>3. c.reply \in Editor!Texts \cup {None}
      BY <3>1
    <3> QED
      BY <2>1, <3>1, <3>2, <3>3, Zenon DEF Editor!Editors
  <2> QED
    BY <2>2, <2>3
<1>2. x2' \subseteq Editor!Requests
  BY DEF Editor!IndInv, Editor!TypeOK, Editor!OneCall, Editor!CallFits, Editor!Editors, Editor!Requests, Editor!Texts, Editor!SavesFit, Editor!Call, Editor!Load, Editor!Loaded, Editor!Answered
<1>3. x3' \in [text : Editor!Texts, was : SUBSET Editor!Texts, writes : Nat]
  BY DEF Editor!IndInv, Editor!TypeOK, Editor!OneCall, Editor!CallFits, Editor!Editors, Editor!Requests, Editor!Texts, Editor!SavesFit, Editor!Loaded, Editor!Answered
<1>4. Editor!NothingStuck'
  BY DEF Editor!IndInv, Editor!TypeOK, Editor!OneCall, Editor!CallFits, Editor!NothingStuck, Editor!Editors, Editor!Load, Editor!Loaded, Editor!Answered
<1>5. Editor!OthersAreKept'
  BY DEF Editor!IndInv, Editor!TypeOK, Editor!OneCall, Editor!CallFits, Editor!OthersAreKept, Editor!Requests, Editor!Editors, Editor!SavesFit, Editor!Looked, Editor!Loaded, Editor!Answered
<1>6. Editor!SavedWasStored'
  BY DEF Editor!IndInv, Editor!TypeOK, Editor!OneCall, Editor!CallFits, Editor!SavedWasStored, Editor!AnswersWere, Editor!Editors, Editor!Requests, Editor!Loaded, Editor!Answered
<1>7. Editor!BaseIsSaved' /\ Editor!TextWas'
  BY DEF Editor!IndInv, Editor!TypeOK, Editor!OneCall, Editor!CallFits, Editor!BaseIsSaved, Editor!TextWas, Editor!Editors, Editor!Requests, Editor!Loaded, Editor!Answered
<1>8. Editor!OneCall'
  BY DEF Editor!IndInv, Editor!TypeOK, Editor!OneCall, Editor!CallFits, Editor!Call, Editor!Load, Editor!Loaded, Editor!Answered
<1>9. Editor!CallFits'
  BY DEF Editor!IndInv, Editor!TypeOK, Editor!OneCall, Editor!CallFits, Editor!Editors, Editor!Requests, Editor!Call, Editor!Load, Editor!Loaded, Editor!Answered
<1>10. Editor!AnswersWere'
  BY DEF Editor!IndInv, Editor!TypeOK, Editor!OneCall, Editor!CallFits, Editor!AnswersWere, Editor!TextWas, Editor!Requests, Editor!Call, Editor!Load, Editor!Loaded, Editor!Answered
<1>11. Editor!SavesFit'
  BY DEF Editor!IndInv, Editor!TypeOK, Editor!OneCall, Editor!CallFits, Editor!SavesFit, Editor!Looked, Editor!TextWas, Editor!AnswersWere, Editor!BaseIsSaved, Editor!Editors, Editor!Requests, Editor!Texts, Editor!Call, Editor!Load, Editor!Loaded, Editor!Answered
<1> QED
  BY <1>1, <1>2, <1>3, <1>4, <1>5, <1>6, <1>7, <1>8, <1>9, <1>10, <1>11 DEF Editor!IndInv, Editor!TypeOK

\* The answer of a save that asked first.
LEMMA EditorChecked ==
    ASSUME Editor!IndInv,
           NEW c \in x2,
           x1.phase # "closed",
           Editor!Checked(c)
    PROVE  Editor!IndInv'
<1> USE EditorAssumption, EditorKinds
<1>1. x1' \in Editor!Editors
  BY DEF Editor!IndInv, Editor!TypeOK, Editor!OneCall, Editor!CallFits, Editor!Editors, Editor!Requests, Editor!Texts, Editor!BaseIsSaved, Editor!SavesFit, Editor!Checked, Editor!Answered
<1>2. x2' \subseteq Editor!Requests
  BY DEF Editor!IndInv, Editor!TypeOK, Editor!OneCall, Editor!CallFits, Editor!Editors, Editor!Requests, Editor!Texts, Editor!SavesFit, Editor!Call, Editor!Load, Editor!Checked, Editor!Answered
<1>3. x3' \in [text : Editor!Texts, was : SUBSET Editor!Texts, writes : Nat]
  BY DEF Editor!IndInv, Editor!TypeOK, Editor!OneCall, Editor!CallFits, Editor!Editors, Editor!Requests, Editor!Texts, Editor!SavesFit, Editor!Checked, Editor!Answered
<1>4. Editor!NothingStuck'
  BY DEF Editor!IndInv, Editor!TypeOK, Editor!OneCall, Editor!CallFits, Editor!NothingStuck, Editor!Editors, Editor!Load, Editor!Checked, Editor!Answered
<1>5. Editor!OthersAreKept'
  BY DEF Editor!IndInv, Editor!TypeOK, Editor!OneCall, Editor!CallFits, Editor!OthersAreKept, Editor!Requests, Editor!Editors, Editor!SavesFit, Editor!Looked, Editor!Checked, Editor!Answered
<1>6. Editor!SavedWasStored'
  BY DEF Editor!IndInv, Editor!TypeOK, Editor!OneCall, Editor!CallFits, Editor!SavedWasStored, Editor!AnswersWere, Editor!Editors, Editor!Requests, Editor!Checked, Editor!Answered
<1>7. Editor!BaseIsSaved' /\ Editor!TextWas'
  BY DEF Editor!IndInv, Editor!TypeOK, Editor!OneCall, Editor!CallFits, Editor!BaseIsSaved, Editor!TextWas, Editor!Editors, Editor!Requests, Editor!Checked, Editor!Answered
<1>8. Editor!OneCall'
  BY DEF Editor!IndInv, Editor!TypeOK, Editor!OneCall, Editor!CallFits, Editor!Call, Editor!Load, Editor!Checked, Editor!Answered
<1>9. Editor!CallFits'
  BY DEF Editor!IndInv, Editor!TypeOK, Editor!OneCall, Editor!CallFits, Editor!Editors, Editor!Requests, Editor!Call, Editor!Load, Editor!Checked, Editor!Answered
<1>10. Editor!AnswersWere'
  BY DEF Editor!IndInv, Editor!TypeOK, Editor!OneCall, Editor!CallFits, Editor!AnswersWere, Editor!TextWas, Editor!Requests, Editor!Call, Editor!Load, Editor!Checked, Editor!Answered
<1>11. Editor!SavesFit'
  BY DEF Editor!IndInv, Editor!TypeOK, Editor!OneCall, Editor!CallFits, Editor!SavesFit, Editor!Looked, Editor!TextWas, Editor!AnswersWere, Editor!BaseIsSaved, Editor!Editors, Editor!Requests, Editor!Texts, Editor!Call, Editor!Load, Editor!Checked, Editor!Answered
<1> QED
  BY <1>1, <1>2, <1>3, <1>4, <1>5, <1>6, <1>7, <1>8, <1>9, <1>10, <1>11 DEF Editor!IndInv, Editor!TypeOK

\* A save that fails, or finds another text, is shown so.
LEMMA EditorSavedFails ==
    ASSUME Editor!IndInv,
           NEW c \in x2,
           Editor!Saved(c), NEW w \in BOOLEAN, x2' = {}, x1' = [x1 EXCEPT !.busy = "no", !.changed = w]
    PROVE  Editor!IndInv'
<1> USE EditorAssumption, EditorKinds
<1>1. x1' \in Editor!Editors
  <2>1. x1 \in Editor!Editors /\ "no" \in {"no", "check", "put", "reload"}
    BY DEF Editor!IndInv, Editor!TypeOK
  <2> QED
    BY <2>1, Zenon DEF Editor!Editors
<1>2. x2' \subseteq Editor!Requests
  BY DEF Editor!IndInv, Editor!TypeOK, Editor!OneCall, Editor!CallFits, Editor!Editors, Editor!Requests, Editor!Texts, Editor!SavesFit, Editor!Call, Editor!Load, Editor!Saved, Editor!Answered
<1>3. x3' \in [text : Editor!Texts, was : SUBSET Editor!Texts, writes : Nat]
  BY DEF Editor!IndInv, Editor!TypeOK, Editor!OneCall, Editor!CallFits, Editor!Editors, Editor!Requests, Editor!Texts, Editor!SavesFit, Editor!Saved, Editor!Answered
<1>4. Editor!NothingStuck'
  BY DEF Editor!IndInv, Editor!TypeOK, Editor!OneCall, Editor!CallFits, Editor!NothingStuck, Editor!Editors, Editor!Load, Editor!Saved, Editor!Answered
<1>5. Editor!OthersAreKept'
  BY DEF Editor!IndInv, Editor!TypeOK, Editor!OneCall, Editor!CallFits, Editor!OthersAreKept, Editor!Requests, Editor!Editors, Editor!SavesFit, Editor!Looked, Editor!Saved, Editor!Answered
<1>6. Editor!SavedWasStored'
  BY DEF Editor!IndInv, Editor!TypeOK, Editor!OneCall, Editor!CallFits, Editor!SavedWasStored, Editor!AnswersWere, Editor!Editors, Editor!Requests, Editor!Saved, Editor!Answered
<1>7. Editor!BaseIsSaved' /\ Editor!TextWas'
  BY DEF Editor!IndInv, Editor!TypeOK, Editor!OneCall, Editor!CallFits, Editor!BaseIsSaved, Editor!TextWas, Editor!Editors, Editor!Requests, Editor!Saved, Editor!Answered
<1>8. Editor!OneCall'
  BY DEF Editor!IndInv, Editor!TypeOK, Editor!OneCall, Editor!CallFits, Editor!Call, Editor!Load, Editor!Saved, Editor!Answered
<1>9. Editor!CallFits'
  BY DEF Editor!IndInv, Editor!TypeOK, Editor!OneCall, Editor!CallFits, Editor!Editors, Editor!Requests, Editor!Call, Editor!Load, Editor!Saved, Editor!Answered
<1>10. Editor!AnswersWere'
  BY DEF Editor!IndInv, Editor!TypeOK, Editor!OneCall, Editor!CallFits, Editor!AnswersWere, Editor!TextWas, Editor!Requests, Editor!Call, Editor!Load, Editor!Saved, Editor!Answered
<1>11. Editor!SavesFit'
  BY DEF Editor!IndInv, Editor!TypeOK, Editor!OneCall, Editor!CallFits, Editor!SavesFit, Editor!Looked, Editor!TextWas, Editor!AnswersWere, Editor!BaseIsSaved, Editor!Editors, Editor!Requests, Editor!Texts, Editor!Call, Editor!Load, Editor!Saved, Editor!Answered
<1> QED
  BY <1>1, <1>2, <1>3, <1>4, <1>5, <1>6, <1>7, <1>8, <1>9, <1>10, <1>11 DEF Editor!IndInv, Editor!TypeOK

\* A save of an editor that reads the file again after it.
LEMMA EditorSavedReloads ==
    ASSUME Editor!IndInv,
           NEW c \in x2,
           x1.phase # "closed",
           Editor!Saved(c), x1.is.after = "reload", x2' = Editor!Load, x1' = [x1 EXCEPT !.busy = "reload"]
    PROVE  Editor!IndInv'
<1> USE EditorAssumption, EditorKinds
<1>1. x1' \in Editor!Editors
  BY DEF Editor!IndInv, Editor!TypeOK, Editor!OneCall, Editor!CallFits, Editor!Editors, Editor!Requests, Editor!Texts, Editor!BaseIsSaved, Editor!SavesFit, Editor!Saved, Editor!Answered
<1>2. x2' \subseteq Editor!Requests
  BY DEF Editor!IndInv, Editor!TypeOK, Editor!OneCall, Editor!CallFits, Editor!Editors, Editor!Requests, Editor!Texts, Editor!SavesFit, Editor!Call, Editor!Load, Editor!Saved, Editor!Answered
<1>3. x3' \in [text : Editor!Texts, was : SUBSET Editor!Texts, writes : Nat]
  BY DEF Editor!IndInv, Editor!TypeOK, Editor!OneCall, Editor!CallFits, Editor!Editors, Editor!Requests, Editor!Texts, Editor!SavesFit, Editor!Saved, Editor!Answered
<1>4. Editor!NothingStuck'
  BY DEF Editor!IndInv, Editor!TypeOK, Editor!OneCall, Editor!CallFits, Editor!NothingStuck, Editor!Editors, Editor!Load, Editor!Saved, Editor!Answered
<1>5. Editor!OthersAreKept'
  BY DEF Editor!IndInv, Editor!TypeOK, Editor!OneCall, Editor!CallFits, Editor!OthersAreKept, Editor!Requests, Editor!Editors, Editor!SavesFit, Editor!Looked, Editor!Saved, Editor!Answered
<1>6. Editor!SavedWasStored'
  BY DEF Editor!IndInv, Editor!TypeOK, Editor!OneCall, Editor!CallFits, Editor!SavedWasStored, Editor!AnswersWere, Editor!Editors, Editor!Requests, Editor!Saved, Editor!Answered
<1>7. Editor!BaseIsSaved' /\ Editor!TextWas'
  BY DEF Editor!IndInv, Editor!TypeOK, Editor!OneCall, Editor!CallFits, Editor!BaseIsSaved, Editor!TextWas, Editor!Editors, Editor!Requests, Editor!Saved, Editor!Answered
<1>8. Editor!OneCall'
  BY DEF Editor!IndInv, Editor!TypeOK, Editor!OneCall, Editor!CallFits, Editor!Call, Editor!Load, Editor!Saved, Editor!Answered
<1>9. Editor!CallFits'
  BY DEF Editor!IndInv, Editor!TypeOK, Editor!OneCall, Editor!CallFits, Editor!Editors, Editor!Requests, Editor!Call, Editor!Load, Editor!Saved, Editor!Answered
<1>10. Editor!AnswersWere'
  BY DEF Editor!IndInv, Editor!TypeOK, Editor!OneCall, Editor!CallFits, Editor!AnswersWere, Editor!TextWas, Editor!Requests, Editor!Call, Editor!Load, Editor!Saved, Editor!Answered
<1>11. Editor!SavesFit'
  BY DEF Editor!IndInv, Editor!TypeOK, Editor!OneCall, Editor!CallFits, Editor!SavesFit, Editor!Looked, Editor!TextWas, Editor!AnswersWere, Editor!BaseIsSaved, Editor!Editors, Editor!Requests, Editor!Texts, Editor!Call, Editor!Load, Editor!Saved, Editor!Answered
<1> QED
  BY <1>1, <1>2, <1>3, <1>4, <1>5, <1>6, <1>7, <1>8, <1>9, <1>10, <1>11 DEF Editor!IndInv, Editor!TypeOK

\* A save that was stored is the base of the next.
LEMMA EditorSavedAnswered ==
    ASSUME Editor!IndInv,
           NEW c \in x2,
           Editor!Saved(c), NEW t \in Editor!Texts, x1.is.after # "reload", c.at = "done", x2' = {},
           x1' = [x1 EXCEPT !.busy = "no", !.saved = c.body, !.base = c.body, !.changed = FALSE, !.text = t]
    PROVE  Editor!IndInv'
<1> USE EditorAssumption, EditorKinds
<1>1. x1' \in Editor!Editors
  <2>1. x1 \in Editor!Editors /\ "no" \in {"no", "check", "put", "reload"} /\ FALSE \in BOOLEAN
    BY DEF Editor!IndInv, Editor!TypeOK
  <2>2. c.body \in Editor!Texts /\ c.body \in Editor!Texts \cup {None}
    BY DEF Editor!IndInv, Editor!SavesFit, Editor!Saved
  <2> QED
    BY <2>1, <2>2, Zenon DEF Editor!Editors
<1>2. x2' \subseteq Editor!Requests
  BY DEF Editor!IndInv, Editor!TypeOK, Editor!OneCall, Editor!CallFits, Editor!Editors, Editor!Requests, Editor!Texts, Editor!SavesFit, Editor!Call, Editor!Load, Editor!Saved, Editor!Answered
<1>3. x3' \in [text : Editor!Texts, was : SUBSET Editor!Texts, writes : Nat]
  BY DEF Editor!IndInv, Editor!TypeOK, Editor!OneCall, Editor!CallFits, Editor!Editors, Editor!Requests, Editor!Texts, Editor!SavesFit, Editor!Saved, Editor!Answered
<1>4. Editor!NothingStuck'
  BY DEF Editor!IndInv, Editor!TypeOK, Editor!OneCall, Editor!CallFits, Editor!NothingStuck, Editor!Editors, Editor!Load, Editor!Saved, Editor!Answered
<1>5. Editor!OthersAreKept'
  BY DEF Editor!IndInv, Editor!TypeOK, Editor!OneCall, Editor!CallFits, Editor!OthersAreKept, Editor!Requests, Editor!Editors, Editor!SavesFit, Editor!Looked, Editor!Saved, Editor!Answered
<1>6. Editor!SavedWasStored'
  BY DEF Editor!IndInv, Editor!TypeOK, Editor!OneCall, Editor!CallFits, Editor!SavedWasStored, Editor!AnswersWere, Editor!Editors, Editor!Requests, Editor!Saved, Editor!Answered
<1>7. Editor!BaseIsSaved' /\ Editor!TextWas'
  BY DEF Editor!IndInv, Editor!TypeOK, Editor!OneCall, Editor!CallFits, Editor!BaseIsSaved, Editor!TextWas, Editor!Editors, Editor!Requests, Editor!Saved, Editor!Answered
<1>8. Editor!OneCall'
  BY DEF Editor!IndInv, Editor!TypeOK, Editor!OneCall, Editor!CallFits, Editor!Call, Editor!Load, Editor!Saved, Editor!Answered
<1>9. Editor!CallFits'
  BY DEF Editor!IndInv, Editor!TypeOK, Editor!OneCall, Editor!CallFits, Editor!Editors, Editor!Requests, Editor!Call, Editor!Load, Editor!Saved, Editor!Answered
<1>10. Editor!AnswersWere'
  BY DEF Editor!IndInv, Editor!TypeOK, Editor!OneCall, Editor!CallFits, Editor!AnswersWere, Editor!TextWas, Editor!Requests, Editor!Call, Editor!Load, Editor!Saved, Editor!Answered
<1>11. Editor!SavesFit'
  BY DEF Editor!IndInv, Editor!TypeOK, Editor!OneCall, Editor!CallFits, Editor!SavesFit, Editor!Looked, Editor!TextWas, Editor!AnswersWere, Editor!BaseIsSaved, Editor!Editors, Editor!Requests, Editor!Texts, Editor!Call, Editor!Load, Editor!Saved, Editor!Answered
<1> QED
  BY <1>1, <1>2, <1>3, <1>4, <1>5, <1>6, <1>7, <1>8, <1>9, <1>10, <1>11 DEF Editor!IndInv, Editor!TypeOK

\* An answer to an editor that is closed is dropped.
LEMMA EditorLate ==
    ASSUME Editor!IndInv,
           NEW c \in x2,
           Editor!Late(c)
    PROVE  Editor!IndInv'
<1> USE EditorAssumption, EditorKinds
<1>1. x1' \in Editor!Editors
  BY DEF Editor!IndInv, Editor!TypeOK, Editor!OneCall, Editor!CallFits, Editor!Editors, Editor!Requests, Editor!Texts, Editor!BaseIsSaved, Editor!SavesFit, Editor!Late, Editor!Answered
<1>2. x2' \subseteq Editor!Requests
  BY DEF Editor!IndInv, Editor!TypeOK, Editor!OneCall, Editor!CallFits, Editor!Editors, Editor!Requests, Editor!Texts, Editor!SavesFit, Editor!Call, Editor!Load, Editor!Late, Editor!Answered
<1>3. x3' \in [text : Editor!Texts, was : SUBSET Editor!Texts, writes : Nat]
  BY DEF Editor!IndInv, Editor!TypeOK, Editor!OneCall, Editor!CallFits, Editor!Editors, Editor!Requests, Editor!Texts, Editor!SavesFit, Editor!Late, Editor!Answered
<1>4. Editor!NothingStuck'
  BY DEF Editor!IndInv, Editor!TypeOK, Editor!OneCall, Editor!CallFits, Editor!NothingStuck, Editor!Editors, Editor!Load, Editor!Late, Editor!Answered
<1>5. Editor!OthersAreKept'
  BY DEF Editor!IndInv, Editor!TypeOK, Editor!OneCall, Editor!CallFits, Editor!OthersAreKept, Editor!Requests, Editor!Editors, Editor!SavesFit, Editor!Looked, Editor!Late, Editor!Answered
<1>6. Editor!SavedWasStored'
  BY DEF Editor!IndInv, Editor!TypeOK, Editor!OneCall, Editor!CallFits, Editor!SavedWasStored, Editor!AnswersWere, Editor!Editors, Editor!Requests, Editor!Late, Editor!Answered
<1>7. Editor!BaseIsSaved' /\ Editor!TextWas'
  BY DEF Editor!IndInv, Editor!TypeOK, Editor!OneCall, Editor!CallFits, Editor!BaseIsSaved, Editor!TextWas, Editor!Editors, Editor!Requests, Editor!Late, Editor!Answered
<1>8. Editor!OneCall'
  BY DEF Editor!IndInv, Editor!TypeOK, Editor!OneCall, Editor!CallFits, Editor!Call, Editor!Load, Editor!Late, Editor!Answered
<1>9. Editor!CallFits'
  BY DEF Editor!IndInv, Editor!TypeOK, Editor!OneCall, Editor!CallFits, Editor!Editors, Editor!Requests, Editor!Call, Editor!Load, Editor!Late, Editor!Answered
<1>10. Editor!AnswersWere'
  BY DEF Editor!IndInv, Editor!TypeOK, Editor!OneCall, Editor!CallFits, Editor!AnswersWere, Editor!TextWas, Editor!Requests, Editor!Call, Editor!Load, Editor!Late, Editor!Answered
<1>11. Editor!SavesFit'
  BY DEF Editor!IndInv, Editor!TypeOK, Editor!OneCall, Editor!CallFits, Editor!SavesFit, Editor!Looked, Editor!TextWas, Editor!AnswersWere, Editor!BaseIsSaved, Editor!Editors, Editor!Requests, Editor!Texts, Editor!Call, Editor!Load, Editor!Late, Editor!Answered
<1> QED
  BY <1>1, <1>2, <1>3, <1>4, <1>5, <1>6, <1>7, <1>8, <1>9, <1>10, <1>11 DEF Editor!IndInv, Editor!TypeOK

\* The server fails a request.
LEMMA EditorServeFails ==
    ASSUME Editor!IndInv,
           NEW c \in x2,
           c.at \in {"sent", "passed"}, x2' = {[c EXCEPT !.at = "failed", !.reply = "error"]}, UNCHANGED <<x1, x3, x4>>
    PROVE  Editor!IndInv'
<1> USE EditorAssumption, EditorKinds
<1>1. x1' \in Editor!Editors
  BY DEF Editor!IndInv, Editor!TypeOK, Editor!OneCall, Editor!CallFits, Editor!Editors, Editor!Requests, Editor!Texts, Editor!BaseIsSaved, Editor!SavesFit
<1>2. x2' \subseteq Editor!Requests
  <2>1. c \in Editor!Requests /\ "failed" \in {"sent", "passed", "done", "failed"}
    BY DEF Editor!IndInv, Editor!TypeOK
  <2>2. "error" \in Editor!Texts \cup {None, "changed", "error"}
    BY DEF Editor!IndInv, Editor!TypeOK
  <2>3. [c EXCEPT !.at = "failed", !.reply = "error"] \in Editor!Requests
    BY <2>1, <2>2, Zenon DEF Editor!Requests
  <2> QED
    BY <2>3
<1>3. x3' \in [text : Editor!Texts, was : SUBSET Editor!Texts, writes : Nat]
  BY DEF Editor!IndInv, Editor!TypeOK, Editor!OneCall, Editor!CallFits, Editor!Editors, Editor!Requests, Editor!Texts, Editor!SavesFit
<1>4. Editor!NothingStuck'
  BY DEF Editor!IndInv, Editor!TypeOK, Editor!OneCall, Editor!CallFits, Editor!NothingStuck, Editor!Editors, Editor!Load
<1>5. Editor!OthersAreKept'
  BY DEF Editor!IndInv, Editor!TypeOK, Editor!OneCall, Editor!CallFits, Editor!OthersAreKept, Editor!Requests, Editor!Editors, Editor!SavesFit, Editor!Looked
<1>6. Editor!SavedWasStored'
  BY DEF Editor!IndInv, Editor!TypeOK, Editor!OneCall, Editor!CallFits, Editor!SavedWasStored, Editor!AnswersWere, Editor!Editors, Editor!Requests
<1>7. Editor!BaseIsSaved' /\ Editor!TextWas'
  BY DEF Editor!IndInv, Editor!TypeOK, Editor!OneCall, Editor!CallFits, Editor!BaseIsSaved, Editor!TextWas, Editor!Editors, Editor!Requests
<1>8. Editor!OneCall'
  BY DEF Editor!IndInv, Editor!TypeOK, Editor!OneCall, Editor!CallFits, Editor!Call, Editor!Load
<1>9. Editor!CallFits'
  BY ZenonT(60) DEF Editor!IndInv, Editor!TypeOK, Editor!OneCall, Editor!CallFits, Editor!Editors, Editor!Requests, Editor!Call, Editor!Load
<1>10. Editor!AnswersWere'
  BY DEF Editor!IndInv, Editor!TypeOK, Editor!OneCall, Editor!CallFits, Editor!AnswersWere, Editor!TextWas, Editor!Requests, Editor!Call, Editor!Load
<1>11. Editor!SavesFit'
  <2>1. PICK d \in Editor!Requests : x2' = {d} /\ d.kind = c.kind /\ d.body = c.body /\ d.base = c.base /\ d.seen = c.seen /\ d.press = c.press /\ d.at = "failed"
    <3>1. [c EXCEPT !.at = "failed", !.reply = "error"] \in Editor!Requests
      BY <1>2 DEF Editor!TypeOK
    <3> QED
      BY <3>1 DEF Editor!IndInv, Editor!TypeOK, Editor!Requests
  <2> QED
    BY <2>1 DEF Editor!IndInv, Editor!TypeOK, Editor!SavesFit, Editor!Looked, Editor!Editors, Editor!Requests, Editor!Texts, Editor!ServeBase
<1> QED
  BY <1>1, <1>2, <1>3, <1>4, <1>5, <1>6, <1>7, <1>8, <1>9, <1>10, <1>11 DEF Editor!IndInv, Editor!TypeOK

\* The server reads the file.
LEMMA EditorServeReads ==
    ASSUME Editor!IndInv,
           NEW c \in x2,
           c.at \in {"sent", "passed"}, c.kind \in {"load", "check"}, x2' = {[c EXCEPT !.at = "done", !.reply = x3.text]}, UNCHANGED <<x1, x3, x4>>
    PROVE  Editor!IndInv'
<1> USE EditorAssumption, EditorKinds
<1>1. x1' \in Editor!Editors
  BY DEF Editor!IndInv, Editor!TypeOK, Editor!OneCall, Editor!CallFits, Editor!Editors, Editor!Requests, Editor!Texts, Editor!BaseIsSaved, Editor!SavesFit
<1>2. x2' \subseteq Editor!Requests
  <2>1. c \in Editor!Requests /\ "done" \in {"sent", "passed", "done", "failed"}
    BY DEF Editor!IndInv, Editor!TypeOK
  <2>2. x3.text \in Editor!Texts \cup {None, "changed", "error"}
    BY DEF Editor!IndInv, Editor!TypeOK
  <2>3. [c EXCEPT !.at = "done", !.reply = x3.text] \in Editor!Requests
    BY <2>1, <2>2, Zenon DEF Editor!Requests
  <2> QED
    BY <2>3
<1>3. x3' \in [text : Editor!Texts, was : SUBSET Editor!Texts, writes : Nat]
  BY DEF Editor!IndInv, Editor!TypeOK, Editor!OneCall, Editor!CallFits, Editor!Editors, Editor!Requests, Editor!Texts, Editor!SavesFit
<1>4. Editor!NothingStuck'
  BY DEF Editor!IndInv, Editor!TypeOK, Editor!OneCall, Editor!CallFits, Editor!NothingStuck, Editor!Editors, Editor!Load
<1>5. Editor!OthersAreKept'
  BY DEF Editor!IndInv, Editor!TypeOK, Editor!OneCall, Editor!CallFits, Editor!OthersAreKept, Editor!Requests, Editor!Editors, Editor!SavesFit, Editor!Looked
<1>6. Editor!SavedWasStored'
  BY DEF Editor!IndInv, Editor!TypeOK, Editor!OneCall, Editor!CallFits, Editor!SavedWasStored, Editor!AnswersWere, Editor!Editors, Editor!Requests
<1>7. Editor!BaseIsSaved' /\ Editor!TextWas'
  BY DEF Editor!IndInv, Editor!TypeOK, Editor!OneCall, Editor!CallFits, Editor!BaseIsSaved, Editor!TextWas, Editor!Editors, Editor!Requests
<1>8. Editor!OneCall'
  BY DEF Editor!IndInv, Editor!TypeOK, Editor!OneCall, Editor!CallFits, Editor!Call, Editor!Load
<1>9. Editor!CallFits'
  BY ZenonT(60) DEF Editor!IndInv, Editor!TypeOK, Editor!OneCall, Editor!CallFits, Editor!Editors, Editor!Requests, Editor!Call, Editor!Load
<1>10. Editor!AnswersWere'
  BY DEF Editor!IndInv, Editor!TypeOK, Editor!OneCall, Editor!CallFits, Editor!AnswersWere, Editor!TextWas, Editor!Requests, Editor!Call, Editor!Load
<1>11. Editor!SavesFit'
  <2>1. PICK d \in Editor!Requests : x2' = {d} /\ d.kind = c.kind /\ d.body = c.body /\ d.base = c.base /\ d.seen = c.seen /\ d.press = c.press /\ d.at = "done" /\ d.reply = x3.text
    <3>1. [c EXCEPT !.at = "done", !.reply = x3.text] \in Editor!Requests
      BY <1>2 DEF Editor!TypeOK
    <3> QED
      BY <3>1 DEF Editor!IndInv, Editor!TypeOK, Editor!Requests
  <2> QED
    BY <2>1 DEF Editor!IndInv, Editor!TypeOK, Editor!SavesFit, Editor!Looked, Editor!Editors, Editor!Requests, Editor!Texts, Editor!ServeBase
<1> QED
  BY <1>1, <1>2, <1>3, <1>4, <1>5, <1>6, <1>7, <1>8, <1>9, <1>10, <1>11 DEF Editor!IndInv, Editor!TypeOK

\* The server refuses a save over another text.
LEMMA EditorServeBase ==
    ASSUME Editor!IndInv,
           NEW c \in x2,
           c.kind = "put" /\ c.at = "sent",
           x1' = x1,
           Editor!ServeBase(c)
    PROVE  Editor!IndInv'
<1> USE EditorAssumption, EditorKinds
<1>1. x1' \in Editor!Editors
  BY DEF Editor!IndInv, Editor!TypeOK, Editor!OneCall, Editor!CallFits, Editor!Editors, Editor!Requests, Editor!Texts, Editor!BaseIsSaved, Editor!SavesFit, Editor!ServeBase
<1>2. x2' \subseteq Editor!Requests
  <2>1. c \in Editor!Requests /\ {"failed", "passed"} \subseteq {"sent", "passed", "done", "failed"} /\ "changed" \in Editor!Texts \cup {None, "changed", "error"}
    BY DEF Editor!IndInv, Editor!TypeOK
  <2>2. [c EXCEPT !.at = "failed", !.reply = "changed"] \in Editor!Requests /\ [c EXCEPT !.at = "passed"] \in Editor!Requests
    BY <2>1, Zenon DEF Editor!Requests
  <2> QED
    BY <2>2 DEF Editor!ServeBase
<1>3. x3' \in [text : Editor!Texts, was : SUBSET Editor!Texts, writes : Nat]
  BY DEF Editor!IndInv, Editor!TypeOK, Editor!OneCall, Editor!CallFits, Editor!Editors, Editor!Requests, Editor!Texts, Editor!SavesFit, Editor!ServeBase
<1>4. Editor!NothingStuck'
  BY DEF Editor!IndInv, Editor!TypeOK, Editor!OneCall, Editor!CallFits, Editor!NothingStuck, Editor!Editors, Editor!Load, Editor!ServeBase
<1>5. Editor!OthersAreKept'
  BY DEF Editor!IndInv, Editor!TypeOK, Editor!OneCall, Editor!CallFits, Editor!OthersAreKept, Editor!Requests, Editor!Editors, Editor!SavesFit, Editor!Looked, Editor!ServeBase
<1>6. Editor!SavedWasStored'
  BY DEF Editor!IndInv, Editor!TypeOK, Editor!OneCall, Editor!CallFits, Editor!SavedWasStored, Editor!AnswersWere, Editor!Editors, Editor!Requests, Editor!ServeBase
<1>7. Editor!BaseIsSaved' /\ Editor!TextWas'
  BY DEF Editor!IndInv, Editor!TypeOK, Editor!OneCall, Editor!CallFits, Editor!BaseIsSaved, Editor!TextWas, Editor!Editors, Editor!Requests, Editor!ServeBase
<1>8. Editor!OneCall'
  BY DEF Editor!IndInv, Editor!TypeOK, Editor!OneCall, Editor!CallFits, Editor!Call, Editor!Load, Editor!ServeBase
<1>9. Editor!CallFits'
  BY ZenonT(60) DEF Editor!IndInv, Editor!TypeOK, Editor!OneCall, Editor!CallFits, Editor!Editors, Editor!Requests, Editor!Call, Editor!Load, Editor!ServeBase
<1>10. Editor!AnswersWere'
  BY DEF Editor!IndInv, Editor!TypeOK, Editor!OneCall, Editor!CallFits, Editor!AnswersWere, Editor!TextWas, Editor!Requests, Editor!Call, Editor!Load, Editor!ServeBase
<1>11. Editor!SavesFit'
  <2>1. CASE x2' = {[c EXCEPT !.at = "failed", !.reply = "changed"]}
    <3>1. PICK d \in Editor!Requests : x2' = {d} /\ d.kind = c.kind /\ d.body = c.body /\ d.base = c.base /\ d.seen = c.seen /\ d.press = c.press /\ d.at = "failed"
      BY <1>2, <2>1 DEF Editor!IndInv, Editor!TypeOK, Editor!Requests
    <3> QED
      BY <3>1 DEF Editor!IndInv, Editor!TypeOK, Editor!SavesFit, Editor!Looked, Editor!Editors, Editor!Requests, Editor!Texts, Editor!ServeBase
  <2>2. CASE x2' = {[c EXCEPT !.at = "passed"]} /\ ~ (x1.is.guard = "version" /\ c.base # None /\ c.base # x3.text)
    <3>1. PICK d \in Editor!Requests : x2' = {d} /\ d.kind = c.kind /\ d.body = c.body /\ d.base = c.base /\ d.seen = c.seen /\ d.press = c.press /\ d.at = "passed"
      BY <1>2, <2>2 DEF Editor!IndInv, Editor!TypeOK, Editor!Requests
    <3> QED
      BY <2>2, <3>1 DEF Editor!IndInv, Editor!TypeOK, Editor!SavesFit, Editor!Looked, Editor!Editors, Editor!Requests, Editor!Texts, Editor!ServeBase
  <2> QED
    BY <2>1, <2>2, Zenon DEF Editor!ServeBase
<1> QED
  BY <1>1, <1>2, <1>3, <1>4, <1>5, <1>6, <1>7, <1>8, <1>9, <1>10, <1>11 DEF Editor!IndInv, Editor!TypeOK

\* The server stores a save.
LEMMA EditorServePut ==
    ASSUME Editor!IndInv,
           NEW c \in x2,
           c.at = "passed",
           x1' = x1,
           Editor!ServePut(c)
    PROVE  Editor!IndInv'
<1> USE EditorAssumption, EditorKinds
<1>1. x1' \in Editor!Editors
  BY DEF Editor!IndInv, Editor!TypeOK, Editor!OneCall, Editor!CallFits, Editor!Editors, Editor!Requests, Editor!Texts, Editor!BaseIsSaved, Editor!SavesFit, Editor!ServePut
<1>2. x2' \subseteq Editor!Requests
  BY DEF Editor!IndInv, Editor!TypeOK, Editor!OneCall, Editor!CallFits, Editor!Editors, Editor!Requests, Editor!Texts, Editor!SavesFit, Editor!Call, Editor!Load, Editor!ServePut
<1>3. x3' \in [text : Editor!Texts, was : SUBSET Editor!Texts, writes : Nat]
  <2>1. c.body \in Editor!Texts /\ x3 \in [text : Editor!Texts, was : SUBSET Editor!Texts, writes : Nat] /\ c.kind = "put"
    BY DEF Editor!IndInv, Editor!TypeOK, Editor!SavesFit, Editor!CallFits, Editor!Requests
  <2> DEFINE w == x3.was \cup {c.body}
  <2>2. x3' = [x3 EXCEPT !.text = c.body, !.was = w] /\ w \in SUBSET Editor!Texts
    BY <2>1, SMT DEF Editor!ServePut
  <2> HIDE DEF w
  <2> QED
    BY <2>1, <2>2, Zenon
<1>4. Editor!NothingStuck'
  BY DEF Editor!IndInv, Editor!TypeOK, Editor!OneCall, Editor!CallFits, Editor!NothingStuck, Editor!Editors, Editor!Load, Editor!ServePut
<1>5. Editor!OthersAreKept'
  BY DEF Editor!IndInv, Editor!TypeOK, Editor!OneCall, Editor!CallFits, Editor!OthersAreKept, Editor!Requests, Editor!Editors, Editor!SavesFit, Editor!Looked, Editor!ServePut
<1>6. Editor!SavedWasStored'
  BY DEF Editor!IndInv, Editor!TypeOK, Editor!OneCall, Editor!CallFits, Editor!SavedWasStored, Editor!AnswersWere, Editor!Editors, Editor!Requests, Editor!ServePut
<1>7. Editor!BaseIsSaved' /\ Editor!TextWas'
  BY DEF Editor!IndInv, Editor!TypeOK, Editor!OneCall, Editor!CallFits, Editor!BaseIsSaved, Editor!TextWas, Editor!Editors, Editor!Requests, Editor!ServePut
<1>8. Editor!OneCall'
  BY DEF Editor!IndInv, Editor!TypeOK, Editor!OneCall, Editor!CallFits, Editor!Call, Editor!Load, Editor!ServePut
<1>9. Editor!CallFits'
  BY DEF Editor!IndInv, Editor!TypeOK, Editor!OneCall, Editor!CallFits, Editor!Editors, Editor!Requests, Editor!Call, Editor!Load, Editor!ServePut
<1>10. Editor!AnswersWere'
  BY DEF Editor!IndInv, Editor!TypeOK, Editor!OneCall, Editor!CallFits, Editor!AnswersWere, Editor!TextWas, Editor!Requests, Editor!Call, Editor!Load, Editor!ServePut
<1>11. Editor!SavesFit'
  BY DEF Editor!IndInv, Editor!TypeOK, Editor!OneCall, Editor!CallFits, Editor!SavesFit, Editor!Looked, Editor!TextWas, Editor!AnswersWere, Editor!BaseIsSaved, Editor!Editors, Editor!Requests, Editor!Texts, Editor!Call, Editor!Load, Editor!ServePut
<1> QED
  BY <1>1, <1>2, <1>3, <1>4, <1>5, <1>6, <1>7, <1>8, <1>9, <1>10, <1>11 DEF Editor!IndInv, Editor!TypeOK

\* An editor is closed.
LEMMA EditorClose == ASSUME Editor!IndInv, Editor!Close PROVE Editor!IndInv'
<1>1. x1.phase # "closed" /\ UNCHANGED <<x2, x3, x4>>
  BY DEF Editor!Close
<1>2. \/ x1' = [x1 EXCEPT !.discard = TRUE]
      \/ x1' = [x1 EXCEPT !.phase = "closed", !.busy = "no"]
  BY Zenon DEF Editor!Close
<1> QED
  BY <1>1, <1>2, EditorCloseAsks, EditorCloseNow

\* A save is answered.
LEMMA EditorSaved == ASSUME Editor!IndInv, NEW c \in x2, x1.phase # "closed", Editor!Saved(c) PROVE Editor!IndInv'
<1>1. CASE c.at = "failed"
  <2> DEFINE w == x1.changed \/ c.reply = "changed"
  <2>1. w \in BOOLEAN
    BY DEF Editor!IndInv, Editor!TypeOK, Editor!Editors
  <2>2. x1' = [x1 EXCEPT !.busy = "no", !.changed = w] /\ x2' = {}
    BY <1>1, Zenon DEF Editor!Saved
  <2> HIDE DEF w
  <2> QED
    BY <2>1, <2>2, EditorSavedFails
<1>2. CASE c.at # "failed" /\ x1.is.after = "reload"
  BY <1>2, EditorSavedReloads DEF Editor!Saved
<1>3. CASE c.at # "failed" /\ x1.is.after # "reload"
  <2> DEFINE t == IF x1.is.after = "answer" THEN c.body ELSE x1.text
  <2>1. c.at = "done" /\ c.kind = "put" /\ t \in Editor!Texts
    BY <1>3 DEF Editor!Saved, Editor!Answered, Editor!IndInv, Editor!TypeOK, Editor!Editors, Editor!SavesFit
  <2>2. x1' = [x1 EXCEPT !.busy = "no", !.saved = c.body, !.base = c.body, !.changed = FALSE, !.text = t] /\ x2' = {}
    BY <1>3, Zenon DEF Editor!Saved
  <2> HIDE DEF t
  <2> QED
    BY <1>3, <2>1, <2>2, EditorSavedAnswered
<1> QED
  BY <1>1, <1>2, <1>3

\* Every step keeps the invariant.
LEMMA EditorStep == ASSUME Editor!IndInv, Editor!Next PROVE Editor!IndInv'
<1>1. CASE Editor!Retry \/ Editor!KeepTheirs \/ Editor!Close \/ Editor!BackToEditor
  BY <1>1, EditorRetry, EditorKeepTheirs, EditorClose, EditorBackToEditor
<1>2. CASE \E t \in Text : Editor!Type(t) \/ Editor!OtherWrites(t)
  BY <1>2, EditorType, EditorOtherWrites
<1>3. CASE \E force \in BOOLEAN : Editor!Save(force)
  BY <1>3, EditorSave
<1>4. ASSUME NEW c \in x2, Editor!Serve(c) PROVE Editor!IndInv'
  <2>1. c.at \in {"sent", "passed"} /\ x1' = x1
    BY <1>4 DEF Editor!Serve
  <2>2. CASE x2' = {[c EXCEPT !.at = "failed", !.reply = "error"]} /\ UNCHANGED <<x3, x4>>
    BY <2>1, <2>2, EditorServeFails
  <2>3. CASE c.kind \in {"load", "check"} /\ x2' = {[c EXCEPT !.at = "done", !.reply = x3.text]} /\ UNCHANGED <<x3, x4>>
    BY <2>1, <2>3, EditorServeReads
  <2>4. CASE c.kind = "put" /\ c.at = "sent" /\ Editor!ServeBase(c)
    BY <2>1, <2>4, EditorServeBase
  <2>5. CASE c.at = "passed" /\ Editor!ServePut(c)
    BY <2>1, <2>5, EditorServePut
  <2> QED
    BY <1>4, <2>2, <2>3, <2>4, <2>5 DEF Editor!Serve
<1>5. ASSUME NEW c \in x2, Editor!Late(c) \/ (x1.phase # "closed" /\ (Editor!Loaded(c) \/ Editor!Checked(c) \/ Editor!Saved(c)))
      PROVE Editor!IndInv'
  BY <1>5, EditorLate, EditorLoaded, EditorChecked, EditorSaved
<1> QED
  BY <1>1, <1>2, <1>3, <1>4, <1>5 DEF Editor!Next

\* So does a step that leaves the variables of the part alone.
LEMMA EditorStill == ASSUME Editor!IndInv, UNCHANGED <<x1, x2, x3, x4>> PROVE Editor!IndInv'
BY DEF Editor!IndInv, Editor!TypeOK, Editor!NothingStuck, Editor!OthersAreKept, Editor!SavedWasStored, Editor!BaseIsSaved, Editor!TextWas,
    Editor!OneCall, Editor!CallFits, Editor!AnswersWere, Editor!SavesFit, Editor!Looked

-----------------------------------------------------------------------------
(* Purges of the logs: LogPurge.                                           *)

\* The initial states satisfy the invariant.
LEMMA PurgeInit == ASSUME Purge!Init PROVE Purge!IndInv
<1>1. x4 = <<>> /\ x4 \in Seq(BOOLEAN) /\ DOMAIN x4 = {}
  BY DEF Purge!Init
<1>2. Purge!TypeOK
  BY <1>1 DEF Purge!Init, Purge!TypeOK, Purge!Age, Purge!NoPurge
<1>3. Purge!OthersSurvive /\ Purge!PurgedIsGone /\ Purge!VectorIsSeen /\ Purge!KeptIsRight /\ Purge!OpenIsFresh
  BY <1>1 DEF Purge!Init, Purge!OthersSurvive, Purge!PurgedIsGone, Purge!VectorIsSeen, Purge!KeptIsRight, Purge!OpenIsFresh, Purge!NoPurge
<1> QED
  BY <1>2, <1>3 DEF Purge!IndInv

\* A line more: the others keep their numbers and whose they are.
LEMMA PurgeVectorWrites == ASSUME Purge!IndInv, NEW app \in BOOLEAN, Purge!VectorWrites(app) PROVE Purge!IndInv'
<1> USE DEF Purge!IndInv, Purge!TypeOK, Purge!Age
<1> DEFINE l == Len(x4) + 1
<1>1. /\ x4' = Append(x4, app) /\ x4 \in Seq(BOOLEAN) /\ x4' \in Seq(BOOLEAN)
      /\ DOMAIN x4' = DOMAIN x4 \cup {l} /\ l \notin DOMAIN x4 /\ \A k \in DOMAIN x4 : x4'[k] = x4[k]
  BY DEF Purge!VectorWrites
<1>2. \A k \in DOMAIN x4 : Purge!Purged(k)' <=> Purge!Purged(k)
  BY <1>1 DEF Purge!Purged
<1>3. /\ UNCHANGED <<x3, x5>>
      /\ \/ x2 = "away" /\ UNCHANGED <<x1, x2>> /\ x6' = [x6 EXCEPT !.lines = @ \cup {l}]
         \/ /\ x2 # "away" /\ x1' = [lines |-> x1.lines \cup {l}, there |-> TRUE, age |-> "fresh"] /\ x2' = "open"
            /\ x6' = [lines |-> IF x3.at \in Purge!TooLate THEN x6.lines \cup {l} ELSE x6.lines,
                      reopened |-> x6.reopened \/ (x2 = "closed" /\ x3.at # "none")]
  BY DEF Purge!VectorWrites
<1> HIDE DEF l
<1>4. Purge!TypeOK'
  <2>1. x1' \in [lines : SUBSET DOMAIN x4', there : BOOLEAN, age : Purge!Age] /\ x2' \in {"closed", "open", "away"}
    <3>1. CASE x2 = "away" /\ UNCHANGED <<x1, x2>>
      BY <1>1, <3>1
    <3>2. CASE x1' = [lines |-> x1.lines \cup {l}, there |-> TRUE, age |-> "fresh"] /\ x2' = "open"
      <4>1. x1.lines \cup {l} \in SUBSET DOMAIN x4'
        BY <1>1
      <4> QED
        BY <3>2, <4>1
    <3> QED
      BY <1>3, <3>1, <3>2
  <2>2. x3' \in [at : {"none", "read", "replace", "more", "truncate", "fill", "empty", "remove"}, age : Purge!Age, kept : SUBSET DOMAIN x4', seen : SUBSET DOMAIN x4']
    BY <1>1, <1>3
  <2>3. x5' \in [app : SUBSET DOMAIN x4', date : SUBSET DOMAIN x4']
    BY <1>1, <1>3
  <2>4. x6' \in [lines : SUBSET DOMAIN x4', reopened : BOOLEAN]
    <3>1. CASE x6' = [x6 EXCEPT !.lines = @ \cup {l}]
      <4>1. x6.lines \cup {l} \in SUBSET DOMAIN x4'
        BY <1>1
      <4> QED
        BY <3>1, <4>1
    <3>2. CASE x6' = [lines |-> IF x3.at \in Purge!TooLate THEN x6.lines \cup {l} ELSE x6.lines,
                      reopened |-> x6.reopened \/ (x2 = "closed" /\ x3.at # "none")]
      <4> DEFINE S == IF x3.at \in Purge!TooLate THEN x6.lines \cup {l} ELSE x6.lines
                 b == x6.reopened \/ (x2 = "closed" /\ x3.at # "none")
      <4>1. S \in SUBSET DOMAIN x4' /\ b \in BOOLEAN
        BY <1>1
      <4>2. x6' = [lines |-> S, reopened |-> b]
        BY <3>2
      <4> HIDE DEF S, b
      <4> QED
        BY <4>1, <4>2
    <3> QED
      BY <1>3, <3>1, <3>2
  <2> QED
    BY <1>1, <2>1, <2>2, <2>3, <2>4
<1>5. Purge!OthersSurvive'
  BY <1>1, <1>2, <1>3 DEF Purge!OthersSurvive, Purge!TooLate
<1>6. Purge!PurgedIsGone' /\ Purge!VectorIsSeen' /\ Purge!OpenIsFresh'
  <2>1. Purge!PurgedIsGone'
    <3>1. x5.app \subseteq DOMAIN x4 /\ (x1'.lines = x1.lines \/ x1'.lines = x1.lines \cup {l})
      BY <1>3
    <3> QED
      BY <1>1, <1>3, <3>1 DEF Purge!PurgedIsGone, Purge!NoPurge
  <2>2. Purge!VectorIsSeen' /\ Purge!OpenIsFresh'
    <3>1. CASE x2 = "away" /\ UNCHANGED <<x1, x2>> /\ x6' = [x6 EXCEPT !.lines = @ \cup {l}]
      BY <3>1 DEF Purge!VectorIsSeen, Purge!OpenIsFresh
    <3>2. CASE x2 # "away" /\ x2' = "open" /\ x1'.age = "fresh" /\ (x6.reopened \/ (x2 = "closed" /\ x3.at # "none") => x6'.reopened)
      <4>1. x2 \in {"closed", "open"} /\ x3' = x3
        BY <1>3, <3>2
      <4>2. CASE x2 = "open"
        BY <3>2, <4>1, <4>2 DEF Purge!VectorIsSeen, Purge!OpenIsFresh
      <4>3. CASE x2 = "closed"
        BY <3>2, <4>1, <4>3 DEF Purge!VectorIsSeen, Purge!OpenIsFresh
      <4> QED
        BY <4>1, <4>2, <4>3
    <3>3. ASSUME x6' = [lines |-> IF x3.at \in Purge!TooLate THEN x6.lines \cup {l} ELSE x6.lines,
                        reopened |-> x6.reopened \/ (x2 = "closed" /\ x3.at # "none")]
          PROVE  x6.reopened \/ (x2 = "closed" /\ x3.at # "none") => x6'.reopened
      <4> DEFINE b == x6.reopened \/ (x2 = "closed" /\ x3.at # "none")
                 S == IF x3.at \in Purge!TooLate THEN x6.lines \cup {l} ELSE x6.lines
      <4>1. x6' = [lines |-> S, reopened |-> b]
        BY <3>3
      <4> HIDE DEF b, S
      <4>2. x6'.reopened = b
        BY <4>1
      <4> QED
        BY <4>2, Zenon DEF b
    <3> QED
      BY <1>3, <3>1, <3>2, <3>3
  <2> QED
    BY <2>1, <2>2
<1>7. Purge!KeptIsRight'
  BY <1>1, <1>2, <1>3 DEF Purge!KeptIsRight, Purge!Kept, Purge!NoPurge, Purge!TooLate
<1> QED
  BY <1>4, <1>5, <1>6, <1>7

\* The file grows older.
LEMMA PurgeAges == ASSUME Purge!IndInv, Purge!Ages PROVE Purge!IndInv'
<1> USE DEF Purge!IndInv, Purge!TypeOK, Purge!Age
<1>1. Purge!TypeOK'
  <2>1. x4' \in Seq(BOOLEAN) /\ x2' \in {"closed", "open", "away"}
    BY DEF Purge!Ages
  <2>2. x1' \in [lines : SUBSET DOMAIN x4', there : BOOLEAN, age : Purge!Age]
    BY DEF Purge!Ages
  <2>3. x3' \in [at : {"none", "read", "replace", "more", "truncate", "fill", "empty", "remove"}, age : Purge!Age, kept : SUBSET DOMAIN x4', seen : SUBSET DOMAIN x4']
    BY DEF Purge!Ages
  <2>4. x5' \in [app : SUBSET DOMAIN x4', date : SUBSET DOMAIN x4']
    BY DEF Purge!Ages
  <2>5. x6' \in [lines : SUBSET DOMAIN x4', reopened : BOOLEAN]
    BY DEF Purge!Ages
  <2> QED
    BY <2>1, <2>2, <2>3, <2>4, <2>5
<1>2. Purge!OthersSurvive'
  BY DEF Purge!OthersSurvive, Purge!KeptIsRight, Purge!Purged, Purge!Kept, Purge!Ages
<1>3. Purge!PurgedIsGone'
  BY DEF Purge!PurgedIsGone, Purge!KeptIsRight, Purge!Purged, Purge!Ages
<1>4. Purge!VectorIsSeen'
  BY DEF Purge!VectorIsSeen, Purge!OpenIsFresh, Purge!KeptIsRight, Purge!Ages
<1>5. Purge!KeptIsRight'
  BY DEF Purge!KeptIsRight, Purge!PurgedIsGone, Purge!Purged, Purge!Kept, Purge!Ages
<1>6. Purge!OpenIsFresh'
  BY DEF Purge!OpenIsFresh, Purge!VectorIsSeen, Purge!KeptIsRight, Purge!Ages
<1> QED
  BY <1>1, <1>2, <1>3, <1>4, <1>5, <1>6

\* Vector closes a file that is idle.
LEMMA PurgeVectorCloses == ASSUME Purge!IndInv, Purge!VectorCloses PROVE Purge!IndInv'
<1> USE DEF Purge!IndInv, Purge!TypeOK, Purge!Age
<1>1. Purge!TypeOK'
  <2>1. x4' \in Seq(BOOLEAN) /\ x2' \in {"closed", "open", "away"}
    BY DEF Purge!VectorCloses
  <2>2. x1' \in [lines : SUBSET DOMAIN x4', there : BOOLEAN, age : Purge!Age]
    BY DEF Purge!VectorCloses
  <2>3. x3' \in [at : {"none", "read", "replace", "more", "truncate", "fill", "empty", "remove"}, age : Purge!Age, kept : SUBSET DOMAIN x4', seen : SUBSET DOMAIN x4']
    BY DEF Purge!VectorCloses
  <2>4. x5' \in [app : SUBSET DOMAIN x4', date : SUBSET DOMAIN x4']
    BY DEF Purge!VectorCloses
  <2>5. x6' \in [lines : SUBSET DOMAIN x4', reopened : BOOLEAN]
    BY DEF Purge!VectorCloses
  <2> QED
    BY <2>1, <2>2, <2>3, <2>4, <2>5
<1>2. Purge!OthersSurvive'
  BY DEF Purge!OthersSurvive, Purge!KeptIsRight, Purge!Purged, Purge!Kept, Purge!VectorCloses
<1>3. Purge!PurgedIsGone'
  BY DEF Purge!PurgedIsGone, Purge!KeptIsRight, Purge!Purged, Purge!VectorCloses
<1>4. Purge!VectorIsSeen'
  BY DEF Purge!VectorIsSeen, Purge!OpenIsFresh, Purge!KeptIsRight, Purge!VectorCloses
<1>5. Purge!KeptIsRight'
  BY DEF Purge!KeptIsRight, Purge!PurgedIsGone, Purge!Purged, Purge!Kept, Purge!VectorCloses
<1>6. Purge!OpenIsFresh'
  BY DEF Purge!OpenIsFresh, Purge!VectorIsSeen, Purge!KeptIsRight, Purge!VectorCloses
<1> QED
  BY <1>1, <1>2, <1>3, <1>4, <1>5, <1>6

\* A purge of an app's lines is begun.
LEMMA PurgePurgeApp == ASSUME Purge!IndInv, Purge!PurgeApp PROVE Purge!IndInv'
<1> USE DEF Purge!IndInv, Purge!TypeOK, Purge!Age
<1>1. Purge!TypeOK'
  <2>1. x4' \in Seq(BOOLEAN) /\ x2' \in {"closed", "open", "away"}
    BY DEF Purge!PurgeApp, Purge!NoPurge
  <2>2. x1' \in [lines : SUBSET DOMAIN x4', there : BOOLEAN, age : Purge!Age]
    BY DEF Purge!PurgeApp, Purge!NoPurge
  <2>3. x3' \in [at : {"none", "read", "replace", "more", "truncate", "fill", "empty", "remove"}, age : Purge!Age, kept : SUBSET DOMAIN x4', seen : SUBSET DOMAIN x4']
    BY DEF Purge!PurgeApp, Purge!NoPurge
  <2>4. x5' \in [app : SUBSET DOMAIN x4', date : SUBSET DOMAIN x4']
    BY DEF Purge!PurgeApp, Purge!NoPurge
  <2>5. x6' \in [lines : SUBSET DOMAIN x4', reopened : BOOLEAN]
    BY DEF Purge!PurgeApp, Purge!NoPurge
  <2> QED
    BY <2>1, <2>2, <2>3, <2>4, <2>5
<1>2. Purge!OthersSurvive'
  BY DEF Purge!OthersSurvive, Purge!KeptIsRight, Purge!Purged, Purge!Kept, Purge!PurgeApp, Purge!NoPurge
<1>3. Purge!PurgedIsGone'
  BY DEF Purge!PurgedIsGone, Purge!KeptIsRight, Purge!Purged, Purge!PurgeApp, Purge!NoPurge
<1>4. Purge!VectorIsSeen'
  BY DEF Purge!VectorIsSeen, Purge!OpenIsFresh, Purge!KeptIsRight, Purge!PurgeApp, Purge!NoPurge
<1>5. Purge!KeptIsRight'
  BY DEF Purge!KeptIsRight, Purge!PurgedIsGone, Purge!Purged, Purge!Kept, Purge!PurgeApp, Purge!NoPurge
<1>6. Purge!OpenIsFresh'
  BY DEF Purge!OpenIsFresh, Purge!VectorIsSeen, Purge!KeptIsRight, Purge!PurgeApp, Purge!NoPurge
<1> QED
  BY <1>1, <1>2, <1>3, <1>4, <1>5, <1>6

\* It reads the file.
LEMMA PurgeRead == ASSUME Purge!IndInv, Purge!Read PROVE Purge!IndInv'
<1> USE DEF Purge!IndInv, Purge!TypeOK, Purge!Age
<1>1. Purge!TypeOK'
  <2>1. x4' \in Seq(BOOLEAN) /\ x2' \in {"closed", "open", "away"}
    BY DEF Purge!Read, Purge!NoPurge, Purge!Kept, Purge!MayHaveOpen
  <2>2. x1' \in [lines : SUBSET DOMAIN x4', there : BOOLEAN, age : Purge!Age]
    BY DEF Purge!Read, Purge!NoPurge, Purge!Kept, Purge!MayHaveOpen
  <2>3. x3' \in [at : {"none", "read", "replace", "more", "truncate", "fill", "empty", "remove"}, age : Purge!Age, kept : SUBSET DOMAIN x4', seen : SUBSET DOMAIN x4']
    <3>1. CASE x3' = Purge!NoPurge
      BY <3>1 DEF Purge!NoPurge, Purge!Read
    <3>2. CASE \E at \in {"more", "replace"} : x3' = [x3 EXCEPT !.at = at, !.kept = Purge!Kept(x1.lines), !.seen = x1.lines]
      <4>1. PICK at \in {"more", "replace"} : x3' = [x3 EXCEPT !.at = at, !.kept = Purge!Kept(x1.lines), !.seen = x1.lines]
        BY <3>2
      <4>2. Purge!Kept(x1.lines) \in SUBSET DOMAIN x4 /\ x1.lines \in SUBSET DOMAIN x4 /\ x4' = x4
        BY DEF Purge!Kept, Purge!Read
      <4> HIDE DEF Purge!IndInv
      <4>3. x3 \in [at : {"none", "read", "replace", "more", "truncate", "fill", "empty", "remove"}, age : Purge!Age, kept : SUBSET DOMAIN x4, seen : SUBSET DOMAIN x4]
        BY DEF Purge!IndInv
      <4> QED
        BY <4>1, <4>2, <4>3
    <3> QED
      BY <3>1, <3>2 DEF Purge!Read, Purge!MayHaveOpen
  <2>4. x5' \in [app : SUBSET DOMAIN x4', date : SUBSET DOMAIN x4']
    BY DEF Purge!Read, Purge!NoPurge, Purge!Kept, Purge!MayHaveOpen
  <2>5. x6' \in [lines : SUBSET DOMAIN x4', reopened : BOOLEAN]
    BY DEF Purge!Read, Purge!NoPurge, Purge!Kept, Purge!MayHaveOpen
  <2> QED
    BY <2>1, <2>2, <2>3, <2>4, <2>5
<1>2. Purge!OthersSurvive'
  BY DEF Purge!OthersSurvive, Purge!KeptIsRight, Purge!Purged, Purge!Kept, Purge!Read, Purge!NoPurge, Purge!Kept, Purge!MayHaveOpen
<1>3. Purge!PurgedIsGone'
  <2>1. CASE \A l \in x1.lines : ~Purge!Purged(l)
    BY <2>1 DEF Purge!PurgedIsGone, Purge!KeptIsRight, Purge!Read
  <2>2. CASE ~ \A l \in x1.lines : ~Purge!Purged(l)
    <3>1. x3'.at \in {"more", "replace"}
      BY <2>2 DEF Purge!Read, Purge!MayHaveOpen
    <3> QED
      BY <3>1 DEF Purge!PurgedIsGone, Purge!NoPurge
  <2> QED
    BY <2>1, <2>2
<1>4. Purge!VectorIsSeen'
  BY DEF Purge!VectorIsSeen, Purge!OpenIsFresh, Purge!KeptIsRight, Purge!Read, Purge!NoPurge, Purge!Kept, Purge!MayHaveOpen
<1>5. Purge!KeptIsRight'
  BY DEF Purge!KeptIsRight, Purge!PurgedIsGone, Purge!Purged, Purge!Kept, Purge!Read, Purge!NoPurge, Purge!Kept, Purge!MayHaveOpen
<1>6. Purge!OpenIsFresh'
  BY DEF Purge!OpenIsFresh, Purge!VectorIsSeen, Purge!KeptIsRight, Purge!Read, Purge!NoPurge, Purge!Kept, Purge!MayHaveOpen
<1> QED
  BY <1>1, <1>2, <1>3, <1>4, <1>5, <1>6

\* It replaces the file by what it kept.
LEMMA PurgeReplace == ASSUME Purge!IndInv, Purge!Replace PROVE Purge!IndInv'
<1> USE DEF Purge!IndInv, Purge!TypeOK, Purge!Age
<1>1. Purge!TypeOK'
  <2>1. x4' \in Seq(BOOLEAN) /\ x2' \in {"closed", "open", "away"}
    BY DEF Purge!Replace, Purge!NoPurge
  <2>2. x1' \in [lines : SUBSET DOMAIN x4', there : BOOLEAN, age : Purge!Age]
    BY DEF Purge!Replace, Purge!NoPurge
  <2>3. x3' \in [at : {"none", "read", "replace", "more", "truncate", "fill", "empty", "remove"}, age : Purge!Age, kept : SUBSET DOMAIN x4', seen : SUBSET DOMAIN x4']
    BY DEF Purge!Replace, Purge!NoPurge
  <2>4. x5' \in [app : SUBSET DOMAIN x4', date : SUBSET DOMAIN x4']
    BY DEF Purge!Replace, Purge!NoPurge
  <2>5. x6' \in [lines : SUBSET DOMAIN x4', reopened : BOOLEAN]
    BY DEF Purge!Replace, Purge!NoPurge
  <2> QED
    BY <2>1, <2>2, <2>3, <2>4, <2>5
<1>2. Purge!OthersSurvive'
  BY DEF Purge!OthersSurvive, Purge!KeptIsRight, Purge!Purged, Purge!Kept, Purge!Replace, Purge!NoPurge
<1>3. Purge!PurgedIsGone'
  BY DEF Purge!PurgedIsGone, Purge!KeptIsRight, Purge!Purged, Purge!Replace, Purge!NoPurge
<1>4. Purge!VectorIsSeen'
  BY DEF Purge!VectorIsSeen, Purge!OpenIsFresh, Purge!KeptIsRight, Purge!Replace, Purge!NoPurge
<1>5. Purge!KeptIsRight'
  BY DEF Purge!KeptIsRight, Purge!PurgedIsGone, Purge!Purged, Purge!Kept, Purge!Replace, Purge!NoPurge
<1>6. Purge!OpenIsFresh'
  BY DEF Purge!OpenIsFresh, Purge!VectorIsSeen, Purge!KeptIsRight, Purge!Replace, Purge!NoPurge
<1> QED
  BY <1>1, <1>2, <1>3, <1>4, <1>5, <1>6

\* It reads what was written since.
LEMMA PurgeReadMore == ASSUME Purge!IndInv, Purge!ReadMore PROVE Purge!IndInv'
<1> USE DEF Purge!IndInv, Purge!TypeOK, Purge!Age
<1>1. Purge!TypeOK'
  <2>1. x4' \in Seq(BOOLEAN) /\ x2' \in {"closed", "open", "away"}
    BY DEF Purge!ReadMore, Purge!Kept
  <2>2. x1' \in [lines : SUBSET DOMAIN x4', there : BOOLEAN, age : Purge!Age]
    BY DEF Purge!ReadMore, Purge!Kept
  <2>3. x3' \in [at : {"none", "read", "replace", "more", "truncate", "fill", "empty", "remove"}, age : Purge!Age, kept : SUBSET DOMAIN x4', seen : SUBSET DOMAIN x4']
    BY DEF Purge!ReadMore, Purge!Kept
  <2>4. x5' \in [app : SUBSET DOMAIN x4', date : SUBSET DOMAIN x4']
    BY DEF Purge!ReadMore, Purge!Kept
  <2>5. x6' \in [lines : SUBSET DOMAIN x4', reopened : BOOLEAN]
    BY DEF Purge!ReadMore, Purge!Kept
  <2> QED
    BY <2>1, <2>2, <2>3, <2>4, <2>5
<1>2. Purge!OthersSurvive'
  BY DEF Purge!OthersSurvive, Purge!KeptIsRight, Purge!Purged, Purge!Kept, Purge!ReadMore, Purge!Kept
<1>3. Purge!PurgedIsGone'
  <2>1. x3'.at = "truncate"
    BY DEF Purge!ReadMore
  <2> QED
    BY <2>1 DEF Purge!PurgedIsGone, Purge!NoPurge
<1>4. Purge!VectorIsSeen'
  BY DEF Purge!VectorIsSeen, Purge!OpenIsFresh, Purge!KeptIsRight, Purge!ReadMore, Purge!Kept
<1>5. Purge!KeptIsRight'
  BY DEF Purge!KeptIsRight, Purge!PurgedIsGone, Purge!Purged, Purge!Kept, Purge!ReadMore, Purge!Kept
<1>6. Purge!OpenIsFresh'
  BY DEF Purge!OpenIsFresh, Purge!VectorIsSeen, Purge!KeptIsRight, Purge!ReadMore, Purge!Kept
<1> QED
  BY <1>1, <1>2, <1>3, <1>4, <1>5, <1>6

\* It empties a file that is open, to fill it again.
LEMMA PurgeTruncate == ASSUME Purge!IndInv, Purge!Truncate PROVE Purge!IndInv'
<1> USE DEF Purge!IndInv, Purge!TypeOK, Purge!Age
<1>1. Purge!TypeOK'
  <2>1. x4' \in Seq(BOOLEAN) /\ x2' \in {"closed", "open", "away"}
    BY DEF Purge!Truncate
  <2>2. x1' \in [lines : SUBSET DOMAIN x4', there : BOOLEAN, age : Purge!Age]
    BY DEF Purge!Truncate
  <2>3. x3' \in [at : {"none", "read", "replace", "more", "truncate", "fill", "empty", "remove"}, age : Purge!Age, kept : SUBSET DOMAIN x4', seen : SUBSET DOMAIN x4']
    BY DEF Purge!Truncate
  <2>4. x5' \in [app : SUBSET DOMAIN x4', date : SUBSET DOMAIN x4']
    BY DEF Purge!Truncate
  <2>5. x6' \in [lines : SUBSET DOMAIN x4', reopened : BOOLEAN]
    BY DEF Purge!Truncate
  <2> QED
    BY <2>1, <2>2, <2>3, <2>4, <2>5
<1>2. Purge!OthersSurvive'
  BY DEF Purge!OthersSurvive, Purge!KeptIsRight, Purge!Purged, Purge!Kept, Purge!Truncate
<1>3. Purge!PurgedIsGone'
  BY DEF Purge!PurgedIsGone, Purge!KeptIsRight, Purge!Purged, Purge!Truncate
<1>4. Purge!VectorIsSeen'
  BY DEF Purge!VectorIsSeen, Purge!OpenIsFresh, Purge!KeptIsRight, Purge!Truncate
<1>5. Purge!KeptIsRight'
  BY DEF Purge!KeptIsRight, Purge!PurgedIsGone, Purge!Purged, Purge!Kept, Purge!Truncate
<1>6. Purge!OpenIsFresh'
  BY DEF Purge!OpenIsFresh, Purge!VectorIsSeen, Purge!KeptIsRight, Purge!Truncate
<1> QED
  BY <1>1, <1>2, <1>3, <1>4, <1>5, <1>6

\* It fills the file with what it kept.
LEMMA PurgeFill == ASSUME Purge!IndInv, Purge!Fill PROVE Purge!IndInv'
<1> USE DEF Purge!IndInv, Purge!TypeOK, Purge!Age
<1>1. Purge!TypeOK'
  <2>1. x4' \in Seq(BOOLEAN) /\ x2' \in {"closed", "open", "away"}
    BY DEF Purge!Fill, Purge!NoPurge, Purge!After
  <2>2. x1' \in [lines : SUBSET DOMAIN x4', there : BOOLEAN, age : Purge!Age]
    BY DEF Purge!Fill, Purge!NoPurge, Purge!After
  <2>3. x3' \in [at : {"none", "read", "replace", "more", "truncate", "fill", "empty", "remove"}, age : Purge!Age, kept : SUBSET DOMAIN x4', seen : SUBSET DOMAIN x4']
    BY DEF Purge!Fill, Purge!NoPurge, Purge!After
  <2>4. x5' \in [app : SUBSET DOMAIN x4', date : SUBSET DOMAIN x4']
    BY DEF Purge!Fill, Purge!NoPurge, Purge!After
  <2>5. x6' \in [lines : SUBSET DOMAIN x4', reopened : BOOLEAN]
    BY DEF Purge!Fill, Purge!NoPurge, Purge!After
  <2> QED
    BY <2>1, <2>2, <2>3, <2>4, <2>5
<1>2. Purge!OthersSurvive'
  BY DEF Purge!OthersSurvive, Purge!KeptIsRight, Purge!Purged, Purge!Kept, Purge!Fill, Purge!NoPurge, Purge!After
<1>3. Purge!PurgedIsGone'
  BY DEF Purge!PurgedIsGone, Purge!KeptIsRight, Purge!Purged, Purge!Fill, Purge!NoPurge, Purge!After
<1>4. Purge!VectorIsSeen'
  BY DEF Purge!VectorIsSeen, Purge!OpenIsFresh, Purge!KeptIsRight, Purge!Fill, Purge!NoPurge, Purge!After
<1>5. Purge!KeptIsRight'
  BY DEF Purge!KeptIsRight, Purge!PurgedIsGone, Purge!Purged, Purge!Kept, Purge!Fill, Purge!NoPurge, Purge!After
<1>6. Purge!OpenIsFresh'
  BY DEF Purge!OpenIsFresh, Purge!VectorIsSeen, Purge!KeptIsRight, Purge!Fill, Purge!NoPurge, Purge!After
<1> QED
  BY <1>1, <1>2, <1>3, <1>4, <1>5, <1>6

\* It fails.
LEMMA PurgeFails == ASSUME Purge!IndInv, Purge!Fails PROVE Purge!IndInv'
<1> USE DEF Purge!IndInv, Purge!TypeOK, Purge!Age
<1>1. Purge!TypeOK'
  <2>1. x4' \in Seq(BOOLEAN) /\ x2' \in {"closed", "open", "away"}
    BY DEF Purge!Fails, Purge!NoPurge
  <2>2. x1' \in [lines : SUBSET DOMAIN x4', there : BOOLEAN, age : Purge!Age]
    BY DEF Purge!Fails, Purge!NoPurge
  <2>3. x3' \in [at : {"none", "read", "replace", "more", "truncate", "fill", "empty", "remove"}, age : Purge!Age, kept : SUBSET DOMAIN x4', seen : SUBSET DOMAIN x4']
    BY DEF Purge!Fails, Purge!NoPurge
  <2>4. x5' \in [app : SUBSET DOMAIN x4', date : SUBSET DOMAIN x4']
    BY DEF Purge!Fails, Purge!NoPurge
  <2>5. x6' \in [lines : SUBSET DOMAIN x4', reopened : BOOLEAN]
    BY DEF Purge!Fails, Purge!NoPurge
  <2> QED
    BY <2>1, <2>2, <2>3, <2>4, <2>5
<1>2. Purge!OthersSurvive'
  BY DEF Purge!OthersSurvive, Purge!KeptIsRight, Purge!Purged, Purge!Kept, Purge!Fails, Purge!NoPurge
<1>3. Purge!PurgedIsGone'
  BY DEF Purge!PurgedIsGone, Purge!KeptIsRight, Purge!Purged, Purge!Fails, Purge!NoPurge
<1>4. Purge!VectorIsSeen'
  BY DEF Purge!VectorIsSeen, Purge!OpenIsFresh, Purge!KeptIsRight, Purge!Fails, Purge!NoPurge
<1>5. Purge!KeptIsRight'
  BY DEF Purge!KeptIsRight, Purge!PurgedIsGone, Purge!Purged, Purge!Kept, Purge!Fails, Purge!NoPurge
<1>6. Purge!OpenIsFresh'
  BY DEF Purge!OpenIsFresh, Purge!VectorIsSeen, Purge!KeptIsRight, Purge!Fails, Purge!NoPurge
<1> QED
  BY <1>1, <1>2, <1>3, <1>4, <1>5, <1>6

\* A purge of a day's lines is begun.
LEMMA PurgePurgeDate == ASSUME Purge!IndInv, Purge!PurgeDate PROVE Purge!IndInv'
<1> USE DEF Purge!IndInv, Purge!TypeOK, Purge!Age
<1>1. Purge!TypeOK'
  <2>1. x4' \in Seq(BOOLEAN) /\ x2' \in {"closed", "open", "away"}
    BY DEF Purge!PurgeDate, Purge!NoPurge, Purge!MayHaveOpen
  <2>2. x1' \in [lines : SUBSET DOMAIN x4', there : BOOLEAN, age : Purge!Age]
    BY DEF Purge!PurgeDate, Purge!NoPurge, Purge!MayHaveOpen
  <2>3. x3' \in [at : {"none", "read", "replace", "more", "truncate", "fill", "empty", "remove"}, age : Purge!Age, kept : SUBSET DOMAIN x4', seen : SUBSET DOMAIN x4']
    BY DEF Purge!PurgeDate, Purge!NoPurge, Purge!MayHaveOpen
  <2>4. x5' \in [app : SUBSET DOMAIN x4', date : SUBSET DOMAIN x4']
    BY DEF Purge!PurgeDate, Purge!NoPurge, Purge!MayHaveOpen
  <2>5. x6' \in [lines : SUBSET DOMAIN x4', reopened : BOOLEAN]
    BY DEF Purge!PurgeDate, Purge!NoPurge, Purge!MayHaveOpen
  <2> QED
    BY <2>1, <2>2, <2>3, <2>4, <2>5
<1>2. Purge!OthersSurvive'
  BY DEF Purge!OthersSurvive, Purge!KeptIsRight, Purge!Purged, Purge!Kept, Purge!PurgeDate, Purge!NoPurge, Purge!MayHaveOpen
<1>3. Purge!PurgedIsGone'
  BY DEF Purge!PurgedIsGone, Purge!KeptIsRight, Purge!Purged, Purge!PurgeDate, Purge!NoPurge, Purge!MayHaveOpen
<1>4. Purge!VectorIsSeen'
  BY DEF Purge!VectorIsSeen, Purge!OpenIsFresh, Purge!KeptIsRight, Purge!PurgeDate, Purge!NoPurge, Purge!MayHaveOpen
<1>5. Purge!KeptIsRight'
  BY DEF Purge!KeptIsRight, Purge!PurgedIsGone, Purge!Purged, Purge!Kept, Purge!PurgeDate, Purge!NoPurge, Purge!MayHaveOpen
<1>6. Purge!OpenIsFresh'
  BY DEF Purge!OpenIsFresh, Purge!VectorIsSeen, Purge!KeptIsRight, Purge!PurgeDate, Purge!NoPurge, Purge!MayHaveOpen
<1> QED
  BY <1>1, <1>2, <1>3, <1>4, <1>5, <1>6

\* It empties or removes the file.
LEMMA PurgeEmptyOrRemove == ASSUME Purge!IndInv, Purge!EmptyOrRemove PROVE Purge!IndInv'
<1> USE DEF Purge!IndInv, Purge!TypeOK, Purge!Age
<1>1. Purge!TypeOK'
  <2>1. x4' \in Seq(BOOLEAN) /\ x2' \in {"closed", "open", "away"}
    BY DEF Purge!EmptyOrRemove, Purge!NoPurge
  <2>2. x1' \in [lines : SUBSET DOMAIN x4', there : BOOLEAN, age : Purge!Age]
    BY DEF Purge!EmptyOrRemove, Purge!NoPurge
  <2>3. x3' \in [at : {"none", "read", "replace", "more", "truncate", "fill", "empty", "remove"}, age : Purge!Age, kept : SUBSET DOMAIN x4', seen : SUBSET DOMAIN x4']
    BY DEF Purge!EmptyOrRemove, Purge!NoPurge
  <2>4. x5' \in [app : SUBSET DOMAIN x4', date : SUBSET DOMAIN x4']
    BY DEF Purge!EmptyOrRemove, Purge!NoPurge
  <2>5. x6' \in [lines : SUBSET DOMAIN x4', reopened : BOOLEAN]
    BY DEF Purge!EmptyOrRemove, Purge!NoPurge
  <2> QED
    BY <2>1, <2>2, <2>3, <2>4, <2>5
<1>2. Purge!OthersSurvive'
  BY DEF Purge!OthersSurvive, Purge!KeptIsRight, Purge!Purged, Purge!Kept, Purge!EmptyOrRemove, Purge!NoPurge
<1>3. Purge!PurgedIsGone'
  BY DEF Purge!PurgedIsGone, Purge!KeptIsRight, Purge!Purged, Purge!EmptyOrRemove, Purge!NoPurge
<1>4. Purge!VectorIsSeen'
  BY DEF Purge!VectorIsSeen, Purge!OpenIsFresh, Purge!KeptIsRight, Purge!EmptyOrRemove, Purge!NoPurge
<1>5. Purge!KeptIsRight'
  BY DEF Purge!KeptIsRight, Purge!PurgedIsGone, Purge!Purged, Purge!Kept, Purge!EmptyOrRemove, Purge!NoPurge
<1>6. Purge!OpenIsFresh'
  BY DEF Purge!OpenIsFresh, Purge!VectorIsSeen, Purge!KeptIsRight, Purge!EmptyOrRemove, Purge!NoPurge
<1> QED
  BY <1>1, <1>2, <1>3, <1>4, <1>5, <1>6

\* Every step keeps the invariant.
LEMMA PurgeStep == ASSUME Purge!IndInv, Purge!Next PROVE Purge!IndInv'
BY PurgeVectorWrites, PurgeAges, PurgeVectorCloses, PurgePurgeApp, PurgeRead, PurgeReplace, PurgeReadMore, PurgeTruncate, PurgeFill,
   PurgeFails, PurgePurgeDate, PurgeEmptyOrRemove DEF Purge!Next

\* So does a step that leaves the variables of the part alone.
LEMMA PurgeStill == ASSUME Purge!IndInv, UNCHANGED <<x1, x2, x3, x4, x5, x6>> PROVE Purge!IndInv'
BY DEF Purge!IndInv, Purge!TypeOK, Purge!OthersSurvive, Purge!PurgedIsGone, Purge!NoPurge, Purge!VectorIsSeen, Purge!KeptIsRight, Purge!OpenIsFresh,
       Purge!Purged, Purge!Kept

================================================================================
