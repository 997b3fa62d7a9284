-------------------------- MODULE UnlockSessionsProofs --------------------------
(***************************************************************************)
(* Unlock sessions end when they should: proofs for any number of          *)
(* requests, sessions and passwords and any lengths of the timeouts.       *)
(***************************************************************************)
EXTENDS UnlockSessionsProps, TLAPS

\* What a token says of its session and of the password.
Sound(t) ==
    /\ t.origin <= t.refreshed /\ t.refreshed <= now
    /\ t.origin <= started[t.sid]
    /\ t.origin + MaxLife <= typedAt[hash] + Reauth /\ typedAt[hash] # 0
    /\ revoked[t.sid] # 0 => revoked[t.sid] = t.origin + MaxLife
    /\ t.sid \in dead => revoked[t.sid] # 0 \/ t.origin + MaxLife <= now

\* What holds of the store and of the times handlers carry.
StoreSound ==
    /\ \A h \in Hash : typedAt[h] <= now
    /\ doc.tag = hash /\ (enabled => doc.at <= typedAt[hash])
    /\ saved.at <= typedAt[saved.tag]
    /\ \A a \in Request : pc[a] \in {"stamped", "asserted"} => at[a] <= typedAt[hash]

\* IndInv, with its clauses on one token put together.
LEMMA Split ==
    IndInv <=> /\ TypeOK /\ StoreSound
               /\ \A t \in Issued : Sound(t)
               /\ \A t, u \in Issued : t.sid = u.sid => t.origin = u.origin
BY DEF IndInv, Sound, StoreSound

\* The tokens in flight are issued ones.
LEMMA InFlight ==
    /\ tokens \subseteq Issued
    /\ \A a \in Request : pc[a] \in {"typed", "stamped", "validated", "sliding", "revoking"}
                              => tok[a] \in Issued
    /\ \A t \in Issued : t \in tokens \/ \E a \in Request :
          /\ pc[a] \in {"typed", "stamped", "validated", "sliding", "revoking"} /\ t = tok[a]
BY DEF Issued

LEMMA IssuedType == TypeOK => Issued \subseteq Token
BY DEF Issued, TypeOK

\* The types of what a handler carries.
HandlerOK ==
    /\ pc \in [Request -> {"idle", "typed", "stamped", "asserted", "validated", "sliding", "revoking"}]
    /\ tok \in [Request -> Token \cup {NoToken}]
    /\ \A a \in Request : pc[a] \notin {"idle", "asserted"} => tok[a] \in Token
    /\ at \in [Request -> Time]

\* A handler that is done carries nothing.
LEMMA FinishType == ASSUME TypeOK, NEW a \in Request, Finish(a) PROVE HandlerOK'
<1>1. 0 \in Time
  BY SessionsAssumption DEF Time
<1> QED
  BY <1>1 DEF Finish, TypeOK, HandlerOK

\* A step that issues nothing keeps what is said of tokens, provided it touches
\* neither revocations, passwords nor session starts.
LEMMA QuietStep ==
    ASSUME IndInv, TypeOK', StoreSound', Issued' \subseteq Issued,
           UNCHANGED <<hash, revoked, started, dead>>,
           now' \in Nat, now' >= now, typedAt'[hash] \in Nat, typedAt'[hash] >= typedAt[hash]
    PROVE  IndInv'
<1> USE SessionsAssumption DEF Token, Time
<1>1. ASSUME NEW t \in Issued' PROVE Sound(t)'
  <2>1. t \in Token /\ Sound(t)
    BY <1>1, Split, IssuedType DEF IndInv
  <2>2. typedAt[hash] \in Nat /\ now \in Nat /\ started[t.sid] \in Nat
    BY <2>1 DEF IndInv, TypeOK
  <2> QED
    BY <2>1, <2>2 DEF Sound
<1>2. \A t, u \in Issued' : t.sid = u.sid => t.origin = u.origin
  BY Split
<1> HIDE DEF Token, Time
<1> QED
  BY <1>1, <1>2 DEF IndInv, Sound, StoreSound

\* Nobody is unlocked at first.
LEMMA InitInv == Init => IndInv
<1> SUFFICES ASSUME Init PROVE IndInv
  OBVIOUS
<1>1. Issued = {}
  BY DEF Init, Issued
<1>2. TypeOK
  BY SessionsAssumption DEF Init, TypeOK, Time, Document
<1> QED
  BY <1>1, <1>2 DEF Init, IndInv

\* The steps by which no token comes into being.
LEMMA QuietInv ==
    ASSUME IndInv, NEW a \in Request,
           \/ Stamp(a) \/ Record(a) \/ Asserted(a) \/ Refuse(a) \/ Reparse(a)
           \/ \E t \in tokens : Validate(a, t) \/ RevokeParse(a, t)
    PROVE  IndInv'
<1> USE SessionsAssumption DEF Finish, Idle, server, store, history
<1>1. TypeOK
  BY DEF IndInv
<1>2. now \in Nat /\ hash \in Hash /\ typedAt[hash] \in Nat /\ typedAt[hash] <= now
  BY <1>1 DEF TypeOK, Time, IndInv
<1>3. /\ UNCHANGED <<now, hash, revoked, started, dead>>
      /\ typedAt' = typedAt \/ typedAt' = [typedAt EXCEPT ![hash] = now]
  BY DEF Stamp, Record, Asserted, Refuse, Reparse, Validate, RevokeParse
<1>4. TypeOK'
  <2>1. CASE Stamp(a)
    BY <1>1, <2>1 DEF Stamp, TypeOK, Time
  <2>2. CASE Record(a)
    <3>1. tok[a] \in Token
      BY <1>1, <2>2 DEF Record, TypeOK
    <3>2. doc' \in Document /\ saved' \in Document
      BY <1>1, <2>2 DEF Record, TypeOK, Document
    <3>3. HandlerOK'
      BY <1>1, <2>2, FinishType DEF Record
    <3> QED
      BY <1>1, <2>2, <3>1, <3>2, <3>3 DEF Record, TypeOK, HandlerOK
  <2>3. CASE Asserted(a)
    BY <1>1, <2>3 DEF Asserted, TypeOK, Document
  <2>4. CASE Refuse(a)
    <3>1. HandlerOK'
      BY <1>1, <2>4, FinishType DEF Refuse
    <3> QED
      BY <1>1, <2>4, <3>1 DEF Refuse, TypeOK, HandlerOK
  <2>5. CASE Reparse(a)
    <3>1. HandlerOK'
      <4>1. CASE Finish(a)
        BY <1>1, <4>1, FinishType
      <4>2. CASE ~Finish(a)
        BY <1>1, <2>5, <4>2 DEF Reparse, TypeOK, HandlerOK
      <4> QED
        BY <4>1, <4>2
    <3> QED
      BY <1>1, <2>5, <3>1 DEF Reparse, TypeOK, HandlerOK
  <2>6. ASSUME NEW t \in tokens, Validate(a, t) \/ RevokeParse(a, t) PROVE TypeOK'
    BY <1>1, <2>6 DEF Validate, RevokeParse, TypeOK
  <2> QED
    BY <2>1, <2>2, <2>3, <2>4, <2>5, <2>6
<1>5. StoreSound'
  <2>0. StoreSound /\ doc.at \in Nat /\ at[a] \in Nat
    BY <1>1, Split DEF TypeOK, Document, Time
  <2>1. CASE Stamp(a)
    <3>1. typedAt' = [typedAt EXCEPT ![hash] = now] /\ at' = [at EXCEPT ![a] = now]
          /\ pc' = [pc EXCEPT ![a] = "stamped"] /\ UNCHANGED <<now, hash, doc, saved, enabled>>
      BY <2>1 DEF Stamp
    <3>2. \A h \in Hash : typedAt'[h] \in Nat /\ typedAt[h] <= typedAt'[h] /\ typedAt'[h] <= now
      BY <1>1, <1>2, <2>0, <3>1 DEF TypeOK, StoreSound, Time
    <3>3. doc.at <= typedAt[hash] => doc.at <= typedAt'[hash]
      BY <1>1, <1>2, <2>0, <3>2 DEF TypeOK
    <3>4. saved.at <= typedAt'[saved.tag]
      BY <1>1, <2>0, <3>2 DEF TypeOK, StoreSound, Document, Time
    <3>5. \A b \in Request : pc'[b] \in {"stamped", "asserted"} => at'[b] <= typedAt'[hash]
      BY <1>1, <1>2, <2>0, <3>1, <3>2 DEF TypeOK, StoreSound, Time
    <3> QED
      BY <2>0, <3>1, <3>2, <3>3, <3>4, <3>5 DEF StoreSound
  <2>2. CASE Record(a)
    <3>1. at[a] <= typedAt[hash] /\ UNCHANGED <<now, hash, typedAt, enabled>>
      BY <2>0, <2>2 DEF Record, StoreSound
    <3>2. /\ doc'.tag = hash /\ (enabled => doc'.at <= typedAt[hash])
          /\ saved'.at <= typedAt[saved'.tag]
      BY <1>1, <2>0, <2>2, <3>1 DEF Record, StoreSound, TypeOK, Document
    <3> QED
      BY <1>1, <2>0, <2>2, <3>1, <3>2 DEF Record, StoreSound, TypeOK
  <2>3. CASE Asserted(a)
    BY <1>1, <2>0, <2>3 DEF Asserted, StoreSound, TypeOK
  <2>4. CASE Refuse(a) \/ Reparse(a) \/ \E t \in tokens : Validate(a, t) \/ RevokeParse(a, t)
    BY <1>1, <2>0, <2>4 DEF Refuse, Reparse, Validate, RevokeParse, StoreSound, TypeOK
  <2> QED
    BY <2>1, <2>2, <2>3, <2>4
<1>6. Issued' \subseteq Issued
  <2>1. CASE Stamp(a)
    BY <1>1, <2>1 DEF Stamp, TypeOK, Issued
  <2>2. CASE Record(a)
    BY <1>1, <2>2 DEF Record, TypeOK, Issued
  <2>3. CASE Asserted(a) \/ Refuse(a) \/ Reparse(a)
    BY <1>1, <2>3 DEF Asserted, Refuse, Reparse, TypeOK, Issued
  <2>4. ASSUME NEW t \in tokens, Validate(a, t) \/ RevokeParse(a, t)
        PROVE  Issued' \subseteq Issued
    BY <1>1, <2>4 DEF Validate, RevokeParse, TypeOK, Issued
  <2> QED
    BY <2>1, <2>2, <2>3, <2>4
<1> QED
  BY <1>1, <1>2, <1>3, <1>4, <1>5, <1>6, QuietStep DEF TypeOK

\* Time only makes tokens older.
LEMMA TickInv == IndInv /\ Tick => IndInv'
<1> SUFFICES ASSUME IndInv, Tick PROVE IndInv'
  OBVIOUS
<1> USE SessionsAssumption DEF Tick, server, store, history
<1>1. TypeOK /\ StoreSound /\ now \in Nat /\ hash \in Hash /\ typedAt[hash] \in Nat
  BY Split DEF TypeOK, Time
<1>2. TypeOK'
  BY <1>1 DEF TypeOK, Time
<1>3. StoreSound'
  BY <1>1 DEF StoreSound, TypeOK, Time
<1>4. Issued' = Issued
  BY DEF Issued
<1> QED
  BY <1>1, <1>2, <1>3, <1>4, QuietStep

\* A restart leaves no token, and a store that speaks of the new password.
LEMMA RestartInv == ASSUME IndInv, NEW h \in Hash, Restart(h) PROVE IndInv'
<1> USE SessionsAssumption
<1>1. TypeOK /\ StoreSound
  BY Split
<1>2. Issued' = {}
  BY DEF Issued, Restart
<1>3. /\ doc' \in Document /\ saved' \in Document /\ enabled' \in BOOLEAN
      /\ doc'.tag = h /\ (enabled' => doc'.at <= typedAt[h]) /\ saved'.at <= typedAt[saved'.tag]
  <2>0. saved \in Document /\ 0 \in Time /\ saved.at <= typedAt[saved.tag] /\ typedAt[h] \in Time
    BY <1>1 DEF TypeOK, StoreSound, Time
  <2>1. CASE saved.tag = h
    BY <2>0, <2>1 DEF Restart, Open
  <2>2. CASE saved.tag # h
    <3>1. doc' = [tag |-> h, at |-> 0] /\ (saved' = doc' \/ saved' = saved) /\ enabled' \in BOOLEAN
      BY <2>2 DEF Restart, Open
    <3>2. doc' \in Document /\ doc'.tag = h /\ doc'.at = 0 /\ 0 <= typedAt[h]
      BY <2>0, <3>1 DEF Document, Time
    <3> QED
      BY <2>0, <3>1, <3>2
  <2> QED
    BY <2>1, <2>2
<1>4. TypeOK'
  BY <1>1, <1>3 DEF Restart, TypeOK, Time
<1>5. StoreSound'
  BY <1>1, <1>3 DEF Restart, StoreSound
<1> QED
  BY <1>2, <1>4, <1>5, Split DEF IndInv, StoreSound

\* Revocation.
LEMMA RevokeInv == ASSUME IndInv, NEW a \in Request, Revoke(a) PROVE IndInv'
<1> USE SessionsAssumption DEF Revoke, Finish, store
<1>1. TypeOK /\ StoreSound /\ now \in Nat
  BY Split DEF TypeOK, Time
<1>2. tok[a] \in Token /\ tok[a] \in Issued /\ tok[a].sid \in Sid /\ tok[a].origin \in Nat
  BY <1>1, InFlight DEF TypeOK, Token, Time
<1>3. Issued' \subseteq Issued
  BY <1>1 DEF Issued, TypeOK
<1>4. TypeOK'
  <2>1. HandlerOK'
    BY <1>1, FinishType
  <2>2. revoked' \in [Sid -> Nat] /\ dead' \subseteq Sid
    BY <1>1, <1>2 DEF TypeOK
  <2> QED
    BY <1>1, <2>1, <2>2 DEF TypeOK, HandlerOK
<1>5. StoreSound'
  BY <1>1 DEF StoreSound, TypeOK
<1>6. ASSUME NEW t \in Issued' PROVE Sound(t)'
  <2>1. t \in Issued /\ t \in Token /\ Sound(t)
    BY <1>1, <1>3, <1>6, Split, IssuedType
  <2>2. t.sid \in Sid /\ t.origin \in Nat
    BY <2>1 DEF Token, Time
  <2>3. CASE t.sid = tok[a].sid
    <3>1. t.origin = tok[a].origin
      BY <1>2, <2>1, <2>3, Split
    <3>2. revoked'[t.sid] = t.origin + MaxLife /\ revoked'[t.sid] # 0
      BY <2>2, <2>3, <3>1
    <3> QED
      BY <2>1, <3>2 DEF Sound
  <2>4. CASE t.sid # tok[a].sid
    <3>1. /\ t.sid \in dead' <=> t.sid \in dead
          /\ revoked'[t.sid] = IF revoked[t.sid] <= now THEN 0 ELSE revoked[t.sid]
      BY <2>2, <2>4
    <3> QED
      BY <1>1, <2>1, <2>2, <3>1 DEF Sound
  <2> QED
    BY <2>3, <2>4
<1>7. \A t, u \in Issued' : t.sid = u.sid => t.origin = u.origin
  BY <1>3, Split
<1> QED
  BY <1>4, <1>5, <1>6, <1>7 DEF IndInv, Sound, StoreSound

\* One more token of a session that is running.
LEMMA SlideInv == ASSUME IndInv, NEW a \in Request, Slide(a) PROVE IndInv'
<1> USE SessionsAssumption DEF Slide, Finish, store
<1>1. TypeOK /\ StoreSound /\ now \in Nat /\ now \in Time
  BY Split DEF TypeOK, Time
<1>2. tok[a] \in Token /\ tok[a] \in Issued /\ tok[a].sid \in Sid
  BY <1>1, InFlight DEF TypeOK, Token
<1> DEFINE slid == [tok[a] EXCEPT !.refreshed = now]
<1>3. slid \in Token /\ slid.sid = tok[a].sid /\ slid.origin = tok[a].origin /\ slid.refreshed = now
  BY <1>1, <1>2 DEF Token, TypeOK
<1>4. \A t \in Issued' : t \in Issued \/ t = slid
  BY <1>1, <1>2 DEF Issued, TypeOK
<1>5. TypeOK'
  <2>1. tokens' \subseteq Token
    BY <1>1, <1>3 DEF TypeOK
  <2>2. used' \in [Sid -> Time]
    BY <1>1, <1>2 DEF TypeOK
  <2>3. HandlerOK'
    BY <1>1, FinishType
  <2> QED
    BY <1>1, <2>1, <2>2, <2>3 DEF TypeOK, HandlerOK
<1>6. StoreSound'
  BY <1>1 DEF StoreSound, TypeOK
<1>7. Sound(slid)
  <2>1. Sound(tok[a])
    BY <1>2, Split
  <2>2. tok[a].origin <= now
    <3>1. tok[a].origin \in Nat /\ tok[a].refreshed \in Nat
      BY <1>2 DEF Token, Time
    <3> QED
      BY <1>1, <2>1, <3>1 DEF Sound
  <2> HIDE DEF slid
  <2> QED
    BY <1>1, <1>3, <2>1, <2>2 DEF Sound
<1> HIDE DEF slid
<1>8. ASSUME NEW t \in Issued' PROVE Sound(t)'
  <2>1. Sound(t)
    BY <1>4, <1>7, <1>8, Split
  <2> QED
    BY <2>1 DEF Sound
<1>9. \A t, u \in Issued' : t.sid = u.sid => t.origin = u.origin
  BY <1>2, <1>3, <1>4, Split
<1> QED
  BY <1>5, <1>6, <1>8, <1>9 DEF IndInv, Sound, StoreSound

\* The first token of a new session.
LEMMA NewSession ==
    ASSUME IndInv, NEW s \in Sid, FreshSid(s), NEW t \in Token, t.sid = s,
           \A u \in Issued' : u \in Issued \/ u = t,
           TypeOK', StoreSound', UNCHANGED <<now, hash, revoked, dead>>,
           started' = [started EXCEPT ![s] = now],
           typedAt'[hash] \in Nat, typedAt'[hash] >= typedAt[hash], typedAt'[hash] # 0,
           t.origin <= now, t.refreshed = now, t.origin + MaxLife <= typedAt'[hash] + Reauth
    PROVE  IndInv'
<1> USE SessionsAssumption DEF Time
<1>0. TypeOK /\ now \in Nat
  BY DEF IndInv, TypeOK
<1>1. \A u \in Issued : u.sid # s
  BY DEF FreshSid, Issued
<1>2. Sound(t)'
  BY <1>0 DEF Sound, FreshSid, TypeOK
<1>3. ASSUME NEW u \in Issued PROVE Sound(u)'
  <2>1. Sound(u) /\ u \in Token /\ u.sid # s
    BY <1>0, <1>1, Split, IssuedType
  <2>2. started'[u.sid] = started[u.sid]
    BY <1>0, <2>1 DEF TypeOK, Token
  <2>3. u.origin \in Nat /\ typedAt[hash] \in Nat
    BY <1>0, <2>1 DEF TypeOK, Token
  <2> QED
    BY <2>1, <2>2, <2>3 DEF Sound
<1>4. \A u, v \in Issued' : u.sid = v.sid => u.origin = v.origin
  BY <1>1, Split
<1> QED
  BY <1>2, <1>3, <1>4 DEF IndInv, Sound, StoreSound

\* A typed password.
LEMMA TypeInv == ASSUME IndInv, NEW a \in Request, NEW s \in Sid, Type(a, s) PROVE IndInv'
<1> USE SessionsAssumption DEF Type, Idle, server, store
<1>1. /\ TypeOK /\ StoreSound /\ now \in Nat /\ now \in Time /\ hash \in Hash /\ now # 0 /\ 0 \in Time
      /\ typedAt[hash] \in Nat /\ typedAt[hash] <= now
  BY Split DEF TypeOK, Time, StoreSound
<1> DEFINE t == [sid |-> s, origin |-> now, refreshed |-> now]
<1>2. t \in Token /\ t.sid = s /\ t.origin = now /\ t.refreshed = now
  BY <1>1 DEF Token
<1>3. \A u \in Issued' : u \in Issued \/ u = t
  BY <1>1 DEF Issued, TypeOK
<1>4. TypeOK'
  <2>1. /\ pc' = [pc EXCEPT ![a] = "typed"] /\ tok' = [tok EXCEPT ![a] = t]
        /\ typedAt' = [typedAt EXCEPT ![hash] = now] /\ started' = [started EXCEPT ![s] = now]
        /\ used' = [used EXCEPT ![s] = 0]
        /\ UNCHANGED <<now, hash, tokens, revoked, enabled, doc, saved, at, dead>>
    OBVIOUS
  <2> HIDE DEF t, Type
  <2> QED
    BY <1>1, <1>2, <2>1 DEF TypeOK
<1>5. \A h \in Hash : typedAt'[h] \in Nat /\ typedAt[h] <= typedAt'[h] /\ typedAt'[h] <= now
  BY <1>1 DEF TypeOK, StoreSound, Time
<1>6. StoreSound'
  <2>1. doc.at \in Nat /\ saved.tag \in Hash /\ saved.at \in Nat /\ typedAt[saved.tag] \in Nat
    BY <1>1 DEF TypeOK, Document, Time
  <2>2. saved.at <= typedAt'[saved.tag] /\ (enabled => doc.at <= typedAt'[hash])
    BY <1>1, <1>5, <2>1 DEF StoreSound
  <2>3. \A b \in Request : pc'[b] \in {"stamped", "asserted"} => at[b] <= typedAt'[hash]
    BY <1>1, <1>5 DEF StoreSound, TypeOK, Time
  <2> QED
    BY <1>1, <1>5, <2>2, <2>3 DEF StoreSound
<1>7. typedAt'[hash] = now /\ now # 0
  <2>1. typedAt'[hash] = now
    BY <1>1 DEF TypeOK
  <2> QED
    BY <1>1, <2>1
<1>8. FreshSid(s) /\ started' = [started EXCEPT ![s] = now] /\ UNCHANGED <<now, hash, revoked, dead>>
  OBVIOUS
<1>9. typedAt'[hash] \in Nat /\ typedAt'[hash] >= typedAt[hash] /\ t.origin <= now
      /\ t.origin + MaxLife <= typedAt'[hash] + Reauth
  BY <1>1, <1>2, <1>5, <1>7
<1> HIDE DEF t, Type
<1> QED
  BY <1>2, <1>3, <1>4, <1>6, <1>7, <1>8, <1>9, NewSession

\* An unlock without the password.
LEMMA IssueInv == ASSUME IndInv, NEW a \in Request, NEW s \in Sid, IssueFrom(a, s) PROVE IndInv'
<1> USE SessionsAssumption DEF IssueFrom, store
<1>1. /\ TypeOK /\ StoreSound /\ now \in Nat /\ now \in Time /\ 0 \in Time /\ hash \in Hash
      /\ typedAt[hash] \in Nat /\ at[a] \in Nat /\ at[a] <= typedAt[hash]
      /\ at[a] # 0 /\ at[a] <= now /\ now < at[a] + Reauth
  BY Split DEF TypeOK, Time, StoreSound, Recent
<1>2. /\ Origin(at[a]) \in Nat /\ Origin(at[a]) <= now
      /\ Origin(at[a]) + MaxLife <= at[a] + Reauth
  BY <1>1 DEF Origin
<1> DEFINE t == [sid |-> s, origin |-> Origin(at[a]), refreshed |-> now]
<1>3. t \in Token /\ t.sid = s /\ t.origin = Origin(at[a]) /\ t.refreshed = now
  BY <1>1, <1>2 DEF Token, Time, TypeOK
<1>4. /\ tokens' = tokens \cup {t} /\ FreshSid(s)
      /\ started' = [started EXCEPT ![s] = now] /\ used' = [used EXCEPT ![s] = 0]
      /\ UNCHANGED <<now, hash, revoked, enabled, doc, saved, typedAt, dead>> /\ Finish(a)
  OBVIOUS
<1> HIDE DEF t, IssueFrom
<1>5. \A u \in Issued' : u \in Issued \/ u = t
  BY <1>1, <1>4 DEF Issued, TypeOK, Finish
<1>6. TypeOK'
  <2>1. HandlerOK'
    BY <1>1, <1>4, FinishType
  <2> QED
    BY <1>1, <1>3, <1>4, <2>1 DEF TypeOK, HandlerOK
<1>7. StoreSound'
  BY <1>1, <1>4 DEF StoreSound, TypeOK, Finish
<1>8. t.origin <= now /\ t.origin + MaxLife <= typedAt'[hash] + Reauth
      /\ typedAt'[hash] \in Nat /\ typedAt'[hash] >= typedAt[hash] /\ typedAt'[hash] # 0
  BY <1>1, <1>2, <1>3, <1>4
<1> QED
  BY <1>3, <1>4, <1>5, <1>6, <1>7, <1>8, NewSession

\* Every step preserves the invariant.
LEMMA NextInv == IndInv /\ [Next]_vars => IndInv'
<1>1. ASSUME IndInv, UNCHANGED vars PROVE IndInv'
  BY <1>1 DEF vars, server, store, history, IndInv, TypeOK, Issued
<1> QED
  BY <1>1, TickInv, RestartInv, QuietInv, SlideInv, RevokeInv, TypeInv, IssueInv DEF Next

\* IndInv holds for any number of sessions and any timeouts.
THEOREM IndInvHolds == Spec => []IndInv
BY InitInv, NextInv, PTL DEF Spec

\* A revoked session opens nothing, for as long as its tokens could have.
THEOREM RevokedIsDeadAlways == Spec => []RevokedIsDead
<1>1. IndInv => RevokedIsDead
  <2> SUFFICES ASSUME IndInv, NEW t \in tokens, t.sid \in dead PROVE ~Unlocked(t)
    BY DEF RevokedIsDead
  <2>1. Sound(t) /\ t \in Token /\ now \in Nat
    BY Split, InFlight, IssuedType DEF TypeOK
  <2>2. t.origin + MaxLife \in Nat
    BY <2>1, SessionsAssumption DEF Token, Time
  <2> QED
    BY <2>1, <2>2 DEF Sound, Unlocked, Parses
<1> QED
  BY IndInvHolds, <1>1, PTL

\* Whatever is unlocked, the password in force was typed recently enough.
THEOREM PasswordIsRecentAlways == Spec => []PasswordIsRecent
<1>1. IndInv => PasswordIsRecent
  <2> SUFFICES ASSUME IndInv, NEW t \in tokens, Unlocked(t)
               PROVE  typedAt[hash] # 0 /\ now < typedAt[hash] + Reauth
    BY DEF PasswordIsRecent
  <2>1. /\ Sound(t) /\ t \in Token /\ now \in Nat /\ typedAt[hash] \in Nat
        /\ now < t.origin + MaxLife
    BY Split, InFlight, IssuedType DEF TypeOK, Unlocked, Time
  <2>2. t.origin \in Nat
    BY <2>1 DEF Token, Time
  <2> QED
    BY <2>1, <2>2, SessionsAssumption DEF Sound
<1> QED
  BY IndInvHolds, <1>1, PTL

\* No session outlasts maxSessionLifetime.
THEOREM SessionCappedAlways == Spec => []SessionCapped
<1>1. IndInv => SessionCapped
  <2> SUFFICES ASSUME IndInv, NEW t \in tokens, Unlocked(t)
               PROVE  now < started[t.sid] + MaxLife
    BY DEF SessionCapped
  <2>1. Sound(t) /\ t \in Token /\ now \in Nat /\ now < t.origin + MaxLife /\ TypeOK
    BY Split, InFlight, IssuedType DEF TypeOK, Unlocked
  <2>2. t.origin \in Nat /\ started[t.sid] \in Nat
    BY <2>1 DEF Token, Time, TypeOK
  <2> QED
    BY <2>1, <2>2, SessionsAssumption DEF Sound
<1> QED
  BY IndInvHolds, <1>1, PTL
-----------------------------------------------------------------------------
\* A token is no newer than its session's beginning or last use.
UsedSince(t) == t.refreshed <= started[t.sid] \/ t.refreshed <= used[t.sid]

\* A session in use has a token that was issued by that use, or was young then.
HasYoung(s) == \E u \in tokens : u.sid = s /\ used[s] < u.refreshed + Refresh

\* What ties the use of a session to the tokens it is used with.
UseInv ==
    /\ \A t \in Issued : UsedSince(t)
    /\ \A a \in Request : pc[a] \in {"validated", "sliding", "revoking"} => tok[a] \in tokens
    /\ \A s \in Sid : used[s] # 0 => HasYoung(s)

LEMMA UseInit == Init => UseInv
BY DEF Init, UseInv, Issued

\* A step that begins no session and slides none, and takes no token away.
LEMMA UseQuiet ==
    ASSUME UseInv, Issued' \subseteq Issued, tokens \subseteq tokens', UNCHANGED <<started, used>>,
           \A a \in Request : pc'[a] \in {"validated", "sliding", "revoking"} => tok'[a] \in tokens'
    PROVE  UseInv'
<1>1. \A t \in Issued' : UsedSince(t)'
  BY DEF UseInv, UsedSince
<1>2. \A s \in Sid : used'[s] # 0 => HasYoung(s)'
  BY DEF UseInv, HasYoung
<1> QED
  BY <1>1, <1>2 DEF UseInv

\* A step that begins a session.
LEMMA UseNew ==
    ASSUME IndInv, UseInv, NEW s \in Sid, NEW a \in Request, Type(a, s) \/ IssueFrom(a, s)
    PROVE  UseInv'
<1> USE DEF Idle, Finish, server, store
<1>1. TypeOK /\ now \in Nat
  BY DEF IndInv, TypeOK, Time
<1>2. /\ FreshSid(s) /\ started' = [started EXCEPT ![s] = now] /\ used' = [used EXCEPT ![s] = 0]
      /\ tokens \subseteq tokens'
  BY DEF Type, IssueFrom
<1>3. ASSUME NEW t \in Issued' PROVE UsedSince(t)'
  <2>1. t \in Issued \/ (t.sid = s /\ t.refreshed = now)
    BY <1>1, <1>3 DEF Type, IssueFrom, Issued, TypeOK
  <2>2. CASE t.sid = s /\ t.refreshed = now
    BY <1>1, <1>2, <2>2 DEF UsedSince, TypeOK
  <2>3. CASE t \in Issued
    <3>1. t.sid # s /\ t.sid \in Sid /\ UsedSince(t)
      BY <1>1, <1>2, <2>3, IssuedType DEF FreshSid, Issued, UseInv, Token
    <3> QED
      BY <1>1, <1>2, <3>1 DEF UsedSince, TypeOK
  <2> QED
    BY <2>1, <2>2, <2>3
<1>4. \A b \in Request : pc'[b] \in {"validated", "sliding", "revoking"} => tok'[b] \in tokens'
  BY <1>1, <1>2 DEF UseInv, Type, IssueFrom, TypeOK
<1>5. ASSUME NEW r \in Sid, used'[r] # 0 PROVE HasYoung(r)'
  <2>1. r # s /\ used'[r] = used[r]
    BY <1>1, <1>2, <1>5 DEF TypeOK
  <2> QED
    BY <1>2, <1>5, <2>1 DEF UseInv, HasYoung
<1> QED
  BY <1>3, <1>4, <1>5 DEF UseInv

\* A use.
LEMMA UseSlide == ASSUME IndInv, UseInv, NEW a \in Request, Slide(a) PROVE UseInv'
<1> USE SessionsAssumption DEF Finish, store
<1>1. TypeOK /\ now \in Nat
  BY DEF IndInv, TypeOK, Time
<1>2. tok[a] \in Token /\ tok[a] \in tokens /\ tok[a].sid \in Sid
  BY <1>1 DEF Slide, UseInv, TypeOK, Token
<1> DEFINE slid == [tok[a] EXCEPT !.refreshed = now]
<1>3. slid.sid = tok[a].sid /\ slid.refreshed = now
  BY <1>2 DEF Token
<1>4. /\ tokens \subseteq tokens' /\ used' = [used EXCEPT ![tok[a].sid] = now] /\ UNCHANGED <<now, started>>
      /\ \/ tokens' = tokens /\ now < tok[a].refreshed + Refresh
         \/ tokens' = tokens \cup {slid}
      /\ pc' = [pc EXCEPT ![a] = "idle"] /\ tok' = [tok EXCEPT ![a] = NoToken]
  BY DEF Slide
<1> HIDE DEF slid
<1>5. ASSUME NEW t \in Issued' PROVE UsedSince(t)'
  <2>1. t \in Issued \/ t = slid
    BY <1>1, <1>4, <1>5 DEF Issued, TypeOK
  <2>2. CASE t = slid
    BY <1>1, <1>2, <1>3, <1>4, <2>2 DEF UsedSince, TypeOK
  <2>3. CASE t \in Issued
    <3>1. UsedSince(t) /\ t.refreshed <= now /\ t.sid \in Sid
      BY <1>1, <2>3, IssuedType, Split DEF UseInv, Sound, Token
    <3> QED
      BY <1>1, <1>2, <1>4, <3>1 DEF UsedSince, TypeOK
  <2> QED
    BY <2>1, <2>2, <2>3
<1>6. \A b \in Request : pc'[b] \in {"validated", "sliding", "revoking"} => tok'[b] \in tokens'
  BY <1>1, <1>4 DEF UseInv, TypeOK
<1>7. ASSUME NEW s \in Sid, used'[s] # 0 PROVE HasYoung(s)'
  <2>1. CASE s # tok[a].sid
    <3>1. used'[s] = used[s]
      BY <1>1, <1>4, <2>1 DEF TypeOK
    <3> QED
      BY <1>4, <1>7, <3>1 DEF UseInv, HasYoung
  <2>2. CASE s = tok[a].sid
    <3>1. used'[s] = now
      BY <1>1, <1>4, <2>2 DEF TypeOK
    <3>2. CASE now < tok[a].refreshed + Refresh
      BY <1>2, <1>4, <2>2, <3>1, <3>2 DEF HasYoung
    <3>3. CASE tokens' = tokens \cup {slid}
      <4>1. now < slid.refreshed + Refresh
        BY <1>1, <1>3
      <4> QED
        BY <1>3, <2>2, <3>1, <3>3, <4>1 DEF HasYoung
    <3> QED
      BY <1>4, <3>2, <3>3
  <2> QED
    BY <2>1, <2>2
<1> QED
  BY <1>5, <1>6, <1>7 DEF UseInv

\* Every step keeps it.
LEMMA UseNext == IndInv /\ UseInv /\ [Next]_vars => UseInv'
<1> SUFFICES ASSUME IndInv, UseInv, [Next]_vars PROVE UseInv'
  OBVIOUS
<1> USE DEF server, store, history
<1>0. TypeOK
  BY DEF IndInv
<1>1. CASE Tick \/ UNCHANGED vars
  <2>1. UNCHANGED <<tokens, tok, pc, started, used>>
    BY <1>1 DEF Tick, vars
  <2>2. Issued' = Issued
    BY <2>1 DEF Issued
  <2> QED
    BY <2>1, <2>2, UseQuiet DEF UseInv
<1>2. ASSUME NEW h \in Hash, Restart(h) PROVE UseInv'
  BY <1>2 DEF Restart, UseInv, Issued
<1>3. ASSUME NEW a \in Request,
             \/ Stamp(a) \/ Record(a) \/ Asserted(a) \/ Refuse(a) \/ Reparse(a) \/ Revoke(a)
             \/ \E t \in tokens : Validate(a, t) \/ RevokeParse(a, t)
      PROVE  UseInv'
  <2> USE DEF Finish, Idle
  <2>1. tokens \subseteq tokens' /\ UNCHANGED <<started, used>>
    BY <1>3 DEF Stamp, Record, Asserted, Refuse, Reparse, Revoke, Validate, RevokeParse
  <2>2. CASE Stamp(a) \/ Record(a) \/ Asserted(a)
    <3>1. Issued' \subseteq Issued
      BY <1>0, <2>2 DEF Stamp, Record, Asserted, TypeOK, Issued
    <3>2. \A b \in Request : pc'[b] \in {"validated", "sliding", "revoking"} => tok'[b] \in tokens'
      BY <1>0, <2>1, <2>2 DEF Stamp, Record, Asserted, TypeOK, UseInv
    <3> QED
      BY <2>1, <3>1, <3>2, UseQuiet
  <2>3. CASE Refuse(a) \/ Reparse(a) \/ Revoke(a)
    <3>1. Issued' \subseteq Issued
      BY <1>0, <2>3 DEF Refuse, Reparse, Revoke, TypeOK, Issued
    <3>2. \A b \in Request : pc'[b] \in {"validated", "sliding", "revoking"} => tok'[b] \in tokens'
      BY <1>0, <2>1, <2>3 DEF Refuse, Reparse, Revoke, TypeOK, UseInv
    <3> QED
      BY <2>1, <3>1, <3>2, UseQuiet
  <2>4. ASSUME NEW t \in tokens, Validate(a, t) \/ RevokeParse(a, t) PROVE UseInv'
    <3>1. Issued' \subseteq Issued
      BY <1>0, <2>4 DEF Validate, RevokeParse, TypeOK, Issued
    <3>2. \A b \in Request : pc'[b] \in {"validated", "sliding", "revoking"} => tok'[b] \in tokens'
      BY <1>0, <2>1, <2>4 DEF Validate, RevokeParse, TypeOK, UseInv
    <3> QED
      BY <2>1, <3>1, <3>2, UseQuiet
  <2> QED
    BY <1>3, <2>2, <2>3, <2>4
<1> QED
  BY <1>1, <1>2, <1>3, UseNew, UseSlide DEF Next

LEMMA UseHolds == Spec => [](IndInv /\ UseInv)
BY InitInv, NextInv, UseInit, UseNext, PTL DEF Spec

\* A session no request has used for sessionTTL is over, whatever the timeouts.
THEOREM IdleIsOverAlways == Spec => []IdleIsOver
<1>1. IndInv /\ UseInv => IdleIsOver
  <2> SUFFICES ASSUME IndInv, UseInv, NEW t \in tokens, Unlocked(t)
               PROVE  now < started[t.sid] + TTL \/ now < used[t.sid] + TTL
    BY DEF IdleIsOver
  <2>1. /\ UsedSince(t) /\ t \in Token /\ TypeOK /\ now \in Nat
        /\ now < t.refreshed + TTL
    BY InFlight, IssuedType DEF IndInv, UseInv, TypeOK, Unlocked
  <2>2. t.refreshed \in Nat /\ started[t.sid] \in Nat /\ used[t.sid] \in Nat
    BY <2>1 DEF Token, Time, TypeOK
  <2> QED
    BY <2>1, <2>2, SessionsAssumption DEF UsedSince
<1> QED
  BY UseHolds, <1>1, PTL

\* A session in use stays unlocked until its cap, whatever the timeouts.
THEOREM ActiveStaysUnlockedAlways == Spec => []ActiveStaysUnlocked
<1>1. IndInv /\ UseInv => ActiveStaysUnlocked
  <2> SUFFICES ASSUME IndInv, UseInv, NEW t \in tokens,
                      used[t.sid] # 0, now + Refresh <= used[t.sid] + TTL,
                      now < t.origin + MaxLife, revoked[t.sid] = 0
               PROVE  Live(t.sid)
    BY DEF ActiveStaysUnlocked
  <2>1. TypeOK /\ t \in Issued /\ t \in Token /\ t.sid \in Sid
    BY InFlight, IssuedType DEF IndInv, Token
  <2>2. PICK u \in tokens : u.sid = t.sid /\ used[t.sid] < u.refreshed + Refresh
    BY <2>1 DEF UseInv, HasYoung
  <2>3. u \in Issued /\ u \in Token /\ Sound(u) /\ u.origin = t.origin
    BY <2>1, <2>2, InFlight, IssuedType, Split
  <2>4. /\ now \in Nat /\ used[t.sid] \in Nat
        /\ u.refreshed \in Nat /\ u.origin \in Nat
    BY <2>1, <2>3 DEF TypeOK, Token, Time
  <2>5. now < u.refreshed + TTL
    BY <2>2, <2>4, SessionsAssumption
  <2>6. u.origin <= now /\ u.refreshed <= now /\ u.origin <= u.refreshed /\ revoked[u.sid] = 0
    BY <2>2, <2>3, <2>4 DEF Sound
  <2> QED
    BY <2>2, <2>3, <2>5, <2>6 DEF Live, Unlocked, Parses
<1> QED
  BY UseHolds, <1>1, PTL
=============================================================================
