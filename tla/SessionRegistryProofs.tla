------------------------ MODULE SessionRegistryProofs ------------------------
(***************************************************************************)
(* Proofs about SessionRegistry, for every number of names, sessions,      *)
(* connections and requests and every idle timeout.                        *)
(***************************************************************************)
EXTENDS SessionRegistryProps, TLAPS

\* Every variable of SessionRegistry keeps its type (TypeOK is inductive).
LEMMA TypeInit == Init => TypeOK
BY ConstAssumption DEF Init, TypeOK, Shapes, PcOK, Assigned, Goroutine

\* A goroutine that goes to one of its labels, with its own variables assigned
\* and nobody else's touched, keeps every local variable typed.
LEMMA OneMoves ==
  ASSUME TypeOK, Shapes', NEW g \in Goroutine, NEW l,
         pc' = [pc EXCEPT ![g] = l],
         g \in Client => l \in {"idle", "spawn", "insert", "attach", "relay", "close", "kill"},
         g \in Admin => l \in {"idle", "pinLookup", "pinSet", "close", "kill"},
         g \in Session => l \in {"none", "read", "close", "kill"},
         g = Reaper => l \in {"idle", "reap", "close", "kill"},
         \A h \in Goroutine : h # g => held'[h] = held[h],
         \A d \in Client : d # g => existing'[d] = existing[d],
         \A h \in Client \cup Admin : h # g => arg'[h] = arg[h],
         l \in {"insert", "attach", "relay", "pinSet", "close", "kill", "read"} => held'[g] \in Session,
         g \in Client /\ l \in {"close", "kill"} => existing'[g] \in Session,
         g \in Client \cup Admin /\ l \in {"spawn", "insert", "pinLookup"} => arg'[g] \in Name
  PROVE  TypeOK'
<1>1. pc'[g] = l /\ \A h \in Goroutine : h # g => pc'[h] = pc[h]
  BY DEF TypeOK, PcOK
<1>2. PcOK'
  <2>1. pc' \in [Goroutine -> {"none", "idle", "spawn", "insert", "attach", "relay",
                               "pinLookup", "pinSet", "reap", "read", "close", "kill"}]
    BY DEF TypeOK, PcOK, Goroutine
  <2> QED
    BY <1>1, <2>1 DEF TypeOK, PcOK, Goroutine
<1>3. Assigned'
  BY <1>1 DEF TypeOK, Assigned, Goroutine
<1> QED
  BY <1>2, <1>3 DEF TypeOK

\* ... and every step of every goroutine keeps it.
LEMMA TypeStep == TypeOK /\ [Next]_vars => TypeOK'
<1> SUFFICES ASSUME TypeOK, [Next]_vars PROVE TypeOK'
  OBVIOUS
<1> USE ConstAssumption DEF TypeOK, Shapes, PcOK, Assigned, Goroutine, vars, reg, sess, local, Goto
<1>1. ASSUME NEW c \in Client, NEW n \in Name, NEW p \in BOOLEAN, Lookup(c, n, p) PROVE TypeOK'
  <2>1. c \in Goroutine /\ pc[c] = "idle"
    BY <1>1 DEF Lookup
  <2>2. CASE sessions[n] # NoSession
    <3>1. /\ sessions[n] \in Session
          /\ pc' = [pc EXCEPT ![c] = "attach"] /\ held' = [held EXCEPT ![c] = sessions[n]]
          /\ UNCHANGED <<reg, sess, existing, arg, pinArg, toReap, conn>>
      BY <1>1, <2>2 DEF Lookup
    <3> QED
      BY <2>1, <3>1
  <2>3. CASE sessions[n] = NoSession
    <3>1. /\ pc' = [pc EXCEPT ![c] = "spawn"] /\ arg' = [arg EXCEPT ![c] = n]
          /\ pinArg' = [pinArg EXCEPT ![c] = p]
          /\ UNCHANGED <<reg, sess, held, existing, toReap, conn>>
      BY <1>1, <2>3 DEF Lookup
    <3> QED
      BY <2>1, <3>1
  <2> QED
    BY <2>2, <2>3
<1>2. ASSUME NEW c \in Client, NEW s \in Session, Spawn(c, s) PROVE TypeOK'
  <2>1. c \in Goroutine /\ s \in Goroutine /\ c # s /\ c \notin Admin /\ s \notin Client
    OBVIOUS
  <2>2. /\ pc[c] = "spawn" /\ arg[c] \in Name
        /\ pc' = [pc EXCEPT ![c] = "insert", ![s] = "read"]
        /\ held' = [held EXCEPT ![c] = s, ![s] = s]
        /\ UNCHANGED <<arg, existing>>
    BY <1>2 DEF Spawn
  <2>3. \A g \in Goroutine : g # c /\ g # s => pc'[g] = pc[g] /\ held'[g] = held[g]
    BY <2>1, <2>2
  <2>4. pc'[c] = "insert" /\ pc'[s] = "read" /\ held'[c] = s /\ held'[s] = s
    BY <2>1, <2>2
  <2>5. Shapes'
    BY <1>2, <2>1 DEF Spawn
  <2>6. PcOK'
    <3>1. pc' \in [Goroutine -> {"none", "idle", "spawn", "insert", "attach", "relay",
                                 "pinLookup", "pinSet", "reap", "read", "close", "kill"}]
      BY <2>2
    <3>2. \A g \in Client \cup Admin \cup {Reaper} : g # c => pc'[g] = pc[g]
      BY <2>3
    <3>3. \A r \in Session : r # s => pc'[r] = pc[r]
      BY <2>1, <2>3
    <3> HIDE DEF Shapes, Assigned, Goroutine
    <3> QED
      BY <2>1, <2>4, <3>1, <3>2, <3>3
  <2>7. Assigned'
    <3>1. \A g \in Goroutine : pc'[g] \in {"insert", "attach", "relay", "pinSet", "close", "kill", "read"}
                                => held'[g] \in Session
      BY <2>3, <2>4
    <3>2. \A d \in Client : pc'[d] \in {"close", "kill"} => existing'[d] \in Session
      <4>1. \A d \in Client : d # s /\ (d # c => pc'[d] = pc[d])
        BY <2>3
      <4> QED
        BY <2>2, <2>4, <4>1
    <3>3. \A g \in Client \cup Admin : pc'[g] \in {"spawn", "insert", "pinLookup"} => arg'[g] \in Name
      BY <2>1, <2>2, <2>3, <2>4
    <3> QED
      BY <3>1, <3>2, <3>3
  <2> QED
    BY <2>5, <2>6, <2>7
<1>3. ASSUME NEW c \in Client, SpawnFails(c) PROVE TypeOK'
  BY <1>3 DEF SpawnFails, Return
<1>4. ASSUME NEW c \in Client, Insert(c) PROVE TypeOK'
  <2>1. Shapes'
    <3>1. CASE sessions[arg[c]] # NoSession
      BY <1>4, <3>1 DEF Insert
    <3>2. CASE sessions[arg[c]] = NoSession
      <4>1. /\ held[c] \in Session
            /\ sessions' = [sessions EXCEPT ![arg[c]] = held[c]]
            /\ forgetter' = [forgetter EXCEPT ![held[c]] = "waiting"]
            /\ arg' = [arg EXCEPT ![c] = NoName]
            /\ UNCHANGED <<sess, held, existing, pinArg, toReap, conn>>
        BY <1>4, <3>2 DEF Insert
      <4> QED
        BY <4>1
    <3> QED
      BY <3>1, <3>2
  <2>2. /\ c \in Goroutine /\ c \notin Session /\ c \notin Admin /\ c # Reaper
        /\ held' = held /\ held[c] \in Session
        /\ arg' = [arg EXCEPT ![c] = NoName]
    BY <1>4 DEF Insert
  <2>3. \/ /\ pc' = [pc EXCEPT ![c] = "close"]
           /\ existing' = [existing EXCEPT ![c] = sessions[arg[c]]] /\ sessions[arg[c]] \in Session
        \/ pc' = [pc EXCEPT ![c] = "attach"] /\ existing' = existing
    BY <1>4 DEF Insert
  <2>4. /\ TypeOK
        /\ \A d \in Client : d # c => existing'[d] = existing[d]
        /\ \A h \in Client \cup Admin : h # c => arg'[h] = arg[h]
    BY <2>2, <2>3
  <2>5. pc' = [pc EXCEPT ![c] = "close"] => existing'[c] \in Session
    BY <2>2, <2>3
  <2> HIDE DEF TypeOK, Shapes, PcOK, Assigned
  <2>6. CASE pc' = [pc EXCEPT ![c] = "close"]
    BY <2>1, <2>2, <2>4, <2>5, <2>6, OneMoves
  <2>7. CASE pc' = [pc EXCEPT ![c] = "attach"]
    BY <2>1, <2>2, <2>4, <2>7, OneMoves
  <2> QED
    BY <2>3, <2>6, <2>7
<1>5. ASSUME NEW c \in Client, Attach(c) PROVE TypeOK'
  BY <1>5 DEF Attach
<1>6. ASSUME NEW c \in Client, AttachFails(c) PROVE TypeOK'
  BY <1>6 DEF AttachFails, Return
<1>7. ASSUME NEW c \in Client, ClientDrops(c) PROVE TypeOK'
  BY <1>7 DEF ClientDrops
<1>8. ASSUME NEW c \in Client, SinkFails(c) PROVE TypeOK'
  BY <1>8 DEF SinkFails
<1>9. ASSUME NEW c \in Client, WatcherFires(c) PROVE TypeOK'
  BY <1>9 DEF WatcherFires
<1>10. ASSUME NEW c \in Client, KeystrokeFails(c) PROVE TypeOK'
  BY <1>10 DEF KeystrokeFails
<1>11. ASSUME NEW c \in Client, Detach(c) PROVE TypeOK'
  BY <1>11 DEF Detach, Return
<1>12. ASSUME NEW a \in Admin, NEW n \in Name, NEW m \in Name, PatchName(a, n, m) PROVE TypeOK'
  <2>1. sessions[n] \in Session
    BY <1>12 DEF PatchName, Rename
  <2>. /\ sessions' \in [Name -> Session \cup {NoSession}]
       /\ name' \in [Session -> Name \cup {NoName}]
       /\ UNCHANGED <<forgetter, life, shell, pinned, sinks, idle, held, existing, toReap, conn>>
    BY <1>12, <2>1 DEF PatchName, Rename
  <2>2. CASE UNCHANGED <<pc, arg, pinArg>>
    BY <2>2
  <2>3. ASSUME NEW p \in BOOLEAN, Goto(a, "pinLookup"),
               arg' = [arg EXCEPT ![a] = m], pinArg' = [pinArg EXCEPT ![a] = p]
        PROVE  TypeOK'
    <3>1. a \in Goroutine /\ pc[a] = "idle" /\ a \notin Client
      BY <1>12 DEF PatchName
    <3> QED
      BY <2>3, <3>1
  <2> QED
    BY <1>12, <2>2, <2>3 DEF PatchName
<1>13. ASSUME NEW a \in Admin, NEW n \in Name, NEW p \in BOOLEAN, PatchPinned(a, n, p) PROVE TypeOK'
  BY <1>13 DEF PatchPinned
<1>14. ASSUME NEW a \in Admin, PinLookup(a) PROVE TypeOK'
  <2>1. CASE sessions[arg[a]] = NoSession
    <3>1. /\ pc' = [pc EXCEPT ![a] = "idle"]
          /\ held' = [held EXCEPT ![a] = NoSession]
          /\ arg' = [arg EXCEPT ![a] = NoName]
          /\ pinArg' = [pinArg EXCEPT ![a] = FALSE]
          /\ UNCHANGED <<sessions, forgetter, name, life, shell, pinned, sinks, idle, existing, toReap, conn>>
      BY <1>14, <2>1 DEF PinLookup, Return
    <3> QED
      BY <3>1
  <2>2. CASE sessions[arg[a]] # NoSession
    <3>1. /\ a \in Goroutine /\ a \notin Client /\ sessions[arg[a]] \in Session
          /\ pc' = [pc EXCEPT ![a] = "pinSet"]
          /\ held' = [held EXCEPT ![a] = sessions[arg[a]]]
          /\ UNCHANGED <<sessions, forgetter, name, life, shell, pinned, sinks, idle, existing, pinArg, toReap, conn>>
          /\ arg' \in [Client \cup Admin -> Name \cup {NoName}]
          /\ \A g \in Client \cup Admin : g # a => arg'[g] = arg[g]
      BY <1>14, <2>2 DEF PinLookup
    <3> QED
      BY <3>1
  <2> QED
    BY <2>1, <2>2
<1>15. ASSUME NEW a \in Admin, PinSet(a) PROVE TypeOK'
  BY <1>15 DEF PinSet, Return
<1>16. ASSUME NEW a \in Admin, NEW n \in Name, Remove(a, n) PROVE TypeOK'
  BY <1>16 DEF Remove
<1>17. ASSUME ReapScan PROVE TypeOK'
  BY <1>17 DEF ReapScan, Registered, Reapable
<1>18. ASSUME NEW s \in Session, ReapNext(s) PROVE TypeOK'
  BY <1>18 DEF ReapNext
<1>19. ASSUME ReapDone PROVE TypeOK'
  BY <1>19 DEF ReapDone
<1>20. ASSUME NEW s \in Session, Forget(s) PROVE TypeOK'
  BY <1>20 DEF Forget
<1>a. ASSUME NEW g \in Goroutine, pc[g] \in {"close", "kill"}, ReturnFromClose(g),
              UNCHANGED <<reg, name, pinned, idle, arg, pinArg, toReap, conn>>,
              life' \in [Session -> {"none", "open", "closed"}],
              shell' \in [Session -> {"none", "running", "exited", "reaped"}],
              UNCHANGED sinks
       PROVE  TypeOK'
  <2>1. Shapes'
    BY <1>a DEF ReturnFromClose
  <2>2. /\ pc' = [pc EXCEPT ![g] = AfterClose(g)]
        /\ \A h \in Goroutine : h # g => held'[h] = held[h]
        /\ \A d \in Client : d # g => existing'[d] = existing[d]
        /\ arg' = arg
    BY <1>a DEF ReturnFromClose
  <2>3. /\ g \in Client => AfterClose(g) = "attach" /\ g # Reaper /\ g \notin Session /\ g \notin Admin
        /\ g = Reaper => AfterClose(g) = "reap" /\ g \notin Session /\ g \notin Admin
        /\ g \in Session => AfterClose(g) = "none" /\ g \notin Admin
        /\ g \in Admin => AfterClose(g) = "idle"
    BY DEF AfterClose
  <2>4. g \in Client => held'[g] \in Session
    BY <1>a DEF ReturnFromClose
  <2>5. g \in Client \cup Admin \cup {Reaper} \cup Session
    OBVIOUS
  <2> HIDE DEF TypeOK, Shapes, PcOK, Assigned
  <2> QED
    BY <2>1, <2>2, <2>3, <2>4, <2>5, OneMoves
<1>b. ASSUME NEW g \in Goroutine, Close(g), life[held[g]] # "closed" PROVE TypeOK'
  <2>1. /\ pc[g] = "close" /\ pc' = [pc EXCEPT ![g] = "kill"] /\ UNCHANGED <<held, existing, arg>>
        /\ held[g] \in Session /\ (g \in Client => existing[g] \in Session)
    BY <1>b DEF Close
  <2>2. Shapes'
    <3>1. /\ life' = [life EXCEPT ![held[g]] = "closed"] /\ sinks' = [sinks EXCEPT ![held[g]] = {}]
          /\ UNCHANGED <<reg, name, shell, pinned, idle, local, toReap, conn>>
      BY <1>b DEF Close
    <3> QED
      BY <3>1
  <2>3. TypeOK
    OBVIOUS
  <2> HIDE DEF TypeOK, Shapes, PcOK, Assigned
  <2> QED
    BY <2>1, <2>2, <2>3, OneMoves
<1>21. ASSUME NEW g \in Goroutine, Close(g) PROVE TypeOK'
  <2>1. CASE life[held[g]] = "closed"
    <3>1. /\ pc[g] \in {"close", "kill"} /\ ReturnFromClose(g)
          /\ UNCHANGED <<reg, name, life, shell, pinned, sinks, idle, arg, pinArg, toReap, conn>>
      BY <1>21, <2>1 DEF Close
    <3> QED
      BY <1>a, <3>1
  <2> QED
    BY <1>b, <1>21, <2>1
<1>22. ASSUME NEW g \in Goroutine, Kill(g) PROVE TypeOK'
  <2>1. shell' \in [Session -> {"none", "running", "exited", "reaped"}]
    BY <1>22 DEF Kill
  <2> QED
    BY <1>a, <1>22, <2>1 DEF Kill
<1>23. ASSUME NEW s \in Session, ShellExits(s) PROVE TypeOK'
  BY <1>23 DEF ShellExits
<1>24. ASSUME NEW s \in Session, PumpEOF(s) PROVE TypeOK'
  BY <1>24 DEF PumpEOF
<1>25. ASSUME Tick PROVE TypeOK'
  BY <1>25 DEF Tick
<1>26. CASE UNCHANGED vars
  BY <1>26
<1> HIDE DEF TypeOK, Shapes, PcOK, Assigned, Goroutine, vars, reg, sess, local, Goto
<1> QED
  BY <1>1, <1>2, <1>3, <1>4, <1>5, <1>6, <1>7, <1>8, <1>9, <1>10, <1>11, <1>12, <1>13, <1>14, <1>15, <1>16, <1>17, <1>18, <1>19, <1>20, <1>21, <1>22, <1>23, <1>24, <1>25, <1>26
  DEF Next, ClientStep, AdminStep, ReaperStep, CloseStep, Environment

\* Locals are assigned before they are used and every field keeps its type.
THEOREM TypeCorrect == Spec => []TypeOK
BY TypeInit, TypeStep, PTL DEF Spec
-----------------------------------------------------------------------------
(* Preservation of each part of IndInv.  Each lemma has a step for every   *)
(* action that can disturb the part, and one for all the others.           *)

USE ConstAssumption

\* Create, rename, remove, reap and forget keep the key an entry has equal to the name of its session.
LEMMA KeyIsNameStep ==
  ASSUME IndInv, [Next]_vars PROVE KeyIsName'
<1> USE DEF IndInv, KeyIsName, TypeOK, Shapes, Assigned, Registered
<1>1. ASSUME NEW c \in Client, NEW s \in Session, Spawn(c, s) PROVE KeyIsName'
  BY <1>1 DEF Spawn, OnlyStartedKnown, reg
<1>2. ASSUME NEW c \in Client, Insert(c) PROVE KeyIsName'
  BY <1>2 DEF Insert, PrivateWhileStarting, reg, sess, Goroutine
<1>3. ASSUME NEW a \in Admin, NEW n \in Name, NEW m \in Name, PatchName(a, n, m) PROVE KeyIsName'
  BY <1>3 DEF PatchName, Rename
<1>4. ASSUME NEW a \in Admin, NEW n \in Name, Remove(a, n) PROVE KeyIsName'
  BY <1>4 DEF Remove, sess
<1>5. CASE ReapScan
  BY <1>5 DEF ReapScan, sess
<1>6. ASSUME NEW s \in Session, Forget(s) PROVE KeyIsName'
  BY <1>6 DEF Forget, sess
<1>7. CASE UNCHANGED <<sessions, name>>
  BY <1>7
<1> HIDE DEF IndInv, KeyIsName, TypeOK, Shapes, Assigned, Registered
<1> QED
  BY <1>1, <1>2, <1>3, <1>4, <1>5, <1>6, <1>7
  DEF Next, vars, reg, sess, ClientStep, AdminStep, ReaperStep, CloseStep, Environment,
      Lookup, SpawnFails, Attach, AttachFails, ClientDrops, SinkFails, WatcherFires,
      KeystrokeFails, Detach, PatchPinned, PinLookup, PinSet, ReapNext, ReapDone,
      Close, Kill, ShellExits, PumpEOF, Tick

\* No goroutine gets hold of a session newSession has not returned yet.
LEMMA OnlyStartedStep ==
  ASSUME IndInv, [Next]_vars PROVE OnlyStartedKnown'
<1> USE DEF IndInv, OnlyStartedKnown, Registered, Goto, Goroutine, TypeOK, Shapes, PcOK, Assigned, reg, sess, local
<1>1. ASSUME NEW c \in Client, NEW n \in Name, NEW p \in BOOLEAN, Lookup(c, n, p) PROVE OnlyStartedKnown'
  <2>1. UNCHANGED <<sessions, forgetter, toReap, existing, life>>
    BY <1>1 DEF Lookup
  <2>2. \A g \in Goroutine : held'[g] = held[g] \/ held'[g] = sessions[n]
    BY <1>1 DEF Lookup
  <2>3. \A s \in Session : pc'[s] = pc[s] /\ held'[s] = held[s]
    BY <1>1, ConstAssumption DEF Lookup
  <2> HIDE DEF TypeOK, Shapes, PcOK, Assigned
  <2> QED
    BY <2>1, <2>2, <2>3
<1>2. ASSUME NEW c \in Client, NEW s \in Session, Spawn(c, s) PROVE OnlyStartedKnown'
  <2>1. UNCHANGED <<sessions, forgetter, toReap, existing>> /\ toReap \subseteq Session
    BY <1>2 DEF Spawn
  <2>2. life[s] = "none" /\ life'[s] = "open" /\ \A r \in Session : r # s => life'[r] = life[r]
    BY <1>2 DEF Spawn
  <2>3. \A r \in Session : r # s => pc'[r] = pc[r] /\ held'[r] = held[r]
    BY <1>2, ConstAssumption DEF Spawn
  <2>4. held'[s] = s /\ \A g \in Goroutine : held'[g] = held[g] \/ held'[g] = s
    BY <1>2 DEF Spawn
  <2>5. \A g \in Goroutine : held'[g] \in Session => life'[held'[g]] # "none"
    BY <2>2, <2>4
  <2>6. \A r \in Session : life'[r] = "none" => r # s /\ life[r] = "none"
    BY <2>2
  <2>7. \A r \in Session : held'[r] \in {r, NoSession}
    BY <2>3, <2>4
  <2> HIDE DEF TypeOK, Shapes, PcOK, Assigned, Goroutine
  <2> QED
    BY <2>1, <2>3, <2>5, <2>6, <2>7
<1>3. ASSUME NEW c \in Client, SpawnFails(c) PROVE OnlyStartedKnown'
  BY <1>3 DEF SpawnFails, Return
<1>4. ASSUME NEW c \in Client, Insert(c) PROVE OnlyStartedKnown'
  <2>1. held[c] \in Session /\ life[held[c]] # "none" /\ UNCHANGED <<life, held, toReap>>
    BY <1>4 DEF Insert
  <2>2. CASE sessions[arg[c]] # NoSession
    <3>1. /\ UNCHANGED <<sessions, forgetter>>
          /\ existing' = [existing EXCEPT ![c] = sessions[arg[c]]]
          /\ pc' = [pc EXCEPT ![c] = "close"]
      BY <1>4, <2>2 DEF Insert
    <3>2. arg[c] \in Name /\ c # Reaper /\ c \notin Session
      BY <1>4 DEF Insert
    <3> QED
      BY <2>1, <3>1, <3>2
  <2>3. CASE sessions[arg[c]] = NoSession
    <3>1. /\ \A n \in Name : sessions'[n] = IF n = arg[c] THEN held[c] ELSE sessions[n]
          /\ \A s \in Session : s # held[c] => forgetter'[s] = forgetter[s]
          /\ \A s \in Session : pc'[s] = pc[s]
          /\ existing' = existing
      BY <1>4, <2>3 DEF Insert
    <3>2. arg[c] \in Name /\ c \in Goroutine
      BY <1>4 DEF Insert
    <3>3. \A n \in Name : sessions'[n] \in Session => life[sessions'[n]] # "none"
      BY <2>1, <3>1
    <3>4. \A s \in Session : life[s] = "none" => forgetter'[s] = forgetter[s]
      BY <2>1, <3>1
    <3> QED
      BY <2>1, <3>1, <3>3, <3>4
  <2> QED
    BY <2>2, <2>3
<1>5. ASSUME NEW c \in Client, Attach(c) PROVE OnlyStartedKnown'
  BY <1>5 DEF Attach
<1>6. ASSUME NEW c \in Client, AttachFails(c) PROVE OnlyStartedKnown'
  BY <1>6 DEF AttachFails, Return
<1>7. ASSUME NEW c \in Client, ClientDrops(c) PROVE OnlyStartedKnown'
  BY <1>7 DEF ClientDrops
<1>8. ASSUME NEW c \in Client, SinkFails(c) PROVE OnlyStartedKnown'
  BY <1>8 DEF SinkFails
<1>9. ASSUME NEW c \in Client, WatcherFires(c) PROVE OnlyStartedKnown'
  BY <1>9 DEF WatcherFires
<1>10. ASSUME NEW c \in Client, KeystrokeFails(c) PROVE OnlyStartedKnown'
  BY <1>10 DEF KeystrokeFails
<1>11. ASSUME NEW c \in Client, Detach(c) PROVE OnlyStartedKnown'
  BY <1>11 DEF Detach, Return
<1>12. ASSUME NEW a \in Admin, NEW n \in Name, NEW m \in Name, PatchName(a, n, m) PROVE OnlyStartedKnown'
  BY <1>12 DEF PatchName, Rename
<1>13. ASSUME NEW a \in Admin, NEW n \in Name, NEW p \in BOOLEAN, PatchPinned(a, n, p) PROVE OnlyStartedKnown'
  BY <1>13 DEF PatchPinned
<1>14. ASSUME NEW a \in Admin, PinLookup(a) PROVE OnlyStartedKnown'
  <2>1. UNCHANGED <<sessions, forgetter, toReap, existing, life>>
    BY <1>14 DEF PinLookup, Return
  <2>2. arg[a] \in Name /\ \A g \in Goroutine : held'[g] \in {held[g], NoSession, sessions[arg[a]]}
    BY <1>14 DEF PinLookup, Return
  <2>3. \A s \in Session : pc'[s] = pc[s] /\ held'[s] = held[s]
    BY <1>14, ConstAssumption DEF PinLookup, Return
  <2> HIDE DEF TypeOK, Shapes, PcOK, Assigned
  <2> QED
    BY <2>1, <2>2, <2>3, ConstAssumption
<1>15. ASSUME NEW a \in Admin, PinSet(a) PROVE OnlyStartedKnown'
  BY <1>15 DEF PinSet, Return
<1>16. ASSUME NEW a \in Admin, NEW n \in Name, Remove(a, n) PROVE OnlyStartedKnown'
  BY <1>16 DEF Remove
<1>17. ASSUME ReapScan PROVE OnlyStartedKnown'
  BY <1>17 DEF ReapScan, Reapable
<1>18. ASSUME NEW s \in Session, ReapNext(s) PROVE OnlyStartedKnown'
  BY <1>18 DEF ReapNext
<1>19. ASSUME ReapDone PROVE OnlyStartedKnown'
  BY <1>19 DEF ReapDone
<1>20. ASSUME NEW s \in Session, Forget(s) PROVE OnlyStartedKnown'
  BY <1>20 DEF Forget
<1>21. ASSUME NEW g \in Goroutine, Close(g) PROVE OnlyStartedKnown'
  <2>1. UNCHANGED <<sessions, forgetter, toReap>> /\ pc[g] = "close" /\ toReap \subseteq Session
    BY <1>21 DEF Close, ReturnFromClose
  <2>2. \A s \in Session : life'[s] = "none" <=> life[s] = "none"
    BY <1>21 DEF Close
  <2>3. /\ \A h \in Goroutine : h # g => held'[h] = held[h] /\ pc'[h] = pc[h]
        /\ held'[g] = held[g] \/ (g \in Client /\ held'[g] = existing[g])
                             \/ (g \notin Client /\ held'[g] = NoSession)
    BY <1>21 DEF Close, ReturnFromClose
  <2>4. \A d \in Client : existing'[d] \in {existing[d], NoSession}
    BY <1>21 DEF Close, ReturnFromClose
  <2>5. \A h \in Goroutine : held'[h] \in Session => life'[held'[h]] # "none"
    BY <2>2, <2>3
  <2>6. \A s \in Session : life'[s] = "none" => life[s] = "none" /\ pc'[s] = "none"
    BY <2>1, <2>2, <2>3
  <2>7. \A s \in Session : held'[s] \in {s, NoSession}
    BY <2>3, ConstAssumption
  <2> HIDE DEF TypeOK, Shapes, PcOK, Assigned, Goroutine
  <2> QED
    BY <2>1, <2>4, <2>5, <2>6, <2>7, ConstAssumption
<1>22. ASSUME NEW g \in Goroutine, Kill(g) PROVE OnlyStartedKnown'
  BY <1>22 DEF Kill, ReturnFromClose, AfterClose
<1>23. ASSUME NEW s \in Session, ShellExits(s) PROVE OnlyStartedKnown'
  BY <1>23 DEF ShellExits
<1>24. ASSUME NEW s \in Session, PumpEOF(s) PROVE OnlyStartedKnown'
  BY <1>24 DEF PumpEOF
<1>25. ASSUME Tick PROVE OnlyStartedKnown'
  BY <1>25 DEF Tick
<1>26. CASE UNCHANGED vars
  BY <1>26 DEF vars
<1> HIDE DEF IndInv, OnlyStartedKnown, Registered, Goto, Goroutine, TypeOK, Shapes, PcOK, Assigned, reg, sess, local
<1> QED
  BY <1>1, <1>2, <1>3, <1>4, <1>5, <1>6, <1>7, <1>8, <1>9, <1>10, <1>11, <1>12,
     <1>13, <1>14, <1>15, <1>16, <1>17, <1>18, <1>19, <1>20, <1>21, <1>22, <1>23,
     <1>24, <1>25, <1>26
  DEF Next, ClientStep, AdminStep, ReaperStep, CloseStep, Environment

\* Attach, detach and Close keep sinks and connected handlers in step.
LEMMA RelayStep ==
  ASSUME IndInv, [Next]_vars PROVE RelayHasSink'
<1> USE DEF IndInv, RelayHasSink, Goto, Goroutine, TypeOK, Shapes, PcOK, Assigned, reg, sess, local
<1>1. ASSUME NEW c \in Client, NEW n \in Name, NEW p \in BOOLEAN, Lookup(c, n, p) PROVE RelayHasSink'
  BY <1>1 DEF Lookup
<1>2. ASSUME NEW c \in Client, NEW s \in Session, Spawn(c, s) PROVE RelayHasSink'
  <2>1. UNCHANGED <<sinks, conn>>
    BY <1>2 DEF Spawn
  <2>2. \A d \in Client : pc'[d] = "relay" => pc[d] = "relay" /\ held'[d] = held[d]
    BY <1>2, ConstAssumption DEF Spawn
  <2>3. life[s] = "none" /\ life'[s] = "open" /\ \A r \in Session : r # s => life'[r] = life[r]
    BY <1>2 DEF Spawn
  <2>4. \A d \in Client : pc[d] = "relay" => held[d] \in Session
    OBVIOUS
  <2> HIDE DEF TypeOK, Shapes, PcOK, Assigned
  <2> QED
    BY <2>1, <2>2, <2>3, <2>4
<1>3. ASSUME NEW c \in Client, SpawnFails(c) PROVE RelayHasSink'
  BY <1>3 DEF SpawnFails, Return
<1>4. ASSUME NEW c \in Client, Insert(c) PROVE RelayHasSink'
  BY <1>4 DEF Insert
<1>5. ASSUME NEW c \in Client, Attach(c) PROVE RelayHasSink'
  BY <1>5 DEF Attach
<1>6. ASSUME NEW c \in Client, AttachFails(c) PROVE RelayHasSink'
  BY <1>6 DEF AttachFails, Return
<1>7. ASSUME NEW c \in Client, ClientDrops(c) PROVE RelayHasSink'
  BY <1>7 DEF ClientDrops
<1>8. ASSUME NEW c \in Client, SinkFails(c) PROVE RelayHasSink'
  BY <1>8 DEF SinkFails
<1>9. ASSUME NEW c \in Client, WatcherFires(c) PROVE RelayHasSink'
  BY <1>9 DEF WatcherFires
<1>10. ASSUME NEW c \in Client, KeystrokeFails(c) PROVE RelayHasSink'
  BY <1>10 DEF KeystrokeFails
<1>11. ASSUME NEW c \in Client, Detach(c) PROVE RelayHasSink'
  BY <1>11 DEF Detach, Return
<1>12. ASSUME NEW a \in Admin, NEW n \in Name, NEW m \in Name, PatchName(a, n, m) PROVE RelayHasSink'
  BY <1>12 DEF PatchName, Rename
<1>13. ASSUME NEW a \in Admin, NEW n \in Name, NEW p \in BOOLEAN, PatchPinned(a, n, p) PROVE RelayHasSink'
  BY <1>13 DEF PatchPinned
<1>14. ASSUME NEW a \in Admin, PinLookup(a) PROVE RelayHasSink'
  BY <1>14 DEF PinLookup, Return
<1>15. ASSUME NEW a \in Admin, PinSet(a) PROVE RelayHasSink'
  BY <1>15 DEF PinSet, Return
<1>16. ASSUME NEW a \in Admin, NEW n \in Name, Remove(a, n) PROVE RelayHasSink'
  BY <1>16 DEF Remove
<1>17. ASSUME ReapScan PROVE RelayHasSink'
  BY <1>17 DEF ReapScan, Reapable
<1>18. ASSUME NEW s \in Session, ReapNext(s) PROVE RelayHasSink'
  BY <1>18 DEF ReapNext
<1>19. ASSUME ReapDone PROVE RelayHasSink'
  BY <1>19 DEF ReapDone
<1>20. ASSUME NEW s \in Session, Forget(s) PROVE RelayHasSink'
  BY <1>20 DEF Forget
<1>21. ASSUME NEW g \in Goroutine, Close(g) PROVE RelayHasSink'
  BY <1>21 DEF Close, ReturnFromClose, AfterClose
<1>22. ASSUME NEW g \in Goroutine, Kill(g) PROVE RelayHasSink'
  BY <1>22 DEF Kill, ReturnFromClose, AfterClose
<1>23. ASSUME NEW s \in Session, ShellExits(s) PROVE RelayHasSink'
  BY <1>23 DEF ShellExits
<1>24. ASSUME NEW s \in Session, PumpEOF(s) PROVE RelayHasSink'
  BY <1>24 DEF PumpEOF
<1>25. ASSUME Tick PROVE RelayHasSink'
  BY <1>25 DEF Tick
<1>26. CASE UNCHANGED vars
  BY <1>26 DEF vars
<1> HIDE DEF IndInv, RelayHasSink, Goto, Goroutine, TypeOK, Shapes, PcOK, Assigned, reg, sess, local
<1> QED
  BY <1>1, <1>2, <1>3, <1>4, <1>5, <1>6, <1>7, <1>8, <1>9, <1>10, <1>11, <1>12,
     <1>13, <1>14, <1>15, <1>16, <1>17, <1>18, <1>19, <1>20, <1>21, <1>22, <1>23,
     <1>24, <1>25, <1>26
  DEF Next, ClientStep, AdminStep, ReaperStep, CloseStep, Environment

\* Nobody can find a session between newSession and its insertion.
LEMMA PrivateStep ==
  ASSUME IndInv, [Next]_vars PROVE PrivateWhileStarting'
<1> USE DEF IndInv, PrivateWhileStarting, OnlyStartedKnown, Registered, Goto, Goroutine, TypeOK, Shapes, PcOK, Assigned, reg, sess, local
<1>1. ASSUME NEW c \in Client, NEW n \in Name, NEW p \in BOOLEAN, Lookup(c, n, p) PROVE PrivateWhileStarting'
  BY <1>1 DEF Lookup
<1>2. ASSUME NEW c \in Client, NEW s \in Session, Spawn(c, s) PROVE PrivateWhileStarting'
  BY <1>2 DEF Spawn
<1>3. ASSUME NEW c \in Client, SpawnFails(c) PROVE PrivateWhileStarting'
  BY <1>3 DEF SpawnFails, Return
<1>4. ASSUME NEW c \in Client, Insert(c) PROVE PrivateWhileStarting'
  BY <1>4 DEF Insert
<1>5. ASSUME NEW c \in Client, Attach(c) PROVE PrivateWhileStarting'
  BY <1>5 DEF Attach
<1>6. ASSUME NEW c \in Client, AttachFails(c) PROVE PrivateWhileStarting'
  BY <1>6 DEF AttachFails, Return
<1>7. ASSUME NEW c \in Client, ClientDrops(c) PROVE PrivateWhileStarting'
  BY <1>7 DEF ClientDrops
<1>8. ASSUME NEW c \in Client, SinkFails(c) PROVE PrivateWhileStarting'
  BY <1>8 DEF SinkFails
<1>9. ASSUME NEW c \in Client, WatcherFires(c) PROVE PrivateWhileStarting'
  BY <1>9 DEF WatcherFires
<1>10. ASSUME NEW c \in Client, KeystrokeFails(c) PROVE PrivateWhileStarting'
  BY <1>10 DEF KeystrokeFails
<1>11. ASSUME NEW c \in Client, Detach(c) PROVE PrivateWhileStarting'
  BY <1>11 DEF Detach, Return
<1>12. ASSUME NEW a \in Admin, NEW n \in Name, NEW m \in Name, PatchName(a, n, m) PROVE PrivateWhileStarting'
  BY <1>12 DEF PatchName, Rename
<1>13. ASSUME NEW a \in Admin, NEW n \in Name, NEW p \in BOOLEAN, PatchPinned(a, n, p) PROVE PrivateWhileStarting'
  BY <1>13 DEF PatchPinned
<1>14. ASSUME NEW a \in Admin, PinLookup(a) PROVE PrivateWhileStarting'
  BY <1>14 DEF PinLookup, Return
<1>15. ASSUME NEW a \in Admin, PinSet(a) PROVE PrivateWhileStarting'
  BY <1>15 DEF PinSet, Return
<1>16. ASSUME NEW a \in Admin, NEW n \in Name, Remove(a, n) PROVE PrivateWhileStarting'
  BY <1>16 DEF Remove
<1>17. ASSUME ReapScan PROVE PrivateWhileStarting'
  BY <1>17 DEF ReapScan, Reapable
<1>18. ASSUME NEW s \in Session, ReapNext(s) PROVE PrivateWhileStarting'
  BY <1>18 DEF ReapNext
<1>19. ASSUME ReapDone PROVE PrivateWhileStarting'
  BY <1>19 DEF ReapDone
<1>20. ASSUME NEW s \in Session, Forget(s) PROVE PrivateWhileStarting'
  BY <1>20 DEF Forget
<1>21. ASSUME NEW g \in Goroutine, Close(g) PROVE PrivateWhileStarting'
  BY <1>21 DEF Close, ReturnFromClose, AfterClose
<1>22. ASSUME NEW g \in Goroutine, Kill(g) PROVE PrivateWhileStarting'
  BY <1>22 DEF Kill, ReturnFromClose, AfterClose
<1>23. ASSUME NEW s \in Session, ShellExits(s) PROVE PrivateWhileStarting'
  BY <1>23 DEF ShellExits
<1>24. ASSUME NEW s \in Session, PumpEOF(s) PROVE PrivateWhileStarting'
  BY <1>24 DEF PumpEOF
<1>25. ASSUME Tick PROVE PrivateWhileStarting'
  BY <1>25 DEF Tick
<1>26. CASE UNCHANGED vars
  BY <1>26 DEF vars
<1> HIDE DEF IndInv, PrivateWhileStarting, OnlyStartedKnown, Registered, Goto, Goroutine, TypeOK, Shapes, PcOK, Assigned, reg, sess, local
<1> QED
  BY <1>1, <1>2, <1>3, <1>4, <1>5, <1>6, <1>7, <1>8, <1>9, <1>10, <1>11, <1>12,
     <1>13, <1>14, <1>15, <1>16, <1>17, <1>18, <1>19, <1>20, <1>21, <1>22, <1>23,
     <1>24, <1>25, <1>26
  DEF Next, ClientStep, AdminStep, ReaperStep, CloseStep, Environment

\* Remove, reapIdle and a lost creation race unlist before they close.
LEMMA DoomedStep ==
  ASSUME IndInv, [Next]_vars PROVE DoomedIsUnlisted'
<1> USE DEF IndInv, DoomedIsUnlisted, PrivateWhileStarting, OnlyStartedKnown, KeyIsName, Registered, Goto, Goroutine, TypeOK, Shapes, PcOK, Assigned, reg, sess, local
<1>1. ASSUME NEW c \in Client, NEW n \in Name, NEW p \in BOOLEAN, Lookup(c, n, p) PROVE DoomedIsUnlisted'
  BY <1>1 DEF Lookup
<1>2. ASSUME NEW c \in Client, NEW s \in Session, Spawn(c, s) PROVE DoomedIsUnlisted'
  <2>1. UNCHANGED <<sessions, toReap>>
    BY <1>2 DEF Spawn
  <2>2. \A g \in Goroutine : pc'[g] \in {"close", "kill"} => pc'[g] = pc[g] /\ held'[g] = held[g]
    BY <1>2 DEF Spawn
  <2> QED
    BY <2>1, <2>2
<1>3. ASSUME NEW c \in Client, SpawnFails(c) PROVE DoomedIsUnlisted'
  BY <1>3 DEF SpawnFails, Return
<1>4. ASSUME NEW c \in Client, Insert(c) PROVE DoomedIsUnlisted'
  BY <1>4 DEF Insert
<1>5. ASSUME NEW c \in Client, Attach(c) PROVE DoomedIsUnlisted'
  BY <1>5 DEF Attach
<1>6. ASSUME NEW c \in Client, AttachFails(c) PROVE DoomedIsUnlisted'
  BY <1>6 DEF AttachFails, Return
<1>7. ASSUME NEW c \in Client, ClientDrops(c) PROVE DoomedIsUnlisted'
  BY <1>7 DEF ClientDrops
<1>8. ASSUME NEW c \in Client, SinkFails(c) PROVE DoomedIsUnlisted'
  BY <1>8 DEF SinkFails
<1>9. ASSUME NEW c \in Client, WatcherFires(c) PROVE DoomedIsUnlisted'
  BY <1>9 DEF WatcherFires
<1>10. ASSUME NEW c \in Client, KeystrokeFails(c) PROVE DoomedIsUnlisted'
  BY <1>10 DEF KeystrokeFails
<1>11. ASSUME NEW c \in Client, Detach(c) PROVE DoomedIsUnlisted'
  BY <1>11 DEF Detach, Return
<1>12. ASSUME NEW a \in Admin, NEW n \in Name, NEW m \in Name, PatchName(a, n, m) PROVE DoomedIsUnlisted'
  BY <1>12 DEF PatchName, Rename
<1>13. ASSUME NEW a \in Admin, NEW n \in Name, NEW p \in BOOLEAN, PatchPinned(a, n, p) PROVE DoomedIsUnlisted'
  BY <1>13 DEF PatchPinned
<1>14. ASSUME NEW a \in Admin, PinLookup(a) PROVE DoomedIsUnlisted'
  BY <1>14 DEF PinLookup, Return
<1>15. ASSUME NEW a \in Admin, PinSet(a) PROVE DoomedIsUnlisted'
  BY <1>15 DEF PinSet, Return
<1>16. ASSUME NEW a \in Admin, NEW n \in Name, Remove(a, n) PROVE DoomedIsUnlisted'
  BY <1>16 DEF Remove
<1>17. ASSUME ReapScan PROVE DoomedIsUnlisted'
  BY <1>17 DEF ReapScan, Reapable
<1>18. ASSUME NEW s \in Session, ReapNext(s) PROVE DoomedIsUnlisted'
  BY <1>18 DEF ReapNext
<1>19. ASSUME ReapDone PROVE DoomedIsUnlisted'
  BY <1>19 DEF ReapDone
<1>20. ASSUME NEW s \in Session, Forget(s) PROVE DoomedIsUnlisted'
  BY <1>20 DEF Forget
<1>21. ASSUME NEW g \in Goroutine, Close(g) PROVE DoomedIsUnlisted'
  <2>1. UNCHANGED <<sessions, toReap>>
    BY <1>21 DEF Close, ReturnFromClose
  <2>2. \A h \in Goroutine : pc'[h] \in {"close", "kill"} =>
            pc[h] \in {"close", "kill"} /\ held'[h] = held[h]
    BY <1>21 DEF Close, ReturnFromClose, AfterClose
  <2> HIDE DEF TypeOK, Shapes, PcOK, Assigned
  <2> QED
    BY <2>1, <2>2
<1>22. ASSUME NEW g \in Goroutine, Kill(g) PROVE DoomedIsUnlisted'
  BY <1>22 DEF Kill, ReturnFromClose, AfterClose
<1>23. ASSUME NEW s \in Session, ShellExits(s) PROVE DoomedIsUnlisted'
  BY <1>23 DEF ShellExits
<1>24. ASSUME NEW s \in Session, PumpEOF(s) PROVE DoomedIsUnlisted'
  BY <1>24 DEF PumpEOF
<1>25. ASSUME Tick PROVE DoomedIsUnlisted'
  BY <1>25 DEF Tick
<1>26. CASE UNCHANGED vars
  BY <1>26 DEF vars
<1> HIDE DEF IndInv, DoomedIsUnlisted, PrivateWhileStarting, OnlyStartedKnown, KeyIsName, Registered, Goto, Goroutine, TypeOK, Shapes, PcOK, Assigned, reg, sess, local
<1> QED
  BY <1>1, <1>2, <1>3, <1>4, <1>5, <1>6, <1>7, <1>8, <1>9, <1>10, <1>11, <1>12,
     <1>13, <1>14, <1>15, <1>16, <1>17, <1>18, <1>19, <1>20, <1>21, <1>22, <1>23,
     <1>24, <1>25, <1>26
  DEF Next, ClientStep, AdminStep, ReaperStep, CloseStep, Environment

\* Whoever takes a running session out of the map owes it a Close.
LEMMA OrphanStep ==
  ASSUME IndInv, [Next]_vars PROVE NoOrphan'
<1> USE DEF IndInv, NoOrphan, Doomed, Starting, Registered, Goto, Goroutine, TypeOK, Shapes, PcOK, Assigned, reg, sess, local
<1>1. ASSUME NEW c \in Client, NEW n \in Name, NEW p \in BOOLEAN, Lookup(c, n, p) PROVE NoOrphan'
  <2>1. UNCHANGED <<sessions, life, toReap>> /\ Registered' = Registered
    BY <1>1 DEF Lookup
  <2>2. \A g \in Goroutine : pc[g] \in {"insert", "close"} => pc'[g] = pc[g] /\ held'[g] = held[g]
    BY <1>1 DEF Lookup
  <2>5. \A s \in Session : (Starting(s) => Starting(s)') /\ (Doomed(s) => Doomed(s)')
    BY <2>1, <2>2
  <2> HIDE DEF Starting, Doomed, Registered
  <2> QED
    BY <2>1, <2>2, <2>5
<1>2. ASSUME NEW c \in Client, NEW s \in Session, Spawn(c, s) PROVE NoOrphan'
  <2>1. Starting(s)'
    BY <1>2 DEF Spawn
  <2>2. /\ UNCHANGED <<sessions, toReap>>
        /\ \A r \in Session : r # s => life'[r] = life[r]
    BY <1>2 DEF Spawn
  <2>3. \A g \in Goroutine : pc[g] \in {"insert", "close"} => pc'[g] = pc[g] /\ held'[g] = held[g]
    BY <1>2 DEF Spawn, OnlyStartedKnown
  <2>4. \A r \in Session : (Starting(r) => Starting(r)') /\ (Doomed(r) => Doomed(r)')
    BY <2>2, <2>3
  <2>5. Registered' = Registered
    BY <2>2
  <2> HIDE DEF Starting, Doomed, Registered, TypeOK, Shapes, PcOK, Assigned
  <2> QED
    BY <2>1, <2>2, <2>4, <2>5
<1>3. ASSUME NEW c \in Client, SpawnFails(c) PROVE NoOrphan'
  BY <1>3 DEF SpawnFails, Return
<1>4. ASSUME NEW c \in Client, Insert(c) PROVE NoOrphan'
  BY <1>4 DEF Insert
<1>5. ASSUME NEW c \in Client, Attach(c) PROVE NoOrphan'
  BY <1>5 DEF Attach
<1>6. ASSUME NEW c \in Client, AttachFails(c) PROVE NoOrphan'
  BY <1>6 DEF AttachFails, Return
<1>7. ASSUME NEW c \in Client, ClientDrops(c) PROVE NoOrphan'
  BY <1>7 DEF ClientDrops
<1>8. ASSUME NEW c \in Client, SinkFails(c) PROVE NoOrphan'
  BY <1>8 DEF SinkFails
<1>9. ASSUME NEW c \in Client, WatcherFires(c) PROVE NoOrphan'
  BY <1>9 DEF WatcherFires
<1>10. ASSUME NEW c \in Client, KeystrokeFails(c) PROVE NoOrphan'
  BY <1>10 DEF KeystrokeFails
<1>11. ASSUME NEW c \in Client, Detach(c) PROVE NoOrphan'
  BY <1>11 DEF Detach, Return
<1>12. ASSUME NEW a \in Admin, NEW n \in Name, NEW m \in Name, PatchName(a, n, m) PROVE NoOrphan'
  <2>1. Registered' = Registered /\ UNCHANGED <<life, toReap, held>>
    <3>1. UNCHANGED <<life, toReap, held>>
      BY <1>12 DEF PatchName, Rename
    <3>2. \/ sessions' = sessions
          \/ sessions[m] = NoSession /\ sessions' = [sessions EXCEPT ![n] = NoSession, ![m] = sessions[n]]
      BY <1>12 DEF PatchName, Rename
    <3>3. \A s \in Session : (\E k \in Name : sessions'[k] = s) <=> (\E k \in Name : sessions[k] = s)
      BY <3>2, ConstAssumption
    <3> QED
      BY <3>1, <3>3
  <2>2. \A g \in Goroutine : pc[g] \in {"insert", "close"} => pc'[g] = pc[g]
    BY <1>12 DEF PatchName
  <2>5. \A s \in Session : (Starting(s) => Starting(s)') /\ (Doomed(s) => Doomed(s)')
    BY <2>1, <2>2
  <2> HIDE DEF Starting, Doomed, Registered
  <2> QED
    BY <2>1, <2>2, <2>5
<1>13. ASSUME NEW a \in Admin, NEW n \in Name, NEW p \in BOOLEAN, PatchPinned(a, n, p) PROVE NoOrphan'
  BY <1>13 DEF PatchPinned
<1>14. ASSUME NEW a \in Admin, PinLookup(a) PROVE NoOrphan'
  <2>1. UNCHANGED <<sessions, life, toReap>> /\ Registered' = Registered
    BY <1>14 DEF PinLookup, Return
  <2>2. \A g \in Goroutine : pc[g] \in {"insert", "close"} => pc'[g] = pc[g] /\ held'[g] = held[g]
    BY <1>14 DEF PinLookup, Return
  <2>5. \A s \in Session : (Starting(s) => Starting(s)') /\ (Doomed(s) => Doomed(s)')
    BY <2>1, <2>2
  <2> HIDE DEF Starting, Doomed, Registered
  <2> QED
    BY <2>1, <2>2, <2>5
<1>15. ASSUME NEW a \in Admin, PinSet(a) PROVE NoOrphan'
  BY <1>15 DEF PinSet, Return
<1>16. ASSUME NEW a \in Admin, NEW n \in Name, Remove(a, n) PROVE NoOrphan'
  BY <1>16 DEF Remove
<1>17. ASSUME ReapScan PROVE NoOrphan'
  <2>1. \A s \in Session : s \in Registered => s \in Registered' \/ s \in toReap'
    BY <1>17 DEF ReapScan, Reapable
  <2>2. toReap = {} /\ UNCHANGED <<life, held>>
    BY <1>17 DEF ReapScan, RoundComplete
  <2>3. \A g \in Goroutine : pc[g] \in {"insert", "close"} => pc'[g] = pc[g]
    BY <1>17 DEF ReapScan
  <2>4. \A s \in Session : (Starting(s) => Starting(s)') /\ (Doomed(s) => Doomed(s)')
    BY <2>2, <2>3
  <2>5. \A s \in Session : s \in toReap' => Doomed(s)'
    OBVIOUS
  <2> HIDE DEF Starting, Doomed, Registered
  <2> QED
    BY <2>1, <2>2, <2>4, <2>5
<1>18. ASSUME NEW s \in Session, ReapNext(s) PROVE NoOrphan'
  BY <1>18 DEF ReapNext
<1>19. ASSUME ReapDone PROVE NoOrphan'
  BY <1>19 DEF ReapDone
<1>20. ASSUME NEW s \in Session, Forget(s) PROVE NoOrphan'
  BY <1>20 DEF Forget
<1>21. ASSUME NEW g \in Goroutine, Close(g) PROVE NoOrphan'
  <2>1. held[g] \in Session /\ life'[held[g]] = "closed"
    BY <1>21 DEF Close
  <2>2. UNCHANGED <<sessions, toReap>> /\ \A s \in Session : s # held[g] => life'[s] = life[s]
    BY <1>21 DEF Close
  <2>3. \A h \in Goroutine : h # g => pc'[h] = pc[h] /\ held'[h] = held[h]
    BY <1>21 DEF Close, ReturnFromClose
  <2>4. pc[g] = "close"
    BY <1>21 DEF Close
  <2>5. \A s \in Session : s # held[g] => (Starting(s) => Starting(s)') /\ (Doomed(s) => Doomed(s)')
    BY <2>2, <2>3, <2>4
  <2>6. Registered' = Registered
    BY <2>2
  <2>7. SUFFICES ASSUME NEW s \in Session, life'[s] = "open"
                 PROVE  s \in Registered' \/ Starting(s)' \/ Doomed(s)'
    BY DEF NoOrphan
  <2>8. s # held[g] /\ life[s] = "open"
    BY <2>1, <2>2, <2>7
  <2>9. s \in Registered \/ Starting(s) \/ Doomed(s)
    BY <2>8
  <2> HIDE DEF Starting, Doomed, Registered, TypeOK, Shapes, PcOK, Assigned, IndInv
  <2> QED
    BY <2>5, <2>6, <2>8, <2>9
<1>22. ASSUME NEW g \in Goroutine, Kill(g) PROVE NoOrphan'
  BY <1>22 DEF Kill, ReturnFromClose, AfterClose
<1>23. ASSUME NEW s \in Session, ShellExits(s) PROVE NoOrphan'
  BY <1>23 DEF ShellExits
<1>24. ASSUME NEW s \in Session, PumpEOF(s) PROVE NoOrphan'
  BY <1>24 DEF PumpEOF
<1>25. ASSUME Tick PROVE NoOrphan'
  BY <1>25 DEF Tick
<1>26. CASE UNCHANGED vars
  BY <1>26 DEF vars
<1> HIDE DEF IndInv, NoOrphan, Doomed, Starting, Registered, Goto, Goroutine, TypeOK, Shapes, PcOK, Assigned, reg, sess, local
<1> QED
  BY <1>1, <1>2, <1>3, <1>4, <1>5, <1>6, <1>7, <1>8, <1>9, <1>10, <1>11, <1>12,
     <1>13, <1>14, <1>15, <1>16, <1>17, <1>18, <1>19, <1>20, <1>21, <1>22, <1>23,
     <1>24, <1>25, <1>26
  DEF Next, ClientStep, AdminStep, ReaperStep, CloseStep, Environment

\* A round of the reaper ends when its list is empty.
LEMMA RoundStep ==
  ASSUME IndInv, [Next]_vars PROVE RoundComplete'
<1> USE DEF IndInv, RoundComplete, Registered, Goto, Goroutine, TypeOK, Shapes, PcOK, Assigned, reg, sess, local
<1>1. ASSUME NEW c \in Client, NEW n \in Name, NEW p \in BOOLEAN, Lookup(c, n, p) PROVE RoundComplete'
  BY <1>1 DEF Lookup
<1>2. ASSUME NEW c \in Client, NEW s \in Session, Spawn(c, s) PROVE RoundComplete'
  BY <1>2 DEF Spawn
<1>3. ASSUME NEW c \in Client, SpawnFails(c) PROVE RoundComplete'
  BY <1>3 DEF SpawnFails, Return
<1>4. ASSUME NEW c \in Client, Insert(c) PROVE RoundComplete'
  BY <1>4 DEF Insert
<1>5. ASSUME NEW c \in Client, Attach(c) PROVE RoundComplete'
  BY <1>5 DEF Attach
<1>6. ASSUME NEW c \in Client, AttachFails(c) PROVE RoundComplete'
  BY <1>6 DEF AttachFails, Return
<1>7. ASSUME NEW c \in Client, ClientDrops(c) PROVE RoundComplete'
  BY <1>7 DEF ClientDrops
<1>8. ASSUME NEW c \in Client, SinkFails(c) PROVE RoundComplete'
  BY <1>8 DEF SinkFails
<1>9. ASSUME NEW c \in Client, WatcherFires(c) PROVE RoundComplete'
  BY <1>9 DEF WatcherFires
<1>10. ASSUME NEW c \in Client, KeystrokeFails(c) PROVE RoundComplete'
  BY <1>10 DEF KeystrokeFails
<1>11. ASSUME NEW c \in Client, Detach(c) PROVE RoundComplete'
  BY <1>11 DEF Detach, Return
<1>12. ASSUME NEW a \in Admin, NEW n \in Name, NEW m \in Name, PatchName(a, n, m) PROVE RoundComplete'
  BY <1>12 DEF PatchName, Rename
<1>13. ASSUME NEW a \in Admin, NEW n \in Name, NEW p \in BOOLEAN, PatchPinned(a, n, p) PROVE RoundComplete'
  BY <1>13 DEF PatchPinned
<1>14. ASSUME NEW a \in Admin, PinLookup(a) PROVE RoundComplete'
  BY <1>14 DEF PinLookup, Return
<1>15. ASSUME NEW a \in Admin, PinSet(a) PROVE RoundComplete'
  BY <1>15 DEF PinSet, Return
<1>16. ASSUME NEW a \in Admin, NEW n \in Name, Remove(a, n) PROVE RoundComplete'
  BY <1>16 DEF Remove
<1>17. ASSUME ReapScan PROVE RoundComplete'
  BY <1>17 DEF ReapScan, Reapable
<1>18. ASSUME NEW s \in Session, ReapNext(s) PROVE RoundComplete'
  BY <1>18 DEF ReapNext
<1>19. ASSUME ReapDone PROVE RoundComplete'
  BY <1>19 DEF ReapDone
<1>20. ASSUME NEW s \in Session, Forget(s) PROVE RoundComplete'
  BY <1>20 DEF Forget
<1>21. ASSUME NEW g \in Goroutine, Close(g) PROVE RoundComplete'
  BY <1>21 DEF Close, ReturnFromClose, AfterClose
<1>22. ASSUME NEW g \in Goroutine, Kill(g) PROVE RoundComplete'
  BY <1>22 DEF Kill, ReturnFromClose, AfterClose
<1>23. ASSUME NEW s \in Session, ShellExits(s) PROVE RoundComplete'
  BY <1>23 DEF ShellExits
<1>24. ASSUME NEW s \in Session, PumpEOF(s) PROVE RoundComplete'
  BY <1>24 DEF PumpEOF
<1>25. ASSUME Tick PROVE RoundComplete'
  BY <1>25 DEF Tick
<1>26. CASE UNCHANGED vars
  BY <1>26 DEF vars
<1> HIDE DEF IndInv, RoundComplete, Registered, Goto, Goroutine, TypeOK, Shapes, PcOK, Assigned, reg, sess, local
<1> QED
  BY <1>1, <1>2, <1>3, <1>4, <1>5, <1>6, <1>7, <1>8, <1>9, <1>10, <1>11, <1>12,
     <1>13, <1>14, <1>15, <1>16, <1>17, <1>18, <1>19, <1>20, <1>21, <1>22, <1>23,
     <1>24, <1>25, <1>26
  DEF Next, ClientStep, AdminStep, ReaperStep, CloseStep, Environment

\* An ended session stays ended, and only Insert makes a session listed, which
\* nobody has waited for yet.
LEMMA ListingStep ==
  ASSUME IndInv, Next, NEW s \in Session
  PROVE  /\ s \in Registered' /\ s \notin Registered =>
               forgetter[s] = "none" /\ forgetter'[s] = "waiting" /\ life[s] # "none"
         /\ forgetter[s] # "none" => forgetter'[s] # "none"
         /\ forgetter[s] = "finished" => life[s] = "closed" /\ s \notin Registered
         /\ life[s] = "closed" => life'[s] = "closed"
<1> USE DEF IndInv, TypeOK, Shapes
<1> DEFINE Kept == \A n \in Name : sessions'[n] \in {sessions[n], NoSession}
<1> DEFINE Same == UNCHANGED forgetter /\ (life[s] = "closed" => life'[s] = "closed")
<1>0. /\ forgetter[s] = "finished" => life[s] = "closed" /\ s \notin Registered
      /\ life[s] = "closed" => life[s] # "none"
  BY DEF ForgottenIsOver
<1>1. ASSUME Kept PROVE ~(s \in Registered' /\ s \notin Registered)
  BY <1>1, ConstAssumption DEF Registered
<1>2. ASSUME NEW c \in Client, Insert(c)
      PROVE  /\ s \in Registered' /\ s \notin Registered =>
                   forgetter[s] = "none" /\ forgetter'[s] = "waiting" /\ life[s] # "none"
             /\ forgetter[s] # "none" => forgetter'[s] # "none"
             /\ life[s] = "closed" => life'[s] = "closed"
  <2>1. pc[c] = "insert" /\ c \in Goroutine
    BY <1>2 DEF Insert, Goroutine
  <2>2. held[c] \in Session
    BY <2>1 DEF Assigned
  <2>3. s \in Registered' /\ s \notin Registered => s = held[c] /\ forgetter'[s] = "waiting"
    BY <1>2, <2>2 DEF Insert, Registered, reg
  <2>4. forgetter[s] # "none" => forgetter'[s] # "none"
    BY <1>2, <2>2 DEF Insert, reg
  <2>5. life' = life
    BY <1>2 DEF Insert, sess
  <2> QED
    BY <2>1, <2>2, <2>3, <2>4, <2>5 DEF PrivateWhileStarting, OnlyStartedKnown
<1>3. ASSUME NEW a \in Admin, NEW n \in Name, NEW m \in Name, PatchName(a, n, m)
      PROVE  Same /\ ~(s \in Registered' /\ s \notin Registered)
  BY <1>3 DEF PatchName, Rename, Registered
<1>4. ASSUME NEW a \in Admin, NEW n \in Name, Remove(a, n) PROVE Same /\ Kept
  BY <1>4 DEF Remove, sess
<1>5. ASSUME ReapScan PROVE Same /\ Kept
  BY <1>5 DEF ReapScan, sess
<1>6. ASSUME NEW t \in Session, Forget(t)
      PROVE  /\ Kept
             /\ forgetter[s] # "none" => forgetter'[s] # "none"
             /\ life[s] = "closed" => life'[s] = "closed"
  BY <1>6 DEF Forget, sess
<1>7. ASSUME NEW c \in Client, NEW t \in Session, Spawn(c, t) PROVE Same /\ Kept
  BY <1>7 DEF Spawn, reg
<1>8. ASSUME NEW g \in Goroutine, Close(g) PROVE Same /\ Kept
  BY <1>8 DEF Close, reg
<1>9. ASSUME UNCHANGED <<reg, life>> PROVE Same /\ Kept
  BY <1>9 DEF reg
<1> HIDE DEF IndInv, TypeOK, Shapes, Kept, Same
<1>10. Same => /\ forgetter[s] # "none" => forgetter'[s] # "none"
               /\ life[s] = "closed" => life'[s] = "closed"
  BY DEF Same
<1> QED
  BY <1>0, <1>1, <1>2, <1>3, <1>4, <1>5, <1>6, <1>7, <1>8, <1>9, <1>10
  DEF Next, ClientStep, AdminStep, ReaperStep, CloseStep, Environment, Lookup,
      SpawnFails, Attach, AttachFails, ClientDrops, SinkFails, WatcherFires,
      KeystrokeFails, Detach, PatchPinned, PinLookup, PinSet, ReapNext,
      ReapDone, Kill, ShellExits, PumpEOF, Tick, sess

\* Forget takes the session's own entry, found under the name it carries.
LEMMA ForgottenStep ==
  ASSUME IndInv, [Next]_vars
  PROVE  ForgottenIsOver'
<1>1. CASE UNCHANGED vars
  BY <1>1 DEF vars, reg, sess, IndInv, ForgottenIsOver, Registered
<1>2. CASE Next
  <2> SUFFICES ASSUME NEW s \in Session, forgetter'[s] = "finished"
               PROVE  life'[s] = "closed" /\ s \notin Registered'
    BY DEF ForgottenIsOver
  <2>1. CASE forgetter[s] = "finished"
    BY <1>2, <2>1, ListingStep
  <2>2. CASE forgetter[s] # "finished"
    <3>0. forgetter' # forgetter
      BY <2>2
    <3>1. PICK t \in Session : Forget(t)
      <4>1. ASSUME NEW c \in Client, ClientStep(c) \/ WatcherFires(c) PROVE FALSE
        <5>1. CASE Insert(c)
          BY <5>1, <2>2 DEF Insert, reg, IndInv, TypeOK, Shapes
        <5> QED
          BY <3>0, <4>1, <5>1
          DEF ClientStep, Spawn, SpawnFails, Attach, AttachFails, Detach, WatcherFires, reg
      <4>2. ASSUME NEW x \in Admin, AdminStep(x) PROVE FALSE
        BY <3>0, <4>2 DEF AdminStep, PinLookup, PinSet, reg
      <4>3. ~ReaperStep
        BY <3>0 DEF ReaperStep, ReapScan, ReapNext, ReapDone, reg
      <4>4. ASSUME NEW g \in Goroutine, CloseStep(g) PROVE FALSE
        BY <3>0, <4>4 DEF CloseStep, Close, Kill, reg
      <4>5. ASSUME NEW u \in Session, PumpEOF(u) PROVE FALSE
        BY <3>0, <4>5 DEF PumpEOF, reg
      <4>6. ~Tick
        BY <3>0 DEF Tick, reg
      <4>7. ~Environment
        BY <3>0 DEF Environment, Lookup, ClientDrops, SinkFails, KeystrokeFails, PatchName,
                    PatchPinned, Remove, ShellExits, reg
      <4> QED
        BY <1>2, <4>1, <4>2, <4>3, <4>4, <4>5, <4>6, <4>7 DEF Next
    <3>2. s = t /\ life'[s] = "closed"
      BY <2>2, <3>1 DEF Forget, sess, IndInv, TypeOK, Shapes
    <3>3. ASSUME NEW n \in Name, sessions'[n] = s PROVE FALSE
      <4>1. sessions[n] = s /\ sessions[n] # NoSession
        BY <3>1, <3>3, ConstAssumption DEF Forget, IndInv, TypeOK, Shapes
      <4>2. name[s] = n
        BY <4>1 DEF IndInv, KeyIsName
      <4>3. sessions'[n] = NoSession
        BY <3>1, <3>2, <4>1, <4>2 DEF Forget, IndInv, TypeOK, Shapes
      <4> QED
        BY <3>3, <4>3, ConstAssumption
    <3> QED
      BY <3>2, <3>3 DEF Registered
  <2> QED
    BY <2>1, <2>2
<1> QED
  BY <1>1, <1>2

\* The inductive invariant of the registry.
THEOREM IndInvHolds == Spec => []IndInv
<1>1. Init => IndInv
  BY TypeInit DEF Init, IndInv, KeyIsName, NoOrphan, DoomedIsUnlisted, RelayHasSink,
     PrivateWhileStarting, OnlyStartedKnown, RoundComplete, ForgottenIsOver, Registered, Goroutine
<1>2. IndInv /\ [Next]_vars => IndInv'
  BY TypeStep, KeyIsNameStep, OnlyStartedStep, RelayStep, PrivateStep, DoomedStep,
     OrphanStep, RoundStep, ForgottenStep DEF IndInv
<1> QED
  BY <1>1, <1>2, PTL DEF Spec

\* An entry of the map leads to the session that carries its name.
THEOREM KeyIsNameAlways == Spec => []KeyIsName
BY IndInvHolds, PTL DEF IndInv

\* No running session is ever out of reach of everybody.
THEOREM NoOrphanAlways == Spec => []NoOrphan
BY IndInvHolds, PTL DEF IndInv

\* A session about to be closed by somebody cannot be found by name any more.
THEOREM DoomedIsUnlistedAlways == Spec => []DoomedIsUnlisted
BY IndInvHolds, PTL DEF IndInv

\* A connected handler of an open session receives its output.
THEOREM RelayHasSinkAlways == Spec => []RelayHasSink
BY IndInvHolds, PTL DEF IndInv

\* A session enters the map once and, once forgotten, is over and unlisted for
\* good.
THEOREM NeverRelistedAlways == Spec => NeverRelisted
<1>1. IndInv /\ IndInv' /\ [Next]_vars =>
        [\A s \in Session :
            /\ s \in Registered' /\ s \notin Registered =>
                   forgetter[s] = "none" /\ forgetter'[s] = "waiting" /\ life[s] # "none"
            /\ forgetter[s] # "none" => forgetter'[s] # "none"
            /\ forgetter'[s] = "finished" => life'[s] = "closed" /\ s \notin Registered']_vars
  BY ListingStep DEF IndInv, ForgottenIsOver
<1> QED
  BY IndInvHolds, <1>1, PTL DEF Spec, NeverRelisted

-----------------------------------------------------------------------------
(* The registry with its locks, handlers, reaper, pumps and forgetters     *)
(* implements the atomic directory of SessionDirectory (safety part).      *)

USE ConstAssumption

\* A session's stage depends on the map, on whether it was started and on
\* whether its creator still has to insert it.
LEMMA StageSame ==
  ASSUME NEW s \in Session,
         s \in Registered <=> s \in Registered',
         life[s] = "none" <=> life'[s] = "none",
         Starting(s) <=> Starting(s)'
  PROVE  Stage(s)' = Stage(s)
BY DEF Stage

\* The four values of Stage.
LEMMA StageValues ==
  ASSUME NEW s \in Session
  PROVE  /\ life[s] = "none" => Stage(s) = "fresh"
         /\ life[s] # "none" /\ Starting(s) => Stage(s) = "starting"
         /\ life[s] # "none" /\ ~Starting(s) /\ s \in Registered => Stage(s) = "listed"
         /\ life[s] # "none" /\ ~Starting(s) /\ s \notin Registered => Stage(s) = "dropped"
BY DEF Stage

\* A listed session has no creator left that would insert it.
LEMMA ListedNotStarting ==
  ASSUME IndInv, NEW s \in Registered
  PROVE  ~Starting(s) /\ life[s] # "none"
BY DEF IndInv, PrivateWhileStarting, OnlyStartedKnown, Starting, Registered

\* Steps that move no session in or out of "insert" and leave the map alone.
LEMMA Quiet ==
  ASSUME IndInv, UNCHANGED <<sessions, life>>,
         \A c \in Client : (pc[c] = "insert" \/ pc'[c] = "insert") =>
             pc'[c] = pc[c] /\ held'[c] = held[c]
  PROVE  UNCHANGED Directory!vars
<1>1. Registered' = Registered
  BY DEF Registered
<1>2. \A s \in Session : Starting(s) <=> Starting(s)'
  BY DEF Starting
<1>3. \A s \in Session : Stage(s)' = Stage(s)
  BY <1>1, <1>2, StageSame
<1> QED
  BY <1>3 DEF Directory!vars

\* An empty registry is an empty directory.
LEMMA RefineInit == Init => Directory!Init
<1> SUFFICES ASSUME Init PROVE Directory!Init
  OBVIOUS
<1>1. \A s \in Session : Stage(s) = "fresh"
  BY StageValues DEF Init
<1> QED
  BY <1>1 DEF Init, Directory!Init

\* A step that takes the sessions of S out of the map drops them.
LEMMA Dropping ==
  ASSUME IndInv, NEW S \in SUBSET Session, S # {}, S \subseteq Registered,
         sessions' = [n \in Name |-> IF sessions[n] \in S THEN NoSession ELSE sessions[n]],
         life' = life,
         \A c \in Client : (pc[c] = "insert" \/ pc'[c] = "insert") =>
             pc'[c] = pc[c] /\ held'[c] = held[c]
  PROVE  Directory!Drop(S)
<1>1. Registered' = Registered \ S
  BY DEF Registered, IndInv, TypeOK, Shapes
<1>2. \A s \in Session : Starting(s) <=> Starting(s)'
  BY DEF Starting
<1>3. \A s \in Session : s \in S => Stage(s)' = "dropped"
  BY <1>1, <1>2, ListedNotStarting DEF Stage
<1>4. \A s \in Session : s \notin S => Stage(s)' = Stage(s)
  BY <1>1, <1>2, StageSame
<1>5. Directory!Listed = Registered
  BY DEF Directory!Listed, Registered
<1> QED
  BY <1>3, <1>4, <1>5 DEF Directory!Drop

\* Every step of the registry is one step of the directory, or none.
LEMMA RefineStep ==
  ASSUME IndInv, IndInv', [Next]_vars
  PROVE  [Directory!Next]_(Directory!vars)
<1> USE DEF IndInv, TypeOK, Shapes, PcOK, Assigned
<1> DEFINE Frame == /\ UNCHANGED <<sessions, life>>
                    /\ \A c \in Client : (pc[c] = "insert" \/ pc'[c] = "insert") =>
                          pc'[c] = pc[c] /\ held'[c] = held[c]
<1>1. ASSUME NEW c \in Client, NEW s \in Session, Spawn(c, s) PROVE Directory!Start(s)
  <2>1. life[s] = "none" /\ life' = [life EXCEPT ![s] = "open"] /\ Registered' = Registered
    BY <1>1 DEF Spawn, reg, Registered
  <2>2. \A r \in Session : r # s => (Starting(r) <=> Starting(r)')
    <3>1. /\ pc[c] = "spawn" /\ held'[c] = s
          /\ \A d \in Client : d # c => pc'[d] = pc[d] /\ held'[d] = held[d]
      BY <1>1, ConstAssumption DEF Spawn, Goroutine
    <3> HIDE DEF IndInv
    <3> QED
      BY <3>1 DEF Starting
  <2>3. Starting(s)'
    BY <1>1 DEF Spawn, Starting, Goroutine
  <2>4. Stage(s) = "fresh" /\ Stage(s)' = "starting"
    BY <2>1, <2>3 DEF Stage
  <2>5. \A r \in Session : r # s => Stage(r)' = Stage(r)
    BY <2>1, <2>2, StageSame
  <2>6. UNCHANGED sessions
    BY <1>1 DEF Spawn, reg
  <2>7. {r \in Session : life'[r] = "closed"} = {r \in Session : life[r] = "closed"}
    BY <2>1
  <2> HIDE DEF IndInv, TypeOK, Shapes, PcOK, Assigned
  <2> QED
    BY <2>4, <2>5, <2>6, <2>7 DEF Directory!Start
<1>2. ASSUME NEW c \in Client, Insert(c) PROVE Directory!Next
  <2> DEFINE s == held[c]
             n == arg[c]
  <2>1. s \in Session /\ n \in Name /\ life[s] # "none" /\ Starting(s) /\ UNCHANGED <<life, held>>
    BY <1>2 DEF Insert, OnlyStartedKnown, Starting, sess, Goroutine
  <2>2. \A r \in Session : r # s => (Starting(r) <=> Starting(r)')
    BY <1>2 DEF Insert, Starting, Goto, Goroutine
  <2>3. ~Starting(s)' /\ s \notin Registered
    BY <1>2 DEF Insert, Starting, Goto, Goroutine, PrivateWhileStarting
  <2>4. Stage(s) = "starting"
    BY <2>1 DEF Stage
  <2>5. CASE sessions[n] # NoSession
    <3>1. UNCHANGED sessions /\ Registered' = Registered
      BY <1>2, <2>5 DEF Insert, reg, Registered
    <3>2. Stage(s)' = "dropped"
      BY <2>1, <2>3, <3>1 DEF Stage
    <3>3. \A r \in Session : r # s => Stage(r)' = Stage(r)
      BY <2>1, <2>2, <3>1, StageSame
    <3>4. Directory!Listed # {}
      BY <2>1, <2>5 DEF Directory!Listed
    <3>5. Directory!Discard(s)
      BY <2>1, <2>4, <3>1, <3>2, <3>3, <3>4 DEF Directory!Discard
    <3> QED
      BY <2>1, <3>5 DEF Directory!Next
  <2>6. CASE sessions[n] = NoSession
    <3>1. sessions' = [sessions EXCEPT ![n] = s]
      BY <1>2, <2>6 DEF Insert
    <3>2. Registered' = Registered \cup {s}
      BY <2>1, <2>6, <3>1 DEF Registered
    <3>3. Stage(s)' = "listed"
      BY <2>1, <2>3, <3>2 DEF Stage
    <3>4. \A r \in Session : r # s => Stage(r)' = Stage(r)
      BY <2>1, <2>2, <3>2, StageSame
    <3>5. Directory!List(n, s)
      BY <2>1, <2>4, <2>6, <3>1, <3>3, <3>4 DEF Directory!List
    <3> QED
      BY <2>1, <3>5 DEF Directory!Next
  <2> QED
    BY <2>5, <2>6
<1>3. ASSUME NEW a \in Admin, NEW n \in Name, NEW m \in Name, PatchName(a, n, m)
      PROVE  Directory!Rekey(n, m)
  <2>1. Rename(n, m) /\ UNCHANGED <<life, held>>
    BY <1>3 DEF PatchName
  <2>2. \A s \in Session : s \in Registered <=> s \in Registered'
    <3>1. \A k \in Name : sessions'[k] = IF k = m THEN sessions[n] ELSE IF k = n THEN NoSession ELSE sessions[k]
      BY <2>1 DEF Rename
    <3> QED
      BY <2>1, <3>1 DEF Rename, Registered
  <2>3. \A s \in Session : Starting(s) <=> Starting(s)'
    BY <1>3 DEF PatchName, Starting, Goto, Goroutine
  <2>4. \A s \in Session : Stage(s)' = Stage(s)
    BY <2>1, <2>2, <2>3, StageSame
  <2> QED
    BY <2>1, <2>4 DEF Rename, Directory!Rekey
<1>4. ASSUME NEW a \in Admin, NEW n \in Name, Remove(a, n) PROVE Directory!Drop({sessions[n]})
  <2>1. sessions[n] \in Registered /\ life' = life
    BY <1>4 DEF Remove, Registered, sess
  <2>2. \A m \in Name : m # n => sessions[m] # sessions[n]
    BY <1>4 DEF Remove, KeyIsName
  <2>3. sessions' = [m \in Name |-> IF sessions[m] \in {sessions[n]} THEN NoSession ELSE sessions[m]]
    <3>1. sessions' = [sessions EXCEPT ![n] = NoSession] /\ sessions \in [Name -> Session \cup {NoSession}]
      BY <1>4 DEF Remove
    <3> HIDE DEF IndInv, TypeOK, Shapes, PcOK, Assigned
    <3> QED
      BY <2>2, <3>1
  <2>4. \A c \in Client : pc'[c] = pc[c] /\ held'[c] = held[c]
    BY <1>4 DEF Remove, Goto, Goroutine
  <2>5. {sessions[n]} \in SUBSET Session /\ {sessions[n]} # {} /\ {sessions[n]} \subseteq Registered
    BY <2>1 DEF Registered
  <2> HIDE DEF IndInv, TypeOK, Shapes, PcOK, Assigned
  <2> QED
    BY <2>1, <2>3, <2>4, <2>5, Dropping
<1>5. ASSUME ReapScan PROVE Directory!Drop(toReap')
  <2>1. toReap' # {} /\ toReap' \subseteq Registered /\ toReap' \in SUBSET Session
    BY <1>5 DEF ReapScan, Registered
  <2>2. \A c \in Client : pc'[c] = pc[c] /\ held'[c] = held[c]
    BY <1>5 DEF ReapScan, Goto, Goroutine, local
  <2>3. /\ sessions' = [n \in Name |-> IF sessions[n] \in toReap' THEN NoSession ELSE sessions[n]]
        /\ life' = life
    BY <1>5 DEF ReapScan, sess
  <2> QED
    BY <2>1, <2>2, <2>3, Dropping
<1>6. ASSUME NEW s \in Session, Forget(s) PROVE Directory!Drop({s}) \/ UNCHANGED Directory!vars
  <2>1. UNCHANGED <<life, pc, held>>
    BY <1>6 DEF Forget, sess, local
  <2>2. CASE sessions[name[s]] = s /\ name[s] \in Name
    <3>1. \A m \in Name : m # name[s] => sessions[m] # s
      BY DEF KeyIsName
    <3>2. sessions' = [m \in Name |-> IF sessions[m] \in {s} THEN NoSession ELSE sessions[m]]
      <4>1. /\ sessions' = [sessions EXCEPT ![name[s]] = NoSession]
            /\ sessions \in [Name -> Session \cup {NoSession}]
        BY <1>6, <2>2 DEF Forget
      <4> HIDE DEF IndInv, TypeOK, Shapes, PcOK, Assigned
      <4> QED
        BY <2>2, <3>1, <4>1
    <3>3. s \in Registered
      BY <2>2 DEF Registered
    <3>4. {s} \in SUBSET Session /\ {s} # {} /\ {s} \subseteq Registered
      BY <3>3
    <3> HIDE DEF IndInv, TypeOK, Shapes, PcOK, Assigned
    <3> QED
      BY <2>1, <3>2, <3>4, Dropping
  <2>3. CASE ~(sessions[name[s]] = s /\ name[s] \in Name)
    <3>1. UNCHANGED sessions
      BY <1>6, <2>3 DEF Forget
    <3> QED
      BY <2>1, <3>1, Quiet
  <2> QED
    BY <2>2, <2>3
<1>7. ASSUME NEW g \in Goroutine, Close(g) PROVE Directory!Next \/ UNCHANGED Directory!vars
  <2>1. /\ UNCHANGED sessions /\ Registered' = Registered
        /\ held[g] \in Session /\ life[held[g]] # "none"
    BY <1>7 DEF Close, reg, Registered, OnlyStartedKnown
  <2>2. \A c \in Client : (pc[c] = "insert" \/ pc'[c] = "insert") => pc'[c] = pc[c] /\ held'[c] = held[c]
    BY <1>7 DEF Close, ReturnFromClose, AfterClose, Goto, Goroutine
  <2>3. CASE life[held[g]] = "closed"
    BY <1>7, <2>1, <2>2, <2>3, Quiet DEF Close
  <2>4. CASE life[held[g]] # "closed"
    <3>1. life' = [life EXCEPT ![held[g]] = "closed"]
      BY <1>7, <2>4 DEF Close
    <3>2. \A s \in Session : Starting(s) <=> Starting(s)'
      BY <2>2 DEF Starting
    <3>3. \A s \in Session : Stage(s)' = Stage(s)
      BY <2>1, <3>1, <3>2, StageSame
    <3>4. Stage(held[g]) # "fresh"
      BY <2>1 DEF Stage
    <3>5. PICK s \in Session : s = held[g]
      BY <2>1
    <3>6. Directory!End(s)
      BY <2>1, <2>4, <3>1, <3>3, <3>4, <3>5 DEF Directory!End
    <3> QED
      BY <3>6 DEF Directory!Next
  <2> QED
    BY <2>3, <2>4
<1>9. ASSUME NEW c \in Client,
             \/ \E n \in Name, p \in BOOLEAN : Lookup(c, n, p)
             \/ SpawnFails(c) \/ Attach(c) \/ AttachFails(c) \/ ClientDrops(c) \/ SinkFails(c)
             \/ WatcherFires(c) \/ KeystrokeFails(c) \/ Detach(c)
      PROVE  Frame
  BY <1>9 DEF Lookup, SpawnFails, Attach, AttachFails, ClientDrops, SinkFails, WatcherFires,
     KeystrokeFails, Detach, Return, Goto, Goroutine, reg, sess, local
<1>10. ASSUME NEW a \in Admin,
             \/ \E n \in Name, p \in BOOLEAN : PatchPinned(a, n, p)
             \/ PinLookup(a) \/ PinSet(a)
      PROVE  Frame
  BY <1>10 DEF PatchPinned, PinLookup, PinSet, Return, Goto, Goroutine, reg, sess, local
<1>11. ASSUME ReapDone \/ Tick \/ (\E s \in Session : ReapNext(s) \/ ShellExits(s) \/ PumpEOF(s))
      PROVE  Frame
  BY <1>11 DEF ReapDone, Tick, ReapNext, ShellExits, PumpEOF, Goto, Goroutine, reg, sess, local
<1>12. ASSUME NEW g \in Goroutine, Kill(g) PROVE Frame
  BY <1>12 DEF Kill, ReturnFromClose, AfterClose, Goto, Goroutine, reg
<1>13. ASSUME UNCHANGED vars PROVE Frame
  BY <1>13 DEF vars, reg, sess, local
<1>14. Frame => UNCHANGED Directory!vars
  BY Quiet
<1>15. \A S \in SUBSET Session : Directory!Drop(S) => Directory!Next
  BY DEF Directory!Next
<1>16. ASSUME NEW a \in Admin, NEW n \in Name, Remove(a, n) PROVE Directory!Next
  <2>1. {sessions[n]} \in SUBSET Session
    BY <1>16 DEF Remove
  <2> HIDE DEF IndInv, TypeOK, Shapes, PcOK, Assigned
  <2> QED
    BY <1>4, <1>15, <1>16, <2>1
<1>17. ASSUME ReapScan PROVE Directory!Next
  BY <1>5, <1>15, <1>17
<1>18. ASSUME NEW s \in Session, Forget(s) PROVE Directory!Next \/ UNCHANGED Directory!vars
  <2>1. {s} \in SUBSET Session
    OBVIOUS
  <2> HIDE DEF IndInv, TypeOK, Shapes, PcOK, Assigned
  <2> QED
    BY <1>6, <1>15, <1>18, <2>1
<1>19. ASSUME NEW c \in Client, NEW s \in Session, Spawn(c, s) PROVE Directory!Next
  BY <1>1, <1>19 DEF Directory!Next
<1>20. ASSUME NEW a \in Admin, NEW n \in Name, NEW m \in Name, PatchName(a, n, m) PROVE Directory!Next
  BY <1>3, <1>20 DEF Directory!Next
<1> HIDE DEF IndInv, TypeOK, Shapes, PcOK, Assigned, Frame
<1> QED
  BY <1>2, <1>7, <1>9, <1>10, <1>11, <1>12, <1>13, <1>14, <1>16, <1>17, <1>18, <1>19, <1>20
  DEF Next, ClientStep, AdminStep, ReaperStep, CloseStep, Environment

\* Every behaviour of the registry is one of the directory: creation races, renames,
\* removals and idle collection look atomic to whoever looks a name up.
THEOREM Implements == Spec => ImplementsDirectory
<1>1. IndInv /\ IndInv' /\ [Next]_vars => [Directory!Next]_(Directory!vars)
  BY RefineStep
<1> QED
  BY RefineInit, IndInvHolds, <1>1, PTL DEF Spec, ImplementsDirectory, Directory!Spec
=============================================================================
