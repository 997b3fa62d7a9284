-------------------------- MODULE SessionStreamProofs --------------------------
(***************************************************************************)
(* Proofs about SessionStream, for every number of connections, size of    *)
(* the ring and length of the output.                                      *)
(***************************************************************************)
EXTENDS SessionStreamProps, TLAPS

USE StreamAssumption

\* What a write does to the ring.
LEMMA PushType ==
  ASSUME NEW S, NEW r \in Seq(S), NEW x \in S, Len(r) <= RingSize
  PROVE  Push(r, x) \in Seq(S)
BY DEF Push

\* ... and which chunks it then holds.
LEMMA PushFacts ==
  ASSUME NEW r \in Seq(Nat), NEW x \in Nat, Len(r) <= RingSize
  PROVE  /\ Len(Push(r, x)) = IF Len(r) < RingSize THEN Len(r) + 1 ELSE RingSize
         /\ \A i \in 1..Len(Push(r, x)) :
               Push(r, x)[i] = IF i = Len(Push(r, x)) THEN x
                               ELSE IF Len(r) < RingSize THEN r[i] ELSE r[i + 1]
<1>1. CASE Len(r) < RingSize
  BY <1>1 DEF Push
<1>2. CASE Len(r) = RingSize
  <2>1. /\ Tail(r) \in Seq(Nat) /\ Len(Tail(r)) = RingSize - 1
        /\ \A i \in 1..RingSize - 1 : Tail(r)[i] = r[i + 1]
    BY <1>2
  <2>2. /\ Append(Tail(r), x) \in Seq(Nat) /\ Len(Append(Tail(r), x)) = RingSize
        /\ \A i \in 1..RingSize - 1 : Append(Tail(r), x)[i] = Tail(r)[i]
        /\ Append(Tail(r), x)[RingSize] = x
    BY <2>1
  <2> QED
    BY <1>2, <2>1, <2>2 DEF Push
<1> QED
  BY <1>1, <1>2

\* A run of consecutive numbers, extended by the next one.
LEMMA AppendRun ==
  ASSUME NEW q \in Seq(Nat), NEW n \in Nat, NEW x \in Nat, x = n + Len(q) + 1,
         \A i \in 1..Len(q) : q[i] = n + i
  PROVE  \A i \in 1..Len(Append(q, x)) : Append(q, x)[i] = n + i
OBVIOUS

\* r holds the last numbers up to f, at most RingSize of them.
RunOf(r, f) ==
  /\ Len(r) = IF f < RingSize THEN f ELSE RingSize
  /\ \A i \in 1..Len(r) : r[i] = f - Len(r) + i

\* Pushing the next number keeps a ring recent.
LEMMA PushRun ==
  ASSUME NEW r \in Seq(Nat), NEW f \in Nat, RunOf(r, f)
  PROVE  RunOf(Push(r, f + 1), f + 1)
<1>1. Len(r) \in Nat /\ Len(r) <= RingSize /\ f + 1 \in Nat
  BY DEF RunOf
<1>2. \A i \in 1..Len(r) : r[i] = f - Len(r) + i
  BY DEF RunOf
<1> DEFINE p == Push(r, f + 1)
<1>3. Len(p) = IF Len(r) < RingSize THEN Len(r) + 1 ELSE RingSize
  BY <1>1, PushFacts
<1> HIDE DEF p
<1>4. \A i \in 1..Len(p) :
          p[i] = IF i = Len(p) THEN f + 1 ELSE IF Len(r) < RingSize THEN r[i] ELSE r[i + 1]
  BY <1>1, PushFacts DEF p
<1>5. Len(r) = IF f < RingSize THEN f ELSE RingSize
  BY DEF RunOf
<1> HIDE DEF p
<1>6. Len(p) = IF f + 1 < RingSize THEN f + 1 ELSE RingSize
  BY <1>1, <1>3, <1>5
<1>7. ASSUME NEW i \in 1..Len(p) PROVE p[i] = f + 1 - Len(p) + i
  <2>1. CASE i = Len(p)
    BY <1>4, <1>6, <2>1
  <2>2. CASE i # Len(p) /\ Len(r) < RingSize
    <3>1. i \in 1..Len(r) /\ p[i] = r[i] /\ Len(p) = Len(r) + 1
      BY <1>1, <1>3, <1>4, <1>7, <2>2
    <3> QED
      BY <1>1, <1>2, <3>1
  <2>3. CASE i # Len(p) /\ ~(Len(r) < RingSize)
    <3>1. i + 1 \in 1..Len(r) /\ p[i] = r[i + 1] /\ Len(p) = Len(r)
      BY <1>1, <1>3, <1>4, <1>7, <2>3
    <3> QED
      BY <1>1, <1>2, <3>1
  <2> QED
    BY <2>1, <2>2, <2>3
<1> QED
  BY <1>6, <1>7 DEF RunOf, p

\* What a replay consists of.
LEMMA ReplayFacts ==
  ASSUME ring \in Seq(1..MaxChunk), RingIsRecent, fed \in Nat
  PROVE  /\ Replay \in Seq(1..MaxChunk \cup {Clear})
         /\ \A i \in 1..Len(Replay) : Replay[i] # Clear => Replay[i] = fed - Len(Replay) + i
<1>1. CASE ring = << >>
  BY <1>1 DEF Replay
<1>2. CASE ring # << >>
  <2>1. <<Clear>> \in Seq(1..MaxChunk \cup {Clear}) /\ ring \in Seq(1..MaxChunk \cup {Clear})
    OBVIOUS
  <2>2. /\ Replay \in Seq(1..MaxChunk \cup {Clear})
        /\ Len(Replay) = Len(ring) + 1
        /\ Replay[1] = Clear
        /\ \A i \in 2..Len(ring) + 1 : Replay[i] = ring[i - 1]
    BY <1>2, <2>1 DEF Replay
  <2>3. \A i \in 1..Len(Replay) : i = 1 \/ i \in 2..Len(ring) + 1
    BY <2>2
  <2>4. \A i \in 2..Len(ring) + 1 : Replay[i] = fed - Len(ring) + (i - 1)
    BY <2>2 DEF RingIsRecent
  <2> QED
    BY <2>2, <2>3, <2>4
<1> QED
  BY <1>1, <1>2

\* Every step of pump and of the handlers keeps the types.
LEMMA TypeStep ==
  ASSUME StreamInv, [Next]_vars PROVE TypeOK'
<1> USE DEF StreamInv, TypeOK, pty, session, pump, handler, InFlight, RingIsRecent
<1>1. ASSUME PumpRead PROVE TypeOK'
  BY <1>1 DEF PumpRead
<1>2. ASSUME PumpFeed PROVE TypeOK'
  <2>1. ring \in Seq(1..MaxChunk) /\ fed + 1 \in 1..MaxChunk /\ Len(ring) <= RingSize
    BY <1>2 DEF PumpFeed
  <2>2. Push(ring, fed + 1) \in Seq(1..MaxChunk)
    BY <2>1, PushType
  <2> QED
    BY <1>2, <2>1, <2>2 DEF PumpFeed
<1>3. ASSUME NEW c \in Conn, PumpDeliver(c) PROVE TypeOK'
  <2>1. CASE conn[c] = "up"
    <3>1. live' = [live EXCEPT ![c] = Append(live[c], fed)] /\ UNCHANGED <<fed, from, sinks, conn>>
      BY <1>3, <2>1 DEF PumpDeliver
    <3>2. live[c] \in Seq(1..MaxChunk) /\ fed \in 1..MaxChunk /\ from[c] + Len(live[c]) = fed - 1
      BY <1>3 DEF PumpDeliver
    <3>3. /\ Append(live[c], fed) \in Seq(1..MaxChunk)
          /\ Len(Append(live[c], fed)) = Len(live[c]) + 1
          /\ \A i \in 1..Len(live[c]) : Append(live[c], fed)[i] = live[c][i]
          /\ Append(live[c], fed)[Len(live[c]) + 1] = fed
      BY <3>2
    <3> QED
      BY <1>3, <3>1, <3>3 DEF PumpDeliver
  <2>2. CASE conn[c] # "up"
    <3>1. UNCHANGED <<live, fed, from>> /\ sinks' = sinks \ {c} /\ targets' = targets \ {c}
      BY <1>3, <2>2 DEF PumpDeliver
    <3> QED
      BY <1>3, <2>2 DEF PumpDeliver
  <2> QED
    BY <2>1, <2>2
<1>4. ASSUME PumpNext PROVE TypeOK'
  BY <1>4 DEF PumpNext
<1>5. ASSUME PumpEOF PROVE TypeOK'
  BY <1>5 DEF PumpEOF, Close
<1>6. ASSUME NEW c \in Conn, Attach(c) PROVE TypeOK'
  <2>1. Replay \in Seq(1..MaxChunk \cup {Clear})
    BY ReplayFacts
  <2> QED
    BY <1>6, <2>1 DEF Attach
<1>7. ASSUME NEW c \in Conn, AttachFails(c) PROVE TypeOK'
  BY <1>7 DEF AttachFails
<1>8. ASSUME NEW c \in Conn, WriteReplay(c) PROVE TypeOK'
  BY <1>8 DEF WriteReplay
<1>9. ASSUME NEW c \in Conn, ReplayDone(c) PROVE TypeOK'
  BY <1>9 DEF ReplayDone
<1>10. ASSUME NEW c \in Conn, Leave(c) PROVE TypeOK'
  BY <1>10 DEF Leave
<1>11. ASSUME NEW c \in Conn, WatcherFires(c) PROVE TypeOK'
  BY <1>11 DEF WatcherFires
<1>12. ASSUME NEW c \in Conn, Network(c) PROVE TypeOK'
  BY <1>12 DEF Network
<1>13. ASSUME ShellWrites PROVE TypeOK'
  BY <1>13 DEF ShellWrites
<1>14. ASSUME ShellExits PROVE TypeOK'
  BY <1>14 DEF ShellExits
<1>15. ASSUME Kill PROVE TypeOK'
  BY <1>15 DEF Kill, Close
<1>16. ASSUME NEW c \in Conn, KeystrokeFails(c) PROVE TypeOK'
  BY <1>16 DEF KeystrokeFails
<1>17. CASE UNCHANGED vars
  BY <1>17 DEF vars
<1> HIDE DEF StreamInv, TypeOK, pty, session, pump, handler, InFlight, RingIsRecent
<1> QED
  BY <1>1, <1>2, <1>3, <1>4, <1>5, <1>6, <1>7, <1>8, <1>9, <1>10, <1>11, <1>12,
     <1>13, <1>14, <1>15, <1>16, <1>17
  DEF Next, PumpStep, HandlerStep

\* Each delivery extends the live stream by the next chunk.
LEMMA FollowStep ==
  ASSUME StreamInv, [Next]_vars PROVE LiveFollowsReplay'
<1> USE DEF StreamInv, TypeOK, LiveFollowsReplay, pty, session, pump, handler, InFlight
<1>1. ASSUME PumpRead PROVE LiveFollowsReplay'
  BY <1>1 DEF PumpRead
<1>2. ASSUME PumpFeed PROVE LiveFollowsReplay'
  BY <1>2 DEF PumpFeed, Push
<1>3. ASSUME NEW c \in Conn, PumpDeliver(c) PROVE LiveFollowsReplay'
  <2>1. CASE conn[c] = "up"
    <3>1. live' = [live EXCEPT ![c] = Append(live[c], fed)] /\ UNCHANGED <<fed, from, sinks, conn>>
      BY <1>3, <2>1 DEF PumpDeliver
    <3>2. live[c] \in Seq(1..MaxChunk) /\ fed \in 1..MaxChunk /\ from[c] + Len(live[c]) = fed - 1
      BY <1>3 DEF PumpDeliver
    <3>3. /\ Append(live[c], fed) \in Seq(1..MaxChunk)
          /\ Len(Append(live[c], fed)) = Len(live[c]) + 1
          /\ \A i \in 1..Len(live[c]) : Append(live[c], fed)[i] = live[c][i]
          /\ Append(live[c], fed)[Len(live[c]) + 1] = fed
      BY <3>2
    <3>4. \A d \in Conn : d # c => live'[d] = live[d]
      BY <3>1
    <3>5. live'[c] = Append(live[c], fed)
      BY <3>1
    <3>6. \A i \in 1..Len(Append(live[c], fed)) : Append(live[c], fed)[i] = from[c] + i
      <4>1. live[c] \in Seq(Nat) /\ from[c] \in Nat /\ fed = from[c] + Len(live[c]) + 1
        BY <3>2
      <4>2. \A i \in 1..Len(live[c]) : live[c][i] = from[c] + i
        OBVIOUS
      <4> QED
        BY <4>1, <4>2, AppendRun
    <3> QED
      BY <3>1, <3>3, <3>4, <3>5, <3>6
  <2>2. CASE conn[c] # "up"
    <3>1. UNCHANGED <<live, fed, from>> /\ sinks' = sinks \ {c} /\ targets' = targets \ {c}
      BY <1>3, <2>2 DEF PumpDeliver
    <3> QED
      BY <1>3, <3>1 DEF PumpDeliver
  <2> QED
    BY <2>1, <2>2
<1>4. ASSUME PumpNext PROVE LiveFollowsReplay'
  BY <1>4 DEF PumpNext
<1>5. ASSUME PumpEOF PROVE LiveFollowsReplay'
  BY <1>5 DEF PumpEOF, Close
<1>6. ASSUME NEW c \in Conn, Attach(c) PROVE LiveFollowsReplay'
  BY <1>6 DEF Attach, Replay
<1>7. ASSUME NEW c \in Conn, AttachFails(c) PROVE LiveFollowsReplay'
  BY <1>7 DEF AttachFails
<1>8. ASSUME NEW c \in Conn, WriteReplay(c) PROVE LiveFollowsReplay'
  BY <1>8 DEF WriteReplay
<1>9. ASSUME NEW c \in Conn, ReplayDone(c) PROVE LiveFollowsReplay'
  BY <1>9 DEF ReplayDone
<1>10. ASSUME NEW c \in Conn, Leave(c) PROVE LiveFollowsReplay'
  BY <1>10 DEF Leave
<1>11. ASSUME NEW c \in Conn, WatcherFires(c) PROVE LiveFollowsReplay'
  BY <1>11 DEF WatcherFires
<1>12. ASSUME NEW c \in Conn, Network(c) PROVE LiveFollowsReplay'
  BY <1>12 DEF Network
<1>13. ASSUME ShellWrites PROVE LiveFollowsReplay'
  BY <1>13 DEF ShellWrites
<1>14. ASSUME ShellExits PROVE LiveFollowsReplay'
  BY <1>14 DEF ShellExits
<1>15. ASSUME Kill PROVE LiveFollowsReplay'
  BY <1>15 DEF Kill, Close
<1>16. ASSUME NEW c \in Conn, KeystrokeFails(c) PROVE LiveFollowsReplay'
  BY <1>16 DEF KeystrokeFails
<1>17. CASE UNCHANGED vars
  BY <1>17 DEF vars
<1> HIDE DEF StreamInv, TypeOK, LiveFollowsReplay, pty, session, pump, handler, InFlight
<1> QED
  BY <1>1, <1>2, <1>3, <1>4, <1>5, <1>6, <1>7, <1>8, <1>9, <1>10, <1>11, <1>12,
     <1>13, <1>14, <1>15, <1>16, <1>17
  DEF Next, PumpStep, HandlerStep

\* pump leaves no sink behind while it writes to the others.
LEMMA SkipStep ==
  ASSUME StreamInv, [Next]_vars PROVE NothingSkipped'
<1> USE DEF StreamInv, TypeOK, NothingSkipped, pty, session, pump, handler, InFlight, EndIsFinal
<1>1. ASSUME PumpRead PROVE NothingSkipped'
  BY <1>1 DEF PumpRead
<1>2. ASSUME PumpFeed PROVE NothingSkipped'
  BY <1>2 DEF PumpFeed, Push
<1>3. ASSUME NEW c \in Conn, PumpDeliver(c) PROVE NothingSkipped'
  <2>1. CASE conn[c] = "up"
    <3>1. live' = [live EXCEPT ![c] = Append(live[c], fed)] /\ UNCHANGED <<fed, from, sinks, conn>>
      BY <1>3, <2>1 DEF PumpDeliver
    <3>2. live[c] \in Seq(1..MaxChunk) /\ fed \in 1..MaxChunk /\ from[c] + Len(live[c]) = fed - 1
      BY <1>3 DEF PumpDeliver
    <3>3. /\ Append(live[c], fed) \in Seq(1..MaxChunk)
          /\ Len(Append(live[c], fed)) = Len(live[c]) + 1
          /\ \A i \in 1..Len(live[c]) : Append(live[c], fed)[i] = live[c][i]
          /\ Append(live[c], fed)[Len(live[c]) + 1] = fed
      BY <3>2
    <3>4. targets' = targets \ {c} /\ c \in targets
      BY <1>3 DEF PumpDeliver
    <3>5. /\ live'[c] = Append(live[c], fed)
          /\ \A d \in Conn : d # c => live'[d] = live[d]
      BY <3>1
    <3>6. from[c] + Len(live'[c]) = fed
      BY <3>2, <3>3, <3>5
    <3>7. ASSUME NEW d \in sinks
          PROVE  from[d] + Len(live'[d]) = IF d \in targets' THEN fed - 1 ELSE fed
      BY <3>4, <3>5, <3>6
    <3> HIDE DEF StreamInv, TypeOK, InFlight, EndIsFinal
    <3> QED
      BY <3>1, <3>7
  <2>2. CASE conn[c] # "up"
    <3>1. UNCHANGED <<live, fed, from>> /\ sinks' = sinks \ {c} /\ targets' = targets \ {c}
      BY <1>3, <2>2 DEF PumpDeliver
    <3> QED
      BY <1>3, <3>1 DEF PumpDeliver
  <2> QED
    BY <2>1, <2>2
<1>4. ASSUME PumpNext PROVE NothingSkipped'
  BY <1>4 DEF PumpNext
<1>5. ASSUME PumpEOF PROVE NothingSkipped'
  BY <1>5 DEF PumpEOF, Close
<1>6. ASSUME NEW c \in Conn, Attach(c) PROVE NothingSkipped'
  BY <1>6 DEF Attach, Replay
<1>7. ASSUME NEW c \in Conn, AttachFails(c) PROVE NothingSkipped'
  BY <1>7 DEF AttachFails
<1>8. ASSUME NEW c \in Conn, WriteReplay(c) PROVE NothingSkipped'
  BY <1>8 DEF WriteReplay
<1>9. ASSUME NEW c \in Conn, ReplayDone(c) PROVE NothingSkipped'
  BY <1>9 DEF ReplayDone
<1>10. ASSUME NEW c \in Conn, Leave(c) PROVE NothingSkipped'
  BY <1>10 DEF Leave
<1>11. ASSUME NEW c \in Conn, WatcherFires(c) PROVE NothingSkipped'
  BY <1>11 DEF WatcherFires
<1>12. ASSUME NEW c \in Conn, Network(c) PROVE NothingSkipped'
  BY <1>12 DEF Network
<1>13. ASSUME ShellWrites PROVE NothingSkipped'
  BY <1>13 DEF ShellWrites
<1>14. ASSUME ShellExits PROVE NothingSkipped'
  BY <1>14 DEF ShellExits
<1>15. ASSUME Kill PROVE NothingSkipped'
  BY <1>15 DEF Kill, Close
<1>16. ASSUME NEW c \in Conn, KeystrokeFails(c) PROVE NothingSkipped'
  BY <1>16 DEF KeystrokeFails
<1>17. CASE UNCHANGED vars
  BY <1>17 DEF vars
<1> HIDE DEF StreamInv, TypeOK, NothingSkipped, pty, session, pump, handler, InFlight, EndIsFinal
<1> QED
  BY <1>1, <1>2, <1>3, <1>4, <1>5, <1>6, <1>7, <1>8, <1>9, <1>10, <1>11, <1>12,
     <1>13, <1>14, <1>15, <1>16, <1>17
  DEF Next, PumpStep, HandlerStep

\* Nothing is left to deliver when the end is announced.
LEMMA FinalStep ==
  ASSUME StreamInv, [Next]_vars PROVE FinalOutputSent'
<1> USE DEF StreamInv, TypeOK, FinalOutputSent, pty, session, pump, handler, InFlight, EndIsFinal
<1>1. ASSUME PumpRead PROVE FinalOutputSent'
  BY <1>1 DEF PumpRead
<1>2. ASSUME PumpFeed PROVE FinalOutputSent'
  BY <1>2 DEF PumpFeed, Push
<1>3. ASSUME NEW c \in Conn, PumpDeliver(c) PROVE FinalOutputSent'
  BY <1>3 DEF PumpDeliver
<1>4. ASSUME PumpNext PROVE FinalOutputSent'
  BY <1>4 DEF PumpNext
<1>5. ASSUME PumpEOF PROVE FinalOutputSent'
  BY <1>5 DEF PumpEOF, Close
<1>6. ASSUME NEW c \in Conn, Attach(c) PROVE FinalOutputSent'
  BY <1>6 DEF Attach, Replay
<1>7. ASSUME NEW c \in Conn, AttachFails(c) PROVE FinalOutputSent'
  BY <1>7 DEF AttachFails
<1>8. ASSUME NEW c \in Conn, WriteReplay(c) PROVE FinalOutputSent'
  BY <1>8 DEF WriteReplay
<1>9. ASSUME NEW c \in Conn, ReplayDone(c) PROVE FinalOutputSent'
  BY <1>9 DEF ReplayDone
<1>10. ASSUME NEW c \in Conn, Leave(c) PROVE FinalOutputSent'
  BY <1>10 DEF Leave
<1>11. ASSUME NEW c \in Conn, WatcherFires(c) PROVE FinalOutputSent'
  BY <1>11 DEF WatcherFires
<1>12. ASSUME NEW c \in Conn, Network(c) PROVE FinalOutputSent'
  BY <1>12 DEF Network
<1>13. ASSUME ShellWrites PROVE FinalOutputSent'
  BY <1>13 DEF ShellWrites
<1>14. ASSUME ShellExits PROVE FinalOutputSent'
  BY <1>14 DEF ShellExits
<1>15. ASSUME Kill PROVE FinalOutputSent'
  BY <1>15 DEF Kill, Close
<1>16. ASSUME NEW c \in Conn, KeystrokeFails(c) PROVE FinalOutputSent'
  BY <1>16 DEF KeystrokeFails
<1>17. CASE UNCHANGED vars
  BY <1>17 DEF vars
<1> HIDE DEF StreamInv, TypeOK, FinalOutputSent, pty, session, pump, handler, InFlight, EndIsFinal
<1> QED
  BY <1>1, <1>2, <1>3, <1>4, <1>5, <1>6, <1>7, <1>8, <1>9, <1>10, <1>11, <1>12,
     <1>13, <1>14, <1>15, <1>16, <1>17
  DEF Next, PumpStep, HandlerStep

\* A write keeps the newest chunks in the ring.
LEMMA RingStep ==
  ASSUME StreamInv, [Next]_vars PROVE RingIsRecent'
<1> USE DEF StreamInv, TypeOK, RingIsRecent, pty, session, pump, handler, InFlight
<1>1. ASSUME PumpRead PROVE RingIsRecent'
  BY <1>1 DEF PumpRead
<1>2. ASSUME PumpFeed PROVE RingIsRecent'
  <2>1. ring \in Seq(1..MaxChunk) /\ fed + 1 \in 1..MaxChunk /\ ring' = Push(ring, fed + 1) /\ fed' = fed + 1
    BY <1>2 DEF PumpFeed
  <2>2. Len(ring) <= RingSize
    OBVIOUS
  <2>3. ring \in Seq(Nat) /\ fed \in Nat
    BY <2>1
  <2>4. RunOf(ring, fed)
    BY DEF RunOf
  <2>5. RunOf(Push(ring, fed + 1), fed + 1)
    BY <2>3, <2>4, PushRun
  <2> HIDE DEF StreamInv, TypeOK, RingIsRecent, InFlight
  <2> QED
    BY <2>1, <2>5 DEF RunOf, RingIsRecent
<1>3. ASSUME NEW c \in Conn, PumpDeliver(c) PROVE RingIsRecent'
  BY <1>3 DEF PumpDeliver
<1>4. ASSUME PumpNext PROVE RingIsRecent'
  BY <1>4 DEF PumpNext
<1>5. ASSUME PumpEOF PROVE RingIsRecent'
  BY <1>5 DEF PumpEOF, Close
<1>6. ASSUME NEW c \in Conn, Attach(c) PROVE RingIsRecent'
  BY <1>6 DEF Attach, Replay
<1>7. ASSUME NEW c \in Conn, AttachFails(c) PROVE RingIsRecent'
  BY <1>7 DEF AttachFails
<1>8. ASSUME NEW c \in Conn, WriteReplay(c) PROVE RingIsRecent'
  BY <1>8 DEF WriteReplay
<1>9. ASSUME NEW c \in Conn, ReplayDone(c) PROVE RingIsRecent'
  BY <1>9 DEF ReplayDone
<1>10. ASSUME NEW c \in Conn, Leave(c) PROVE RingIsRecent'
  BY <1>10 DEF Leave
<1>11. ASSUME NEW c \in Conn, WatcherFires(c) PROVE RingIsRecent'
  BY <1>11 DEF WatcherFires
<1>12. ASSUME NEW c \in Conn, Network(c) PROVE RingIsRecent'
  BY <1>12 DEF Network
<1>13. ASSUME ShellWrites PROVE RingIsRecent'
  BY <1>13 DEF ShellWrites
<1>14. ASSUME ShellExits PROVE RingIsRecent'
  BY <1>14 DEF ShellExits
<1>15. ASSUME Kill PROVE RingIsRecent'
  BY <1>15 DEF Kill, Close
<1>16. ASSUME NEW c \in Conn, KeystrokeFails(c) PROVE RingIsRecent'
  BY <1>16 DEF KeystrokeFails
<1>17. CASE UNCHANGED vars
  BY <1>17 DEF vars
<1> HIDE DEF StreamInv, TypeOK, RingIsRecent, pty, session, pump, handler, InFlight
<1> QED
  BY <1>1, <1>2, <1>3, <1>4, <1>5, <1>6, <1>7, <1>8, <1>9, <1>10, <1>11, <1>12,
     <1>13, <1>14, <1>15, <1>16, <1>17
  DEF Next, PumpStep, HandlerStep

\* A replay is written from its beginning to the chunk before the live stream.
LEMMA ReplayStep ==
  ASSUME StreamInv, [Next]_vars PROVE ReplayIsRecent'
<1> USE DEF StreamInv, TypeOK, ReplayIsRecent, pty, session, pump, handler, RingIsRecent, InFlight
<1>1. ASSUME PumpRead PROVE ReplayIsRecent'
  BY <1>1 DEF PumpRead
<1>2. ASSUME PumpFeed PROVE ReplayIsRecent'
  BY <1>2 DEF PumpFeed, Push
<1>3. ASSUME NEW c \in Conn, PumpDeliver(c) PROVE ReplayIsRecent'
  BY <1>3 DEF PumpDeliver
<1>4. ASSUME PumpNext PROVE ReplayIsRecent'
  BY <1>4 DEF PumpNext
<1>5. ASSUME PumpEOF PROVE ReplayIsRecent'
  BY <1>5 DEF PumpEOF, Close
<1>6. ASSUME NEW c \in Conn, Attach(c) PROVE ReplayIsRecent'
  <2>1. \A d \in Conn : d # c => todo'[d] = todo[d] /\ from'[d] = from[d]
    BY <1>6 DEF Attach
  <2>2. todo'[c] = Replay /\ from'[c] = fed
    BY <1>6 DEF Attach
  <2> DEFINE r == Replay
  <2>3. \A i \in 1..Len(r) : r[i] # Clear => r[i] = fed - Len(r) + i
    BY ReplayFacts
  <2>4. todo'[c] = r
    BY <2>2
  <2>5. \A d \in Conn : d # c => \A i \in 1..Len(todo[d]) :
            todo[d][i] # Clear => todo[d][i] = from[d] - Len(todo[d]) + i
    OBVIOUS
  <2> HIDE DEF r, StreamInv, TypeOK, RingIsRecent, InFlight
  <2> QED
    BY <2>1, <2>2, <2>3, <2>4, <2>5
<1>7. ASSUME NEW c \in Conn, AttachFails(c) PROVE ReplayIsRecent'
  BY <1>7 DEF AttachFails
<1>8. ASSUME NEW c \in Conn, WriteReplay(c) PROVE ReplayIsRecent'
  BY <1>8 DEF WriteReplay
<1>9. ASSUME NEW c \in Conn, ReplayDone(c) PROVE ReplayIsRecent'
  BY <1>9 DEF ReplayDone
<1>10. ASSUME NEW c \in Conn, Leave(c) PROVE ReplayIsRecent'
  BY <1>10 DEF Leave
<1>11. ASSUME NEW c \in Conn, WatcherFires(c) PROVE ReplayIsRecent'
  BY <1>11 DEF WatcherFires
<1>12. ASSUME NEW c \in Conn, Network(c) PROVE ReplayIsRecent'
  BY <1>12 DEF Network
<1>13. ASSUME ShellWrites PROVE ReplayIsRecent'
  BY <1>13 DEF ShellWrites
<1>14. ASSUME ShellExits PROVE ReplayIsRecent'
  BY <1>14 DEF ShellExits
<1>15. ASSUME Kill PROVE ReplayIsRecent'
  BY <1>15 DEF Kill, Close
<1>16. ASSUME NEW c \in Conn, KeystrokeFails(c) PROVE ReplayIsRecent'
  BY <1>16 DEF KeystrokeFails
<1>17. CASE UNCHANGED vars
  BY <1>17 DEF vars
<1> HIDE DEF StreamInv, TypeOK, ReplayIsRecent, pty, session, pump, handler, RingIsRecent, InFlight
<1> QED
  BY <1>1, <1>2, <1>3, <1>4, <1>5, <1>6, <1>7, <1>8, <1>9, <1>10, <1>11, <1>12,
     <1>13, <1>14, <1>15, <1>16, <1>17
  DEF Next, PumpStep, HandlerStep

\* What is in flight to each connection.
LEMMA FlightStep ==
  ASSUME StreamInv, [Next]_vars PROVE InFlight'
<1> USE DEF StreamInv, TypeOK, InFlight, pty, session, pump, handler, NothingSkipped, EndIsFinal
<1>1. ASSUME PumpRead PROVE InFlight'
  BY <1>1 DEF PumpRead
<1>2. ASSUME PumpFeed PROVE InFlight'
  BY <1>2 DEF PumpFeed, Push
<1>3. ASSUME NEW c \in Conn, PumpDeliver(c) PROVE InFlight'
  BY <1>3 DEF PumpDeliver
<1>4. ASSUME PumpNext PROVE InFlight'
  BY <1>4 DEF PumpNext
<1>5. ASSUME PumpEOF PROVE InFlight'
  BY <1>5 DEF PumpEOF, Close
<1>6. ASSUME NEW c \in Conn, Attach(c) PROVE InFlight'
  BY <1>6 DEF Attach, Replay
<1>7. ASSUME NEW c \in Conn, AttachFails(c) PROVE InFlight'
  BY <1>7 DEF AttachFails
<1>8. ASSUME NEW c \in Conn, WriteReplay(c) PROVE InFlight'
  BY <1>8 DEF WriteReplay
<1>9. ASSUME NEW c \in Conn, ReplayDone(c) PROVE InFlight'
  BY <1>9 DEF ReplayDone
<1>10. ASSUME NEW c \in Conn, Leave(c) PROVE InFlight'
  BY <1>10 DEF Leave
<1>11. ASSUME NEW c \in Conn, WatcherFires(c) PROVE InFlight'
  BY <1>11 DEF WatcherFires
<1>12. ASSUME NEW c \in Conn, Network(c) PROVE InFlight'
  BY <1>12 DEF Network
<1>13. ASSUME ShellWrites PROVE InFlight'
  BY <1>13 DEF ShellWrites
<1>14. ASSUME ShellExits PROVE InFlight'
  BY <1>14 DEF ShellExits
<1>15. ASSUME Kill PROVE InFlight'
  BY <1>15 DEF Kill, Close
<1>16. ASSUME NEW c \in Conn, KeystrokeFails(c) PROVE InFlight'
  BY <1>16 DEF KeystrokeFails
<1>17. CASE UNCHANGED vars
  BY <1>17 DEF vars
<1> HIDE DEF StreamInv, TypeOK, InFlight, pty, session, pump, handler, NothingSkipped, EndIsFinal
<1> QED
  BY <1>1, <1>2, <1>3, <1>4, <1>5, <1>6, <1>7, <1>8, <1>9, <1>10, <1>11, <1>12,
     <1>13, <1>14, <1>15, <1>16, <1>17
  DEF Next, PumpStep, HandlerStep

\* What has happened when the session is closed.
LEMMA EndStep ==
  ASSUME StreamInv, [Next]_vars PROVE EndIsFinal'
<1> USE DEF StreamInv, TypeOK, EndIsFinal, pty, session, pump, handler, InFlight, NothingSkipped
<1>1. ASSUME PumpRead PROVE EndIsFinal'
  BY <1>1 DEF PumpRead
<1>2. ASSUME PumpFeed PROVE EndIsFinal'
  BY <1>2 DEF PumpFeed, Push
<1>3. ASSUME NEW c \in Conn, PumpDeliver(c) PROVE EndIsFinal'
  BY <1>3 DEF PumpDeliver
<1>4. ASSUME PumpNext PROVE EndIsFinal'
  BY <1>4 DEF PumpNext
<1>5. ASSUME PumpEOF PROVE EndIsFinal'
  BY <1>5 DEF PumpEOF, Close
<1>6. ASSUME NEW c \in Conn, Attach(c) PROVE EndIsFinal'
  BY <1>6 DEF Attach, Replay
<1>7. ASSUME NEW c \in Conn, AttachFails(c) PROVE EndIsFinal'
  BY <1>7 DEF AttachFails
<1>8. ASSUME NEW c \in Conn, WriteReplay(c) PROVE EndIsFinal'
  BY <1>8 DEF WriteReplay
<1>9. ASSUME NEW c \in Conn, ReplayDone(c) PROVE EndIsFinal'
  BY <1>9 DEF ReplayDone
<1>10. ASSUME NEW c \in Conn, Leave(c) PROVE EndIsFinal'
  BY <1>10 DEF Leave
<1>11. ASSUME NEW c \in Conn, WatcherFires(c) PROVE EndIsFinal'
  BY <1>11 DEF WatcherFires
<1>12. ASSUME NEW c \in Conn, Network(c) PROVE EndIsFinal'
  BY <1>12 DEF Network
<1>13. ASSUME ShellWrites PROVE EndIsFinal'
  BY <1>13 DEF ShellWrites
<1>14. ASSUME ShellExits PROVE EndIsFinal'
  BY <1>14 DEF ShellExits
<1>15. ASSUME Kill PROVE EndIsFinal'
  BY <1>15 DEF Kill, Close
<1>16. ASSUME NEW c \in Conn, KeystrokeFails(c) PROVE EndIsFinal'
  BY <1>16 DEF KeystrokeFails
<1>17. CASE UNCHANGED vars
  BY <1>17 DEF vars
<1> HIDE DEF StreamInv, TypeOK, EndIsFinal, pty, session, pump, handler, InFlight, NothingSkipped
<1> QED
  BY <1>1, <1>2, <1>3, <1>4, <1>5, <1>6, <1>7, <1>8, <1>9, <1>10, <1>11, <1>12,
     <1>13, <1>14, <1>15, <1>16, <1>17
  DEF Next, PumpStep, HandlerStep

\* The inductive invariant of the output stream.
THEOREM StreamInvHolds == Spec => []StreamInv
<1>1. Init => StreamInv
  <2> SUFFICES ASSUME Init PROVE StreamInv
    OBVIOUS
  <2> USE DEF Init
  <2>1. TypeOK
    <3>1. << >> \in Seq(1..MaxChunk) /\ << >> \in Seq(1..MaxChunk \cup {Clear}) /\ 0 \in 0..MaxChunk
      OBVIOUS
    <3> QED
      BY <3>1 DEF TypeOK
  <2>2. LiveFollowsReplay /\ NothingSkipped /\ FinalOutputSent /\ ReplayIsRecent
    BY DEF LiveFollowsReplay, NothingSkipped, FinalOutputSent, ReplayIsRecent
  <2>3. RingIsRecent
    BY DEF RingIsRecent
  <2>4. InFlight /\ EndIsFinal
    BY DEF InFlight, EndIsFinal
  <2> QED
    BY <2>1, <2>2, <2>3, <2>4 DEF StreamInv
<1>2. StreamInv /\ [Next]_vars => StreamInv'
  BY TypeStep, FollowStep, SkipStep, FinalStep, RingStep, ReplayStep, FlightStep, EndStep
  DEF StreamInv
<1> QED
  BY <1>1, <1>2, PTL DEF Spec

\* The live stream of a connection continues its replay, without gap or repetition.
THEOREM LiveFollowsReplayAlways == Spec => []LiveFollowsReplay
BY StreamInvHolds, PTL DEF StreamInv

\* No attached connection is ever more than the chunk in flight behind.
THEOREM NothingSkippedAlways == Spec => []NothingSkipped
BY StreamInvHolds, PTL DEF StreamInv

\* The watcher announces "session ended" after the last byte of a shell that
\* exited.
THEOREM FinalOutputSentAlways == Spec => []FinalOutputSent
BY StreamInvHolds, PTL DEF StreamInv

\* A client that attaches is replayed the newest output, up to the chunk before
\* its live stream.
THEOREM ReplayIsRecentAlways == Spec => []ReplayIsRecent
BY StreamInvHolds, PTL DEF StreamInv
=============================================================================
