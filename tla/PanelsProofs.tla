------------------------------ MODULE PanelsProofs ------------------------------
(***************************************************************************)
(* What the parts of MCPanels keep to, whatever their constants are: the    *)
(* invariants of those that BackendPanelsProofs has not, and the theorems   *)
(* of all of them, by the part a behaviour is of.                           *)
(***************************************************************************)
EXTENDS MCPanels, BackendPanelsProofs, SequenceTheorems

-----------------------------------------------------------------------------
(* The scrollback ring: RingBuffer.                                        *)

\* newRingBuffer's ring satisfies the invariant.
LEMMA RingInit == Init => RingInv
BY RingAssumption DEF Init, RingInv, TypeOK, Index, Lesser

\* A write no larger than the bounds leaves every byte where RingInv says.
LEMMA WriteStep ==
    ASSUME NEW len \in 0..MaxWrite, RingInv, Write(len)
    PROVE  RingInv'
<1> USE RingAssumption DEF RingInv, TypeOK, Index, Lesser
<1>0. /\ size \in Nat /\ len \in Nat /\ total \in Nat /\ writePos \in Nat /\ filled \in Nat
      /\ size' = size /\ total' = total + len /\ total' \in 0..MaxByte
  BY DEF Write
<1>1. CASE size = 0
  <2>1. UNCHANGED <<buf, writePos, filled>>
    BY <1>0, <1>1 DEF Write
  <2>2. filled = 0 /\ Lesser(total + len, size) = 0
    BY <1>0, <1>1
  <2> QED
    BY <1>0, <1>1, <2>1, <2>2
<1>2. CASE size > 0 /\ len >= size
  <2>1. /\ buf' = [i \in Index |-> total + len - size + i + 1]
        /\ writePos' = 0 /\ filled' = size
    BY <1>0, <1>2 DEF Write
  <2>2. \A i \in Index : i \in Nat /\ i < size /\ total + len - size + i + 1 \in 0..MaxByte
    BY <1>0, <1>2
  <2> QED
    BY <1>0, <1>2, <2>1, <2>2
<1>3. CASE len < size
  <2>1. /\ buf' = Copied(len) /\ writePos' = Advance(len)
        /\ filled' = Lesser(filled + len, size)
    BY <1>0, <1>3 DEF Write
  <2>2. /\ writePos' \in 0..(size - 1)
        /\ filled' = Lesser(total + len, size)
        /\ filled' < size => writePos' = filled'
    BY <1>0, <1>3, <2>1 DEF Advance
  <2>3. ASSUME NEW i \in Index
        PROVE  \/ /\ i >= writePos /\ i < writePos + len
                  /\ buf'[i] = total + 1 + i - writePos
               \/ /\ i < writePos /\ i + size < writePos + len
                  /\ buf'[i] = total + 1 + i + size - writePos
               \/ /\ ~(i >= writePos /\ i < writePos + len) /\ i + size >= writePos + len
                  /\ buf'[i] = buf[i]
    <3>1. buf'[i] = CASE i >= writePos /\ i < writePos + len -> total + 1 + i - writePos
                      [] i + size < writePos + len           -> total + 1 + i + size - writePos
                      [] OTHER                               -> buf[i]
      BY <2>1, <2>3 DEF Copied
    <3>2. i \in Nat /\ i < size /\ writePos < size
      BY <1>0, <1>3, <2>3
    <3> HIDE DEF RingInv, TypeOK, Index
    <3> QED
      BY <1>0, <1>3, <3>1, <3>2
  <2>4. buf' \in [Index -> 0..MaxByte]
    <3>1. ASSUME NEW i \in Index PROVE buf'[i] \in 0..MaxByte
      <4>1. i \in Nat /\ i < size /\ buf[i] \in 0..MaxByte
        BY <1>0
      <4>2. CASE buf'[i] = buf[i]
        BY <4>1, <4>2
      <4>3. CASE i >= writePos /\ i < writePos + len /\ buf'[i] = total + 1 + i - writePos
        BY <1>0, <4>1, <4>3
      <4>4. CASE i < writePos /\ i + size < writePos + len /\ buf'[i] = total + 1 + i + size - writePos
        BY <1>0, <4>1, <4>4
      <4> QED
        BY <2>3, <4>2, <4>3, <4>4
    <3>2. buf' = [i \in Index |-> buf'[i]]
      BY <2>1 DEF Copied
    <3> QED
      BY <3>1, <3>2
  <2> HIDE DEF Lesser
  <2>5. ASSUME NEW i \in Index, i < writePos'
        PROVE  buf'[i] = total' - writePos' + i + 1
    <3>1. CASE writePos + len < size
      BY <1>0, <1>3, <2>1, <2>3, <2>5, <3>1 DEF Advance
    <3>2. CASE writePos + len >= size
      BY <1>0, <1>3, <2>1, <2>3, <2>5, <3>2 DEF Advance
    <3> QED
      BY <1>0, <3>1, <3>2
  <2>6. ASSUME NEW i \in Index, i >= writePos', filled' = size
        PROVE  buf'[i] + size = total' - writePos' + i + 1
    <3>1. CASE writePos + len < size
      <4>1. filled = size
        BY <1>0, <1>3, <2>1, <2>6, <3>1 DEF Lesser
      <4> QED
        BY <1>0, <1>3, <2>1, <2>3, <2>6, <3>1, <4>1 DEF Advance
    <3>2. CASE writePos + len >= size
      <4>1. writePos' = writePos + len - size /\ i \in Nat /\ i < size
        BY <1>0, <2>1, <2>6, <3>2 DEF Advance
      <4>2. CASE i >= writePos
        <5>1. buf'[i] = total + 1 + i - writePos
          <6> HIDE DEF RingInv, TypeOK
          <6> QED
            BY <1>0, <2>3, <2>6, <3>2, <4>1, <4>2
        <5>2. buf'[i] + size = total + len - (writePos + len - size) + i + 1
          BY <1>0, <4>1, <4>2, <5>1
        <5> QED
          BY <1>0, <4>1, <5>2
      <4>3. CASE i < writePos
        <5>1. buf[i] = total - writePos + i + 1
          BY <4>3
        <5>2. buf'[i] = buf[i]
          BY <1>0, <2>3, <2>6, <4>1, <4>3
        <5> QED
          BY <1>0, <4>1, <4>3, <5>1, <5>2
      <4> QED
        BY <1>0, <4>1, <4>2, <4>3
    <3> QED
      BY <1>0, <3>1, <3>2
  <2>7. /\ size' \in Capacity /\ Index' = Index /\ filled' \in 0..size
        /\ writePos' \in 0..size /\ writePos' < size
    BY <1>0, <1>3, <2>2 DEF Lesser
  <2>8. TypeOK'
    BY <1>0, <2>4, <2>7
  <2>9. filled' = Lesser(total', size') /\ (filled' < size' => writePos' = filled')
    BY <1>0, <2>2
  <2>10. \A i \in Index' :
            /\ i < writePos' => buf'[i] = total' - writePos' + i + 1
            /\ i >= writePos' /\ filled' = size' => buf'[i] + size' = total' - writePos' + i + 1
    <3> HIDE DEF Index
    <3> QED
      BY <1>0, <2>5, <2>6, <2>7
  <2> HIDE DEF TypeOK, Index
  <2> QED
    BY <2>8, <2>9, <2>10
<1> QED
  BY <1>0, <1>1, <1>2, <1>3

\* Every step of the ring keeps the invariant.
LEMMA RingSteps == ASSUME RingInv, [Next]_vars PROVE RingInv'
<1>1. CASE UNCHANGED vars
  BY <1>1 DEF RingInv, TypeOK, Index, Lesser, vars
<1> QED
  BY <1>1, WriteStep DEF Next

\* What is replayed is the newest output, oldest byte first.
LEMMA RingIsRecent == ASSUME RingInv PROVE SnapshotIsRecent
<1> USE RingAssumption DEF RingInv, TypeOK, Index, Lesser
<1>0. size \in Nat /\ total \in Nat /\ writePos \in Nat /\ filled \in Nat
  OBVIOUS
<1>1. CASE filled < size
  BY <1>0, <1>1 DEF SnapshotIsRecent, Snapshot
<1>2. CASE filled = size
  <2> DEFINE read(i) == IF i <= size - writePos THEN buf[writePos + i - 1]
                                               ELSE buf[writePos + i - 1 - size]
  <2>1. \A i \in 1..size : read(i) = total - size + i
    BY <1>0, <1>2
  <2>2. Snapshot = [i \in 1..size |-> read(i)]
    BY <1>0, <1>2 DEF Snapshot
  <2> HIDE DEF read
  <2> QED
    BY <1>0, <1>2, <2>1, <2>2 DEF SnapshotIsRecent
<1> QED
  BY <1>0, <1>1, <1>2

\* RingInv holds for every ring.
THEOREM RingInvHolds == Spec => []RingInv
BY RingInit, RingSteps, PTL DEF Spec

\* What a connection is replayed is the newest output, oldest byte first.
THEOREM SnapshotIsRecentAlways == Spec => []SnapshotIsRecent
<1>1. RingInv => SnapshotIsRecent
  BY RingIsRecent
<1> QED
  BY RingInvHolds, <1>1, PTL

-----------------------------------------------------------------------------
(* The prompt for a password: UnlockPrompt.                                *)

\* The initial states satisfy the invariant.
LEMMA PromptWaitInit == ASSUME Prompt!Init PROVE Prompt!WaitInv
BY DEF Prompt!Init, Prompt!WaitInv, Prompt!NoSilentWait, Prompt!PromptIsUp, Prompt!Visible, Prompt!ShowCard

\* What the effects leave is right, whatever becomes of the card.
LEMMA PromptEffects ==
    ASSUME Prompt!WaitInv, NEW o, NEW h, Prompt!Effects(o, h), x3' \in [Prompt!Request -> {"idle", "refused", "waiting"}],
           x4' = {r \in Prompt!Request : x3'[r] = "waiting"}, x4' # {} => o
    PROVE  Prompt!WaitInv'
BY DEF Prompt!WaitInv, Prompt!NoSilentWait, Prompt!PromptIsUp, Prompt!Visible, Prompt!Effects

\* Nobody waits once all are released.
LEMMA PromptReleased ==
    ASSUME Prompt!WaitInv, x3' = Prompt!Released, x4' = {}
    PROVE  /\ x3' \in [Prompt!Request -> {"idle", "refused", "waiting"}]
           /\ x4' = {r \in Prompt!Request : x3'[r] = "waiting"}
BY DEF Prompt!WaitInv, Prompt!NoSilentWait, Prompt!PromptIsUp, Prompt!Released

\* The prompt, the card and who waits stay as they are.
LEMMA PromptStays ==
    ASSUME Prompt!WaitInv, UNCHANGED <<x4, x5, x6, x10, x11, x12>>, x7' = x7 \/ x7' # "none",
           x3' \in [Prompt!Request -> {"idle", "refused", "waiting"}],
           \A r \in Prompt!Request : x3'[r] = "waiting" <=> x3[r] = "waiting"
    PROVE  Prompt!WaitInv'
BY DEF Prompt!WaitInv, Prompt!NoSilentWait, Prompt!PromptIsUp, Prompt!Visible, Prompt!ShowCard

\* A request that waits finds the prompt up, or puts it up.
LEMMA PromptAwait ==
    ASSUME Prompt!WaitInv, NEW r \in Prompt!Request, Prompt!Await(r) PROVE Prompt!WaitInv'
<1>1. Prompt!Effects(TRUE, x6) /\ x3' \in [Prompt!Request -> {"idle", "refused", "waiting"}]
  BY DEF Prompt!Await, Prompt!WaitInv, Prompt!PromptIsUp
<1>2. x4' = {q \in Prompt!Request : x3'[q] = "waiting"}
  BY DEF Prompt!Await, Prompt!WaitInv, Prompt!NoSilentWait, Prompt!PromptIsUp
<1> QED
  BY <1>1, <1>2, PromptEffects

\* A prompt that ends answers everyone who waits.
LEMMA PromptFinish == ASSUME Prompt!WaitInv, Prompt!Finish PROVE Prompt!WaitInv'
<1>1. x3' = Prompt!Released /\ x4' = {} /\ Prompt!Effects(FALSE, FALSE)
  BY DEF Prompt!Finish
<1> QED
  BY <1>1, PromptReleased, PromptEffects

\* The card comes or goes, or what it knows changes.
LEMMA PromptCard ==
    ASSUME Prompt!WaitInv, NEW h \in {x6, FALSE}, Prompt!Effects(x5, h), UNCHANGED <<x3, x4>>
    PROVE  Prompt!WaitInv'
<1>1. x3' \in [Prompt!Request -> {"idle", "refused", "waiting"}] /\ (x4' # {} => x5)
  BY DEF Prompt!WaitInv, Prompt!PromptIsUp
<1>2. x4' = {r \in Prompt!Request : x3'[r] = "waiting"}
  BY DEF Prompt!WaitInv, Prompt!NoSilentWait
<1> QED
  BY <1>1, <1>2, PromptEffects

\* Every step keeps the invariant.
LEMMA PromptWaitStep == ASSUME Prompt!WaitInv, Prompt!Next PROVE Prompt!WaitInv'
<1>0. x3 \in [Prompt!Request -> {"idle", "refused", "waiting"}]
  BY DEF Prompt!WaitInv, Prompt!PromptIsUp
<1>1. ASSUME NEW r \in Prompt!Request, Prompt!RequestUnlock(r) \/ Prompt!Refuse(r) \/ Prompt!Prompt(r) \/ Prompt!PollRefused(r)
      PROVE  Prompt!WaitInv'
  <2>1. CASE Prompt!RequestUnlock(r)
    BY <2>1, PromptAwait DEF Prompt!RequestUnlock
  <2>2. CASE Prompt!Refuse(r)
    BY <1>0, <2>2, PromptStays DEF Prompt!Refuse, Prompt!modal, Prompt!card
  <2>3. CASE Prompt!Prompt(r)
    BY <1>0, <2>3, PromptStays, PromptAwait DEF Prompt!Prompt, Prompt!card
  <2>4. CASE Prompt!PollRefused(r)
    BY <1>0, <2>4, PromptStays DEF Prompt!PollRefused
  <2> QED
    BY <1>1, <2>1, <2>2, <2>3, <2>4
<1>2. CASE Prompt!CooldownEnds \/ Prompt!Begin \/ Prompt!Submit \/ Prompt!SubmitServed
  BY <1>0, <1>2, PromptStays DEF Prompt!CooldownEnds, Prompt!Begin, Prompt!Submit, Prompt!SubmitServed, Prompt!calls, Prompt!modal, Prompt!card
<1>3. CASE Prompt!CardSubmit \/ Prompt!CardServed \/ Prompt!CardDone \/ Prompt!Dismiss
  BY <1>0, <1>3, PromptStays DEF Prompt!CardSubmit, Prompt!CardServed, Prompt!CardDone, Prompt!Dismiss, Prompt!calls, Prompt!modal
<1>4. CASE Prompt!RecheckServed \/ Prompt!CheckServed \/ Prompt!CheckFails \/ Prompt!Expire \/ Prompt!Elsewhere \/ Prompt!Echo
  BY <1>0, <1>4, PromptStays DEF Prompt!RecheckServed, Prompt!CheckServed, Prompt!CheckFails, Prompt!Expire, Prompt!Elsewhere, Prompt!Echo, Prompt!calls, Prompt!modal, Prompt!card
<1>5. CASE Prompt!Cancel \/ Prompt!SubmitDone
  <2>1. x3' = Prompt!Released /\ x4' = {} /\ Prompt!Effects(FALSE, FALSE)
    BY <1>5 DEF Prompt!Cancel, Prompt!SubmitDone, Prompt!Released
  <2> QED
    BY <2>1, PromptReleased, PromptEffects
<1>6. CASE Prompt!Mount \/ Prompt!Unmount
  BY <1>6, PromptCard DEF Prompt!Mount, Prompt!Unmount, Prompt!calls
<1>7. ASSUME NEW i \in DOMAIN x13, Prompt!AskServed(i) \/ Prompt!AskDone(i) \/ Prompt!AskFails(i) PROVE Prompt!WaitInv'
  <2>1. CASE Prompt!AskServed(i)
    BY <1>0, <2>1, PromptStays DEF Prompt!AskServed, Prompt!calls, Prompt!modal
  <2>2. CASE Prompt!AskDone(i) \/ Prompt!AskFails(i)
    BY <2>2, PromptCard DEF Prompt!AskDone, Prompt!AskFails, Prompt!calls
  <2> QED
    BY <1>7, <2>1, <2>2
<1>8. CASE Prompt!RecheckDone \/ Prompt!RecheckLocked
  BY <1>8, PromptFinish, PromptCard DEF Prompt!RecheckDone, Prompt!RecheckLocked, Prompt!calls
<1>9. CASE Prompt!CheckDone
  BY <1>0, <1>9, PromptFinish, PromptStays DEF Prompt!CheckDone, Prompt!calls, Prompt!card
<1> QED
  BY <1>1, <1>2, <1>3, <1>4, <1>5, <1>6, <1>7, <1>8, <1>9 DEF Prompt!Next

\* So does a step that leaves the variables of the part alone.
LEMMA PromptWaitStill == ASSUME Prompt!WaitInv, UNCHANGED <<x3, x4, x5, x6, x7, x10, x11, x12>> PROVE Prompt!WaitInv'
<1>1. x3' \in [Prompt!Request -> {"idle", "refused", "waiting"}]
  BY DEF Prompt!WaitInv, Prompt!PromptIsUp
<1> QED
  BY <1>1, PromptStays

\* What is left of the requests is a sequence of them, one shorter.
LEMMA PromptAfter ==
    ASSUME x13 \in Seq(Prompt!Ask), NEW i \in DOMAIN x13
    PROVE  /\ Prompt!After(i) \in Seq(Prompt!Ask) /\ DOMAIN Prompt!After(i) = 1..Len(x13) - 1
           /\ \A j \in 1..Len(x13) - 1 : \A k \in {IF j < i THEN j ELSE j + 1} :
                 /\ Prompt!After(i)[j].says = x13[k].says
                 /\ Prompt!After(i)[j].passed = (x13[k].passed \/ k < i \/ x13[k].says # "asked")
<1> DEFINE n == Len(x13) - 1
           k(j) == IF j < i THEN j ELSE j + 1
           e(j) == [x13[k(j)] EXCEPT !.passed = @ \/ k(j) < i \/ x13[k(j)].says # "asked"]
<1>1. n \in Nat /\ i \in 1..Len(x13) /\ DOMAIN x13 = 1..Len(x13)
  OBVIOUS
<1>2. ASSUME NEW j \in 1..n PROVE k(j) \in 1..Len(x13) /\ x13[k(j)] \in Prompt!Ask
  <2>1. k(j) \in 1..Len(x13)
    BY <1>1
  <2> QED
    BY <2>1, ElementOfSeq
<1>3. ASSUME NEW j \in 1..n
      PROVE  /\ e(j) \in Prompt!Ask
             /\ e(j).says = x13[k(j)].says
             /\ e(j).passed = (x13[k(j)].passed \/ k(j) < i \/ x13[k(j)].says # "asked")
  <2> HIDE DEF k
  <2> DEFINE b == x13[k(j)].passed \/ k(j) < i \/ x13[k(j)].says # "asked"
  <2>1. b \in BOOLEAN
    OBVIOUS
  <2>2. e(j) = [x13[k(j)] EXCEPT !.passed = b]
    BY <1>2 DEF Prompt!Ask
  <2>3. x13[k(j)] \in Prompt!Ask
    BY <1>2
  <2> HIDE DEF b, e
  <2>4. e(j) \in Prompt!Ask /\ e(j).says = x13[k(j)].says /\ e(j).passed = b
    BY <2>1, <2>2, <2>3 DEF Prompt!Ask
  <2> QED
    BY <2>4 DEF b
<1>4. Prompt!After(i) = [j \in 1..n |-> e(j)]
  BY DEF Prompt!After
<1> HIDE DEF e, k, n
<1>5. Prompt!After(i) \in Seq(Prompt!Ask) /\ DOMAIN Prompt!After(i) = 1..n
  <2>1. [j \in 1..n |-> e(j)] \in Seq(Prompt!Ask)
    BY <1>1, <1>3, IsASeq
  <2>2. DOMAIN Prompt!After(i) = 1..n
    BY <1>4
  <2> QED
    BY <1>4, <2>1, <2>2
<1>6. ASSUME NEW j \in 1..n PROVE Prompt!After(i)[j] = e(j)
  BY <1>4
<1> QED
  BY <1>3, <1>5, <1>6 DEF k, n

\* Another request of the card is the last of all and has no answer.
LEMMA PromptAsksAgain ==
    ASSUME x13 \in Seq(Prompt!Ask), x13' = Append(x13, [says |-> "asked", passed |-> FALSE])
    PROVE  /\ x13' \in Seq(Prompt!Ask)
           /\ \E j \in DOMAIN x13' : x13'[j].says # "locked" /\ \A i \in DOMAIN x13' \ {j} : i < j
<1> DEFINE a == [says |-> "asked", passed |-> FALSE]
<1>1. a \in Prompt!Ask /\ a.says # "locked"
  BY DEF Prompt!Ask
<1> HIDE DEF a
<1>2. x13' = Append(x13, a)
  BY DEF a
<1>3. /\ x13' \in Seq(Prompt!Ask) /\ Len(x13') = Len(x13) + 1
      /\ x13'[Len(x13) + 1] = a
  BY <1>1, <1>2, AppendProperties
<1>4. DOMAIN x13' = 1..Len(x13) + 1 /\ Len(x13) \in Nat
  BY <1>3
<1>5. Len(x13) + 1 \in DOMAIN x13' /\ x13'[Len(x13) + 1].says # "locked"
  BY <1>1, <1>3, <1>4
<1>6. \A i \in DOMAIN x13' \ {Len(x13) + 1} : i < Len(x13) + 1
  BY <1>4
<1> QED
  BY <1>3, <1>5, <1>6

\* A request that was asked last makes up for all.
LEMMA PromptNotified ==
    ASSUME Prompt!CardInv, Prompt!Notify, UNCHANGED <<x1, x10, x11, x12, x16>>, x15' \in BOOLEAN
    PROVE  Prompt!CardInv'
<1>1. CASE x10
  <2>1. x13 \in Seq(Prompt!Ask) /\ x13' = Append(x13, [says |-> "asked", passed |-> FALSE])
    BY <1>1 DEF Prompt!CardInv, Prompt!Notify
  <2>2. x13' \in Seq(Prompt!Ask)
    BY <2>1, PromptAsksAgain
  <2>3. PICK j \in DOMAIN x13' : x13'[j].says # "locked" /\ \A i \in DOMAIN x13' \ {j} : i < j
    BY <2>1, PromptAsksAgain
  <2> QED
    BY <1>1, <2>2, <2>3 DEF Prompt!CardInv
<1>2. CASE ~x10
  BY <1>2 DEF Prompt!CardInv, Prompt!Notify, Prompt!ShowCard
<1> QED
  BY <1>1, <1>2 DEF Prompt!CardInv

\* The card stays as it is, and the gate opens only if it will be told.
LEMMA PromptUntold ==
    ASSUME Prompt!CardInv, UNCHANGED <<x10, x11, x12, x13>>, x1' \in BOOLEAN, x15' \in BOOLEAN, x16' \in BOOLEAN,
           x1' => x1 \/ Prompt!Told', Prompt!Told => Prompt!Told'
    PROVE  Prompt!CardInv'
BY DEF Prompt!CardInv, Prompt!ShowCard

\* What is left when a request has been answered is known to be overtaken if
\* it says otherwise.
LEMMA PromptLeft ==
    ASSUME Prompt!CardInv, NEW i \in DOMAIN x13, x13' = Prompt!After(i), UNCHANGED <<x1, x9, x10, x14, x15>>,
           x16 => x16' \/ x13[i].says = "unlocked", NEW j \in DOMAIN x13', x1, x13'[j].says = "locked"
    PROVE  x13'[j].passed \/ Prompt!Told' \/ \E m \in DOMAIN x13' : m > j /\ x13'[m].says # "locked"
<1> DEFINE k == IF j < i THEN j ELSE j + 1
<1>1. x13 \in Seq(Prompt!Ask) /\ DOMAIN x13 = 1..Len(x13) /\ Len(x13) \in Nat /\ i \in 1..Len(x13)
  BY DEF Prompt!CardInv
<1>2. DOMAIN x13' = 1..Len(x13) - 1
  BY <1>1, PromptAfter
<1>3. x13'[j].says = x13[k].says /\ x13'[j].passed = (x13[k].passed \/ k < i \/ x13[k].says # "asked")
  BY <1>1, <1>2, PromptAfter
<1> QED
  BY <1>3

\* Of an answer the card takes or an error, what was right before stays so.
LEMMA PromptAnswered ==
    ASSUME Prompt!CardInv, NEW i \in DOMAIN x13, Prompt!AskDone(i) \/ Prompt!AskFails(i)
    PROVE  Prompt!CardInv'
<1>1. /\ x13 \in Seq(Prompt!Ask) /\ DOMAIN x13 = 1..Len(x13) /\ Len(x13) \in Nat /\ i \in 1..Len(x13) /\ x13[i] \in Prompt!Ask
      /\ x13' = Prompt!After(i) /\ UNCHANGED <<x1, x9, x10, x14, x15>>
  BY ElementOfSeq DEF Prompt!CardInv, Prompt!AskDone, Prompt!AskFails
<1>2. x13' \in Seq(Prompt!Ask) /\ DOMAIN x13' = 1..Len(x13) - 1
  BY <1>1, PromptAfter
<1>3. x13[i].says \in {"asked", "locked", "unlocked"} /\ x13[i].passed \in BOOLEAN
  BY <1>1 DEF Prompt!Ask
<1>4. x16 => x16' \/ x13[i].says = "unlocked"
  BY <1>3 DEF Prompt!AskDone, Prompt!AskFails
<1>5. x16' \in BOOLEAN
  BY <1>3 DEF Prompt!AskDone, Prompt!AskFails, Prompt!CardInv
<1>6. ~x10 => x13' = << >>
  BY <1>1 DEF Prompt!CardInv
<1>7. \A j \in DOMAIN x13' : x1' /\ x13'[j].says = "locked" =>
          x13'[j].passed \/ Prompt!Told' \/ \E m \in DOMAIN x13' : m > j /\ x13'[m].says # "locked"
  BY <1>1, <1>4, PromptLeft
<1>8. Prompt!ShowCard' /\ x1' => Prompt!Told' \/ \E m \in DOMAIN x13' : x13'[m].says # "locked"
  <2> SUFFICES ASSUME Prompt!ShowCard', x1', ~Prompt!Told'
               PROVE  \E m \in DOMAIN x13' : x13'[m].says # "locked"
    OBVIOUS
  <2>1. Prompt!AskDone(i) /\ x13[i].says = "locked" /\ x1
    BY <1>1 DEF Prompt!AskDone, Prompt!AskFails, Prompt!ShowCard
  <2>2. ~x13[i].passed /\ ~Prompt!Told
    <3>1. x16' = (x13[i].passed \/ (x16 /\ x13[i].says = "locked"))
      BY <2>1 DEF Prompt!AskDone
    <3>2. x16' = FALSE
      BY <1>5 DEF Prompt!Told
    <3>3. ~x13[i].passed /\ ~x16
      BY <2>1, <3>1, <3>2
    <3> QED
      BY <1>1, <3>3 DEF Prompt!Told
  <2>3. PICK m \in DOMAIN x13 : m > i /\ x13[m].says # "locked"
    BY <2>1, <2>2 DEF Prompt!CardInv
  <2>4. m - 1 \in 1..Len(x13) - 1 /\ m = IF m - 1 < i THEN m - 1 ELSE (m - 1) + 1
    BY <1>1, <2>3
  <2>5. x13'[m - 1].says = x13[m].says
    BY <1>1, <2>4, PromptAfter
  <2> QED
    BY <1>2, <2>3, <2>4, <2>5
<1> QED
  BY <1>1, <1>2, <1>5, <1>6, <1>7, <1>8 DEF Prompt!CardInv

\* The server's answer is what the gate is at that moment.
LEMMA PromptServed ==
    ASSUME Prompt!CardInv, NEW i \in DOMAIN x13, Prompt!AskServed(i)
    PROVE  Prompt!CardInv'
<1> DEFINE s == Prompt!Says
<1>1. s \in {"locked", "unlocked"} /\ (x1 => s # "locked")
  BY DEF Prompt!Says
<1>2. x13' = [x13 EXCEPT ![i].says = s]
  BY DEF Prompt!AskServed
<1> HIDE DEF s
<1>3. x13 \in Seq(Prompt!Ask) /\ i \in 1..Len(x13) /\ x13[i] \in Prompt!Ask
  BY ElementOfSeq DEF Prompt!CardInv
<1> DEFINE e == [x13[i] EXCEPT !.says = s]
<1>4. e \in Prompt!Ask /\ e.says = s
  BY <1>1, <1>3 DEF Prompt!Ask
<1>5. x13' = [x13 EXCEPT ![i] = e]
  BY <1>2
<1> HIDE DEF e
<1>6. x13' \in Seq(Prompt!Ask)
  BY <1>3, <1>4, <1>5, ExceptSeq
<1>7. DOMAIN x13' = DOMAIN x13 /\ x13'[i] = e /\ \A j \in DOMAIN x13 \ {i} : x13'[j] = x13[j]
  BY <1>3, <1>5
<1>8. UNCHANGED <<x1, x10, x11, x12, x15, x16>> /\ (Prompt!Told' <=> Prompt!Told)
  BY DEF Prompt!AskServed, Prompt!modal, Prompt!Told
<1>9. x10
  BY DEF Prompt!CardInv
<1>10. CASE x1
  BY <1>1, <1>4, <1>6, <1>7, <1>8, <1>9, <1>10 DEF Prompt!CardInv, Prompt!ShowCard
<1>11. CASE ~x1
  BY <1>6, <1>8, <1>9, <1>11 DEF Prompt!CardInv
<1> QED
  BY <1>10, <1>11

\* Every step keeps the invariant.
LEMMA PromptCardStep == ASSUME Prompt!CardInv, Prompt!Next PROVE Prompt!CardInv'
<1>0. x1 \in BOOLEAN /\ x15 \in BOOLEAN /\ x16 \in BOOLEAN
  BY DEF Prompt!CardInv
<1>1. ASSUME NEW r \in Prompt!Request, Prompt!RequestUnlock(r) \/ Prompt!Refuse(r) \/ Prompt!Prompt(r)
      PROVE  Prompt!CardInv'
  <2>1. UNCHANGED <<x1, x9, x10, x11, x12, x13, x14, x15, x16>>
    BY <1>1 DEF Prompt!RequestUnlock, Prompt!Refuse, Prompt!Prompt, Prompt!card, Prompt!modal
  <2> QED
    BY <1>0, <2>1, PromptUntold DEF Prompt!Told
<1>2. ASSUME NEW r \in Prompt!Request, Prompt!PollRefused(r) PROVE Prompt!CardInv'
  BY <1>0, <1>2, PromptNotified DEF Prompt!PollRefused
<1>3. CASE Prompt!CooldownEnds \/ Prompt!Cancel
  <2>1. UNCHANGED <<x1, x9, x10, x11, x12, x13, x14, x15, x16>>
    BY <1>3 DEF Prompt!CooldownEnds, Prompt!Cancel, Prompt!modal, Prompt!card
  <2> QED
    BY <1>0, <2>1, PromptUntold DEF Prompt!Told
<1>13. CASE Prompt!Submit
  BY <1>0, <1>13, PromptUntold DEF Prompt!Told, Prompt!Submit, Prompt!calls, Prompt!modal, Prompt!card
<1>14. CASE Prompt!CardSubmit
  BY <1>0, <1>14, PromptUntold DEF Prompt!Told, Prompt!CardSubmit, Prompt!calls, Prompt!modal, Prompt!card
<1>4. CASE Prompt!SubmitServed
  <2>1. UNCHANGED <<x10, x11, x12, x13, x14, x15>>
    BY <1>4 DEF Prompt!SubmitServed
  <2>2. x9 = "asked" /\ \/ x1' = TRUE /\ x9' = "unlocked" /\ x16' = x16
                        \/ x1' = TRUE /\ x9' = "none" /\ x16' = TRUE
                        \/ x9' = "none" /\ x1' = x1 /\ x16' = x16
    BY <1>4 DEF Prompt!SubmitServed
  <2> QED
    <3>1. x1' \in BOOLEAN /\ x15' \in BOOLEAN /\ x16' \in BOOLEAN
      BY <1>0, <2>1, <2>2
    <3>2. x1' => x1 \/ Prompt!Told'
      BY <2>2 DEF Prompt!Told
    <3>3. Prompt!Told => Prompt!Told'
      BY <2>1, <2>2 DEF Prompt!Told
    <3> QED
      BY <2>1, <3>1, <3>2, <3>3, PromptUntold
<1>15. CASE Prompt!CardServed
  <2>1. UNCHANGED <<x9, x10, x11, x12, x13, x15>>
    BY <1>15 DEF Prompt!CardServed, Prompt!modal, Prompt!calls
  <2>2. x14 = "asked" /\ \/ x1' = TRUE /\ x14' = "unlocked" /\ x16' = x16
                         \/ x1' = TRUE /\ x14' = "none" /\ x16' = TRUE
                         \/ x14' = "none" /\ x1' = x1 /\ x16' = x16
    BY <1>15 DEF Prompt!CardServed
  <2> QED
    <3>1. x1' \in BOOLEAN /\ x15' \in BOOLEAN /\ x16' \in BOOLEAN
      BY <1>0, <2>1, <2>2
    <3>2. x1' => x1 \/ Prompt!Told'
      BY <2>2 DEF Prompt!Told
    <3>3. Prompt!Told => Prompt!Told'
      BY <2>1, <2>2 DEF Prompt!Told
    <3> QED
      BY <2>1, <3>1, <3>2, <3>3, PromptUntold
<1>5. CASE Prompt!Begin \/ Prompt!SubmitDone \/ Prompt!CardDone \/ Prompt!Echo
  BY <1>0, <1>5, PromptNotified DEF Prompt!Begin, Prompt!SubmitDone, Prompt!CardDone, Prompt!Echo
<1>6. CASE Prompt!Mount
  <2> DEFINE a == [says |-> "asked", passed |-> FALSE]
  <2>1. a \in Prompt!Ask /\ a.says # "locked"
    BY DEF Prompt!Ask
  <2>2. x13' = <<a>> /\ x10' = TRUE /\ x16' = FALSE /\ x11' = "none" /\ UNCHANGED <<x1, x15>>
    BY <1>6 DEF Prompt!Mount
  <2> HIDE DEF a
  <2>3. x13' \in Seq(Prompt!Ask) /\ \A i \in DOMAIN x13' : x13'[i] = a
    BY <2>1, <2>2
  <2> QED
    BY <1>0, <2>1, <2>2, <2>3 DEF Prompt!CardInv, Prompt!ShowCard
<1>7. CASE Prompt!Unmount
  <2>1. x13' = << >> /\ x11' = "none" /\ x16' = FALSE /\ UNCHANGED <<x1, x15>>
    BY <1>7 DEF Prompt!Unmount
  <2>2. x13' \in Seq(Prompt!Ask) /\ DOMAIN x13' = {}
    BY <2>1
  <2> QED
    BY <1>0, <2>1, <2>2 DEF Prompt!CardInv, Prompt!ShowCard
<1>8. CASE Prompt!Dismiss
  <2>1. x10 /\ x12 /\ UNCHANGED <<x1, x10, x12, x15, x16>> /\ x13' = Append(x13, [says |-> "asked", passed |-> FALSE])
    BY <1>8 DEF Prompt!Dismiss
  <2>2. x13' \in Seq(Prompt!Ask)
    BY <2>1, PromptAsksAgain DEF Prompt!CardInv
  <2>3. PICK j \in DOMAIN x13' : x13'[j].says # "locked" /\ \A i \in DOMAIN x13' \ {j} : i < j
    BY <2>1, PromptAsksAgain DEF Prompt!CardInv
  <2> QED
    BY <2>1, <2>2, <2>3 DEF Prompt!CardInv
<1>9. CASE \E i \in DOMAIN x13 : Prompt!AskServed(i) \/ Prompt!AskDone(i) \/ Prompt!AskFails(i)
  BY <1>9, PromptServed, PromptAnswered
<1>10. CASE Prompt!RecheckServed \/ Prompt!RecheckDone \/ Prompt!RecheckLocked
  <2>1. UNCHANGED <<x1, x9, x10, x11, x12, x13, x14, x15, x16>>
    BY <1>10 DEF Prompt!RecheckServed, Prompt!RecheckDone, Prompt!RecheckLocked, Prompt!card, Prompt!calls, Prompt!modal
  <2> QED
    BY <1>0, <2>1, PromptUntold DEF Prompt!Told
<1>11. CASE Prompt!CheckServed \/ Prompt!CheckDone \/ Prompt!CheckFails
  BY <1>0, <1>11, PromptUntold DEF Prompt!Told, Prompt!CheckServed, Prompt!CheckDone, Prompt!CheckFails, Prompt!card
<1>12. CASE Prompt!Expire \/ Prompt!Elsewhere
  BY <1>0, <1>12, PromptUntold DEF Prompt!Told, Prompt!Expire, Prompt!Elsewhere, Prompt!modal, Prompt!card
<1> QED
  BY <1>1, <1>2, <1>3, <1>4, <1>13, <1>14, <1>15, <1>5, <1>6, <1>7, <1>8, <1>9, <1>10, <1>11, <1>12 DEF Prompt!Next

\* So does a step that leaves the variables of the part alone.
LEMMA PromptCardStill == ASSUME Prompt!CardInv, UNCHANGED <<x1, x9, x10, x11, x12, x13, x14, x15, x16>> PROVE Prompt!CardInv'
BY DEF Prompt!CardInv, Prompt!ShowCard, Prompt!Told

\* The initial states satisfy the invariant.
LEMMA PromptInit == ASSUME Prompt!Init PROVE Prompt!IndInv
<1>1. Prompt!CardInv
  <2>1. x13 = << >> /\ x11 = "none" /\ x1 \in BOOLEAN /\ x15 \in BOOLEAN /\ x16 \in BOOLEAN
    BY DEF Prompt!Init
  <2>2. x13 \in Seq(Prompt!Ask) /\ DOMAIN x13 = {}
    BY <2>1
  <2> QED
    BY <2>1, <2>2 DEF Prompt!CardInv, Prompt!ShowCard
<1>2. Prompt!WaitInv
  BY PromptWaitInit
<1> QED
  BY <1>1, <1>2 DEF Prompt!IndInv

\* Every step keeps the invariant.
LEMMA PromptStep == ASSUME Prompt!IndInv, Prompt!Next PROVE Prompt!IndInv'
BY PromptWaitStep, PromptCardStep DEF Prompt!IndInv

\* So does a step that leaves the variables of the part alone.
LEMMA PromptStill == ASSUME Prompt!IndInv, UNCHANGED <<x1, x3, x4, x5, x6, x7, x9, x10, x11, x12, x13, x14, x15, x16>> PROVE Prompt!IndInv'
BY PromptWaitStill, PromptCardStill DEF Prompt!IndInv

\* A card that shows while unlocked waits for something that will tell it.
LEMMA PromptShown == ASSUME Prompt!IndInv PROVE Prompt!LockedCardIsRight
<1>1. ASSUME NEW j \in DOMAIN x13 PROVE x13 # << >>
  BY <1>1
<1> QED
  BY <1>1 DEF Prompt!IndInv, Prompt!CardInv, Prompt!Told, Prompt!LockedCardIsRight

-----------------------------------------------------------------------------
(* The restart banner: RestartBanner.                                      *)

\* The initial states satisfy the invariant.
LEMMA BannerInit == ASSUME Banner!Init PROVE Banner!IndInv
<1> USE BoundAssumption DEF Banner!Init, Banner!Call
<1>1. x1 \in Banner!Banners /\ x2 \subseteq Banner!Requests /\ x3 \in Banner!Servers
  <2>1. x1 \in Banner!Banners
    BY DEF Banner!Banners
  <2>2. x2 \subseteq Banner!Requests
    BY DEF Banner!Requests
  <2>3. x3 \in Banner!Servers
    <3>1. MaxOwnJobs \in 0 .. MaxOwnJobs
      OBVIOUS
    <3> QED
      BY <3>1, Zenon DEF Banner!Servers
  <2> QED
    BY <2>1, <2>2, <2>3
<1>2. Banner!TypeOK /\ Banner!NothingStuck
  BY <1>1 DEF Banner!TypeOK, Banner!NothingStuck
<1>3. Banner!EpochsCounted
  BY DEF Banner!EpochsCounted, Banner!ToCome
<1> QED
  BY <1>2, <1>3 DEF Banner!IndInv

\* Every step keeps the invariant.
LEMMA BannerStep == ASSUME Banner!IndInv, [Banner!Next]_(Banner!vars) PROVE Banner!IndInv'
<1> USE BoundAssumption
    DEF Banner!IndInv, Banner!TypeOK, Banner!Banners, Banner!Requests, Banner!Servers, Banner!NothingStuck
<1>1. CASE Banner!TokenChanges
  <2>1. Banner!EpochsCounted' /\ Banner!NothingStuck'
    BY <1>1 DEF Banner!TokenChanges, Banner!Call, Banner!EpochsCounted, Banner!ToCome
  <2>2. x1'.epoch = x1.epoch + 1 /\ x1'.epoch <= 2 * MaxOwnJobs + 1 /\ x1'.of = x1.of
    BY <1>1, <2>1 DEF Banner!TokenChanges, Banner!EpochsCounted, Banner!ToCome
  <2>3. x1' \in Banner!Banners /\ x3' \in Banner!Servers
    <3>1. x1.epoch + 1 \in Nat
      OBVIOUS
    <3> QED
      BY <1>1, <3>1, Zenon DEF Banner!TokenChanges
  <2>4. x2' \subseteq Banner!Requests
    BY <1>1 DEF Banner!TokenChanges, Banner!Call
  <2>5. \A c \in x2' : c.epoch \in 1 .. x1'.epoch
    BY <1>1, <2>2 DEF Banner!TokenChanges, Banner!Call
  <2> QED
    BY <2>1, <2>2, <2>3, <2>4, <2>5
<1>2. CASE Banner!Ask
  BY <1>2 DEF Banner!Ask, Banner!EpochsCounted, Banner!ToCome
<1>3. CASE Banner!Confirm
  <2>1. Banner!TypeOK' /\ Banner!EpochsCounted'
    BY <1>3 DEF Banner!Confirm, Banner!Call, Banner!EpochsCounted, Banner!ToCome
  <2>2. Banner!Call("restart", x1.epoch) \in x2' /\ Banner!Call("restart", x1.epoch).kind = "restart"
    BY <1>3 DEF Banner!Confirm, Banner!Call
  <2> QED
    BY <2>1, <2>2
<1>4. CASE Banner!Poll
  BY <1>4 DEF Banner!Poll, Banner!Call, Banner!EpochsCounted, Banner!ToCome
<1>5. CASE Banner!Up
  BY <1>5 DEF Banner!Up, Banner!EpochsCounted, Banner!ToCome
<1>6. CASE Banner!JobStarts
  <2>1. Banner!EpochsCounted' /\ Banner!NothingStuck'
    BY <1>6 DEF Banner!JobStarts, Banner!EpochsCounted, Banner!ToCome
  <2>2. x3.left - 1 \in 0 .. MaxOwnJobs
    BY <1>6 DEF Banner!JobStarts
  <2>3. x3' \in Banner!Servers
    BY <1>6, <2>2, Zenon DEF Banner!JobStarts
  <2> QED
    BY <1>6, <2>1, <2>3 DEF Banner!JobStarts
<1>7. CASE Banner!JobEnds
  <2>1. Banner!TypeOK' /\ Banner!NothingStuck'
    BY <1>7 DEF Banner!JobEnds
  <2>2. Banner!EpochsCounted'
    BY <1>7 DEF Banner!JobEnds, Banner!EpochsCounted, Banner!ToCome
  <2> QED
    BY <2>1, <2>2
<1>8. CASE Banner!Mark
  BY <1>8 DEF Banner!Mark, Banner!EpochsCounted, Banner!ToCome
<1>9. ASSUME NEW c \in x2, Banner!StatusRead(c) PROVE Banner!IndInv'
  <2>1. CASE x1' = x1
    BY <1>9, <2>1 DEF Banner!StatusRead, Banner!EpochsCounted, Banner!ToCome
  <2>2. CASE /\ c.epoch = x1.epoch
             /\ x1' = [x1 EXCEPT !.dirty = (c.reply = "dirty"), !.of = c.epoch, !.polling = @ /\ c.reply = "dirty"]
    <3>1. x1' \in Banner!Banners
      BY <2>2, Zenon
    <3>2. Banner!EpochsCounted'
      BY <1>9, <2>2 DEF Banner!StatusRead, Banner!EpochsCounted, Banner!ToCome
    <3> QED
      BY <1>9, <2>2, <3>1, <3>2 DEF Banner!StatusRead
  <2> QED
    BY <1>9, <2>1, <2>2 DEF Banner!StatusRead
<1>10. ASSUME NEW c \in x2, Banner!RestartAsked(c) PROVE Banner!IndInv'
  BY <1>10 DEF Banner!RestartAsked, Banner!EpochsCounted, Banner!ToCome
<1>11. ASSUME NEW c \in x2, Banner!Serve(c) PROVE Banner!IndInv'
  <2>1. PICK r \in {"failed", "ok", "dirty", "clean"} : /\ x2' = (x2 \ {c}) \cup {[c EXCEPT !.reply = r]}
                                                        /\ x3' = [x3 EXCEPT !.down = @ \/ r = "ok"] /\ x1' = x1
    BY <1>11 DEF Banner!Serve
  <2>2. /\ [c EXCEPT !.reply = r] \in Banner!Requests
        /\ [c EXCEPT !.reply = r].kind = c.kind /\ [c EXCEPT !.reply = r].epoch = c.epoch
    BY <2>1
  <2>3. x2' \subseteq Banner!Requests /\ \A d \in x2' : d.epoch \in 1 .. x1.epoch
    BY <2>1, <2>2
  <2>4. x3' \in Banner!Servers /\ Banner!EpochsCounted'
    BY <2>1 DEF Banner!EpochsCounted, Banner!ToCome
  <2>5. Banner!NothingStuck'
    BY <2>1, <2>2
  <2> QED
    BY <2>1, <2>3, <2>4, <2>5
<1>12. CASE UNCHANGED Banner!vars
  BY <1>12 DEF Banner!vars, Banner!EpochsCounted, Banner!ToCome
<1> QED
  BY <1>1, <1>2, <1>3, <1>4, <1>5, <1>6, <1>7, <1>8, <1>9, <1>10, <1>11, <1>12 DEF Banner!Next

\* No answer that was overtaken is shown, and an epoch is shown once.
LEMMA BannerNewest == ASSUME Banner!IndInv, [Banner!Next]_(Banner!vars) PROVE Banner!NewestStep
<1> USE DEF Banner!IndInv, Banner!TypeOK, Banner!Banners, Banner!NewestStep
<1>1. ASSUME NEW c \in x2, Banner!StatusRead(c) PROVE Banner!NewestStep
  <2>1. \/ x1' = x1
        \/ c.epoch = x1.epoch /\ x1'.of = c.epoch
    BY <1>1 DEF Banner!StatusRead
  <2> QED
    BY <2>1
<1>2. CASE UNCHANGED x1
  BY <1>2
<1>3. CASE Banner!TokenChanges \/ Banner!Ask \/ Banner!Confirm
  <2>1. CASE Banner!TokenChanges
    BY <2>1 DEF Banner!TokenChanges
  <2>2. CASE Banner!Ask
    BY <2>2 DEF Banner!Ask
  <2>3. CASE Banner!Confirm
    BY <2>3 DEF Banner!Confirm
  <2> QED
    BY <1>3, <2>1, <2>2, <2>3
<1>4. ASSUME NEW c \in x2, Banner!RestartAsked(c) PROVE Banner!NewestStep
  BY <1>4 DEF Banner!RestartAsked
<1>5. CASE \/ Banner!Poll \/ Banner!Up \/ Banner!JobStarts \/ Banner!JobEnds \/ Banner!Mark
           \/ (\E c \in x2 : Banner!Serve(c)) \/ UNCHANGED Banner!vars
  BY <1>2, <1>5 DEF Banner!vars, Banner!Poll, Banner!Up, Banner!JobStarts, Banner!JobEnds, Banner!Mark, Banner!Serve
<1> QED
  BY <1>1, <1>3, <1>4, <1>5 DEF Banner!Next

-----------------------------------------------------------------------------
(* The search for tools: ToolSearch.                                       *)

\* What the constants are not.
LEMMA SearchValues ==
    /\ TRUE \in BOOLEAN /\ FALSE \in BOOLEAN /\ None \in Tool \cup {None} /\ 0 \in 0 .. MaxAsks
    /\ \A n \in 0 .. MaxAsks : n < MaxAsks => n + 1 \in 0 .. MaxAsks /\ n + 1 \in 1 .. MaxAsks
    /\ \A n \in 1 .. MaxAsks : n \in 0 .. MaxAsks
BY BoundAssumption

\* A request that is sent is on its way.
LEMMA SearchAsks ==
    ASSUME Search!TypeOK, NEW k \in {"search", "versions"}, NEW n \in 1 .. MaxAsks, NEW t \in Tool \cup {None},
           x2' = x2 \cup {Search!Ask(k, n, t)}
    PROVE  x2' \subseteq Search!Requests /\ \E c \in x2' : c.kind = k /\ c.id = n
<1>1. Search!Ask(k, n, t) \in Search!Requests
  BY DEF Search!Ask, Search!Requests
<1> QED
  BY <1>1 DEF Search!TypeOK, Search!Ask

\* The initial states satisfy the invariant.
LEMMA SearchInit == Search!Init => Search!IndInv
BY SearchValues DEF Search!Init, Search!IndInv, Search!TypeOK, Search!Dialogs, Search!Requests, Search!NothingStuck, Search!VersionsAreOfTool, Search!NewestIsSelected

\* Every step keeps the invariant.
LEMMA SearchStep == ASSUME Search!IndInv, [Search!Next]_(Search!vars) PROVE Search!IndInv'
<1> USE NoneAssumption, SearchAssumption, SearchValues
    DEF Search!IndInv, Search!TypeOK, Search!Dialogs, Search!Requests, Search!NothingStuck, Search!VersionsAreOfTool, Search!NewestIsSelected
<1>1. CASE Search!Open
  BY <1>1 DEF Search!Open
<1>9. CASE Search!Close \/ Search!QuickInstall
  BY <1>9 DEF Search!Close, Search!QuickInstall
<1>10. CASE Search!SearchShort
  BY <1>10 DEF Search!SearchShort
<1>11. CASE Search!BackToSearch
  BY <1>11 DEF Search!BackToSearch
<1>2. CASE Search!Search
  <2>1. x1' \in Search!Dialogs
    BY <1>2, Zenon DEF Search!Search
  <2>2. x2' \subseteq Search!Requests /\ \E c \in x2' : c.kind = "search" /\ c.id = x1.searchId + 1
    BY <1>2, SearchAsks DEF Search!Search
  <2> QED
    BY <1>2, <2>1, <2>2 DEF Search!Search, Search!Ask
<1>3. CASE Search!InstallVersion
  <2>1. x1.versions \in Tool /\ x1.selected = x1.versions
    BY <1>3 DEF Search!InstallVersion
  <2>2. <<x1.versions, x1.selected>> \in Tool \X Tool
    BY <2>1
  <2>3. x1' \in Search!Dialogs
    BY <1>3, Zenon DEF Search!InstallVersion
  <2>4. Search!VersionsAreOfTool'
    BY <1>3, <2>1 DEF Search!InstallVersion
  <2> QED
    BY <1>3, <2>2, <2>3, <2>4 DEF Search!InstallVersion
<1>4. ASSUME NEW t \in Tool, Search!OpenVersions(t) PROVE Search!IndInv'
  <2>1. x1' \in Search!Dialogs
    BY <1>4, Zenon DEF Search!OpenVersions
  <2>2. x2' \subseteq Search!Requests /\ \E c \in x2' : c.kind = "versions" /\ c.id = x1.versionsId + 1
    BY <1>4, SearchAsks DEF Search!OpenVersions
  <2> QED
    BY <1>4, <2>1, <2>2 DEF Search!OpenVersions, Search!Ask
<1>5. ASSUME NEW c \in x2, Search!Searched(c) PROVE Search!IndInv'
  BY <1>5 DEF Search!Searched
<1>6. ASSUME NEW c \in x2, Search!VersionsRead(c) PROVE Search!IndInv'
  BY <1>6 DEF Search!VersionsRead
<1>7. ASSUME NEW c \in x2, Search!Serve(c) PROVE Search!IndInv'
  <2>1. PICK r \in {"ok", "failed"} : x2' = (x2 \ {c}) \cup {[c EXCEPT !.reply = r]}
    BY <1>7 DEF Search!Serve
  <2>2. \A d \in x2 : \E e \in x2' : e.kind = d.kind /\ e.id = d.id
    <3>1. [c EXCEPT !.reply = r] \in x2' /\ [c EXCEPT !.reply = r].kind = c.kind /\ [c EXCEPT !.reply = r].id = c.id
      BY <2>1
    <3> QED
      BY <2>1, <3>1
  <2>3. Search!TypeOK' /\ Search!VersionsAreOfTool' /\ Search!NewestIsSelected'
    BY <1>7 DEF Search!Serve
  <2> QED
    BY <1>7, <2>2, <2>3 DEF Search!Serve
<1>8. CASE UNCHANGED Search!vars
  BY <1>8 DEF Search!vars
<1> QED
  BY <1>1, <1>2, <1>3, <1>4, <1>5, <1>6, <1>7, <1>8, <1>9, <1>10, <1>11 DEF Search!Next

-----------------------------------------------------------------------------
(* Files: FileBrowser.                                                     *)

\* The folder on top is a path.
LEMMA FilesCurrent == ASSUME Files!TypeOK PROVE Files!Current \in Files!Path
BY DEF Files!TypeOK, Files!Current, Files!Top

\* What a page is busy with is an operation.
LEMMA FilesOperations == {"rename", "mkdir", "delete", "upload", "bulk"} \subseteq Files!Operations
BY DEF Files!Operations

\* The initial states satisfy the invariant.
LEMMA FilesInit == ASSUME Files!Init PROVE Files!IndInv
<1> USE FilesAssumption DEF Files!Init, Files!Null, Files!Path
<1>1. x1.stack \in Seq(Files!Path) /\ x1.stack # <<>>
  OBVIOUS
<1>2. Files!Current = Files!Null
  BY DEF Files!Current, Files!Top
<1>3. Files!TypeOK
  <2>1. \A c \in x2 : /\ DOMAIN c = {"kind", "path", "args", "overwrite", "agreed", "for", "at", "reply"}
                      /\ c.path = Files!Null /\ c.for = None /\ c.at = "sent"
    BY <1>2 DEF Files!LoadOf, Files!Call
  <2>2. /\ DOMAIN x1 = {"stack", "list", "loading", "selected", "root", "bulk", "busy", "ask", "ops", "looks"}
        /\ x1.list = {} /\ x1.selected = {} /\ x1.loading \in BOOLEAN /\ x1.root = None /\ x1.bulk = None /\ x1.busy = {} /\ x1.ask = Files!NoAsk
    OBVIOUS
  <2>3. x3 \in [Dir -> SUBSET Name]
    OBVIOUS
  <2> QED
    BY <1>1, <2>1, <2>2, <2>3 DEF Files!TypeOK, Files!NoAsk
<1>4. Files!NothingStuck /\ Files!OnlyNamedIsReplaced
  BY DEF Files!NothingStuck, Files!OnlyNamedIsReplaced, Files!LoadOf
<1>5. Files!CallsFit
  BY DEF Files!CallsFit, Files!LoadFits, Files!Named, Files!LoadOf, Files!Call
<1> QED
  BY <1>3, <1>4, <1>5 DEF Files!IndInv

\* A request that replaces names what it replaces.
LEMMA FilesNamed ==
    ASSUME NEW d, d.at = "sent",
           d.kind = "rename" /\ d.overwrite => <<d.args.entry[1], d.args.name>> \in d.agreed,
           d.kind \in {"move", "copy"} /\ d.overwrite => \A e \in d.args.items : <<d.args.dir, e[2]>> \in d.agreed,
           d.kind = "upload" /\ d.overwrite => \A n \in d.args.files : \E e \in d.agreed : e[2] = n
    PROVE  Files!Named(d)
<1> SUFFICES ASSUME d.overwrite, d.kind \in Files!Making, NEW p \in Files!Makes(d)
             PROVE  p.to \in d.agreed \/ (d.kind = "upload" /\ \E e \in d.agreed : e[2] = p.to[2])
  BY DEF Files!Named, Files!Job
<1>1. CASE d.kind = "rename"
  BY <1>1 DEF Files!Makes
<1>2. CASE d.kind = "upload"
  <2>1. PICK n \in d.args.files : p = [from |-> None, to |-> <<d.args.dir, n>>]
    BY <1>2 DEF Files!Makes
  <2> QED
    BY <1>2, <2>1
<1>3. CASE d.kind \in {"move", "copy"}
  <2>1. PICK e \in d.args.items : p = [from |-> e, to |-> <<d.args.dir, e[2]>>]
    BY <1>3 DEF Files!Makes
  <2> QED
    BY <1>3, <2>1
<1> QED
  BY <1>1, <1>2, <1>3 DEF Files!Making

\* A request for an operation is sent, and its button is off.
LEMMA FilesAsked ==
    ASSUME Files!IndInv, NEW k, NEW a, NEW ov, NEW ag, NEW b,
           \/ k = b /\ b \in {"rename", "mkdir", "delete", "upload"}
           \/ b = "bulk" /\ k \in {"move", "copy"},
           x2' = x2 \cup {Files!Call(k, a, ov, ag)}, x1'.busy = x1.busy \cup {b}, x1'.loading = x1.loading,
           k = "rename" /\ ov => <<a.entry[1], a.name>> \in ag,
           k \in {"move", "copy"} /\ ov => \A e \in a.items : <<a.dir, e[2]>> \in ag,
           k = "upload" /\ ov => \A n \in a.files : \E e \in ag : e[2] = n
    PROVE  Files!NothingStuck' /\ Files!CallsFit'
<1> DEFINE d == Files!Call(k, a, ov, ag)
<1>0. d.kind = k /\ d.args = a /\ d.overwrite = ov /\ d.agreed = ag /\ d.for = None /\ d.at = "sent"
  BY DEF Files!Call, Files!LoadOf
<1>1. x2' = x2 \cup {d} /\ d.kind = k /\ d.args = a /\ d.overwrite = ov /\ d.agreed = ag /\ d.for = None /\ d.at = "sent"
  BY <1>0
<1>2. Files!Named(d)
  BY <1>0, FilesNamed
<1> HIDE DEF d
<1>3. Files!NothingStuck'
  BY <1>1 DEF Files!IndInv, Files!NothingStuck
<1>4. Files!CallsFit'
  BY <1>1, <1>2 DEF Files!IndInv, Files!CallsFit, Files!LoadFits
<1> QED
  BY <1>3, <1>4

\* A folder is listed for nothing, or for an operation that was answered.
LEMMA FilesLists ==
    ASSUME Files!IndInv, NEW p, x2' = x2 \cup {Files!LoadOf(p, None)}, x1'.busy = x1.busy
    PROVE  Files!NothingStuck' /\ Files!CallsFit'
<1> USE FilesAssumption
<1> DEFINE d == Files!LoadOf(p, None)
<1>0. d.kind = "load" /\ d.at = "sent" /\ d.for = None /\ d.overwrite = FALSE
  BY DEF Files!Call, Files!LoadOf
<1>1. x2' = x2 \cup {d} /\ d.kind = "load" /\ d.at = "sent" /\ d.for = None /\ d.overwrite = FALSE
  BY <1>0
<1> HIDE DEF d
<1>2. Files!NothingStuck'
  BY <1>1 DEF Files!IndInv, Files!NothingStuck
<1>3. Files!CallsFit'
  BY <1>1 DEF Files!IndInv, Files!CallsFit, Files!LoadFits, Files!Named
<1> QED
  BY <1>2, <1>3

\* An operation that is done reads the folder again.
LEMMA FilesDone ==
    ASSUME Files!IndInv, NEW c \in x2, NEW b,
           \/ c.kind = b /\ b \in {"rename", "mkdir", "delete", "upload"}
           \/ b = "bulk" /\ c.kind \in {"move", "copy"},
           x2' = (x2 \ {c}) \cup {Files!LoadOf(c.path, b)}, x1'.busy = x1.busy
    PROVE  Files!NothingStuck' /\ Files!CallsFit'
<1> USE FilesAssumption
<1> DEFINE d == Files!LoadOf(c.path, b)
<1>0. d.kind = "load" /\ d.at = "sent" /\ d.for = b /\ d.overwrite = FALSE
  BY DEF Files!Call, Files!LoadOf
<1>1. x2' = (x2 \ {c}) \cup {d} /\ d.kind = "load" /\ d.at = "sent" /\ d.for = b /\ d.overwrite = FALSE
  BY <1>0
<1> HIDE DEF d
<1>2. Files!NothingStuck'
  <2>1. x1'.loading => \E e \in x2' : e.kind = "load"
    BY <1>1, SMT DEF Files!IndInv, Files!NothingStuck
  <2>2. ASSUME NEW o \in x1'.busy PROVE \E e \in x2' : e.for = o \/ e.kind = o \/ (o = "bulk" /\ e.kind \in {"move", "copy"})
    <3>1. CASE o = b
      BY <1>1, <3>1
    <3>2. CASE o # b
      <4>1. o \in x1.busy /\ o \in {"rename", "mkdir", "delete", "upload", "bulk"}
        BY <2>2 DEF Files!IndInv, Files!TypeOK, Files!Operations
      <4>2. PICK e \in x2 : e.for = o \/ e.kind = o \/ (o = "bulk" /\ e.kind \in {"move", "copy"})
        BY <4>1 DEF Files!IndInv, Files!NothingStuck
      <4>3. c.for = None
        BY DEF Files!IndInv, Files!CallsFit, Files!LoadFits
      <4>4. e # c
        BY <3>2, <4>1, <4>2, <4>3
      <4> QED
        BY <1>1, <4>2, <4>4
    <3> QED
      BY <3>1, <3>2
  <2> QED
    BY <2>1, <2>2 DEF Files!NothingStuck
<1>3. Files!CallsFit'
  BY <1>1 DEF Files!IndInv, Files!CallsFit, Files!LoadFits, Files!Named
<1> QED
  BY <1>2, <1>3

\* One that failed is over.
LEMMA FilesFailed ==
    ASSUME Files!IndInv, NEW c \in x2, NEW b,
           \/ c.kind = b /\ b \in {"rename", "mkdir", "delete", "upload"}
           \/ b = "bulk" /\ c.kind \in {"move", "copy"},
           x2' = x2 \ {c}, x1'.busy = x1.busy \ {b}, x1'.loading = x1.loading
    PROVE  Files!NothingStuck' /\ Files!CallsFit'
<1> USE FilesAssumption
<1>1. Files!NothingStuck'
  <2>1. x1'.loading => \E e \in x2' : e.kind = "load"
    BY SMT DEF Files!IndInv, Files!NothingStuck
  <2>2. ASSUME NEW o \in x1'.busy PROVE \E e \in x2' : e.for = o \/ e.kind = o \/ (o = "bulk" /\ e.kind \in {"move", "copy"})
    <3>1. CASE o = b
      BY <2>2, <3>1
    <3>2. CASE o # b
      <4>1. o \in x1.busy /\ o \in {"rename", "mkdir", "delete", "upload", "bulk"}
        BY <2>2 DEF Files!IndInv, Files!TypeOK, Files!Operations
      <4>2. PICK e \in x2 : e.for = o \/ e.kind = o \/ (o = "bulk" /\ e.kind \in {"move", "copy"})
        BY <4>1 DEF Files!IndInv, Files!NothingStuck
      <4>3. c.for = None
        BY DEF Files!IndInv, Files!CallsFit, Files!LoadFits
      <4>4. e # c
        BY <3>2, <4>1, <4>2, <4>3
      <4> QED
        BY <4>2, <4>4
    <3> QED
      BY <3>1, <3>2
  <2> QED
    BY <2>1, <2>2 DEF Files!NothingStuck
<1>2. Files!CallsFit'
  BY DEF Files!IndInv, Files!CallsFit, Files!LoadFits, Files!Named
<1> QED
  BY <1>1, <1>2

\* Another folder.
LEMMA FilesGoes ==
    ASSUME Files!IndInv, NEW s, Files!Goes(s)
    PROVE  Files!NothingStuck' /\ Files!CallsFit'
<1>1. DOMAIN x1 = {"stack", "list", "loading", "selected", "root", "bulk", "busy", "ask", "ops", "looks"}
  BY DEF Files!IndInv, Files!TypeOK
<1>2. CASE Files!Top(s) = Files!Current
  <2>1. x2' = x2 /\ x1'.busy = x1.busy /\ x1'.loading = x1.loading
    BY <1>1, <1>2 DEF Files!Goes, Files!IndInv, Files!TypeOK
  <2> QED
    BY <2>1 DEF Files!IndInv, Files!NothingStuck, Files!CallsFit, Files!LoadFits, Files!Named
<1>3. CASE Files!Top(s) # Files!Current
  <2>1. x2' = x2 \cup {Files!LoadOf(Files!Top(s), None)} /\ x1'.busy = x1.busy
    BY <1>1, <1>3 DEF Files!Goes
  <2> QED
    BY <2>1, FilesLists
<1> QED
  BY <1>2, <1>3

\* A stack of folders is one more or fewer.
LEMMA FilesStack ==
    ASSUME Files!IndInv, NEW s, s \in Seq(Files!Path), s # <<>>, Files!Goes(s)
    PROVE  /\ x1'.stack \in Seq(Files!Path) /\ x1'.stack # <<>>
           /\ \A c \in x2' :
                /\ DOMAIN c = {"kind", "path", "args", "overwrite", "agreed", "for", "at", "reply"}
                /\ c.path \in Files!Path /\ c.for \in Files!Operations \cup {None} /\ c.at \in {"sent", "serving", "done", "failed"}
<1>1. x1'.stack = s
  BY DEF Files!Goes, Files!IndInv, Files!TypeOK
<1>2. Files!Top(s) \in Files!Path
  BY DEF Files!Top
<1>3. x2' = x2 \/ x2' = x2 \cup {Files!LoadOf(Files!Top(s), None)}
  BY DEF Files!Goes
<1> QED
  BY <1>1, <1>2, <1>3 DEF Files!LoadOf, Files!IndInv, Files!TypeOK

\* A folder is read.
LEMMA FilesLoaded ==
    ASSUME Files!IndInv,
           NEW c \in x2,
           Files!Loaded(c)
    PROVE  Files!IndInv'
<1> USE FilesAssumption, FilesCurrent, FilesOperations
<1>1. DOMAIN x1' = {"stack", "list", "loading", "selected", "root", "bulk", "busy", "ask", "ops", "looks"}
  BY DEF Files!IndInv, Files!TypeOK, Files!Goes, Files!Loaded, Files!Settled
<1>2. x1'.stack \in Seq(Files!Path) /\ x1'.stack # <<>>
  BY DEF Files!IndInv, Files!TypeOK, Files!Goes, Files!Loaded, Files!Settled
<1>3. x1'.list \subseteq Files!Entry /\ x1'.selected \subseteq Files!Entry
  <2>1. x1'.selected = x1.selected /\ (x1'.list = x1.list \/ (c.at # "failed" /\ x1'.list = c.reply))
    BY DEF Files!IndInv, Files!TypeOK, Files!Loaded, Files!Settled
  <2>2. c.at # "failed" => c.reply \subseteq Files!Entry
    BY DEF Files!IndInv, Files!CallsFit, Files!LoadFits, Files!Loaded, Files!Settled, Files!TypeOK
  <2> QED
    BY <2>1, <2>2 DEF Files!IndInv, Files!TypeOK
<1>4. x1'.loading \in BOOLEAN /\ x1'.root \in {None, HomeDir} /\ x1'.bulk \in {"move", "copy", None}
  BY DEF Files!IndInv, Files!TypeOK, Files!Goes, Files!Loaded, Files!Settled
<1>5. x1'.busy \subseteq Files!Operations
  BY DEF Files!IndInv, Files!TypeOK, Files!Goes, Files!Loaded, Files!Settled
<1>6. \A e \in x2' :
        /\ DOMAIN e = {"kind", "path", "args", "overwrite", "agreed", "for", "at", "reply"}
        /\ e.path \in Files!Path /\ e.for \in Files!Operations \cup {None} /\ e.at \in {"sent", "serving", "done", "failed"}
  BY DEF Files!IndInv, Files!TypeOK, Files!Call, Files!LoadOf, Files!Goes, Files!Loaded, Files!Settled
<1>7. x3' \in [Dir -> SUBSET Name]
  BY DEF Files!IndInv, Files!TypeOK, Files!Loaded, Files!Settled
<1>8. Files!NothingStuck' /\ Files!CallsFit'
  <2>1. x2' = x2 \ {c} /\ c.kind = "load" /\ x1'.busy = x1.busy \ {c.for} /\ ~ x1'.loading
    BY DEF Files!IndInv, Files!TypeOK, Files!Loaded, Files!Settled
  <2>2. ASSUME NEW o \in x1'.busy PROVE \E e \in x2' : e.for = o \/ e.kind = o \/ (o = "bulk" /\ e.kind \in {"move", "copy"})
    <3>1. o \in x1.busy /\ o \in {"rename", "mkdir", "delete", "upload", "bulk"} /\ o # c.for
      BY <2>1 DEF Files!IndInv, Files!TypeOK, Files!Operations
    <3>2. PICK e \in x2 : e.for = o \/ e.kind = o \/ (o = "bulk" /\ e.kind \in {"move", "copy"})
      BY <3>1 DEF Files!IndInv, Files!NothingStuck
    <3>3. e # c
      BY <2>1, <3>1, <3>2
    <3> QED
      BY <2>1, <3>2, <3>3
  <2>3. Files!CallsFit'
    BY <2>1 DEF Files!IndInv, Files!CallsFit, Files!LoadFits, Files!Named
  <2> QED
    BY <2>1, <2>2, <2>3 DEF Files!NothingStuck
<1>9. Files!OnlyNamedIsReplaced'
  BY DEF Files!IndInv, Files!TypeOK, Files!OnlyNamedIsReplaced, Files!Loaded, Files!Settled
<1>10. DOMAIN x1'.ask = DOMAIN Files!NoAsk /\ (x1'.ask.bulk = None \/ x1'.ask.bulk.mode \in {"move", "copy"})
  BY DEF Files!IndInv, Files!TypeOK, Files!Goes, Files!NoAsk, Files!Asking, Files!Loaded, Files!Settled
<1> QED
  BY <1>1, <1>2, <1>3, <1>4, <1>5, <1>6, <1>7, <1>8, <1>9, <1>10 DEF Files!IndInv, Files!TypeOK

\* The home's path is read.
LEMMA FilesHomeRead ==
    ASSUME Files!IndInv,
           NEW c \in x2,
           Files!HomeRead(c)
    PROVE  Files!IndInv'
<1> USE FilesAssumption, FilesCurrent, FilesOperations
<1>1. DOMAIN x1' = {"stack", "list", "loading", "selected", "root", "bulk", "busy", "ask", "ops", "looks"}
  BY DEF Files!IndInv, Files!TypeOK, Files!Goes, Files!HomeRead, Files!Settled
<1>2. x1'.stack \in Seq(Files!Path) /\ x1'.stack # <<>>
  <2>1. <<Root>> \o x1.stack \in Seq(Files!Path) /\ <<Root>> \o x1.stack # <<>>
    BY DEF Files!IndInv, Files!TypeOK, Files!Path
  <2>2. x1'.stack = x1.stack \/ x1'.stack = <<Root>> \o x1.stack
    BY DEF Files!IndInv, Files!TypeOK, Files!HomeRead, Files!Settled
  <2> QED
    BY <2>1, <2>2 DEF Files!IndInv, Files!TypeOK
<1>3. x1'.list \subseteq Files!Entry /\ x1'.selected \subseteq Files!Entry
  BY DEF Files!IndInv, Files!TypeOK, Files!Goes, Files!CallsFit, Files!LoadFits, Files!HomeRead, Files!Settled
<1>4. x1'.loading \in BOOLEAN /\ x1'.root \in {None, HomeDir} /\ x1'.bulk \in {"move", "copy", None}
  BY DEF Files!IndInv, Files!TypeOK, Files!Goes, Files!HomeRead, Files!Settled
<1>5. x1'.busy \subseteq Files!Operations
  BY DEF Files!IndInv, Files!TypeOK, Files!Goes, Files!HomeRead, Files!Settled
<1>6. \A e \in x2' :
        /\ DOMAIN e = {"kind", "path", "args", "overwrite", "agreed", "for", "at", "reply"}
        /\ e.path \in Files!Path /\ e.for \in Files!Operations \cup {None} /\ e.at \in {"sent", "serving", "done", "failed"}
  BY DEF Files!IndInv, Files!TypeOK, Files!Call, Files!LoadOf, Files!Goes, Files!HomeRead, Files!Settled
<1>7. x3' \in [Dir -> SUBSET Name]
  BY DEF Files!IndInv, Files!TypeOK, Files!HomeRead, Files!Settled
<1>8. Files!NothingStuck' /\ Files!CallsFit'
  <2>1. x2' = x2 \ {c} /\ c.kind = "home" /\ x1'.busy = x1.busy /\ x1'.loading = x1.loading
    BY DEF Files!IndInv, Files!TypeOK, Files!HomeRead, Files!Settled
  <2>2. ASSUME NEW o \in x1'.busy PROVE \E e \in x2' : e.for = o \/ e.kind = o \/ (o = "bulk" /\ e.kind \in {"move", "copy"})
    <3>1. o \in x1.busy /\ o \in {"rename", "mkdir", "delete", "upload", "bulk"}
      BY <2>1 DEF Files!IndInv, Files!TypeOK, Files!Operations
    <3>2. PICK e \in x2 : e.for = o \/ e.kind = o \/ (o = "bulk" /\ e.kind \in {"move", "copy"})
      BY <3>1 DEF Files!IndInv, Files!NothingStuck
    <3>3. c.for = None
      BY <2>1 DEF Files!IndInv, Files!CallsFit, Files!LoadFits
    <3>4. e # c
      BY <2>1, <3>1, <3>2, <3>3
    <3> QED
      BY <2>1, <3>2, <3>4
  <2>3. Files!CallsFit'
    BY <2>1 DEF Files!IndInv, Files!CallsFit, Files!LoadFits, Files!Named
  <2>4. x1'.loading => \E e \in x2' : e.kind = "load"
    BY <2>1 DEF Files!IndInv, Files!NothingStuck
  <2> QED
    BY <2>2, <2>3, <2>4 DEF Files!NothingStuck
<1>9. Files!OnlyNamedIsReplaced'
  BY DEF Files!IndInv, Files!TypeOK, Files!OnlyNamedIsReplaced, Files!HomeRead, Files!Settled
<1>10. DOMAIN x1'.ask = DOMAIN Files!NoAsk /\ (x1'.ask.bulk = None \/ x1'.ask.bulk.mode \in {"move", "copy"})
  BY DEF Files!IndInv, Files!TypeOK, Files!Goes, Files!NoAsk, Files!Asking, Files!HomeRead, Files!Settled
<1> QED
  BY <1>1, <1>2, <1>3, <1>4, <1>5, <1>6, <1>7, <1>8, <1>9, <1>10 DEF Files!IndInv, Files!TypeOK

\* A folder is read again.
LEMMA FilesRefresh ==
    ASSUME Files!IndInv,
           Files!Refresh
    PROVE  Files!IndInv'
<1> USE FilesAssumption, FilesCurrent, FilesOperations
<1>1. DOMAIN x1' = {"stack", "list", "loading", "selected", "root", "bulk", "busy", "ask", "ops", "looks"}
  BY DEF Files!IndInv, Files!TypeOK, Files!Goes, Files!Refresh
<1>2. x1'.stack \in Seq(Files!Path) /\ x1'.stack # <<>>
  BY DEF Files!IndInv, Files!TypeOK, Files!Goes, Files!Refresh
<1>3. x1'.list \subseteq Files!Entry /\ x1'.selected \subseteq Files!Entry
  BY DEF Files!IndInv, Files!TypeOK, Files!Goes, Files!CallsFit, Files!LoadFits, Files!Refresh
<1>4. x1'.loading \in BOOLEAN /\ x1'.root \in {None, HomeDir} /\ x1'.bulk \in {"move", "copy", None}
  BY DEF Files!IndInv, Files!TypeOK, Files!Goes, Files!Refresh
<1>5. x1'.busy \subseteq Files!Operations
  BY DEF Files!IndInv, Files!TypeOK, Files!Goes, Files!Refresh
<1>6. \A e \in x2' :
        /\ DOMAIN e = {"kind", "path", "args", "overwrite", "agreed", "for", "at", "reply"}
        /\ e.path \in Files!Path /\ e.for \in Files!Operations \cup {None} /\ e.at \in {"sent", "serving", "done", "failed"}
  BY DEF Files!IndInv, Files!TypeOK, Files!Call, Files!LoadOf, Files!Goes, Files!Refresh
<1>7. x3' \in [Dir -> SUBSET Name]
  BY DEF Files!IndInv, Files!TypeOK, Files!Refresh
<1>8. Files!NothingStuck' /\ Files!CallsFit'
  <2>1. x2' = x2 \cup {Files!LoadOf(Files!Current, None)} /\ x1'.busy = x1.busy
    BY DEF Files!IndInv, Files!TypeOK, Files!Refresh
  <2> QED
    BY <2>1, FilesLists
<1>9. Files!OnlyNamedIsReplaced'
  BY DEF Files!IndInv, Files!TypeOK, Files!OnlyNamedIsReplaced, Files!Refresh
<1>10. DOMAIN x1'.ask = DOMAIN Files!NoAsk /\ (x1'.ask.bulk = None \/ x1'.ask.bulk.mode \in {"move", "copy"})
  BY DEF Files!IndInv, Files!TypeOK, Files!Goes, Files!NoAsk, Files!Asking, Files!Refresh
<1> QED
  BY <1>1, <1>2, <1>3, <1>4, <1>5, <1>6, <1>7, <1>8, <1>9, <1>10 DEF Files!IndInv, Files!TypeOK

\* Another is opened.
LEMMA FilesOpenDir ==
    ASSUME Files!IndInv,
           NEW d \in Dir,
           Files!OpenDir(d)
    PROVE  Files!IndInv'
<1> USE FilesAssumption, FilesCurrent, FilesOperations
<1>1. DOMAIN x1' = {"stack", "list", "loading", "selected", "root", "bulk", "busy", "ask", "ops", "looks"}
  BY DEF Files!IndInv, Files!TypeOK, Files!Goes, Files!OpenDir
<1>2. x1'.stack \in Seq(Files!Path) /\ x1'.stack # <<>>
  <2> DEFINE s == Append(x1.stack, d)
  <2>1. s \in Seq(Files!Path) /\ s # <<>>
    BY DEF Files!IndInv, Files!TypeOK, Files!Path
  <2>2. Files!Goes(s)
    BY DEF Files!OpenDir
  <2> HIDE DEF s
  <2> QED
    BY <2>1, <2>2, FilesStack
<1>3. x1'.list \subseteq Files!Entry /\ x1'.selected \subseteq Files!Entry
  BY DEF Files!IndInv, Files!TypeOK, Files!Goes, Files!CallsFit, Files!LoadFits, Files!OpenDir
<1>4. x1'.loading \in BOOLEAN /\ x1'.root \in {None, HomeDir} /\ x1'.bulk \in {"move", "copy", None}
  BY DEF Files!IndInv, Files!TypeOK, Files!Goes, Files!OpenDir
<1>5. x1'.busy \subseteq Files!Operations
  BY DEF Files!IndInv, Files!TypeOK, Files!Goes, Files!OpenDir
<1>6. \A e \in x2' :
        /\ DOMAIN e = {"kind", "path", "args", "overwrite", "agreed", "for", "at", "reply"}
        /\ e.path \in Files!Path /\ e.for \in Files!Operations \cup {None} /\ e.at \in {"sent", "serving", "done", "failed"}
  <2> DEFINE s == Append(x1.stack, d)
  <2>1. s \in Seq(Files!Path) /\ s # <<>>
    BY DEF Files!IndInv, Files!TypeOK, Files!Path
  <2>2. Files!Goes(s)
    BY DEF Files!OpenDir
  <2> HIDE DEF s
  <2> QED
    BY <2>1, <2>2, FilesStack
<1>7. x3' \in [Dir -> SUBSET Name]
  BY DEF Files!IndInv, Files!TypeOK, Files!OpenDir
<1>8. Files!NothingStuck' /\ Files!CallsFit'
  <2> DEFINE s == Append(x1.stack, d)
  <2>1. Files!Goes(s)
    BY DEF Files!OpenDir
  <2> HIDE DEF s
  <2> QED
    BY <2>1, FilesGoes
<1>9. Files!OnlyNamedIsReplaced'
  BY DEF Files!IndInv, Files!TypeOK, Files!OnlyNamedIsReplaced, Files!OpenDir
<1>10. DOMAIN x1'.ask = DOMAIN Files!NoAsk /\ (x1'.ask.bulk = None \/ x1'.ask.bulk.mode \in {"move", "copy"})
  BY DEF Files!IndInv, Files!TypeOK, Files!Goes, Files!NoAsk, Files!Asking, Files!OpenDir
<1> QED
  BY <1>1, <1>2, <1>3, <1>4, <1>5, <1>6, <1>7, <1>8, <1>9, <1>10 DEF Files!IndInv, Files!TypeOK

\* One above is opened.
LEMMA FilesNavigateToCrumb ==
    ASSUME Files!IndInv,
           Files!NavigateToCrumb
    PROVE  Files!IndInv'
<1> USE FilesAssumption, FilesCurrent, FilesOperations
<1>1. DOMAIN x1' = {"stack", "list", "loading", "selected", "root", "bulk", "busy", "ask", "ops", "looks"}
  BY DEF Files!IndInv, Files!TypeOK, Files!Goes, Files!NavigateToCrumb
<1>2. x1'.stack \in Seq(Files!Path) /\ x1'.stack # <<>>
  <2>1. PICK i \in 1 .. Len(x1.stack) - 1 : Files!Goes(SubSeq(x1.stack, 1, i))
    BY DEF Files!NavigateToCrumb
  <2> DEFINE s == SubSeq(x1.stack, 1, i)
  <2>2. s \in Seq(Files!Path) /\ s # <<>>
    BY DEF Files!IndInv, Files!TypeOK
  <2>3. Files!Goes(s)
    BY <2>1
  <2> HIDE DEF s
  <2> QED
    BY <2>2, <2>3, FilesStack
<1>3. x1'.list \subseteq Files!Entry /\ x1'.selected \subseteq Files!Entry
  BY DEF Files!IndInv, Files!TypeOK, Files!Goes, Files!CallsFit, Files!LoadFits, Files!NavigateToCrumb
<1>4. x1'.loading \in BOOLEAN /\ x1'.root \in {None, HomeDir} /\ x1'.bulk \in {"move", "copy", None}
  BY DEF Files!IndInv, Files!TypeOK, Files!Goes, Files!NavigateToCrumb
<1>5. x1'.busy \subseteq Files!Operations
  BY DEF Files!IndInv, Files!TypeOK, Files!Goes, Files!NavigateToCrumb
<1>6. \A e \in x2' :
        /\ DOMAIN e = {"kind", "path", "args", "overwrite", "agreed", "for", "at", "reply"}
        /\ e.path \in Files!Path /\ e.for \in Files!Operations \cup {None} /\ e.at \in {"sent", "serving", "done", "failed"}
  <2>1. PICK i \in 1 .. Len(x1.stack) - 1 : Files!Goes(SubSeq(x1.stack, 1, i))
    BY DEF Files!NavigateToCrumb
  <2> DEFINE s == SubSeq(x1.stack, 1, i)
  <2>2. s \in Seq(Files!Path) /\ s # <<>>
    BY DEF Files!IndInv, Files!TypeOK
  <2>3. Files!Goes(s)
    BY <2>1
  <2> HIDE DEF s
  <2> QED
    BY <2>2, <2>3, FilesStack
<1>7. x3' \in [Dir -> SUBSET Name]
  BY DEF Files!IndInv, Files!TypeOK, Files!NavigateToCrumb
<1>8. Files!NothingStuck' /\ Files!CallsFit'
  <2>1. PICK i \in 1 .. Len(x1.stack) - 1 : Files!Goes(SubSeq(x1.stack, 1, i))
    BY DEF Files!NavigateToCrumb
  <2> DEFINE s == SubSeq(x1.stack, 1, i)
  <2>2. Files!Goes(s)
    BY <2>1
  <2> HIDE DEF s
  <2> QED
    BY <2>2, FilesGoes
<1>9. Files!OnlyNamedIsReplaced'
  BY DEF Files!IndInv, Files!TypeOK, Files!OnlyNamedIsReplaced, Files!NavigateToCrumb
<1>10. DOMAIN x1'.ask = DOMAIN Files!NoAsk /\ (x1'.ask.bulk = None \/ x1'.ask.bulk.mode \in {"move", "copy"})
  BY DEF Files!IndInv, Files!TypeOK, Files!Goes, Files!NoAsk, Files!Asking, Files!NavigateToCrumb
<1> QED
  BY <1>1, <1>2, <1>3, <1>4, <1>5, <1>6, <1>7, <1>8, <1>9, <1>10 DEF Files!IndInv, Files!TypeOK

\* Entries are selected.
LEMMA FilesSelect ==
    ASSUME Files!IndInv,
           Files!Select
    PROVE  Files!IndInv'
<1> USE FilesAssumption, FilesCurrent, FilesOperations
<1>1. DOMAIN x1' = {"stack", "list", "loading", "selected", "root", "bulk", "busy", "ask", "ops", "looks"}
  BY DEF Files!IndInv, Files!TypeOK, Files!Goes, Files!Select
<1>2. x1'.stack \in Seq(Files!Path) /\ x1'.stack # <<>>
  BY DEF Files!IndInv, Files!TypeOK, Files!Goes, Files!Select
<1>3. x1'.list \subseteq Files!Entry /\ x1'.selected \subseteq Files!Entry
  BY DEF Files!IndInv, Files!TypeOK, Files!Goes, Files!CallsFit, Files!LoadFits, Files!Select
<1>4. x1'.loading \in BOOLEAN /\ x1'.root \in {None, HomeDir} /\ x1'.bulk \in {"move", "copy", None}
  BY DEF Files!IndInv, Files!TypeOK, Files!Goes, Files!Select
<1>5. x1'.busy \subseteq Files!Operations
  BY DEF Files!IndInv, Files!TypeOK, Files!Goes, Files!Select
<1>6. \A e \in x2' :
        /\ DOMAIN e = {"kind", "path", "args", "overwrite", "agreed", "for", "at", "reply"}
        /\ e.path \in Files!Path /\ e.for \in Files!Operations \cup {None} /\ e.at \in {"sent", "serving", "done", "failed"}
  BY DEF Files!IndInv, Files!TypeOK, Files!Call, Files!LoadOf, Files!Goes, Files!Select
<1>7. x3' \in [Dir -> SUBSET Name]
  BY DEF Files!IndInv, Files!TypeOK, Files!Select
<1>8. Files!NothingStuck' /\ Files!CallsFit'
  BY DEF Files!IndInv, Files!TypeOK, Files!NothingStuck, Files!CallsFit, Files!LoadFits, Files!Named, Files!Select
<1>9. Files!OnlyNamedIsReplaced'
  BY DEF Files!IndInv, Files!TypeOK, Files!OnlyNamedIsReplaced, Files!Select
<1>10. DOMAIN x1'.ask = DOMAIN Files!NoAsk /\ (x1'.ask.bulk = None \/ x1'.ask.bulk.mode \in {"move", "copy"})
  BY DEF Files!IndInv, Files!TypeOK, Files!Goes, Files!NoAsk, Files!Asking, Files!Select
<1> QED
  BY <1>1, <1>2, <1>3, <1>4, <1>5, <1>6, <1>7, <1>8, <1>9, <1>10 DEF Files!IndInv, Files!TypeOK

\* A rename is submitted, or asks first.
LEMMA FilesRename ==
    ASSUME Files!IndInv,
           Files!Rename
    PROVE  Files!IndInv'
<1> USE FilesAssumption, FilesCurrent, FilesOperations
<1>1. DOMAIN x1' = {"stack", "list", "loading", "selected", "root", "bulk", "busy", "ask", "ops", "looks"}
  BY DEF Files!IndInv, Files!TypeOK, Files!Goes, Files!Rename, Files!SubmitRename
<1>2. x1'.stack \in Seq(Files!Path) /\ x1'.stack # <<>>
  BY DEF Files!IndInv, Files!TypeOK, Files!Goes, Files!Rename, Files!SubmitRename
<1>3. x1'.list \subseteq Files!Entry /\ x1'.selected \subseteq Files!Entry
  BY DEF Files!IndInv, Files!TypeOK, Files!Goes, Files!CallsFit, Files!LoadFits, Files!Rename, Files!SubmitRename
<1>4. x1'.loading \in BOOLEAN /\ x1'.root \in {None, HomeDir} /\ x1'.bulk \in {"move", "copy", None}
  BY DEF Files!IndInv, Files!TypeOK, Files!Goes, Files!Rename, Files!SubmitRename
<1>5. x1'.busy \subseteq Files!Operations
  BY DEF Files!IndInv, Files!TypeOK, Files!Goes, Files!Rename, Files!SubmitRename
<1>6. \A e \in x2' :
        /\ DOMAIN e = {"kind", "path", "args", "overwrite", "agreed", "for", "at", "reply"}
        /\ e.path \in Files!Path /\ e.for \in Files!Operations \cup {None} /\ e.at \in {"sent", "serving", "done", "failed"}
  BY DEF Files!IndInv, Files!TypeOK, Files!Call, Files!LoadOf, Files!Goes, Files!Rename, Files!SubmitRename
<1>7. x3' \in [Dir -> SUBSET Name]
  BY DEF Files!IndInv, Files!TypeOK, Files!Rename, Files!SubmitRename
<1>8. Files!NothingStuck' /\ Files!CallsFit'
  <2>1. x1'.busy = x1.busy \cup {"rename"} /\ x1'.loading = x1.loading
    BY DEF Files!IndInv, Files!TypeOK, Files!Rename, Files!SubmitRename
  <2>2. PICK k, a, ag : /\ x2' = x2 \cup {Files!Call(k, a, FALSE, ag)} /\ k = "rename"
    BY Zenon DEF Files!Rename, Files!SubmitRename
  <2> QED
    BY <2>1, <2>2, FilesAsked
<1>9. Files!OnlyNamedIsReplaced'
  BY DEF Files!IndInv, Files!TypeOK, Files!OnlyNamedIsReplaced, Files!Rename, Files!SubmitRename
<1>10. DOMAIN x1'.ask = DOMAIN Files!NoAsk /\ (x1'.ask.bulk = None \/ x1'.ask.bulk.mode \in {"move", "copy"})
  BY DEF Files!IndInv, Files!TypeOK, Files!Goes, Files!NoAsk, Files!Asking, Files!Rename, Files!SubmitRename
<1> QED
  BY <1>1, <1>2, <1>3, <1>4, <1>5, <1>6, <1>7, <1>8, <1>9, <1>10 DEF Files!IndInv, Files!TypeOK

\* A rename is answered.
LEMMA FilesRenamed ==
    ASSUME Files!IndInv,
           NEW c \in x2,
           Files!Renamed(c)
    PROVE  Files!IndInv'
<1> USE FilesAssumption, FilesCurrent, FilesOperations
<1>1. DOMAIN x1' = {"stack", "list", "loading", "selected", "root", "bulk", "busy", "ask", "ops", "looks"}
  BY DEF Files!IndInv, Files!TypeOK, Files!Goes, Files!Renamed, Files!Settled
<1>2. x1'.stack \in Seq(Files!Path) /\ x1'.stack # <<>>
  BY DEF Files!IndInv, Files!TypeOK, Files!Goes, Files!Renamed, Files!Settled
<1>3. x1'.list \subseteq Files!Entry /\ x1'.selected \subseteq Files!Entry
  BY DEF Files!IndInv, Files!TypeOK, Files!Goes, Files!CallsFit, Files!LoadFits, Files!Renamed, Files!Settled
<1>4. x1'.loading \in BOOLEAN /\ x1'.root \in {None, HomeDir} /\ x1'.bulk \in {"move", "copy", None}
  BY DEF Files!IndInv, Files!TypeOK, Files!Goes, Files!Renamed, Files!Settled
<1>5. x1'.busy \subseteq Files!Operations
  <2>1. CASE c.at = "failed"
    <3>1. x1'.busy = x1.busy \ {"rename"}
      BY <2>1 DEF Files!IndInv, Files!TypeOK, Files!Renamed, Files!Settled
    <3> QED
      BY <3>1 DEF Files!IndInv, Files!TypeOK
  <2>2. CASE c.at # "failed"
    <3>1. x1'.busy = x1.busy
      BY <2>2 DEF Files!IndInv, Files!TypeOK, Files!Renamed, Files!Settled
    <3> QED
      BY <3>1 DEF Files!IndInv, Files!TypeOK
  <2> QED
    BY <2>1, <2>2
<1>6. \A e \in x2' :
        /\ DOMAIN e = {"kind", "path", "args", "overwrite", "agreed", "for", "at", "reply"}
        /\ e.path \in Files!Path /\ e.for \in Files!Operations \cup {None} /\ e.at \in {"sent", "serving", "done", "failed"}
  BY DEF Files!IndInv, Files!TypeOK, Files!Call, Files!LoadOf, Files!Goes, Files!Renamed, Files!Settled
<1>7. x3' \in [Dir -> SUBSET Name]
  BY DEF Files!IndInv, Files!TypeOK, Files!Renamed, Files!Settled
<1>8. Files!NothingStuck' /\ Files!CallsFit'
  <2>1. CASE c.at = "failed"
    <3>1. x2' = x2 \ {c} /\ x1'.busy = x1.busy \ {"rename"} /\ x1'.loading = x1.loading
      BY <2>1 DEF Files!IndInv, Files!TypeOK, Files!Renamed, Files!Settled
    <3> QED
      BY <3>1, FilesFailed DEF Files!Renamed, Files!Settled
  <2>2. CASE c.at # "failed"
    <3>1. x2' = (x2 \ {c}) \cup {Files!LoadOf(c.path, "rename")} /\ x1'.busy = x1.busy
      BY <2>2 DEF Files!IndInv, Files!TypeOK, Files!Renamed, Files!Settled
    <3> QED
      BY <3>1, FilesDone DEF Files!Renamed, Files!Settled
  <2> QED
    BY <2>1, <2>2
<1>9. Files!OnlyNamedIsReplaced'
  BY DEF Files!IndInv, Files!TypeOK, Files!OnlyNamedIsReplaced, Files!Renamed, Files!Settled
<1>10. DOMAIN x1'.ask = DOMAIN Files!NoAsk /\ (x1'.ask.bulk = None \/ x1'.ask.bulk.mode \in {"move", "copy"})
  <2>1. CASE c.at = "failed"
    <3> DEFINE v == IF c.reply = "exists" /\ ~c.overwrite THEN c.args ELSE None
               b == x1.busy \ {"rename"}
    <3>1. x1' = [x1 EXCEPT !.busy = b, !.ask.rename = v]
      BY <2>1 DEF Files!Renamed, Files!Settled
    <3> HIDE DEF v, b
    <3> QED
      BY <3>1 DEF Files!IndInv, Files!TypeOK, Files!NoAsk
  <2>2. CASE c.at # "failed"
    <3>1. x1' = [x1 EXCEPT !.ask.rename = None, !.loading = TRUE]
      BY <2>2 DEF Files!Renamed, Files!Settled
    <3> QED
      BY <3>1 DEF Files!IndInv, Files!TypeOK, Files!NoAsk
  <2> QED
    BY <2>1, <2>2
<1> QED
  BY <1>1, <1>2, <1>3, <1>4, <1>5, <1>6, <1>7, <1>8, <1>9, <1>10 DEF Files!IndInv, Files!TypeOK

\* A folder is made.
LEMMA FilesMkdir ==
    ASSUME Files!IndInv,
           Files!Mkdir
    PROVE  Files!IndInv'
<1> USE FilesAssumption, FilesCurrent, FilesOperations
<1>1. DOMAIN x1' = {"stack", "list", "loading", "selected", "root", "bulk", "busy", "ask", "ops", "looks"}
  BY DEF Files!IndInv, Files!TypeOK, Files!Goes, Files!Mkdir
<1>2. x1'.stack \in Seq(Files!Path) /\ x1'.stack # <<>>
  BY DEF Files!IndInv, Files!TypeOK, Files!Goes, Files!Mkdir
<1>3. x1'.list \subseteq Files!Entry /\ x1'.selected \subseteq Files!Entry
  BY DEF Files!IndInv, Files!TypeOK, Files!Goes, Files!CallsFit, Files!LoadFits, Files!Mkdir
<1>4. x1'.loading \in BOOLEAN /\ x1'.root \in {None, HomeDir} /\ x1'.bulk \in {"move", "copy", None}
  BY DEF Files!IndInv, Files!TypeOK, Files!Goes, Files!Mkdir
<1>5. x1'.busy \subseteq Files!Operations
  BY DEF Files!IndInv, Files!TypeOK, Files!Goes, Files!Mkdir
<1>6. \A e \in x2' :
        /\ DOMAIN e = {"kind", "path", "args", "overwrite", "agreed", "for", "at", "reply"}
        /\ e.path \in Files!Path /\ e.for \in Files!Operations \cup {None} /\ e.at \in {"sent", "serving", "done", "failed"}
  BY DEF Files!IndInv, Files!TypeOK, Files!Call, Files!LoadOf, Files!Goes, Files!Mkdir
<1>7. x3' \in [Dir -> SUBSET Name]
  BY DEF Files!IndInv, Files!TypeOK, Files!Mkdir
<1>8. Files!NothingStuck' /\ Files!CallsFit'
  <2>1. x1'.busy = x1.busy \cup {"mkdir"} /\ x1'.loading = x1.loading
    BY DEF Files!IndInv, Files!TypeOK, Files!Mkdir
  <2>2. PICK k, a, ag : /\ x2' = x2 \cup {Files!Call(k, a, FALSE, ag)} /\ k = "mkdir"
    BY Zenon DEF Files!Mkdir
  <2> QED
    BY <2>1, <2>2, FilesAsked
<1>9. Files!OnlyNamedIsReplaced'
  BY DEF Files!IndInv, Files!TypeOK, Files!OnlyNamedIsReplaced, Files!Mkdir
<1>10. DOMAIN x1'.ask = DOMAIN Files!NoAsk /\ (x1'.ask.bulk = None \/ x1'.ask.bulk.mode \in {"move", "copy"})
  BY DEF Files!IndInv, Files!TypeOK, Files!Goes, Files!NoAsk, Files!Asking, Files!Mkdir
<1> QED
  BY <1>1, <1>2, <1>3, <1>4, <1>5, <1>6, <1>7, <1>8, <1>9, <1>10 DEF Files!IndInv, Files!TypeOK

\* Making a folder is answered.
LEMMA FilesMkdirDone ==
    ASSUME Files!IndInv,
           NEW c \in x2,
           Files!MkdirDone(c)
    PROVE  Files!IndInv'
<1> USE FilesAssumption, FilesCurrent, FilesOperations
<1>1. DOMAIN x1' = {"stack", "list", "loading", "selected", "root", "bulk", "busy", "ask", "ops", "looks"}
  BY DEF Files!IndInv, Files!TypeOK, Files!Goes, Files!MkdirDone, Files!Settled
<1>2. x1'.stack \in Seq(Files!Path) /\ x1'.stack # <<>>
  BY DEF Files!IndInv, Files!TypeOK, Files!Goes, Files!MkdirDone, Files!Settled
<1>3. x1'.list \subseteq Files!Entry /\ x1'.selected \subseteq Files!Entry
  BY DEF Files!IndInv, Files!TypeOK, Files!Goes, Files!CallsFit, Files!LoadFits, Files!MkdirDone, Files!Settled
<1>4. x1'.loading \in BOOLEAN /\ x1'.root \in {None, HomeDir} /\ x1'.bulk \in {"move", "copy", None}
  BY DEF Files!IndInv, Files!TypeOK, Files!Goes, Files!MkdirDone, Files!Settled
<1>5. x1'.busy \subseteq Files!Operations
  BY DEF Files!IndInv, Files!TypeOK, Files!Goes, Files!MkdirDone, Files!Settled
<1>6. \A e \in x2' :
        /\ DOMAIN e = {"kind", "path", "args", "overwrite", "agreed", "for", "at", "reply"}
        /\ e.path \in Files!Path /\ e.for \in Files!Operations \cup {None} /\ e.at \in {"sent", "serving", "done", "failed"}
  BY DEF Files!IndInv, Files!TypeOK, Files!Call, Files!LoadOf, Files!Goes, Files!MkdirDone, Files!Settled
<1>7. x3' \in [Dir -> SUBSET Name]
  BY DEF Files!IndInv, Files!TypeOK, Files!MkdirDone, Files!Settled
<1>8. Files!NothingStuck' /\ Files!CallsFit'
  <2>1. CASE c.at = "failed"
    <3>1. x2' = x2 \ {c} /\ x1'.busy = x1.busy \ {"mkdir"} /\ x1'.loading = x1.loading
      BY <2>1 DEF Files!IndInv, Files!TypeOK, Files!MkdirDone, Files!Settled
    <3> QED
      BY <3>1, FilesFailed DEF Files!MkdirDone, Files!Settled
  <2>2. CASE c.at # "failed"
    <3>1. x2' = (x2 \ {c}) \cup {Files!LoadOf(c.path, "mkdir")} /\ x1'.busy = x1.busy
      BY <2>2 DEF Files!IndInv, Files!TypeOK, Files!MkdirDone, Files!Settled
    <3> QED
      BY <3>1, FilesDone DEF Files!MkdirDone, Files!Settled
  <2> QED
    BY <2>1, <2>2
<1>9. Files!OnlyNamedIsReplaced'
  BY DEF Files!IndInv, Files!TypeOK, Files!OnlyNamedIsReplaced, Files!MkdirDone, Files!Settled
<1>10. DOMAIN x1'.ask = DOMAIN Files!NoAsk /\ (x1'.ask.bulk = None \/ x1'.ask.bulk.mode \in {"move", "copy"})
  BY DEF Files!IndInv, Files!TypeOK, Files!Goes, Files!NoAsk, Files!Asking, Files!MkdirDone, Files!Settled
<1> QED
  BY <1>1, <1>2, <1>3, <1>4, <1>5, <1>6, <1>7, <1>8, <1>9, <1>10 DEF Files!IndInv, Files!TypeOK

\* A deletion is asked about.
LEMMA FilesAskDelete ==
    ASSUME Files!IndInv,
           Files!AskDelete
    PROVE  Files!IndInv'
<1> USE FilesAssumption, FilesCurrent, FilesOperations
<1>1. DOMAIN x1' = {"stack", "list", "loading", "selected", "root", "bulk", "busy", "ask", "ops", "looks"}
  BY DEF Files!IndInv, Files!TypeOK, Files!Goes, Files!AskDelete
<1>2. x1'.stack \in Seq(Files!Path) /\ x1'.stack # <<>>
  BY DEF Files!IndInv, Files!TypeOK, Files!Goes, Files!AskDelete
<1>3. x1'.list \subseteq Files!Entry /\ x1'.selected \subseteq Files!Entry
  BY DEF Files!IndInv, Files!TypeOK, Files!Goes, Files!CallsFit, Files!LoadFits, Files!AskDelete
<1>4. x1'.loading \in BOOLEAN /\ x1'.root \in {None, HomeDir} /\ x1'.bulk \in {"move", "copy", None}
  BY DEF Files!IndInv, Files!TypeOK, Files!Goes, Files!AskDelete
<1>5. x1'.busy \subseteq Files!Operations
  BY DEF Files!IndInv, Files!TypeOK, Files!Goes, Files!AskDelete
<1>6. \A e \in x2' :
        /\ DOMAIN e = {"kind", "path", "args", "overwrite", "agreed", "for", "at", "reply"}
        /\ e.path \in Files!Path /\ e.for \in Files!Operations \cup {None} /\ e.at \in {"sent", "serving", "done", "failed"}
  BY DEF Files!IndInv, Files!TypeOK, Files!Call, Files!LoadOf, Files!Goes, Files!AskDelete
<1>7. x3' \in [Dir -> SUBSET Name]
  BY DEF Files!IndInv, Files!TypeOK, Files!AskDelete
<1>8. Files!NothingStuck' /\ Files!CallsFit'
  BY DEF Files!IndInv, Files!TypeOK, Files!NothingStuck, Files!CallsFit, Files!LoadFits, Files!Named, Files!AskDelete
<1>9. Files!OnlyNamedIsReplaced'
  BY DEF Files!IndInv, Files!TypeOK, Files!OnlyNamedIsReplaced, Files!AskDelete
<1>10. DOMAIN x1'.ask = DOMAIN Files!NoAsk /\ (x1'.ask.bulk = None \/ x1'.ask.bulk.mode \in {"move", "copy"})
  BY DEF Files!IndInv, Files!TypeOK, Files!Goes, Files!NoAsk, Files!Asking, Files!AskDelete
<1> QED
  BY <1>1, <1>2, <1>3, <1>4, <1>5, <1>6, <1>7, <1>8, <1>9, <1>10 DEF Files!IndInv, Files!TypeOK

\* A deletion is answered.
LEMMA FilesDeleted ==
    ASSUME Files!IndInv,
           NEW c \in x2,
           Files!Deleted(c)
    PROVE  Files!IndInv'
<1> USE FilesAssumption, FilesCurrent, FilesOperations
<1>1. DOMAIN x1' = {"stack", "list", "loading", "selected", "root", "bulk", "busy", "ask", "ops", "looks"}
  BY DEF Files!IndInv, Files!TypeOK, Files!Goes, Files!Deleted, Files!Settled
<1>2. x1'.stack \in Seq(Files!Path) /\ x1'.stack # <<>>
  BY DEF Files!IndInv, Files!TypeOK, Files!Goes, Files!Deleted, Files!Settled
<1>3. x1'.list \subseteq Files!Entry /\ x1'.selected \subseteq Files!Entry
  BY DEF Files!IndInv, Files!TypeOK, Files!Goes, Files!CallsFit, Files!LoadFits, Files!Deleted, Files!Settled
<1>4. x1'.loading \in BOOLEAN /\ x1'.root \in {None, HomeDir} /\ x1'.bulk \in {"move", "copy", None}
  BY DEF Files!IndInv, Files!TypeOK, Files!Goes, Files!Deleted, Files!Settled
<1>5. x1'.busy \subseteq Files!Operations
  <2>1. CASE c.at = "failed"
    <3>1. x1'.busy = x1.busy \ {"delete"}
      BY <2>1 DEF Files!IndInv, Files!TypeOK, Files!Deleted, Files!Settled
    <3> QED
      BY <3>1 DEF Files!IndInv, Files!TypeOK
  <2>2. CASE c.at # "failed"
    <3>1. x1'.busy = x1.busy
      BY <2>2 DEF Files!IndInv, Files!TypeOK, Files!Deleted, Files!Settled
    <3> QED
      BY <3>1 DEF Files!IndInv, Files!TypeOK
  <2> QED
    BY <2>1, <2>2
<1>6. \A e \in x2' :
        /\ DOMAIN e = {"kind", "path", "args", "overwrite", "agreed", "for", "at", "reply"}
        /\ e.path \in Files!Path /\ e.for \in Files!Operations \cup {None} /\ e.at \in {"sent", "serving", "done", "failed"}
  BY DEF Files!IndInv, Files!TypeOK, Files!Call, Files!LoadOf, Files!Goes, Files!Deleted, Files!Settled
<1>7. x3' \in [Dir -> SUBSET Name]
  BY DEF Files!IndInv, Files!TypeOK, Files!Deleted, Files!Settled
<1>8. Files!NothingStuck' /\ Files!CallsFit'
  <2>1. CASE c.at = "failed"
    <3>1. x2' = x2 \ {c} /\ x1'.busy = x1.busy \ {"delete"} /\ x1'.loading = x1.loading
      BY <2>1 DEF Files!IndInv, Files!TypeOK, Files!Deleted, Files!Settled
    <3> QED
      BY <3>1, FilesFailed DEF Files!Deleted, Files!Settled
  <2>2. CASE c.at # "failed"
    <3>1. x2' = (x2 \ {c}) \cup {Files!LoadOf(c.path, "delete")} /\ x1'.busy = x1.busy
      BY <2>2 DEF Files!IndInv, Files!TypeOK, Files!Deleted, Files!Settled
    <3> QED
      BY <3>1, FilesDone DEF Files!Deleted, Files!Settled
  <2> QED
    BY <2>1, <2>2
<1>9. Files!OnlyNamedIsReplaced'
  BY DEF Files!IndInv, Files!TypeOK, Files!OnlyNamedIsReplaced, Files!Deleted, Files!Settled
<1>10. DOMAIN x1'.ask = DOMAIN Files!NoAsk /\ (x1'.ask.bulk = None \/ x1'.ask.bulk.mode \in {"move", "copy"})
  <2>1. x1'.ask = x1.ask \/ \E v : x1'.ask = [x1.ask EXCEPT !.delete = v]
    BY DEF Files!IndInv, Files!TypeOK, Files!Deleted, Files!Settled
  <2> QED
    BY <2>1 DEF Files!IndInv, Files!TypeOK, Files!NoAsk
<1> QED
  BY <1>1, <1>2, <1>3, <1>4, <1>5, <1>6, <1>7, <1>8, <1>9, <1>10 DEF Files!IndInv, Files!TypeOK

\* An upload is submitted, or asks first.
LEMMA FilesUpload ==
    ASSUME Files!IndInv,
           Files!Upload
    PROVE  Files!IndInv'
<1> USE FilesAssumption, FilesCurrent, FilesOperations
<1>1. DOMAIN x1' = {"stack", "list", "loading", "selected", "root", "bulk", "busy", "ask", "ops", "looks"}
  BY DEF Files!IndInv, Files!TypeOK, Files!Goes, Files!Upload, Files!SubmitUpload
<1>2. x1'.stack \in Seq(Files!Path) /\ x1'.stack # <<>>
  BY DEF Files!IndInv, Files!TypeOK, Files!Goes, Files!Upload, Files!SubmitUpload
<1>3. x1'.list \subseteq Files!Entry /\ x1'.selected \subseteq Files!Entry
  BY DEF Files!IndInv, Files!TypeOK, Files!Goes, Files!CallsFit, Files!LoadFits, Files!Upload, Files!SubmitUpload
<1>4. x1'.loading \in BOOLEAN /\ x1'.root \in {None, HomeDir} /\ x1'.bulk \in {"move", "copy", None}
  BY DEF Files!IndInv, Files!TypeOK, Files!Goes, Files!Upload, Files!SubmitUpload
<1>5. x1'.busy \subseteq Files!Operations
  <2> DEFINE b == x1.busy \cup {"upload"}
             n == x1.ops + 1
  <2>1. x1' = [x1 EXCEPT !.ask.upload = None] \/ x1' = [x1 EXCEPT !.busy = b, !.ops = n, !.ask.upload = None]
    BY Zenon DEF Files!Upload, Files!SubmitUpload
  <2>2. b \subseteq Files!Operations
    BY DEF Files!IndInv, Files!TypeOK
  <2> HIDE DEF b, n
  <2>3. CASE x1' = [x1 EXCEPT !.ask.upload = None]
    BY <2>3 DEF Files!IndInv, Files!TypeOK
  <2>4. CASE x1' = [x1 EXCEPT !.busy = b, !.ops = n, !.ask.upload = None]
    BY <2>2, <2>4 DEF Files!IndInv, Files!TypeOK
  <2> QED
    BY <2>1, <2>3, <2>4
<1>6. \A e \in x2' :
        /\ DOMAIN e = {"kind", "path", "args", "overwrite", "agreed", "for", "at", "reply"}
        /\ e.path \in Files!Path /\ e.for \in Files!Operations \cup {None} /\ e.at \in {"sent", "serving", "done", "failed"}
  BY DEF Files!IndInv, Files!TypeOK, Files!Call, Files!LoadOf, Files!Goes, Files!Upload, Files!SubmitUpload
<1>7. x3' \in [Dir -> SUBSET Name]
  BY DEF Files!IndInv, Files!TypeOK, Files!Upload, Files!SubmitUpload
<1>8. Files!NothingStuck' /\ Files!CallsFit'
  <2>1. x1'.busy = x1.busy \cup {"upload"} /\ x1'.loading = x1.loading
    BY DEF Files!IndInv, Files!TypeOK, Files!Upload, Files!SubmitUpload
  <2>2. PICK k, a, ag : /\ x2' = x2 \cup {Files!Call(k, a, FALSE, ag)} /\ k = "upload"
    BY Zenon DEF Files!Upload, Files!SubmitUpload
  <2> QED
    BY <2>1, <2>2, FilesAsked
<1>9. Files!OnlyNamedIsReplaced'
  BY DEF Files!IndInv, Files!TypeOK, Files!OnlyNamedIsReplaced, Files!Upload, Files!SubmitUpload
<1>10. DOMAIN x1'.ask = DOMAIN Files!NoAsk /\ (x1'.ask.bulk = None \/ x1'.ask.bulk.mode \in {"move", "copy"})
  <2> DEFINE b == x1.busy \cup {"upload"}
             n == x1.ops + 1
  <2>1. x1' = [x1 EXCEPT !.ask.upload = None] \/ x1' = [x1 EXCEPT !.busy = b, !.ops = n, !.ask.upload = None]
    BY Zenon DEF Files!Upload, Files!SubmitUpload
  <2>2. b \subseteq Files!Operations
    BY DEF Files!IndInv, Files!TypeOK
  <2> HIDE DEF b, n
  <2>3. CASE x1' = [x1 EXCEPT !.ask.upload = None]
    BY <2>3 DEF Files!IndInv, Files!TypeOK, Files!NoAsk
  <2>4. CASE x1' = [x1 EXCEPT !.busy = b, !.ops = n, !.ask.upload = None]
    BY <2>2, <2>4 DEF Files!IndInv, Files!TypeOK, Files!NoAsk
  <2> QED
    BY <2>1, <2>3, <2>4
<1> QED
  BY <1>1, <1>2, <1>3, <1>4, <1>5, <1>6, <1>7, <1>8, <1>9, <1>10 DEF Files!IndInv, Files!TypeOK

\* An upload is answered.
LEMMA FilesUploaded ==
    ASSUME Files!IndInv,
           NEW c \in x2,
           Files!Uploaded(c)
    PROVE  Files!IndInv'
<1> USE FilesAssumption, FilesCurrent, FilesOperations
<1>1. DOMAIN x1' = {"stack", "list", "loading", "selected", "root", "bulk", "busy", "ask", "ops", "looks"}
  BY DEF Files!IndInv, Files!TypeOK, Files!Goes, Files!Uploaded, Files!Settled
<1>2. x1'.stack \in Seq(Files!Path) /\ x1'.stack # <<>>
  BY DEF Files!IndInv, Files!TypeOK, Files!Goes, Files!Uploaded, Files!Settled
<1>3. x1'.list \subseteq Files!Entry /\ x1'.selected \subseteq Files!Entry
  BY DEF Files!IndInv, Files!TypeOK, Files!Goes, Files!CallsFit, Files!LoadFits, Files!Uploaded, Files!Settled
<1>4. x1'.loading \in BOOLEAN /\ x1'.root \in {None, HomeDir} /\ x1'.bulk \in {"move", "copy", None}
  BY DEF Files!IndInv, Files!TypeOK, Files!Goes, Files!Uploaded, Files!Settled
<1>5. x1'.busy \subseteq Files!Operations
  <2>1. CASE c.at = "failed"
    <3>1. x1'.busy = x1.busy \ {"upload"}
      BY <2>1 DEF Files!IndInv, Files!TypeOK, Files!Uploaded, Files!Settled
    <3> QED
      BY <3>1 DEF Files!IndInv, Files!TypeOK
  <2>2. CASE c.at # "failed"
    <3>1. x1'.busy = x1.busy
      BY <2>2 DEF Files!IndInv, Files!TypeOK, Files!Uploaded, Files!Settled
    <3> QED
      BY <3>1 DEF Files!IndInv, Files!TypeOK
  <2> QED
    BY <2>1, <2>2
<1>6. \A e \in x2' :
        /\ DOMAIN e = {"kind", "path", "args", "overwrite", "agreed", "for", "at", "reply"}
        /\ e.path \in Files!Path /\ e.for \in Files!Operations \cup {None} /\ e.at \in {"sent", "serving", "done", "failed"}
  BY DEF Files!IndInv, Files!TypeOK, Files!Call, Files!LoadOf, Files!Goes, Files!Uploaded, Files!Settled
<1>7. x3' \in [Dir -> SUBSET Name]
  BY DEF Files!IndInv, Files!TypeOK, Files!Uploaded, Files!Settled
<1>8. Files!NothingStuck' /\ Files!CallsFit'
  <2>1. CASE c.at = "failed"
    <3>1. x2' = x2 \ {c} /\ x1'.busy = x1.busy \ {"upload"} /\ x1'.loading = x1.loading
      BY <2>1 DEF Files!IndInv, Files!TypeOK, Files!Uploaded, Files!Settled
    <3> QED
      BY <3>1, FilesFailed DEF Files!Uploaded, Files!Settled
  <2>2. CASE c.at # "failed"
    <3>1. x2' = (x2 \ {c}) \cup {Files!LoadOf(c.path, "upload")} /\ x1'.busy = x1.busy
      BY <2>2 DEF Files!IndInv, Files!TypeOK, Files!Uploaded, Files!Settled
    <3> QED
      BY <3>1, FilesDone DEF Files!Uploaded, Files!Settled
  <2> QED
    BY <2>1, <2>2
<1>9. Files!OnlyNamedIsReplaced'
  BY DEF Files!IndInv, Files!TypeOK, Files!OnlyNamedIsReplaced, Files!Uploaded, Files!Settled
<1>10. DOMAIN x1'.ask = DOMAIN Files!NoAsk /\ (x1'.ask.bulk = None \/ x1'.ask.bulk.mode \in {"move", "copy"})
  <2>1. CASE c.at = "failed"
    BY <2>1 DEF Files!IndInv, Files!TypeOK, Files!NoAsk, Files!Uploaded, Files!Settled
  <2>2. CASE c.at # "failed"
    <3> DEFINE v == IF c.reply = {} THEN None ELSE [dir |-> c.args.dir, files |-> {p.to[2] : p \in c.reply}]
    <3>1. x1' = [x1 EXCEPT !.ask.upload = v, !.loading = TRUE]
      BY <2>2 DEF Files!Uploaded, Files!Settled
    <3> HIDE DEF v
    <3> QED
      BY <3>1 DEF Files!IndInv, Files!TypeOK, Files!NoAsk
  <2> QED
    BY <2>1, <2>2
<1> QED
  BY <1>1, <1>2, <1>3, <1>4, <1>5, <1>6, <1>7, <1>8, <1>9, <1>10 DEF Files!IndInv, Files!TypeOK

\* Moving or copying is begun.
LEMMA FilesAskBulk ==
    ASSUME Files!IndInv,
           Files!AskBulk
    PROVE  Files!IndInv'
<1> USE FilesAssumption, FilesCurrent, FilesOperations
<1>1. DOMAIN x1' = {"stack", "list", "loading", "selected", "root", "bulk", "busy", "ask", "ops", "looks"}
  BY DEF Files!IndInv, Files!TypeOK, Files!Goes, Files!AskBulk
<1>2. x1'.stack \in Seq(Files!Path) /\ x1'.stack # <<>>
  BY DEF Files!IndInv, Files!TypeOK, Files!Goes, Files!AskBulk
<1>3. x1'.list \subseteq Files!Entry /\ x1'.selected \subseteq Files!Entry
  BY DEF Files!IndInv, Files!TypeOK, Files!Goes, Files!CallsFit, Files!LoadFits, Files!AskBulk
<1>4. x1'.loading \in BOOLEAN /\ x1'.root \in {None, HomeDir} /\ x1'.bulk \in {"move", "copy", None}
  BY DEF Files!IndInv, Files!TypeOK, Files!Goes, Files!AskBulk
<1>5. x1'.busy \subseteq Files!Operations
  BY DEF Files!IndInv, Files!TypeOK, Files!Goes, Files!AskBulk
<1>6. \A e \in x2' :
        /\ DOMAIN e = {"kind", "path", "args", "overwrite", "agreed", "for", "at", "reply"}
        /\ e.path \in Files!Path /\ e.for \in Files!Operations \cup {None} /\ e.at \in {"sent", "serving", "done", "failed"}
  BY DEF Files!IndInv, Files!TypeOK, Files!Call, Files!LoadOf, Files!Goes, Files!AskBulk
<1>7. x3' \in [Dir -> SUBSET Name]
  BY DEF Files!IndInv, Files!TypeOK, Files!AskBulk
<1>8. Files!NothingStuck' /\ Files!CallsFit'
  BY DEF Files!IndInv, Files!TypeOK, Files!NothingStuck, Files!CallsFit, Files!LoadFits, Files!Named, Files!AskBulk
<1>9. Files!OnlyNamedIsReplaced'
  BY DEF Files!IndInv, Files!TypeOK, Files!OnlyNamedIsReplaced, Files!AskBulk
<1>10. DOMAIN x1'.ask = DOMAIN Files!NoAsk /\ (x1'.ask.bulk = None \/ x1'.ask.bulk.mode \in {"move", "copy"})
  BY DEF Files!IndInv, Files!TypeOK, Files!Goes, Files!NoAsk, Files!Asking, Files!AskBulk
<1> QED
  BY <1>1, <1>2, <1>3, <1>4, <1>5, <1>6, <1>7, <1>8, <1>9, <1>10 DEF Files!IndInv, Files!TypeOK

\* It is submitted, or asks first.
LEMMA FilesBulk ==
    ASSUME Files!IndInv,
           Files!Bulk
    PROVE  Files!IndInv'
<1> USE FilesAssumption, FilesCurrent, FilesOperations
<1>1. DOMAIN x1' = {"stack", "list", "loading", "selected", "root", "bulk", "busy", "ask", "ops", "looks"}
  BY DEF Files!IndInv, Files!TypeOK, Files!Goes, Files!Bulk, Files!SubmitBulk
<1>2. x1'.stack \in Seq(Files!Path) /\ x1'.stack # <<>>
  BY DEF Files!IndInv, Files!TypeOK, Files!Goes, Files!Bulk, Files!SubmitBulk
<1>3. x1'.list \subseteq Files!Entry /\ x1'.selected \subseteq Files!Entry
  BY DEF Files!IndInv, Files!TypeOK, Files!Goes, Files!CallsFit, Files!LoadFits, Files!Bulk, Files!SubmitBulk
<1>4. x1'.loading \in BOOLEAN /\ x1'.root \in {None, HomeDir} /\ x1'.bulk \in {"move", "copy", None}
  BY DEF Files!IndInv, Files!TypeOK, Files!Goes, Files!Bulk, Files!SubmitBulk
<1>5. x1'.busy \subseteq Files!Operations
  BY DEF Files!IndInv, Files!TypeOK, Files!Goes, Files!Bulk, Files!SubmitBulk
<1>6. \A e \in x2' :
        /\ DOMAIN e = {"kind", "path", "args", "overwrite", "agreed", "for", "at", "reply"}
        /\ e.path \in Files!Path /\ e.for \in Files!Operations \cup {None} /\ e.at \in {"sent", "serving", "done", "failed"}
  BY DEF Files!IndInv, Files!TypeOK, Files!Call, Files!LoadOf, Files!Goes, Files!Bulk, Files!SubmitBulk
<1>7. x3' \in [Dir -> SUBSET Name]
  BY DEF Files!IndInv, Files!TypeOK, Files!Bulk, Files!SubmitBulk
<1>8. Files!NothingStuck' /\ Files!CallsFit'
  <2>1. x1'.busy = x1.busy \cup {"bulk"} /\ x1'.loading = x1.loading /\ x1.bulk \in {"move", "copy"}
    BY DEF Files!IndInv, Files!TypeOK, Files!Bulk, Files!SubmitBulk
  <2>2. PICK a, ag : x2' = x2 \cup {Files!Call(x1.bulk, a, FALSE, ag)}
    BY Zenon DEF Files!Bulk, Files!SubmitBulk
  <2> QED
    BY <2>1, <2>2, FilesAsked
<1>9. Files!OnlyNamedIsReplaced'
  BY DEF Files!IndInv, Files!TypeOK, Files!OnlyNamedIsReplaced, Files!Bulk, Files!SubmitBulk
<1>10. DOMAIN x1'.ask = DOMAIN Files!NoAsk /\ (x1'.ask.bulk = None \/ x1'.ask.bulk.mode \in {"move", "copy"})
  BY DEF Files!IndInv, Files!TypeOK, Files!Goes, Files!NoAsk, Files!Asking, Files!Bulk, Files!SubmitBulk
<1> QED
  BY <1>1, <1>2, <1>3, <1>4, <1>5, <1>6, <1>7, <1>8, <1>9, <1>10 DEF Files!IndInv, Files!TypeOK

\* It is answered.
LEMMA FilesBulked ==
    ASSUME Files!IndInv,
           NEW c \in x2,
           Files!Bulked(c)
    PROVE  Files!IndInv'
<1> USE FilesAssumption, FilesCurrent, FilesOperations
<1>1. DOMAIN x1' = {"stack", "list", "loading", "selected", "root", "bulk", "busy", "ask", "ops", "looks"}
  BY DEF Files!IndInv, Files!TypeOK, Files!Goes, Files!Bulked, Files!Settled
<1>2. x1'.stack \in Seq(Files!Path) /\ x1'.stack # <<>>
  BY DEF Files!IndInv, Files!TypeOK, Files!Goes, Files!Bulked, Files!Settled
<1>3. x1'.list \subseteq Files!Entry /\ x1'.selected \subseteq Files!Entry
  BY DEF Files!IndInv, Files!TypeOK, Files!Goes, Files!CallsFit, Files!LoadFits, Files!Bulked, Files!Settled
<1>4. x1'.loading \in BOOLEAN /\ x1'.root \in {None, HomeDir} /\ x1'.bulk \in {"move", "copy", None}
  BY DEF Files!IndInv, Files!TypeOK, Files!Goes, Files!Bulked, Files!Settled
<1>5. x1'.busy \subseteq Files!Operations
  <2>1. CASE c.at = "failed"
    <3>1. x1'.busy = x1.busy \ {"bulk"}
      BY <2>1 DEF Files!IndInv, Files!TypeOK, Files!Bulked, Files!Settled
    <3> QED
      BY <3>1 DEF Files!IndInv, Files!TypeOK
  <2>2. CASE c.at # "failed"
    <3>1. x1'.busy = x1.busy
      BY <2>2 DEF Files!IndInv, Files!TypeOK, Files!Bulked, Files!Settled
    <3> QED
      BY <3>1 DEF Files!IndInv, Files!TypeOK
  <2> QED
    BY <2>1, <2>2
<1>6. \A e \in x2' :
        /\ DOMAIN e = {"kind", "path", "args", "overwrite", "agreed", "for", "at", "reply"}
        /\ e.path \in Files!Path /\ e.for \in Files!Operations \cup {None} /\ e.at \in {"sent", "serving", "done", "failed"}
  BY DEF Files!IndInv, Files!TypeOK, Files!Call, Files!LoadOf, Files!Goes, Files!Bulked, Files!Settled
<1>7. x3' \in [Dir -> SUBSET Name]
  BY DEF Files!IndInv, Files!TypeOK, Files!Bulked, Files!Settled
<1>8. Files!NothingStuck' /\ Files!CallsFit'
  <2>1. CASE c.at = "failed"
    <3>1. x2' = x2 \ {c} /\ x1'.busy = x1.busy \ {"bulk"} /\ x1'.loading = x1.loading
      BY <2>1 DEF Files!IndInv, Files!TypeOK, Files!Bulked, Files!Settled
    <3> QED
      BY <3>1, FilesFailed DEF Files!Bulked, Files!Settled
  <2>2. CASE c.at # "failed"
    <3>1. x2' = (x2 \ {c}) \cup {Files!LoadOf(c.path, "bulk")} /\ x1'.busy = x1.busy
      BY <2>2 DEF Files!IndInv, Files!TypeOK, Files!Bulked, Files!Settled
    <3> QED
      BY <3>1, FilesDone DEF Files!Bulked, Files!Settled
  <2> QED
    BY <2>1, <2>2
<1>9. Files!OnlyNamedIsReplaced'
  BY DEF Files!IndInv, Files!TypeOK, Files!OnlyNamedIsReplaced, Files!Bulked, Files!Settled
<1>10. DOMAIN x1'.ask = DOMAIN Files!NoAsk /\ (x1'.ask.bulk = None \/ x1'.ask.bulk.mode \in {"move", "copy"})
  <2>1. CASE c.at = "failed"
    BY <2>1 DEF Files!IndInv, Files!TypeOK, Files!NoAsk, Files!Bulked, Files!Settled
  <2>2. CASE c.at # "failed"
    <3> DEFINE v == IF c.reply = {} THEN None ELSE [mode |-> c.kind, dir |-> c.args.dir, items |-> {p.from : p \in c.reply}]
    <3>1. x1' = [x1 EXCEPT !.ask.bulk = v, !.bulk = None, !.selected = {}, !.loading = TRUE]
      BY <2>2 DEF Files!Bulked, Files!Settled
    <3>2. v = None \/ v.mode \in {"move", "copy"}
      BY DEF Files!Bulked, Files!Settled
    <3> HIDE DEF v
    <3> QED
      BY <3>1, <3>2 DEF Files!IndInv, Files!TypeOK, Files!NoAsk
  <2> QED
    BY <2>1, <2>2
<1> QED
  BY <1>1, <1>2, <1>3, <1>4, <1>5, <1>6, <1>7, <1>8, <1>9, <1>10 DEF Files!IndInv, Files!TypeOK

\* A question is declined.
LEMMA FilesClose ==
    ASSUME Files!IndInv,
           Files!Close
    PROVE  Files!IndInv'
<1> USE FilesAssumption, FilesCurrent, FilesOperations
<1>1. DOMAIN x1' = {"stack", "list", "loading", "selected", "root", "bulk", "busy", "ask", "ops", "looks"}
  BY DEF Files!IndInv, Files!TypeOK, Files!Goes, Files!Close
<1>2. x1'.stack \in Seq(Files!Path) /\ x1'.stack # <<>>
  BY DEF Files!IndInv, Files!TypeOK, Files!Goes, Files!Close
<1>3. x1'.list \subseteq Files!Entry /\ x1'.selected \subseteq Files!Entry
  BY DEF Files!IndInv, Files!TypeOK, Files!Goes, Files!CallsFit, Files!LoadFits, Files!Close
<1>4. x1'.loading \in BOOLEAN /\ x1'.root \in {None, HomeDir} /\ x1'.bulk \in {"move", "copy", None}
  BY DEF Files!IndInv, Files!TypeOK, Files!Goes, Files!Close
<1>5. x1'.busy \subseteq Files!Operations
  BY DEF Files!IndInv, Files!TypeOK, Files!Goes, Files!Close
<1>6. \A e \in x2' :
        /\ DOMAIN e = {"kind", "path", "args", "overwrite", "agreed", "for", "at", "reply"}
        /\ e.path \in Files!Path /\ e.for \in Files!Operations \cup {None} /\ e.at \in {"sent", "serving", "done", "failed"}
  BY DEF Files!IndInv, Files!TypeOK, Files!Call, Files!LoadOf, Files!Goes, Files!Close
<1>7. x3' \in [Dir -> SUBSET Name]
  BY DEF Files!IndInv, Files!TypeOK, Files!Close
<1>8. Files!NothingStuck' /\ Files!CallsFit'
  BY SMTT(30) DEF Files!IndInv, Files!TypeOK, Files!NothingStuck, Files!CallsFit, Files!LoadFits, Files!Named, Files!Close
<1>9. Files!OnlyNamedIsReplaced'
  BY DEF Files!IndInv, Files!TypeOK, Files!OnlyNamedIsReplaced, Files!Close
<1>10. DOMAIN x1'.ask = DOMAIN Files!NoAsk /\ (x1'.ask.bulk = None \/ x1'.ask.bulk.mode \in {"move", "copy"})
  BY DEF Files!IndInv, Files!TypeOK, Files!Goes, Files!NoAsk, Files!Asking, Files!Close
<1> QED
  BY <1>1, <1>2, <1>3, <1>4, <1>5, <1>6, <1>7, <1>8, <1>9, <1>10 DEF Files!IndInv, Files!TypeOK

\* A rename over what was named is agreed to.
LEMMA FilesConfirmRename ==
    ASSUME Files!IndInv,
           Files!ConfirmRename
    PROVE  Files!IndInv'
<1> USE FilesAssumption, FilesCurrent, FilesOperations
<1>1. DOMAIN x1' = {"stack", "list", "loading", "selected", "root", "bulk", "busy", "ask", "ops", "looks"}
  BY DEF Files!IndInv, Files!TypeOK, Files!Goes, Files!ConfirmRename, Files!SubmitRename
<1>2. x1'.stack \in Seq(Files!Path) /\ x1'.stack # <<>>
  BY DEF Files!IndInv, Files!TypeOK, Files!Goes, Files!ConfirmRename, Files!SubmitRename
<1>3. x1'.list \subseteq Files!Entry /\ x1'.selected \subseteq Files!Entry
  BY DEF Files!IndInv, Files!TypeOK, Files!Goes, Files!CallsFit, Files!LoadFits, Files!ConfirmRename, Files!SubmitRename
<1>4. x1'.loading \in BOOLEAN /\ x1'.root \in {None, HomeDir} /\ x1'.bulk \in {"move", "copy", None}
  BY DEF Files!IndInv, Files!TypeOK, Files!Goes, Files!ConfirmRename, Files!SubmitRename
<1>5. x1'.busy \subseteq Files!Operations
  BY DEF Files!IndInv, Files!TypeOK, Files!Goes, Files!ConfirmRename, Files!SubmitRename
<1>6. \A e \in x2' :
        /\ DOMAIN e = {"kind", "path", "args", "overwrite", "agreed", "for", "at", "reply"}
        /\ e.path \in Files!Path /\ e.for \in Files!Operations \cup {None} /\ e.at \in {"sent", "serving", "done", "failed"}
  BY DEF Files!IndInv, Files!TypeOK, Files!Call, Files!LoadOf, Files!Goes, Files!ConfirmRename, Files!SubmitRename
<1>7. x3' \in [Dir -> SUBSET Name]
  BY DEF Files!IndInv, Files!TypeOK, Files!ConfirmRename, Files!SubmitRename
<1>8. Files!NothingStuck' /\ Files!CallsFit'
  <2> DEFINE a == [entry |-> x1.ask.rename.entry, name |-> x1.ask.rename.name]
             ag == {<<x1.ask.rename.entry[1], x1.ask.rename.name>>}
  <2>1. x1'.busy = x1.busy \cup {"rename"} /\ x1'.loading = x1.loading
    BY DEF Files!IndInv, Files!TypeOK, Files!ConfirmRename, Files!SubmitRename
  <2>2. x2' = x2 \cup {Files!Call("rename", a, TRUE, ag)}
    BY DEF Files!ConfirmRename, Files!SubmitRename
  <2>3. <<a.entry[1], a.name>> \in ag
    OBVIOUS
  <2> HIDE DEF a, ag
  <2> QED
    BY <2>1, <2>2, <2>3, FilesAsked
<1>9. Files!OnlyNamedIsReplaced'
  BY DEF Files!IndInv, Files!TypeOK, Files!OnlyNamedIsReplaced, Files!ConfirmRename, Files!SubmitRename
<1>10. DOMAIN x1'.ask = DOMAIN Files!NoAsk /\ (x1'.ask.bulk = None \/ x1'.ask.bulk.mode \in {"move", "copy"})
  BY DEF Files!IndInv, Files!TypeOK, Files!Goes, Files!NoAsk, Files!Asking, Files!ConfirmRename, Files!SubmitRename
<1> QED
  BY <1>1, <1>2, <1>3, <1>4, <1>5, <1>6, <1>7, <1>8, <1>9, <1>10 DEF Files!IndInv, Files!TypeOK

\* An upload over what was named is agreed to.
LEMMA FilesConfirmUpload ==
    ASSUME Files!IndInv,
           Files!ConfirmUpload
    PROVE  Files!IndInv'
<1> USE FilesAssumption, FilesCurrent, FilesOperations
<1>1. DOMAIN x1' = {"stack", "list", "loading", "selected", "root", "bulk", "busy", "ask", "ops", "looks"}
  BY DEF Files!IndInv, Files!TypeOK, Files!Goes, Files!ConfirmUpload, Files!SubmitUpload
<1>2. x1'.stack \in Seq(Files!Path) /\ x1'.stack # <<>>
  BY DEF Files!IndInv, Files!TypeOK, Files!Goes, Files!ConfirmUpload, Files!SubmitUpload
<1>3. x1'.list \subseteq Files!Entry /\ x1'.selected \subseteq Files!Entry
  BY DEF Files!IndInv, Files!TypeOK, Files!Goes, Files!CallsFit, Files!LoadFits, Files!ConfirmUpload, Files!SubmitUpload
<1>4. x1'.loading \in BOOLEAN /\ x1'.root \in {None, HomeDir} /\ x1'.bulk \in {"move", "copy", None}
  BY DEF Files!IndInv, Files!TypeOK, Files!Goes, Files!ConfirmUpload, Files!SubmitUpload
<1>5. x1'.busy \subseteq Files!Operations
  <2> DEFINE b == x1.busy \cup {"upload"}
             n == x1.ops + 1
  <2>1. x1' = [x1 EXCEPT !.ask.upload = None] \/ x1' = [x1 EXCEPT !.busy = b, !.ops = n, !.ask.upload = None]
    BY Zenon DEF Files!ConfirmUpload, Files!SubmitUpload
  <2>2. b \subseteq Files!Operations
    BY DEF Files!IndInv, Files!TypeOK
  <2> HIDE DEF b, n
  <2>3. CASE x1' = [x1 EXCEPT !.ask.upload = None]
    BY <2>3 DEF Files!IndInv, Files!TypeOK
  <2>4. CASE x1' = [x1 EXCEPT !.busy = b, !.ops = n, !.ask.upload = None]
    BY <2>2, <2>4 DEF Files!IndInv, Files!TypeOK
  <2> QED
    BY <2>1, <2>3, <2>4
<1>6. \A e \in x2' :
        /\ DOMAIN e = {"kind", "path", "args", "overwrite", "agreed", "for", "at", "reply"}
        /\ e.path \in Files!Path /\ e.for \in Files!Operations \cup {None} /\ e.at \in {"sent", "serving", "done", "failed"}
  BY DEF Files!IndInv, Files!TypeOK, Files!Call, Files!LoadOf, Files!Goes, Files!ConfirmUpload, Files!SubmitUpload
<1>7. x3' \in [Dir -> SUBSET Name]
  BY DEF Files!IndInv, Files!TypeOK, Files!ConfirmUpload, Files!SubmitUpload
<1>8. Files!NothingStuck' /\ Files!CallsFit'
  <2> DEFINE ag == {x1.ask.upload.dir} \X x1.ask.upload.files
             a == [dir |-> Files!CurrentDir, files |-> x1.ask.upload.files]
             m == x1.busy \cup {"upload"}
             n == x1.ops + 1
  <2>1. CASE x1' = [x1 EXCEPT !.ask.upload = None] /\ x2' = x2
    <3>1. x1'.busy = x1.busy /\ x1'.loading = x1.loading
      BY <2>1 DEF Files!IndInv, Files!TypeOK
    <3> QED
      BY <2>1, <3>1 DEF Files!IndInv, Files!NothingStuck, Files!CallsFit
  <2>2. CASE /\ x1' = [x1 EXCEPT !.busy = m, !.ops = n, !.ask.upload = None]
             /\ x2' = x2 \cup {Files!Call("upload", a, TRUE, ag)}
    <3>1. \A i \in a.files : \E e \in ag : e[2] = i
      <4> TAKE i \in a.files
      <4>1. <<x1.ask.upload.dir, i>> \in ag
        OBVIOUS
      <4> QED
        BY <4>1
    <3>2. m = x1.busy \cup {"upload"}
      OBVIOUS
    <3> HIDE DEF a, ag, m, n
    <3>3. x1'.busy = m /\ x1'.loading = x1.loading
      BY <2>2 DEF Files!IndInv, Files!TypeOK
    <3> QED
      BY <2>2, <3>1, <3>2, <3>3, FilesAsked
  <2> QED
    BY <2>1, <2>2, Zenon DEF Files!ConfirmUpload, Files!SubmitUpload
<1>9. Files!OnlyNamedIsReplaced'
  BY DEF Files!IndInv, Files!TypeOK, Files!OnlyNamedIsReplaced, Files!ConfirmUpload, Files!SubmitUpload
<1>10. DOMAIN x1'.ask = DOMAIN Files!NoAsk /\ (x1'.ask.bulk = None \/ x1'.ask.bulk.mode \in {"move", "copy"})
  <2> DEFINE b == x1.busy \cup {"upload"}
             n == x1.ops + 1
  <2>1. x1' = [x1 EXCEPT !.ask.upload = None] \/ x1' = [x1 EXCEPT !.busy = b, !.ops = n, !.ask.upload = None]
    BY Zenon DEF Files!ConfirmUpload, Files!SubmitUpload
  <2>2. b \subseteq Files!Operations
    BY DEF Files!IndInv, Files!TypeOK
  <2> HIDE DEF b, n
  <2>3. CASE x1' = [x1 EXCEPT !.ask.upload = None]
    BY <2>3 DEF Files!IndInv, Files!TypeOK, Files!NoAsk
  <2>4. CASE x1' = [x1 EXCEPT !.busy = b, !.ops = n, !.ask.upload = None]
    BY <2>2, <2>4 DEF Files!IndInv, Files!TypeOK, Files!NoAsk
  <2> QED
    BY <2>1, <2>3, <2>4
<1> QED
  BY <1>1, <1>2, <1>3, <1>4, <1>5, <1>6, <1>7, <1>8, <1>9, <1>10 DEF Files!IndInv, Files!TypeOK

\* Moving or copying over what was named is agreed to.
LEMMA FilesConfirmBulk ==
    ASSUME Files!IndInv,
           Files!ConfirmBulk
    PROVE  Files!IndInv'
<1> USE FilesAssumption, FilesCurrent, FilesOperations
<1>1. DOMAIN x1' = {"stack", "list", "loading", "selected", "root", "bulk", "busy", "ask", "ops", "looks"}
  BY DEF Files!IndInv, Files!TypeOK, Files!Goes, Files!ConfirmBulk, Files!SubmitBulk
<1>2. x1'.stack \in Seq(Files!Path) /\ x1'.stack # <<>>
  BY DEF Files!IndInv, Files!TypeOK, Files!Goes, Files!ConfirmBulk, Files!SubmitBulk
<1>3. x1'.list \subseteq Files!Entry /\ x1'.selected \subseteq Files!Entry
  BY DEF Files!IndInv, Files!TypeOK, Files!Goes, Files!CallsFit, Files!LoadFits, Files!ConfirmBulk, Files!SubmitBulk
<1>4. x1'.loading \in BOOLEAN /\ x1'.root \in {None, HomeDir} /\ x1'.bulk \in {"move", "copy", None}
  BY DEF Files!IndInv, Files!TypeOK, Files!Goes, Files!ConfirmBulk, Files!SubmitBulk
<1>5. x1'.busy \subseteq Files!Operations
  BY DEF Files!IndInv, Files!TypeOK, Files!Goes, Files!ConfirmBulk, Files!SubmitBulk
<1>6. \A e \in x2' :
        /\ DOMAIN e = {"kind", "path", "args", "overwrite", "agreed", "for", "at", "reply"}
        /\ e.path \in Files!Path /\ e.for \in Files!Operations \cup {None} /\ e.at \in {"sent", "serving", "done", "failed"}
  BY DEF Files!IndInv, Files!TypeOK, Files!Call, Files!LoadOf, Files!Goes, Files!ConfirmBulk, Files!SubmitBulk
<1>7. x3' \in [Dir -> SUBSET Name]
  BY DEF Files!IndInv, Files!TypeOK, Files!ConfirmBulk, Files!SubmitBulk
<1>8. Files!NothingStuck' /\ Files!CallsFit'
  <2> DEFINE b == x1.ask.bulk
             a == [dir |-> b.dir, items |-> b.items]
             ag == {<<b.dir, e[2]>> : e \in b.items}
  <2>1. x1'.busy = x1.busy \cup {"bulk"} /\ x1'.loading = x1.loading
    BY DEF Files!IndInv, Files!TypeOK, Files!ConfirmBulk, Files!SubmitBulk
  <2>2. x2' = x2 \cup {Files!Call(b.mode, a, TRUE, ag)}
    BY DEF Files!ConfirmBulk, Files!SubmitBulk
  <2>3. \A e \in a.items : <<a.dir, e[2]>> \in ag
    OBVIOUS
  <2>4. b.mode \in {"move", "copy"}
    BY DEF Files!IndInv, Files!TypeOK, Files!ConfirmBulk, Files!OnTop, Files!Asking, Files!NoAsk
  <2> HIDE DEF a, ag, b
  <2> QED
    BY <2>1, <2>2, <2>3, <2>4, FilesAsked
<1>9. Files!OnlyNamedIsReplaced'
  BY DEF Files!IndInv, Files!TypeOK, Files!OnlyNamedIsReplaced, Files!ConfirmBulk, Files!SubmitBulk
<1>10. DOMAIN x1'.ask = DOMAIN Files!NoAsk /\ (x1'.ask.bulk = None \/ x1'.ask.bulk.mode \in {"move", "copy"})
  BY DEF Files!IndInv, Files!TypeOK, Files!Goes, Files!NoAsk, Files!Asking, Files!ConfirmBulk, Files!SubmitBulk
<1> QED
  BY <1>1, <1>2, <1>3, <1>4, <1>5, <1>6, <1>7, <1>8, <1>9, <1>10 DEF Files!IndInv, Files!TypeOK

\* A deletion of what was named is agreed to.
LEMMA FilesConfirmDelete ==
    ASSUME Files!IndInv,
           Files!ConfirmDelete
    PROVE  Files!IndInv'
<1> USE FilesAssumption, FilesCurrent, FilesOperations
<1>1. DOMAIN x1' = {"stack", "list", "loading", "selected", "root", "bulk", "busy", "ask", "ops", "looks"}
  BY DEF Files!IndInv, Files!TypeOK, Files!Goes, Files!ConfirmDelete
<1>2. x1'.stack \in Seq(Files!Path) /\ x1'.stack # <<>>
  BY DEF Files!IndInv, Files!TypeOK, Files!Goes, Files!ConfirmDelete
<1>3. x1'.list \subseteq Files!Entry /\ x1'.selected \subseteq Files!Entry
  BY DEF Files!IndInv, Files!TypeOK, Files!Goes, Files!CallsFit, Files!LoadFits, Files!ConfirmDelete
<1>4. x1'.loading \in BOOLEAN /\ x1'.root \in {None, HomeDir} /\ x1'.bulk \in {"move", "copy", None}
  BY DEF Files!IndInv, Files!TypeOK, Files!Goes, Files!ConfirmDelete
<1>5. x1'.busy \subseteq Files!Operations
  BY DEF Files!IndInv, Files!TypeOK, Files!Goes, Files!ConfirmDelete
<1>6. \A e \in x2' :
        /\ DOMAIN e = {"kind", "path", "args", "overwrite", "agreed", "for", "at", "reply"}
        /\ e.path \in Files!Path /\ e.for \in Files!Operations \cup {None} /\ e.at \in {"sent", "serving", "done", "failed"}
  BY DEF Files!IndInv, Files!TypeOK, Files!Call, Files!LoadOf, Files!Goes, Files!ConfirmDelete
<1>7. x3' \in [Dir -> SUBSET Name]
  BY DEF Files!IndInv, Files!TypeOK, Files!ConfirmDelete
<1>8. Files!NothingStuck' /\ Files!CallsFit'
  <2>1. x1'.busy = x1.busy \cup {"delete"} /\ x1'.loading = x1.loading
    BY DEF Files!IndInv, Files!TypeOK, Files!ConfirmDelete
  <2>2. PICK k, a, ag : /\ x2' = x2 \cup {Files!Call(k, a, FALSE, ag)} /\ k = "delete"
    BY Zenon DEF Files!ConfirmDelete
  <2> QED
    BY <2>1, <2>2, FilesAsked
<1>9. Files!OnlyNamedIsReplaced'
  BY DEF Files!IndInv, Files!TypeOK, Files!OnlyNamedIsReplaced, Files!ConfirmDelete
<1>10. DOMAIN x1'.ask = DOMAIN Files!NoAsk /\ (x1'.ask.bulk = None \/ x1'.ask.bulk.mode \in {"move", "copy"})
  BY DEF Files!IndInv, Files!TypeOK, Files!Goes, Files!NoAsk, Files!Asking, Files!ConfirmDelete
<1> QED
  BY <1>1, <1>2, <1>3, <1>4, <1>5, <1>6, <1>7, <1>8, <1>9, <1>10 DEF Files!IndInv, Files!TypeOK

\* An answer to a request is of its kind.
LEMMA FilesAnswered ==
    ASSUME Files!IndInv, NEW c \in x2, NEW s \in {"done", "failed"}, NEW r, c.kind = "load" /\ s = "done" => r \subseteq Files!Entry,
           Files!Answer(c, s, r), x1' = x1, x3' \in [Dir -> SUBSET Name]
    PROVE  Files!TypeOK' /\ Files!NothingStuck' /\ Files!CallsFit'
<1>1. PICK d : /\ x2' = (x2 \ {c}) \cup {d} /\ d.kind = c.kind /\ d.path = c.path /\ d.args = c.args /\ d.overwrite = c.overwrite
               /\ d.agreed = c.agreed /\ d.for = c.for /\ d.at = s /\ d.reply = r /\ DOMAIN d = DOMAIN c
  <2> DEFINE d == [c EXCEPT !.at = s, !.reply = r]
  <2>1. DOMAIN c = {"kind", "path", "args", "overwrite", "agreed", "for", "at", "reply"}
    BY DEF Files!IndInv, Files!TypeOK
  <2>2. x2' = (x2 \ {c}) \cup {d}
    BY DEF Files!Answer
  <2>3. /\ d.kind = c.kind /\ d.path = c.path /\ d.args = c.args /\ d.overwrite = c.overwrite
        /\ d.agreed = c.agreed /\ d.for = c.for /\ d.at = s /\ d.reply = r /\ DOMAIN d = DOMAIN c
    BY <2>1
  <2> HIDE DEF d
  <2> QED
    BY <2>2, <2>3
<1>2. Files!TypeOK'
  BY <1>1 DEF Files!IndInv, Files!TypeOK
<1>3. Files!NothingStuck'
  BY <1>1 DEF Files!IndInv, Files!NothingStuck
<1>4. Files!CallsFit'
  BY <1>1 DEF Files!IndInv, Files!CallsFit, Files!LoadFits, Files!Named
<1> QED
  BY <1>2, <1>3, <1>4

\* A request that is being served goes on with what is left, and is of its kind.
LEMMA FilesBecomes ==
    ASSUME Files!IndInv, NEW c \in x2, NEW d, c.at \in {"sent", "serving"}, c.kind \in Files!Making,
           d.kind = c.kind, d.path = c.path, d.args = c.args, d.overwrite = c.overwrite,
           d.agreed = c.agreed, d.for = c.for, DOMAIN d = DOMAIN c, d.at \in {"serving", "done", "failed"},
           d.at = "serving" => d.reply.left \subseteq Files!Job(c).left,
           Files!Becomes(c, d), x1' = x1, x3' \in [Dir -> SUBSET Name]
    PROVE  Files!TypeOK' /\ Files!NothingStuck' /\ Files!CallsFit'
<1>1. x2' = (x2 \ {c}) \cup {d}
  BY DEF Files!Becomes
<1>2. Files!TypeOK'
  BY <1>1 DEF Files!IndInv, Files!TypeOK
<1>3. Files!NothingStuck'
  BY <1>1 DEF Files!IndInv, Files!NothingStuck
<1>4. Files!LoadFits(d) /\ Files!Named(d)
  <2>1. Files!Named(c)
    BY DEF Files!IndInv, Files!CallsFit
  <2>2. d.at = "serving" => Files!Job(d) = d.reply
    BY DEF Files!Job
  <2>3. Files!Named(d)
    BY <1>1, <2>1, <2>2 DEF Files!Named
  <2> QED
    BY <1>1, <2>3 DEF Files!IndInv, Files!CallsFit, Files!LoadFits, Files!Making
<1>5. Files!CallsFit'
  BY <1>1, <1>4 DEF Files!IndInv, Files!CallsFit
<1> QED
  BY <1>2, <1>3, <1>5

\* So it does when a file of it is made or found there.
LEMMA FilesOut ==
    ASSUME Files!IndInv, NEW c \in x2, NEW p, NEW o, c.at \in {"sent", "serving"}, c.kind \in Files!Making,
           Files!Becomes(c, Files!Out(c, p, o)), x1' = x1, x3' \in [Dir -> SUBSET Name]
    PROVE  Files!TypeOK' /\ Files!NothingStuck' /\ Files!CallsFit'
<1> DEFINE left == Files!Job(c).left \ {p}
           exist == Files!Job(c).exist \cup (IF o = "exists" THEN {p} ELSE {})
           more == [left |-> left, exist |-> exist, looked |-> None]
           end == IF o = "done" THEN "done" ELSE "failed"
           n == Files!Out(c, p, o)
<1>1. \/ n = [c EXCEPT !.at = "serving", !.reply = more]
      \/ n = [c EXCEPT !.at = end, !.reply = o]
      \/ n = [c EXCEPT !.at = "done", !.reply = exist]
  BY Zenon DEF Files!Out
<1>2. more.left \subseteq Files!Job(c).left /\ end \in {"done", "failed"}
  OBVIOUS
<1>3. Files!Becomes(c, n)
  OBVIOUS
<1>4. DOMAIN c = {"kind", "path", "args", "overwrite", "agreed", "for", "at", "reply"}
  BY DEF Files!IndInv, Files!TypeOK
<1> HIDE DEF more, end, exist, left, n
<1>5. CASE n = [c EXCEPT !.at = "serving", !.reply = more]
  <2>1. /\ n.kind = c.kind /\ n.path = c.path /\ n.args = c.args /\ n.overwrite = c.overwrite
        /\ n.agreed = c.agreed /\ n.for = c.for /\ DOMAIN n = DOMAIN c /\ n.at = "serving" /\ n.reply = more
    BY <1>4, <1>5
  <2> QED
    BY <1>2, <1>3, <2>1, FilesBecomes
<1>6. CASE n = [c EXCEPT !.at = end, !.reply = o]
  <2>1. /\ n.kind = c.kind /\ n.path = c.path /\ n.args = c.args /\ n.overwrite = c.overwrite
        /\ n.agreed = c.agreed /\ n.for = c.for /\ DOMAIN n = DOMAIN c /\ n.at = end /\ n.reply = o
    BY <1>4, <1>6
  <2> QED
    BY <1>2, <1>3, <2>1, FilesBecomes
<1>7. CASE n = [c EXCEPT !.at = "done", !.reply = exist]
  <2>1. /\ n.kind = c.kind /\ n.path = c.path /\ n.args = c.args /\ n.overwrite = c.overwrite
        /\ n.agreed = c.agreed /\ n.for = c.for /\ DOMAIN n = DOMAIN c /\ n.at = "done" /\ n.reply = exist
    BY <1>4, <1>7
  <2> QED
    BY <1>2, <1>3, <2>1, FilesBecomes
<1> QED
  BY <1>1, <1>5, <1>6, <1>7

\* What a request makes where nothing is, where it was agreed, or where it had
\* looked replaces nothing else.
LEMMA FilesWrite ==
    ASSUME Files!IndInv, NEW c \in x2, NEW p, Files!Write(c, p), c.at \in {"sent", "serving"}, c.kind \in Files!Making, x1' = x1,
           ~Files!Gone(p) => \/ Files!Job(c).looked = p
                             \/ ~Files!Has(p.to)
                             \/ c.overwrite /\ p \in Files!Job(c).left
    PROVE  Files!IndInv'
<1>1. CASE Files!Gone(p)
  <2>1. Files!Becomes(c, Files!Out(c, p, "gone")) /\ UNCHANGED <<x3, x4>>
    BY <1>1 DEF Files!Write
  <2>2. x3' \in [Dir -> SUBSET Name] /\ Files!OnlyNamedIsReplaced'
    BY <2>1 DEF Files!IndInv, Files!TypeOK, Files!OnlyNamedIsReplaced
  <2> QED
    BY <2>1, <2>2, FilesOut DEF Files!IndInv
<1>2. CASE ~Files!Gone(p)
  <2>1. Files!Becomes(c, Files!Out(c, p, "done")) /\ x4' = x4 \cup Files!How(c, p)
    BY <1>2 DEF Files!Write
  <2>2. x3' \in [Dir -> SUBSET Name]
    BY <1>2 DEF Files!Write
  <2>3. Files!How(c, p) \subseteq {"raced", "elsewhere"}
    <3>1. c.overwrite /\ p \in Files!Job(c).left => p.to \in c.agreed \/ (c.kind = "upload" /\ \E e \in c.agreed : e[2] = p.to[2])
      BY DEF Files!IndInv, Files!CallsFit, Files!Named
    <3> QED
      BY <1>2, <3>1, Zenon DEF Files!How
  <2>4. Files!OnlyNamedIsReplaced'
    BY <2>1, <2>3 DEF Files!IndInv, Files!OnlyNamedIsReplaced
  <2> QED
    BY <2>1, <2>2, <2>4, FilesOut DEF Files!IndInv
<1> QED
  BY <1>1, <1>2

\* It makes a file, looks for its place, or finds it taken.
LEMMA FilesMake == ASSUME Files!IndInv, NEW c \in x2, Files!Make(c), x1' = x1 PROVE Files!IndInv'
<1>1. PICK p \in Files!Job(c).left :
          \/ Files!Becomes(c, Files!Out(c, p, "exists")) /\ UNCHANGED <<x3, x4>>
          \/ /\ Files!Becomes(c, [c EXCEPT !.at = "serving", !.reply = [left |-> Files!Job(c).left, exist |-> Files!Job(c).exist, looked |-> p]])
             /\ UNCHANGED <<x3, x4>>
          \/ (Files!Gone(p) \/ c.overwrite \/ ~Files!Has(p.to)) /\ Files!Write(c, p)
  BY Zenon DEF Files!Make
<1>2. c.at \in {"sent", "serving"} /\ c.kind \in Files!Making
  BY DEF Files!Make
<1>3. ASSUME UNCHANGED <<x3, x4>> PROVE x3' \in [Dir -> SUBSET Name] /\ Files!OnlyNamedIsReplaced'
  BY <1>3 DEF Files!IndInv, Files!TypeOK, Files!OnlyNamedIsReplaced
<1>4. CASE Files!Becomes(c, Files!Out(c, p, "exists")) /\ UNCHANGED <<x3, x4>>
  BY <1>2, <1>3, <1>4, FilesOut DEF Files!IndInv
<1>5. CASE /\ Files!Becomes(c, [c EXCEPT !.at = "serving", !.reply = [left |-> Files!Job(c).left, exist |-> Files!Job(c).exist, looked |-> p]])
           /\ UNCHANGED <<x3, x4>>
  <2> DEFINE r == [left |-> Files!Job(c).left, exist |-> Files!Job(c).exist, looked |-> p]
             n == [c EXCEPT !.at = "serving", !.reply = r]
  <2>1. r.left = Files!Job(c).left
    OBVIOUS
  <2>2. n = [c EXCEPT !.at = "serving", !.reply = r] /\ Files!Becomes(c, n)
    BY <1>5
  <2>3. DOMAIN c = {"kind", "path", "args", "overwrite", "agreed", "for", "at", "reply"}
    BY DEF Files!IndInv, Files!TypeOK
  <2> HIDE DEF r, n
  <2>4. /\ n.kind = c.kind /\ n.path = c.path /\ n.args = c.args /\ n.overwrite = c.overwrite
        /\ n.agreed = c.agreed /\ n.for = c.for /\ DOMAIN n = DOMAIN c /\ n.at = "serving" /\ n.reply = r
    BY <2>2, <2>3
  <2>5. x3' \in [Dir -> SUBSET Name] /\ Files!OnlyNamedIsReplaced'
    BY <1>3, <1>5
  <2>6. n.reply.left \subseteq Files!Job(c).left /\ n.at \in {"serving", "done", "failed"}
    BY <2>1, <2>4
  <2>7. Files!Becomes(c, n)
    BY <2>2
  <2>8. Files!TypeOK' /\ Files!NothingStuck' /\ Files!CallsFit'
    BY <1>2, <2>4, <2>5, <2>6, <2>7, FilesBecomes
  <2> QED
    BY <2>5, <2>8 DEF Files!IndInv
<1>6. CASE (Files!Gone(p) \/ c.overwrite \/ ~Files!Has(p.to)) /\ Files!Write(c, p)
  BY <1>2, <1>6, FilesWrite
<1> QED
  BY <1>1, <1>4, <1>5, <1>6

\* It makes the file whose place it had found free.
LEMMA FilesMakeLooked == ASSUME Files!IndInv, NEW c \in x2, Files!MakeLooked(c), c.kind \in Files!Making, x1' = x1 PROVE Files!IndInv'
BY FilesWrite DEF Files!MakeLooked

\* The server answers a request.
LEMMA FilesServe == ASSUME Files!IndInv, NEW c \in x2, Files!Serve(c) PROVE Files!IndInv'
<1>1. x1' = x1
  BY DEF Files!Serve
<1>2. ASSUME NEW s \in {"done", "failed"}, NEW r, Files!Answer(c, s, r), c.kind = "load" /\ s = "done" => r \subseteq Files!Entry, UNCHANGED <<x3, x4>> PROVE Files!IndInv'
  <2>1. x3' \in [Dir -> SUBSET Name] /\ Files!OnlyNamedIsReplaced'
    BY <1>2 DEF Files!IndInv, Files!TypeOK, Files!OnlyNamedIsReplaced
  <2> QED
    BY <1>1, <1>2, <2>1, FilesAnswered DEF Files!IndInv
<1>3. ASSUME c.kind \in {"delete", "mkdir"}, Files!Answer(c, "done", None), x4' = x4, x3' \in [Dir -> SUBSET Name] PROVE Files!IndInv'
  <2>1. Files!OnlyNamedIsReplaced'
    BY <1>3 DEF Files!IndInv, Files!OnlyNamedIsReplaced
  <2> QED
    BY <1>1, <1>3, <2>1, FilesAnswered DEF Files!IndInv
<1>4. CASE Files!Answer(c, "failed", "error") /\ UNCHANGED <<x3, x4>>
  BY <1>2, <1>4
<1>5. CASE c.kind = "load" /\ Files!Answer(c, "done", Files!Listing(Files!Opens(c.path))) /\ UNCHANGED <<x3, x4>>
  <2>1. Files!Listing(Files!Opens(c.path)) \subseteq Files!Entry
    BY FilesAssumption DEF Files!IndInv, Files!TypeOK, Files!Listing, Files!Opens, Files!Path, Files!Entry
  <2> QED
    BY <1>2, <1>5, <2>1
<1>6. CASE c.kind = "home" /\ Files!Answer(c, "done", None) /\ UNCHANGED <<x3, x4>>
  BY <1>2, <1>6
<1>7. CASE c.kind \in {"move", "copy"} /\ Files!Answer(c, "done", {}) /\ UNCHANGED <<x3, x4>>
  BY <1>2, <1>7
<1>8. CASE /\ c.kind = "delete" /\ Files!Answer(c, "done", None) /\ x4' = x4
           /\ x3' = [d \in Dir |-> {n \in x3[d] : <<d, n>> \notin c.args}]
  <2>1. x3' \in [Dir -> SUBSET Name]
    BY <1>8 DEF Files!IndInv, Files!TypeOK
  <2> QED
    BY <1>3, <1>8, <2>1
<1>9. CASE /\ c.kind = "mkdir" /\ Files!Answer(c, "done", None) /\ x4' = x4
           /\ x3' = [d \in Dir |-> {n \in Name : n \in x3[d] \/ <<d, n>> = c.args}]
  <2>1. x3' \in [Dir -> SUBSET Name]
    BY <1>9
  <2> QED
    BY <1>3, <1>9, <2>1
<1>10. CASE Files!Make(c)
  BY <1>1, <1>10, FilesMake
<1>11. CASE Files!MakeLooked(c)
  <2>1. c.kind \in Files!Making
    BY <1>11 DEF Files!MakeLooked, Files!IndInv, Files!CallsFit, Files!LoadFits
  <2> QED
    BY <1>1, <1>11, <2>1, FilesMakeLooked
<1> QED
  BY <1>1, <1>4, <1>5, <1>6, <1>7, <1>8, <1>9, <1>10, <1>11, Zenon DEF Files!Serve

\* Every step keeps the invariant.
LEMMA FilesStep == ASSUME Files!IndInv, Files!Next PROVE Files!IndInv'
<1>1. ASSUME NEW c \in x2, Files!Loaded(c) \/ Files!HomeRead(c) \/ Files!Renamed(c) \/ Files!MkdirDone(c) \/ Files!Deleted(c) \/ Files!Uploaded(c)
              \/ Files!Bulked(c) \/ Files!Serve(c)
      PROVE  Files!IndInv'
  BY <1>1, FilesLoaded, FilesHomeRead, FilesRenamed, FilesMkdirDone, FilesDeleted, FilesUploaded, FilesBulked, FilesServe
<1>2. ASSUME NEW d \in Dir, Files!OpenDir(d) PROVE Files!IndInv'
  BY <1>2, FilesOpenDir
<1> QED
  BY <1>1, <1>2, FilesRefresh, FilesNavigateToCrumb, FilesSelect, FilesRename, FilesMkdir, FilesAskDelete, FilesUpload, FilesAskBulk, FilesBulk,
     FilesClose, FilesConfirmRename, FilesConfirmUpload, FilesConfirmBulk, FilesConfirmDelete, Zenon DEF Files!Next

\* So does a step that leaves the variables of the part alone.
LEMMA FilesStill == ASSUME Files!IndInv, UNCHANGED <<x1, x2, x3, x4>> PROVE Files!IndInv'
BY DEF Files!IndInv, Files!TypeOK, Files!NothingStuck, Files!OnlyNamedIsReplaced, Files!CallsFit, Files!LoadFits, Files!Named

-----------------------------------------------------------------------------
(* Lists: ResourceLists.                                                   *)

\* What the panels have in common.
LEMMA ListsKinds ==
    \A p \in Lists!Panels : p.by \in {"id", "index"}
BY DEF Lists!Panels, Lists!Panel, Lists!SshKeys, Lists!SshHosts, Lists!GpgKeys, Lists!HttpsCredentials, Lists!KnownHosts, Lists!Fonts,
       Lists!FontInstalls, Lists!Extensions, Lists!Dind, Lists!Supervisor, Lists!PortTable, Lists!Sessions, Lists!WorktreesPanel

\* The initial states satisfy the invariant.
LEMMA ListsInit == ASSUME Lists!Init PROVE Lists!IndInv
<1>1. PICK p \in Lists!Panels : x1 = [is |-> p, list |-> <<>>, lock |-> p.single, busy |-> {}, adding |-> None, target |-> None]
  BY DEF Lists!Init
<1> DEFINE c == Lists!LoadFor("show", None)
<1>2. x2 = {c} /\ x4 = {}
  BY DEF Lists!Init
<1>3. c.kind = "load" /\ c.why = "show"
  BY DEF Lists!LoadFor, Lists!Call
<1> HIDE DEF c
<1>4. Lists!ViewIsSound
  BY <1>1, ListsKinds DEF Lists!ViewIsSound
<1>5. Lists!CallsFit /\ Lists!HeldOnce /\ Lists!HeldIsBusy /\ Lists!OnceAtATime
  BY <1>2, <1>3 DEF Lists!CallsFit, Lists!HeldOnce, Lists!HeldIsBusy, Lists!OnceAtATime, Lists!Holds
<1>6. Lists!NothingStuck /\ Lists!ActedIsConfirmed
  BY <1>1, <1>2, <1>3 DEF Lists!NothingStuck, Lists!ActedIsConfirmed
<1> QED
  BY <1>4, <1>5, <1>6 DEF Lists!IndInv

\* A request is over, and with it what was off for it; the list may be read again.
LEMMA ListsOver ==
    ASSUME Lists!IndInv, Lists!ViewIsSound', x4' = x4, NEW c \in x2, NEW N, \A l \in N : l.kind = "load" /\ l.why = "show",
           x2' = (x2 \ {c}) \cup N,
           x1'.busy = IF Lists!Holds(c) THEN x1.busy \ {c.item} ELSE x1.busy,
           x1'.adding = IF c.kind = "add" \/ c.why = "add" THEN None ELSE x1.adding,
           x1'.lock => (x1.lock /\ c.kind # "load") \/ N # {}
    PROVE  Lists!IndInv'
<1>1. Lists!CallsFit' /\ Lists!HeldOnce'
  BY DEF Lists!IndInv, Lists!CallsFit, Lists!HeldOnce, Lists!Holds
<1>2. Lists!HeldIsBusy'
  BY DEF Lists!IndInv, Lists!CallsFit, Lists!HeldOnce, Lists!HeldIsBusy, Lists!Holds
<1>3. Lists!NothingStuck'
  <2>1. x1'.lock => \E d \in x2' : d.kind = "load"
    BY DEF Lists!IndInv, Lists!NothingStuck
  <2>2. ASSUME NEW x \in x1'.busy PROVE \E d \in x2' : d.item = x /\ (d.kind = "act" \/ d.why = "act")
    <3>1. x \in x1.busy /\ (Lists!Holds(c) => x # c.item)
      OBVIOUS
    <3>2. PICK d \in x2 : d.item = x /\ (d.kind = "act" \/ d.why = "act")
      BY <3>1 DEF Lists!IndInv, Lists!NothingStuck
    <3> QED
      BY <3>1, <3>2 DEF Lists!Holds
  <2>3. ASSUME x1'.adding # None PROVE \E d \in x2' : d.kind = "add" \/ d.why = "add"
    <3>1. x1.adding # None /\ c.kind # "add" /\ c.why # "add"
      BY <2>3
    <3>2. PICK d \in x2 : d.kind = "add" \/ d.why = "add"
      BY <3>1 DEF Lists!IndInv, Lists!NothingStuck
    <3> QED
      BY <3>1, <3>2
  <2> QED
    BY <2>1, <2>2, <2>3 DEF Lists!NothingStuck
<1>4. Lists!OnceAtATime' /\ Lists!ActedIsConfirmed'
  BY <1>1 DEF Lists!IndInv, Lists!OnceAtATime, Lists!HeldOnce, Lists!Holds, Lists!ActedIsConfirmed
<1> QED
  BY <1>1, <1>2, <1>3, <1>4 DEF Lists!IndInv

\* A request is over, and the list is read for it.
LEMMA ListsGoesOn ==
    ASSUME Lists!IndInv, Lists!ViewIsSound', x4' = x4, NEW c \in x2, NEW l, c.kind \in {"act", "add"},
           l.kind = "load", l.why = c.kind, l.item = c.item,
           x2' = (x2 \ {c}) \cup {l}, x1'.busy = x1.busy, x1'.adding = x1.adding
    PROVE  Lists!IndInv'
<1>1. c.why = "show"
  BY DEF Lists!IndInv, Lists!CallsFit
<1>2. Lists!CallsFit' /\ Lists!HeldOnce'
  BY <1>1 DEF Lists!IndInv, Lists!CallsFit, Lists!HeldOnce, Lists!Holds
<1>3. Lists!HeldIsBusy'
  BY <1>1 DEF Lists!IndInv, Lists!HeldIsBusy, Lists!Holds
<1>4. Lists!NothingStuck'
  <2>1. x1'.lock => \E d \in x2' : d.kind = "load"
    OBVIOUS
  <2>2. ASSUME NEW x \in x1'.busy PROVE \E d \in x2' : d.item = x /\ (d.kind = "act" \/ d.why = "act")
    <3>1. PICK d \in x2 : d.item = x /\ (d.kind = "act" \/ d.why = "act")
      BY <2>2 DEF Lists!IndInv, Lists!NothingStuck
    <3> QED
      BY <1>1, <3>1
  <2>3. ASSUME x1'.adding # None PROVE \E d \in x2' : d.kind = "add" \/ d.why = "add"
    <3>1. PICK d \in x2 : d.kind = "add" \/ d.why = "add"
      BY <2>3 DEF Lists!IndInv, Lists!NothingStuck
    <3> QED
      BY <1>1, <3>1
  <2> QED
    BY <2>1, <2>2, <2>3 DEF Lists!NothingStuck
<1>5. Lists!OnceAtATime' /\ Lists!ActedIsConfirmed'
  BY <1>2 DEF Lists!IndInv, Lists!OnceAtATime, Lists!HeldOnce, Lists!Holds, Lists!ActedIsConfirmed
<1> QED
  BY <1>2, <1>3, <1>4, <1>5 DEF Lists!IndInv

\* A request is sent, if any; one for an item when none is under way.
LEMMA ListsStarts ==
    ASSUME Lists!IndInv, Lists!ViewIsSound', x4' = x4, NEW N, \A l, m \in N : l = m,
           \A l \in N : l.why = "show" /\ (l.kind = "act" => l.item \notin x1.busy),
           x2' = x2 \cup N,
           x1'.busy = x1.busy \cup {l.item : l \in {m \in N : m.kind = "act"}},
           x1'.adding = x1.adding \/ \E l \in N : l.kind = "add",
           x1'.lock => x1.lock \/ \E l \in N : l.kind = "load"
    PROVE  Lists!IndInv'
<1>1. Lists!CallsFit'
  BY DEF Lists!IndInv, Lists!CallsFit
<1>2. Lists!HeldOnce'
  BY DEF Lists!IndInv, Lists!HeldOnce, Lists!HeldIsBusy, Lists!Holds
<1>3. Lists!HeldIsBusy'
  BY DEF Lists!IndInv, Lists!HeldIsBusy, Lists!Holds
<1>4. Lists!NothingStuck'
  BY DEF Lists!IndInv, Lists!NothingStuck
<1>5. Lists!OnceAtATime' /\ Lists!ActedIsConfirmed'
  BY <1>2 DEF Lists!IndInv, Lists!OnceAtATime, Lists!HeldOnce, Lists!Holds, Lists!ActedIsConfirmed
<1> QED
  BY <1>1, <1>2, <1>3, <1>4, <1>5 DEF Lists!IndInv

\* The view after a load was asked for: it is over at once, or on its way.
LEMMA ListsLoadsShow ==
    ASSUME NEW v, DOMAIN v = {"is", "list", "lock", "busy", "adding", "target"}, NEW cs, Lists!Loads(v, cs, "show", None)
    PROVE  /\ DOMAIN x1' = DOMAIN v /\ x1'.is = v.is /\ x1'.busy = v.busy /\ x1'.adding = v.adding
           /\ \/ x2' = cs /\ x1'.lock = v.lock
              \/ x2' = cs \cup {Lists!LoadFor("show", None)}
<1>1. CASE v.is.single /\ v.lock
  BY <1>1 DEF Lists!Loads, Lists!Released
<1>2. CASE ~ (v.is.single /\ v.lock)
  BY <1>2 DEF Lists!Loads
<1> QED
  BY <1>1, <1>2

\* After an action the list is not read and its item is let go of, or the read
\* holds the item.
LEMMA ListsLoadsAct ==
    ASSUME NEW v, DOMAIN v = {"is", "list", "lock", "busy", "adding", "target"}, NEW cs, NEW item, Lists!Loads(v, cs, "act", item)
    PROVE  /\ DOMAIN x1' = DOMAIN v /\ x1'.is = v.is /\ x1'.adding = v.adding
           /\ \/ x2' = cs /\ x1'.lock = v.lock /\ x1'.busy = v.busy \ {item}
              \/ x2' = cs \cup {Lists!LoadFor("act", item)} /\ x1'.busy = v.busy
<1>1. CASE v.is.single /\ v.lock
  BY <1>1 DEF Lists!Loads, Lists!Released
<1>2. CASE ~ (v.is.single /\ v.lock)
  BY <1>2 DEF Lists!Loads
<1> QED
  BY <1>1, <1>2

\* After an addition the list is not read and its lock is let go of, or the
\* read holds the lock.
LEMMA ListsLoadsAdd ==
    ASSUME NEW v, DOMAIN v = {"is", "list", "lock", "busy", "adding", "target"}, NEW cs, NEW item, Lists!Loads(v, cs, "add", item)
    PROVE  /\ DOMAIN x1' = DOMAIN v /\ x1'.is = v.is /\ x1'.busy = v.busy
           /\ \/ x2' = cs /\ x1'.lock = v.lock /\ x1'.adding = None
              \/ x2' = cs \cup {Lists!LoadFor("add", item)} /\ x1'.adding = v.adding
<1>1. CASE v.is.single /\ v.lock
  BY <1>1 DEF Lists!Loads, Lists!Released
<1>2. CASE ~ (v.is.single /\ v.lock)
  BY <1>2 DEF Lists!Loads
<1> QED
  BY <1>1, <1>2

\* A list is read again.
LEMMA ListsReload == ASSUME Lists!IndInv, Lists!Reload PROVE Lists!IndInv'
<1>1. Lists!Loads(x1, x2, "show", None) /\ x4' = x4 /\ DOMAIN x1 = {"is", "list", "lock", "busy", "adding", "target"}
  BY DEF Lists!Reload, Lists!IndInv, Lists!ViewIsSound
<1> DEFINE l == Lists!LoadFor("show", None)
<1>2. l.kind = "load" /\ l.why = "show"
  BY DEF Lists!LoadFor, Lists!Call
<1>3. /\ DOMAIN x1' = DOMAIN x1 /\ x1'.is = x1.is /\ x1'.busy = x1.busy /\ x1'.adding = x1.adding
      /\ (x2' = x2 /\ x1'.lock = x1.lock) \/ x2' = x2 \cup {l}
  BY <1>1, ListsLoadsShow
<1> HIDE DEF l
<1>4. Lists!ViewIsSound'
  BY <1>3 DEF Lists!IndInv, Lists!ViewIsSound
<1>5. CASE x2' = x2 /\ x1'.lock = x1.lock
  <2> DEFINE N == {}
  <2>1. /\ \A k, m \in N : k = m
        /\ \A k \in N : k.why = "show" /\ (k.kind = "act" => k.item \notin x1.busy)
        /\ x2' = x2 \cup N /\ x1'.busy = x1.busy \cup {k.item : k \in {m \in N : m.kind = "act"}}
    BY <1>3, <1>5
  <2> HIDE DEF N
  <2> QED
    BY <1>1, <1>3, <1>4, <1>5, <2>1, ListsStarts
<1>6. CASE x2' = x2 \cup {l}
  <2> DEFINE N == {l}
  <2>1. /\ \A k, m \in N : k = m
        /\ \A k \in N : k.why = "show" /\ (k.kind = "act" => k.item \notin x1.busy)
        /\ x2' = x2 \cup N /\ x1'.busy = x1.busy \cup {k.item : k \in {m \in N : m.kind = "act"}}
        /\ \E k \in N : k.kind = "load"
    BY <1>2, <1>3, <1>6
  <2> HIDE DEF N
  <2> QED
    BY <1>1, <1>3, <1>4, <1>6, <2>1, ListsStarts
<1> QED
  BY <1>3, <1>5, <1>6

\* What the dialog and the order that is shown are changes none of it.
LEMMA ListsLooks ==
    ASSUME Lists!IndInv, x4' = x4, x2' = x2, NEW f \in {"target", "list"}, NEW v, x1' = [x1 EXCEPT ![f] = v]
    PROVE  Lists!IndInv'
<1>1. DOMAIN x1' = DOMAIN x1 /\ x1'.is = x1.is /\ x1'.lock = x1.lock /\ x1'.busy = x1.busy /\ x1'.adding = x1.adding
  BY DEF Lists!IndInv, Lists!ViewIsSound
<1>2. Lists!ViewIsSound' /\ Lists!CallsFit' /\ Lists!HeldOnce' /\ Lists!HeldIsBusy'
  BY <1>1 DEF Lists!IndInv, Lists!ViewIsSound, Lists!CallsFit, Lists!HeldOnce, Lists!HeldIsBusy, Lists!Holds
<1>3. Lists!NothingStuck' /\ Lists!ActedIsConfirmed' /\ Lists!OnceAtATime'
  BY <1>1 DEF Lists!IndInv, Lists!NothingStuck, Lists!ActedIsConfirmed, Lists!OnceAtATime
<1> QED
  BY <1>2, <1>3 DEF Lists!IndInv

\* A request for an item that is not busy.
LEMMA ListsSends ==
    ASSUME Lists!IndInv, NEW item, NEW at, NEW closed, item \notin x1.busy, Lists!Sends(item, at, closed)
    PROVE  Lists!IndInv'
<1> DEFINE l == Lists!Call("act", "show", item, at, <<>>)
           t == IF closed THEN None ELSE x1.target
           b == x1.busy \cup {item}
<1>1. l.kind = "act" /\ l.why = "show" /\ l.item = item
  BY DEF Lists!Call
<1>2. x2' = x2 \cup {l} /\ x4' = x4
  BY DEF Lists!Sends
<1>3. x1' = [x1 EXCEPT !.busy = b, !.target = t]
  BY DEF Lists!Sends
<1> HIDE DEF l, t
<1>4. DOMAIN x1' = DOMAIN x1 /\ x1'.is = x1.is /\ x1'.lock = x1.lock /\ x1'.busy = x1.busy \cup {item} /\ x1'.adding = x1.adding
  BY <1>3 DEF Lists!IndInv, Lists!ViewIsSound
<1>5. Lists!ViewIsSound'
  BY <1>4 DEF Lists!IndInv, Lists!ViewIsSound
<1> DEFINE N == {l}
<1>6. /\ \A k, m \in N : k = m
      /\ \A k \in N : k.why = "show" /\ (k.kind = "act" => k.item \notin x1.busy)
      /\ x2' = x2 \cup N /\ x1'.busy = x1.busy \cup {k.item : k \in {m \in N : m.kind = "act"}}
  BY <1>1, <1>2, <1>4
<1> HIDE DEF N
<1> QED
  BY <1>2, <1>4, <1>5, <1>6, ListsStarts

\* An action is agreed to.
LEMMA ListsConfirm == ASSUME Lists!IndInv, Lists!Confirm PROVE Lists!IndInv'
<1>1. x1.target.item \notin x1.busy
  BY DEF Lists!Confirm
<1> QED
  BY <1>1, ListsSends DEF Lists!Confirm

\* A question is declined.
LEMMA ListsClose == ASSUME Lists!IndInv, NEW i, Lists!Close(i) PROVE Lists!IndInv'
BY ListsSends DEF Lists!Close

\* An addition is sent.
LEMMA ListsAdd == ASSUME Lists!IndInv, NEW x, Lists!Add(x) PROVE Lists!IndInv'
<1> DEFINE l == Lists!Call("add", "show", x, 0, <<>>)
<1>1. l.kind = "add" /\ l.why = "show"
  BY DEF Lists!Call
<1>2. x2' = x2 \cup {l} /\ x4' = x4
  BY DEF Lists!Add
<1> HIDE DEF l
<1>3. DOMAIN x1' = DOMAIN x1 /\ x1'.is = x1.is /\ x1'.lock = x1.lock /\ x1'.busy = x1.busy
  BY DEF Lists!Add, Lists!IndInv, Lists!ViewIsSound
<1>4. Lists!ViewIsSound'
  BY <1>3 DEF Lists!IndInv, Lists!ViewIsSound
<1> DEFINE N == {l}
<1>5. /\ \A k, m \in N : k = m
      /\ \A k \in N : k.why = "show" /\ (k.kind = "act" => k.item \notin x1.busy)
      /\ x2' = x2 \cup N /\ x1'.busy = x1.busy \cup {k.item : k \in {m \in N : m.kind = "act"}}
      /\ \E k \in N : k.kind = "add"
  BY <1>1, <1>2, <1>3
<1> HIDE DEF N
<1> QED
  BY <1>2, <1>3, <1>4, <1>5, ListsStarts

\* An item is dropped on another.
LEMMA ListsDrop == ASSUME Lists!IndInv, NEW i, NEW j, Lists!Drop(i, j) PROVE Lists!IndInv'
<1> DEFINE rest == Lists!Cut(x1.list, i)
           next == SubSeq(rest, 1, j - 1) \o <<x1.list[i]>> \o SubSeq(rest, j, Len(rest))
           l == Lists!Call("reorder", "show", None, 0, next)
<1>1. l.kind = "reorder" /\ l.why = "show"
  BY DEF Lists!Call
<1>2. x2' = x2 \cup {l} /\ x4' = x4 /\ x1' = [x1 EXCEPT !.list = next]
  BY DEF Lists!Drop
<1> HIDE DEF l, next
<1>3. DOMAIN x1' = DOMAIN x1 /\ x1'.is = x1.is /\ x1'.lock = x1.lock /\ x1'.busy = x1.busy /\ x1'.adding = x1.adding
  BY <1>2 DEF Lists!IndInv, Lists!ViewIsSound
<1>4. Lists!ViewIsSound'
  BY <1>3 DEF Lists!IndInv, Lists!ViewIsSound
<1> DEFINE N == {l}
<1>5. /\ \A k, m \in N : k = m
      /\ \A k \in N : k.why = "show" /\ (k.kind = "act" => k.item \notin x1.busy)
      /\ x2' = x2 \cup N /\ x1'.busy = x1.busy \cup {k.item : k \in {m \in N : m.kind = "act"}}
  BY <1>1, <1>2, <1>3
<1> HIDE DEF N
<1> QED
  BY <1>2, <1>3, <1>4, <1>5, ListsStarts

\* A list is shown.
LEMMA ListsLoaded == ASSUME Lists!IndInv, NEW c \in x2, Lists!Loaded(c) PROVE Lists!IndInv'
<1> DEFINE n == IF c.is = "failed" THEN x1.list ELSE c.list
           v == [x1 EXCEPT !.lock = FALSE, !.list = n]
<1>1. x2' = x2 \ {c} /\ x4' = x4 /\ c.kind = "load"
  BY DEF Lists!Loaded
<1>2. x1' = Lists!Released(v, c.why, c.item)
  BY DEF Lists!Loaded
<1>3. DOMAIN v = DOMAIN x1 /\ v.is = x1.is /\ v.lock = FALSE /\ v.busy = x1.busy /\ v.adding = x1.adding
  BY DEF Lists!IndInv, Lists!ViewIsSound
<1> HIDE DEF v
<1>4. /\ DOMAIN x1' = DOMAIN x1 /\ x1'.is = x1.is /\ ~ x1'.lock
      /\ x1'.busy = IF c.why = "act" THEN x1.busy \ {c.item} ELSE x1.busy
      /\ x1'.adding = IF c.why = "add" THEN None ELSE x1.adding
  BY <1>2, <1>3 DEF Lists!IndInv, Lists!ViewIsSound, Lists!Released
<1>5. Lists!ViewIsSound'
  BY <1>4 DEF Lists!IndInv, Lists!ViewIsSound
<1> DEFINE N == {}
<1>6. x2' = (x2 \ {c}) \cup N /\ \A l \in N : l.kind = "load" /\ l.why = "show"
  BY <1>1
<1> HIDE DEF N
<1> QED
  BY <1>1, <1>4, <1>5, <1>6, ListsOver DEF Lists!Holds

\* An action or an addition is over without a load.
LEMMA ListsEnds ==
    ASSUME Lists!IndInv, NEW c \in x2, x4' = x4, x2' = x2 \ {c}, c.kind # "load",
           DOMAIN x1' = DOMAIN x1, x1'.is = x1.is, x1'.lock = x1.lock,
           x1'.busy = IF c.kind = "act" THEN x1.busy \ {c.item} ELSE x1.busy,
           x1'.adding = IF c.kind = "add" THEN None ELSE x1.adding
    PROVE  Lists!IndInv'
<1>1. c.why = "show"
  BY DEF Lists!IndInv, Lists!CallsFit
<1>2. Lists!ViewIsSound'
  BY DEF Lists!IndInv, Lists!ViewIsSound
<1> DEFINE N == {}
<1>3. x2' = (x2 \ {c}) \cup N /\ \A l \in N : l.kind = "load" /\ l.why = "show"
  OBVIOUS
<1> HIDE DEF N
<1> QED
  BY <1>1, <1>2, <1>3, ListsOver DEF Lists!Holds

\* One is over with a load that nothing waits for.
LEMMA ListsKicks ==
    ASSUME Lists!IndInv, NEW c \in x2, x4' = x4, x2' = (x2 \ {c}) \cup {Lists!LoadFor("show", None)}, c.kind # "load",
           DOMAIN x1' = DOMAIN x1, x1'.is = x1.is,
           x1'.busy = IF c.kind = "act" THEN x1.busy \ {c.item} ELSE x1.busy,
           x1'.adding = IF c.kind = "add" THEN None ELSE x1.adding
    PROVE  Lists!IndInv'
<1>1. c.why = "show"
  BY DEF Lists!IndInv, Lists!CallsFit
<1>2. Lists!ViewIsSound'
  BY DEF Lists!IndInv, Lists!ViewIsSound
<1> DEFINE l == Lists!LoadFor("show", None)
           N == {l}
<1>3. l.kind = "load" /\ l.why = "show"
  BY DEF Lists!LoadFor, Lists!Call
<1>4. x2' = (x2 \ {c}) \cup N
  OBVIOUS
<1> HIDE DEF l
<1>5. N # {} /\ \A k \in N : k.kind = "load" /\ k.why = "show"
  BY <1>3
<1> HIDE DEF N
<1> QED
  BY <1>1, <1>2, <1>4, <1>5, ListsOver DEF Lists!Holds

\* One is over with a load it waits for.
LEMMA ListsWaits ==
    ASSUME Lists!IndInv, NEW c \in x2, x4' = x4, x2' = (x2 \ {c}) \cup {Lists!LoadFor(c.kind, c.item)}, c.kind \in {"act", "add"},
           DOMAIN x1' = DOMAIN x1, x1'.is = x1.is, x1'.busy = x1.busy, x1'.adding = x1.adding
    PROVE  Lists!IndInv'
<1> DEFINE l == Lists!LoadFor(c.kind, c.item)
<1>1. l.kind = "load" /\ l.why = c.kind /\ l.item = c.item
  BY DEF Lists!LoadFor, Lists!Call
<1>2. Lists!ViewIsSound'
  BY DEF Lists!IndInv, Lists!ViewIsSound
<1>3. x2' = (x2 \ {c}) \cup {l}
  OBVIOUS
<1> HIDE DEF l
<1> QED
  BY <1>1, <1>2, <1>3, ListsGoesOn

\* An action is answered.
LEMMA ListsActed == ASSUME Lists!IndInv, NEW c \in x2, Lists!Acted(c) PROVE Lists!IndInv'
<1>1. c.kind = "act" /\ x4' = x4 /\ DOMAIN x1 = {"is", "list", "lock", "busy", "adding", "target"}
  BY DEF Lists!Acted, Lists!IndInv, Lists!ViewIsSound
<1> DEFINE over == Lists!Released(x1, "act", c.item)
           shut == IF x1.is.closes = "succeeded" THEN [x1 EXCEPT !.target = None] ELSE x1
           last == Lists!Released(shut, "act", c.item)
<1>2. DOMAIN over = DOMAIN x1 /\ over.is = x1.is /\ over.lock = x1.lock /\ over.busy = x1.busy \ {c.item} /\ over.adding = x1.adding
  BY <1>1 DEF Lists!Released
<1>3. DOMAIN shut = DOMAIN x1 /\ shut.is = x1.is /\ shut.lock = x1.lock /\ shut.busy = x1.busy /\ shut.adding = x1.adding
  BY <1>1
<1>4. CASE c.is = "failed"
  <2>1. x1' = over /\ x2' = x2 \ {c}
    BY <1>4 DEF Lists!Acted
  <2> QED
    BY <1>1, <1>2, <2>1, ListsEnds
<1>5. CASE c.is # "failed" /\ x1.is.after = "reload"
  <2>1. Lists!Loads(shut, x2 \ {c}, "act", c.item)
    BY <1>5 DEF Lists!Acted
  <2> HIDE DEF shut
  <2>2. /\ DOMAIN x1' = DOMAIN x1 /\ x1'.is = x1.is /\ x1'.adding = x1.adding
        /\ \/ x2' = x2 \ {c} /\ x1'.lock = x1.lock /\ x1'.busy = x1.busy \ {c.item}
           \/ x2' = (x2 \ {c}) \cup {Lists!LoadFor("act", c.item)} /\ x1'.busy = x1.busy
    BY <1>1, <1>3, <2>1, ListsLoadsAct
  <2> QED
    BY <1>1, <2>2, ListsEnds, ListsWaits
<1>6. CASE c.is # "failed" /\ x1.is.after = "kick"
  <2>1. Lists!Loads(last, x2 \ {c}, "show", None)
    BY <1>6 DEF Lists!Acted
  <2> HIDE DEF shut
  <2>2. DOMAIN last = DOMAIN x1 /\ last.is = x1.is /\ last.lock = x1.lock /\ last.busy = x1.busy \ {c.item} /\ last.adding = x1.adding
    BY <1>1, <1>3 DEF Lists!Released
  <2> HIDE DEF last
  <2>3. /\ DOMAIN x1' = DOMAIN x1 /\ x1'.is = x1.is /\ x1'.adding = x1.adding /\ x1'.busy = x1.busy \ {c.item}
        /\ \/ x2' = x2 \ {c} /\ x1'.lock = x1.lock
           \/ x2' = (x2 \ {c}) \cup {Lists!LoadFor("show", None)}
    BY <1>1, <2>1, <2>2, ListsLoadsShow
  <2> QED
    BY <1>1, <2>3, ListsEnds, ListsKicks
<1>7. CASE c.is # "failed" /\ x1.is.after # "reload" /\ x1.is.after # "kick"
  <2>1. \E n : x1' = [over EXCEPT !.list = n]
    BY <1>7 DEF Lists!Acted
  <2>2. x2' = x2 \ {c}
    BY <1>7 DEF Lists!Acted
  <2> HIDE DEF over
  <2>3. DOMAIN x1' = DOMAIN x1 /\ x1'.is = x1.is /\ x1'.lock = x1.lock /\ x1'.busy = x1.busy \ {c.item} /\ x1'.adding = x1.adding
    BY <1>1, <1>2, <2>1
  <2> QED
    BY <1>1, <2>2, <2>3, ListsEnds
<1> QED
  BY <1>4, <1>5, <1>6, <1>7

\* An addition is answered.
LEMMA ListsAdded == ASSUME Lists!IndInv, NEW c \in x2, Lists!Added(c) PROVE Lists!IndInv'
<1>1. c.kind = "add" /\ x4' = x4 /\ DOMAIN x1 = {"is", "list", "lock", "busy", "adding", "target"}
  BY DEF Lists!Added, Lists!IndInv, Lists!ViewIsSound
<1> DEFINE over == [x1 EXCEPT !.adding = None]
<1>2. DOMAIN over = DOMAIN x1 /\ over.is = x1.is /\ over.lock = x1.lock /\ over.busy = x1.busy /\ over.adding = None
  BY <1>1
<1>3. CASE Lists!Loads(x1, x2 \ {c}, "add", c.item)
  <2>1. /\ DOMAIN x1' = DOMAIN x1 /\ x1'.is = x1.is /\ x1'.busy = x1.busy
        /\ \/ x2' = x2 \ {c} /\ x1'.lock = x1.lock /\ x1'.adding = None
           \/ x2' = (x2 \ {c}) \cup {Lists!LoadFor("add", c.item)} /\ x1'.adding = x1.adding
    BY <1>1, <1>3, ListsLoadsAdd
  <2> QED
    BY <1>1, <2>1, ListsEnds, ListsWaits
<1>4. CASE x2' = x2 \ {c} /\ (x1' = over \/ \E n : x1' = [over EXCEPT !.list = n])
  <2> HIDE DEF over
  <2>1. DOMAIN x1' = DOMAIN x1 /\ x1'.is = x1.is /\ x1'.lock = x1.lock /\ x1'.busy = x1.busy /\ x1'.adding = None
    BY <1>1, <1>2, <1>4
  <2> QED
    BY <1>1, <1>4, <2>1, ListsEnds
<1> QED
  BY <1>3, <1>4, Zenon DEF Lists!Added

\* A drop is answered.
LEMMA ListsDropped == ASSUME Lists!IndInv, NEW c \in x2, Lists!Dropped(c) PROVE Lists!IndInv'
<1>1. c.kind = "reorder" /\ x4' = x4 /\ DOMAIN x1 = {"is", "list", "lock", "busy", "adding", "target"}
  BY DEF Lists!Dropped, Lists!IndInv, Lists!ViewIsSound
<1>2. CASE Lists!Loads(x1, x2 \ {c}, "show", None)
  <2>1. /\ DOMAIN x1' = DOMAIN x1 /\ x1'.is = x1.is /\ x1'.busy = x1.busy /\ x1'.adding = x1.adding
        /\ \/ x2' = x2 \ {c} /\ x1'.lock = x1.lock
           \/ x2' = (x2 \ {c}) \cup {Lists!LoadFor("show", None)}
    BY <1>1, <1>2, ListsLoadsShow
  <2> QED
    BY <1>1, <2>1, ListsEnds, ListsKicks
<1>3. CASE x1' = [x1 EXCEPT !.list = c.list] /\ x2' = x2 \ {c}
  <2>1. DOMAIN x1' = DOMAIN x1 /\ x1'.is = x1.is /\ x1'.lock = x1.lock /\ x1'.busy = x1.busy /\ x1'.adding = x1.adding
    BY <1>1, <1>3
  <2> QED
    BY <1>1, <1>3, <2>1, ListsEnds
<1> QED
  BY <1>2, <1>3 DEF Lists!Dropped

\* The server answers a request.
LEMMA ListsServe == ASSUME Lists!IndInv, NEW c \in x2, Lists!Serve(c) PROVE Lists!IndInv'
<1>1. x1' = x1 /\ \E is, list : Lists!Answer(c, is, list)
  BY DEF Lists!Serve, Lists!Fails, Lists!RemoveNamed, Lists!Reorder
<1>2. PICK is, list : Lists!Answer(c, is, list)
  BY <1>1
<1> DEFINE d == [c EXCEPT !.is = is, !.list = list]
<1>3. d.kind = c.kind /\ d.why = c.why /\ d.item = c.item
  OBVIOUS
<1>4. x2' = (x2 \ {c}) \cup {d}
  BY <1>2 DEF Lists!Answer
<1> HIDE DEF d
<1>5. \A w \in x4' : w \in x4 \/ w[1] = "index"
  <2>1. x1.is.by \in {"id", "index"}
    BY DEF Lists!IndInv, Lists!ViewIsSound
  <2>2. x4' = x4 \/ (x1.is.by # "id" /\ \E x : x4' = x4 \cup ({<<x1.is.by, x>>} \ {<<x1.is.by, c.item>>}))
    BY DEF Lists!Serve, Lists!Fails, Lists!RemoveNamed, Lists!Reorder
  <2> QED
    BY <2>1, <2>2
<1>6. Lists!ActedIsConfirmed'
  BY <1>5 DEF Lists!IndInv, Lists!ActedIsConfirmed
<1>7. Lists!ViewIsSound' /\ Lists!CallsFit'
  BY <1>1, <1>3, <1>4 DEF Lists!IndInv, Lists!ViewIsSound, Lists!CallsFit
<1>8. Lists!HeldOnce' /\ Lists!HeldIsBusy'
  BY <1>1, <1>3, <1>4 DEF Lists!IndInv, Lists!HeldOnce, Lists!HeldIsBusy, Lists!Holds
<1>9. Lists!NothingStuck'
  BY <1>1, <1>3, <1>4 DEF Lists!IndInv, Lists!NothingStuck
<1>10. Lists!OnceAtATime'
  BY <1>8 DEF Lists!OnceAtATime, Lists!HeldOnce, Lists!Holds
<1> QED
  BY <1>6, <1>7, <1>8, <1>9, <1>10 DEF Lists!IndInv

\* So does a step that leaves the variables of the part alone.
LEMMA ListsStill == ASSUME Lists!IndInv, UNCHANGED <<x1, x2, x4>> PROVE Lists!IndInv'
BY DEF Lists!IndInv, Lists!ViewIsSound, Lists!CallsFit, Lists!HeldOnce, Lists!HeldIsBusy, Lists!Holds, Lists!NothingStuck,
       Lists!ActedIsConfirmed, Lists!OnceAtATime

\* Every step keeps the invariant.
LEMMA ListsStep == ASSUME Lists!IndInv, Lists!Next PROVE Lists!IndInv'
<1>1. CASE Lists!Reload \/ Lists!Confirm
  BY <1>1, ListsReload, ListsConfirm
<1>2. CASE Lists!Dismiss
  <2>1. x1' = [x1 EXCEPT !["target"] = None] /\ x2' = x2 /\ x4' = x4
    BY <1>2 DEF Lists!Dismiss
  <2> QED
    BY <2>1, ListsLooks
<1>3. CASE Lists!OtherChanges
  BY <1>3, ListsStill DEF Lists!OtherChanges
<1>4. ASSUME NEW i \in DOMAIN x1.list, Lists!Ask(i) \/ Lists!Close(i) PROVE Lists!IndInv'
  <2>1. CASE Lists!Ask(i)
    <3> DEFINE v == [item |-> x1.list[i], at |-> i]
    <3>1. x1' = [x1 EXCEPT !["target"] = v] /\ x2' = x2 /\ x4' = x4
      BY <2>1 DEF Lists!Ask
    <3> HIDE DEF v
    <3> QED
      BY <3>1, ListsLooks
  <2> QED
    BY <1>4, <2>1, ListsClose
<1>5. ASSUME NEW i \in DOMAIN x1.list, NEW j \in DOMAIN x1.list, Lists!Drop(i, j) PROVE Lists!IndInv'
  BY <1>5, ListsDrop
<1>6. ASSUME NEW x \in Item, Lists!Add(x) PROVE Lists!IndInv'
  BY <1>6, ListsAdd
<1>7. ASSUME NEW c \in x2, Lists!Loaded(c) \/ Lists!Acted(c) \/ Lists!Added(c) \/ Lists!Dropped(c) \/ Lists!Serve(c) PROVE Lists!IndInv'
  BY <1>7, ListsLoaded, ListsActed, ListsAdded, ListsDropped, ListsServe
<1> QED
  BY <1>1, <1>2, <1>3, <1>4, <1>5, <1>6, <1>7, Zenon DEF Lists!Next

-----------------------------------------------------------------------------
(* The shell of tabs: AppShell.                                            *)

\* A history that is flat, whose queries are of the tabs they are in.
Flat(b, es) ==
    /\ es \in Seq(Shell!Page) /\ Len(es) >= 1 /\ Len(es) <= 2
    /\ \A i \in 1..Len(es) : es[i].mark = (i = 2)
    /\ Len(es) > 1 => es[1].at = HomeTab /\ es[2].at # HomeTab
    /\ ~b => es[1].at = HomeTab
    /\ \A i \in 1..Len(es) : Shell!OwnQuery(es[i])

\* The query of an address holds what its tab takes, and nothing of others.
LEMMA ShellQuery ==
    ASSUME NEW t \in Tab, NEW v \in Value \cup {None}
    PROVE  Shell!Query(t, v) \in SUBSET (Tab \X Value) /\ \A x \in Shell!Query(t, v) : x[1] = t
BY DEF Shell!Query

\* It is then one that such an entry has.
LEMMA ShellOwn ==
    ASSUME NEW e \in Shell!Page, NEW v \in Value \cup {None}, e.query = Shell!Query(e.at, v)
    PROVE  Shell!OwnQuery(e)
<1>1. e.at \in Tab
  BY DEF Shell!Page
<1>2. \A x \in e.query : x[1] = e.at
  BY <1>1, ShellQuery
<1> QED
  BY <1>2 DEF Shell!OwnQuery

\* And so is an empty one.
LEMMA ShellOwnEmpty == ASSUME NEW e \in Shell!Page, e.query = {} PROVE Shell!OwnQuery(e)
BY ShellOwn DEF Shell!Query

\* What is written into an entry of t is all there is of t in it.
LEMMA ShellWritten ==
    ASSUME NEW e \in Shell!Page, NEW t \in Tab, NEW v \in Value \cup {None}, e.at = t, \A x \in e.query : x[1] = t
    PROVE  /\ Shell!Written(e, t, v) \in Shell!Page
           /\ Shell!Written(e, t, v).at = t /\ Shell!Written(e, t, v).mark = e.mark
           /\ Shell!Written(e, t, v).query = Shell!Query(t, v)
<1> DEFINE q == {x \in e.query : x[1] # t} \cup Shell!Query(t, v)
<1>1. q = Shell!Query(t, v)
  OBVIOUS
<1>2. q \in SUBSET (Tab \X Value)
  BY <1>1, ShellQuery
<1>3. Shell!Written(e, t, v) = [e EXCEPT !.query = q]
  BY DEF Shell!Written
<1> HIDE DEF q
<1>4. [e EXCEPT !.query = q] \in Shell!Page /\ [e EXCEPT !.query = q].query = q
  BY <1>2 DEF Shell!Page
<1>5. [e EXCEPT !.query = q].at = e.at /\ [e EXCEPT !.query = q].mark = e.mark
  OBVIOUS
<1> QED
  BY <1>1, <1>3, <1>4, <1>5

\* An entry is replaced by one that is as good.
LEMMA ShellReplacedBy ==
    ASSUME NEW es, Flat(x1, es), NEW p \in 1..Len(es), NEW e \in Shell!Page, e.mark = es[p].mark, Shell!OwnQuery(e),
           e.at = HomeTab => p = 1, e.at # HomeTab => es[p].at # HomeTab \/ (x1 /\ Len(es) <= 1),
           NEW f \in Seq(Shell!Page), Len(f) = Len(es), f[p] = e, \A i \in 1..Len(es) \ {p} : f[i] = es[i]
    PROVE  Flat(x1, f)
  BY DEF Flat

\* The same of the history written out.
LEMMA ShellReplaced ==
    ASSUME NEW es, Flat(x1, es), NEW p \in 1..Len(es), NEW e \in Shell!Page, e.mark = es[p].mark, Shell!OwnQuery(e),
           e.at = HomeTab => p = 1, e.at # HomeTab => es[p].at # HomeTab \/ (x1 /\ Len(es) <= 1)
    PROVE  /\ Flat(x1, [es EXCEPT ![p] = e]) /\ Len([es EXCEPT ![p] = e]) = Len(es) /\ [es EXCEPT ![p] = e][p] = e
<1>1. es \in Seq(Shell!Page) /\ Len(es) >= 1 /\ Len(es) <= 2 /\ DOMAIN es = 1..Len(es)
  BY DEF Flat
<1>2. [es EXCEPT ![p] = e] \in Seq(Shell!Page) /\ Len([es EXCEPT ![p] = e]) = Len(es)
  BY <1>1, ExceptSeq
<1>3. [es EXCEPT ![p] = e][p] = e /\ \A i \in 1..Len(es) \ {p} : [es EXCEPT ![p] = e][i] = es[i]
  BY <1>1
<1> DEFINE f == [es EXCEPT ![p] = e]
<1> HIDE DEF f
<1>4. f \in Seq(Shell!Page) /\ Len(f) = Len(es) /\ f[p] = e /\ \A i \in 1..Len(es) \ {p} : f[i] = es[i]
  BY <1>2, <1>3 DEF f
<1>5. Flat(x1, f)
  BY <1>4, ShellReplacedBy
<1> QED
  BY <1>4, <1>5 DEF f

\* What Show leaves.
LEMMA ShellShown ==
    ASSUME NEW es, Flat(x1, es), NEW p \in 1..Len(es), NEW t \in Tab, Shell!Show(es, p, t), t = Vnc => es[p].at = Vnc, x9 \in Value \cup {None}
    PROVE  /\ Flat(x1, x2') /\ Len(x2') = Len(es) /\ x3' = p /\ x5' = t
           /\ x2'[p].at = es[p].at
           /\ t = Vnc /\ x5 # Vnc => x2'[p].query = Shell!Query(Vnc, x9)
           /\ t # Vnc \/ x5 = Vnc => x2' = es
<1>1. CASE t = Vnc /\ x5 # Vnc
  <2> DEFINE e == Shell!Written(es[p], Vnc, x9)
  <2>1. es \in Seq(Shell!Page) /\ es[p] \in Shell!Page /\ es[p].at = Vnc /\ \A x \in es[p].query : x[1] = Vnc
    BY <1>1, ElementOfSeq DEF Flat, Shell!OwnQuery
  <2>2. e \in Shell!Page /\ e.at = Vnc /\ e.mark = es[p].mark /\ e.query = Shell!Query(Vnc, x9)
    BY <2>1, ShellWritten, ShellAssumption
  <2>3. Shell!OwnQuery(e)
    BY <2>2, ShellOwn
  <2>4. x2' = [es EXCEPT ![p] = e] /\ x3' = p /\ x5' = t
    BY <1>1 DEF Shell!Show
  <2> HIDE DEF e
  <2>5. Flat(x1, [es EXCEPT ![p] = e]) /\ Len([es EXCEPT ![p] = e]) = Len(es) /\ [es EXCEPT ![p] = e][p] = e
    BY <2>1, <2>2, <2>3, ShellReplaced, ShellAssumption
  <2> QED
    BY <1>1, <2>1, <2>2, <2>4, <2>5
<1>2. CASE ~(t = Vnc /\ x5 # Vnc)
  BY <1>2 DEF Shell!Show
<1> QED
  BY <1>1, <1>2

\* The invariant, of the history and of what is shown.
LEMMA ShellFacts ==
    Shell!IndInv <=> /\ Flat(x1, x2) /\ Shell!AddressIsShown
                     /\ x1 \in BOOLEAN /\ x4 \in Nat /\ x7 \in BOOLEAN /\ x8 \in BOOLEAN
                     /\ x3 \in 1..Len(x2) /\ x5 \in Tab
                     /\ x6 \in [Carry -> Value \cup {None}] /\ x9 \in Value \cup {None}
<1>1. ASSUME Shell!IndInv PROVE Flat(x1, x2)
  <2>1. x2 \in Seq(Shell!Page) /\ x3 \in 1..Len(x2) /\ Len(x2) <= 2 /\ Len(x2) \in Nat
    BY <1>1 DEF Shell!IndInv, Shell!TypeOK, Shell!HistoryIsFlat
  <2>2. Len(x2) >= 1 /\ Len(x2) <= 2
    BY <2>1
  <2> QED
    BY <1>1, <2>1, <2>2 DEF Shell!IndInv, Shell!HistoryIsFlat, Shell!AddressIsShown, Flat
<1>2. Flat(x1, x2) => Shell!HistoryIsFlat
  BY DEF Shell!HistoryIsFlat, Flat
<1>3. Flat(x1, x2) => x2 \in Seq(Shell!Page)
  BY DEF Flat
<1> QED
  BY <1>1, <1>2, <1>3 DEF Shell!IndInv, Shell!TypeOK

\* And of what a step leaves.
LEMMA ShellKept ==
    ASSUME Flat(x1', x2'), Shell!AddressIsShown', x1' \in BOOLEAN, x4' \in Nat, x7' \in BOOLEAN, x8' \in BOOLEAN,
           x3' \in 1..Len(x2'), x5' \in Tab, x6' \in [Carry -> Value \cup {None}], x9' \in Value \cup {None}
    PROVE  Shell!IndInv'
<1>1. x2' \in Seq(Shell!Page) /\ Shell!HistoryIsFlat'
  BY DEF Shell!HistoryIsFlat, Flat
<1> QED
  BY <1>1 DEF Shell!IndInv, Shell!TypeOK

\* A tab's target, path or session is written into the entry that is shown.
LEMMA ShellNoted ==
    ASSUME Shell!IndInv, NEW t \in Tab \ {HomeTab}, NEW v \in Value \cup {None}, x5 = t,
           x2' = [x2 EXCEPT ![x3] = Shell!Written(@, t, v)], UNCHANGED <<x1, x3, x4, x5, x7>>, x8' \in BOOLEAN,
           x6' \in [Carry -> Value \cup {None}], x9' \in Value \cup {None},
           t = Vnc => x9' = v
    PROVE  Shell!IndInv'
<1> DEFINE e == Shell!Written(x2[x3], t, v)
<1>1. Flat(x1, x2) /\ x3 \in 1..Len(x2) /\ x2[x3].at = t
  BY ShellFacts DEF Shell!AddressIsShown
<1>2. x2[x3] \in Shell!Page /\ \A x \in x2[x3].query : x[1] = t
  BY <1>1, ElementOfSeq DEF Flat, Shell!OwnQuery
<1>3. e \in Shell!Page /\ e.at = t /\ e.mark = x2[x3].mark /\ e.query = Shell!Query(t, v)
  BY <1>1, <1>2, ShellWritten
<1>4. Shell!OwnQuery(e)
  BY <1>3, ShellOwn
<1>5. x2' = [x2 EXCEPT ![x3] = e]
  OBVIOUS
<1> HIDE DEF e
<1>6. Flat(x1, x2') /\ Len(x2') = Len(x2) /\ x2'[x3] = e
  <2> DEFINE q == x2[x3]
             f == x2'
  <2>1. q = x2[x3] /\ f = [x2 EXCEPT ![x3] = e] /\ e.at = t /\ q.at = t /\ t # HomeTab
    BY <1>1, <1>3, <1>5
  <2>2. e \in Shell!Page /\ e.mark = x2[x3].mark /\ (e.at = HomeTab => x3 = 1) /\ (e.at # HomeTab => x2[x3].at # HomeTab)
    BY <1>1, <1>3, <2>1
  <2>3. x2 \in Seq(Shell!Page) /\ DOMAIN x2 = 1..Len(x2)
    BY <1>1 DEF Flat
  <2>4. f \in Seq(Shell!Page) /\ Len(f) = Len(x2)
    BY <1>1, <1>3, <2>1, <2>3, ExceptSeq
  <2>5. f[x3] = e /\ \A i \in 1..Len(x2) \ {x3} : f[i] = x2[i]
    BY <1>1, <2>1, <2>3
  <2> HIDE DEF q, f
  <2>6. Flat(x1, f)
    BY ONLY <1>1, <1>4, <2>2, <2>4, <2>5, ShellReplacedBy
  <2> QED
    BY <2>4, <2>5, <2>6 DEF f
<1>7. Flat(x1', x2')
  BY <1>6 DEF Flat
<1>8. Shell!AddressIsShown'
  BY <1>1, <1>3, <1>6 DEF Shell!AddressIsShown, Flat
<1> QED
  BY <1>6, <1>7, <1>8, ShellFacts, ShellKept

\* A click on a tab.
LEMMA ShellSets ==
    ASSUME Shell!IndInv, NEW id \in Tab, Shell!SetActive(id), UNCHANGED <<x1, x7, x9>>, x6' \in [Carry -> Value \cup {None}]
    PROVE  Shell!IndInv'
<1> DEFINE here == x2[x3]
           back == id = HomeTab /\ here.at # HomeTab /\ here.mark
<1>1. Flat(x1, x2) /\ x3 \in 1..Len(x2) /\ x9 \in Value \cup {None} /\ here \in Shell!Page /\ x5 \in Tab /\ x4 \in Nat
  BY ShellFacts, ElementOfSeq DEF Flat
<1>2. here.at \in Tab /\ here.mark \in BOOLEAN /\ here.mark = (x3 = 2) /\ Len(x2) >= 1 /\ Len(x2) <= 2
  BY <1>1 DEF Shell!Page, Flat
<1>3. x4' \in Nat /\ (x4 > 0 \/ back => x4' > 0)
  <2>1. x4' = x4 + (IF back THEN 1 ELSE 0)
    BY DEF Shell!SetActive
  <2>2. CASE back
    BY <1>1, <2>1, <2>2
  <2>3. CASE ~back
    BY <1>1, <2>1, <2>3
  <2> QED
    BY <2>2, <2>3
<1>4. x8' \in BOOLEAN
  BY ShellFacts DEF Shell!SetActive, Shell!Show
<1>5. CASE id = here.at \/ back
  <2>1. Shell!Show(x2, x3, id) /\ (id = Vnc => here.at = Vnc)
    BY <1>5, ShellAssumption DEF Shell!SetActive
  <2>2. /\ Flat(x1, x2') /\ Len(x2') = Len(x2) /\ x3' = x3 /\ x5' = id /\ x2'[x3].at = here.at
        /\ id = Vnc /\ x5 # Vnc => x2'[x3].query = Shell!Query(Vnc, x9)
        /\ id # Vnc \/ x5 = Vnc => x2' = x2
    BY <1>1, <2>1, ShellShown
  <2>3. Flat(x1', x2')
    BY <2>2 DEF Flat
  <2>4. Shell!AddressIsShown'
    BY <1>3, <1>5, <2>2, ShellFacts DEF Shell!AddressIsShown, Flat
  <2> QED
    BY <1>1, <1>3, <1>4, <2>2, <2>3, <2>4, ShellFacts, ShellKept
<1>6. CASE id # here.at /\ ~back /\ (id = HomeTab \/ here.at # HomeTab)
  <2> DEFINE e == Shell!Entry(id, here.mark, {})
             es == [x2 EXCEPT ![x3] = e]
  <2>1. e \in Shell!Page /\ e.at = id /\ e.mark = here.mark /\ e.query = {} /\ Shell!OwnQuery(e)
    <3>1. e \in Shell!Page /\ e.at = id /\ e.mark = here.mark /\ e.query = {}
      BY <1>2 DEF Shell!Entry, Shell!Page
    <3> HIDE DEF e
    <3> QED
      BY <3>1, ShellOwnEmpty
  <2>2. (id = HomeTab => x3 = 1) /\ (id = HomeTab => ~here.mark)
    <3>1. id = HomeTab => ~here.mark
      BY <1>6
    <3>2. ~here.mark => x3 # 2
      BY <1>2
    <3>3. x3 # 2 => x3 = 1
      <4> HIDE DEF here
      <4> QED
        BY <1>1, <1>2
    <3> QED
      BY <3>1, <3>2, <3>3
  <2>3. Shell!Show(es, x3, id)
    <3>1. CASE id = HomeTab
      <4>1. here.mark = FALSE
        BY <1>2, <2>2, <3>1
      <4> QED
        BY <1>6, <3>1, <4>1 DEF Shell!SetActive
    <3>2. CASE id # HomeTab
      BY <1>6, <3>2 DEF Shell!SetActive
    <3> QED
      BY <3>1, <3>2
  <2> HIDE DEF e
  <2>4. id # HomeTab => here.at # HomeTab
    BY <1>6
  <2>5. Flat(x1, es) /\ Len(es) = Len(x2) /\ es[x3] = e
    BY <1>1, <2>1, <2>2, <2>4, ShellReplaced
  <2> HIDE DEF es
  <2>6. /\ Flat(x1, x2') /\ Len(x2') = Len(x2) /\ x3' = x3 /\ x5' = id /\ x2'[x3].at = id
        /\ id = Vnc /\ x5 # Vnc => x2'[x3].query = Shell!Query(Vnc, x9)
    BY <1>1, <2>1, <2>3, <2>5, ShellShown
  <2>7. Flat(x1', x2')
    BY <2>6 DEF Flat
  <2>8. x5 = here.at \/ (x4 > 0 /\ x3 = 2 /\ x5 = HomeTab)
    BY ShellFacts DEF Shell!AddressIsShown
  <2>9. Shell!AddressIsShown'
    BY <1>3, <1>6, <2>6, <2>8, ShellAssumption DEF Shell!AddressIsShown, Flat
  <2> QED
    BY <1>1, <1>3, <1>4, <2>6, <2>7, <2>9, ShellFacts, ShellKept
<1>7. CASE id # here.at /\ id # HomeTab /\ here.at = HomeTab
  <2> DEFINE e == Shell!Entry(id, TRUE, {})
             es == Append(SubSeq(x2, 1, x3), e)
  <2>1. e \in Shell!Page /\ e.at = id /\ e.mark = TRUE /\ e.query = {} /\ Shell!OwnQuery(e)
    <3>1. e \in Shell!Page /\ e.at = id /\ e.mark = TRUE /\ e.query = {}
      BY DEF Shell!Entry, Shell!Page
    <3> HIDE DEF e
    <3> QED
      BY <3>1, ShellOwnEmpty
  <2>2. Shell!Show(es, x3 + 1, id)
    BY <1>7 DEF Shell!SetActive
  <2> HIDE DEF e
  <2>3. x3 = 1
    BY <1>1, <1>2, <1>7 DEF Flat
  <2>4. x2 \in Seq(Shell!Page) /\ Len(x2) \in Nat /\ Len(x2) >= 1
    BY <1>2, <1>1 DEF Flat
  <2>5. es \in Seq(Shell!Page) /\ Len(es) = x3 + 1 /\ es[1] = x2[1] /\ es[x3 + 1] = e
    <3>1. SubSeq(x2, 1, x3) \in Seq(Shell!Page) /\ Len(SubSeq(x2, 1, x3)) = x3 /\ SubSeq(x2, 1, x3)[1] = x2[1]
      BY <2>3, <2>4, SubSeqProperties
    <3> QED
      BY <2>1, <2>3, <3>1, AppendProperties
  <2> HIDE DEF es
  <2>6. Flat(x1, es)
    <3>1. \A i \in 1..Len(es) : i = 1 \/ (i = 2 /\ es[i] = e)
      BY <2>3, <2>5
    <3>2. \A i \in 1..Len(es) : es[i].mark = (i = 2) /\ Shell!OwnQuery(es[i])
      <4>1. x2[1].mark = FALSE /\ Shell!OwnQuery(x2[1])
        <5>1. x2[1].mark = FALSE
          <6>1. (x3 = 2) = FALSE /\ here = x2[1]
            BY <2>3
          <6> HIDE DEF here
          <6> QED
            BY <1>2, <6>1
        <5> QED
          BY <1>1, <2>3, <5>1 DEF Flat
      <4>2. e.mark = TRUE /\ Shell!OwnQuery(e)
        BY <2>1
      <4> HIDE DEF here
      <4> SUFFICES ASSUME NEW i \in 1..Len(es) PROVE es[i].mark = (i = 2) /\ Shell!OwnQuery(es[i])
        OBVIOUS
      <4>3. CASE i = 1
        <5>1. es[i].mark = FALSE /\ Shell!OwnQuery(es[i])
          BY <2>5, <4>1, <4>3
        <5>2. (i = 2) = FALSE
          BY <4>3
        <5> QED
          BY <5>1, <5>2, Zenon
      <4>4. CASE i = 2
        <5>1. es[i].mark = TRUE /\ Shell!OwnQuery(es[i])
          BY <2>3, <2>5, <4>2, <4>4
        <5>2. (i = 2) = TRUE
          BY <4>4
        <5> QED
          BY <5>1, <5>2, Zenon
      <4> QED
        BY <3>1, <4>3, <4>4
    <3> QED
      BY <1>1, <1>7, <2>1, <2>3, <2>5, <3>2 DEF Flat
  <2>7. /\ Flat(x1, x2') /\ Len(x2') = x3 + 1 /\ x3' = x3 + 1 /\ x5' = id /\ x2'[x3'].at = id
        /\ id = Vnc /\ x5 # Vnc => x2'[x3'].query = Shell!Query(Vnc, x9)
    <3> DEFINE p == x3 + 1
    <3>1. p \in 1..Len(es) /\ es[p] = e /\ Len(es) = p
      BY <2>3, <2>5
    <3>2. Shell!Show(es, p, id) /\ es[p].at = id
      BY <2>1, <2>2, <3>1
    <3> HIDE DEF p
    <3>3. /\ Flat(x1, x2') /\ Len(x2') = Len(es) /\ x3' = p /\ x5' = id
          /\ x2'[p].at = es[p].at
          /\ id = Vnc /\ x5 # Vnc => x2'[p].query = Shell!Query(Vnc, x9)
      BY <1>1, <2>6, <3>1, <3>2, ShellShown
    <3> QED
      BY <3>1, <3>2, <3>3 DEF p
  <2>8. Flat(x1', x2')
    BY <2>7 DEF Flat
  <2>9. x5 = here.at
    BY <1>7, ShellFacts DEF Shell!AddressIsShown
  <2>10. Shell!AddressIsShown'
    BY <1>3, <1>7, <2>7, <2>9 DEF Shell!AddressIsShown, Flat
  <2> QED
    BY <1>1, <1>3, <1>4, <2>7, <2>8, <2>10, ShellFacts, ShellKept
<1> QED
  BY <1>5, <1>6, <1>7

\* The browser's buttons.
LEMMA ShellTraverses ==
    ASSUME Shell!IndInv, NEW p \in 1..Len(x2), Shell!Traverse(p), x4' \in Nat, p # x3
    PROVE  Shell!IndInv'
<1>1. Flat(x1, x2) /\ x3 \in 1..Len(x2) /\ x9 \in Value \cup {None} /\ x2[p] \in Shell!Page /\ x5 \in Tab /\ x4 \in Nat
  BY ShellFacts, ElementOfSeq DEF Flat
<1>2. x2[p].at \in Tab /\ Shell!Show(x2, p, x2[p].at) /\ UNCHANGED <<x1, x6, x7, x9>> /\ x8' \in BOOLEAN
  BY <1>1, ShellFacts DEF Shell!Page, Shell!Traverse, Shell!Show
<1>3. /\ Flat(x1, x2') /\ Len(x2') = Len(x2) /\ x3' = p /\ x5' = x2[p].at /\ x2'[p].at = x2[p].at
      /\ x2[p].at = Vnc /\ x5 # Vnc => x2'[p].query = Shell!Query(Vnc, x9)
  BY <1>1, <1>2, ShellShown
<1>4. x2[p].at = Vnc => x5 # Vnc
  BY <1>1, ShellFacts, ShellAssumption DEF Flat, Shell!AddressIsShown
<1>5. Flat(x1', x2')
  BY <1>2, <1>3 DEF Flat
<1>6. Shell!AddressIsShown'
  BY <1>2, <1>3, <1>4 DEF Shell!AddressIsShown, Flat
<1> QED
  BY <1>1, <1>2, <1>3, <1>5, <1>6, ShellFacts, ShellKept

\* What the address asks of VNC is its target.
LEMMA ShellAsked ==
    ASSUME NEW e \in Shell!Page, NEW v \in Value \cup {None}, e.query = Shell!Query(Vnc, v)
    PROVE  Shell!Asked(e, Vnc) = v
<1>1. CASE v = None
  BY <1>1, ShellAssumption DEF Shell!Asked, Shell!Query
<1>2. CASE v # None
  <2>1. v \in Value /\ \A w \in Value : <<Vnc, w>> \in e.query <=> w = v
    BY <1>2 DEF Shell!Query
  <2> QED
    BY <2>1 DEF Shell!Asked
<1> QED
  BY <1>1, <1>2

\* What an entry asks of a tab is a value of it, or nothing.
LEMMA ShellAskedTyped == ASSUME NEW e, NEW t PROVE Shell!Asked(e, t) \in Value \cup {None}
BY DEF Shell!Asked

\* The page is loaded anew, at an entry of the history.
LEMMA ShellLoads ==
    ASSUME Shell!IndInv, NEW p \in 1..Len(x2), Shell!LoadedAt(p), x4' \in Nat
    PROVE  Shell!IndInv'
<1>1. Flat(x1, x2) /\ x2[p] \in Shell!Page /\ x2[p].at \in Tab /\ UNCHANGED <<x1, x7>>
  <2>1. Flat(x1, x2) /\ x2[p] \in Shell!Page
    BY ShellFacts, ElementOfSeq DEF Flat
  <2> QED
    BY <2>1 DEF Shell!LoadedAt, Shell!Page
<1>2. Shell!Slipped(x2, p) = x2
  <2>1. x1 \/ x2[p].at = HomeTab \/ x2[p].mark
    <3>1. p # 1 => p = 2
      BY <1>1 DEF Flat
    <3> QED
      BY <1>1, <3>1 DEF Flat
  <2> QED
    BY <2>1 DEF Shell!Slipped
<1> DEFINE page == Shell!Loaded(x2, p)
<1>3. /\ page.entries = x2 /\ page.pos = p /\ page.active = x2[p].at /\ page.visited = (x2[p].at = Vnc)
      /\ page.target = IF x2[p].at = Vnc THEN Shell!Asked(x2[p], Vnc) ELSE None
      /\ page.pending = [t \in Carry |-> IF x2[p].at = t THEN Shell!Asked(x2[p], t) ELSE None]
  BY <1>2 DEF Shell!Loaded
<1>4. x2' = page.entries /\ x3' = page.pos /\ x5' = page.active /\ x8' = page.visited /\ x9' = page.target /\ x6' = page.pending
  BY DEF Shell!LoadedAt
<1> HIDE DEF page
<1>5. x2' = x2 /\ x3' = p /\ x5' = x2[p].at /\ x8' \in BOOLEAN
  BY <1>3, <1>4
<1>6. x5' = Vnc => x2[p].query = Shell!Query(Vnc, x9')
  <2>1. ASSUME x2[p].at = Vnc PROVE x2[p].query = Shell!Query(Vnc, Shell!Asked(x2[p], Vnc))
    <3>1. PICK v \in Value \cup {None} : x2[p].query = Shell!Query(Vnc, v)
      BY <1>1, <2>1 DEF Flat, Shell!OwnQuery
    <3> QED
      BY <1>1, <3>1, ShellAsked
  <2> QED
    BY <1>3, <1>4, <1>5, <2>1
<1>7. x9' \in Value \cup {None} /\ x6' \in [Carry -> Value \cup {None}]
  BY <1>3, <1>4, ShellAskedTyped
<1>8. Flat(x1', x2')
  BY <1>1, <1>5 DEF Flat
<1>9. Shell!AddressIsShown'
  BY <1>1, <1>5, <1>6 DEF Shell!AddressIsShown, Flat
<1>10. x7' \in BOOLEAN /\ x1' \in BOOLEAN
  BY <1>1, ShellFacts
<1> QED
  BY <1>1, <1>5, <1>7, <1>8, <1>9, <1>10, ShellKept

\* Back, from where there is something of the app below and where not.
LEMMA ShellBack ==
    ASSUME Shell!IndInv, Shell!BackFrom(x3), x4' \in Nat, x4' = x4 \/ x4 > 0
    PROVE  Shell!IndInv'
<1>1. Flat(x1, x2) /\ x3 \in 1..Len(x2) /\ Len(x2) >= 1 /\ Len(x2) <= 2 /\ x7 \in BOOLEAN
  BY ShellFacts DEF Flat
<1>2. CASE x3 > 1 /\ Shell!Traverse(x3 - 1)
  <2>1. x3 - 1 \in 1..Len(x2) /\ x3 - 1 # x3
    BY <1>1, <1>2
  <2> QED
    BY <1>2, <2>1, ShellTraverses
<1>3. CASE x3 = 1 /\ UNCHANGED <<x1, x2, x3, x5, x6, x8, x9, x7>>
  <2>1. Flat(x1', x2')
    BY <1>1, <1>3 DEF Flat
  <2>2. Shell!AddressIsShown'
    BY <1>3, ShellFacts DEF Shell!AddressIsShown
  <2> QED
    BY <1>3, <2>1, <2>2, ShellFacts, ShellKept
<1>4. CASE x3 = 1 /\ Shell!LoadedAt(1)
  BY <1>1, <1>4, ShellLoads
<1> QED
  BY <1>2, <1>3, <1>4 DEF Shell!BackFrom, Shell!content

\* The initial states satisfy the invariant.
LEMMA ShellInit == ASSUME Shell!Init PROVE Shell!IndInv
<1>1. PICK t \in Tab, v \in Value \cup {None} :
          LET page == Shell!Loaded(<<Shell!Entry(t, FALSE, IF t \in Carry \cup {Vnc} THEN Shell!Query(t, v) ELSE {})>>, 1)
          IN /\ x2 = page.entries /\ x3 = page.pos /\ x5 = page.active
             /\ x8 = page.visited /\ x9 = page.target /\ x6 = page.pending
  BY DEF Shell!Init
<1> DEFINE q == IF t \in Carry \cup {Vnc} THEN Shell!Query(t, v) ELSE {}
           e == Shell!Entry(t, FALSE, q)
           es == <<e>>
           here == Shell!Slipped(es, 1)
<1>2. q \in SUBSET (Tab \X Value) /\ (\A x \in q : x[1] = t) /\ (t = Vnc => q = Shell!Query(Vnc, v))
  BY ShellQuery
<1> HIDE DEF q
<1>3. e \in Shell!Page /\ e.at = t /\ e.mark = FALSE /\ e.query = q
  BY <1>2 DEF Shell!Entry, Shell!Page
<1> DEFINE page == Shell!Loaded(es, 1)
<1>13. /\ page.entries = here /\ page.pos = (IF here = es THEN 1 ELSE 2) /\ page.active = t /\ page.visited = (t = Vnc)
       /\ page.target = (IF t = Vnc THEN Shell!Asked(e, Vnc) ELSE None)
       /\ page.pending = [c \in Carry |-> IF t = c THEN Shell!Asked(e, c) ELSE None]
  <2>1. es[1] = e
    OBVIOUS
  <2> HIDE DEF es, here, e
  <2> QED
    BY <1>3, <2>1 DEF Shell!Loaded, here
<1>14. x2 = page.entries /\ x3 = page.pos /\ x5 = page.active /\ x8 = page.visited /\ x9 = page.target /\ x6 = page.pending
  BY <1>1 DEF q
<1> HIDE DEF page
<1>4. x2 = here /\ x3 = (IF here = es THEN 1 ELSE 2) /\ x5 = t /\ x8 = (t = Vnc)
      /\ x9 = (IF t = Vnc THEN Shell!Asked(e, Vnc) ELSE None) /\ x6 = [c \in Carry |-> IF t = c THEN Shell!Asked(e, c) ELSE None]
  BY <1>13, <1>14
<1>5. t = Vnc => x9 = v
  BY <1>2, <1>3, <1>4, ShellAsked
<1>6. x9 \in Value \cup {None} /\ x6 \in [Carry -> Value \cup {None}] /\ x8 \in BOOLEAN
  BY <1>4, ShellAskedTyped
<1>7. x1 \in BOOLEAN /\ x4 = 0 /\ x7 \in BOOLEAN
  BY DEF Shell!Init
<1> DEFINE h == Shell!Entry(HomeTab, FALSE, {})
           f == [e EXCEPT !.mark = TRUE]
<1>8. h \in Shell!Page /\ h.at = HomeTab /\ h.mark = FALSE /\ h.query = {} /\ Shell!OwnQuery(h)
  <2>1. h \in Shell!Page /\ h.at = HomeTab /\ h.mark = FALSE /\ h.query = {}
    BY ShellAssumption DEF Shell!Entry, Shell!Page
  <2> HIDE DEF h
  <2> QED
    BY <2>1, ShellOwnEmpty
<1>9. f \in Shell!Page /\ f.at = t /\ f.mark = TRUE /\ f.query = q
  BY <1>3 DEF Shell!Page
<1>12. Shell!OwnQuery(e) /\ Shell!OwnQuery(f)
  <2> HIDE DEF e, f
  <2> QED
    BY <1>2, <1>3, <1>9 DEF Shell!OwnQuery
<1>10. CASE x1 \/ t = HomeTab
  <2>1. here = <<e>>
    BY <1>3, <1>10 DEF Shell!Slipped
  <2> HIDE DEF e
  <2>2. x2 = <<e>> /\ x3 = 1
    BY <1>4, <2>1
  <2>5. x2 \in Seq(Shell!Page) /\ Len(x2) = x3 /\ x2[x3] = e /\ \A i \in 1..Len(x2) : i = x3
    BY <1>3, <2>2
  <2>3. Flat(x1, x2)
    <3>1. \A i \in 1..Len(x2) : x2[i].mark = (i = 2) /\ Shell!OwnQuery(x2[i])
      <4>1. x2[1].mark = FALSE /\ Shell!OwnQuery(x2[1])
        BY <1>3, <1>12, <2>2, <2>5
      <4> SUFFICES ASSUME NEW i \in 1..Len(x2) PROVE x2[i].mark = (i = 2) /\ Shell!OwnQuery(x2[i])
        OBVIOUS
      <4>2. i = 1
        BY <2>2, <2>5
      <4>3. (i = 2) = FALSE
        BY <4>2
      <4>4. x2[i].mark = FALSE /\ Shell!OwnQuery(x2[i])
        BY <4>1, <4>2
      <4> QED
        BY <4>3, <4>4, Zenon
    <3> QED
      BY <1>3, <1>10, <2>2, <2>5, <3>1 DEF Flat
  <2>4. Shell!AddressIsShown
    BY <1>2, <1>3, <1>4, <1>5, <1>7, <1>12, <2>2 DEF Shell!AddressIsShown
  <2> QED
    <3>1. x3 \in 1..Len(x2) /\ x5 \in Tab
      BY <1>4, <2>2, <2>5
    <3> QED
      BY <1>6, <1>7, <2>3, <2>4, <3>1, ShellFacts
<1>11. CASE ~x1 /\ t # HomeTab
  <2>1. here = Append(SubSeq(es, 1, 0) \o <<h>>, f)
    <3>1. es[1] = e
      OBVIOUS
    <3> HIDE DEF e, es
    <3> QED
      BY <1>3, <1>11, <3>1 DEF Shell!Slipped
  <2> HIDE DEF e, f, h
  <2>2. SubSeq(es, 1, 0) = << >>
    BY SubSeqEmpty
  <2>3. here = <<h, f>>
    BY <2>1, <2>2
  <2>4. here # es
    BY <2>3
  <2>5. x2 = <<h, f>> /\ x3 = 2
    BY <1>4, <2>3, <2>4
  <2>8. x2 \in Seq(Shell!Page) /\ Len(x2) = x3 /\ x2[1] = h /\ x2[x3] = f /\ \A i \in 1..Len(x2) : i = 1 \/ i = x3
    BY <1>8, <1>9, <2>5
  <2>6. Flat(x1, x2)
    <3>1. \A i \in 1..Len(x2) : x2[i].mark = (i = 2) /\ Shell!OwnQuery(x2[i])
      <4>1. x2[1].mark = FALSE /\ Shell!OwnQuery(x2[1])
        BY <1>8, <2>8
      <4>2. x2[2].mark = TRUE /\ Shell!OwnQuery(x2[2])
        BY <1>9, <1>12, <2>5, <2>8
      <4>3. \A i \in 1..Len(x2) : i = 1 \/ i = 2
        BY <2>5, <2>8
      <4> QED
        BY <4>1, <4>2, <4>3
    <3> QED
      BY <1>8, <1>9, <1>11, <2>5, <2>8, <3>1 DEF Flat
  <2>7. Shell!AddressIsShown
    BY <1>2, <1>4, <1>5, <1>7, <1>8, <1>9, <1>12, <2>5 DEF Shell!AddressIsShown
  <2> QED
    <3>1. x3 \in 1..Len(x2) /\ x5 \in Tab
      BY <1>4, <2>5, <2>8
    <3> QED
      BY <1>6, <1>7, <2>6, <2>7, <3>1, ShellFacts
<1> QED
  BY <1>10, <1>11

\* So does a step that leaves the variables of the part alone.
LEMMA ShellStill == ASSUME Shell!IndInv, UNCHANGED <<x1, x2, x3, x4, x5, x6, x8, x9>>, x7' \in BOOLEAN PROVE Shell!IndInv'
BY DEF Shell!IndInv, Shell!TypeOK, Shell!HistoryIsFlat, Shell!AddressIsShown

\* Every step keeps the invariant.
LEMMA ShellStep == ASSUME Shell!IndInv, Shell!Next PROVE Shell!IndInv'
<1>0. /\ Flat(x1, x2) /\ x3 \in 1..Len(x2) /\ Len(x2) >= 1 /\ Len(x2) <= 2 /\ x5 \in Tab /\ x4 \in Nat /\ x7 \in BOOLEAN /\ x8 \in BOOLEAN
      /\ x6 \in [Carry -> Value \cup {None}] /\ x9 \in Value \cup {None}
  BY ShellFacts DEF Flat, Shell!IndInv
<1>1. ASSUME NEW id \in Tab, Shell!Select(id) PROVE Shell!IndInv'
  BY <1>0, <1>1, ShellSets DEF Shell!Select
<1>2. ASSUME NEW t \in Carry, NEW v \in Value, Shell!OpenIn(t, v) PROVE Shell!IndInv'
  <2>1. x6' \in [Carry -> Value \cup {None}]
    BY <1>0, <1>2 DEF Shell!OpenIn
  <2> QED
    BY <1>2, <2>1, ShellSets, ShellAssumption DEF Shell!OpenIn
<1>3. ASSUME NEW t \in Carry, Shell!Consume(t) PROVE Shell!IndInv'
  <2>1. x6' \in [Carry -> Value \cup {None}] /\ x6[t] \in Value \cup {None}
    BY <1>0, <1>3 DEF Shell!Consume
  <2> QED
    BY <1>0, <1>3, <2>1, ShellNoted, ShellAssumption DEF Shell!Consume, Shell!Mounted
<1>4. ASSUME NEW t \in Carry, NEW v \in Value \cup {None}, Shell!PageReports(t, v) PROVE Shell!IndInv'
  BY <1>0, <1>4, ShellNoted, ShellAssumption DEF Shell!PageReports, Shell!Mounted, Shell!content
<1>5. ASSUME NEW v \in Value \cup {None}, Shell!VncMessage(v) PROVE Shell!IndInv'
  <2>1. CASE x5 = Vnc
    BY <1>0, <1>5, <2>1, ShellNoted, ShellAssumption DEF Shell!VncMessage
  <2>2. CASE x5 # Vnc
    BY <1>0, <1>5, <2>2 DEF Shell!VncMessage, Shell!IndInv, Shell!TypeOK, Shell!HistoryIsFlat, Shell!AddressIsShown
  <2> QED
    BY <2>1, <2>2
<1>6. CASE Shell!Reload
  BY <1>0, <1>6, ShellLoads DEF Shell!Reload
<1>7. CASE Shell!BackLands \/ Shell!Back
  <2>1. Shell!BackFrom(x3) /\ x4' \in Nat /\ (x4' = x4 \/ x4 > 0)
    BY <1>0, <1>7 DEF Shell!BackLands, Shell!Back
  <2> QED
    BY <2>1, ShellBack
<1>8. CASE Shell!Forward
  <2>1. Shell!Traverse(x3 + 1) /\ x3 < Len(x2) /\ x4' = x4
    BY <1>8 DEF Shell!Forward
  <2>2. x3 + 1 \in 1..Len(x2) /\ x3 + 1 # x3 /\ x4' \in Nat
    BY <1>0, <2>1
  <2> QED
    BY <2>1, <2>2, ShellTraverses
<1>10. CASE Shell!GateTurns
  BY <1>0, <1>10, ShellStill DEF Shell!GateTurns, Shell!address, Shell!content
<1> QED
  BY <1>1, <1>2, <1>3, <1>4, <1>5, <1>6, <1>7, <1>8, <1>10 DEF Shell!Next

-----------------------------------------------------------------------------
(* The extension: ExtensionHost.                                           *)

\* A view that nothing happens to.
Untouched(v) ==
    /\ x1'[v] = x1[v] /\ x2'[v] = x2[v] /\ x3'[v] = x3[v]
    /\ v \in Slot => x4'[v] = x4[v] /\ x5'[v] = x5[v]

\* What is so of a view stays so when nothing happens to it.
LEMMA ExtensionUntouched ==
    ASSUME Extension!Sound, NEW v \in Extension!View, Untouched(v)
    PROVE  Extension!SaidLast(v)' /\ (v \in Slot => Extension!SlotIsSound(v)') /\ Extension!Claim(v)' = Extension!Claim(v)
BY DEF Untouched, Extension!Sound, Extension!SaidLast, Extension!SlotIsSound, Extension!Claim, Extension!Open, Extension!Leaving

\* One view is touched; what it is for is not what another is for.
LEMMA ExtensionTouched ==
    ASSUME Extension!Sound, Extension!StateOK', NEW v \in Extension!View, \A w \in Extension!View \ {v} : Untouched(w),
           Extension!SaidLast(v)', v \in Slot => Extension!SlotIsSound(v)',
           Extension!Claim(v)' \in Thing => \A w \in Extension!View \ {v} : Extension!Claim(w) # Extension!Claim(v)'
    PROVE  Extension!Sound'
<1>1. \A w \in Extension!View : Extension!SaidLast(w)' /\ (w \in Slot => Extension!SlotIsSound(w)')
  BY ExtensionUntouched
<1>2. \A w \in Extension!View \ {v} : Extension!Claim(w)' = Extension!Claim(w)
  BY ExtensionUntouched
<1>3. Extension!ClaimedOnce'
  BY <1>2 DEF Extension!ClaimedOnce, Extension!Sound
<1>4. Slot \subseteq Extension!View
  BY DEF Extension!View
<1> QED
  BY <1>1, <1>3, <1>4 DEF Extension!Sound

\* Two views are touched: what one is for passes to the other.
LEMMA ExtensionMoved ==
    ASSUME Extension!Sound, Extension!StateOK', NEW a \in Extension!View, NEW b \in Extension!View \ {a},
           \A w \in Extension!View \ {a, b} : Untouched(w),
           Extension!SaidLast(a)', a \in Slot => Extension!SlotIsSound(a)',
           Extension!SaidLast(b)', b \in Slot => Extension!SlotIsSound(b)',
           Extension!Claim(b)' = Extension!Claim(a), Extension!Claim(a)' \notin Thing
    PROVE  Extension!Sound'
<1>1. \A w \in Extension!View : Extension!SaidLast(w)' /\ (w \in Slot => Extension!SlotIsSound(w)')
  BY ExtensionUntouched
<1>2. \A w \in Extension!View \ {a, b} : Extension!Claim(w)' = Extension!Claim(w)
  BY ExtensionUntouched
<1>3. Extension!ClaimedOnce'
  BY <1>2 DEF Extension!ClaimedOnce, Extension!Sound
<1>4. Slot \subseteq Extension!View
  BY DEF Extension!View
<1> QED
  BY <1>1, <1>3, <1>4 DEF Extension!Sound

\* What is said last.
LEMMA ExtensionSays ==
    ASSUME NEW r \in Seq(Extension!State), NEW s \in Extension!State, NEW q, q = Append(r, s)
    PROVE  /\ q \in Seq(Extension!State) /\ q # << >> /\ q[Len(q)] = s
           /\ Len(r) \in Nat /\ DOMAIN r = 1..Len(r) /\ DOMAIN q = 1..Len(r) + 1 /\ Len(q) = Len(r) + 1
           /\ \A k \in 1..Len(r) : q[k] = r[k]
<1>1. /\ q \in Seq(Extension!State) /\ q # << >> /\ Len(q) = Len(r) + 1 /\ q[Len(r) + 1] = s
      /\ \A k \in 1..Len(r) : q[k] = r[k]
  BY AppendProperties
<1> QED
  BY <1>1, LenProperties

\* And what is said if all say so.
LEMMA ExtensionAllSay ==
    ASSUME NEW r \in Seq(Extension!State), NEW s \in Extension!State, NEW q, q = Append(r, s), \A k \in DOMAIN r : r[k] = s
    PROVE  q \in Seq(Extension!State) /\ q # << >> /\ q[Len(q)] = s /\ \A k \in DOMAIN q : q[k] = s
<1>1. /\ q \in Seq(Extension!State) /\ q # << >> /\ q[Len(q)] = s
      /\ Len(r) \in Nat /\ DOMAIN r = 1..Len(r) /\ DOMAIN q = 1..Len(r) + 1 /\ Len(q) = Len(r) + 1
      /\ \A k \in 1..Len(r) : q[k] = r[k]
  BY ExtensionSays
<1>2. ASSUME NEW k \in DOMAIN q PROVE q[k] = s
  <2>1. k \in 1..Len(r) \/ k = Len(q)
    BY <1>1
  <2> QED
    BY <1>1, <2>1
<1> QED
  BY <1>1, <1>2

\* The places before the last, and before one of them.
LEMMA ExtensionBefore ==
    ASSUME NEW n \in Nat, NEW k \in 1..n - 1
    PROVE  \A j \in 1..k : j \in 1..n - 1 /\ j + 1 \in 1..k + 1
OBVIOUS

\* The host hears the oldest report of a view.
LEMMA ExtensionHears ==
    ASSUME NEW r \in Seq(Extension!State), r # << >>, NEW q, q = Tail(r)
    PROVE  /\ q \in Seq(Extension!State) /\ Head(r) = r[1] /\ r[1] \in Extension!State
           /\ Len(r) \in Nat \ {0} /\ Len(q) = Len(r) - 1 /\ DOMAIN r = 1..Len(r) /\ DOMAIN q = 1..Len(r) - 1
           /\ \A k \in 1..Len(r) - 1 : q[k] = r[k + 1]
           /\ q = << >> => Len(r) = 1
           /\ q # << >> => q[Len(q)] = r[Len(r)]
<1>1. /\ q \in Seq(Extension!State) /\ Len(q) = Len(r) - 1 /\ \A k \in 1..Len(q) : q[k] = r[k + 1]
      /\ Len(r) \in Nat \ {0}
  BY HeadTailProperties, EmptySeq
<1>2. DOMAIN r = 1..Len(r) /\ DOMAIN q = 1..Len(r) - 1
  BY <1>1, LenProperties
<1>3. r[1] \in Extension!State
  BY <1>1, ElementOfSeq
<1>4. q = << >> => Len(q) = 0
  BY EmptySeq
<1>5. q # << >> => Len(q) \in Nat \ {0}
  BY <1>1, EmptySeq
<1>6. Head(r) = r[1]
  OBVIOUS
<1> QED
  BY <1>1, <1>2, <1>3, <1>4, <1>5, <1>6

\* The types of a view and a slot.
LEMMA ExtensionTypes ==
    ASSUME Extension!StateOK
    PROVE  /\ \A v \in Extension!View : x1[v] \in Extension!State \cup {None} /\ x2[v] \in Extension!State \cup {None} /\ x3[v] \in Seq(Extension!State)
           /\ \A x \in Slot : x \in Extension!View /\ x4[x] \in Extension!State \cup {None} /\ x5[x] \in Thing \cup {None}
           /\ Thing \subseteq Extension!State /\ Home \in Extension!State /\ None \notin Extension!State /\ Home \notin Thing /\ None \notin Thing
           /\ PanelId \subseteq Extension!View /\ None \notin Extension!View
BY ExtensionAssumption DEF Extension!StateOK, Extension!View, Extension!State

\* A slot is bound to what its page is to show.
LEMMA ExtensionBinds ==
    ASSUME Extension!Sound, NEW x \in Slot, NEW i \in Thing,
           x1'[x] = i, x2'[x] = i, x3'[x] = Append(x3[x], i), x4'[x] = None, x5'[x] = i
    PROVE  Extension!SaidLast(x)' /\ Extension!SlotIsSound(x)' /\ Extension!Claim(x)' = i
<1>1. x3[x] \in Seq(Extension!State) /\ i \in Extension!State /\ i # None /\ i # Home
  BY ExtensionTypes DEF Extension!Sound
<1>2. x3'[x] # << >> /\ x3'[x][Len(x3'[x])] = i
  BY <1>1, ExtensionSays
<1> QED
  BY <1>1, <1>2 DEF Extension!SaidLast, Extension!SlotIsSound, Extension!Claim, Extension!Open, Extension!Leaving

\* A panel's page says what it shows.
LEMMA ExtensionPanelSays ==
    ASSUME Extension!Sound, NEW p \in PanelId, NEW h \in Extension!State, NEW s \in Extension!State,
           x1'[p] = h, x2'[p] = s, x3'[p] = Append(x3[p], s)
    PROVE  Extension!SaidLast(p)' /\ p \notin Slot /\ Extension!Claim(p)' = s
<1>1. x3[p] \in Seq(Extension!State) /\ p \notin Slot /\ h # None
  BY ExtensionTypes, ExtensionAssumption DEF Extension!Sound, Extension!View
<1>2. x3'[p] # << >> /\ x3'[p][Len(x3'[p])] = s
  <2>1. x3[p] \in Seq(Extension!State)
    BY <1>1
  <2> QED
    BY <2>1, ExtensionSays
<1> QED
  BY <1>1, <1>2 DEF Extension!SaidLast, Extension!Claim, Extension!Open

\* A view without a host has nothing on its way.
LEMMA ExtensionShut ==
    ASSUME Extension!Sound, NEW v \in Extension!View, ~Extension!Open(v), NEW s \in Extension!State
    PROVE  x3[v] = << >> /\ <<s>> = Append(x3[v], s) /\ (v \in Slot => x4[v] = None /\ Extension!Claim(v) = x5[v])
BY DEF Extension!Sound, Extension!SaidLast, Extension!SlotIsSound, Extension!Claim

\* Nobody is for what nobody is found to show or has yet to say.
LEMMA ExtensionUnfound ==
    ASSUME Extension!Sound, NEW i \in Thing, NEW v, Extension!FindHostFor(i, v) = {}, ~Extension!Unsaid(i, v)
    PROVE  \A w \in Extension!View \ {v} : Extension!Claim(w) # i
<1>1. i # Home /\ i # None
  BY ExtensionTypes DEF Extension!Sound
<1>2. \A w \in Extension!View \ {v} : x1[w] # i
  BY <1>1 DEF Extension!FindHostFor
<1>3. \A w \in Slot \ {v} : ~Extension!Open(w) => x5[w] # i
  BY <1>1 DEF Extension!FindHostFor
<1>4. \A w \in Extension!View \ {v} : x2[w] # i
  BY <1>1, <1>2 DEF Extension!Unsaid
<1> QED
  BY <1>1, <1>3, <1>4 DEF Extension!Claim

\* What a page is taken for that is not behind is what it shows.
LEMMA ExtensionNotBehind ==
    ASSUME Extension!Sound, NEW v \in Extension!View, Extension!Open(v), ~Extension!Behind(v)
    PROVE  x1[v] = x2[v] /\ \A k \in DOMAIN x3[v] : x3[v][k] = x1[v]
<1>1. x3[v] \in Seq(Extension!State)
  BY ExtensionTypes DEF Extension!Sound
<1>2. x3[v] # << >> => Len(x3[v]) \in DOMAIN x3[v]
  BY <1>1, EmptySeq, LenProperties
<1>3. \A k \in DOMAIN x3[v] : x3[v][k] = x1[v]
  BY DEF Extension!Behind
<1> QED
  BY <1>2, <1>3 DEF Extension!Sound, Extension!SaidLast

\* A report is taken, or ignored by a slot that is about to go.
LEMMA ExtensionReport ==
    ASSUME Extension!Sound, NEW v \in Extension!View, Extension!Report(v) PROVE Extension!Sound'
<1> DEFINE s == Head(x3[v])
           late == v \in Slot /\ x4[v] # None /\ x4[v] = s
<1>1. /\ x3[v] \in Seq(Extension!State) /\ x3[v] # << >> /\ x2' = x2 /\ x3' = [x3 EXCEPT ![v] = Tail(x3[v])]
      /\ x3'[v] = Tail(x3[v]) /\ Extension!StateOK
  BY ExtensionTypes DEF Extension!Sound, Extension!Report, Extension!StateOK
<1>2. late => UNCHANGED <<x1, x4, x5>>
  BY DEF Extension!Report
<1>3. ~late => /\ x1' = [x1 EXCEPT ![v] = s]
               /\ x4' = (IF v \in Slot THEN [x4 EXCEPT ![v] = None] ELSE x4)
               /\ x5' = IF v \in Slot /\ s # Home THEN [x5 EXCEPT ![v] = s] ELSE x5
  BY DEF Extension!Report, Extension!Retitled
<1>4. /\ x3'[v] \in Seq(Extension!State) /\ s = x3[v][1] /\ s \in Extension!State
      /\ Len(x3[v]) \in Nat \ {0} /\ Len(x3'[v]) = Len(x3[v]) - 1 /\ DOMAIN x3[v] = 1..Len(x3[v]) /\ DOMAIN x3'[v] = 1..Len(x3[v]) - 1
      /\ \A k \in 1..Len(x3[v]) - 1 : x3'[v][k] = x3[v][k + 1]
      /\ x3'[v] = << >> => Len(x3[v]) = 1
      /\ x3'[v] # << >> => x3'[v][Len(x3'[v])] = x3[v][Len(x3[v])]
  BY <1>1, ExtensionHears
<1> HIDE DEF s
<1>5. \A w \in Extension!View \ {v} : Untouched(w)
  BY <1>1, <1>2, <1>3 DEF Untouched, Extension!StateOK, Extension!View
<1>6. Extension!Open(v) /\ x2[v] \in Extension!State /\ x3[v][Len(x3[v])] = x2[v]
  BY <1>1 DEF Extension!Sound, Extension!SaidLast
<1>7. /\ late => x1'[v] = x1[v] /\ (v \in Slot => x4'[v] = x4[v] /\ x5'[v] = x5[v])
      /\ ~late => x1'[v] = s /\ (v \in Slot => x4'[v] = None /\ x5'[v] = IF s = Home THEN x5[v] ELSE s)
  BY <1>1, <1>2, <1>3, <1>4, ExtensionTypes DEF Extension!StateOK
<1>8. Extension!StateOK'
  <2>1. x1' \in [Extension!View -> Extension!State \cup {None}]
    BY <1>1, <1>2, <1>3, <1>4 DEF Extension!StateOK
  <2>2. x3' \in [Extension!View -> Seq(Extension!State)]
    BY <1>1, <1>4 DEF Extension!StateOK
  <2>3. x4' \in [Slot -> Extension!State \cup {None}]
    BY <1>1, <1>2, <1>3 DEF Extension!StateOK
  <2>4. x5' \in [Slot -> Thing \cup {None}]
    BY <1>1, <1>2, <1>3, <1>4 DEF Extension!StateOK, Extension!State
  <2> QED
    BY <1>1, <2>1, <2>2, <2>3, <2>4 DEF Extension!StateOK
<1>9. /\ None \notin Extension!State /\ x2'[v] = x2[v] /\ Extension!Open(v)'
  BY <1>1, <1>4, <1>6, <1>7, ExtensionTypes DEF Extension!Open
<1>10. v \in Slot /\ Extension!Leaving(v) => late
  BY <1>4, <1>6 DEF Extension!Sound, Extension!SlotIsSound, Extension!Leaving
<1>11. v \in Slot /\ late /\ ~Extension!Leaving(v) => x2[v] = Home /\ s # Home /\ x3'[v] # << >>
  BY <1>4, <1>6 DEF Extension!Sound, Extension!SlotIsSound
<1>12. Extension!SaidLast(v)'
  <2>1. x3'[v] = << >> => x1'[v] = x2[v]
    BY <1>4, <1>6, <1>7, <1>10, <1>11 DEF Extension!Sound, Extension!SlotIsSound
  <2> QED
    BY <1>4, <1>6, <1>9, <2>1 DEF Extension!SaidLast
<1>13. v \in Slot => (Extension!Leaving(v)' <=> Extension!Leaving(v))
  BY <1>6, <1>7, <1>9, <1>10 DEF Extension!Leaving
<1>14. ASSUME v \in Slot PROVE Extension!SlotIsSound(v)'
  <2>1. Extension!SlotIsSound(v)
    BY <1>14 DEF Extension!Sound
  <2>2. CASE Extension!Leaving(v)
    <3>1. /\ late /\ x1'[v] = x1[v] /\ x4'[v] = x4[v] /\ x5'[v] = x5[v] /\ x2'[v] = x2[v] /\ Extension!Leaving(v)'
      BY <1>7, <1>9, <1>10, <1>13, <1>14, <2>2
    <3>2. \A k \in DOMAIN x3[v] : x3[v][k] = x4[v]
      BY <2>1, <2>2 DEF Extension!SlotIsSound
    <3>3. \A k \in DOMAIN x3'[v] : x3'[v][k] = x4[v]
      <4> TAKE k \in DOMAIN x3'[v]
      <4>1. k + 1 \in DOMAIN x3[v] /\ x3'[v][k] = x3[v][k + 1]
        BY <1>4
      <4> QED
        BY <3>2, <4>1
    <3>4. x2[v] = x4[v] /\ x1[v] = x4[v] /\ x4[v] # Home /\ x5[v] = None /\ x4[v] # None
      BY <2>1, <2>2 DEF Extension!SlotIsSound, Extension!Leaving
    <3> QED
      BY <1>9, <3>1, <3>3, <3>4 DEF Extension!SlotIsSound
  <2>3. CASE ~Extension!Leaving(v) /\ late
    <3>1. x2[v] = Home /\ s # Home /\ x3'[v] # << >> /\ x4'[v] = x4[v] /\ x1'[v] = x1[v] /\ x5'[v] = x5[v] /\ x4[v] # None
      BY <1>7, <1>11, <1>14, <2>3
    <3>2. \A k \in DOMAIN x3'[v] : x3'[v][k] # Home => x3'[v][k] = x4[v] /\ \A j \in 1..k : x3'[v][j] # Home
      <4> SUFFICES ASSUME NEW k \in DOMAIN x3'[v], x3'[v][k] # Home PROVE x3'[v][k] = x4[v] /\ \A j \in 1..k : x3'[v][j] # Home
        OBVIOUS
      <4>1. k \in 1..Len(x3[v]) - 1 /\ k + 1 \in DOMAIN x3[v] /\ x3'[v][k] = x3[v][k + 1]
        BY <1>4
      <4>2. x3[v][k + 1] = x4[v] /\ \A j \in 1..k + 1 : x3[v][j] # Home
        BY <1>6, <2>1, <3>1, <4>1 DEF Extension!SlotIsSound
      <4>3. \A j \in 1..k : j \in 1..Len(x3[v]) - 1 /\ j + 1 \in 1..k + 1
        <5>1. Len(x3[v]) \in Nat /\ k \in 1..Len(x3[v]) - 1
          BY <1>4, <4>1
        <5> QED
          BY <5>1, ExtensionBefore
      <4> QED
        BY <1>4, <4>1, <4>2, <4>3
    <3> QED
      BY <1>6, <1>9, <1>13, <2>1, <2>3, <3>1, <3>2 DEF Extension!SlotIsSound
  <2>4. CASE ~Extension!Leaving(v) /\ ~late
    <3>1. x1'[v] = s /\ x4'[v] = None /\ x5'[v] = IF s = Home THEN x5[v] ELSE s
      BY <1>7, <1>14, <2>4
    <3>2. CASE x2[v] = Home
      <4>1. \A k \in DOMAIN x3[v] : x3[v][k] # Home => x3[v][k] = x4[v] /\ \A j \in 1..k : x3[v][j] # Home
        BY <1>6, <2>1, <3>2 DEF Extension!SlotIsSound
      <4>2. 1 \in DOMAIN x3[v]
        BY <1>4
      <4>3. s = Home
        BY <1>4, <1>9, <1>14, <2>4, <4>1, <4>2
      <4>4. \A k \in DOMAIN x3'[v] : x3'[v][k] = Home
        <5> TAKE k \in DOMAIN x3'[v]
        <5>1. k \in 1..Len(x3[v]) - 1 /\ k + 1 \in DOMAIN x3[v] /\ 1 \in 1..k + 1
          BY <1>4
        <5> QED
          BY <1>4, <4>1, <4>3, <5>1
      <4> QED
        <5>1. x1'[v] = Home /\ x2'[v] = Home /\ x4'[v] = None /\ ~Extension!Leaving(v)'
          BY <1>9, <1>13, <1>14, <2>4, <3>1, <3>2, <4>3
        <5>2. x5'[v] = None
          BY <1>6, <2>1, <3>1, <3>2, <4>3 DEF Extension!SlotIsSound
        <5> QED
          BY <4>4, <5>1, <5>2 DEF Extension!SlotIsSound
    <3>3. CASE x2[v] # Home
      <4>1. x3'[v] = << >> => s = x2[v]
        BY <1>4, <1>6
      <4> QED
        <5>1. x2'[v] # Home /\ x4'[v] = None /\ ~Extension!Leaving(v)'
          BY <1>9, <1>13, <1>14, <2>4, <3>1, <3>3
        <5>2. x3'[v] = << >> => x5'[v] = x2'[v]
          BY <1>9, <3>1, <3>3, <4>1
        <5> QED
          BY <5>1, <5>2 DEF Extension!SlotIsSound
    <3> QED
      BY <3>2, <3>3
  <2> QED
    BY <2>2, <2>3, <2>4
<1>15. Extension!Claim(v)' = Extension!Claim(v)
  BY <1>6, <1>9, <1>13 DEF Extension!Claim
<1>16. Extension!Claim(v)' \in Thing => \A w \in Extension!View \ {v} : Extension!Claim(w) # Extension!Claim(v)'
  BY <1>15 DEF Extension!Sound, Extension!ClaimedOnce
<1> QED
  BY <1>5, <1>8, <1>12, <1>14, <1>16, ExtensionTouched

\* A slot that was closed is taken off the screen, or shows home.
LEMMA ExtensionSlotGoes ==
    ASSUME Extension!Sound, NEW x \in Slot, Extension!SlotGoes(x) PROVE Extension!Sound'
<1>1. /\ Extension!StateOK /\ x \in Extension!View /\ x5[x] = None /\ None \notin Thing
  BY ExtensionTypes DEF Extension!Sound, Extension!SlotIsSound, Extension!SlotGoes
<1>2. /\ x1' = [x1 EXCEPT ![x] = None] /\ x2' = [x2 EXCEPT ![x] = None] /\ x3' = [x3 EXCEPT ![x] = << >>]
      /\ x4' = [x4 EXCEPT ![x] = None] /\ x5' = x5
  BY DEF Extension!SlotGoes, Extension!Detached
<1>3. /\ \A w \in Extension!View \ {x} : Untouched(w)
      /\ x1'[x] = None /\ x2'[x] = None /\ x3'[x] = << >> /\ x4'[x] = None /\ x5'[x] = None
  BY <1>1, <1>2 DEF Untouched, Extension!StateOK
<1>4. Extension!StateOK'
  BY <1>1, <1>2 DEF Extension!StateOK
<1>5. Extension!SaidLast(x)' /\ Extension!SlotIsSound(x)' /\ Extension!Claim(x)' \notin Thing
  BY <1>1, <1>3 DEF Extension!SaidLast, Extension!SlotIsSound, Extension!Claim, Extension!Open, Extension!Leaving
<1> QED
  BY <1>1, <1>3, <1>4, <1>5, ExtensionTouched

\* The page of a view is loaded again.
LEMMA ExtensionReload ==
    ASSUME Extension!Sound, NEW v \in Extension!View, Extension!Reload(v), ~Extension!Behind(v) PROVE Extension!Sound'
<1>1. /\ Extension!StateOK /\ Extension!Open(v) /\ x1[v] \in Extension!State /\ x3[v] \in Seq(Extension!State)
      /\ x1[v] = x2[v] /\ \A k \in DOMAIN x3[v] : x3[v][k] = x1[v]
  BY ExtensionTypes, ExtensionNotBehind DEF Extension!Sound, Extension!Reload, Extension!Open
<1>2. /\ x1' = [x1 EXCEPT ![v] = x1[v]] /\ x2' = [x2 EXCEPT ![v] = x1[v]] /\ x3' = [x3 EXCEPT ![v] = Append(x3[v], x1[v])]
      /\ x4' = x4 /\ x5' = x5
  BY DEF Extension!Reload, Extension!NavigateHost, Extension!Retitled, Extension!Reported, Extension!stored
<1>3. /\ \A w \in Extension!View \ {v} : Untouched(w)
      /\ x1'[v] = x1[v] /\ x2'[v] = x1[v] /\ x3'[v] = Append(x3[v], x1[v])
  BY <1>1, <1>2 DEF Untouched, Extension!StateOK
<1>4. /\ x3'[v] \in Seq(Extension!State) /\ x3'[v] # << >> /\ x3'[v][Len(x3'[v])] = x1[v]
      /\ \A k \in DOMAIN x3'[v] : x3'[v][k] = x1[v]
  <2>1. /\ x3[v] \in Seq(Extension!State) /\ x1[v] \in Extension!State /\ x3'[v] = Append(x3[v], x1[v])
        /\ \A k \in DOMAIN x3[v] : x3[v][k] = x1[v]
    BY <1>1, <1>3
  <2> QED
    BY <2>1, ExtensionAllSay
<1>5. Extension!StateOK'
  BY <1>1, <1>2, <1>3, <1>4 DEF Extension!StateOK
<1>6. Extension!SaidLast(v)' /\ Extension!Claim(v)' = Extension!Claim(v) /\ Extension!Open(v)'
  BY <1>1, <1>2, <1>3, <1>4 DEF Extension!SaidLast, Extension!Claim, Extension!Open, Extension!Leaving
<1>7. v \in Slot => Extension!SlotIsSound(v)'
  <2> SUFFICES ASSUME v \in Slot PROVE Extension!SlotIsSound(v)'
    OBVIOUS
  <2>1. Extension!SlotIsSound(v) /\ (Extension!Leaving(v)' <=> Extension!Leaving(v))
    BY <1>1, <1>2, <1>3, <1>6 DEF Extension!Sound, Extension!Leaving, Extension!Open
  <2> QED
    BY <1>1, <1>2, <1>3, <1>4, <1>6, <2>1 DEF Extension!SlotIsSound
<1>8. Extension!Claim(v)' \in Thing => \A w \in Extension!View \ {v} : Extension!Claim(w) # Extension!Claim(v)'
  BY <1>6 DEF Extension!Sound, Extension!ClaimedOnce
<1> QED
  BY <1>3, <1>5, <1>6, <1>7, <1>8, ExtensionTouched

\* A panel is disposed of.
LEMMA ExtensionDetached ==
    ASSUME Extension!Sound, NEW p \in PanelId, Extension!Detached(p), UNCHANGED <<x4, x5>> PROVE Extension!Sound'
<1>1. /\ Extension!StateOK /\ p \in Extension!View /\ p \notin Slot /\ None \notin Thing
  BY ExtensionTypes, ExtensionAssumption DEF Extension!Sound
<1>2. /\ x1' = [x1 EXCEPT ![p] = None] /\ x2' = [x2 EXCEPT ![p] = None] /\ x3' = [x3 EXCEPT ![p] = << >>]
  BY DEF Extension!Detached
<1>3. /\ \A w \in Extension!View \ {p} : Untouched(w)
      /\ x1'[p] = None /\ x2'[p] = None /\ x3'[p] = << >>
  BY <1>1, <1>2 DEF Untouched, Extension!StateOK
<1>4. Extension!StateOK'
  BY <1>1, <1>2 DEF Extension!StateOK
<1>5. Extension!SaidLast(p)' /\ Extension!Claim(p)' \notin Thing
  BY <1>1, <1>3 DEF Extension!SaidLast, Extension!Claim, Extension!Open
<1> QED
  BY <1>1, <1>3, <1>4, <1>5, ExtensionTouched

\* What is bound and shown when a slot is closed.
LEMMA ExtensionBoundSlot ==
    ASSUME Extension!Sound, NEW x \in Slot, Extension!Open(x), x5[x] # None, ~Extension!Behind(x)
    PROVE  /\ x \in Extension!View /\ ~Extension!Leaving(x) /\ x4[x] = None /\ x1[x] \in Extension!State /\ x1[x] = x2[x] /\ x1[x] # Home
           /\ Extension!Claim(x) = x1[x] /\ \A k \in DOMAIN x3[x] : x3[x][k] = x1[x]
<1>1. x \in Extension!View /\ x1[x] \in Extension!State /\ x1[x] = x2[x] /\ \A k \in DOMAIN x3[x] : x3[x][k] = x1[x]
  BY ExtensionTypes, ExtensionNotBehind DEF Extension!Sound, Extension!Open
<1> QED
  BY <1>1 DEF Extension!Sound, Extension!SlotIsSound, Extension!Claim

\* A slot is left with what closeSlot and moveToEditor leave of it.
LEMMA ExtensionLeft ==
    ASSUME Extension!Sound, NEW x \in Slot, Extension!Open(x), x5[x] # None, ~Extension!Behind(x),
           x1'[x] = IF x = FirstSlot THEN Home ELSE x1[x],
           x2'[x] = IF x = FirstSlot THEN Home ELSE x2[x],
           x3'[x] = IF x = FirstSlot THEN Append(x3[x], Home) ELSE x3[x],
           x4'[x] = x1[x], x5'[x] = None
    PROVE  Extension!SaidLast(x)' /\ Extension!SlotIsSound(x)' /\ Extension!Claim(x)' \notin Thing
<1>1. /\ x3[x] \in Seq(Extension!State) /\ Home \in Extension!State /\ None \notin Extension!State /\ None \notin Thing /\ Home \notin Thing
  BY ExtensionTypes DEF Extension!Sound
<1>2. /\ ~Extension!Leaving(x) /\ x4[x] = None /\ x1[x] \in Extension!State /\ x1[x] = x2[x] /\ x1[x] # Home
      /\ \A k \in DOMAIN x3[x] : x3[x][k] = x1[x]
  BY ExtensionBoundSlot
<1>3. CASE x = FirstSlot
  <2>1. /\ x3'[x] # << >> /\ x3'[x][Len(x3'[x])] = Home /\ Len(x3[x]) \in Nat /\ DOMAIN x3[x] = 1..Len(x3[x]) /\ DOMAIN x3'[x] = 1..Len(x3[x]) + 1
        /\ Len(x3'[x]) = Len(x3[x]) + 1 /\ \A k \in 1..Len(x3[x]) : x3'[x][k] = x3[x][k]
    <3>1. x3[x] \in Seq(Extension!State) /\ Home \in Extension!State /\ x3'[x] = Append(x3[x], Home)
      BY <1>1, <1>3
    <3> QED
      BY <3>1, ExtensionSays
  <2>2. \A k \in DOMAIN x3'[x] : x3'[x][k] # Home => k \in 1..Len(x3[x])
    BY <2>1
  <2>3. \A k \in 1..Len(x3[x]) : x3'[x][k] = x1[x] /\ \A j \in 1..k : j \in 1..Len(x3[x])
    BY <1>2, <2>1
  <2>4. ~Extension!Leaving(x)'
    BY <1>3 DEF Extension!Leaving
  <2> QED
    BY <1>1, <1>2, <1>3, <2>1, <2>2, <2>3, <2>4 DEF Extension!SaidLast, Extension!SlotIsSound, Extension!Claim, Extension!Open
<1>4. CASE x # FirstSlot
  <2>1. Extension!Leaving(x)' /\ Extension!SaidLast(x)
    <3>1. x1'[x] = x1[x] /\ x4'[x] = x1[x] /\ x1[x] # None /\ x \in Extension!View
      BY <1>1, <1>2, <1>4 DEF Extension!View
    <3> QED
      BY <1>4, <3>1 DEF Extension!Leaving, Extension!Open, Extension!Sound
  <2> QED
    BY <1>1, <1>2, <1>4, <2>1 DEF Extension!SaidLast, Extension!SlotIsSound, Extension!Claim, Extension!Open
<1> QED
  BY <1>3, <1>4

\* A view is closed.
LEMMA ExtensionCloseView ==
    ASSUME Extension!Sound, NEW v \in Extension!View, Extension!CloseView(v), ~x8, ~x8' PROVE Extension!Sound'
<1>1. CASE v \in PanelId
  BY <1>1, ExtensionDetached DEF Extension!CloseView
<1>2. CASE v \notin PanelId
  <2>1. v \in Slot /\ Extension!Open(v) /\ x5[v] # None /\ Extension!CloseSlot(v) /\ Extension!StateOK
    BY <1>2 DEF Extension!CloseView, Extension!View, Extension!Sound
  <2>2. ~Extension!Behind(v)
    BY <2>1 DEF Extension!CloseSlot
  <2>3. /\ x5' = [x5 EXCEPT ![v] = None] /\ x4' = [x4 EXCEPT ![v] = x1[v]]
        /\ v = FirstSlot => /\ x1' = [x1 EXCEPT ![v] = Home] /\ x2' = [x2 EXCEPT ![v] = Home]
                            /\ x3' = [x3 EXCEPT ![v] = Append(x3[v], Home)]
        /\ v # FirstSlot => UNCHANGED <<x1, x2, x3>>
    BY <2>1 DEF Extension!CloseSlot, Extension!NavigateHost, Extension!Retitled, Extension!Reported
  <2>4. /\ \A w \in Extension!View \ {v} : Untouched(w)
        /\ x1'[v] = IF v = FirstSlot THEN Home ELSE x1[v]
        /\ x2'[v] = IF v = FirstSlot THEN Home ELSE x2[v]
        /\ x3'[v] = IF v = FirstSlot THEN Append(x3[v], Home) ELSE x3[v]
        /\ x4'[v] = x1[v] /\ x5'[v] = None
    BY <2>1, <2>3 DEF Untouched, Extension!StateOK
  <2>5. Extension!SaidLast(v)' /\ Extension!SlotIsSound(v)' /\ Extension!Claim(v)' \notin Thing
    BY <2>1, <2>2, <2>4, ExtensionLeft
  <2>6. /\ x1[v] \in Extension!State /\ Home \in Extension!State /\ x3[v] \in Seq(Extension!State)
        /\ Append(x3[v], Home) \in Seq(Extension!State)
    BY <2>1, <2>2, ExtensionBoundSlot, ExtensionTypes, ExtensionSays
  <2>7. Extension!StateOK'
    BY ZenonT(60), <2>1, <2>3, <2>6 DEF Extension!StateOK
  <2> QED
    BY <2>4, <2>5, <2>7, ExtensionTouched
<1> QED
  BY <1>1, <1>2

\* Another thing is in the page of a view that nothing is closed in.
LEMMA ExtensionPages ==
    ASSUME Extension!Sound, NEW v \in Extension!View, NEW i \in Thing, Extension!Open(v), v \in Slot => x4[v] = None,
           x1' = x1 \/ x1' = [x1 EXCEPT ![v] = i],
           x2' = [x2 EXCEPT ![v] = i], x3' = [x3 EXCEPT ![v] = Append(x3[v], i)], UNCHANGED <<x4, x5>>,
           \A w \in Extension!View \ {v} : Extension!Claim(w) # i
    PROVE  Extension!Sound'
<1>1. /\ Extension!StateOK /\ x3[v] \in Seq(Extension!State) /\ i \in Extension!State /\ i # Home /\ i # None
  BY ExtensionTypes DEF Extension!Sound
<1>2. Extension!Open(v)' /\ x2'[v] = i /\ x3'[v] = Append(x3[v], i) /\ \A w \in Extension!View \ {v} : Untouched(w)
  BY <1>1 DEF Untouched, Extension!StateOK, Extension!Open
<1>3. x3'[v] \in Seq(Extension!State) /\ x3'[v] # << >> /\ x3'[v][Len(x3'[v])] = i
  BY <1>1, <1>2, ExtensionSays
<1>4. Extension!StateOK'
  BY <1>1, <1>2, <1>3 DEF Extension!StateOK
<1>5. Extension!SaidLast(v)' /\ Extension!Claim(v)' = i /\ (v \in Slot => Extension!SlotIsSound(v)')
  BY <1>1, <1>2, <1>3 DEF Extension!SaidLast, Extension!Claim, Extension!SlotIsSound, Extension!Leaving
<1> QED
  BY <1>2, <1>4, <1>5, ExtensionTouched

\* A page shows another thing.
LEMMA ExtensionPageMoves ==
    ASSUME Extension!Sound, NEW v \in Extension!View, NEW i \in Thing, Extension!PageMoves(v, i), ~x8, ~x8' PROVE Extension!Sound'
<1>1. v \in Slot => x4[v] = None
  BY DEF Extension!PageMoves
<1>2. \A w \in Extension!View \ {v} : Extension!Claim(w) # i
  BY DEF Extension!PageMoves, Extension!Taken
<1> QED
  BY <1>1, <1>2, ExtensionPages DEF Extension!PageMoves, Extension!Reported, Extension!stored

\* With nothing on its way, no slot is closed.
LEMMA ExtensionQuiet ==
    ASSUME Extension!Sound, Extension!Quiet
    PROVE  /\ \A x \in Slot : x4[x] = None
           /\ \A v \in Extension!View : x3[v] = << >> /\ (Extension!Open(v) => x1[v] = x2[v])
BY ExtensionTypes DEF Extension!Quiet, Extension!Sound, Extension!SlotIsSound, Extension!SaidLast

\* A page whose reports have arrived is for nothing that is closed.
LEMMA ExtensionHeard ==
    ASSUME Extension!Sound, NEW v \in Slot, x3[v] = << >>, ~Extension!Leaving(v)
    PROVE  x4[v] = None
BY DEF Extension!Sound, Extension!SlotIsSound

\* A page opens a session of its Home.
LEMMA ExtensionOpenSession ==
    ASSUME Extension!Sound, NEW v \in Extension!View, NEW i \in Thing, Extension!OpenSessionInView(v, i), ~x8, ~x8' PROVE Extension!Sound'
<1>1. ~Extension!Unsaid(i, v) /\ Extension!FindHostFor(i, v) = {} /\ x2[v] = Home /\ x3[v] = << >>
  BY DEF Extension!OpenSessionInView
<1>2. \A w \in Extension!View \ {v} : Extension!Claim(w) # i
  BY <1>1, ExtensionUnfound
<1>3. v \in Slot => x4[v] = None
  BY <1>1, ExtensionHeard DEF Extension!Sound, Extension!SlotIsSound
<1> QED
  BY <1>2, <1>3, ExtensionPages DEF Extension!OpenSessionInView, Extension!Reported

\* And a new one is shown in it.
LEMMA ExtensionNewSession ==
    ASSUME Extension!Sound, NEW v \in Extension!View, NEW i \in Thing, Extension!NewSessionInView(v, i), ~x8, ~x8' PROVE Extension!Sound'
<1>1. \A w \in Extension!View \ {v} : Extension!Claim(w) # i
  BY DEF Extension!NewSessionInView, Extension!Taken
<1>2. /\ x1' = [x1 EXCEPT ![v] = i] /\ x2' = [x2 EXCEPT ![v] = i] /\ x3' = [x3 EXCEPT ![v] = Append(x3[v], i)] /\ UNCHANGED <<x4, x5>>
      /\ Extension!Open(v) /\ (v \in Slot => x4[v] = None)
  BY DEF Extension!NewSessionInView, Extension!NavigateHost, Extension!Retitled, Extension!Reported
<1> QED
  BY <1>1, <1>2, ExtensionPages

\* A slot is bound to what no other view is for.
LEMMA ExtensionBindSlot ==
    ASSUME Extension!Sound, NEW x \in Slot, NEW i \in Thing, Extension!BindSlot(x, i),
           \A w \in Extension!View \ {x} : Extension!Claim(w) # i
    PROVE  Extension!Sound'
<1>1. /\ Extension!StateOK /\ x \in Extension!View /\ x3[x] \in Seq(Extension!State) /\ i \in Extension!State
  BY ExtensionTypes DEF Extension!Sound
<1>2. ~Extension!Open(x) => <<i>> = Append(x3[x], i) /\ x4[x] = None
  BY <1>1, ExtensionShut
<1>3. /\ x1' = [x1 EXCEPT ![x] = i] /\ x2' = [x2 EXCEPT ![x] = i] /\ x3' = [x3 EXCEPT ![x] = Append(x3[x], i)]
      /\ x5' = [x5 EXCEPT ![x] = i] /\ (x4' = [x4 EXCEPT ![x] = None] \/ (x4' = x4 /\ x4[x] = None))
  BY <1>2 DEF Extension!BindSlot, Extension!NavigateHost, Extension!Attach, Extension!Retitled, Extension!Reported
<1>4. /\ \A w \in Extension!View \ {x} : Untouched(w)
      /\ x1'[x] = i /\ x2'[x] = i /\ x3'[x] = Append(x3[x], i) /\ x4'[x] = None /\ x5'[x] = i
  BY <1>1, <1>3 DEF Untouched, Extension!StateOK
<1>5. Extension!StateOK'
  <2>1. Append(x3[x], i) \in Seq(Extension!State)
    BY <1>1, ExtensionSays
  <2> QED
    BY <1>1, <1>3, <2>1 DEF Extension!StateOK
<1>6. Extension!SaidLast(x)' /\ Extension!SlotIsSound(x)' /\ Extension!Claim(x)' = i
  BY <1>4, ExtensionBinds
<1> QED
  BY <1>1, <1>4, <1>5, <1>6, ExtensionTouched

\* A panel's page is loaded with what no other view is for.
LEMMA ExtensionPanelShows ==
    ASSUME Extension!Sound, NEW p \in PanelId, NEW s \in Extension!State,
           x1' = [x1 EXCEPT ![p] = s], x2' = [x2 EXCEPT ![p] = s], x3' = [x3 EXCEPT ![p] = Append(x3[p], s)], UNCHANGED <<x4, x5>>,
           s \in Thing => \A w \in Extension!View \ {p} : Extension!Claim(w) # s
    PROVE  Extension!Sound'
<1>1. /\ Extension!StateOK /\ p \in Extension!View /\ x3[p] \in Seq(Extension!State)
  BY ExtensionTypes DEF Extension!Sound
<1>2. /\ \A w \in Extension!View \ {p} : Untouched(w)
      /\ x1'[p] = s /\ x2'[p] = s /\ x3'[p] = Append(x3[p], s)
  BY <1>1 DEF Untouched, Extension!StateOK
<1>3. Extension!StateOK'
  <2>1. Append(x3[p], s) \in Seq(Extension!State)
    BY <1>1, ExtensionSays
  <2> QED
    BY <1>1, <2>1 DEF Extension!StateOK
<1>4. Extension!SaidLast(p)' /\ p \notin Slot /\ Extension!Claim(p)' = s
  BY <1>2, ExtensionPanelSays
<1> QED
  BY <1>1, <1>2, <1>3, <1>4, ExtensionTouched

\* A panel is opened with what no other view is for.
LEMMA ExtensionAttachPanel ==
    ASSUME Extension!Sound, NEW p \in PanelId, NEW s \in Extension!State, Extension!Attach(p, s), UNCHANGED <<x4, x5>>,
           ~Extension!Open(p), s \in Thing => \A w \in Extension!View \ {p} : Extension!Claim(w) # s
    PROVE  Extension!Sound'
<1>1. p \in Extension!View
  BY ExtensionTypes DEF Extension!Sound
<1>2. <<s>> = Append(x3[p], s)
  BY <1>1, ExtensionShut
<1> QED
  BY <1>2, ExtensionPanelShows DEF Extension!Attach, Extension!Retitled

\* A page picks another session.
LEMMA ExtensionChange ==
    ASSUME Extension!Sound, NEW v \in Extension!View, NEW i \in Thing, Extension!ChangeSession(v, i), ~x8, ~x8' PROVE Extension!Sound'
<1>1. \A w \in Extension!View \ {v} : Extension!Claim(w) # i
  BY ExtensionUnfound DEF Extension!ChangeSession
<1>2. CASE v \in Slot
  BY <1>1, <1>2, ExtensionBindSlot DEF Extension!ChangeSession
<1>3. CASE v \notin Slot
  <2>1. v \in PanelId /\ i \in Extension!State
    BY <1>3, ExtensionTypes DEF Extension!View, Extension!Sound
  <2>2. Extension!NavigateHost(v, i) /\ UNCHANGED <<x4, x5>>
    BY <1>3 DEF Extension!ChangeSession
  <2> QED
    BY <1>1, <2>1, <2>2, ExtensionPanelShows DEF Extension!NavigateHost, Extension!Retitled, Extension!Reported
<1> QED
  BY <1>2, <1>3

\* A slot is put on the screen.
LEMMA ExtensionResolve ==
    ASSUME Extension!Sound, NEW x \in Slot, Extension!ResolveSlot(x) PROVE Extension!Sound'
<1> DEFINE s == IF x5[x] = None THEN Home ELSE x5[x]
<1>1. /\ Extension!StateOK /\ x \in Extension!View /\ x3[x] \in Seq(Extension!State) /\ s \in Extension!State /\ None \notin Extension!State
      /\ x5[x] \in Thing \cup {None} /\ Home \notin Thing /\ None \notin Thing
  BY ExtensionTypes DEF Extension!Sound
<1>2. x3[x] = << >> /\ <<s>> = Append(x3[x], s) /\ x4[x] = None /\ Extension!Claim(x) = x5[x]
  BY <1>1, ExtensionShut DEF Extension!ResolveSlot
<1>3. /\ x1' = [x1 EXCEPT ![x] = s] /\ x2' = [x2 EXCEPT ![x] = s] /\ x3' = [x3 EXCEPT ![x] = <<s>>] /\ UNCHANGED <<x4, x5>>
  BY DEF Extension!ResolveSlot, Extension!Attach, Extension!Retitled
<1> HIDE DEF s
<1>4. /\ \A w \in Extension!View \ {x} : Untouched(w)
      /\ x1'[x] = s /\ x2'[x] = s /\ x3'[x] = Append(x3[x], s) /\ x4'[x] = None /\ x5'[x] = x5[x]
  BY <1>1, <1>2, <1>3 DEF Untouched, Extension!StateOK
<1>5. x3'[x] \in Seq(Extension!State) /\ x3'[x] # << >> /\ x3'[x][Len(x3'[x])] = s /\ \A k \in DOMAIN x3'[x] : x3'[x][k] = s
  <2>1. \A k \in DOMAIN x3[x] : x3[x][k] = s
    BY <1>2
  <2>2. x3[x] \in Seq(Extension!State) /\ s \in Extension!State /\ x3'[x] = Append(x3[x], s)
    BY <1>1, <1>4
  <2> QED
    BY <2>1, <2>2, ExtensionAllSay
<1>6. Extension!StateOK'
  BY <1>1, <1>3, <1>4, <1>5 DEF Extension!StateOK
<1>7. Extension!SaidLast(x)' /\ Extension!Claim(x)' = s /\ Extension!SlotIsSound(x)'
  BY <1>1, <1>4, <1>5 DEF s, Extension!SaidLast, Extension!Claim, Extension!SlotIsSound, Extension!Open, Extension!Leaving
<1>8. s \in Thing => \A w \in Extension!View \ {x} : Extension!Claim(w) # s
  BY <1>1, <1>2 DEF s, Extension!Sound, Extension!ClaimedOnce
<1> QED
  BY <1>1, <1>4, <1>6, <1>7, <1>8, ExtensionTouched

\* What a slot shows moves to a panel.
LEMMA ExtensionToEditor ==
    ASSUME Extension!Sound, NEW x \in Slot, Extension!MoveToEditor(x), ~x8, ~x8' PROVE Extension!Sound'
<1>1. /\ Extension!StateOK /\ Extension!Open(x) /\ x5[x] # None /\ ~Extension!Behind(x)
  BY DEF Extension!MoveToEditor, Extension!Sound
<1>2. /\ x \in Extension!View /\ x1[x] \in Extension!State /\ x1[x] = x2[x] /\ Extension!Claim(x) = x1[x]
      /\ x3[x] \in Seq(Extension!State) /\ Home \in Extension!State
  BY <1>1, ExtensionBoundSlot, ExtensionTypes
<1>3. PICK p \in PanelId :
          /\ ~Extension!Open(p)
          /\ x5' = [x5 EXCEPT ![x] = None]
          /\ x4' = [x4 EXCEPT ![x] = x1[x]]
          /\ x1' = [x1 EXCEPT ![p] = x1[x], ![x] = IF x = FirstSlot THEN Home ELSE @]
          /\ x2' = [x2 EXCEPT ![p] = x1[x], ![x] = IF x = FirstSlot THEN Home ELSE @]
          /\ x3' = [x3 EXCEPT ![p] = <<x1[x]>>, ![x] = IF x = FirstSlot THEN Append(@, Home) ELSE @]
  BY DEF Extension!MoveToEditor
<1>4. p \in Extension!View /\ p # x /\ p \notin Slot
  BY <1>1, ExtensionTypes, ExtensionAssumption
<1>5. <<x1[x]>> = Append(x3[p], x1[x]) /\ x3[p] \in Seq(Extension!State)
  BY <1>1, <1>2, <1>3, <1>4, ExtensionShut, ExtensionTypes
<1>6. /\ \A w \in Extension!View \ {x, p} : Untouched(w)
      /\ x1'[p] = x1[x] /\ x2'[p] = x1[x] /\ x3'[p] = Append(x3[p], x1[x])
      /\ x1'[x] = IF x = FirstSlot THEN Home ELSE x1[x]
      /\ x2'[x] = IF x = FirstSlot THEN Home ELSE x2[x]
      /\ x3'[x] = IF x = FirstSlot THEN Append(x3[x], Home) ELSE x3[x]
      /\ x4'[x] = x1[x] /\ x5'[x] = None
  BY <1>1, <1>2, <1>3, <1>4, <1>5 DEF Untouched, Extension!StateOK
<1>7. Extension!SaidLast(x)' /\ Extension!SlotIsSound(x)' /\ Extension!Claim(x)' \notin Thing
  BY <1>1, <1>6, ExtensionLeft
<1>8. Extension!SaidLast(p)' /\ Extension!Claim(p)' = x1[x]
  BY <1>2, <1>6, ExtensionPanelSays
<1>9. Extension!StateOK'
  <2>1. Append(x3[x], Home) \in Seq(Extension!State) /\ Append(x3[p], x1[x]) \in Seq(Extension!State)
    BY <1>2, <1>5, ExtensionSays
  <2> QED
    BY <1>1, <1>2, <1>3, <1>5, <2>1 DEF Extension!StateOK
<1> QED
  BY <1>2, <1>4, <1>6, <1>7, <1>8, <1>9, ExtensionMoved

\* What a panel shows moves to a slot.
LEMMA ExtensionToPanel ==
    ASSUME Extension!Sound, NEW p \in PanelId, Extension!MoveToPanel(p), ~x8, ~x8' PROVE Extension!Sound'
<1>1. /\ Extension!StateOK /\ Extension!Open(p) /\ x1[p] # Home /\ ~Extension!Behind(p) /\ p \in Extension!View /\ p \notin Slot
      /\ None \notin Thing
  BY ExtensionTypes, ExtensionAssumption DEF Extension!MoveToPanel, Extension!Sound
<1>2. x1[p] = x2[p] /\ x1[p] \in Thing /\ x1[p] \in Extension!State /\ Extension!Claim(p) = x1[p]
  BY <1>1, ExtensionNotBehind, ExtensionTypes DEF Extension!Claim, Extension!Open, Extension!State
<1>3. PICK x \in Extension!PickSlot :
          /\ x5' = [x5 EXCEPT ![x] = x1[p]]
          /\ x4' = [x4 EXCEPT ![x] = None]
          /\ x1' = [x1 EXCEPT ![x] = x1[p], ![p] = None]
          /\ x2' = [x2 EXCEPT ![x] = x1[p], ![p] = None]
          /\ x3' = [x3 EXCEPT ![x] = Append(@, x1[p]), ![p] = << >>]
  BY DEF Extension!MoveToPanel
<1>4. x \in Slot /\ x \in Extension!View /\ x # p /\ x3[x] \in Seq(Extension!State)
  BY <1>1, <1>3, ExtensionTypes DEF Extension!PickSlot
<1>5. /\ \A w \in Extension!View \ {p, x} : Untouched(w)
      /\ x1'[x] = x1[p] /\ x2'[x] = x1[p] /\ x3'[x] = Append(x3[x], x1[p]) /\ x4'[x] = None /\ x5'[x] = x1[p]
      /\ x1'[p] = None /\ x2'[p] = None /\ x3'[p] = << >>
  BY <1>1, <1>3, <1>4 DEF Untouched, Extension!StateOK
<1>6. Extension!SaidLast(x)' /\ Extension!SlotIsSound(x)' /\ Extension!Claim(x)' = x1[p]
  BY <1>2, <1>4, <1>5, ExtensionBinds
<1>7. Extension!SaidLast(p)' /\ Extension!Claim(p)' \notin Thing
  BY <1>1, <1>5 DEF Extension!SaidLast, Extension!Claim, Extension!Open
<1>8. Extension!StateOK'
  <2>1. Append(x3[x], x1[p]) \in Seq(Extension!State)
    BY <1>2, <1>4, ExtensionSays
  <2> QED
    <3>1. x1' \in [Extension!View -> Extension!State \cup {None}] /\ x2' \in [Extension!View -> Extension!State \cup {None}]
      BY <1>1, <1>2, <1>3, <1>4 DEF Extension!StateOK
    <3>2. x4' \in [Slot -> Extension!State \cup {None}] /\ x5' \in [Slot -> Thing \cup {None}]
      BY <1>1, <1>2, <1>3, <1>4 DEF Extension!StateOK
    <3>3. x3' \in [Extension!View -> Seq(Extension!State)]
      <4>1. x3 \in [Extension!View -> Seq(Extension!State)] /\ << >> \in Seq(Extension!State)
        BY <1>1, EmptySeq DEF Extension!StateOK
      <4> DEFINE a == Append(x3[x], x1[p])
                 e == << >>
      <4>2. x3' = [[x3 EXCEPT ![x] = a] EXCEPT ![p] = e]
        BY <1>3, <1>4, <4>1
      <4> HIDE DEF a, e
      <4> QED
        BY <1>4, <2>1, <4>1, <4>2 DEF a, e
    <3> QED
      BY <3>1, <3>2, <3>3 DEF Extension!StateOK
<1> QED
  BY <1>1, <1>2, <1>4, <1>5, <1>6, <1>7, <1>8, ExtensionMoved

\* Slots come back with what they showed, and panels as tabs.
LEMMA ExtensionReloadWindow ==
    ASSUME Extension!Sound, Extension!ReloadWindow PROVE Extension!Sound'
<1>1. /\ Extension!StateOK /\ \A v \in Extension!View : x3[v] = << >>
      /\ x1' = [v \in Extension!View |-> None] /\ x2' = [v \in Extension!View |-> None]
      /\ x3' = [v \in Extension!View |-> << >>] /\ x4' = [s \in Slot |-> None] /\ x5' = x5
  BY DEF Extension!ReloadWindow, Extension!Sound
<1>2. Extension!StateOK'
  BY <1>1 DEF Extension!StateOK
<1>3. ASSUME NEW v \in Extension!View
      PROVE  Extension!SaidLast(v)' /\ Extension!Claim(v)' \in {Extension!Claim(v), None} /\ (v \in Slot => Extension!SlotIsSound(v)')
  <2>1. x1'[v] = None /\ x2'[v] = None /\ x3'[v] = << >> /\ (v \in Slot => x4'[v] = None)
    BY <1>1
  <2>2. Extension!SaidLast(v)' /\ (v \in Slot => Extension!SlotIsSound(v)')
    BY <2>1 DEF Extension!SaidLast, Extension!SlotIsSound, Extension!Open, Extension!Leaving
  <2>3. Extension!Claim(v)' = IF v \in Slot THEN x5[v] ELSE None
    BY <1>1, <2>1 DEF Extension!Claim, Extension!Open
  <2>4. CASE v \in Slot
    BY <1>1, <2>2, <2>3, <2>4 DEF Extension!Claim, Extension!Sound, Extension!SlotIsSound
  <2>5. CASE v \notin Slot
    BY <2>2, <2>3, <2>5
  <2> QED
    BY <2>4, <2>5
<1>4. Extension!ClaimedOnce'
  BY <1>3, ExtensionAssumption DEF Extension!ClaimedOnce, Extension!Sound
<1> QED
  BY <1>2, <1>3, <1>4 DEF Extension!Sound, Extension!View

\* The initial states satisfy the invariant.
LEMMA ExtensionInit == ASSUME Extension!Init PROVE Extension!IndInv
<1>1. Extension!StateOK
  BY EmptySeq DEF Extension!Init, Extension!StateOK
<1>2. \A v \in Extension!View : Extension!SaidLast(v) /\ Extension!Claim(v) = None
  BY DEF Extension!Init, Extension!SaidLast, Extension!Claim, Extension!Open
<1>3. \A x \in Slot : Extension!SlotIsSound(x)
  BY DEF Extension!Init, Extension!SlotIsSound, Extension!Open, Extension!Leaving, Extension!View
<1> QED
  BY <1>1, <1>2, <1>3, ExtensionAssumption DEF Extension!Init, Extension!IndInv, Extension!Sound, Extension!ClaimedOnce

\* Nothing that the invariant reads changes.
LEMMA ExtensionSame == ASSUME Extension!Sound, UNCHANGED <<x1, x2, x3, x4, x5>> PROVE Extension!Sound'
BY DEF Extension!Sound, Extension!StateOK, Extension!SaidLast, Extension!SlotIsSound, Extension!ClaimedOnce, Extension!Claim, Extension!Open, Extension!Leaving

\* So does a step that leaves the variables of the part alone.
LEMMA ExtensionStill == ASSUME Extension!IndInv, UNCHANGED <<x1, x2, x3, x4, x5, x7, x8>> PROVE Extension!IndInv'
BY ExtensionSame DEF Extension!IndInv

\* What a tab is to show is something that can be shown.
LEMMA ExtensionTabs ==
    ASSUME Extension!IndInv, Extension!Next
    PROVE  x7' \in [PanelId -> Extension!State \cup {None}]
<1>1. x7 \in [PanelId -> Extension!State \cup {None}]
  BY DEF Extension!IndInv
<1>2. CASE x7' = x7
  BY <1>1, <1>2
<1>3. ASSUME NEW s, NEW stale, Extension!CreatePanel(s, stale) PROVE x7' \in [PanelId -> Extension!State \cup {None}]
  BY <1>1, <1>3 DEF Extension!CreatePanel
<1>4. ASSUME NEW v, NEW i, Extension!OpenSessionInView(v, i) \/ Extension!NewSessionInView(v, i) PROVE x7' \in [PanelId -> Extension!State \cup {None}]
  BY <1>1, <1>4 DEF Extension!OpenSessionInView, Extension!NewSessionInView
<1>5. ASSUME NEW p, Extension!CloseTab(p) \/ Extension!RestoreTab(p) PROVE x7' \in [PanelId -> Extension!State \cup {None}]
  BY <1>1, <1>5 DEF Extension!CloseTab, Extension!RestoreTab
<1>6. ASSUME ~x8, Extension!ReloadWindow PROVE x7' \in [PanelId -> Extension!State \cup {None}]
  <2>1. \A p \in PanelId : p \in Extension!View /\ x1[p] \in Extension!State \cup {None}
    BY <1>6 DEF Extension!IndInv, Extension!Sound, Extension!StateOK, Extension!View
  <2>2. x7' = [p \in PanelId |-> IF Extension!Open(p) THEN x1[p] ELSE x7[p]]
    BY <1>6 DEF Extension!ReloadWindow
  <2> QED
    BY <1>1, <2>1, <2>2
<1>7. ASSUME NEW v, NEW i, Extension!Report(v) \/ Extension!SlotGoes(v) \/ Extension!Reload(v) \/ Extension!CloseView(v)
                           \/ Extension!PageMoves(v, i) \/ Extension!ChangeSession(v, i)
      PROVE  x7' = x7
  BY <1>7 DEF Extension!Report, Extension!SlotGoes, Extension!Reload, Extension!CloseView, Extension!PageMoves, Extension!ChangeSession, Extension!stored
<1>8. ASSUME NEW v, Extension!OpenStateInPanel(v) \/ Extension!NewTerminalInPanel(v) \/ Extension!ResolveSlot(v) \/ Extension!MoveToEditor(v) \/ Extension!MoveToPanel(v)
      PROVE  x7' = x7
  BY <1>8 DEF Extension!OpenStateInPanel, Extension!NewTerminalInPanel, Extension!ResolveSlot, Extension!MoveToEditor, Extension!MoveToPanel
<1> QED
  BY <1>2, <1>3, <1>4, <1>5, <1>6, <1>7, <1>8 DEF Extension!Next, Extension!OpenState

\* Every step keeps the invariant.
LEMMA ExtensionStep == ASSUME Extension!IndInv, Extension!Next PROVE Extension!IndInv'
<1>1. ~x8 /\ x8' \in BOOLEAN
  BY DEF Extension!IndInv, Extension!Next, Extension!Report, Extension!SlotGoes, Extension!Reload, Extension!CloseView, Extension!CloseSlot,
         Extension!PageMoves, Extension!ChangeSession, Extension!OpenSessionInView, Extension!NewSessionInView, Extension!OpenState,
         Extension!OpenStateInPanel, Extension!NewTerminalInPanel, Extension!ResolveSlot, Extension!MoveToEditor, Extension!CloseTab,
         Extension!MoveToPanel, Extension!RestoreTab, Extension!ReloadWindow
<1> SUFFICES ASSUME ~x8, ~x8' PROVE Extension!Sound'
  BY <1>1, ExtensionTabs DEF Extension!IndInv
<1>2. Extension!Sound
  BY DEF Extension!IndInv
<1>3. ASSUME NEW v \in Extension!View, Extension!Report(v) PROVE Extension!Sound'
  BY <1>2, <1>3, ExtensionReport
<1>4. ASSUME NEW x \in Slot, Extension!SlotGoes(x) PROVE Extension!Sound'
  BY <1>2, <1>4, ExtensionSlotGoes
<1>5. ASSUME NEW v \in Extension!View, Extension!Reload(v) \/ Extension!CloseView(v) PROVE Extension!Sound'
  BY <1>2, <1>5, ExtensionReload, ExtensionCloseView DEF Extension!Reload
<1>6. ASSUME NEW v \in Extension!View, NEW i \in Thing, Extension!PageMoves(v, i) \/ Extension!ChangeSession(v, i)
                                                            \/ Extension!OpenSessionInView(v, i) \/ Extension!NewSessionInView(v, i)
      PROVE  Extension!Sound'
  BY <1>2, <1>6, ExtensionPageMoves, ExtensionChange, ExtensionOpenSession, ExtensionNewSession
<1>7. ASSUME NEW s \in Extension!State, Extension!OpenState(s) PROVE Extension!Sound'
  <2>1. Extension!FindHostFor(s, None) = {} /\ ~Extension!Unsaid(s, None) /\ UNCHANGED <<x4, x5>>
    BY <1>7 DEF Extension!OpenState
  <2>3. s \in Thing => \A w \in Extension!View \ {None} : Extension!Claim(w) # s
    BY <1>2, <2>1, ExtensionUnfound
  <2>4. None \notin Extension!View
    BY <1>2, ExtensionTypes DEF Extension!Sound
  <2>2. PICK p \in PanelId : ~Extension!Open(p) /\ Extension!Attach(p, s)
    BY <1>7 DEF Extension!OpenState, Extension!CreatePanel
  <2> QED
    BY <1>2, <2>1, <2>2, <2>3, <2>4, ExtensionAttachPanel
<1>14. ASSUME NEW i \in Thing, Extension!NewTerminalInPanel(i) PROVE Extension!Sound'
  <2>1. PICK x \in Slot : Extension!BindSlot(x, i) /\ ~Extension!Taken(i, x)
    BY <1>14 DEF Extension!NewTerminalInPanel, Extension!PickSlot
  <2> QED
    BY <1>2, <2>1, ExtensionBindSlot DEF Extension!Taken
<1>8. ASSUME NEW i \in Thing, Extension!OpenStateInPanel(i) PROVE Extension!Sound'
  <2>1. \A w \in Extension!View \ {None} : Extension!Claim(w) # i
    BY <1>2, <1>8, ExtensionUnfound DEF Extension!OpenStateInPanel
  <2>2. PICK x \in Slot : Extension!BindSlot(x, i)
    BY <1>8 DEF Extension!OpenStateInPanel, Extension!PickSlot
  <2> QED
    BY <1>2, <2>1, <2>2, ExtensionBindSlot, ExtensionTypes DEF Extension!Sound
<1>9. ASSUME NEW x \in Slot, Extension!ResolveSlot(x) \/ Extension!MoveToEditor(x) PROVE Extension!Sound'
  BY <1>2, <1>9, ExtensionResolve, ExtensionToEditor
<1>10. ASSUME NEW p \in PanelId, Extension!CloseTab(p) PROVE Extension!Sound'
  <2>1. UNCHANGED <<x1, x2, x3, x4, x5>>
    BY <1>10 DEF Extension!CloseTab, Extension!views
  <2> QED
    BY <1>2, <2>1, ExtensionSame
<1>11. ASSUME NEW p \in PanelId, Extension!MoveToPanel(p) PROVE Extension!Sound'
  BY <1>2, <1>11, ExtensionToPanel
<1>12. ASSUME NEW p \in PanelId, Extension!RestoreTab(p) PROVE Extension!Sound'
  <2>1. CASE Extension!FindHostFor(x7[p], None) # {}
    <3>1. UNCHANGED <<x1, x2, x3, x4, x5>>
      BY <1>12, <2>1 DEF Extension!RestoreTab
    <3> QED
      BY <1>2, <3>1, ExtensionSame
  <2>2. CASE Extension!FindHostFor(x7[p], None) = {}
    <3>1. x7[p] \in Extension!State
      BY <1>12 DEF Extension!IndInv, Extension!RestoreTab
    <3>2. /\ ~Extension!Open(p) /\ ~Extension!Unsaid(x7[p], p) /\ Extension!Attach(p, x7[p]) /\ UNCHANGED <<x4, x5>>
      BY <1>12, <2>2 DEF Extension!RestoreTab
    <3>3. Extension!FindHostFor(x7[p], p) = {}
      BY <2>2, ExtensionAssumption DEF Extension!FindHostFor, Extension!View
    <3>4. x7[p] \in Thing => \A w \in Extension!View \ {p} : Extension!Claim(w) # x7[p]
      BY <1>2, <3>2, <3>3, ExtensionUnfound
    <3> QED
      BY <1>2, <3>1, <3>2, <3>4, ExtensionAttachPanel
  <2> QED
    BY <2>1, <2>2
<1>13. CASE Extension!ReloadWindow
  BY <1>2, <1>13, ExtensionReloadWindow
<1> QED
  BY <1>3, <1>4, <1>5, <1>6, <1>7, <1>8, <1>9, <1>10, <1>11, <1>12, <1>13, <1>14 DEF Extension!Next, Extension!PickSession, Extension!PickSection

\* With no report on its way, each thing shows once and a slot is bound to it.
LEMMA ExtensionShown == ASSUME Extension!IndInv PROVE Extension!ShownOnce /\ Extension!BindingIsShown
<1> SUFFICES ASSUME Extension!Quiet, ~x8 PROVE /\ \A v, w \in Extension!View : v # w /\ x2[v] \in Thing => x2[v] # x2[w]
                                               /\ \A x \in Slot : Extension!Open(x) => x2[x] = x1[x] /\ x5[x] = IF x2[x] = Home THEN None ELSE x2[x]
  BY DEF Extension!ShownOnce, Extension!BindingIsShown
<1>1. Extension!Sound
  BY DEF Extension!IndInv
<1>2. /\ \A x \in Slot : x4[x] = None
      /\ \A v \in Extension!View : x3[v] = << >> /\ (Extension!Open(v) => x1[v] = x2[v])
  BY <1>1, ExtensionQuiet
<1>3. \A v \in Extension!View : x2[v] \in Thing => Extension!Claim(v) = x2[v]
  BY <1>1, <1>2, ExtensionTypes DEF Extension!Sound, Extension!SaidLast, Extension!Claim, Extension!Leaving
<1>4. \A v, w \in Extension!View : v # w /\ x2[v] \in Thing => x2[v] # x2[w]
  BY <1>1, <1>3 DEF Extension!Sound, Extension!ClaimedOnce
<1>5. ASSUME NEW x \in Slot, Extension!Open(x)
      PROVE  x2[x] = x1[x] /\ x5[x] = IF x2[x] = Home THEN None ELSE x2[x]
  <2>1. x \in Extension!View /\ ~Extension!Leaving(x) /\ Extension!SlotIsSound(x)
    BY <1>1, <1>2 DEF Extension!View, Extension!Leaving, Extension!Sound
  <2> QED
    BY <1>2, <1>5, <2>1 DEF Extension!SlotIsSound
<1> QED
  BY <1>4, <1>5

-----------------------------------------------------------------------------
(* The parts together: PanelsSpec.                                         *)

\* Of the part at hand, its inductive invariant.
PanelsInv ==
    /\ part = "Ring" => RingInv
    /\ part # "Ring" => NoRing
    /\ part = "Prompt" => Prompt!IndInv
    /\ part = "Dialog" => Dialog!IndInv
    /\ part = "Mise" => Mise!IndInv
    /\ part = "Banner" => Banner!IndInv
    /\ part = "Search" => Search!IndInv
    /\ part = "Claude" => Claude!IndInv
    /\ part = "Login" => Login!IndInv
    /\ part = "Files" => Files!IndInv
    /\ part = "Editor" => Editor!IndInv
    /\ part = "Lists" => Lists!IndInv
    /\ part = "Logs" => Logs!IndInv
    /\ part = "Projects" => Projects!IndInv
    /\ part = "Purge" => Purge!IndInv
    /\ part = "Shell" => Shell!IndInv
    /\ part = "Extension" => Extension!IndInv
    /\ part = "Fingerprint" => x10 \in Gate /\ \A g \in Gate : x10 = g => Fingerprint(g)!IndInv

\* Every part's initial states satisfy its invariant.
LEMMA PanelsFirst == PanelsInit => PanelsInv
<1> SUFFICES ASSUME PanelsInit PROVE PanelsInv
  OBVIOUS
<1>1. /\ part = "Ring" => Init
      /\ part # "Ring" => NoRing
      /\ part = "Prompt" => Prompt!Init
      /\ part = "Dialog" => Dialog!Init
      /\ part = "Mise" => Mise!Init
      /\ part = "Banner" => Banner!Init
      /\ part = "Search" => Search!Init
      /\ part = "Claude" => Claude!Init
      /\ part = "Login" => Login!Init
      /\ part = "Files" => Files!Init
      /\ part = "Editor" => Editor!Init
      /\ part = "Lists" => Lists!Init
      /\ part = "Logs" => Logs!Init
      /\ part = "Projects" => Projects!Init
      /\ part = "Purge" => Purge!Init
      /\ part = "Shell" => Shell!Init
      /\ part = "Extension" => Extension!Init
      /\ part = "Fingerprint" => \E g \in Gate : x10 = g /\ Fingerprint(g)!Init
  BY DEF PanelsInit
<1>2. ASSUME part = "Fingerprint"
      PROVE  x10 \in Gate /\ \A g \in Gate : x10 = g => Fingerprint(g)!IndInv
  <2>1. PICK g \in Gate : x10 = g /\ Fingerprint(g)!Init
    BY <1>1, <1>2
  <2>2. Fingerprint(g)!IndInv
    BY <2>1, FingerprintInit
  <2> QED
    BY <2>1, <2>2
<1> QED
  BY <1>1, <1>2, RingInit, PromptInit, DialogInit, MiseInit, BannerInit, SearchInit, ClaudeInit, LoginInit, FilesInit, EditorInit, ListsInit, LogsInit, ProjectsInit, PurgeInit, ShellInit, ExtensionInit DEF PanelsInv

\* No step makes another part of it, and each is a step of the part's own.
LEMMA PanelsMoves ==
    ASSUME [PanelsNext]_panels
    PROVE  /\ part' = part
           /\ part # "Ring" => UNCHANGED vars
           /\ part = "Ring" => [Next]_vars
           /\ part = "Prompt" => Prompt!Next \/ UNCHANGED <<x1, x2, x3, x4, x5, x6, x7, x8, x9, x10, x11, x12, x13, x14, x15, x16>>
           /\ part = "Dialog" => Dialog!Next \/ UNCHANGED <<x1, x2, x3, x4, x5, x6, x7, x8, x9, x10, x11, x12>>
           /\ part = "Mise" => Mise!Next \/ UNCHANGED <<x1, x2, x3, x4, x5, x6, x7, x8, x9, x10, x11, x12>>
           /\ part = "Banner" => Banner!Next \/ UNCHANGED <<x1, x2, x3, x4, x5, x6, x7, x8, x9, x10, x11, x12>>
           /\ part = "Search" => Search!Next \/ UNCHANGED <<x1, x2, x3, x4, x5, x6, x7, x8, x9, x10, x11, x12>>
           /\ part = "Claude" => Claude!Next \/ UNCHANGED <<x1, x2, x3, x4, x5, x6, x7, x8, x9, x10, x11, x12>>
           /\ part = "Login" => Login!Next \/ UNCHANGED <<x1, x2, x3, x4, x5, x6, x7, x8, x9, x10, x11, x12>>
           /\ part = "Files" => Files!Next \/ UNCHANGED <<x1, x2, x3, x4, x5, x6, x7, x8, x9, x10, x11, x12>>
           /\ part = "Editor" => Editor!Next \/ UNCHANGED <<x1, x2, x3, x4, x5, x6, x7, x8, x9, x10, x11, x12>>
           /\ part = "Lists" => Lists!Next \/ UNCHANGED <<x1, x2, x3, x4, x5, x6, x7, x8, x9, x10, x11, x12>>
           /\ part = "Logs" => Logs!Next \/ UNCHANGED <<x1, x2, x3, x4, x5, x6, x7, x8, x9, x10, x11, x12>>
           /\ part = "Projects" => Projects!Next \/ UNCHANGED <<x1, x2, x3, x4, x5, x6, x7, x8, x9, x10, x11, x12>>
           /\ part = "Purge" => Purge!Next \/ UNCHANGED <<x1, x2, x3, x4, x5, x6, x7, x8, x9, x10, x11, x12>>
           /\ part = "Shell" => Shell!Next \/ UNCHANGED <<x1, x2, x3, x4, x5, x6, x7, x8, x9, x10, x11, x12>>
           /\ part = "Extension" => Extension!Next \/ UNCHANGED <<x1, x2, x3, x4, x5, x6, x7, x8, x9, x10, x11, x12>>
           /\ part = "Fingerprint" => /\ x10' = x10
                                     /\ \/ \E g \in Gate : x10 = g /\ Fingerprint(g)!Next
                                        \/ UNCHANGED <<x1, x2, x3, x4, x5, x6, x7, x8, x9>>
<1>1. CASE UNCHANGED panels
  BY <1>1 DEF panels
<1>2. CASE PanelsNext
  BY <1>2 DEF PanelsNext, Rest10
<1> QED
  BY <1>1, <1>2

\* A step keeps the part's invariant.
LEMMA PanelsSteps == ASSUME PanelsInv, [PanelsNext]_panels PROVE PanelsInv'
<1>1. part' = part
  BY PanelsMoves
<1>2. part = "Ring" => RingInv'
  BY PanelsMoves, RingSteps DEF PanelsInv
<1>3. part # "Ring" => NoRing'
  BY PanelsMoves DEF PanelsInv, NoRing, vars
<1>4. ASSUME part = "Prompt" PROVE Prompt!IndInv'
  <2>1. Prompt!IndInv /\ (Prompt!Next \/ UNCHANGED <<x1, x2, x3, x4, x5, x6, x7, x8, x9, x10, x11, x12, x13, x14, x15, x16>>)
    BY <1>4, PanelsMoves DEF PanelsInv
  <2> QED
    BY <2>1, PromptStep, PromptStill
<1>5. ASSUME part = "Dialog" PROVE Dialog!IndInv'
  <2>1. Dialog!IndInv /\ (Dialog!Next \/ UNCHANGED <<x1, x2, x3, x4, x5, x6, x7, x8, x9, x10, x11, x12>>)
    BY <1>5, PanelsMoves DEF PanelsInv
  <2> QED
    BY <2>1, DialogStep, DialogStill
<1>6. ASSUME part = "Mise" PROVE Mise!IndInv'
  <2>1. Mise!IndInv /\ (Mise!Next \/ UNCHANGED <<x1, x2, x3, x4, x5, x6, x7, x8, x9, x10, x11, x12>>)
    BY <1>6, PanelsMoves DEF PanelsInv
  <2> QED
    BY <2>1, MiseStep DEF Mise!vars
<1>7. ASSUME part = "Banner" PROVE Banner!IndInv'
  <2>1. Banner!IndInv /\ (Banner!Next \/ UNCHANGED <<x1, x2, x3, x4, x5, x6, x7, x8, x9, x10, x11, x12>>)
    BY <1>7, PanelsMoves DEF PanelsInv
  <2> QED
    BY <2>1, BannerStep DEF Banner!vars
<1>8. ASSUME part = "Search" PROVE Search!IndInv'
  <2>1. Search!IndInv /\ (Search!Next \/ UNCHANGED <<x1, x2, x3, x4, x5, x6, x7, x8, x9, x10, x11, x12>>)
    BY <1>8, PanelsMoves DEF PanelsInv
  <2> QED
    BY <2>1, SearchStep DEF Search!vars
<1>9. ASSUME part = "Claude" PROVE Claude!IndInv'
  <2>1. Claude!IndInv /\ (Claude!Next \/ UNCHANGED <<x1, x2, x3, x4, x5, x6, x7, x8, x9, x10, x11, x12>>)
    BY <1>9, PanelsMoves DEF PanelsInv
  <2> QED
    BY <2>1, ClaudeStep, ClaudeStill
<1>10. ASSUME part = "Login" PROVE Login!IndInv'
  <2>1. Login!IndInv /\ (Login!Next \/ UNCHANGED <<x1, x2, x3, x4, x5, x6, x7, x8, x9, x10, x11, x12>>)
    BY <1>10, PanelsMoves DEF PanelsInv
  <2> QED
    BY <2>1, LoginStep, LoginStill
<1>11. ASSUME part = "Files" PROVE Files!IndInv'
  <2>1. Files!IndInv /\ (Files!Next \/ UNCHANGED <<x1, x2, x3, x4, x5, x6, x7, x8, x9, x10, x11, x12>>)
    BY <1>11, PanelsMoves DEF PanelsInv
  <2> QED
    BY <2>1, FilesStep, FilesStill
<1>12. ASSUME part = "Editor" PROVE Editor!IndInv'
  <2>1. Editor!IndInv /\ (Editor!Next \/ UNCHANGED <<x1, x2, x3, x4, x5, x6, x7, x8, x9, x10, x11, x12>>)
    BY <1>12, PanelsMoves DEF PanelsInv
  <2> QED
    BY <2>1, EditorStep, EditorStill
<1>13. ASSUME part = "Lists" PROVE Lists!IndInv'
  <2>1. Lists!IndInv /\ (Lists!Next \/ UNCHANGED <<x1, x2, x3, x4, x5, x6, x7, x8, x9, x10, x11, x12>>)
    BY <1>13, PanelsMoves DEF PanelsInv
  <2> QED
    BY <2>1, ListsStep, ListsStill
<1>14. ASSUME part = "Logs" PROVE Logs!IndInv'
  <2>1. Logs!IndInv /\ (Logs!Next \/ UNCHANGED <<x1, x2, x3, x4, x5, x6, x7, x8, x9, x10, x11, x12>>)
    BY <1>14, PanelsMoves DEF PanelsInv
  <2> QED
    BY <2>1, LogsStep DEF Logs!vars
<1>15. ASSUME part = "Projects" PROVE Projects!IndInv'
  <2>1. Projects!IndInv /\ (Projects!Next \/ UNCHANGED <<x1, x2, x3, x4, x5, x6, x7, x8, x9, x10, x11, x12>>)
    BY <1>15, PanelsMoves DEF PanelsInv
  <2> QED
    BY <2>1, ProjectsStep, ProjectsStill
<1>16. ASSUME part = "Purge" PROVE Purge!IndInv'
  <2>1. Purge!IndInv /\ (Purge!Next \/ UNCHANGED <<x1, x2, x3, x4, x5, x6, x7, x8, x9, x10, x11, x12>>)
    BY <1>16, PanelsMoves DEF PanelsInv
  <2> QED
    BY <2>1, PurgeStep, PurgeStill
<1>17. ASSUME part = "Shell" PROVE Shell!IndInv'
  <2>1. Shell!IndInv /\ (Shell!Next \/ UNCHANGED <<x1, x2, x3, x4, x5, x6, x7, x8, x9, x10, x11, x12>>)
    BY <1>17, PanelsMoves DEF PanelsInv
  <2> QED
    BY <2>1, ShellStep, ShellStill DEF Shell!IndInv, Shell!TypeOK
<1>18. ASSUME part = "Extension" PROVE Extension!IndInv'
  <2>1. Extension!IndInv /\ (Extension!Next \/ UNCHANGED <<x1, x2, x3, x4, x5, x6, x7, x8, x9, x10, x11, x12>>)
    BY <1>18, PanelsMoves DEF PanelsInv
  <2> QED
    BY <2>1, ExtensionStep, ExtensionStill
<1>19. ASSUME part = "Fingerprint"
      PROVE  x10' \in Gate /\ \A g \in Gate : x10' = g => Fingerprint(g)!IndInv'
  <2>1. /\ x10 \in Gate /\ x10' = x10
        /\ \A g \in Gate : x10 = g => Fingerprint(g)!IndInv
        /\ \/ \E g \in Gate : x10 = g /\ Fingerprint(g)!Next
           \/ UNCHANGED <<x1, x2, x3, x4, x5, x6, x7, x8, x9>>
    BY <1>19, PanelsMoves DEF PanelsInv
  <2>2. ASSUME NEW g \in Gate, x10 = g PROVE Fingerprint(g)!IndInv'
    <3>1. Fingerprint(g)!IndInv
      BY <2>1, <2>2
    <3>2. CASE Fingerprint(g)!Next
      BY <3>1, <3>2, FingerprintStep
    <3>3. CASE UNCHANGED <<x1, x2, x3, x4, x5, x6, x7, x8, x9>>
      BY <3>1, <3>3, FingerprintStill
    <3> QED
      BY <2>1, <2>2, <3>2, <3>3
  <2> QED
    BY <2>1, <2>2
<1> QED
  BY <1>1, <1>2, <1>3, <1>4, <1>5, <1>6, <1>7, <1>8, <1>9, <1>10, <1>11, <1>12, <1>13, <1>14, <1>15, <1>16, <1>17, <1>18, <1>19 DEF PanelsInv

\* Every part's invariant always holds.
THEOREM PanelsInvHolds == PanelsSpec => []PanelsInv
BY PanelsFirst, PanelsSteps, PTL DEF PanelsSpec

\* Whatever a page waits for is under way, in whatever order answers arrive or
\* fail and whatever is closed meanwhile, whatever the bounds are.
THEOREM NothingStuckAlways == PanelsSpec => []NothingStuck
<1>1. PanelsInv => NothingStuck
  BY DEF PanelsInv, NothingStuck, Prompt!IndInv, Prompt!WaitInv, Dialog!IndInv, Mise!IndInv, Banner!IndInv, Search!IndInv, Claude!IndInv, Login!IndInv,
      Files!IndInv, Editor!IndInv, Lists!IndInv, Logs!IndInv, Projects!IndInv
<1> QED
  BY PanelsInvHolds, <1>1, PTL

\* A login, a job, a clone or a purge that was started is followed to its end.
THEOREM NothingLeftBehindAlways == PanelsSpec => []NothingLeftBehind
<1>1. PanelsInv => NothingLeftBehind
  BY ProjectsListsClone DEF PanelsInv, NothingLeftBehind, Dialog!IndInv, Mise!IndInv, Login!IndInv, Claude!IndInv, Purge!IndInv
<1> QED
  BY PanelsInvHolds, <1>1, PTL

\* What is replaced, overwritten, installed, purged, removed, unlocked or
\* enrolled was asked for, once.
THEOREM OnlyAskedAlways == PanelsSpec => []OnlyAsked
<1>1. ASSUME PanelsInv, part = "Fingerprint"
      PROVE  \A g \in Gate : x10 = g => /\ Fingerprint(g)!CeremonyWinsOnce
                                        /\ Fingerprint(g)!OverrunIsBounded
  BY <1>1 DEF PanelsInv, Fingerprint!IndInv
<1>2. PanelsInv => OnlyAsked
  BY <1>1 DEF PanelsInv, OnlyAsked, Files!IndInv, Editor!IndInv, Lists!IndInv, Search!IndInv, Projects!IndInv, Purge!IndInv
<1> QED
  BY PanelsInvHolds, <1>2, PTL

\* What is shown is so: of two views of the extension no two show one thing and a
\* slot is bound to what it shows, unless a command overtook a report; of the
\* address and the history what the frame shows; of a locked page a card, only
\* while news of the unlock is on its way; of the logs what vector writes.
THEOREM ShownIsTrueAlways == PanelsSpec => []ShownIsTrue
<1>1. PanelsInv => ShownIsTrue
  BY ExtensionShown, PromptShown DEF PanelsInv, ShownIsTrue, Shell!IndInv, Purge!IndInv
<1> QED
  BY PanelsInvHolds, <1>1, PTL

\* A ring that is one of the parts keeps the newest bytes, and the other parts
\* have none.
THEOREM PanelsSnapshotIsRecent == PanelsSpec => []SnapshotIsRecent
<1>1. PanelsInv => SnapshotIsRecent
  <2>1. ASSUME NoRing PROVE SnapshotIsRecent
    <3>1. Snapshot = [i \in 1..0 |-> i]
      BY <2>1 DEF NoRing, Snapshot
    <3> QED
      BY <2>1, <3>1 DEF NoRing, SnapshotIsRecent, Lesser
  <2> QED
    BY <2>1, RingIsRecent DEF PanelsInv
<1> QED
  BY PanelsInvHolds, <1>1, PTL

\* No answer that was overtaken, no save and no restart undoes what a newer one
\* has shown, stored or removed.
THEOREM NewestShownAlways == PanelsSpec => NewestShown
<1>1. ASSUME PanelsInv, PanelsInv', [PanelsNext]_panels PROVE [NewestStep]_panels
  <2> SUFFICES ASSUME PanelsNext PROVE NewestStep
    BY <1>1
  <2>1. ASSUME part = "Mise" PROVE Mise!NewestStep
    <3>1. Mise!IndInv /\ Mise!Next
      BY <1>1, <2>1 DEF PanelsInv, PanelsNext
    <3> QED
      BY <3>1, MiseNewest
  <2>2. ASSUME part = "Banner" PROVE Banner!NewestStep
    <3>1. Banner!IndInv /\ Banner!Next
      BY <1>1, <2>2 DEF PanelsInv, PanelsNext
    <3> QED
      BY <3>1, BannerNewest
  <2>3. ASSUME part = "Logs" PROVE Logs!NewestStep
    <3>1. Logs!IndInv /\ Logs!Next
      BY <1>1, <2>3 DEF PanelsInv, PanelsNext
    <3> QED
      BY <3>1, LogsNewest
  <2>4. ASSUME part = "Claude" PROVE Claude!KeepsStart
    <3>1. Claude!IndInv /\ Claude!Next
      BY <1>1, <2>4 DEF PanelsInv, PanelsNext
    <3> QED
      BY <3>1, ClaudeNewest
  <2>5. ASSUME part = "Projects" PROVE Projects!NothingComesBack
    <3>1. Projects!IndInv /\ Projects!Next
      BY <1>1, <2>5 DEF PanelsInv, PanelsNext
    <3> QED
      BY <3>1, ProjectsStep
  <2>6. ASSUME part = "Fingerprint", NEW g \in Gate, x10 = g
        PROVE  Fingerprint(g)!DeletedStaysDeleted
    <3>1. /\ Fingerprint(g)!IndInv
          /\ Fingerprint(g)!IndInv'
      BY <1>1, <2>6, PanelsMoves DEF PanelsInv
    <3>2. Fingerprint(g)!Next
      BY <2>6 DEF PanelsNext
    <3>3. x8 \subseteq x8'
      BY <3>2, FingerprintDeleted
    <3> QED
      BY <3>1, <3>3, FingerprintNewest
  <2> QED
    BY <2>1, <2>2, <2>3, <2>4, <2>5, <2>6 DEF NewestStep
<1> QED
  BY PanelsInvHolds, <1>1, PTL DEF PanelsSpec, NewestShown
=================================================================================
