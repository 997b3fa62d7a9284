------------------------------ MODULE RingBuffer ------------------------------
(***************************************************************************)
(* The scrollback ring of a terminal session:                              *)
(* internal/termsession/ringbuffer.go.                                     *)
(*                                                                         *)
(* Bytes are numbered in the order they are written, so that what a ring   *)
(* should hold is a matter of counting.  SessionStream uses the ring       *)
(* through Push and its content; this module shows that the positions it   *)
(* is computed with keep that promise.                                     *)
(***************************************************************************)
EXTENDS Naturals, Sequences

CONSTANTS
    Capacity,  \* the sizes a ring is made with (config: scrollback bytes)
    MaxWrite,  \* bound: bytes in one Write
    MaxByte    \* bound: bytes written in all

ASSUME RingAssumption ==
    /\ Capacity \subseteq Nat
    /\ MaxWrite \in Nat
    /\ MaxByte \in Nat

VARIABLES
    size,      \* len(r.buf)
    buf,       \* r.buf
    writePos,  \* r.writePos
    filled,    \* r.filled
    total      \* bytes written so far, by anybody

vars == <<size, buf, writePos, filled, total>>

Lesser(a, b) == IF a < b THEN a ELSE b

Index == 0..(size - 1)

\* newRingBuffer.
Init ==
    /\ size \in Capacity
    /\ buf = [i \in 0..(size - 1) |-> 0]
    /\ writePos = 0
    /\ filled = 0
    /\ total = 0

\* Fault: what does not fit before the end of the buffer is dropped.
CopiedNoWrap(len) ==
    [i \in Index |-> IF i >= writePos /\ i < writePos + len THEN total + 1 + i - writePos
                                                            ELSE buf[i]]

\* The buffer after a write that is smaller than the ring: in at writePos and,
\* past the end, on from the start.
Copied(len) ==
    [i \in Index |->
        CASE i >= writePos /\ i < writePos + len -> total + 1 + i - writePos
          [] i + size < writePos + len           -> total + 1 + i + size - writePos
          [] OTHER                               -> buf[i]]

\* Fault: the end of the buffer is taken for its last place.
AdvanceToEnd(len) == IF writePos + len <= size THEN writePos + len ELSE writePos + len - size

\* (writePos + len) % size, where both are less than size.
Advance(len) == IF writePos + len < size THEN writePos + len ELSE writePos + len - size

\* Write of len bytes.  One that fills the ring leaves just its own tail.
Write(len) ==
    /\ total + len <= MaxByte
    /\ total' = total + len
    /\ \/ /\ size = 0
          /\ UNCHANGED <<buf, writePos, filled>>
       \/ /\ size > 0 /\ len >= size
          /\ buf' = [i \in Index |-> total + len - size + i + 1]
          /\ writePos' = 0
          /\ filled' = size
       \/ /\ len < size
          /\ buf' = Copied(len)
          /\ writePos' = Advance(len)
          /\ filled' = Lesser(filled + len, size)
    /\ UNCHANGED size

\* Fault: the two halves of a full ring are joined the wrong way round.
SnapshotFromStart ==
    [i \in 1..filled |-> buf[i - 1]]

\* Snapshot: a ring that has not wrapped is read from the start, a full one
\* from the byte that will be overwritten next.
Snapshot ==
    IF filled < size
      THEN [i \in 1..filled |-> buf[i - 1]]
      ELSE [i \in 1..size |-> IF i <= size - writePos THEN buf[writePos + i - 1]
                                                     ELSE buf[writePos + i - 1 - size]]

Next == \E len \in 0..MaxWrite : Write(len)

Spec == Init /\ [][Next]_vars

-----------------------------------------------------------------------------
\* Types of the variables of RingBuffer.
TypeOK ==
    /\ size \in Capacity
    /\ buf \in [Index -> 0..MaxByte]
    /\ writePos \in 0..size /\ (size > 0 => writePos < size)
    /\ filled \in 0..size
    /\ total \in 0..MaxByte

\* A replay is exactly the newest bytes of the output, as many as the ring
\* holds, oldest first, whatever sizes of write produced them (the ring's own
\* comment: "the most recent N bytes written to it").
SnapshotIsRecent ==
    LET n == Lesser(total, size) IN
    Snapshot = [i \in 1..n |-> total - n + i]

\* Where each byte is: the newest ends right before writePos.
RingInv ==
    /\ TypeOK
    /\ filled = Lesser(total, size)
    /\ filled < size => writePos = filled
    /\ \A i \in Index :
          /\ i < writePos => buf[i] = total - writePos + i + 1
          /\ i >= writePos /\ filled = size => buf[i] + size = total - writePos + i + 1
=============================================================================
