---------------------------- MODULE PasswordThrottle ----------------------------
(***************************************************************************)
(* What internal/authgate promises about password attempts: for each       *)
(* client key they happen one at a time, none while the key is locked out, *)
(* and enough wrong ones in a row lock the key for a growing while.        *)
(***************************************************************************)
EXTENDS Naturals

CONSTANTS
    Key,          \* client keys (clientKey; the WebDAV share has keys of its own)
    Threshold,    \* maxFailuresBeforeLockout
    Base,         \* lockoutBase, in ticks of the clock
    MaxBackoff,   \* lockoutMax, in ticks
    MaxFailures   \* bound: a count this high is as good as any higher one

ASSUME ThrottleAssumption ==
    /\ Threshold \in Nat \ {0}
    /\ Base \in Nat \ {0}
    /\ MaxBackoff \in Nat /\ Base <= MaxBackoff
    /\ MaxFailures \in Nat /\ Threshold <= MaxFailures

VARIABLES
    failures,  \* attempts[key].failures; 0 when the key has no entry
    locked     \* ticks until attempts[key].lockedUntil; 0 when it has passed

throttleVars == <<failures, locked>>

\* Fault: the length is computed by shifting, in a 4-bit signed integer.
BackoffShifted(n) ==
    LET shifted == (Base * 2^(n - Threshold)) % 16
    IN  IF shifted < 8 THEN IF shifted < MaxBackoff THEN shifted ELSE MaxBackoff
                       ELSE 0

\* recordFailure's loop: doubled for each failure past the threshold, capped.
Backoff(n) ==
    LET doubled == Base * 2^(n - Threshold)
    IN  IF doubled \in 0..MaxBackoff THEN doubled ELSE MaxBackoff

\* One more failure.  The count stops at MaxFailures, which the backoff of
\* every higher count equals.
Bumped(n) == IF n < MaxFailures THEN n + 1 ELSE n

ThrottleInit ==
    /\ failures = [k \in Key |-> 0]
    /\ locked = [k \in Key |-> 0]

\* recordFailure: the whole function runs under attemptsMu.
Wrong(k) ==
    LET n == Bumped(failures[k]) IN
    /\ failures' = [failures EXCEPT ![k] = n]
    /\ locked' = [locked EXCEPT ![k] = IF n >= Threshold THEN Backoff(n) ELSE @]

\* recordSuccess deletes the entry.
Right(k) ==
    /\ failures' = [failures EXCEPT ![k] = 0]
    /\ locked' = [locked EXCEPT ![k] = 0]

\* The clock.
Tick ==
    /\ \E k \in Key : locked[k] > 0
    /\ locked' = [k \in Key |-> IF locked[k] > 0 THEN locked[k] - 1 ELSE 0]
    /\ UNCHANGED failures

\* A whole attempt is one step, and only a key that is not locked out has one.
Attempted(k) ==
    /\ locked[k] = 0
    /\ Wrong(k) \/ Right(k)

ThrottleNext == Tick \/ \E k \in Key : Attempted(k)

ThrottleSpec == ThrottleInit /\ [][ThrottleNext]_throttleVars
=============================================================================
