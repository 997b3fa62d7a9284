------------------------------ MODULE TerminalInput ------------------------------
(***************************************************************************)
(* The field that a mobile keyboard types into (the mobile-input effect of  *)
(* components/Terminal/Terminal.tsx): keyboards insert, delete, compose and  *)
(* rewrite text in it, and the page forwards the difference to the shell.   *)
(*                                                                         *)
(* The keyboard is the environment: it edits at its caret, and does not     *)
(* always keep that where the page put it.  A character is a member of      *)
(* Letter, Sp or NL; the shell appends what it is sent, takes its last      *)
(* character away for a backspace and starts a new line at a return.        *)
(***************************************************************************)
EXTENDS Integers, Sequences, FiniteSets

CONSTANTS
    Letter,    \* characters that are neither a space nor a newline
    Phrase,    \* what a composition or a rewrite may hold, without the word before
    MaxField,  \* MAX_FIELD_LENGTH
    MaxLine    \* a bound on the line that is typed

VARIABLES
    mode, live, refocusOnWord,  \* inputMode, and two preferences of this device
    pad,     \* the field, what the page keeps about it, and the shell's line
    region,  \* the keyboard's composition: where it begins in the field, or Nowhere
    meant,   \* history: the line the user means to have typed
    base     \* history: what of it was meant before a composition began

settings == <<mode, live, refocusOnWord>>
vars == <<settings, pad, region, meant, base>>

Sp == " "
NL == "nl"
Anchor == <<Sp>>
Nowhere == -1

\* A new field: the anchor, the caret after it.
Init ==
    /\ mode \in {"diff", "password"}
    /\ live \in BOOLEAN /\ refocusOnWord \in BOOLEAN
    /\ (mode = "password" => ~live /\ ~refocusOnWord)
    /\ pad = [field |-> Anchor, caret |-> 1, pin |-> 1, sent |-> Anchor, composing |-> FALSE,
              atEnd |-> FALSE, reanchor |-> FALSE, refocus |-> FALSE, expected |-> <<>>, line |-> <<>>]
    /\ region = Nowhere
    /\ meant = <<>> /\ base = <<>>

-----------------------------------------------------------------------------
\* Text and the shell's line.
Clipped(s, n) == SubSeq(s, 1, Len(s) - n)
EndsIn(s, c) == s # <<>> /\ s[Len(s)] = c
Contains(s, c) == \E i \in DOMAIN s : s[i] = c
Common(s, t) == Cardinality({i \in DOMAIN s \cap DOMAIN t : SubSeq(s, 1, i) = SubSeq(t, 1, i)})
Inserted(s, i, t) == SubSeq(s, 1, i) \o t \o SubSeq(s, i + 1, Len(s))
Entered(s) == LET nls == {i \in 1 .. Len(s) : s[i] = NL}
              IN IF nls = {} THEN s ELSE SubSeq(s, 1 + CHOOSE i \in nls : \A j \in nls : j <= i, Len(s))

\* n backspaces and t go to the shell.
Emit(p, n, t) ==
    [p EXCEPT !.line = Entered(Clipped(@, IF n > Len(@) THEN Len(@) ELSE n) \o t)]

\* readValue: whether the anchor was moved to the end, and the text as the
\* diff should see it.
AtEnd(p) ==
    /\ EndsIn(p.field, Sp)
    /\ p.atEnd \/ (p.sent = Anchor /\ Len(p.field) > 1 /\ Head(p.field) # Sp)

Logical(p) == IF AtEnd(p) THEN Anchor \o Clipped(p.field, 1) ELSE p.field

\* Fault: the caret stays where it is.
PinCaretNot(p) == p

\* pinCaretToEnd.
PinCaret(p) ==
    IF p.composing THEN p
    ELSE LET text == IF p.atEnd THEN Logical(p) ELSE p.field
         IN [p EXCEPT !.field = text, !.atEnd = FALSE, !.caret = Len(text), !.pin = Len(text)]

\* resetField.
Reset(p) ==
    IF p.field = Anchor THEN [p EXCEPT !.atEnd = FALSE]
    ELSE [p EXCEPT !.field = Anchor, !.sent = Anchor, !.caret = 1, !.pin = 1, !.atEnd = FALSE]

WordOver(p) == [Reset(p) EXCEPT !.refocus = @ \/ refocusOnWord]

\* flush: what changed since the last time goes out.
Flush(p) ==
    LET value == Logical(p)
        common == Common(value, p.sent)
        added == SubSeq(value, common + 1, Len(value))
        q == Emit([p EXCEPT !.atEnd = AtEnd(p), !.sent = value], Len(p.sent) - common, added)
    IN IF value = p.sent THEN [p EXCEPT !.atEnd = AtEnd(p)]
       ELSE IF Contains(added, NL) THEN Reset(q)
       ELSE IF value = <<>> THEN [q EXCEPT !.reanchor = TRUE]
       ELSE IF ~p.composing /\ Contains(added, Sp) THEN WordOver(q)
       ELSE IF ~p.composing /\ Len(value) > MaxField THEN Reset(q)
       ELSE PinCaret(q)

\* onInput, of an event that says whether it belongs to a composition.
OnInput(p, isComposing) ==
    LET q == [p EXCEPT !.composing = @ /\ isComposing]
    IN IF q.composing /\ ~live THEN q ELSE Flush(q)

\* onCompositionEnd.
OnCompositionEnd(p) ==
    LET q == Flush([p EXCEPT !.composing = FALSE])
        text == Logical(q)
    IN IF text # Anchor /\ EndsIn(text, Sp) THEN WordOver(q)
       ELSE PinCaret([q EXCEPT !.atEnd = AtEnd(q)])

-----------------------------------------------------------------------------
Diff == mode = "diff"
Idle == Diff /\ region = Nowhere

\* Of what was meant before a composition nobody asks once it is over.
Settled == base' = (IF pad'.composing THEN base ELSE <<>>) /\ UNCHANGED settings

\* Where the keyboard inserts: at its caret, or, when the field was just
\* reset, before the anchor.
Carets == {pad.caret} \cup IF pad.field = Anchor /\ pad.sent = Anchor THEN {0} ELSE {}

\* A character at the caret, which moves along or falls back to where the
\* page has put it last.
Type(c) ==
    /\ Idle /\ Len(meant) < MaxLine
    /\ \E at \in Carets : \E caret \in {at + 1, IF pad.pin <= at THEN pad.pin ELSE at + 1} :
           pad' = OnInput([pad EXCEPT !.field = Inserted(@, at, <<c>>), !.caret = caret], FALSE)
    /\ meant' = Append(meant, c)
    /\ UNCHANGED region /\ Settled

\* A backspace at the caret, which may be lost at the start.  There, the page
\* does what the keyboard cannot (deleteAtCaretStart, from onKeyDown or
\* onBeforeInput).
DeleteAtCaretStart(p) ==
    LET text == Logical(p)
        rest == Clipped(text, 1)
        field == IF rest # <<>> /\ Head(rest) = Sp THEN rest ELSE Anchor \o rest
        q == IF text = Anchor THEN p ELSE [p EXCEPT !.field = field, !.sent = field]
    IN PinCaret([Emit(q, 1, <<>>) EXCEPT !.atEnd = FALSE])

Backspace ==
    /\ Idle /\ ~pad.composing
    /\ \/ pad' = DeleteAtCaretStart(pad)
       \/ /\ pad.caret > 0
          /\ pad' = OnInput([pad EXCEPT !.field = SubSeq(@, 1, pad.caret - 1) \o SubSeq(@, pad.caret + 1, Len(@)),
                                          !.caret = @ - 1], FALSE)
    /\ meant' = Clipped(meant, 1)
    /\ UNCHANGED region /\ Settled

\* The keyboard replaces the word it still holds, or emits it again.
Rewrite(t) ==
    /\ Idle /\ ~pad.composing
    /\ pad.field # <<>> /\ Head(pad.field) = Sp /\ Len(pad.field) > 1
    /\ Len(meant) - (Len(pad.field) - 1) + Len(t) <= MaxLine
    /\ pad' = OnInput([pad EXCEPT !.field = Anchor \o t, !.caret = Len(t) + 1], FALSE)
    /\ meant' = Clipped(meant, Len(pad.field) - 1) \o t
    /\ UNCHANGED region /\ Settled

-----------------------------------------------------------------------------
\* A composition begins at the caret, or takes up the word before it.
ComposeStart ==
    /\ Idle
    /\ \E at \in Carets :
          /\ pad' = [pad EXCEPT !.composing = TRUE, !.caret = at]
          /\ region' \in {at} \cup IF at > 1 /\ pad.field # <<>> /\ Head(pad.field) = Sp THEN {1} ELSE {}
    /\ base' = IF pad.composing \/ live THEN base ELSE meant
    /\ UNCHANGED <<settings, meant>>

\* What it holds is replaced.
ComposeUpdate(t) ==
    /\ Diff /\ region # Nowhere
    /\ Len(meant) - (pad.caret - region) + Len(t) <= MaxLine
    /\ pad' = OnInput([pad EXCEPT !.field = SubSeq(@, 1, region) \o t \o SubSeq(@, pad.caret + 1, Len(@)),
                                    !.caret = region + Len(t)], TRUE)
    /\ meant' = Clipped(meant, pad.caret - region) \o t
    /\ UNCHANGED region /\ Settled

ComposeEnd ==
    /\ Diff /\ region # Nowhere /\ region' = Nowhere
    /\ pad' = OnCompositionEnd(pad)
    /\ UNCHANGED meant /\ Settled

\* A compositionend that never arrives, though not while the timer of no
\* milliseconds that the word before set is still out.
ComposeLost ==
    /\ Diff /\ region # Nowhere /\ region' = Nowhere /\ ~pad.refocus
    /\ UNCHANGED <<settings, pad, meant, base>>

-----------------------------------------------------------------------------
\* Enter, as a key or as a newline that the keyboard inserts.
Enter ==
    /\ Idle
    /\ \/ ~pad.composing /\ pad' = Reset(Emit(Flush(pad), 0, <<NL>>))
       \/ pad' = OnInput([pad EXCEPT !.field = Append(@, NL), !.caret = Len(pad.field) + 1], FALSE)
    /\ meant' = <<>>
    /\ UNCHANGED region /\ Settled

\* A key that moves the shell's cursor, to another line for example.
Navigate ==
    /\ Idle /\ ~pad.composing
    /\ pad' = Reset([pad EXCEPT !.line = <<>>])
    /\ meant' = <<>>
    /\ UNCHANGED region /\ Settled

\* The field loses the focus and gets it back (onBlur, onFocus), or the page
\* was hidden and is back (resync): what was being composed is over.
Away ==
    /\ Diff
    /\ pad' = PinCaret(Reset([pad EXCEPT !.composing = FALSE]))
    /\ region' = Nowhere
    /\ meant' = IF pad.composing /\ ~live THEN base ELSE meant
    /\ Settled

\* The animation frame of scheduleReanchor.
Reanchored(p) ==
    IF p.composing \/ p.field # <<>> THEN p
    ELSE [p EXCEPT !.field = Anchor, !.sent = Anchor, !.atEnd = FALSE, !.caret = 1, !.pin = 1]

Reanchor ==
    /\ Diff /\ pad.reanchor
    /\ pad' = Reanchored([pad EXCEPT !.reanchor = FALSE])
    /\ UNCHANGED <<settings, region, meant, base>>

\* The timer of scheduleRefocus: the field is left and entered again, which
\* ends a composition.
Refocus ==
    /\ Diff /\ pad.refocus
    /\ LET p == [pad EXCEPT !.refocus = FALSE]
           q == IF region = Nowhere THEN p ELSE OnCompositionEnd(p)
       IN pad' = PinCaret([q EXCEPT !.composing = FALSE])
    /\ region' = Nowhere
    /\ UNCHANGED meant /\ Settled

-----------------------------------------------------------------------------
\* The password field: lengths are compared (processValueChange), and the
\* field is reset one frame later unless it has changed meanwhile.
Compared(p) ==
    LET n == Len(p.field) - Len(p.sent)
        q == IF n >= 0 THEN Emit(p, 0, SubSeq(p.field, Len(p.sent) + 1, Len(p.field))) ELSE Emit(p, -n, <<>>)
    IN [q EXCEPT !.sent = p.field, !.reanchor = TRUE, !.expected = IF p.reanchor THEN @ ELSE p.field]

PasswordType(c) ==
    /\ mode = "password" /\ Len(meant) < MaxLine /\ Len(pad.field) <= MaxLine
    /\ pad' = Compared([pad EXCEPT !.field = Append(@, c)])
    /\ meant' = Append(meant, c)
    /\ UNCHANGED region /\ Settled

PasswordBackspace ==
    /\ mode = "password" /\ pad.field # <<>>
    /\ pad' = Compared([pad EXCEPT !.field = Clipped(@, 1)])
    /\ meant' = Clipped(meant, 1)
    /\ UNCHANGED region /\ Settled

PasswordEnter ==
    /\ mode = "password"
    /\ pad' = Emit(pad, 0, <<NL>>)
    /\ meant' = <<>>
    /\ UNCHANGED region /\ Settled

PasswordFrame ==
    /\ mode = "password" /\ pad.reanchor
    /\ pad' = LET p == [pad EXCEPT !.reanchor = FALSE, !.expected = <<>>]
              IN IF pad.field # pad.expected THEN p ELSE [p EXCEPT !.field = Anchor, !.sent = Anchor]
    /\ UNCHANGED <<settings, region, meant, base>>

-----------------------------------------------------------------------------
Next ==
    \/ \E c \in Letter \cup {Sp} : Type(c) \/ PasswordType(c)
    \/ \E t \in Phrase : Rewrite(t) \/ ComposeUpdate(t)
    \/ Backspace \/ ComposeStart \/ ComposeEnd \/ ComposeLost
    \/ Enter \/ Navigate \/ Away \/ Reanchor \/ Refocus
    \/ PasswordBackspace \/ PasswordEnter \/ PasswordFrame

Spec == Init /\ [][Next]_vars

-----------------------------------------------------------------------------
\* Types of the variables.
TypeOK ==
    /\ Diff \in BOOLEAN /\ region \in {Nowhere} \cup 0 .. Len(pad.field)
    /\ pad.caret \in Nat /\ Len(meant) <= MaxLine
    /\ {pad.composing, pad.atEnd, pad.reanchor, pad.refocus} \subseteq BOOLEAN

\* What the mobile-input effect is for: the shell's line is what was typed,
\* no character twice, missing, out of order or out of nowhere, whatever the
\* keyboard composes, rewrites and loses.  While a composition is not sent
\* live the line may lack it.
LineIsMeant == (~pad.composing \/ live) /\ (mode = "password" \/ pad.sent = Logical(pad)) => pad.line = meant
=============================================================================
