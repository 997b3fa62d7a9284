------------------------------ MODULE UnlockPrompt ------------------------------
(***************************************************************************)
(* The browser's side of the password gate: api/client.ts, where a request  *)
(* refused with 401 waits for the user to unlock and is then sent again;    *)
(* UnlockModal.tsx, the one prompt all such requests share; and             *)
(* RequiresUnlock.tsx, the card that stands in for a gated page and takes   *)
(* the prompt over while it is on screen.  Paths are below                  *)
(* src/webmanager/frontend/src.                                             *)
(*                                                                         *)
(* A step of the page runs up to its next await, with the React effects its *)
(* state changes trigger.  What a fetch reads, the server decides in a step *)
(* of its own, so an answer may be out of date when it arrives.             *)
(***************************************************************************)
EXTENDS Naturals, Sequences

CONSTANTS
    Read, Change, \* calls of request() with GET and with other methods
    Poll,        \* those of api.poll
    Click,       \* clicks that call requestUnlock()
    MaxAsks      \* a bound on the status requests of the card under way

Request == Read \cup Change \cup Poll \cup Click

VARIABLES
    unlocked,     \* server: the browser's cookie opens the gate
    declined,     \* promptDeclinedAt is less than PROMPT_COOLDOWN_MS ago
    pc,           \* where each request is
    waiters,      \* UnlockModalHost's waitersRef
    open, handedOff,
    recheck,      \* the status request made when the card has gone
    checks,       \* those made by onAuthStatusChange while open; equal ones count once
    post,         \* the modal's POST /auth/unlock, or its fingerprint's
    mounted,      \* a page behind RequiresUnlock is shown
    known,        \* useAuthStatus' status there
    loadError,    \* useAuthStatus' error there
    asks,         \* its status requests under way, oldest first
    cardPost,     \* the card's POST /auth/unlock, or its fingerprint's
    news,         \* a message of another page on authChannel, or the answer to
                  \* lockNow's POST /auth/lock, is on its way
    unsure        \* history: known is from an answer a later one had overtaken,
                  \* or the answer to an unlock was lost

calls == <<pc, declined, waiters>>
modal == <<open, handedOff, recheck, checks, post>>
card == <<mounted, known, loadError, asks, cardPost, unsure>>
vars == <<unlocked, calls, modal, card, news>>

\* What the server says of the gate.
Says == IF unlocked THEN "unlocked" ELSE "locked"

\* showCard, and inlineGateVisible for a card that stands in for a page.
ShowCard == mounted /\ ~loadError /\ known = "locked"

\* The modal is rendered.
Visible == open /\ ~ShowCard /\ ~handedOff

Init ==
    /\ unlocked \in BOOLEAN /\ declined = FALSE
    /\ pc = [r \in Request |-> "idle"] /\ waiters = {}
    /\ open = FALSE /\ handedOff = FALSE /\ recheck = "none" /\ checks = {} /\ post = "none"
    /\ mounted = FALSE /\ known = "none" /\ loadError = FALSE /\ asks = <<>>
    /\ cardPost = "none" /\ unsure = FALSE
    /\ news = FALSE

-----------------------------------------------------------------------------
\* Fault: the handover is never checked again.
EffectsOnce(o, h) ==
    /\ open' = o
    /\ handedOff' = (h \/ (o /\ ShowCard'))
    /\ recheck' = IF o /\ ~ShowCard' /\ handedOff' /\ open /\ handedOff
                     /\ ~ShowCard THEN recheck ELSE "none"

\* UnlockModalHost's two handover effects, after o and h are set: a prompt
\* that meets a card is handed over to it, and when the card has gone the
\* gate is asked; a change of what the effect depends on cancels the question.
Effects(o, h) ==
    /\ open' = o
    /\ handedOff' = (h \/ (o /\ ShowCard'))
    /\ recheck' = IF ~(o /\ ~ShowCard' /\ handedOff') THEN "none"
                  ELSE IF open /\ ~ShowCard /\ handedOff THEN recheck
                  ELSE "asked"

\* Fault: the card is not told.
NotifyModal ==
    /\ checks' = IF open THEN checks \cup {"asked"} ELSE checks
    /\ UNCHANGED asks

\* authStatusListeners: the card's useAuthStatus asks again, and so does the
\* modal while it is open.
Notify ==
    /\ mounted => Len(asks) < MaxAsks
    /\ asks' = IF mounted THEN Append(asks, [says |-> "asked", passed |-> FALSE]) ELSE asks
    /\ checks' = IF open THEN checks \cup {"asked"} ELSE checks

\* finishUnlocked (and what the onAuthStatusChange effect does alike): every
\* waiter goes on, a request by resetting promptDeclinedAt and being sent again;
\* a second refusal of it just throws.
Released == [r \in Request |-> IF r \in waiters THEN "idle" ELSE pc[r]]

Finish ==
    /\ pc' = Released
    /\ declined' = (declined /\ \A r \in waiters : r \in Click)
    /\ waiters' = {}
    /\ Effects(FALSE, FALSE)

\* A prompt is dismissed, by a click on its backdrop or its button.
Cancel ==
    /\ Visible
    /\ pc' = [r \in Request |-> IF r \in waiters THEN "idle" ELSE pc[r]]
    /\ declined' = (declined \/ \E r \in waiters : r \notin Click)
    /\ waiters' = {}
    /\ UNCHANGED card
    /\ Effects(FALSE, FALSE)
    /\ UNCHANGED <<unlocked, checks, post, news>>

-----------------------------------------------------------------------------
\* What r waits for is the prompt.
Await(r) ==
    /\ pc' = [pc EXCEPT ![r] = "waiting"]
    /\ waiters' = waiters \cup {r}
    /\ Effects(TRUE, handedOff)

\* requestUnlock, by itself or in ensureUnlocked.
RequestUnlock(r) ==
    /\ pc[r] = "idle" /\ r \in Click
    /\ UNCHANGED card
    /\ Await(r)
    /\ UNCHANGED <<unlocked, declined, checks, post, news>>

\* A call of request() that the server refuses.  Those it answers otherwise,
\* that time out, meet a redirect to a login page or, once the outer login has
\* expired (loginExpired), are not sent at all, leave this state alone.
Refuse(r) ==
    /\ pc[r] = "idle" /\ r \notin Click /\ ~unlocked
    /\ pc' = [pc EXCEPT ![r] = "refused"]
    /\ UNCHANGED <<unlocked, declined, waiters, modal, card, news>>

\* A refusal arrives: a poll tells the page, a read within the cooldown
\* throws, another request asks the user.
Prompt(r) ==
    /\ pc[r] = "refused" /\ r \notin Poll
    /\ IF r \in Read /\ declined
       THEN pc' = [pc EXCEPT ![r] = "idle"] /\ UNCHANGED <<waiters, card, open, handedOff, recheck>>
       ELSE UNCHANGED card /\ Await(r)
    /\ UNCHANGED <<unlocked, declined, checks, post, news>>

PollRefused(r) ==
    /\ pc[r] = "refused" /\ r \in Poll
    /\ pc' = [pc EXCEPT ![r] = "idle"]
    /\ Notify
    /\ UNCHANGED <<unlocked, declined, waiters, open, handedOff, recheck, post>>
    /\ UNCHANGED <<mounted, known, loadError, cardPost, unsure, news>>

\* PROMPT_COOLDOWN_MS has passed.
CooldownEnds ==
    /\ declined /\ declined' = FALSE
    /\ UNCHANGED <<unlocked, pc, waiters, modal, card, news>>

-----------------------------------------------------------------------------
\* UnlockModal: handleSubmit, or the fingerprint button.
Submit ==
    /\ Visible /\ post = "none"
    /\ post' = "asked"
    /\ UNCHANGED <<unlocked, calls, open, handedOff, recheck, checks, card, news>>

\* The server takes the password or the fingerprint, or does not; the answer
\* may be lost, and then the form shows an error all the same.
SubmitServed ==
    /\ post = "asked"
    /\ \/ unlocked' = TRUE /\ post' = "unlocked" /\ UNCHANGED unsure
       \/ unlocked' = TRUE /\ post' = "none" /\ unsure' = TRUE
       \/ post' = "none" /\ UNCHANGED <<unlocked, unsure>>
    /\ UNCHANGED <<calls, open, handedOff, recheck, checks>>
    /\ UNCHANGED <<mounted, known, loadError, asks, cardPost, news>>

\* The modal's unlock succeeds: request() resets promptDeclinedAt and
\* notifies, then the form finishes.
SubmitDone ==
    /\ post = "unlocked" /\ post' = "none"
    /\ Notify
    /\ pc' = Released /\ declined' = FALSE /\ waiters' = {}
    /\ UNCHANGED <<mounted, known, loadError, cardPost, unsure>>
    /\ Effects(FALSE, FALSE)
    /\ UNCHANGED <<unlocked, news>>

\* A fingerprint prompt, of either form or of the device list, begins: its
\* first request is an unlock path too.
Begin ==
    /\ declined' = FALSE
    /\ Notify
    /\ UNCHANGED <<unlocked, pc, waiters, open, handedOff, recheck, post>>
    /\ UNCHANGED <<mounted, known, loadError, cardPost, unsure, news>>

\* RequiresUnlock: the same of its form.
CardSubmit ==
    /\ ShowCard /\ cardPost = "none"
    /\ cardPost' = "asked"
    /\ UNCHANGED <<unlocked, calls, modal, mounted, known, loadError, asks, unsure, news>>

CardServed ==
    /\ cardPost = "asked"
    /\ \/ unlocked' = TRUE /\ cardPost' = "unlocked" /\ UNCHANGED unsure
       \/ unlocked' = TRUE /\ cardPost' = "none" /\ unsure' = TRUE
       \/ cardPost' = "none" /\ UNCHANGED <<unlocked, unsure>>
    /\ UNCHANGED <<calls, modal, mounted, known, loadError, asks, news>>

\* Its own refresh is the one Notify has asked for already.
CardDone ==
    /\ cardPost = "unlocked" /\ cardPost' = "none"
    /\ declined' = FALSE
    /\ Notify
    /\ UNCHANGED <<unlocked, pc, waiters, open, handedOff, recheck, post>>
    /\ UNCHANGED <<mounted, known, loadError, unsure, news>>

-----------------------------------------------------------------------------
\* The page behind the card is opened: useAuthStatus asks at once.
Mount ==
    /\ ~mounted /\ mounted' = TRUE
    /\ known' = "none" /\ loadError' = FALSE /\ unsure' = FALSE
    /\ asks' = <<[says |-> "asked", passed |-> FALSE]>>
    /\ Effects(open, handedOff)
    /\ UNCHANGED <<unlocked, calls, checks, post, cardPost, news>>

\* It is left: what it had asked is answered to nobody.
Unmount ==
    /\ mounted /\ mounted' = FALSE
    /\ known' = "none" /\ loadError' = FALSE /\ unsure' = FALSE /\ asks' = <<>>
    /\ Effects(open, handedOff)
    /\ UNCHANGED <<unlocked, calls, checks, post, cardPost, news>>

\* The error is dismissed: its banner's onDismiss is refresh.
Dismiss ==
    /\ mounted /\ loadError /\ Len(asks) < MaxAsks
    /\ asks' = Append(asks, [says |-> "asked", passed |-> FALSE])
    /\ UNCHANGED <<unlocked, calls, modal, mounted, known, loadError, cardPost, unsure, news>>

\* The server answers GET /auth/status.
AskServed(i) ==
    /\ asks[i].says = "asked"
    /\ asks' = [asks EXCEPT ![i].says = Says]
    /\ UNCHANGED <<unlocked, calls, modal, mounted, known, loadError, cardPost, unsure, news>>

\* What is left of the requests when the i-th has been answered: those asked
\* before it or answered by now arrive too late.
After(i) == [j \in 1 .. Len(asks) - 1 |->
    LET k == IF j < i THEN j ELSE j + 1
    IN [asks[k] EXCEPT !.passed = @ \/ k < i \/ asks[k].says # "asked"]]

\* An answer reaches the card; useAuthStatus takes whichever comes last.
AskDone(i) ==
    /\ asks[i].says # "asked"
    /\ known' = asks[i].says /\ loadError' = FALSE
    /\ unsure' = (asks[i].passed \/ (unsure /\ asks[i].says = "locked"))
    /\ asks' = After(i)
    /\ UNCHANGED mounted
    /\ Effects(open, handedOff)
    /\ UNCHANGED <<unlocked, calls, checks, post, cardPost, news>>

\* It fails.
AskFails(i) ==
    /\ loadError' = TRUE /\ asks' = After(i)
    /\ UNCHANGED <<mounted, known, unsure>>
    /\ Effects(open, handedOff)
    /\ UNCHANGED <<unlocked, calls, checks, post, cardPost, news>>

-----------------------------------------------------------------------------
\* The question put when the card has gone.
RecheckServed ==
    /\ recheck = "asked" /\ unlocked /\ recheck' = "unlocked"
    /\ UNCHANGED <<unlocked, calls, open, handedOff, checks, post, card, news>>

RecheckDone ==
    /\ recheck = "unlocked"
    /\ UNCHANGED card
    /\ Finish
    /\ UNCHANGED <<unlocked, checks, post, news>>

\* The gate is locked, or the request fails: the modal comes back.
RecheckLocked ==
    /\ recheck = "asked"
    /\ UNCHANGED card
    /\ Effects(open, FALSE)
    /\ UNCHANGED <<unlocked, calls, checks, post, news>>

\* The question put when the modal, open, has been told of a change.
\* Only the answer that the gate is open does anything.
CheckServed ==
    /\ "asked" \in checks
    /\ checks' = (checks \ {"asked"}) \cup (IF unlocked THEN {"unlocked"} ELSE {})
    /\ UNCHANGED <<unlocked, calls, open, handedOff, recheck, post, card, news>>

CheckDone ==
    /\ "unlocked" \in checks
    /\ checks' = checks \ {"unlocked"}
    /\ UNCHANGED card
    /\ IF waiters # {} THEN Finish ELSE UNCHANGED <<calls, open, handedOff, recheck>>
    /\ UNCHANGED <<unlocked, post, news>>

\* It fails.
CheckFails ==
    /\ "asked" \in checks
    /\ checks' = checks \ {"asked"}
    /\ UNCHANGED <<unlocked, calls, open, handedOff, recheck, post, card, news>>

-----------------------------------------------------------------------------
\* The gate locks by itself: its cookie's time is over.
Expire ==
    /\ unlocked /\ unlocked' = FALSE
    /\ UNCHANGED <<calls, modal, card, news>>

\* lockNow has the server lock, or another page of this browser unlocks or
\* locks the gate.
Elsewhere ==
    /\ unlocked' = ~unlocked /\ news' = TRUE
    /\ UNCHANGED <<calls, modal, card>>

\* The page hears of it.
Echo ==
    /\ news /\ news' = FALSE
    /\ Notify
    /\ UNCHANGED <<unlocked, calls, open, handedOff, recheck, post>>
    /\ UNCHANGED <<mounted, known, loadError, cardPost, unsure>>

-----------------------------------------------------------------------------
Next ==
    \/ \E r \in Request : RequestUnlock(r) \/ Refuse(r) \/ Prompt(r) \/ PollRefused(r)
    \/ CooldownEnds \/ Cancel
    \/ Begin \/ Submit \/ SubmitServed \/ SubmitDone
    \/ CardSubmit \/ CardServed \/ CardDone
    \/ Mount \/ Unmount \/ Dismiss
    \/ \E i \in DOMAIN asks : AskServed(i) \/ AskDone(i) \/ AskFails(i)
    \/ RecheckServed \/ RecheckDone \/ RecheckLocked
    \/ CheckServed \/ CheckDone \/ CheckFails
    \/ Expire \/ Elsewhere \/ Echo

Spec == Init /\ [][Next]_vars

-----------------------------------------------------------------------------
\* A status request of the card, and whether its answer will be too late.
Ask == [says : {"asked", "locked", "unlocked"}, passed : BOOLEAN]

\* Types of the variables of UnlockPrompt.
TypeOK ==
    /\ unlocked \in BOOLEAN /\ declined \in BOOLEAN
    /\ pc \in [Request -> {"idle", "refused", "waiting"}]
    /\ waiters \subseteq Request
    /\ open \in BOOLEAN /\ handedOff \in BOOLEAN
    /\ recheck \in {"none", "asked", "unlocked"} /\ checks \subseteq {"asked", "unlocked"}
    /\ post \in {"none", "asked", "unlocked"} /\ cardPost \in {"none", "asked", "unlocked"}
    /\ mounted \in BOOLEAN /\ known \in {"none", "locked", "unlocked"} /\ loadError \in BOOLEAN
    /\ asks \in Seq(Ask) /\ Len(asks) <= MaxAsks
    /\ news \in BOOLEAN /\ unsure \in BOOLEAN

\* Whoever waits for the user has a prompt on the screen, the modal or the
\* card, or the page is about to show one: no request hangs behind a modal
\* that stays hidden, however cards come and go while it is open.
NoSilentWait ==
    /\ waiters = {r \in Request : pc[r] = "waiting"}
    /\ waiters # {} => Visible \/ ShowCard \/ recheck # "none"

\* A card that asks for a password although the gate is open does so for a
\* reason: something about it is still on its way, or its answers came in the
\* other order, or the answer to the unlock was lost.
LockedCardIsRight ==
    ShowCard /\ unlocked =>
        asks # <<>> \/ cardPost # "none" \/ post # "none" \/ news \/ unsure

\* Inductive: whoever waits keeps the modal open, and one that is handed over
\* to no card that is shown asks whether the gate is open.
PromptIsUp ==
    /\ pc \in [Request -> {"idle", "refused", "waiting"}]
    /\ waiters # {} => open
    /\ open /\ handedOff /\ ~ShowCard => recheck # "none"

WaitInv == NoSilentWait /\ PromptIsUp

\* What makes up for an unlock the card has not heard of is on its way to it.
Told == post = "unlocked" \/ cardPost = "unlocked" \/ news \/ unsure

\* Inductive: a card that is wrong has asked again, and of two answers on their
\* way that differ the older is known to be overtaken, or the gate's unlock is
\* still to be announced.
CardInv ==
    /\ unlocked \in BOOLEAN /\ news \in BOOLEAN /\ unsure \in BOOLEAN /\ asks \in Seq(Ask)
    /\ ~mounted => asks = <<>>
    /\ ShowCard /\ unlocked => Told \/ \E j \in DOMAIN asks : asks[j].says # "locked"
    /\ \A i \in DOMAIN asks : unlocked /\ asks[i].says = "locked" =>
          asks[i].passed \/ Told \/ \E j \in DOMAIN asks : j > i /\ asks[j].says # "locked"

IndInv == WaitInv /\ CardInv
=============================================================================
