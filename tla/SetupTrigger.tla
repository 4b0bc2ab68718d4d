----------------------------- MODULE SetupTrigger -----------------------------
(***************************************************************************)
(* ButtonSetupModeTrigger: a button that was held for MinHoldMs and then   *)
(* let go sends the node into wireless setup.  The hold ends when the      *)
(* button has been seen open for SettleMs; a shorter opening is a bounce,  *)
(* and the hold goes on from where it began.  On node4 either of two       *)
(* buttons may be held, or one after the other.                            *)
(***************************************************************************)
EXTENDS Millis, FiniteSets

CONSTANTS
    SetupButtons,   \* the BOOT button, and on node4 the SETUP button too
    MinHoldMs,      \* minHoldMs_
    SettleMs,       \* kReleaseSettleMs
    MaxGap          \* bound on loop(): update() runs at least every MaxGap ms

\* What the claims below need of the numbers.
SetupTriggerAssumption ==
    /\ SetupButtons # {} /\ IsFiniteSet(SetupButtons)
    /\ {MinHoldMs, SettleMs, MaxGap} \subseteq Nat \ {0}
    /\ MinHoldMs + SettleMs + MaxGap < Wrap

VARIABLES
    now,            \* clock_.nowMilliseconds()
    down,           \* the buttons that are down
    holding,        \* holding_
    holdStart,      \* holdStartMs_
    releasing,      \* releasing_
    releaseStart,   \* releaseStartMs_
    requested,      \* requestedThisTick_
    seenDown,       \* history: what update() saw last
    seenFor,        \* history: true ms since it first saw that
    up,             \* history: it has seen the button open for SettleMs
    heldFor,        \* history: true ms since it saw the button go down
    sincePoll       \* history: true ms since update()

fields == <<holding, holdStart, releasing, releaseStart, requested>>
history == <<seenDown, seenFor, up, heldFor>>
vars == <<now, down, fields, history, sincePoll>>

TypeOK ==
    /\ now \in Stamps /\ holdStart \in Stamps /\ releaseStart \in Stamps
    /\ down \subseteq SetupButtons
    /\ holding \in BOOLEAN /\ releasing \in BOOLEAN /\ requested \in BOOLEAN
    /\ seenDown \in BOOLEAN /\ up \in BOOLEAN
    /\ seenFor \in Ages /\ heldFor \in Ages
    /\ sincePoll \in 0 .. MaxGap

Init ==
    /\ now = 0
    /\ down \in SUBSET SetupButtons
    /\ holding = FALSE /\ holdStart = 0
    /\ releasing = FALSE /\ releaseStart = 0
    /\ requested = FALSE
    /\ seenDown = FALSE /\ seenFor = 0
    /\ up = TRUE /\ heldFor = 0
    /\ sincePoll = 0
-------------------------------------------------------------------------------
\* A button goes down, comes up, or bounces.
Move(b) ==
    /\ down' = IF b \in down THEN down \ {b} ELSE down \cup {b}
    /\ UNCHANGED <<now, fields, history, sincePoll>>

Tick ==
    /\ sincePoll < MaxGap
    /\ now' = NextStamp(now)
    /\ seenFor' = Older(seenFor)
    /\ heldFor' = Older(heldFor)
    /\ sincePoll' = sincePoll + 1
    /\ UNCHANGED <<down, fields, seenDown, up>>

\* isActive() of EitherActiveDigitalInput.
Active == down # {}

Press ==
    /\ Active /\ ~holding
    /\ holding' = TRUE /\ holdStart' = now
    /\ requested' = FALSE
    /\ UNCHANGED <<releasing, releaseStart>>

Release ==
    /\ ~Active /\ holding /\ ~releasing
    /\ releasing' = TRUE /\ releaseStart' = now
    /\ requested' = FALSE
    /\ UNCHANGED <<holding, holdStart>>

\* Slip: the hold begins again.
BounceAnew ==
    /\ Active /\ releasing
    /\ releasing' = FALSE /\ holdStart' = now
    /\ requested' = FALSE
    /\ UNCHANGED <<holding, releaseStart>>

\* Contact bounce: the original press time stands.
Bounce ==
    /\ Active /\ releasing
    /\ releasing' = FALSE
    /\ requested' = FALSE
    /\ UNCHANGED <<holding, holdStart, releaseStart>>

Settled == Minus(now, releaseStart) >= SettleMs

Settle ==
    /\ ~Active /\ releasing /\ Settled
    /\ holding' = FALSE /\ releasing' = FALSE
    /\ requested' = (Minus(releaseStart, holdStart) >= MinHoldMs)
    /\ UNCHANGED <<holdStart, releaseStart>>

\* Nothing to see, or a release that has not settled yet.
Wait ==
    /\ \/ Active /\ holding /\ ~releasing
       \/ ~Active /\ ~holding
       \/ ~Active /\ releasing /\ ~Settled
    /\ requested' = FALSE
    /\ UNCHANGED <<holding, holdStart, releasing, releaseStart>>

\* What was seen, without the trigger's own fields.
Observe ==
    /\ seenDown' = Active
    /\ seenFor' = IF Active = seenDown THEN seenFor ELSE 0
    /\ up' = (~Active /\ (up \/ (~seenDown /\ seenFor >= SettleMs)))
    /\ heldFor' = IF Active /\ up THEN 0 ELSE heldFor

\* update()
Update ==
    /\ Press \/ Release \/ Bounce \/ Settle \/ Wait
    /\ Observe
    /\ sincePoll' = 0
    /\ UNCHANGED <<now, down>>

Next == (\E b \in SetupButtons : Move(b)) \/ Tick \/ Update

Spec == Init /\ [][Next]_vars
-------------------------------------------------------------------------------
(***************************************************************************)
(* Setup is requested exactly when the button comes up for good from a     *)
(* hold of at least MinHoldMs of true time: not by a shorter one, not      *)
(* twice, not lost to a bounce, a second button or a rollover.  (A hold of *)
(* a whole turn of the clock is not spoken of.)                            *)
(***************************************************************************)
RequestsExact ==
    [][sincePoll' = 0 /\ heldFor < Wrap =>
          (requested' # requested /\ requested'
             <=> ~up /\ up' /\ heldFor - seenFor >= MinHoldMs)]_vars
===============================================================================
