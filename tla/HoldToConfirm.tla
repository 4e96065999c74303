---------------------------- MODULE HoldToConfirm ----------------------------
(***************************************************************************)
(* ConfirmDeleteDialog, behind which users and roles are deleted: the      *)
(* button must be held for holdDuration; an interval timer measures the    *)
(* time, and the ref holdTimer names the timer to clear.  The component    *)
(* stays mounted while the dialog is closed.                               *)
(***************************************************************************)
EXTENDS Integers, FiniteSets

CONSTANTS
    HoldDuration,  \* in ticks
    MaxPresses,    \* bound on presses of the button
    MaxConfirms    \* bound on confirmations

ASSUME HoldAssumption ==
    /\ HoldDuration \in Nat \ {0} /\ MaxPresses \in Nat /\ MaxConfirms \in Nat

NoTimer == 0

VARIABLES
    dialogOpen,
    pressed,     \* pointers (fingers, mouse buttons) down on the button
    timers,      \* intervals that run
    holdTimer,   \* the ref: the interval started last, or NoTimer
    elapsed,     \* ticks since the ref startTime
    completed,   \* the ref
    deleting,    \* onConfirm calls under way; isPending if there are any
    presses, confirms,
    held,        \* history: ticks the button has been down without a break
    fullHolds,   \* history: holds that reached the full duration
    doubled      \* history: it was pressed again while it was down

holdVars == <<dialogOpen, pressed, timers, holdTimer, elapsed, completed, deleting,
              presses, confirms, held, fullHolds, doubled>>

HoldInit ==
    /\ dialogOpen = FALSE /\ pressed = 0
    /\ timers = {} /\ holdTimer = NoTimer /\ elapsed = 0 /\ completed = FALSE
    /\ deleting = 0 /\ presses = 0 /\ confirms = 0
    /\ held = 0 /\ fullHolds = 0 /\ doubled = FALSE

Deleting == deleting > 0

\* The button reacts.
Live == dialogOpen /\ ~Deleting

FaultyCleanup == holdTimer' = NoTimer /\ UNCHANGED timers

Cleanup == timers' = timers \ {holdTimer} /\ holdTimer' = NoTimer

-----------------------------------------------------------------------------
OpenDialog ==
    /\ ~dialogOpen /\ dialogOpen' = TRUE
    /\ presses < MaxPresses
    /\ UNCHANGED <<pressed, timers, holdTimer, elapsed, completed, deleting,
                   presses, confirms, held, fullHolds, doubled>>

\* The cross, the overlay and Cancel, all without effect during a deletion.
HandleOpenChange ==
    /\ Live
    /\ dialogOpen' = FALSE
    /\ Cleanup
    /\ completed' = FALSE
    /\ held' = 0
    /\ UNCHANGED <<pressed, elapsed, deleting, presses, confirms, fullHolds, doubled>>

StartHold ==
    /\ Live /\ presses < MaxPresses
    /\ presses' = presses + 1 /\ pressed' = pressed + 1
    /\ timers' = timers \cup {presses + 1} /\ holdTimer' = presses + 1
    /\ elapsed' = 0 /\ completed' = FALSE
    /\ doubled' = (doubled \/ pressed > 0)
    /\ UNCHANGED <<dialogOpen, deleting, confirms, held, fullHolds>>

\* A pointer is lifted or leaves; a button that is gone or disabled gets no event.
EndHold ==
    /\ pressed > 0 /\ pressed' = pressed - 1
    /\ held' = IF pressed = 1 THEN 0 ELSE held
    /\ IF Live /\ ~completed THEN Cleanup ELSE UNCHANGED <<timers, holdTimer>>
    /\ UNCHANGED <<dialogOpen, elapsed, completed, deleting, presses, confirms,
                   fullHolds, doubled>>

Tick ==
    /\ timers # {} /\ elapsed < HoldDuration
    /\ elapsed' = elapsed + 1
    /\ IF Live /\ pressed > 0
       THEN held' = held + 1 /\ fullHolds' = fullHolds + (IF held + 1 = HoldDuration THEN 1 ELSE 0)
       ELSE UNCHANGED <<held, fullHolds>>
    /\ UNCHANGED <<dialogOpen, pressed, timers, holdTimer, completed, deleting,
                   presses, confirms, doubled>>

\* An interval's callback once the time is up: handleConfirm calls onConfirm.
TimerFires(t) ==
    /\ t \in timers /\ elapsed >= HoldDuration
    /\ confirms < MaxConfirms
    /\ Cleanup
    /\ completed' = TRUE
    /\ deleting' = deleting + 1 /\ confirms' = confirms + 1
    /\ UNCHANGED <<dialogOpen, pressed, elapsed, presses, held, fullHolds, doubled>>

\* The server action answers, with or without an alert, and onClose is called.
Deleted ==
    /\ Deleting
    /\ deleting' = deleting - 1
    /\ dialogOpen' = FALSE
    /\ UNCHANGED <<pressed, timers, holdTimer, elapsed, completed, presses, confirms,
                   held, fullHolds, doubled>>

HoldNext ==
    \/ OpenDialog \/ HandleOpenChange \/ StartHold \/ EndHold \/ Tick \/ Deleted
    \/ \E t \in timers : TimerFires(t)

HoldSpec == HoldInit /\ [][HoldNext]_holdVars

-----------------------------------------------------------------------------
HoldTypeOK ==
    /\ timers \subseteq 1..MaxPresses /\ holdTimer \in timers \cup {NoTimer}
    /\ elapsed \in 0..HoldDuration /\ {pressed, held, fullHolds, deleting} \subseteq Nat
    /\ dialogOpen \in BOOLEAN /\ completed \in BOOLEAN /\ doubled \in BOOLEAN

\* "Press and hold for 2.5 seconds to confirm": every deletion that is sent was
\* preceded by a hold of its own, without a break and of the full duration,
\* unless the button was ever pressed again while it was down (the first timer
\* then runs on unnamed).
ConfirmedByHolding == confirms > fullHolds => doubled

\* ConfirmDeleteDialog.tsx:116, however the button is pressed: "Press and hold the
\* button below for 2.5 seconds to confirm."
HeldBeforeConfirming == confirms <= fullHolds

=============================================================================
