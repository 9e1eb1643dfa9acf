------------------------------- MODULE Tooltips -------------------------------
(***************************************************************************)
(* Tooltip.jsx: every trigger of a page with its tooltip, and the group    *)
(* they share.  The handlers of the component are operators on the state   *)
(* of all tooltips, for one gesture of the user calls several of them, on  *)
(* several triggers: a press blurs one, dismisses another and lands on a   *)
(* third.  Delays are timers that have not fired yet.                      *)
(***************************************************************************)
EXTENDS Naturals

CONSTANTS
    Triggers,
    ClickTriggers,  \* those that open on a click, and stay (openOnClick)
    None,
    MaxGestures     \* bound: what the user does

VARIABLES
    tips,           \* per trigger, the state of its Tooltip
    group,          \* the tooltip that is open, and whether one was moments ago
    pointer,        \* where the mouse is: over a trigger, over a bubble, or "away"
    focused,        \* the trigger with the focus
    gestures,
    pressed         \* ghost: pressed with the mouse, which has not left the trigger since

vars == <<tips, group, pointer, focused, gestures, pressed>>

Closed == [open |-> FALSE, mode |-> "none", suppressed |-> FALSE, disabled |-> FALSE,
           opening |-> "none", closing |-> FALSE, pressing |-> "none"]

Places == {<<"away", None>>} \cup ({"trigger", "bubble"} \X Triggers)
Away   == <<"away", None>>

TypeOK ==
    /\ tips \in [Triggers ->
            [open : BOOLEAN, mode : {"none", "hover", "focus", "touch", "click"}, suppressed : BOOLEAN,
             disabled : BOOLEAN, opening : {"none", "show", "skip"}, closing : BOOLEAN,
             pressing : {"none", "show", "skip"}]]
    /\ group \in [owner : Triggers \cup {None}, recent : BOOLEAN]
    /\ pointer \in Places /\ focused \in Triggers \cup {None}
    /\ gestures \in 0..MaxGestures /\ pressed \subseteq Triggers

Init ==
    /\ tips = [t \in Triggers |-> Closed]
    /\ group = [owner |-> None, recent |-> FALSE]
    /\ pointer = Away /\ focused = None /\ gestures = 0 /\ pressed = {}

(***************************************************************************)
(* The component's functions, on s = [tips, group].                        *)
(***************************************************************************)
State == [tips |-> tips, group |-> group]

shown(s, t) == s.tips[t].open /\ ~s.tips[t].disabled

Set(s, t, field, value) == [s EXCEPT !.tips[t] = [@ EXCEPT ![field] = value]]

releaseGroup(g, t) == IF g.owner = t THEN [owner |-> None, recent |-> TRUE] ELSE g

hide(s, t) ==
    [tips  |-> [s.tips EXCEPT ![t] = [@ EXCEPT !.open = FALSE, !.mode = "none", !.opening = "none",
                                              !.closing = FALSE, !.pressing = "none"]],
     group |-> releaseGroup(s.group, t)]

\* Mutant: the tooltip that was open is left open.
claimGroup_sparing(s, t) == [s EXCEPT !.group.owner = t]

claimGroup(s, t) ==
    LET alone == IF s.group.owner \in {None, t} THEN s ELSE hide(s, s.group.owner)
    IN  [alone EXCEPT !.group.owner = t]

\* `ready`: the tooltip was not disabled when the caller was made - a timer calls an old `show`.
showIf(ready, s, t, how) ==
    IF ~ready THEN s
    ELSE LET c == claimGroup(s, t) IN
         [c EXCEPT !.tips[t] = [@ EXCEPT !.open = TRUE, !.mode = how, !.opening = "none", !.closing = FALSE]]

show(s, t, how) == showIf(~s.tips[t].disabled, s, t, how)

Delayed(s, t) == IF s.tips[t].disabled THEN "skip" ELSE "show"

scheduleClose(s, t) == Set(s, t, "closing", TRUE)

groupIsWarm(s) == s.group.owner # None \/ s.group.recent

onPointerEnter(s, t) ==
    LET kept == Set(s, t, "closing", FALSE) IN
    IF s.tips[t].open \/ s.tips[t].suppressed THEN kept
    ELSE IF groupIsWarm(s) THEN show(kept, t, "hover")
    ELSE Set(kept, t, "opening", Delayed(s, t))

onPointerLeave(s, t) ==
    LET left == Set(Set(s, t, "opening", "none"), t, "suppressed", FALSE) IN
    IF s.tips[t].mode = "hover" THEN scheduleClose(left, t) ELSE left

onPointerDown(s, t) ==
    IF t \in ClickTriggers THEN s
    ELSE LET down == Set(Set(s, t, "opening", "none"), t, "suppressed", TRUE)
         IN  IF s.tips[t].open THEN hide(down, t) ELSE down

onClick(s, t) ==
    IF t \in ClickTriggers
    THEN IF s.tips[t].open /\ s.tips[t].mode = "click" THEN hide(s, t) ELSE show(s, t, "click")
    ELSE IF s.tips[t].open /\ s.tips[t].mode # "touch" THEN hide(s, t) ELSE s

onFocus(s, t) == show(Set(s, t, "suppressed", FALSE), t, "focus")

onBlur(s, t) ==
    IF t = None THEN s
    ELSE LET free == Set(s, t, "suppressed", FALSE)
         IN  IF s.tips[t].mode \in {"focus", "click"} THEN hide(free, t) ELSE free

\* The dismissal listeners exist while their tooltip is shown; only one can be.
onDown(s, inside) ==
    LET o == s.group.owner IN IF o # None /\ o # inside /\ shown(s, o) THEN hide(s, o) ELSE s

onEscape(s) ==
    LET o == s.group.owner IN
    IF o # None /\ shown(s, o) THEN hide(Set(s, o, "suppressed", TRUE), o) ELSE s

(***************************************************************************)
(* Gestures.                                                               *)
(***************************************************************************)
Gesture == gestures < MaxGestures /\ gestures' = gestures + 1

Becomes(s) == tips' = s.tips /\ group' = s.group

Enter(t) ==
    /\ pointer = Away /\ Gesture
    /\ pointer' = <<"trigger", t>> /\ Becomes(onPointerEnter(State, t))
    /\ UNCHANGED <<focused, pressed>>

Leave(t) ==
    /\ pointer = <<"trigger", t>> /\ Gesture
    /\ pointer' = Away /\ Becomes(onPointerLeave(State, t))
    /\ pressed' = pressed \ {t} /\ UNCHANGED focused

EnterBubble(t) ==
    /\ pointer = Away /\ shown(State, t) /\ Gesture
    /\ pointer' = <<"bubble", t>> /\ Becomes(Set(State, t, "closing", FALSE))
    /\ UNCHANGED <<focused, pressed>>

LeaveBubble(t) ==
    /\ pointer = <<"bubble", t>> /\ Gesture
    /\ pointer' = Away
    /\ Becomes(IF tips[t].mode = "hover" THEN scheduleClose(State, t) ELSE State)
    /\ UNCHANGED <<focused, pressed>>

\* A mouse click on a trigger: the press, the focus it takes (not a visible one), the click.
Click(t) ==
    /\ pointer = <<"trigger", t>> /\ Gesture
    /\ LET down    == onPointerDown(onDown(State, t), t)
           blurred == IF focused = t THEN down ELSE onBlur(down, focused)
       IN  Becomes(onClick(blurred, t))
    /\ focused' = t /\ pressed' = IF t \in ClickTriggers THEN pressed ELSE pressed \cup {t}
    /\ UNCHANGED pointer

ClickElsewhere ==
    /\ pointer = Away /\ Gesture
    /\ Becomes(onBlur(onDown(State, None), focused)) /\ focused' = None
    /\ UNCHANGED <<pointer, pressed>>

\* Tab, and Enter or Space on what has the focus.
KeyFocus(t) ==
    /\ t # focused /\ Gesture
    /\ Becomes(onFocus(onBlur(State, focused), t)) /\ focused' = t /\ pressed' = pressed \ {t}
    /\ UNCHANGED pointer

KeyClick ==
    /\ focused # None /\ Gesture
    /\ Becomes(onClick(State, focused)) /\ UNCHANGED <<pointer, focused, pressed>>

Escape ==
    /\ Gesture /\ Becomes(onEscape(State)) /\ UNCHANGED <<pointer, focused, pressed>>

\* A finger, which is no pointer that hovers.
TouchDown(t) ==
    /\ pointer = Away /\ tips[t].pressing = "none" /\ Gesture
    /\ Becomes(Set(onDown(State, t), t, "pressing", Delayed(State, t)))
    /\ UNCHANGED <<pointer, focused, pressed>>

TouchUp(t) ==
    /\ tips[t].pressing # "none"
    /\ Becomes(Set(State, t, "pressing", "none"))
    /\ UNCHANGED <<pointer, focused, gestures, pressed>>

\* The page disables the tooltip, or enables it again (a menu that opens under it).
SetDisabled(t, value) ==
    /\ tips[t].disabled # value /\ pointer # <<"bubble", t>> /\ Gesture
    /\ Becomes(Set(State, t, "disabled", value))
    /\ UNCHANGED <<pointer, focused, pressed>>

\* The trigger is taken off the page, and a new one put there.
Unmount(t) ==
    /\ Gesture
    /\ tips' = [tips EXCEPT ![t] = Closed]
    /\ group' = IF group.owner = t THEN [group EXCEPT !.owner = None] ELSE group
    /\ pointer' = IF pointer[2] = t THEN Away ELSE pointer
    /\ focused' = IF focused = t THEN None ELSE focused
    /\ pressed' = pressed \ {t}

(***************************************************************************)
(* Timers.                                                                 *)
(***************************************************************************)
OpenTimer(t) ==
    /\ tips[t].opening # "none"
    /\ Becomes(showIf(tips[t].opening = "show", Set(State, t, "opening", "none"), t, "hover"))
    /\ UNCHANGED <<pointer, focused, gestures, pressed>>

CloseTimer(t) ==
    /\ tips[t].closing /\ Becomes(hide(State, t))
    /\ UNCHANGED <<pointer, focused, gestures, pressed>>

PressTimer(t) ==
    /\ tips[t].pressing # "none"
    /\ Becomes(showIf(tips[t].pressing = "show", Set(State, t, "pressing", "none"), t, "touch"))
    /\ UNCHANGED <<pointer, focused, gestures, pressed>>

\* WARM_WINDOW_MS are over.
GroupCools ==
    /\ group.recent /\ group' = [group EXCEPT !.recent = FALSE]
    /\ UNCHANGED <<tips, pointer, focused, gestures, pressed>>

Next ==
    \/ \E t \in Triggers :
          \/ Enter(t) \/ Leave(t) \/ EnterBubble(t) \/ LeaveBubble(t) \/ Click(t) \/ KeyFocus(t)
          \/ TouchDown(t) \/ TouchUp(t) \/ Unmount(t)
          \/ \E value \in BOOLEAN : SetDisabled(t, value)
          \/ OpenTimer(t) \/ CloseTimer(t) \/ PressTimer(t)
    \/ ClickElsewhere \/ KeyClick \/ Escape \/ GroupCools

Fairness == \A t \in Triggers : WF_vars(OpenTimer(t)) /\ WF_vars(CloseTimer(t)) /\ WF_vars(PressTimer(t))

Spec == Init /\ [][Next]_vars /\ Fairness

\* One tooltip at a time: whichever is open owns the group, through every mix of hover, focus,
\* touch and click, timers that fire late included (Tooltip.jsx 18-20, 68-84).
OneTooltipAtATime == \A t \in Triggers : tips[t].open => group.owner = t

\* Pressing a trigger keeps hovering from opening it again until the pointer has left
\* (Tooltip.jsx 29): no timer from before the press brings it back.
PressedStaysHidden == \A t \in pressed : tips[t].mode # "hover"

OverIt(t) == pointer \in {<<"trigger", t>>, <<"bubble", t>>}

\* A tooltip that hovering opened closes once the pointer is over neither trigger nor bubble.
HoverEnds ==
    \A t \in Triggers :
        (tips[t].open /\ tips[t].mode = "hover" /\ ~OverIt(t)) ~> (~tips[t].open \/ OverIt(t) \/ tips[t].mode # "hover")
=============================================================================
