-------------------------------- MODULE Menus --------------------------------
(***************************************************************************)
(* The menus of the dashboard - the "..." of a row or a picker             *)
(* (MenuButton, SelectMenu), the account menu, the bell, the drafts and    *)
(* the snapshot of the chart - and the dialog of a page (Dialog).  Each    *)
(* listens to the document by itself: to presses, to close when one is     *)
(* outside, and to Escape.                                                 *)
(*                                                                         *)
(* Menus are drawn by Popover at the end of the document.  The focus is on *)
(* a menu's trigger, on one of its items, in a dialog, or somewhere else   *)
(* on the page.                                                            *)
(***************************************************************************)
EXTENDS Naturals, Sequences, FiniteSets

CONSTANTS
    Menus,          \* the menus on the page, each of another kind
    MaxGestures     \* bound

(***************************************************************************)
(* closes : whether choosing an item closes the menu                       *)
(* enters : opening it moves the focus to its first item                   *)
(* returns: Escape moves the focus back to its trigger                     *)
(* late   : it opens when the chart has been captured, not when it is      *)
(*          pressed                                                        *)
(* own    : it opens a dialog of its own, and stays open under it          *)
(***************************************************************************)
MenuButton   == [closes |-> {TRUE}, enters |-> TRUE, returns |-> TRUE, late |-> FALSE, own |-> FALSE]
UserMenu     == [MenuButton EXCEPT !.enters = FALSE, !.returns = FALSE]
AlertsBell   == [UserMenu EXCEPT !.closes = {FALSE}]
DraftsMenu   == [AlertsBell EXCEPT !.closes = BOOLEAN, !.own = TRUE]
SnapshotMenu == [UserMenu EXCEPT !.closes = BOOLEAN, !.returns = TRUE, !.late = TRUE]

Contract ==
    [MenuButton |-> MenuButton, UserMenu |-> UserMenu, AlertsBell |-> AlertsBell,
     DraftsMenu |-> DraftsMenu, SnapshotMenu |-> SnapshotMenu]

VARIABLES
    open,           \* the menus that are open, in the order they were opened
    capturing,      \* late menus that are to open
    dialog,         \* "none", "page" for a Dialog, or "own" for the one of the drafts
    focus,          \* [on, menu]
    unpressed,      \* history: a menu came up without a press on its trigger
    gestures

vars == <<open, capturing, dialog, focus, unpressed, gestures>>

Place(on, m) == [on |-> on, menu |-> m]
Trigger(m)   == Place("trigger", m)
Item(m)      == Place("item", m)
First        == Place("first", "none")      \* of a dialog: where the focus enters it
Field        == Place("field", "none")      \* of a dialog: anything else
Page         == Place("page", "none")

InDialog == {First, Field}
Places   == {Trigger(m) : m \in Menus} \cup {Item(m) : m \in Menus} \cup InDialog \cup {Page}

Opened == {open[i] : i \in DOMAIN open}

TypeOK ==
    /\ Opened \subseteq Menus /\ Cardinality(Opened) = Len(open) /\ capturing \subseteq Menus
    /\ dialog \in {"none", "page", "own"} /\ focus \in Places
    /\ unpressed \in BOOLEAN /\ gestures \in 0..MaxGestures

Init ==
    /\ open = <<>> /\ capturing = {} /\ dialog = "none" /\ focus = Page
    /\ unpressed = FALSE /\ gestures = 0

Gesture == gestures < MaxGestures /\ gestures' = gestures + 1

Without(menus, closing) == SelectSeq(menus, LAMBDA m : m \notin closing)

\* An element that is gone leaves the focus to the page.
Still(place, menus) ==
    IF place.on = "item" /\ \A i \in DOMAIN menus : menus[i] # place.menu THEN Page ELSE place

\* A press closes every menu it is outside of; a portaled item is looked for in its menu.
PressedAt(place) == Without(open, {m \in Opened : place.menu # m})

\* The trigger was activated: the menu opens, closes, or starts to capture.
Toggled(m, others) ==
    /\ open' = CASE m \in Opened     -> Without(others, {m})
                 [] Contract[m].late -> others
                 [] OTHER            -> Append(others, m)
    /\ capturing' = IF Contract[m].late /\ m \notin Opened THEN capturing \cup {m} ELSE capturing
    /\ focus' = CASE m \notin Opened /\ Contract[m].enters -> Item(m)
                  [] m \notin Opened /\ Contract[m].late   -> Page      \* disabled while it captures
                  [] OTHER                                 -> Trigger(m)
    /\ UNCHANGED dialog

Enabled(m) == dialog = "none" /\ m \notin capturing

\* The snapshot is taken: its menu comes up, whatever is open by then.  Or it failed.
Captured(m) ==
    /\ m \in capturing /\ capturing' = capturing \ {m}
    /\ \/ open' = Append(open, m) /\ unpressed' = (unpressed \/ open # <<>>)
       \/ UNCHANGED <<open, unpressed>>
    /\ UNCHANGED <<dialog, focus, gestures>>

\* An item acts, and goes away with its menu or by itself.  One of the drafts may open their dialog.
Chosen(m, menus) ==
    /\ \E closing \in Contract[m].closes :
          /\ open' = IF closing THEN Without(menus, {m}) ELSE menus
          /\ \/ UNCHANGED dialog /\ focus' \in {Still(Item(m), open'), Page}
             \/ Contract[m].own /\ ~closing /\ dialog' = "own" /\ focus' = First
    /\ UNCHANGED capturing

(***************************************************************************)
(* The mouse.                                                              *)
(***************************************************************************)
Click(m) ==
    /\ Enabled(m) /\ Gesture /\ Toggled(m, PressedAt(Trigger(m))) /\ UNCHANGED unpressed

PressPage ==
    /\ dialog = "none" /\ open # <<>> /\ Gesture
    /\ open' = PressedAt(Page) /\ focus' = Page
    /\ UNCHANGED <<capturing, dialog, unpressed>>

Choose(m) ==
    /\ m \in Opened /\ dialog = "none" /\ Gesture
    /\ Chosen(m, PressedAt(Item(m))) /\ UNCHANGED unpressed

(***************************************************************************)
(* The keyboard.                                                           *)
(***************************************************************************)
\* Tab and the arrows: a Dialog keeps the focus in, the dialog of the drafts does not.
Tab(place) ==
    /\ place # focus /\ Gesture /\ focus' = place
    /\ place.on = "item" => place.menu \in Opened
    /\ place.on = "trigger" => place.menu \notin capturing
    /\ CASE dialog = "none" -> place \notin InDialog
         [] dialog = "page" -> place \in InDialog
         [] OTHER           -> TRUE
    /\ UNCHANGED <<open, capturing, dialog, unpressed>>

\* Enter is no press: the other menus stay.
Enter ==
    /\ dialog = "none" /\ Gesture
    /\ \/ /\ focus.on = "trigger" /\ Enabled(focus.menu)
          /\ Toggled(focus.menu, open) /\ unpressed' = TRUE
       \/ focus.on = "item" /\ Chosen(focus.menu, open) /\ UNCHANGED unpressed

(***************************************************************************)
(* Dialogs.                                                                *)
(***************************************************************************)
\* A button of the page opens one: pressed, or with the keyboard.
OpenDialog(pressed) ==
    /\ dialog = "none" /\ Gesture /\ (~pressed => focus = Page)
    /\ dialog' = "page" /\ focus' = First
    /\ open' = IF pressed THEN PressedAt(Page) ELSE open
    /\ UNCHANGED <<capturing, unpressed>>

\* The page renders again with another `onClose`: the effect of the Dialog runs anew.
Rerender ==
    /\ dialog = "page" /\ Gesture /\ focus' = First
    /\ UNCHANGED <<open, capturing, dialog, unpressed>>

\* A Dialog gives the focus back to the button that opened it (returnFocus); the one of the drafts
\* lets it fall.
CloseDialog(menus) ==
    /\ dialog' = "none" /\ open' = menus
    /\ focus' = IF focus \in InDialog THEN Page ELSE Still(focus, menus)

\* Its buttons, or the backdrop.  The drafts stay under their own dialog, and a press inside it
\* is not heard outside.
LeaveDialog(pressed) ==
    /\ dialog # "none" /\ Gesture
    /\ CloseDialog(CASE ~pressed        -> open
                     [] dialog = "page" -> PressedAt(First)
                     [] OTHER           -> Without(open, {m \in Opened : ~Contract[m].own}))
    /\ UNCHANGED <<capturing, unpressed>>

(***************************************************************************)
(* Escape.  A Dialog takes the key before the menus hear of it; the dialog *)
(* of the drafts does while it has the focus, and keeps its menu open when *)
(* it has not.                                                             *)
(***************************************************************************)
DialogHears == dialog = "page" \/ (dialog = "own" /\ focus \in InDialog)

Survivors == Without(open, {m \in Opened : ~(dialog = "own" /\ Contract[m].own)})

\* Every menu that returns the focus does so; the one that was opened last has the last word.
Returning == {i \in DOMAIN open : Contract[open[i]].returns}

FocusAfterEscape ==
    IF Returning = {} THEN Still(focus, Survivors)
    ELSE Trigger(open[CHOOSE i \in Returning : \A j \in Returning : j <= i])

Escape ==
    /\ (open # <<>> \/ dialog # "none") /\ Gesture
    /\ IF DialogHears THEN CloseDialog(open)
       ELSE open' = Survivors /\ focus' = FocusAfterEscape /\ UNCHANGED dialog
    /\ UNCHANGED <<capturing, unpressed>>

Next ==
    \/ \E m \in Menus : Captured(m) \/ Click(m) \/ Choose(m)
    \/ \E place \in Places : Tab(place)
    \/ \E pressed \in BOOLEAN : OpenDialog(pressed) \/ LeaveDialog(pressed)
    \/ PressPage \/ Enter \/ Rerender \/ Escape

Spec == Init /\ [][Next]_vars

\* Every menu only looks after itself, and yet one is open at a time - unless one came up by the
\* keyboard, or late; and the focus is on something that is there, inside a Dialog while one is open.
MenusAreOrderly ==
    /\ ~unpressed => Len(open) <= 1
    /\ focus.on = "item" => focus.menu \in Opened
    /\ focus \in InDialog => dialog # "none"
    /\ dialog = "page" => focus \in InDialog

\* Escape takes one layer: under a Dialog no menu hears it.  Where it closed a "..." menu the focus
\* is on a trigger, "so keyboard users aren't stranded" (MenuButton.jsx 40).
EscapePeels ==
    [][ Escape =>
          /\ dialog = "page" => dialog' = "none" /\ open' = open
          /\ dialog = "none" /\ (\E m \in Opened : Contract[m].enters) => focus'.on = "trigger" ]_vars

\* The focus enters a Dialog "on open" (Dialog.jsx 17), and from then on only the user moves it.
FocusIsTheUsers ==
    [][ dialog = "page" /\ dialog' = "page" /\ focus' # focus => \E place \in InDialog : Tab(place) ]_vars
==============================================================================
