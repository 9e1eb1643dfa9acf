---------------------------- MODULE DrawingBoard ----------------------------
(***************************************************************************)
(* lib/drawings/useDrawings.js and the bars around the chart that call it: *)
(* the tools, the pointer, the keyboard, the text editor, the locks, the   *)
(* drafts and the history of one mounted chart.  Every handler is          *)
(* synchronous; what interleaves is the user's gestures, of which a drag,  *)
(* a half-built shape and an open editor take several, and the load.       *)
(* Hiding the drawings only takes them from under the pointer.             *)
(***************************************************************************)
EXTENDS Naturals, Sequences, SequencesExt

CONSTANTS None,
          HistoryLimit,
          Stored,      \* the shapes the load brings
          Draft,       \* the shapes of a saved draft
          FirstId,     \* the number of the first shape drawn; those above have lower ones
          MaxId,       \* bound: shapes drawn are numbered up to it
          MaxEdits     \* bound: different edits committed

VARIABLES
    shapes, saved,       \* on screen; last persisted
    loaded,              \* has the load resolved
    past, future,        \* the history, newest last
    tool, pending,       \* the active tool; is a shape half built
    drag,                \* None, or [id, moved, start]
    selected,            \* the id selected
    editing,             \* None, or [shape, new]
    lockAll,             \* the preference that locks them all
    nextId,
    edits,               \* history: the pairs <<before, after>> that were committed
    interrupted          \* history: an edit fell into a drag, or before the load

gesture == <<tool, pending, drag, editing>>
vars == <<shapes, saved, loaded, past, future, gesture, selected, lockAll, nextId, edits, interrupted>>

Tools == {"line", "text", "brush"}

\* v stands for the points, the style and the text: every change flips it.
Shape(id, kind) == [id |-> id, kind |-> kind, v |-> 0, locked |-> FALSE]

Ids(drawing) == {s.id : s \in drawing}
Replaced(s, t) == (shapes \ {s}) \cup {t}
Locked(s) == s.locked \/ lockAll
Typing == editing # None
MouseFree == drag = None /\ pending # "brush"
Cancelled == IF pending = None THEN pending ELSE None

\* What commit() does to the history.
Trail(prev) ==
    /\ past' = LET all == Append(past, prev) IN SubSeq(all, IF Len(all) > HistoryLimit THEN 2 ELSE 1, Len(all))
    /\ future' = <<>>

Persist(next) == shapes' = next /\ saved' = next

Interrupts == interrupted' = (interrupted \/ drag # None \/ ~loaded)

CommitFrom(next, prev) ==
    /\ Cardinality(edits) < MaxEdits
    /\ Trail(prev)
    /\ Persist(next)
    /\ edits' = edits \cup {<<prev, next>>}
    /\ UNCHANGED <<loaded, lockAll>>

Commit(next) == CommitFrom(next, shapes) /\ Interrupts

\* Load: what it brings replaces the screen; the history stays.
LoadResolves ==
    /\ ~loaded
    /\ loaded' = TRUE /\ shapes' = Stored
    /\ interrupted' = (interrupted \/ saved # Stored \/ drag # None)
    /\ UNCHANGED <<saved, past, future, gesture, selected, lockAll, nextId, edits>>

\* The rail, or Alt and a letter: the same tool twice is none.
PickTool(t) ==
    /\ ~Typing
    /\ tool' = IF tool = t THEN None ELSE t
    /\ pending' = None /\ selected' = None
    /\ UNCHANGED <<shapes, saved, loaded, past, future, drag, editing, lockAll, nextId, edits, interrupted>>

Escape ==
    /\ ~Typing
    /\ IF pending # None THEN pending' = None /\ UNCHANGED <<tool, selected>>
       ELSE IF tool # None THEN tool' = None /\ UNCHANGED <<pending, selected>>
       ELSE selected' = None /\ UNCHANGED <<tool, pending>>
    /\ UNCHANGED <<shapes, saved, loaded, past, future, drag, editing, lockAll, nextId, edits, interrupted>>

\* Mutant: the shape's own lock is not looked at.
Draggable_lockAllOnly(s) == ~lockAll

Draggable(s) == ~Locked(s)

\* No tool: the shape under the pointer is selected, and dragged unless locked.
PressShape(s) ==
    /\ tool = None /\ ~Typing /\ MouseFree
    /\ selected' = s.id
    /\ drag' = IF Draggable(s) THEN [id |-> s.id, moved |-> FALSE, start |-> shapes] ELSE None
    /\ UNCHANGED <<shapes, saved, loaded, past, future, tool, pending, editing, lockAll, nextId, edits, interrupted>>

PressEmpty ==
    /\ tool = None /\ ~Typing /\ MouseFree
    /\ selected' = None
    /\ UNCHANGED <<shapes, saved, loaded, past, future, gesture, lockAll, nextId, edits, interrupted>>

\* A click with a tool: the brush starts, a first point waits for the next one.
PressPoint ==
    /\ tool \in {"line", "brush"} /\ pending = None /\ ~Typing /\ MouseFree /\ nextId <= MaxId
    /\ pending' = tool
    /\ UNCHANGED <<shapes, saved, loaded, past, future, tool, drag, editing, selected, lockAll, nextId, edits, interrupted>>

\* The last point of a shape without text; the tool is put down.
FinishLine ==
    /\ pending = "line" /\ tool = "line" /\ MouseFree
    /\ Commit(shapes \cup {Shape(nextId, "line")})
    /\ selected' = nextId /\ nextId' = nextId + 1
    /\ tool' = None /\ pending' = None
    /\ UNCHANGED <<drag, editing>>

\* The last point of a text: nothing is committed before it is written.
FinishText ==
    /\ tool = "text" /\ ~Typing /\ MouseFree /\ nextId <= MaxId
    /\ editing' = [shape |-> Shape(nextId, "text"), new |-> TRUE]
    /\ nextId' = nextId + 1
    /\ tool' = None /\ pending' = None
    /\ UNCHANGED <<shapes, saved, loaded, past, future, drag, selected, lockAll, edits, interrupted>>

\* The pointer lets go of the brush, which stays the tool.
BrushUp(long) ==
    /\ pending = "brush"
    /\ pending' = None
    /\ IF long THEN Commit(shapes \cup {Shape(nextId, "line")}) /\ nextId' = nextId + 1
       ELSE UNCHANGED <<shapes, saved, loaded, past, future, lockAll, edits, interrupted, nextId>>
    /\ UNCHANGED <<tool, drag, editing, selected>>

Move(drawing, id) == {IF s.id = id THEN [s EXCEPT !.v = 1 - @] ELSE s : s \in drawing}

\* The screen follows the pointer; nothing is committed yet.
DragMove ==
    /\ drag # None
    /\ shapes' = Move(shapes, drag.id)
    /\ drag' = [drag EXCEPT !.moved = TRUE]
    /\ UNCHANGED <<saved, loaded, past, future, tool, pending, editing, selected, lockAll, nextId, edits, interrupted>>

BeforeDrag == drag.start

DragUp ==
    /\ drag # None
    /\ drag' = None
    /\ IF drag.moved THEN CommitFrom(shapes, BeforeDrag)
       ELSE UNCHANGED <<shapes, saved, loaded, past, future, lockAll, edits>>
    /\ interrupted' = (interrupted \/ (drag.moved /\ ~loaded))
    /\ UNCHANGED <<tool, pending, editing, selected, nextId>>

Deselected(drawing) == IF selected \in Ids(drawing) THEN selected ELSE None

Shown(drawing) == Persist(drawing)

\* The keyboard's undo and redo do not look at the pointer.
Undo ==
    /\ past # <<>> /\ ~Typing
    /\ past' = Front(past) /\ future' = Append(future, shapes)
    /\ Shown(Last(past))
    /\ selected' = Deselected(Last(past))
    /\ Interrupts
    /\ UNCHANGED <<loaded, gesture, lockAll, nextId, edits>>

Redo ==
    /\ future # <<>> /\ ~Typing
    /\ future' = Front(future) /\ past' = Append(past, shapes)
    /\ Shown(Last(future))
    /\ Interrupts
    /\ UNCHANGED <<loaded, gesture, selected, lockAll, nextId, edits>>

\* Delete, or the bar's button: never a locked shape.
Delete(s) ==
    /\ ~Typing /\ selected = s.id /\ ~Locked(s)
    /\ Commit(shapes \ {s})
    /\ selected' = None
    /\ UNCHANGED <<gesture, nextId>>

Clear ==
    /\ shapes # {} /\ ~Typing /\ MouseFree
    /\ Commit({})
    /\ selected' = None
    /\ UNCHANGED <<gesture, nextId>>

\* The style bar of the selected shape: locked shapes are only unlocked.
Restyle(s) ==
    /\ selected = s.id /\ ~Locked(s) /\ ~Typing /\ MouseFree
    /\ Commit(Replaced(s, [s EXCEPT !.v = 1 - @]))
    /\ UNCHANGED <<gesture, selected, nextId>>

ToggleLock(s) ==
    /\ selected = s.id /\ ~lockAll /\ ~Typing /\ MouseFree
    /\ Commit(Replaced(s, [s EXCEPT !.locked = ~@]))
    /\ UNCHANGED <<gesture, selected, nextId>>

LockAll ==
    /\ ~Typing /\ MouseFree
    /\ lockAll' = ~lockAll
    /\ UNCHANGED <<shapes, saved, loaded, past, future, gesture, selected, nextId, edits, interrupted>>

\* A double click on a text, or the bar's button.
StartEdit(s) ==
    /\ s.kind = "text" /\ ~Locked(s) /\ ~Typing /\ MouseFree /\ tool = None
    /\ editing' = [shape |-> s, new |-> FALSE]
    /\ UNCHANGED <<shapes, saved, loaded, past, future, tool, pending, drag, selected, lockAll, nextId, edits, interrupted>>

\* Enter, or a click elsewhere, with a text that says something new.
CommitText ==
    /\ Typing
    /\ Commit(IF editing.new THEN shapes \cup {editing.shape} ELSE Move(shapes, editing.shape.id))
    /\ selected' = IF editing.new THEN editing.shape.id ELSE selected
    /\ editing' = None
    /\ UNCHANGED <<tool, pending, drag, nextId>>

\* Escape, or a text left empty or as it was.
CancelEdit ==
    /\ Typing
    /\ editing' = None
    /\ UNCHANGED <<shapes, saved, loaded, past, future, tool, pending, drag, selected, lockAll, nextId, edits, interrupted>>

\* A draft is loaded in place of the drawings.
ReplaceShapes ==
    /\ ~Typing /\ MouseFree /\ shapes # Draft
    /\ Commit(Draft)
    /\ selected' = None
    /\ UNCHANGED <<gesture, nextId>>

\* A draft is added: a shape whose id is taken gets a new one.
Renumbered(s) == IF s.id \in Ids(shapes) THEN [s EXCEPT !.id = nextId + @] ELSE s

MergeShapes ==
    /\ ~Typing /\ MouseFree /\ shapes # {} /\ nextId <= MaxId
    /\ Commit(shapes \cup {Renumbered(s) : s \in Draft})
    /\ nextId' = nextId + FirstId
    /\ UNCHANGED <<gesture, selected>>

Init ==
    /\ shapes = {} /\ saved = Stored /\ loaded = FALSE
    /\ past = <<>> /\ future = <<>>
    /\ tool = None /\ pending = None /\ drag = None /\ editing = None
    /\ selected = None /\ lockAll = FALSE
    /\ nextId = FirstId /\ edits = {} /\ interrupted = FALSE

Wholesale == Undo \/ Redo \/ Clear \/ ReplaceShapes \/ LoadResolves

Next ==
    \/ Wholesale
    \/ \E t \in Tools : PickTool(t)
    \/ \E s \in shapes : PressShape(s) \/ Delete(s) \/ Restyle(s) \/ ToggleLock(s) \/ StartEdit(s)
    \/ PressEmpty \/ PressPoint \/ FinishLine \/ FinishText \/ BrushUp(TRUE) \/ BrushUp(FALSE)
    \/ DragMove \/ DragUp \/ Escape \/ LockAll \/ CommitText \/ CancelEdit \/ MergeShapes

Spec == Init /\ [][Next]_vars

(***************************************************************************)
(* Properties.                                                             *)
(***************************************************************************)
\* Undo and redo walk along the edits that were made, each step one of them,
\* whatever mixture of drags, texts, drafts, undos and redos came before; at
\* most HISTORY_LIMIT states are kept.  Only an edit that falls into a drag or
\* before the load breaks the walk.
UndoRetracesEdits ==
    LET now  == IF drag # None /\ drag.moved THEN drag.start ELSE shapes
        walk == past \o <<now>> \o Reverse(future) IN
    /\ Len(past) + Len(future) <= HistoryLimit
    /\ ~interrupted => \A i \in 1 .. Len(walk) - 1 : <<walk[i], walk[i + 1]>> \in edits

\* Between gestures, what is on the screen is what was persisted: no way of
\* changing the drawings forgets to save them.
ScreenIsSaved ==
    loaded /\ ~interrupted /\ (drag = None \/ ~drag.moved) => saved = shapes

\* A locked shape is neither moved, restyled, rewritten nor deleted: only an
\* undo, a redo, a draft, "remove all" or the load replaces it.
LocksHold ==
    Wholesale \/ interrupted \/
    \A s \in shapes : Locked(s) => \E t \in shapes' : t.id = s.id /\ t.v = s.v

LockedShapesHold == [][LocksHold]_vars
=============================================================================
