----------------------------- MODULE Watchlists -----------------------------
(***************************************************************************)
(* The Watchlist page (components/WatchlistPanel.jsx, useWatchlists.js,    *)
(* useLocalOrder.js): named lists kept by the server, one of them on the   *)
(* screen, in an order of the user's own that only this browser keeps.     *)
(* The list ids and the tickers stand for themselves; names and notes,     *)
(* quotes and sparklines are left out.                                     *)
(***************************************************************************)
EXTENDS Naturals, FiniteSets, Sequences, SequencesExt

CONSTANTS
    Tickers,
    NoList,         \* no list chosen: 0
    MaxLists,       \* bound: lists ever created
    MaxActs,        \* bound: what the user does
    MaxLosses       \* bound: requests that fail

VARIABLES
    rows,           \* server: list -> ticker -> when it was added, 0 where it is not on it
    served,         \* server: the lists, oldest first
    created, clock, \* server: lists ever made, and the last time stamp
    lists, activeId, items,     \* useWatchlists
    orders,         \* localStorage: list -> arrangement
    calls,          \* requests that were made and not answered yet
    acts, failed,
    crossed         \* ghost: two requests overlapped, or one failed

server == <<rows, served, created, clock>>
screen == <<lists, activeId, items>>
vars   == <<server, screen, orders, calls, acts, failed, crossed>>

Ids    == 1..MaxLists
Stamps == 0..(Cardinality(Tickers) + MaxActs)
Ops    == {"lists", "items", "add", "remove", "move", "create", "delete"}
CallRecords ==
    [id : 0..(MaxActs + 1), op : Ops, list : Ids \cup {NoList}, to : Ids \cup {NoList},
     ticker : Tickers \cup {NoList}, at : {"sent", "answered", "refused"}, alive : BOOLEAN,
     answer : [items : Seq(Tickers), lists : Seq(Ids)]]

TypeOK ==
    /\ rows \in [Ids -> [Tickers -> Stamps]] /\ clock \in Stamps
    /\ served \in Seq(Ids) /\ lists \in Seq(Ids) /\ created \in Ids
    /\ activeId \in Ids \cup {NoList} /\ items \in Seq(Tickers)
    /\ orders \in [Ids -> Seq(Tickers)] /\ calls \subseteq CallRecords
    /\ acts \in 0..MaxActs /\ failed \in 0..MaxLosses /\ crossed \in BOOLEAN

\* db.get_watchlist: the newest first.
Listed(table, l) ==
    IF l = NoList THEN <<>>
    ELSE SetToSortSeq({t \in Tickers : table[l][t] # 0}, LAMBDA t, u : table[l][t] > table[l][u])

NoAnswer == [items |-> <<>>, lists |-> <<>>]
Call(n, op, l, to, t) ==
    [id |-> n, op |-> op, list |-> l, to |-> to, ticker |-> t, at |-> "sent", alive |-> TRUE,
     answer |-> NoAnswer]

\* Two lists, with every ticker on the first, one after the other; the browser may remember an
\* arrangement of it.
Init ==
    LET held == SetToSeq(Tickers) IN
    /\ rows = [l \in Ids |-> [t \in Tickers |-> IF l = 1 THEN CHOOSE i \in DOMAIN held : held[i] = t ELSE 0]]
    /\ served = <<1, 2>> /\ created = 2 /\ clock = Len(held)
    /\ lists = <<>> /\ activeId = NoList /\ items = <<>>
    /\ orders \in {[l \in Ids |-> IF l = 1 THEN o ELSE <<>>] : o \in {<<>>, held}}
    /\ calls = {Call(0, "lists", NoList, NoList, NoList)}
    /\ acts = 0 /\ failed = 0 /\ crossed = FALSE

(***************************************************************************)
(* The order of the rows: the arrangement of the active list is read when  *)
(* the list is chosen and written with every change of it, so it is the    *)
(* one that is stored.                                                     *)
(***************************************************************************)
order == IF activeId = NoList THEN <<>> ELSE orders[activeId]

\* The saved arrangement of what is still there, behind what it does not know.
ordered ==
    LET known == SelectSeq(order, LAMBDA t : t \in ToSet(items))
    IN  SelectSeq(items, LAMBDA t : t \notin ToSet(order)) \o known

Acts == acts < MaxActs /\ acts' = acts + 1

Persist(next) ==
    /\ activeId # NoList /\ Acts
    /\ orders' = [orders EXCEPT ![activeId] = next]
    /\ UNCHANGED <<server, screen, calls, failed, crossed>>

Swapped(s, i) == [s EXCEPT ![i] = s[i + 1], ![i + 1] = s[i]]

\* A row is dragged past its neighbour, or moved one step with the menu or the arrow keys.
moveBy(i) == i \in 1..(Len(ordered) - 1) /\ Persist(Swapped(ordered, i))

resetOrder == order # <<>> /\ Persist(<<>>)

(***************************************************************************)
(* Asking.  Nothing is disabled while an answer is awaited but "Add".      *)
(***************************************************************************)
Adding == \E c \in calls : c.op = "add"

\* What the page offers: [list, to, ticker] of a call.
Offered(op) ==
    CASE op = "add"    -> {<<activeId, NoList, t>> : t \in IF Adding THEN {} ELSE Tickers}
      [] op = "remove" -> {<<activeId, NoList, t>> : t \in ToSet(items)}
      [] op = "move"   -> {<<activeId, l, t>> : l \in ToSet(lists) \ {activeId}, t \in ToSet(items)}
      [] op = "create" -> {<<NoList, NoList, NoList>>}
      [] op = "delete" -> {<<l, NoList, NoList>> : l \in IF Len(lists) > 1 THEN {activeId} ELSE {}}

Asked(new, table) == calls' = table \cup {new} /\ crossed' = (crossed \/ table # {})

Ask(op) ==
    /\ activeId # NoList /\ Acts
    /\ \E o \in Offered(op) : Asked(Call(acts + 1, op, o[1], o[2], o[3]), calls)
    /\ UNCHANGED <<server, screen, orders, failed>>

\* The effect of another active list: earlier loads are dead, and its items are asked for.
Activated(l, table, n) ==
    LET settled == {[c EXCEPT !.alive = @ /\ c.op # "items"] : c \in table}
    IN  settled \cup {Call(n, "items", l, NoList, NoList)}

selectList(l) ==
    /\ l \in ToSet(lists) /\ l # activeId /\ Acts
    /\ activeId' = l
    /\ calls' = Activated(l, calls, acts + 1)
    /\ crossed' = (crossed \/ calls # {})
    /\ UNCHANGED <<server, lists, items, orders, failed>>

(***************************************************************************)
(* The server.                                                             *)
(***************************************************************************)
Exists(l) == l \in ToSet(served)

\* Each changes rows, served, created and clock, or refuses.
addWatch(c) ==
    /\ clock' = clock + 1
    /\ rows' = IF rows[c.list][c.ticker] = 0 THEN [rows EXCEPT ![c.list][c.ticker] = clock + 1] ELSE rows
    /\ UNCHANGED <<served, created>>

removeWatch(c) ==
    /\ rows' = [rows EXCEPT ![c.list][c.ticker] = 0]
    /\ UNCHANGED <<served, created, clock>>

\* The row keeps its time stamp; a list that holds the ticker already keeps its own row.
updateWatch(c) ==
    LET there == rows[c.to][c.ticker] IN
    /\ rows' = [rows EXCEPT ![c.list][c.ticker] = 0,
                            ![c.to][c.ticker] = IF there # 0 THEN there ELSE rows[c.list][c.ticker]]
    /\ UNCHANGED <<served, created, clock>>

createWatchlist ==
    /\ created' = created + 1 /\ served' = Append(served, created + 1)
    /\ UNCHANGED <<rows, clock>>

deleteWatchlist(c) ==
    /\ served' = SelectSeq(served, LAMBDA l : l # c.list)
    /\ rows' = [rows EXCEPT ![c.list] = [t \in Tickers |-> 0]]
    /\ UNCHANGED <<created, clock>>

\* Mutant: the server does not count the lists.
Allowed_anyDelete(c) ==
    CASE c.op = "move"   -> Exists(c.list) /\ Exists(c.to) /\ rows[c.list][c.ticker] # 0
      [] c.op = "delete" -> Exists(c.list)
      [] OTHER           -> TRUE

Allowed(c) ==
    CASE c.op = "move"   -> Exists(c.list) /\ Exists(c.to) /\ rows[c.list][c.ticker] # 0
      [] c.op = "delete" -> Len(served) > 1 /\ Exists(c.list)
      [] OTHER           -> TRUE

Changes(c) ==
    CASE c.op = "add"    -> addWatch(c)
      [] c.op = "remove" -> removeWatch(c)
      [] c.op = "move"   -> updateWatch(c)
      [] c.op = "create" -> createWatchlist
      [] c.op = "delete" -> deleteWatchlist(c)
      [] OTHER           -> UNCHANGED server

\* The list an answer is about: for a move, the one the ticker left.
AnswersOf(c) == c.list

Handle(c) ==
    /\ c.at = "sent" /\ (c.op = "create" => created < MaxLists)
    /\ IF Allowed(c) THEN Changes(c) ELSE UNCHANGED server
    /\ calls' = (calls \ {c}) \cup
          {IF Allowed(c)
           THEN [c EXCEPT !.at = "answered",
                          !.answer = [items |-> Listed(rows', AnswersOf(c)), lists |-> served']]
           ELSE [c EXCEPT !.at = "refused"]}
    /\ UNCHANGED <<screen, orders, acts, failed, crossed>>

(***************************************************************************)
(* An answer: the items of whichever list it was made for are shown, but   *)
(* for a load whose effect was cleaned up.                                 *)
(***************************************************************************)
Shows(c) == c.op \in {"add", "remove", "move"} \/ (c.op = "items" /\ c.alive)

NextActive(c) ==
    CASE c.op = "lists" /\ activeId = NoList -> Head(c.answer.lists)
      [] c.op = "create"                     -> Last(c.answer.lists)
      [] c.op = "delete" /\ activeId = c.list -> Head(c.answer.lists)
      [] OTHER                               -> activeId

Arrive(c) ==
    LET left == calls \ {c} IN
    /\ c.at = "answered"
    /\ items' = IF Shows(c) THEN c.answer.items ELSE items
    /\ lists' = IF c.op \in {"lists", "create", "delete"} THEN c.answer.lists ELSE lists
    /\ activeId' = NextActive(c)
    /\ calls' = IF activeId' # activeId THEN Activated(activeId', left, c.id) ELSE left
    /\ UNCHANGED <<server, orders, acts, failed, crossed>>

\* A refusal, or a failure before or after the server did it: nothing changes on the screen.
Refused(c) ==
    /\ c.at = "refused" /\ calls' = calls \ {c}
    /\ UNCHANGED <<server, screen, orders, acts, failed, crossed>>

Fail(c) ==
    /\ failed < MaxLosses /\ failed' = failed + 1
    /\ calls' = calls \ {c} /\ crossed' = TRUE
    /\ UNCHANGED <<server, screen, orders, acts>>

Next ==
    \/ \E i \in 1..Len(items) : moveBy(i)
    \/ resetOrder
    \/ \E op \in {"add", "remove", "move", "create", "delete"} : Ask(op)
    \/ \E l \in Ids : selectList(l)
    \/ \E c \in calls : Handle(c) \/ Arrive(c) \/ Refused(c) \/ Fail(c)

Spec == Init /\ [][Next]_vars

\* However many deletes are under way, the account keeps a list
\* (db.delete_watchlist: "Refuses to remove a user's only list").
AListRemains == served # <<>>

\* "a saved order never hides or reorders real data": the rows shown are the rows loaded, each once,
\* whatever arrangement the browser remembers of them (useLocalOrder.js 17-23).
OrderHidesNothing == Len(ordered) = Len(items) /\ ToSet(ordered) = ToSet(items)

\* When nothing is under way and the requests so far came one after another, the page shows what
\* the server keeps of the list it names, and that list exists (useWatchlists.js 4-8).
ShownIsStored ==
    (calls = {} /\ ~crossed) =>
        /\ lists = served /\ activeId \in ToSet(served)
        /\ items = Listed(rows, activeId)

\* useWatchlists.js 7: "so the UI never drifts".
ItemsAreOfTheActiveList == (calls = {} /\ failed = 0) => items = Listed(rows, activeId)

\* useLocalOrder.js 20-21: a newly added ticker goes to the front.
NewTickersComeFirst ==
    (calls = {} /\ ~crossed /\ items # <<>> /\ rows[activeId][Head(items)] = clock /\ acts > 0)
        => Head(ordered) = Head(items)
=============================================================================
