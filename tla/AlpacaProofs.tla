---------------------------- MODULE AlpacaProofs ----------------------------
(***************************************************************************)
(* Proofs about the mirror of the Alpaca account.  Whatever the threads do *)
(* to each other, its tables stay solvent; and where one thread runs at a  *)
(* time, through restarts, lost answers and reconciles, no share is booked *)
(* twice and no order is shown as closed that is open at Alpaca.           *)
(***************************************************************************)
EXTENDS AlpacaBroker, LedgerRulesProofs

(***************************************************************************)
(* The first invariant, for any number of threads: what the tables hold,   *)
(* and what a thread carries from one call to the next.                    *)
(***************************************************************************)
Placed == {o \in Orders : orders[o] # None}
Sent   == {o \in Orders : broker[o] # None}

TablesOK ==
    /\ book \in Book /\ Solvent(book)
    /\ theirs \in Book /\ Solvent(theirs)
    /\ booked \in [Orders -> Nat]
    /\ orders \in [Orders -> {None} \cup Order]
    /\ broker \in [Orders -> {None} \cup View]
    /\ synced \in BOOLEAN /\ crashes \in 0..MaxCrashes
    /\ Sent \subseteq Placed
    /\ \A o \in Placed : orders[o].known => o \in Sent

\* A pull under way: the orders not yet applied, with Alpaca's answer for each.
IsSync(st, sent) ==
    /\ st = [op |-> "sync", seen |-> st.seen, resps |-> st.resps]
    /\ st.resps \in [DOMAIN st.resps -> View]
    /\ DOMAIN st.resps \subseteq sent

Shaped(st, placed, sent) ==
    \/ /\ st.op \in {"post", "refused"}
       /\ st.order \in placed
    \/ /\ st.op \in {"ack", "reread"}
       /\ st = [op |-> st.op, order |-> st.order, resp |-> st.resp]
       /\ st.order \in sent /\ st.resp \in View
    \/ /\ st.op = "apply"
       /\ st.order \in sent /\ st.resp \in View /\ st.mine \in Order
       /\ st.next # None => IsSync(st.next, sent)
    \/ /\ st.op \in {"delete", "get"}
       /\ st = [op |-> st.op, order |-> st.order, mine |-> st.mine]
       /\ st.order \in sent /\ st.mine \in Order
    \/ /\ st.op \in {"positions", "cash"}
       /\ st = [op |-> st.op, seen |-> st.seen]
       /\ st.seen \in Book /\ Solvent(st.seen)
    \/ st.op = "pull"
    \/ IsSync(st, sent)

ThreadsOK ==
    /\ thread = [p \in Threads |-> thread[p]]
    /\ \A p \in Threads : thread[p] # None => Shaped(thread[p], Placed, Sent)

Inv == TablesOK /\ ThreadsOK

(***************************************************************************)
(* The second, for one thread p: the order row in its hands is the one in  *)
(* the table, and an answer in its hands is one Alpaca has not gone back   *)
(* on: of the shares it names none is unfilled, and closed is closed.      *)
(***************************************************************************)
Stands(resp, view) ==
    /\ resp.filled <= view.filled
    /\ resp.status \notin OpenStatuses => view.status = resp.status

AllStand(st, views) == \A o \in DOMAIN st.resps : Stands(st.resps[o], views[o])

Current(st, rows, views) ==
    /\ st.op = "post" => views[st.order] = None
    /\ st.op = "refused" => ~rows[st.order].known
    /\ st.op \in {"ack", "reread", "apply"} => Stands(st.resp, views[st.order])
    /\ st.op \in {"apply", "delete", "get"} => st.mine = rows[st.order]
    /\ st.op = "apply" /\ st.next # None => AllStand(st.next, views)
    /\ st.op = "sync" => AllStand(st, views)

OneInv(p) ==
    /\ FilledIsBooked
    /\ NoShareBookedTwice
    /\ ClosedMeansClosedThere
    /\ thread[p] # None => Current(thread[p], orders, broker)

(***************************************************************************)
(* Where a thread stands.                                                  *)
(***************************************************************************)
\* Orders are neither taken back nor unsent, so what fits a thread goes on fitting.
LEMMA ShapedStays ==
    ASSUME NEW st, NEW placed, NEW sent, NEW placed2, NEW sent2,
           placed \subseteq placed2, sent \subseteq sent2, Shaped(st, placed, sent)
    PROVE  Shaped(st, placed2, sent2)
  BY DEF Shaped, IsSync

\* What the handlers hold at each of their steps has one of the shapes.
LEMMA Shapes ==
    ASSUME NEW placed, NEW sent, NEW o
    PROVE  /\ o \in placed => /\ Shaped([op |-> "post", order |-> o], placed, sent)
                              /\ Shaped([op |-> "refused", order |-> o], placed, sent)
           /\ \A resp \in View : o \in sent =>
                /\ Shaped([op |-> "ack", order |-> o, resp |-> resp], placed, sent)
                /\ Shaped([op |-> "reread", order |-> o, resp |-> resp], placed, sent)
           /\ \A resp \in View, mine \in Order : \A next :
                o \in sent /\ (next # None => IsSync(next, sent)) =>
                  Shaped([op |-> "apply", order |-> o, resp |-> resp, mine |-> mine, next |-> next],
                         placed, sent)
           /\ \A mine \in Order : o \in sent =>
                /\ Shaped([op |-> "delete", order |-> o, mine |-> mine], placed, sent)
                /\ Shaped([op |-> "get", order |-> o, mine |-> mine], placed, sent)
           /\ \A seen \in Book : Solvent(seen) =>
                /\ Shaped([op |-> "positions", seen |-> seen], placed, sent)
                /\ Shaped([op |-> "cash", seen |-> seen], placed, sent)
           /\ \A seen : Shaped([op |-> "pull", seen |-> seen], placed, sent)
<1>1. ASSUME o \in placed, NEW op \in {"post", "refused"}
      PROVE  Shaped([op |-> op, order |-> o], placed, sent)
  BY <1>1 DEF Shaped
<1>2. ASSUME o \in sent, NEW resp \in View, NEW op \in {"ack", "reread"}
      PROVE  Shaped([op |-> op, order |-> o, resp |-> resp], placed, sent)
  <2>1. PICK st : st = [op |-> op, order |-> o, resp |-> resp]
    OBVIOUS
  <2> QED BY <1>2, <2>1 DEF Shaped
<1>3. ASSUME o \in sent, NEW resp \in View, NEW mine \in Order, NEW next,
             next # None => IsSync(next, sent)
      PROVE  Shaped([op |-> "apply", order |-> o, resp |-> resp, mine |-> mine, next |-> next],
                    placed, sent)
  <2>1. PICK st : st = [op |-> "apply", order |-> o, resp |-> resp, mine |-> mine, next |-> next]
    OBVIOUS
  <2> QED BY <1>3, <2>1 DEF Shaped
<1>4. ASSUME o \in sent, NEW mine \in Order, NEW op \in {"delete", "get"}
      PROVE  Shaped([op |-> op, order |-> o, mine |-> mine], placed, sent)
  <2>1. PICK st : st = [op |-> op, order |-> o, mine |-> mine]
    OBVIOUS
  <2> QED BY <1>4, <2>1 DEF Shaped
<1>5. ASSUME NEW seen \in Book, Solvent(seen), NEW op \in {"positions", "cash"}
      PROVE  Shaped([op |-> op, seen |-> seen], placed, sent)
  <2>1. PICK st : st = [op |-> op, seen |-> seen]
    OBVIOUS
  <2> QED BY <1>5, <2>1 DEF Shaped
<1>6. ASSUME NEW seen PROVE Shaped([op |-> "pull", seen |-> seen], placed, sent)
  BY DEF Shaped
<1> QED BY <1>1, <1>2, <1>3, <1>4, <1>5, <1>6

\* And what each step finds in its hands.
LEMMA Holds ==
    ASSUME NEW st, NEW placed, NEW sent, Shaped(st, placed, sent)
    PROVE  /\ st.op \in {"post", "refused"} => st.order \in placed
           /\ st.op \in {"ack", "reread"} =>
                /\ st = [op |-> st.op, order |-> st.order, resp |-> st.resp]
                /\ st.order \in sent /\ st.resp \in View
           /\ st.op = "apply" =>
                /\ st.order \in sent /\ st.resp \in View /\ st.mine \in Order
                /\ st.next # None => IsSync(st.next, sent)
           /\ st.op \in {"delete", "get"} =>
                /\ st = [op |-> st.op, order |-> st.order, mine |-> st.mine]
                /\ st.order \in sent /\ st.mine \in Order
           /\ st.op \in {"positions", "cash"} =>
                /\ st = [op |-> st.op, seen |-> st.seen]
                /\ st.seen \in Book /\ Solvent(st.seen)
           /\ st.op = "sync" => IsSync(st, sent)
<1>1. IsSync(st, sent) => st.op = "sync"
  BY DEF IsSync
<1> QED BY <1>1 DEF Shaped

\* A step that moves no thread and keeps the tables' rows leaves every thread well placed.
LEMMA StillKeepsThreads ==
    ASSUME ThreadsOK, Placed \subseteq Placed', Sent \subseteq Sent', UNCHANGED thread
    PROVE  ThreadsOK'
  BY ShapedStays DEF ThreadsOK

\* A step that moves one thread to a well-formed place keeps them all well placed.
LEMMA MoveKeepsThreads ==
    ASSUME ThreadsOK, Placed \subseteq Placed', Sent \subseteq Sent',
           NEW p \in Threads, NEW st, Goto(p, st), st # None => Shaped(st, Placed', Sent')
    PROVE  ThreadsOK'
<1>1. /\ thread' = [q \in Threads |-> thread'[q]]
      /\ thread'[p] = st
      /\ \A q \in Threads \ {p} : thread'[q] = thread[q]
  BY DEF Goto, ThreadsOK
<1> QED BY <1>1, ShapedStays DEF ThreadsOK

\* With one order of the pull applied, the other answers are as they were.
LEMMA RestIsSync ==
    ASSUME NEW st, NEW sent, IsSync(st, sent), NEW o
    PROVE  /\ IsSync(Without(st, o), sent)
           /\ \A views : AllStand(st, views) => AllStand(Without(st, o), views)
<1>0. PICK rest : rest = Without(st, o)
  OBVIOUS
<1> DEFINE left == [x \in DOMAIN st.resps \ {o} |-> st.resps[x]]
<1>1. Restrict(st.resps, DOMAIN st.resps \ {o}) = left
  BY DEF Restrict
<1>2. rest = [op |-> "sync", seen |-> st.seen, resps |-> left]
  BY <1>0, <1>1 DEF IsSync, Without
<1>3. left \in [DOMAIN left -> View] /\ DOMAIN left \subseteq sent
  BY DEF IsSync
<1>4. IsSync(rest, sent)
  BY <1>2, <1>3 DEF IsSync
<1>5. rest.resps = left
  BY <1>2
<1>6. ASSUME NEW views, AllStand(st, views)
      PROVE  AllStand(rest, views)
  BY <1>5, <1>6 DEF AllStand
<1> QED BY <1>0, <1>4, <1>6

(***************************************************************************)
(* What the tables hold.                                                   *)
(***************************************************************************)
LEMMA FillIsRow ==
    ASSUME TablesOK, NEW o \in Placed, NEW qty \in Nat \ {0}
    PROVE  Row(o, qty) \in Rows(Orders) /\ Row(o, qty).qty = qty /\ Row(o, qty).side = orders[o].side
<1>1. orders[o].side \in TradeSides
  BY DEF TablesOK, Placed, Order
<1>2. Ticker \in Tickers /\ Currency \in Currencies /\ o \in Orders
  BY AlpacaAssumption DEF Placed
<1> QED BY <1>1, <1>2 DEF Row, TradeRow, Rows, IsCash, Sides, TradeSides, CashSides

\* A write to the row of an order that was placed.
LEMMA RowChange ==
    ASSUME TablesOK, NEW o \in Placed, NEW row \in Order, orders' = [orders EXCEPT ![o] = row],
           row.known => o \in Sent, UNCHANGED broker
    PROVE  /\ orders' \in [Orders -> {None} \cup Order]
           /\ Placed' = Placed /\ Sent' = Sent
           /\ \A x \in Placed' : orders'[x].known => x \in Sent'
<1>1. row # None /\ o \in Orders
  BY NoOrderAssumption DEF Placed
<1>2. orders' \in [Orders -> {None} \cup Order] /\ orders'[o] = row /\ \A x \in Orders \ {o} : orders'[x] = orders[x]
  BY <1>1 DEF TablesOK
<1> QED BY <1>1, <1>2 DEF TablesOK, Placed, Sent

\* A change of what Alpaca holds for one order keeps Alpaca's side well formed.
LEMMA ViewChange ==
    ASSUME TablesOK, NEW o \in Placed, NEW view \in View, broker' = [broker EXCEPT ![o] = view],
           UNCHANGED orders
    PROVE  /\ broker' \in [Orders -> {None} \cup View]
           /\ Placed' = Placed /\ Sent' = Sent \cup {o}
           /\ \A x \in Placed' : orders'[x].known => x \in Sent'
<1>1. view # None /\ o \in Orders
  BY NoOrderAssumption DEF Placed
<1>2. broker' \in [Orders -> {None} \cup View] /\ broker'[o] = view /\ \A x \in Orders \ {o} : broker'[x] = broker[x]
  BY <1>1 DEF TablesOK
<1> QED BY <1>1, <1>2 DEF TablesOK, Placed, Sent

\* The row as apply leaves it.
Applied(row, mine, resp, o) ==
    /\ Updated(mine, resp, o) = [orders EXCEPT ![o] = row]
    /\ row.status = resp.status /\ row.known = orders[o].known
    /\ row.filled = IF resp.filled > mine.filled THEN resp.filled ELSE orders[o].filled

\* What apply stores is a row of the orders table again.
LEMMA UpdatedIsRow ==
    ASSUME TablesOK, NEW o \in Placed, NEW mine \in Order, NEW resp \in View
    PROVE  \E row \in Order : Applied(row, mine, resp, o)
<1>1. orders[o] \in Order /\ o \in Orders /\ orders \in [Orders -> {None} \cup Order]
  BY DEF TablesOK, Placed
<1> DEFINE row == [orders[o] EXCEPT !.status = resp.status,
                     !.filled = IF resp.filled > mine.filled THEN resp.filled ELSE @]
<1>2. Updated(mine, resp, o) = [orders EXCEPT ![o] = row]
  BY <1>1 DEF Updated
<1>3. /\ row \in Order
      /\ row.status = resp.status /\ row.known = orders[o].known
      /\ row.filled = IF resp.filled > mine.filled THEN resp.filled ELSE orders[o].filled
  BY <1>1 DEF Order, View
<1> HIDE DEF row
<1>4. Applied(row, mine, resp, o)
  BY <1>2, <1>3 DEF Applied
<1> QED BY <1>3, <1>4

(***************************************************************************)
(* The steps that place an order.                                          *)
(***************************************************************************)
LEMMA PlaceKeepsInv ==
    ASSUME Inv, NEW p \in Threads, Place(p)
    PROVE  Inv'
<1> USE DEF Inv
<1>1. PICK o \in Orders, t \in Tickets :
        /\ orders[o] = None
        /\ orders' = [orders EXCEPT ![o] = [status |-> "new", side |-> t.side, qty |-> t.qty,
                                            filled |-> 0, known |-> FALSE]]
        /\ Goto(p, [op |-> "post", order |-> o])
  BY DEF Place
<1>2. PICK row : row = [status |-> "new", side |-> t.side, qty |-> t.qty, filled |-> 0, known |-> FALSE]
  OBVIOUS
<1>3. row \in Order /\ row # None /\ ~row.known
  <2>1. t.side \in TradeSides /\ t.qty \in Nat \ {0}
    BY AlpacaAssumption DEF Tickets, TradeSides
  <2>2. "new" \in OpenStatuses
    BY DEF OpenStatuses
  <2>3. row \in Order /\ ~row.known
    BY <1>2, <2>1, <2>2 DEF Order
  <2> QED BY <2>3, NoOrderAssumption
<1>4. UNCHANGED <<book, booked, broker, theirs, synced, crashes>>
  BY DEF Place
<1>5. orders' \in [Orders -> {None} \cup Order] /\ orders'[o] = row /\ \A x \in Orders \ {o} : orders'[x] = orders[x]
  BY <1>1, <1>2, <1>3 DEF TablesOK
<1>6. Placed' = Placed \cup {o} /\ Sent' = Sent
  BY <1>3, <1>4, <1>5 DEF Placed, Sent
<1>7. TablesOK'
  <2>1. \A x \in Placed' : orders'[x].known => x \in Sent'
    BY <1>3, <1>5, <1>6 DEF TablesOK, Placed
  <2> QED BY <1>4, <1>5, <1>6, <2>1 DEF TablesOK
<1>8. Shaped([op |-> "post", order |-> o], Placed', Sent')
  BY <1>6, Shapes
<1> QED BY <1>1, <1>6, <1>7, <1>8, MoveKeepsThreads

\* Sending an order: its place at Alpaca is new, whether or not the answer arrives.
LEMMA PostKeepsInv ==
    ASSUME Inv, NEW p \in Threads, Post(p)
    PROVE  Inv'
<1> USE DEF Inv
<1> DEFINE o == thread[p].order
<1>1. thread[p] # None /\ thread[p].op = "post" /\ o \in Placed
  BY Holds DEF Post, At, ThreadsOK
<1>2. PICK accepted : accepted = [status |-> "submitted", filled |-> 0]
  OBVIOUS
<1>3. accepted \in View
  BY <1>2 DEF View, OpenStatuses
<1>4. UNCHANGED <<book, booked, orders, theirs, synced, crashes>>
  BY DEF Post
<1> HIDE DEF o
<1>5. CASE /\ broker' = [broker EXCEPT ![o] = accepted]
           /\ \/ Goto(p, [op |-> "ack", order |-> o, resp |-> accepted])
              \/ Goto(p, [op |-> "refused", order |-> o])
  <2>1. /\ broker' \in [Orders -> {None} \cup View]
        /\ Placed' = Placed /\ Sent' = Sent \cup {o}
        /\ \A x \in Placed' : orders'[x].known => x \in Sent'
    BY <1>1, <1>3, <1>4, <1>5, ViewChange
  <2>2. TablesOK'
    BY <1>1, <1>4, <2>1 DEF TablesOK
  <2>3. /\ Shaped([op |-> "ack", order |-> o, resp |-> accepted], Placed', Sent')
        /\ Shaped([op |-> "refused", order |-> o], Placed', Sent')
    BY <1>1, <1>3, <2>1, Shapes
  <2> QED BY <1>5, <2>1, <2>2, <2>3, MoveKeepsThreads
<1>6. CASE Goto(p, [op |-> "refused", order |-> o]) /\ UNCHANGED broker
  <2>1. Placed' = Placed /\ Sent' = Sent
    BY <1>4, <1>6 DEF Placed, Sent
  <2>2. TablesOK'
    BY <1>4, <1>6, <2>1 DEF TablesOK
  <2>3. Shaped([op |-> "refused", order |-> o], Placed', Sent')
    BY <1>1, <2>1, Shapes
  <2> QED BY <1>6, <2>1, <2>2, <2>3, MoveKeepsThreads
<1> QED BY <1>2, <1>5, <1>6 DEF Post, o

\* A refusal closes a row that is still new.
LEMMA PostRefusedKeepsInv ==
    ASSUME Inv, NEW p \in Threads, PostRefused(p)
    PROVE  Inv'
<1> USE DEF Inv
<1>1. PICK o : o = thread[p].order
  OBVIOUS
<1>2. o \in Placed /\ orders[o] \in Order
  <2>1. o \in Placed
    BY <1>1, Holds DEF PostRefused, At, ThreadsOK
  <2> QED BY <2>1 DEF TablesOK, Placed
<1>3. UNCHANGED <<book, booked, broker, theirs, synced, crashes>> /\ Goto(p, None)
  BY DEF PostRefused
<1>4. PICK row : row = [orders[o] EXCEPT !.status = "rejected"]
  OBVIOUS
<1>5. row \in Order /\ row.known = orders[o].known
  BY <1>2, <1>4 DEF Order
<1>6. orders' = orders \/ orders' = [orders EXCEPT ![o] = row]
  BY <1>1, <1>4 DEF PostRefused
<1>7. CASE orders' = orders
  BY <1>3, <1>7, MoveKeepsThreads DEF TablesOK, Placed, Sent
<1>8. CASE orders' = [orders EXCEPT ![o] = row]
  <2>1. /\ orders' \in [Orders -> {None} \cup Order]
        /\ Placed' = Placed /\ Sent' = Sent
        /\ \A x \in Placed' : orders'[x].known => x \in Sent'
    BY <1>2, <1>3, <1>5, <1>8, RowChange DEF TablesOK
  <2> QED BY <1>3, <2>1, MoveKeepsThreads DEF TablesOK
<1> QED BY <1>6, <1>7, <1>8

\* The id Alpaca answered is stored with the order.
LEMMA AckKeepsInv ==
    ASSUME Inv, NEW p \in Threads, Ack(p)
    PROVE  Inv'
<1> USE DEF Inv
<1>1. PICK o : o = thread[p].order
  OBVIOUS
<1>2. PICK st : st = thread[p]
  OBVIOUS
<1>3. st = [op |-> "ack", order |-> o, resp |-> st.resp] /\ o \in Sent /\ st.resp \in View
  BY <1>1, <1>2, Holds DEF Ack, At, ThreadsOK
<1>4. o \in Placed
  BY <1>3 DEF TablesOK
<1>5. UNCHANGED <<book, booked, broker, theirs, synced, crashes>>
  BY DEF Ack
<1>6. PICK row : row = [orders[o] EXCEPT !.status = "submitted", !.known = TRUE]
  OBVIOUS
<1>7. row \in Order
  BY <1>4, <1>6 DEF TablesOK, Placed, Order, OpenStatuses
<1>8. orders' = [orders EXCEPT ![o] = row]
  BY <1>1, <1>4, <1>6 DEF Ack, TablesOK, Placed
<1>9. /\ orders' \in [Orders -> {None} \cup Order]
      /\ Placed' = Placed /\ Sent' = Sent
      /\ \A x \in Placed' : orders'[x].known => x \in Sent'
  BY <1>3, <1>4, <1>5, <1>7, <1>8, RowChange
<1>10. TablesOK'
  BY <1>5, <1>9 DEF TablesOK
<1>11. [st EXCEPT !.op = "reread"] = [op |-> "reread", order |-> o, resp |-> st.resp]
  BY <1>3
<1>12. Shaped([op |-> "reread", order |-> o, resp |-> st.resp], Placed', Sent')
  BY <1>3, <1>9, Shapes
<1>13. Goto(p, [op |-> "reread", order |-> o, resp |-> st.resp])
  BY <1>2, <1>11 DEF Ack
<1> QED BY <1>9, <1>10, <1>12, <1>13, MoveKeepsThreads

\* Steps that write no table: the thread only takes something in its hands.
LEMMA HandsKeepInv ==
    ASSUME Inv, NEW p \in Threads, NEW st, Goto(p, st), st # None => Shaped(st, Placed, Sent),
           UNCHANGED <<book, booked, orders, broker, theirs, crashes>>, synced' \in BOOLEAN
    PROVE  Inv'
<1>1. Placed' = Placed /\ Sent' = Sent
  BY DEF Placed, Sent
<1>2. TablesOK'
  BY <1>1 DEF Inv, TablesOK
<1> QED BY <1>1, <1>2, MoveKeepsThreads DEF Inv

\* The steps that write no table and leave Alpaca as it is.
LEMMA ReadsKeepInv ==
    ASSUME Inv, NEW p \in Threads,
           \/ Reread(p) \/ Cancel(p) \/ Get(p) \/ SyncBegin(p) \/ Pull(p) \/ SyncOrder(p) \/ SyncEnd(p)
    PROVE  Inv'
<1> USE DEF Inv
<1>1. PICK st : st = thread[p]
  OBVIOUS
<1>2. st # None => Shaped(st, Placed, Sent)
  BY <1>1 DEF ThreadsOK
<1>3. UNCHANGED <<book, booked, orders, broker, theirs, synced, crashes>> /\ synced' \in BOOLEAN
  BY DEF Reread, Cancel, Get, SyncBegin, Pull, SyncOrder, SyncEnd, TablesOK
<1>4. ASSUME NEW next, Goto(p, next), next # None => Shaped(next, Placed, Sent) PROVE Inv'
  BY <1>3, <1>4, HandsKeepInv
<1>5. /\ \A o \in Placed : orders[o] \in Order
      /\ \A o \in Sent : broker[o] \in View /\ o \in Placed
  BY DEF TablesOK, Placed, Sent
<1>6. CASE Reread(p)
  <2>1. /\ st # None /\ st.op = "reread"
        /\ Goto(p, [op |-> "apply", order |-> st.order, resp |-> st.resp, mine |-> orders[st.order],
                    next |-> None])
    BY <1>1, <1>6 DEF Reread, At
  <2>2. st.order \in Sent /\ st.resp \in View
    BY <1>2, <2>1, Holds
  <2> QED BY <1>4, <1>5, <2>1, <2>2, Shapes
<1>7. CASE Cancel(p)
  <2>1. PICK o \in Orders : /\ orders[o] # None /\ orders[o].known
                            /\ Goto(p, [op |-> "delete", order |-> o, mine |-> orders[o]])
    BY <1>7 DEF Cancel
  <2>2. o \in Sent /\ orders[o] \in Order
    BY <1>5, <2>1 DEF TablesOK, Placed
  <2> QED BY <1>4, <2>1, <2>2, Shapes
<1>8. CASE Get(p)
  <2>1. /\ st # None /\ st.op = "get"
        /\ Goto(p, [op |-> "apply", order |-> st.order, resp |-> broker[st.order], mine |-> st.mine,
                    next |-> None])
    BY <1>1, <1>8 DEF Get, At
  <2>2. st.order \in Sent /\ st.mine \in Order
    BY <1>2, <2>1, Holds
  <2> QED BY <1>4, <1>5, <2>1, <2>2, Shapes
<1>9. CASE SyncBegin(p)
  <2>1. theirs \in Book /\ Solvent(theirs)
    BY DEF TablesOK
  <2> QED BY <1>4, <1>9, <2>1, Shapes DEF SyncBegin
<1>10. CASE Pull(p)
  <2>1. PICK resps : resps = [o \in Sent |-> broker[o]]
    OBVIOUS
  <2>2. Goto(p, [op |-> "sync", seen |-> st.seen, resps |-> resps])
    BY <1>1, <1>10, <2>1 DEF Pull, Sent
  <2>3. resps \in [DOMAIN resps -> View] /\ DOMAIN resps \subseteq Sent
    BY <1>5, <2>1
  <2>4. IsSync([op |-> "sync", seen |-> st.seen, resps |-> resps], Sent)
    BY <2>3 DEF IsSync
  <2> QED BY <1>4, <2>2, <2>4 DEF Shaped
<1>11. CASE SyncOrder(p)
  <2>1. st # None /\ st.op = "sync"
    BY <1>1, <1>11 DEF SyncOrder, At
  <2>2. IsSync(st, Sent)
    BY <1>2, <2>1, Holds
  <2>3. PICK o \in DOMAIN st.resps :
          Goto(p, IF orders[o].known
                  THEN [op |-> "apply", order |-> o, resp |-> st.resps[o], mine |-> orders[o],
                        next |-> Without(st, o)]
                  ELSE Without(st, o))
    BY <1>1, <1>11 DEF SyncOrder
  <2>4. PICK rest : rest = Without(st, o)
    OBVIOUS
  <2>5. IsSync(rest, Sent)
    BY <2>2, <2>4, RestIsSync
  <2>6. o \in Sent /\ st.resps[o] \in View /\ orders[o] \in Order
    BY <1>5, <2>2 DEF IsSync
  <2>7. CASE orders[o].known
    <3>1. Goto(p, [op |-> "apply", order |-> o, resp |-> st.resps[o], mine |-> orders[o], next |-> rest])
      BY <2>3, <2>4, <2>7
    <3> QED BY <1>4, <2>5, <2>6, <3>1, Shapes
  <2>8. CASE ~orders[o].known
    <3>1. Goto(p, rest) /\ Shaped(rest, Placed, Sent)
      BY <2>3, <2>4, <2>5, <2>8 DEF Shaped
    <3> QED BY <1>4, <3>1
  <2> QED BY <2>7, <2>8
<1>12. CASE SyncEnd(p)
  BY <1>4, <1>12 DEF SyncEnd
<1> QED BY <1>6, <1>7, <1>8, <1>9, <1>10, <1>11, <1>12

\* Whatever shares the handler thinks are new: a row the ledger takes keeps it solvent.
LEMMA ApplyKeepsInv ==
    ASSUME Inv, NEW p \in Threads, Apply(p)
    PROVE  Inv'
<1> USE DEF Inv
<1>1. PICK st, o : st = thread[p] /\ o = thread[p].order
  OBVIOUS
<1>2. /\ o \in Sent /\ st.resp \in View /\ st.mine \in Order
      /\ st.next # None => IsSync(st.next, Sent)
  BY <1>1, Holds DEF Apply, At, ThreadsOK
<1>3. o \in Placed /\ o \in Orders
  BY <1>2 DEF TablesOK, Sent
<1>4. UNCHANGED <<broker, theirs, synced, crashes>>
  BY DEF Apply
<1>5. PICK row \in Order : Applied(row, st.mine, st.resp, o)
  BY <1>2, <1>3, UpdatedIsRow
<1>6. Goto(p, st.next) \/ Goto(p, None)
  BY <1>1 DEF Apply
<1>7. orders' = orders \/ orders' = [orders EXCEPT ![o] = row]
  BY <1>1, <1>5 DEF Apply, Applied
<1>8. /\ orders' \in [Orders -> {None} \cup Order]
      /\ Placed' = Placed /\ Sent' = Sent
      /\ \A x \in Placed' : orders'[x].known => x \in Sent'
  <2>1. row.known => o \in Sent
    BY <1>2
  <2>2. CASE orders' = [orders EXCEPT ![o] = row]
    BY <1>3, <1>4, <2>1, <2>2, RowChange
  <2>3. CASE orders' = orders
    BY <1>4, <2>3 DEF TablesOK, Placed, Sent
  <2> QED BY <1>7, <2>2, <2>3
<1>9. book' \in Book /\ Solvent(book') /\ booked' \in [Orders -> Nat]
  <2>1. CASE UNCHANGED <<book, booked>>
    BY <2>1 DEF TablesOK
  <2>2. CASE st.resp.filled > st.mine.filled
    <3>1. PICK qty \in Nat \ {0} : qty = st.resp.filled - st.mine.filled
      BY <1>2, <2>2 DEF View, Order
    <3>2. PICK tx : tx = Row(o, qty)
      OBVIOUS
    <3>3. tx \in Rows(Orders) /\ tx.qty = qty
      BY <1>3, <3>2, FillIsRow
    <3>4. PICK funded : funded = Funded(tx)
      OBVIOUS
    <3>5. funded \in BOOLEAN
      BY <3>4 DEF Funded, Accepts, SameCurrency
    <3>6. CASE /\ Accepts(book, tx, funded)
               /\ book' = Booked(book, tx, funded)
               /\ booked' = [booked EXCEPT ![o] = @ + tx.qty]
      <4>1. book' \in Book /\ Solvent(book')
        BY <3>3, <3>5, <3>6, BookedKeepsSolvent DEF TablesOK
      <4>2. booked' \in [Orders -> Nat]
        BY <1>3, <3>3, <3>6 DEF TablesOK
      <4> QED BY <4>1, <4>2
    <3> QED BY <1>1, <2>1, <3>1, <3>2, <3>4, <3>6 DEF Apply
  <2> QED BY <1>1, <2>1, <2>2 DEF Apply
<1>10. TablesOK'
  BY <1>4, <1>8, <1>9 DEF TablesOK
<1>11. st.next # None => Shaped(st.next, Placed', Sent')
  BY <1>2, <1>8 DEF Shaped
<1> QED BY <1>6, <1>8, <1>10, <1>11, MoveKeepsThreads

(***************************************************************************)
(* Cancelling, and the reconcile.                                          *)
(***************************************************************************)
LEMMA DeleteKeepsInv ==
    ASSUME Inv, NEW p \in Threads, Delete(p)
    PROVE  Inv'
<1> USE DEF Inv
<1>1. PICK st, o : st = thread[p] /\ o = thread[p].order
  OBVIOUS
<1>2. st = [op |-> "delete", order |-> o, mine |-> st.mine] /\ o \in Sent /\ st.mine \in Order
  BY <1>1, Holds DEF Delete, At, ThreadsOK
<1>3. o \in Placed /\ broker[o] \in View
  BY <1>2 DEF TablesOK, Sent
<1>4. UNCHANGED <<book, booked, orders, theirs, synced, crashes>>
  BY DEF Delete
<1>5. PICK view : view = [broker[o] EXCEPT !.status = "cancelled"]
  OBVIOUS
<1>6. view \in View
  BY <1>3, <1>5 DEF View
<1>7. broker' = broker \/ broker' = [broker EXCEPT ![o] = view]
  BY <1>1, <1>5 DEF Delete
<1>8. /\ broker' \in [Orders -> {None} \cup View]
      /\ Placed' = Placed /\ Sent' = Sent
      /\ \A x \in Placed' : orders'[x].known => x \in Sent'
  <2>1. CASE broker' = [broker EXCEPT ![o] = view]
    <3>1. /\ broker' \in [Orders -> {None} \cup View]
          /\ Placed' = Placed /\ Sent' = Sent \cup {o}
          /\ \A x \in Placed' : orders'[x].known => x \in Sent'
      BY <1>3, <1>4, <1>6, <2>1, ViewChange
    <3> QED BY <1>2, <3>1
  <2>2. CASE broker' = broker
    BY <1>4, <2>2 DEF TablesOK, Placed, Sent
  <2> QED BY <1>7, <2>1, <2>2
<1>9. TablesOK'
  BY <1>4, <1>8 DEF TablesOK
<1>10. [st EXCEPT !.op = "get"] = [op |-> "get", order |-> o, mine |-> st.mine]
  BY <1>2
<1>11. Shaped([op |-> "get", order |-> o, mine |-> st.mine], Placed', Sent')
  BY <1>2, <1>8, Shapes
<1>12. Goto(p, None) \/ Goto(p, [op |-> "get", order |-> o, mine |-> st.mine])
  BY <1>1, <1>10 DEF Delete
<1> QED BY <1>8, <1>9, <1>11, <1>12, MoveKeepsThreads

\* A reconcile row is one the rules take: it moves the mirror to where Alpaca was.
LEMMA AdjustKeepsInv ==
    ASSUME Inv, NEW p \in Threads, Adjust(p)
    PROVE  Inv'
<1> USE DEF Inv
<1>1. PICK st : st = thread[p]
  OBVIOUS
<1>2. st = [op |-> st.op, seen |-> st.seen] /\ st.seen \in Book /\ Solvent(st.seen)
  BY <1>1, Holds DEF Adjust, At, ThreadsOK
<1>3. UNCHANGED <<booked, orders, broker, theirs, synced, crashes>>
  BY DEF Adjust
<1>4. PICK qty : qty = st.seen.portfolio[Ticker].shares
  OBVIOUS
<1>5. Ticker \in Tickers /\ Currency \in Currencies
  BY AlpacaAssumption
<1>6. qty \in Nat
  BY <1>2, <1>4, <1>5 DEF Book, Position, Solvent
<1>7. PICK tx : tx = TradeRow("ADJUST", Ticker, qty, 1, 0, Currency, None)
  OBVIOUS
<1>8. /\ tx \in Rows(Orders) /\ tx.side = "ADJUST" /\ tx.currency = Currency
      /\ CashDelta(tx, FALSE) = 0
  BY <1>5, <1>6, <1>7 DEF TradeRow, Rows, IsCash, Sides, TradeSides, CashSides, CashDelta
<1>9. Accepts(book, tx, FALSE)
  <2>1. book.cash[Currency] \in Int /\ book.cash[Currency] >= 0
    BY <1>5 DEF TablesOK, Solvent, Book
  <2>2. NoOverdraft(book, tx, FALSE)
    <3>1. book.cash[Currency] + 0 >= 0
      BY <2>1
    <3> QED BY <1>8, <3>1 DEF NoOverdraft
  <2> QED BY <1>8, <2>2 DEF Accepts, SameCurrency, NoShortSale, TradeSides
<1>10. book' = book \/ book' = Booked(book, tx, FALSE)
  BY <1>1, <1>2, <1>4, <1>7 DEF Adjust
<1>11. book' \in Book /\ Solvent(book')
  BY <1>8, <1>9, <1>10, BookedKeepsSolvent DEF TablesOK
<1>12. Placed' = Placed /\ Sent' = Sent
  BY <1>3 DEF Placed, Sent
<1>13. TablesOK'
  BY <1>3, <1>11, <1>12 DEF TablesOK
<1>14. [st EXCEPT !.op = "cash"] = [op |-> "cash", seen |-> st.seen]
  <2>1. st = [op |-> st.op, seen |-> st.seen]
    BY <1>2
  <2> QED BY <2>1
<1>15. Goto(p, [op |-> "cash", seen |-> st.seen])
  BY <1>1, <1>14 DEF Adjust
<1>16. Shaped([op |-> "cash", seen |-> st.seen], Placed', Sent')
  BY <1>2, Shapes
<1> QED BY <1>12, <1>13, <1>15, <1>16, MoveKeepsThreads

\* Adjusting the cash writes Alpaca's balance, which is never negative.
LEMMA AdjustCashKeepsInv ==
    ASSUME Inv, NEW p \in Threads, AdjustCash(p)
    PROVE  Inv'
<1> USE DEF Inv
<1>1. PICK st : st = thread[p]
  OBVIOUS
<1>2. st = [op |-> st.op, seen |-> st.seen] /\ st.seen \in Book /\ Solvent(st.seen)
  BY <1>1, Holds DEF AdjustCash, At, ThreadsOK
<1>3. UNCHANGED <<booked, orders, broker, theirs, crashes>> /\ synced' = TRUE
  BY DEF AdjustCash
<1>4. PICK cash, mine : cash = st.seen.cash[Currency] /\ mine = book.cash[Currency]
  OBVIOUS
<1>5. Currency \in Currencies
  BY AlpacaAssumption
<1>6. cash \in Nat /\ mine \in Nat
  <2>1. st.seen \in Book /\ Solvent(st.seen) /\ book \in Book /\ Solvent(book)
    BY <1>2 DEF TablesOK
  <2> QED BY <1>4, <1>5, <2>1 DEF Book, Solvent
<1>7. ASSUME NEW side \in CashSides, NEW qty \in Nat \ {0},
             side = "WITHDRAW" => qty <= mine, book' = Booked(book, CashRow(side, qty, Currency), FALSE)
      PROVE  book' \in Book /\ Solvent(book')
  <2>1. PICK tx : tx = CashRow(side, qty, Currency)
    OBVIOUS
  <2>2. /\ tx \in Rows(Orders) /\ tx.side = side /\ tx.currency = Currency /\ tx.qty = qty
        /\ IsCash(tx)
    BY <1>5, <2>1 DEF CashRow, Rows, IsCash, Sides, CashSides
  <2>3. Accepts(book, tx, FALSE)
    BY <1>4, <1>6, <1>7, <2>2 DEF Accepts, SameCurrency, NoShortSale, NoOverdraft, TradeSides,
                                  CashSides, CashDelta
  <2> QED BY <1>7, <2>1, <2>2, <2>3, BookedKeepsSolvent DEF TablesOK
<1>8. book' \in Book /\ Solvent(book')
  <2>0. book' = IF cash > mine THEN Booked(book, CashRow("DEPOSIT", cash - mine, Currency), FALSE)
                ELSE IF cash < mine THEN Booked(book, CashRow("WITHDRAW", mine - cash, Currency), FALSE)
                ELSE book
    BY <1>1, <1>2, <1>4 DEF AdjustCash
  <2>1. CASE cash > mine
    <3>1. book' = Booked(book, CashRow("DEPOSIT", cash - mine, Currency), FALSE)
      BY <2>0, <2>1
    <3>2. cash - mine \in Nat \ {0} /\ "DEPOSIT" \in CashSides
      BY <1>6, <2>1 DEF CashSides
    <3> QED BY <1>7, <3>1, <3>2
  <2>2. CASE cash < mine
    <3>1. book' = Booked(book, CashRow("WITHDRAW", mine - cash, Currency), FALSE)
      <4>1. ~(cash > mine)
        BY <1>6, <2>2
      <4> QED BY <2>0, <2>2, <4>1
    <3>2. mine - cash \in Nat \ {0} /\ mine - cash <= mine /\ "WITHDRAW" \in CashSides
      BY <1>6, <2>2 DEF CashSides
    <3> QED BY <1>7, <3>1, <3>2
  <2>3. CASE cash = mine
    <3>1. ~(cash > mine) /\ ~(cash < mine)
      BY <1>6, <2>3
    <3>2. book' = book
      BY <2>0, <3>1
    <3> QED BY <3>2 DEF TablesOK
  <2> QED BY <1>6, <2>1, <2>2, <2>3
<1>9. Placed' = Placed /\ Sent' = Sent
  BY <1>3 DEF Placed, Sent
<1>10. TablesOK'
  BY <1>3, <1>8, <1>9 DEF TablesOK
<1>11. [st EXCEPT !.op = "pull"] = [op |-> "pull", seen |-> st.seen]
  BY <1>2
<1>12. Goto(p, [op |-> "pull", seen |-> st.seen])
  BY <1>1, <1>11 DEF AdjustCash
<1>13. Shaped([op |-> "pull", seen |-> st.seen], Placed', Sent')
  BY Shapes
<1> QED BY <1>9, <1>10, <1>12, <1>13, MoveKeepsThreads

(***************************************************************************)
(* Alpaca, a restart, and the whole.                                       *)
(***************************************************************************)
LEMMA BrokerKeepsInv ==
    ASSUME Inv, NEW o \in Orders, BrokerFills(o) \/ BrokerCloses(o)
    PROVE  Inv'
<1> USE DEF Inv
<1>1. broker[o] # None
  BY DEF BrokerFills, BrokerCloses
<1>2. o \in Sent /\ o \in Placed /\ broker[o] \in View /\ orders[o] \in Order
  BY <1>1 DEF TablesOK, Placed, Sent
<1>3. UNCHANGED <<book, booked, orders, synced, thread, crashes>>
  BY DEF BrokerFills, BrokerCloses
<1>4. \E view \in View : broker' = [broker EXCEPT ![o] = view]
  <2>1. CASE BrokerFills(o)
    <3>1. PICK qty \in 1..(orders[o].qty - broker[o].filled) :
            broker' = [broker EXCEPT ![o] =
               [status |-> IF broker[o].filled + qty = orders[o].qty THEN "filled" ELSE "partially_filled",
                filled |-> broker[o].filled + qty]]
      BY <1>2, <2>1 DEF BrokerFills, TablesOK
    <3>2. broker[o].filled + qty \in Nat
      BY <1>2 DEF View, Order
    <3>3. PICK view : view =
               [status |-> IF broker[o].filled + qty = orders[o].qty THEN "filled" ELSE "partially_filled",
                filled |-> broker[o].filled + qty]
      OBVIOUS
    <3>4. view \in View
      BY <3>2, <3>3 DEF View, OpenStatuses
    <3> QED BY <3>1, <3>3, <3>4
  <2>2. CASE BrokerCloses(o)
    <3>1. PICK view : view = [broker[o] EXCEPT !.status = "cancelled"]
      OBVIOUS
    <3>2. view \in View
      BY <1>2, <3>1 DEF View
    <3>3. broker' = [broker EXCEPT ![o] = view]
      BY <2>2, <3>1 DEF BrokerCloses
    <3> QED BY <3>2, <3>3
  <2> QED BY <2>1, <2>2
<1>5. /\ broker' \in [Orders -> {None} \cup View]
      /\ Placed' = Placed /\ Sent' = Sent
      /\ \A x \in Placed' : orders'[x].known => x \in Sent'
  <2>1. PICK view \in View : broker' = [broker EXCEPT ![o] = view]
    BY <1>4
  <2>2. /\ broker' \in [Orders -> {None} \cup View]
        /\ Placed' = Placed /\ Sent' = Sent \cup {o}
        /\ \A x \in Placed' : orders'[x].known => x \in Sent'
    BY <1>2, <1>3, <2>1, ViewChange
  <2> QED BY <1>2, <2>2
<1>6. theirs' \in Book /\ Solvent(theirs')
  <2>1. CASE BrokerCloses(o)
    BY <2>1 DEF BrokerCloses, TablesOK
  <2>2. CASE BrokerFills(o)
    <3>1. PICK qty \in 1..(orders[o].qty - broker[o].filled) :
            Accepts(theirs, Row(o, qty), TRUE) /\ theirs' = Booked(theirs, Row(o, qty), TRUE)
      BY <2>2 DEF BrokerFills
    <3>2. qty \in Nat \ {0}
      BY <1>2 DEF View, Order
    <3>3. Row(o, qty) \in Rows(Orders)
      BY <1>2, <3>2, FillIsRow
    <3> QED BY <3>1, <3>3, BookedKeepsSolvent DEF TablesOK
  <2> QED BY <2>1, <2>2
<1>7. TablesOK'
  BY <1>3, <1>5, <1>6 DEF TablesOK
<1> QED BY <1>3, <1>5, <1>7, StillKeepsThreads

\* A restart loses every thread and no row.
LEMMA CrashKeepsInv == Inv /\ Crash => Inv'
<1> SUFFICES ASSUME Inv, Crash PROVE Inv'
  OBVIOUS
<1>1. /\ UNCHANGED <<book, booked, orders, broker, theirs>>
      /\ synced' = FALSE /\ crashes' = crashes + 1 /\ crashes < MaxCrashes
      /\ thread' = [p \in Threads |-> None]
  BY DEF Crash
<1>2. Placed' = Placed /\ Sent' = Sent
  BY <1>1 DEF Placed, Sent
<1>3. crashes' \in 0..MaxCrashes
  BY <1>1, AlpacaAssumption DEF Inv, TablesOK
<1>4. TablesOK'
  BY <1>1, <1>2, <1>3 DEF Inv, TablesOK
<1>5. ThreadsOK'
  BY <1>1 DEF ThreadsOK
<1> QED BY <1>4, <1>5 DEF Inv

\* The import starts the mirror with Alpaca's cash and nothing else.
LEMMA InitHasInv == Init => Inv
<1> SUFFICES ASSUME Init PROVE Inv
  OBVIOUS
<1>1. Currency \in Currencies /\ StartCash \in Nat /\ MaxCrashes \in Nat
  BY AlpacaAssumption
<1>2. EmptyBook \in Book /\ Solvent(EmptyBook)
  BY DEF EmptyBook, NotHeld, Book, Position, Solvent, Held
<1>3. theirs \in Book /\ Solvent(theirs)
  <2>1. theirs = [cash |-> [c \in Currencies |-> IF c = Currency THEN StartCash ELSE 0],
                  portfolio |-> [t \in Tickers |-> NotHeld]]
    BY <1>1 DEF Init, EmptyBook
  <2> QED BY <1>1, <2>1 DEF NotHeld, Book, Position, Solvent, Held
<1>4. Placed = {} /\ Sent = {}
  BY DEF Init, Placed, Sent
<1>5. TablesOK
  <2>1. book \in Book /\ Solvent(book)
    BY <1>2 DEF Init
  <2>2. /\ booked \in [Orders -> Nat]
        /\ orders \in [Orders -> {None} \cup Order] /\ broker \in [Orders -> {None} \cup View]
    BY DEF Init
  <2>3. synced \in BOOLEAN /\ crashes \in 0..MaxCrashes
    <3>1. crashes \in 0..MaxCrashes
      BY <1>1 DEF Init
    <3>2. synced \in BOOLEAN
      BY DEF Init
    <3> QED BY <3>1, <3>2
  <2> QED BY <1>3, <1>4, <2>1, <2>2, <2>3 DEF TablesOK
<1>6. ThreadsOK
  BY DEF Init, ThreadsOK
<1> QED BY <1>5, <1>6 DEF Inv

\* One case for each action of a thread, of Alpaca and of the process.
LEMMA NextKeepsInv == Inv /\ [Next]_vars => Inv'
<1> SUFFICES ASSUME Inv, [Next]_vars PROVE Inv'
  OBVIOUS
<1>1. ASSUME NEW p \in Threads, PlaceSteps(p) \/ CancelSteps(p) \/ SyncSteps(p) \/ Apply(p)
      PROVE  Inv'
  BY <1>1, PlaceKeepsInv, PostKeepsInv, PostRefusedKeepsInv, AckKeepsInv, ReadsKeepInv, ApplyKeepsInv,
     DeleteKeepsInv, AdjustKeepsInv, AdjustCashKeepsInv DEF PlaceSteps, CancelSteps, SyncSteps
<1>2. CASE UNCHANGED vars
  <2>1. Placed' = Placed /\ Sent' = Sent
    BY <1>2 DEF vars, Placed, Sent
  <2> QED BY <1>2, <2>1 DEF vars, Inv, TablesOK, ThreadsOK
<1> QED BY <1>1, <1>2, BrokerKeepsInv, CrashKeepsInv DEF Next

\* Whatever Alpaca reports in whatever order, and however the user's requests,
\* the minute job and restarts come between each other's calls: the mirror of
\* the account is never overdrawn or short, even where a fill is booked twice.
THEOREM MirrorStaysSolvent == Spec => [](TypeOK /\ MirrorSolvent)
<1>1. Inv => TypeOK /\ MirrorSolvent
  <2>1. ASSUME NEW st, NEW placed, NEW sent, Shaped(st, placed, sent)
        PROVE  st.op \in {"post", "ack", "refused", "reread", "apply", "delete", "get",
                          "positions", "cash", "pull", "sync"}
    <3>1. IsSync(st, sent) => st.op = "sync"
      BY DEF IsSync
    <3> QED BY <2>1, <3>1 DEF Shaped
  <2> QED BY <2>1 DEF Inv, TablesOK, ThreadsOK, TypeOK, MirrorSolvent
<1> QED BY <1>1, InitHasInv, NextKeepsInv, PTL DEF Spec

(***************************************************************************)
(* One thread at a time.                                                   *)
(***************************************************************************)
\* What Alpaca said later stands by what it said before.
LEMMA StandsOn ==
    ASSUME NEW a \in View, NEW b \in View, NEW c \in View, Stands(a, b), Stands(b, c)
    PROVE  Stands(a, c)
  BY DEF Stands, View

\* So what a thread holds stays current while only Alpaca moves on.
LEMMA CurrentStays ==
    ASSUME NEW st, NEW rows, NEW views, NEW views2, NEW placed, NEW sent,
           Shaped(st, placed, sent), Current(st, rows, views),
           \A o \in sent : views[o] \in View /\ views2[o] \in View /\ Stands(views[o], views2[o]),
           \A o \in placed : views[o] = None => views2[o] = None
    PROVE  Current(st, rows, views2)
<1>1. ASSUME NEW o \in sent, NEW resp \in View, Stands(resp, views[o])
      PROVE  Stands(resp, views2[o])
  BY <1>1, StandsOn
<1>2. ASSUME NEW pull, IsSync(pull, sent), AllStand(pull, views)
      PROVE  AllStand(pull, views2)
  <2> SUFFICES ASSUME NEW o \in DOMAIN pull.resps PROVE Stands(pull.resps[o], views2[o])
    BY DEF AllStand
  <2>1. o \in sent /\ pull.resps[o] \in View /\ Stands(pull.resps[o], views[o])
    BY <1>2 DEF IsSync, AllStand
  <2> QED BY <1>1, <2>1
<1>3. st.op \in {"ack", "reread", "apply"} => Stands(st.resp, views2[st.order])
  BY <1>1, Holds DEF Current
<1>4. /\ st.op = "apply" /\ st.next # None => AllStand(st.next, views2)
      /\ st.op = "sync" => AllStand(st, views2)
  BY <1>2, Holds DEF Current
<1>5. st.op = "post" => views2[st.order] = None
  BY Holds DEF Current
<1> QED BY <1>3, <1>4, <1>5 DEF Current

\* Moving the one thread on, with the tables as they are.
LEMMA HandsKeepOne ==
    ASSUME Inv, NEW p, Threads = {p}, OneInv(p), NEW st, Goto(p, st),
           st # None => Current(st, orders, broker), UNCHANGED <<booked, orders, broker>>
    PROVE  OneInv(p)'
<1>1. thread'[p] = st
  BY DEF Goto, Inv, ThreadsOK
<1> QED BY <1>1 DEF OneInv, FilledIsBooked, NoShareBookedTwice, ClosedMeansClosedThere

\* A write to an order's row: what it shows as filled is booked, and what it
\* shows as closed is closed at Alpaca.
LEMMA RowKeepsOne ==
    ASSUME Inv, NEW p, Threads = {p}, OneInv(p), NEW o \in Placed, NEW row \in Order, NEW st,
           orders' = [orders EXCEPT ![o] = row], Goto(p, st), UNCHANGED broker,
           booked' = [booked EXCEPT ![o] = row.filled],
           row.filled <= IF broker[o] = None THEN 0 ELSE broker[o].filled,
           row.known /\ row.status \notin OpenStatuses => broker[o].status = row.status,
           st # None => Current(st, orders', broker)
    PROVE  OneInv(p)'
<1>1. thread'[p] = st
  BY DEF Goto, Inv, ThreadsOK
<1>2. /\ o \in Orders
      /\ orders'[o] = row /\ \A x \in Orders \ {o} : orders'[x] = orders[x]
      /\ booked'[o] = row.filled /\ \A x \in Orders \ {o} : booked'[x] = booked[x]
  BY DEF Inv, TablesOK, Placed
<1>3. FilledIsBooked' /\ NoShareBookedTwice' /\ ClosedMeansClosedThere'
  BY <1>2 DEF OneInv, FilledIsBooked, NoShareBookedTwice, ClosedMeansClosedThere
<1> QED BY <1>1, <1>3 DEF OneInv

\* The steps that write no order: what the one thread has read stays what the row says.
LEMMA ReadsKeepOne ==
    ASSUME Inv, NEW p, Threads = {p}, OneInv(p),
           \/ Reread(p) \/ Cancel(p) \/ Get(p) \/ SyncBegin(p) \/ Adjust(p) \/ AdjustCash(p)
           \/ Pull(p) \/ SyncOrder(p) \/ SyncEnd(p)
    PROVE  OneInv(p)'
<1> USE DEF Inv
<1>1. PICK st : st = thread[p]
  OBVIOUS
<1>2. st # None => Shaped(st, Placed, Sent) /\ Current(st, orders, broker)
  BY <1>1 DEF ThreadsOK, OneInv
<1>3. UNCHANGED <<booked, orders, broker>>
  BY DEF Reread, Cancel, Get, SyncBegin, Adjust, AdjustCash, Pull, SyncOrder, SyncEnd
<1>4. ASSUME NEW next, Goto(p, next), next # None => Current(next, orders, broker) PROVE OneInv(p)'
  BY <1>3, <1>4, HandsKeepOne
<1>5. ASSUME NEW view \in View PROVE Stands(view, view)
  BY DEF Stands, View
<1>0. \A o \in Sent : broker[o] \in View
  BY DEF TablesOK, Sent
<1>6. CASE Reread(p)
  <2>1. /\ st # None /\ st.op = "reread"
        /\ Goto(p, [op |-> "apply", order |-> st.order, resp |-> st.resp, mine |-> orders[st.order],
                    next |-> None])
    BY <1>1, <1>6 DEF Reread, At
  <2>2. Stands(st.resp, broker[st.order])
    BY <1>2, <2>1 DEF Current
  <2>3. Current([op |-> "apply", order |-> st.order, resp |-> st.resp, mine |-> orders[st.order],
                 next |-> None], orders, broker)
    BY <2>2 DEF Current
  <2> QED BY <1>4, <2>1, <2>3
<1>7. CASE Cancel(p)
  <2>1. PICK o \in Orders : Goto(p, [op |-> "delete", order |-> o, mine |-> orders[o]])
    BY <1>7 DEF Cancel
  <2>2. Current([op |-> "delete", order |-> o, mine |-> orders[o]], orders, broker)
    BY DEF Current
  <2> QED BY <1>4, <2>1, <2>2
<1>8. CASE Get(p)
  <2>1. /\ st # None /\ st.op = "get"
        /\ Goto(p, [op |-> "apply", order |-> st.order, resp |-> broker[st.order], mine |-> st.mine,
                    next |-> None])
    BY <1>1, <1>8 DEF Get, At
  <2>2. st.order \in Sent /\ st.mine = orders[st.order]
    BY <1>2, <2>1, Holds DEF Current
  <2>3. Stands(broker[st.order], broker[st.order])
    BY <1>0, <1>5, <2>2
  <2>4. Current([op |-> "apply", order |-> st.order, resp |-> broker[st.order], mine |-> st.mine,
                 next |-> None], orders, broker)
    BY <2>2, <2>3 DEF Current
  <2> QED BY <1>4, <2>1, <2>4
<1>9. CASE SyncBegin(p) \/ Adjust(p) \/ AdjustCash(p)
  <2>1. PICK next : Goto(p, next) /\ next.op \in {"positions", "cash", "pull"}
    <3>1. CASE SyncBegin(p)
      <4>1. ASSUME NEW op, NEW seen PROVE [op |-> op, seen |-> seen].op = op
        OBVIOUS
      <4> QED BY <3>1, <4>1 DEF SyncBegin
    <3>2. CASE Adjust(p)
      <4>1. st # None /\ st.op = "positions" /\ st = [op |-> st.op, seen |-> st.seen]
        BY <1>1, <1>2, <3>2, Holds DEF Adjust, At
      <4>2. [st EXCEPT !.op = "cash"].op = "cash"
        BY <4>1
      <4> QED BY <1>1, <3>2, <4>2 DEF Adjust
    <3>3. CASE AdjustCash(p)
      <4>1. st # None /\ st.op = "cash" /\ st = [op |-> st.op, seen |-> st.seen]
        BY <1>1, <1>2, <3>3, Holds DEF AdjustCash, At
      <4>2. [st EXCEPT !.op = "pull"].op = "pull"
        BY <4>1
      <4> QED BY <1>1, <3>3, <4>2 DEF AdjustCash
    <3> QED BY <1>9, <3>1, <3>2, <3>3
  <2>2. Current(next, orders, broker)
    BY <2>1 DEF Current
  <2> QED BY <1>4, <2>1, <2>2
<1>10. CASE Pull(p)
  <2>1. PICK resps : resps = [o \in Sent |-> broker[o]]
    OBVIOUS
  <2>2. Goto(p, [op |-> "sync", seen |-> st.seen, resps |-> resps])
    BY <1>1, <1>10, <2>1 DEF Pull, Sent
  <2>3. \A o \in DOMAIN resps : Stands(resps[o], broker[o])
    BY <1>0, <1>5, <2>1
  <2>4. Current([op |-> "sync", seen |-> st.seen, resps |-> resps], orders, broker)
    BY <2>3 DEF Current, AllStand
  <2> QED BY <1>4, <2>2, <2>4
<1>11. CASE SyncOrder(p)
  <2>1. st # None /\ st.op = "sync"
    BY <1>1, <1>11 DEF SyncOrder, At
  <2>2. IsSync(st, Sent) /\ AllStand(st, broker)
    BY <1>2, <2>1, Holds DEF Current
  <2>3. PICK o \in DOMAIN st.resps :
          Goto(p, IF orders[o].known
                  THEN [op |-> "apply", order |-> o, resp |-> st.resps[o], mine |-> orders[o],
                        next |-> Without(st, o)]
                  ELSE Without(st, o))
    BY <1>1, <1>11 DEF SyncOrder
  <2>4. PICK rest : rest = Without(st, o)
    OBVIOUS
  <2>5. IsSync(rest, Sent) /\ AllStand(rest, broker)
    BY <2>2, <2>4, RestIsSync
  <2>6. Stands(st.resps[o], broker[o])
    BY <2>2 DEF AllStand
  <2>7. CASE orders[o].known
    <3>1. Goto(p, [op |-> "apply", order |-> o, resp |-> st.resps[o], mine |-> orders[o], next |-> rest])
      BY <2>3, <2>4, <2>7
    <3>2. Current([op |-> "apply", order |-> o, resp |-> st.resps[o], mine |-> orders[o], next |-> rest],
                  orders, broker)
      BY <2>5, <2>6 DEF Current
    <3> QED BY <1>4, <3>1, <3>2
  <2>8. CASE ~orders[o].known
    <3>1. Goto(p, rest)
      BY <2>3, <2>4, <2>8
    <3>2. rest.op = "sync"
      BY <2>5 DEF IsSync
    <3>3. Current(rest, orders, broker)
      BY <2>5, <3>2 DEF Current
    <3> QED BY <1>4, <3>1, <3>3
  <2> QED BY <2>7, <2>8
<1>12. CASE SyncEnd(p)
  BY <1>4, <1>12 DEF SyncEnd
<1> QED BY <1>6, <1>7, <1>8, <1>9, <1>10, <1>11, <1>12

\* Placing writes the row of an order that has neither shares nor a place at Alpaca.
LEMMA PlaceKeepsOne ==
    ASSUME Inv, NEW p, Threads = {p}, OneInv(p), Place(p)
    PROVE  OneInv(p)'
<1>1. PICK o \in Orders, t \in Tickets :
        /\ orders[o] = None
        /\ orders' = [orders EXCEPT ![o] = [status |-> "new", side |-> t.side, qty |-> t.qty,
                                            filled |-> 0, known |-> FALSE]]
        /\ Goto(p, [op |-> "post", order |-> o])
  BY DEF Place
<1>2. UNCHANGED <<booked, broker>>
  BY DEF Place
<1>3. broker[o] = None /\ booked[o] = 0
  <2>1. broker[o] = None
    BY <1>1 DEF Inv, TablesOK, Placed, Sent
  <2>2. booked[o] \in Nat /\ booked[o] <= 0
    BY <2>1 DEF Inv, TablesOK, OneInv, NoShareBookedTwice
  <2> QED BY <2>1, <2>2
<1>4. /\ orders'[o].filled = 0 /\ orders'[o].known = FALSE
      /\ \A x \in Orders \ {o} : orders'[x] = orders[x]
  BY <1>1 DEF Inv, TablesOK
<1>5. thread'[p] = [op |-> "post", order |-> o]
  BY <1>1 DEF Goto, Inv, ThreadsOK
<1>6. Current([op |-> "post", order |-> o], orders', broker')
  BY <1>2, <1>3 DEF Current
<1>7. FilledIsBooked' /\ NoShareBookedTwice' /\ ClosedMeansClosedThere'
  BY <1>2, <1>3, <1>4 DEF OneInv, FilledIsBooked, NoShareBookedTwice, ClosedMeansClosedThere
<1> QED BY <1>5, <1>6, <1>7 DEF OneInv

\* An order reaches Alpaca with nothing filled and nothing booked.
LEMMA PostKeepsOne ==
    ASSUME Inv, NEW p, Threads = {p}, OneInv(p), Post(p)
    PROVE  OneInv(p)'
<1>1. PICK st, o : st = thread[p] /\ o = thread[p].order
  OBVIOUS
<1>2. /\ st.op = "post" /\ o \in Placed /\ o \in Orders
      /\ broker[o] = None
  <2>1. st # None /\ st.op = "post" /\ o = st.order
    BY <1>1 DEF Post, At
  <2>2. Shaped(st, Placed, Sent) /\ Current(st, orders, broker)
    BY <1>1, <2>1 DEF Inv, ThreadsOK, OneInv
  <2>3. o \in Placed
    BY <2>1, <2>2, Holds
  <2> QED BY <2>1, <2>2, <2>3 DEF Current, Placed
<1>3. ~orders[o].known /\ booked[o] <= 0
  BY <1>2 DEF Inv, TablesOK, Sent, OneInv, NoShareBookedTwice
<1>4. UNCHANGED <<booked, orders>>
  BY DEF Post
<1>5. PICK accepted : accepted = [status |-> "submitted", filled |-> 0]
  OBVIOUS
<1>6. \/ /\ broker' = [broker EXCEPT ![o] = accepted]
         /\ \/ Goto(p, [op |-> "ack", order |-> o, resp |-> accepted])
            \/ Goto(p, [op |-> "refused", order |-> o])
      \/ Goto(p, [op |-> "refused", order |-> o]) /\ UNCHANGED broker
  BY <1>1, <1>5 DEF Post
<1>7. Current([op |-> "refused", order |-> o], orders', broker')
  BY <1>3, <1>4 DEF Current
<1>8. CASE broker' = [broker EXCEPT ![o] = accepted]
  <2>1. broker'[o] = accepted /\ \A x \in Orders \ {o} : broker'[x] = broker[x]
    BY <1>2, <1>8 DEF Inv, TablesOK
  <2>2. accepted.filled = 0 /\ accepted # None
    <3>1. accepted \in View
      BY <1>5 DEF View, OpenStatuses
    <3> QED BY <1>5, <3>1, NoOrderAssumption
  <2>3. FilledIsBooked' /\ NoShareBookedTwice' /\ ClosedMeansClosedThere'
    BY <1>2, <1>3, <1>4, <2>1, <2>2
       DEF OneInv, FilledIsBooked, NoShareBookedTwice, ClosedMeansClosedThere
  <2>4. Current([op |-> "ack", order |-> o, resp |-> accepted], orders', broker')
    BY <2>1, <2>2 DEF Current, Stands
  <2>5. \/ thread'[p] = [op |-> "ack", order |-> o, resp |-> accepted]
        \/ thread'[p] = [op |-> "refused", order |-> o]
    BY <1>6 DEF Goto, Inv, ThreadsOK
  <2> QED BY <1>7, <2>3, <2>4, <2>5 DEF OneInv
<1>9. CASE Goto(p, [op |-> "refused", order |-> o]) /\ UNCHANGED broker
  <2>1. Current([op |-> "refused", order |-> o], orders, broker)
    BY <1>3 DEF Current
  <2> QED BY <1>4, <1>9, <2>1, HandsKeepOne
<1> QED BY <1>6, <1>8, <1>9

\* A row closed by a refusal has no id, so it owes nothing to Alpaca.
LEMMA PostRefusedKeepsOne ==
    ASSUME Inv, NEW p, Threads = {p}, OneInv(p), PostRefused(p)
    PROVE  OneInv(p)'
<1>1. PICK st, o : st = thread[p] /\ o = thread[p].order
  OBVIOUS
<1>2. o \in Placed /\ o \in Orders /\ ~orders[o].known
  <2>1. st # None /\ st.op = "refused" /\ o = st.order
    BY <1>1 DEF PostRefused, At
  <2>2. Shaped(st, Placed, Sent) /\ Current(st, orders, broker)
    BY <1>1, <2>1 DEF Inv, ThreadsOK, OneInv
  <2>3. o \in Placed
    BY <2>1, <2>2, Holds
  <2> QED BY <2>1, <2>2, <2>3 DEF Current, Placed
<1>3. UNCHANGED <<booked, broker>> /\ Goto(p, None)
  BY DEF PostRefused
<1>4. PICK row : row = [orders[o] EXCEPT !.status = "rejected"]
  OBVIOUS
<1>5. row \in Order /\ row.known = orders[o].known /\ row.filled = orders[o].filled
  BY <1>2, <1>4 DEF Inv, TablesOK, Placed, Order
<1>6. orders' = orders \/ orders' = [orders EXCEPT ![o] = row]
  BY <1>1, <1>4 DEF PostRefused
<1>7. CASE orders' = orders
  BY <1>3, <1>7, HandsKeepOne
<1>8. CASE orders' = [orders EXCEPT ![o] = row]
  <2>1. row.filled = booked[o] /\ booked' = [booked EXCEPT ![o] = row.filled]
    BY <1>2, <1>3, <1>5 DEF Inv, TablesOK, OneInv, FilledIsBooked, Placed
  <2>2. row.filled <= IF broker[o] = None THEN 0 ELSE broker[o].filled
    BY <1>2, <2>1 DEF OneInv, NoShareBookedTwice
  <2> QED BY <1>2, <1>3, <1>5, <1>8, <2>1, <2>2, RowKeepsOne
<1> QED BY <1>6, <1>7, <1>8

\* The id is stored by the thread whose order Alpaca took.
LEMMA AckKeepsOne ==
    ASSUME Inv, NEW p, Threads = {p}, OneInv(p), Ack(p)
    PROVE  OneInv(p)'
<1>1. PICK st, o : st = thread[p] /\ o = thread[p].order
  OBVIOUS
<1>2. /\ st = [op |-> st.op, order |-> o, resp |-> st.resp]
      /\ o \in Placed /\ o \in Orders /\ Stands(st.resp, broker[o])
  <2>1. st # None /\ st.op = "ack" /\ o = st.order
    BY <1>1 DEF Ack, At
  <2>2. Shaped(st, Placed, Sent) /\ Current(st, orders, broker)
    BY <1>1, <2>1 DEF Inv, ThreadsOK, OneInv
  <2>3. o \in Sent /\ st = [op |-> st.op, order |-> o, resp |-> st.resp]
    BY <2>1, <2>2, Holds
  <2> QED BY <2>1, <2>2, <2>3 DEF Current, Placed, Inv, TablesOK
<1>3. UNCHANGED <<booked, broker>>
  BY DEF Ack
<1>4. PICK row : row = [orders[o] EXCEPT !.status = "submitted", !.known = TRUE]
  OBVIOUS
<1>5. row \in Order /\ row.status \in OpenStatuses /\ row.filled = orders[o].filled
  BY <1>2, <1>4 DEF Inv, TablesOK, Placed, Order, OpenStatuses
<1>6. orders' = [orders EXCEPT ![o] = row]
  BY <1>1, <1>2, <1>4 DEF Ack, Inv, TablesOK, Placed
<1>7. Goto(p, [op |-> "reread", order |-> o, resp |-> st.resp])
  <2>1. [st EXCEPT !.op = "reread"] = [op |-> "reread", order |-> o, resp |-> st.resp]
    BY <1>2
  <2> QED BY <1>1, <2>1 DEF Ack
<1>8. Current([op |-> "reread", order |-> o, resp |-> st.resp], orders', broker)
  BY <1>2 DEF Current
<1>9. row.filled = booked[o] /\ booked' = [booked EXCEPT ![o] = row.filled]
  BY <1>2, <1>3, <1>5 DEF Inv, TablesOK, OneInv, FilledIsBooked, Placed
<1>10. row.filled <= IF broker[o] = None THEN 0 ELSE broker[o].filled
  BY <1>2, <1>9 DEF OneInv, NoShareBookedTwice
<1> QED BY <1>2, <1>3, <1>5, <1>6, <1>7, <1>8, <1>9, <1>10, RowKeepsOne

\* The fill the answer brings is booked and shown at once; the row compared with
\* the answer is the row in the table.
LEMMA ApplyKeepsOne ==
    ASSUME Inv, NEW p, Threads = {p}, OneInv(p), Apply(p)
    PROVE  OneInv(p)'
<1>1. PICK st, o : st = thread[p] /\ o = thread[p].order
  OBVIOUS
<1>2. st # None /\ st.op = "apply" /\ o = st.order
  BY <1>1 DEF Apply, At
<1>3. Shaped(st, Placed, Sent) /\ Current(st, orders, broker)
  BY <1>1, <1>2 DEF Inv, ThreadsOK, OneInv
<1>4. /\ o \in Sent /\ st.resp \in View /\ st.mine \in Order
      /\ st.next # None => IsSync(st.next, Sent)
  BY <1>2, <1>3, Holds
<1>5. o \in Placed /\ o \in Orders /\ broker[o] # None
  BY <1>4 DEF Inv, TablesOK, Sent
<1>6. /\ st.mine = orders[o] /\ Stands(st.resp, broker[o])
      /\ st.next # None => AllStand(st.next, broker)
  BY <1>2, <1>3 DEF Current
<1>7. UNCHANGED broker
  BY DEF Apply
<1>8. st.next # None => /\ \A rows : Current(st.next, rows, broker)
  BY <1>4, <1>6 DEF IsSync, Current
<1>9. PICK row \in Order : Applied(row, st.mine, st.resp, o)
  BY <1>4, <1>5, UpdatedIsRow DEF Inv
<1>10. booked[o] = orders[o].filled /\ booked[o] \in Nat /\ booked[o] <= broker[o].filled
  <2>1. orders[o] # None
    BY <1>5 DEF Placed
  <2> QED BY <1>5, <2>1 DEF Inv, TablesOK, OneInv, FilledIsBooked, NoShareBookedTwice
<1>11. /\ row.status \notin OpenStatuses => broker[o].status = row.status
       /\ row.filled <= broker[o].filled
  BY <1>4, <1>6, <1>9, <1>10 DEF Applied, Stands
<1>12. CASE st.resp.filled > st.mine.filled
  <2>1. PICK tx : tx = Row(o, st.resp.filled - st.mine.filled)
    OBVIOUS
  <2>2. st.resp.filled - st.mine.filled \in Nat \ {0}
    BY <1>4, <1>12 DEF View, Order
  <2>3. tx.qty = st.resp.filled - st.mine.filled
    BY <1>5, <2>1, <2>2, FillIsRow DEF Inv
  <2>4. \/ /\ booked' = [booked EXCEPT ![o] = @ + tx.qty]
           /\ orders' = Updated(st.mine, st.resp, o) /\ Goto(p, st.next)
        \/ Goto(p, None) /\ UNCHANGED <<booked, orders>>
    <3>1. ~(st.resp.filled <= st.mine.filled)
      BY <1>4, <1>12 DEF View, Order
    <3> QED BY <1>1, <2>1, <3>1 DEF Apply
  <2>5. CASE Goto(p, None) /\ UNCHANGED <<booked, orders>>
    BY <1>7, <2>5, HandsKeepOne
  <2>6. CASE /\ booked' = [booked EXCEPT ![o] = @ + tx.qty]
             /\ orders' = Updated(st.mine, st.resp, o) /\ Goto(p, st.next)
    <3>1. orders' = [orders EXCEPT ![o] = row] /\ row.filled = st.resp.filled
      BY <1>9, <1>12, <2>6 DEF Applied
    <3>2. booked[o] + tx.qty = row.filled
      BY <1>4, <1>6, <1>10, <2>3, <3>1 DEF View, Order
    <3>3. booked' = [booked EXCEPT ![o] = row.filled]
      BY <1>5, <2>6, <3>2 DEF Inv, TablesOK
    <3> QED BY <1>5, <1>7, <1>8, <1>11, <2>6, <3>1, <3>3, RowKeepsOne
  <2> QED BY <2>4, <2>5, <2>6
<1>13. CASE st.resp.filled <= st.mine.filled
  <2>1. /\ Goto(p, st.next) /\ UNCHANGED booked
        /\ orders' = orders \/ orders' = Updated(st.mine, st.resp, o)
    BY <1>1, <1>4, <1>13 DEF Apply, View, Order
  <2>2. CASE orders' = orders
    BY <1>7, <1>8, <2>1, <2>2, HandsKeepOne
  <2>3. CASE orders' = Updated(st.mine, st.resp, o)
    <3>1. ~(st.resp.filled > st.mine.filled)
      BY <1>4, <1>13 DEF View, Order
    <3>2. orders' = [orders EXCEPT ![o] = row] /\ row.filled = booked[o]
      BY <1>9, <1>10, <2>3, <3>1 DEF Applied
    <3>3. booked' = [booked EXCEPT ![o] = row.filled]
      BY <1>5, <2>1, <3>2 DEF Inv, TablesOK
    <3> QED BY <1>5, <1>7, <1>8, <1>11, <2>1, <3>2, <3>3, RowKeepsOne
  <2> QED BY <2>1, <2>2, <2>3
<1> QED BY <1>4, <1>12, <1>13 DEF View, Order

\* A step of Alpaca, or a cancel it takes at once: what it said before stands.
LEMMA ViewKeepsOne ==
    ASSUME Inv, NEW p, Threads = {p}, OneInv(p), NEW o \in Sent, NEW view \in View,
           broker' = [broker EXCEPT ![o] = view], UNCHANGED <<booked, orders>>,
           broker[o].status \in OpenStatuses, broker[o].filled <= view.filled,
           thread'[p] # None => Shaped(thread'[p], Placed, Sent) /\ Current(thread'[p], orders, broker)
    PROVE  OneInv(p)'
<1>1. o \in Orders /\ broker[o] \in View /\ broker[o] # None /\ view # None
  BY NoOrderAssumption DEF Inv, TablesOK, Sent
<1>2. broker'[o] = view /\ \A x \in Orders \ {o} : broker'[x] = broker[x]
  BY <1>1 DEF Inv, TablesOK
<1>3. \A x \in Sent : broker[x] \in View /\ broker'[x] \in View /\ Stands(broker[x], broker'[x])
  <2>1. \A x \in Sent : x \in Orders /\ broker[x] \in View
    BY DEF Inv, TablesOK, Sent
  <2>2. Stands(broker[o], view)
    BY DEF Stands
  <2>3. ASSUME NEW x \in Sent PROVE Stands(broker[x], broker[x])
    BY <2>1 DEF Stands, View
  <2> QED BY <1>1, <1>2, <2>1, <2>2, <2>3
<1>4. \A x \in Placed : broker[x] = None => broker'[x] = None
  BY <1>1, <1>2 DEF Placed
<1>5. thread'[p] # None => Current(thread'[p], orders', broker')
  BY <1>3, <1>4, CurrentStays
<1>6. NoShareBookedTwice'
  <2>1. booked[o] \in Nat /\ booked[o] <= broker[o].filled
    BY <1>1 DEF Inv, TablesOK, OneInv, NoShareBookedTwice
  <2>2. booked[o] <= view.filled
    BY <1>1, <2>1 DEF View
  <2> QED BY <1>1, <1>2, <2>2 DEF OneInv, NoShareBookedTwice
<1>7. FilledIsBooked' /\ ClosedMeansClosedThere'
  BY <1>1, <1>2 DEF OneInv, FilledIsBooked, ClosedMeansClosedThere
<1> QED BY <1>5, <1>6, <1>7 DEF OneInv

\* Cancelling at Alpaca moves Alpaca's status forward and no shares.
LEMMA DeleteKeepsOne ==
    ASSUME Inv, NEW p, Threads = {p}, OneInv(p), Delete(p)
    PROVE  OneInv(p)'
<1>1. PICK st, o : st = thread[p] /\ o = thread[p].order
  OBVIOUS
<1>2. st # None /\ st.op = "delete" /\ o = st.order
  BY <1>1 DEF Delete, At
<1>3. Shaped(st, Placed, Sent) /\ Current(st, orders, broker)
  BY <1>1, <1>2 DEF Inv, ThreadsOK, OneInv
<1>4. /\ o \in Sent /\ st.mine \in Order
      /\ st = [op |-> st.op, order |-> o, mine |-> st.mine] /\ st.mine = orders[o]
  BY <1>2, <1>3, Holds DEF Current
<1>5. UNCHANGED <<booked, orders>>
  BY DEF Delete
<1>6. PICK next : next = [op |-> "get", order |-> o, mine |-> st.mine]
  OBVIOUS
<1>7. Shaped(next, Placed, Sent) /\ Current(next, orders, broker)
  <2>1. Shaped(next, Placed, Sent)
    BY <1>4, <1>6, Shapes
  <2> QED BY <1>4, <1>6, <2>1 DEF Current
<1>8. [st EXCEPT !.op = "get"] = next
  BY <1>4, <1>6
<1>9. PICK view : view = [broker[o] EXCEPT !.status = "cancelled"]
  OBVIOUS
<1>10. \/ /\ broker[o].status \in OpenStatuses
          /\ broker' = [broker EXCEPT ![o] = view] \/ UNCHANGED broker
          /\ Goto(p, next)
       \/ Goto(p, None) /\ UNCHANGED broker
  BY <1>1, <1>8, <1>9 DEF Delete
<1>11. CASE broker[o].status \in OpenStatuses /\ broker' = [broker EXCEPT ![o] = view] /\ Goto(p, next)
  <2>1. broker[o] \in View
    BY <1>4 DEF Inv, TablesOK, Sent
  <2>2. view \in View /\ view.filled = broker[o].filled /\ broker[o].filled <= view.filled
    BY <1>9, <2>1 DEF View
  <2>3. thread'[p] = next
    BY <1>11 DEF Goto, Inv, ThreadsOK
  <2> QED BY <1>4, <1>5, <1>7, <1>11, <2>2, <2>3, ViewKeepsOne
<1>12. CASE UNCHANGED broker /\ (Goto(p, None) \/ Goto(p, next))
  BY <1>5, <1>7, <1>12, HandsKeepOne
<1> QED BY <1>10, <1>11, <1>12

\* Alpaca only ever fills more and closes what is open.
LEMMA BrokerKeepsOne ==
    ASSUME Inv, NEW p, Threads = {p}, OneInv(p), NEW o \in Orders, BrokerFills(o) \/ BrokerCloses(o)
    PROVE  OneInv(p)'
<1>1. broker[o] # None /\ broker[o].status \in OpenStatuses
  BY DEF BrokerFills, BrokerCloses
<1>2. o \in Sent /\ broker[o] \in View /\ orders[o] \in Order
  BY <1>1 DEF Inv, TablesOK, Placed, Sent
<1>3. UNCHANGED <<booked, orders, thread>>
  BY DEF BrokerFills, BrokerCloses
<1>4. PICK view \in View : broker' = [broker EXCEPT ![o] = view] /\ broker[o].filled <= view.filled
  <2>1. CASE BrokerFills(o)
    <3>1. PICK qty \in 1..(orders[o].qty - broker[o].filled) :
            broker' = [broker EXCEPT ![o] =
               [status |-> IF broker[o].filled + qty = orders[o].qty THEN "filled" ELSE "partially_filled",
                filled |-> broker[o].filled + qty]]
      BY <1>2, <2>1 DEF BrokerFills, Inv, TablesOK
    <3>2. broker[o].filled + qty \in Nat /\ broker[o].filled <= broker[o].filled + qty
      BY <1>2 DEF View, Order
    <3>3. PICK view : view =
               [status |-> IF broker[o].filled + qty = orders[o].qty THEN "filled" ELSE "partially_filled",
                filled |-> broker[o].filled + qty]
      OBVIOUS
    <3>4. view \in View /\ broker[o].filled <= view.filled
      BY <3>2, <3>3 DEF View, OpenStatuses
    <3> QED BY <3>1, <3>3, <3>4
  <2>2. CASE BrokerCloses(o)
    <3>1. PICK view : view = [broker[o] EXCEPT !.status = "cancelled"]
      OBVIOUS
    <3>2. view \in View /\ broker[o].filled <= view.filled
      BY <1>2, <3>1 DEF View
    <3>3. broker' = [broker EXCEPT ![o] = view]
      BY <2>2, <3>1 DEF BrokerCloses
    <3> QED BY <3>2, <3>3
  <2> QED BY <2>1, <2>2
<1>5. thread'[p] # None => Shaped(thread'[p], Placed, Sent) /\ Current(thread'[p], orders, broker)
  BY <1>3 DEF Inv, ThreadsOK, OneInv
<1> QED BY <1>1, <1>2, <1>3, <1>4, <1>5, ViewKeepsOne

\* One case for each action, under the invariant of any number of threads.
LEMMA NextKeepsOne ==
    ASSUME NEW p, Threads = {p}
    PROVE  Inv /\ OneInv(p) /\ [Next]_vars => OneInv(p)'
<1> SUFFICES ASSUME Inv, OneInv(p), [Next]_vars PROVE OneInv(p)'
  OBVIOUS
<1>1. CASE \E q \in Threads : PlaceSteps(q) \/ CancelSteps(q) \/ SyncSteps(q) \/ Apply(q)
  BY <1>1, PlaceKeepsOne, PostKeepsOne, PostRefusedKeepsOne, AckKeepsOne, ReadsKeepOne, ApplyKeepsOne,
     DeleteKeepsOne DEF PlaceSteps, CancelSteps, SyncSteps
<1>2. CASE \E o \in Orders : BrokerFills(o) \/ BrokerCloses(o)
  BY <1>2, BrokerKeepsOne
<1>3. CASE Crash
  <2>1. thread'[p] = None /\ UNCHANGED <<booked, orders, broker>>
    BY <1>3 DEF Crash
  <2> QED BY <2>1 DEF OneInv, FilledIsBooked, NoShareBookedTwice, ClosedMeansClosedThere
<1>4. CASE UNCHANGED vars
  BY <1>4 DEF vars, OneInv, FilledIsBooked, NoShareBookedTwice, ClosedMeansClosedThere
<1> QED BY <1>1, <1>2, <1>3, <1>4 DEF Next

\* Nothing is ordered, filled or booked at the start.
LEMMA InitHasOne ==
    ASSUME NEW p, Threads = {p}
    PROVE  Init => OneInv(p)
  BY DEF Init, OneInv, FilledIsBooked, NoShareBookedTwice, ClosedMeansClosedThere

\* Where one thread runs at a time, the mirror agrees with itself at every step:
\* what an order shows as filled is what the ledger booked for it, and what it
\* shows as closed is closed at Alpaca.
THEOREM MirrorAgrees ==
    ASSUME NEW p, Threads = {p}
    PROVE  Spec => []MirrorHolds
<1>1. Spec => [](TypeOK /\ MirrorSolvent)
  BY MirrorStaysSolvent
<1>2. OneInv(p) => FilledIsBooked /\ ClosedMeansClosedThere
  BY DEF OneInv
<1>3. Init => Inv /\ OneInv(p)
  BY InitHasInv, InitHasOne
<1>4. Inv /\ OneInv(p) /\ [Next]_vars => Inv' /\ OneInv(p)'
  BY NextKeepsInv, NextKeepsOne
<1>5. TypeOK /\ MirrorSolvent /\ FilledIsBooked /\ ClosedMeansClosedThere => MirrorHolds
  BY DEF MirrorHolds
<1> QED BY <1>1, <1>2, <1>3, <1>4, <1>5, PTL DEF Spec

\* And no share of a fill is booked twice, through partial fills, cancels, lost
\* answers, repeated pulls and restarts.
THEOREM SharesAreBookedOnce ==
    ASSUME NEW p, Threads = {p}
    PROVE  Spec => []NoShareBookedTwice
<1>1. OneInv(p) => NoShareBookedTwice
  BY DEF OneInv
<1>2. Init => Inv /\ OneInv(p)
  BY InitHasInv, InitHasOne
<1>3. Inv /\ OneInv(p) /\ [Next]_vars => Inv' /\ OneInv(p)'
  BY NextKeepsInv, NextKeepsOne
<1> QED BY <1>1, <1>2, <1>3, PTL DEF Spec
=============================================================================
