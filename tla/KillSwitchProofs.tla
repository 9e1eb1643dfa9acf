-------------------------- MODULE KillSwitchProofs --------------------------
(***************************************************************************)
(* Proofs about the risk switches, where one request of the user runs at a *)
(* time and no drawdown limit is set, so that the refresh thread writes no *)
(* row: a halt leaves nothing that trades, and no handler brings an old    *)
(* halt or an old limit back.  (With a second request, or with a limit,    *)
(* neither holds: the row is written back whole.)  And about the alerts,   *)
(* for any levels, accounts and bounds: an exit rule's alerts are of the   *)
(* rule as it is, and what it takes for told was told; a command of the    *)
(* Telegram bot runs once, and news goes to a chat that proved whose it is.*)
(***************************************************************************)
EXTENDS MCKillSwitch, Sequences, TLAPS

(***************************************************************************)
(* The inductive invariant.  What a handler of request r took from the row *)
(* is still what the row says, but for the field the handler is about to   *)
(* change; and the further a halt has come, the less is left to stop.      *)
(***************************************************************************)
Why == {"save", "acknowledge", "release"}

\* What a write, and the handlers that lead to one, carry of the row.
Carries(st, row) ==
    /\ st.op = "write" =>
         /\ st.why \in Why /\ st.row \in Row
         /\ st.why # "release" => st.row.halted = row.halted
         /\ st.why = "release" => ~st.row.halted
         /\ st.why # "save" => st.row.limits = row.limits
    /\ st.op \in {"list orders", "cancel orders", "pause bots"} =>
         st.row \in Row /\ st.row.halted /\ st.row.limits = row.limits
    /\ st.op \in {"cancel orders", "pause bots"} =>
         st = [op |-> st.op, row |-> st.row, todo |-> st.todo]

\* How far a halt has come; nothing of it is undone while the handler is at work.
Resting == {o \in Orders : orders[o] = "submitted"}
Running == {b \in Bots : bots[b] = "active"}

Stopped(st, row, resting, running) ==
    /\ st.op = "cancel orders" => resting \subseteq st.todo
    /\ st.op = "pause bots" => resting = {} /\ running \subseteq st.todo
    /\ st.op \in {"insert", "resume"} => ~row.halted

\* Only the request writes the row: the refresh thread never gets as far.
Trading(st) == st = [op |-> "engine", todo |-> st.todo] \/ st.op = "trade"

SwitchInv(r) ==
    /\ risk \in Row
    /\ orders \in [Orders -> {"none", "submitted", "filled", "cancelled"}]
    /\ bots \in [Bots -> {"active", "paused"}]
    /\ thread = [p \in Threads |-> thread[p]]
    /\ thread[r] # None => Carries(thread[r], risk) /\ Stopped(thread[r], risk, Resting, Running)
    /\ thread[Refresh] # None => Trading(thread[Refresh])
    /\ risk.halted => Resting = {} /\ Running = {}

Inv(r) == ~watches => SwitchInv(r)

(***************************************************************************)
(* The steps.                                                              *)
(***************************************************************************)
LEMMA InitHasInv ==
    ASSUME NEW r, Requests = {r}
    PROVE  Init => Inv(r)
  BY SwitchAssumption DEF Init, Inv, SwitchInv, Row, Threads, Resting, Running

\* A handler moves on, and nothing else does: it need only fit the tables.
LEMMA MovesKeepInv ==
    ASSUME NEW r, Requests = {r}, SwitchInv(r), NEW st, Goto(r, st),
           st # None => Carries(st, risk) /\ Stopped(st, risk, Resting, Running),
           UNCHANGED <<risk, orders, bots>>
    PROVE  SwitchInv(r)'
<1>1. r \in Threads /\ Refresh \in Threads /\ r # Refresh
  BY SwitchAssumption DEF Threads
<1>2. /\ thread' = [p \in Threads |-> thread'[p]]
      /\ thread'[r] = st /\ thread'[Refresh] = thread[Refresh]
  BY <1>1 DEF Goto, SwitchInv
<1>3. Resting' = Resting /\ Running' = Running
  BY DEF Resting, Running
<1> QED BY <1>2, <1>3 DEF SwitchInv, Trading

\* Steps that neither take a halt further nor write anything.
LEMMA ReadsKeepInv ==
    ASSUME NEW r, Requests = {r}, SwitchInv(r), ~watches,
           \/ ReadForSave(r) \/ Check(r) \/ ReadForAcknowledge(r) \/ Kill(r) \/ HaltReadRow(r)
           \/ VerifyRelease(r) \/ ReadForRelease(r) \/ CheckOrder(r) \/ CheckResume(r)
    PROVE  SwitchInv(r)'
<1> DEFINE Fits(st) == st # None => Carries(st, risk) /\ Stopped(st, risk, Resting, Running)
<1>1. risk \in Row
  BY DEF SwitchInv
<1>2. UNCHANGED <<risk, orders, bots>>
  BY DEF ReadForSave, Check, ReadForAcknowledge, Kill, HaltReadRow, VerifyRelease, ReadForRelease,
         CheckOrder, CheckResume
<1>3. ASSUME NEW st, Goto(r, st), Fits(st) PROVE SwitchInv(r)'
  BY <1>2, <1>3, MovesKeepInv
<1>4. ASSUME NEW op \in {"read row", "release", "check"} PROVE Fits([op |-> op])
  BY DEF Carries, Stopped
<1>5. ASSUME NEW row, NEW why \in Why, row \in Row,
             why # "release" => row.halted = risk.halted, why = "release" => ~row.halted,
             why # "save" => row.limits = risk.limits
      PROVE  Fits([op |-> "write", row |-> row, why |-> why])
  BY <1>5 DEF Carries, Stopped
<1>6. Fits(None)
  OBVIOUS
<1> HIDE DEF Fits
<1>7. CASE ReadForSave(r)
  <2>1. PICK new \in Limits : WriteLater(r, [risk EXCEPT !.limits = new], "save")
    BY <1>7 DEF ReadForSave
  <2>2. PICK row : row = [risk EXCEPT !.limits = new]
    OBVIOUS
  <2>3. row \in Row /\ row.halted = risk.halted
    BY <1>1, <2>2 DEF Row
  <2> QED BY <1>3, <1>5, <2>1, <2>2, <2>3 DEF WriteLater, Why
<1>8. CASE Check(r)
  BY <1>3, <1>6, <1>8 DEF Check
<1>9. CASE ReadForAcknowledge(r)
  <2>1. PICK row : row = [risk EXCEPT !.tripped = FALSE]
    OBVIOUS
  <2>2. row \in Row /\ row.halted = risk.halted /\ row.limits = risk.limits
    BY <1>1, <2>1 DEF Row
  <2> QED BY <1>3, <1>5, <1>9, <2>1, <2>2 DEF ReadForAcknowledge, WriteLater, Why
<1>10. CASE Kill(r)
  BY <1>3, <1>4, <1>10 DEF Kill
<1>11. CASE HaltReadRow(r)
  <2>1. PICK row : row = [risk EXCEPT !.halted = TRUE]
    OBVIOUS
  <2>2. row \in Row /\ row.halted /\ row.limits = risk.limits
    BY <1>1, <2>1 DEF Row
  <2>3. Fits([op |-> "list orders", row |-> row])
    BY <2>2 DEF Fits, Carries, Stopped
  <2> QED BY <1>3, <1>11, <2>1, <2>3 DEF HaltReadRow
<1>12. CASE VerifyRelease(r)
  BY <1>3, <1>4, <1>12 DEF VerifyRelease
<1>13. CASE ReadForRelease(r)
  <2>1. PICK row : row = [risk EXCEPT !.halted = FALSE]
    OBVIOUS
  <2>2. row \in Row /\ ~row.halted /\ row.limits = risk.limits
    BY <1>1, <2>1 DEF Row
  <2> QED BY <1>3, <1>5, <1>6, <1>13, <2>1, <2>2 DEF ReadForRelease, WriteLater, Why
<1>14. CASE CheckOrder(r)
  <2>1. ~risk.halted /\ Goto(r, [op |-> "insert"])
    BY <1>14 DEF CheckOrder
  <2>2. Fits([op |-> "insert"])
    BY <2>1 DEF Fits, Carries, Stopped
  <2> QED BY <1>3, <2>1, <2>2
<1>15. CASE CheckResume(r)
  <2>1. PICK b \in Bots : ~risk.halted /\ Goto(r, [op |-> "resume", bot |-> b])
    BY <1>15 DEF CheckResume
  <2>2. Fits([op |-> "resume", bot |-> b])
    BY <2>1 DEF Fits, Carries, Stopped
  <2> QED BY <1>3, <2>1, <2>2
<1> QED BY <1>7, <1>8, <1>9, <1>10, <1>11, <1>12, <1>13, <1>14, <1>15

\* A halt at work: what it lists is all there is, and what it stops stays stopped.
LEMMA HaltKeepsInv ==
    ASSUME NEW r, Requests = {r}, SwitchInv(r), ~watches,
           \/ HaltListOrders(r) \/ HaltCancelOrder(r) \/ HaltListBots(r) \/ HaltPauseBot(r)
    PROVE  SwitchInv(r)'
<1> USE DEF SwitchInv
<1>1. r \in Threads /\ Refresh \in Threads /\ r # Refresh
  BY SwitchAssumption DEF Threads
<1>2. thread[r] # None /\ UNCHANGED risk
  BY DEF HaltListOrders, HaltCancelOrder, HaltListBots, HaltPauseBot, At
<1> DEFINE st == thread[r]
<1>3. ASSUME NEW todo, Goto(r, [st EXCEPT !.todo = todo]), st.op \in {"cancel orders", "pause bots"}
      PROVE  Goto(r, [op |-> st.op, row |-> st.row, todo |-> todo])
  <2>1. st = [op |-> st.op, row |-> st.row, todo |-> st.todo]
    BY <1>2, <1>3 DEF Carries
  <2>2. [st EXCEPT !.todo = todo] = [op |-> st.op, row |-> st.row, todo |-> todo]
    BY <2>1
  <2> QED BY <1>3, <2>2
<1>4. PICK op, todo :
        /\ Goto(r, [op |-> op, row |-> st.row, todo |-> todo])
        /\ op \in {"cancel orders", "pause bots"}
        /\ st.op \in {"list orders", "cancel orders", "pause bots"}
        /\ Resting' \subseteq Resting /\ Running' \subseteq Running
        /\ op = "cancel orders" => Resting' \subseteq todo
        /\ op = "pause bots" => Resting' = {} /\ Running' \subseteq todo
        /\ orders' \in [Orders -> {"none", "submitted", "filled", "cancelled"}]
        /\ bots' \in [Bots -> {"active", "paused"}]
  <2>1. CASE HaltListOrders(r)
    BY <2>1 DEF HaltListOrders, At, Resting, Running
  <2>2. CASE HaltCancelOrder(r)
    <3>1. PICK o \in st.todo :
            /\ orders' = [orders EXCEPT ![o] = IF @ = "submitted" THEN "cancelled" ELSE @]
            /\ Goto(r, [st EXCEPT !.todo = st.todo \ {o}])
            /\ st.op = "cancel orders" /\ UNCHANGED bots
      BY <2>2 DEF HaltCancelOrder, At
    <3>2. Goto(r, [op |-> "cancel orders", row |-> st.row, todo |-> st.todo \ {o}])
      BY <1>3, <3>1
    <3>3. Resting \subseteq st.todo
      BY <1>2, <3>1 DEF Stopped
    <3> QED BY <3>1, <3>2, <3>3 DEF Resting, Running
  <2>3. CASE HaltListBots(r)
    <3>1. Resting = {}
      BY <1>2, <2>3 DEF HaltListBots, At, Stopped
    <3> QED BY <2>3, <3>1 DEF HaltListBots, At, Resting, Running
  <2>4. CASE HaltPauseBot(r)
    <3>1. PICK b \in st.todo :
            /\ bots' = [bots EXCEPT ![b] = IF @ = "active" THEN "paused" ELSE @]
            /\ Goto(r, [st EXCEPT !.todo = st.todo \ {b}])
            /\ st.op = "pause bots" /\ UNCHANGED orders
      BY <2>4 DEF HaltPauseBot, At
    <3>2. Goto(r, [op |-> "pause bots", row |-> st.row, todo |-> st.todo \ {b}])
      BY <1>3, <3>1
    <3>3. Resting = {} /\ Running \subseteq st.todo
      BY <1>2, <3>1 DEF Stopped
    <3> QED BY <3>1, <3>2, <3>3 DEF Resting, Running
  <2> QED BY <2>1, <2>2, <2>3, <2>4
<1>5. st.row \in Row /\ st.row.halted /\ st.row.limits = risk.limits
  BY <1>2, <1>4 DEF Carries
<1>6. /\ thread' = [p \in Threads |-> thread'[p]]
      /\ thread'[r] = [op |-> op, row |-> st.row, todo |-> todo]
      /\ thread'[Refresh] = thread[Refresh]
  BY <1>1, <1>4 DEF Goto
<1>7. Carries(thread'[r], risk) /\ Stopped(thread'[r], risk, Resting', Running')
  <2>1. PICK new : new = [op |-> op, row |-> st.row, todo |-> todo]
    OBVIOUS
  <2>2. /\ new.op = op /\ new.row = st.row /\ new.todo = todo
        /\ new = [op |-> new.op, row |-> new.row, todo |-> new.todo]
    BY <2>1
  <2>3. Carries(new, risk) /\ Stopped(new, risk, Resting', Running')
    BY <1>4, <1>5, <2>2 DEF Carries, Stopped
  <2> QED BY <1>6, <2>1, <2>3
<1>8. risk.halted => Resting' = {} /\ Running' = {}
  BY <1>4
<1> QED BY <1>2, <1>4, <1>6, <1>7, <1>8 DEF Trading

\* A write of the row: a halt only after everything was stopped, a save or an
\* acknowledgement with the halt as it is.
LEMMA WritesKeepInv ==
    ASSUME NEW r, Requests = {r}, SwitchInv(r), ~watches, WriteRow(r) \/ HaltWriteRow(r)
    PROVE  SwitchInv(r)'
<1> USE DEF SwitchInv
<1>1. r \in Threads /\ Refresh \in Threads /\ r # Refresh
  BY SwitchAssumption DEF Threads
<1>2. /\ thread[r] # None /\ UNCHANGED <<orders, bots>> /\ risk' = thread[r].row
      /\ Goto(r, None) \/ Goto(r, [op |-> "check"])
  BY DEF WriteRow, HaltWriteRow, At
<1>3. risk' \in Row /\ (risk'.halted => Resting = {} /\ Running = {})
  <2>1. CASE WriteRow(r)
    <3>1. thread[r].op = "write"
      BY <2>1 DEF WriteRow, At
    <3> QED BY <1>2, <3>1 DEF Carries, Row
  <2>2. CASE HaltWriteRow(r)
    <3>1. thread[r].op = "pause bots" /\ thread[r].todo = {}
      BY <2>2 DEF HaltWriteRow, At
    <3> QED BY <1>2, <3>1 DEF Carries, Stopped
  <2> QED BY <2>1, <2>2
<1>4. /\ thread' = [p \in Threads |-> thread'[p]]
      /\ thread'[r] = None \/ thread'[r] = [op |-> "check"]
      /\ thread'[Refresh] = thread[Refresh]
  BY <1>1, <1>2 DEF Goto
<1>5. thread'[r] # None => Carries(thread'[r], risk') /\ Stopped(thread'[r], risk', Resting, Running)
  <2>1. \A row : /\ Carries([op |-> "check"], row)
                 /\ Stopped([op |-> "check"], row, Resting, Running)
    BY DEF Carries, Stopped
  <2> QED BY <1>4, <2>1
<1>6. Resting' = Resting /\ Running' = Running
  BY <1>2 DEF Resting, Running
<1> QED BY <1>2, <1>3, <1>4, <1>5, <1>6 DEF Trading

\* Orders and bots start only where the row was read as not halted.
LEMMA OthersKeepInv ==
    ASSUME NEW r, Requests = {r}, SwitchInv(r), ~watches,
           InsertOrder(r) \/ ResumeBot(r) \/ PauseBot(r) \/ PollFill
    PROVE  SwitchInv(r)'
<1> USE DEF SwitchInv
<1>1. r \in Threads /\ Refresh \in Threads /\ r # Refresh
  BY SwitchAssumption DEF Threads
<1>2. /\ UNCHANGED risk
      /\ orders' \in [Orders -> {"none", "submitted", "filled", "cancelled"}]
      /\ bots' \in [Bots -> {"active", "paused"}]
  BY DEF InsertOrder, ResumeBot, PauseBot, PollFill
<1>3. \/ /\ ~risk.halted /\ thread' = [thread EXCEPT ![r] = None]
      \/ /\ UNCHANGED thread /\ Resting' \subseteq Resting /\ Running' \subseteq Running
         /\ thread[r] = None \/ UNCHANGED bots
  <2>1. CASE InsertOrder(r) \/ ResumeBot(r)
    BY <2>1 DEF InsertOrder, ResumeBot, At, Goto, Stopped
  <2>2. CASE PauseBot(r) \/ PollFill
    BY <2>2 DEF PauseBot, PollFill, Ready, Resting, Running
  <2> QED BY <2>1, <2>2
<1>4. /\ thread' = [p \in Threads |-> thread'[p]]
      /\ thread'[Refresh] = thread[Refresh]
      /\ thread'[r] = None \/ thread'[r] = thread[r]
  BY <1>1, <1>3
<1>5. thread'[r] # None => /\ Carries(thread'[r], risk)
                           /\ Stopped(thread'[r], risk, Resting', Running')
  BY <1>1, <1>2, <1>3 DEF Carries, Stopped
<1>6. risk'.halted => Resting' = {} /\ Running' = {}
  BY <1>2, <1>3
<1> QED BY <1>2, <1>4, <1>5, <1>6 DEF Trading

\* The refresh thread: without a drawdown limit its check writes nothing.
LEMMA RefreshKeepsInv ==
    ASSUME NEW r, Requests = {r}, SwitchInv(r), ~watches,
           \/ Check(Refresh) \/ WriteRow(Refresh) \/ EnginePass \/ EngineCheck \/ BotTrade
           \/ EngineDone \/ Market
    PROVE  SwitchInv(r)'
<1> USE DEF SwitchInv
<1>1. r \in Threads /\ Refresh \in Threads /\ r # Refresh
  BY SwitchAssumption DEF Threads
<1>2. ~WriteRow(Refresh)
  BY DEF WriteRow, At, Trading
<1>3. UNCHANGED <<risk, orders, bots>>
  BY <1>2 DEF Check, EnginePass, EngineCheck, BotTrade, EngineDone, Market
<1>4. UNCHANGED thread \/ \E st : Goto(Refresh, st) /\ (st # None => Trading(st))
  <2>1. CASE Check(Refresh)
    BY <2>1 DEF Check, At, Ready
  <2>2. CASE EnginePass
    BY <2>2 DEF EnginePass, Trading
  <2>3. CASE EngineCheck
    <3>1. thread[Refresh] = [op |-> "engine", todo |-> thread[Refresh].todo]
      BY <2>3 DEF EngineCheck, At, Trading
    <3>2. \A st, x : st = [op |-> "engine", todo |-> st.todo]
                     => [st EXCEPT !.todo = x] = [op |-> "engine", todo |-> x]
      OBVIOUS
    <3>3. PICK b : \/ Goto(Refresh, [op |-> "trade", bot |-> b, todo |-> thread[Refresh].todo \ {b}])
                   \/ Goto(Refresh, [thread[Refresh] EXCEPT !.todo = @ \ {b}])
      BY <2>3, Zenon DEF EngineCheck
    <3>4. CASE Goto(Refresh, [op |-> "trade", bot |-> b, todo |-> thread[Refresh].todo \ {b}])
      BY <3>4 DEF Trading
    <3>5. CASE Goto(Refresh, [thread[Refresh] EXCEPT !.todo = @ \ {b}])
      <4>1. [thread[Refresh] EXCEPT !.todo = @ \ {b}] = [op |-> "engine", todo |-> thread[Refresh].todo \ {b}]
        BY <3>1, <3>2, Zenon
      <4>2. Goto(Refresh, [op |-> "engine", todo |-> thread[Refresh].todo \ {b}])
        BY <3>5, <4>1, Zenon
      <4> QED BY <4>2 DEF Trading
    <3> QED BY <3>3, <3>4, <3>5
  <2>4. CASE BotTrade
    BY <2>4 DEF BotTrade, Trading
  <2>5. CASE EngineDone
    BY <2>5 DEF EngineDone
  <2>6. CASE Market
    BY <2>6 DEF Market
  <2> QED BY <1>2, <2>1, <2>2, <2>3, <2>4, <2>5, <2>6
<1>5. /\ thread' = [p \in Threads |-> thread'[p]] /\ thread'[r] = thread[r]
      /\ thread'[Refresh] # None => Trading(thread'[Refresh])
  BY <1>1, <1>4 DEF Goto
<1>6. Resting' = Resting /\ Running' = Running
  BY <1>3 DEF Resting, Running
<1> QED BY <1>3, <1>5, <1>6 DEF Trading

\* One case for each handler and each writer of the row.
LEMMA NextKeepsInv ==
    ASSUME NEW r, Requests = {r}
    PROVE  Inv(r) /\ [Next]_vars => Inv(r)'
<1> SUFFICES ASSUME Inv(r), [Next]_vars, ~watches' PROVE SwitchInv(r)'
  BY DEF Inv
<1>1. ~watches /\ SwitchInv(r)
  BY DEF Next, vars, Inv
<1>2. CASE \E x \in Requests : Begin(x)
  BY <1>1, <1>2, ReadsKeepInv, OthersKeepInv DEF Begin
<1>3. CASE \E x \in Requests : Continue(x)
  BY <1>1, <1>3, ReadsKeepInv, HaltKeepsInv, WritesKeepInv, OthersKeepInv DEF Continue, Halt
<1>4. CASE RefreshStep \/ Market
  BY <1>1, <1>4, OthersKeepInv, RefreshKeepsInv DEF RefreshStep
<1>5. CASE UNCHANGED vars
  BY <1>1, <1>5 DEF vars, SwitchInv, Trading, Resting, Running
<1> QED BY <1>2, <1>3, <1>4, <1>5 DEF Next

\* Where no drawdown limit is set: while trading is halted no order rests that
\* the poll could fill and no bot runs, whatever the engine and the poll did
\* while the halt was at work.
THEOREM HaltStaysQuiet ==
    ASSUME NEW r, Requests = {r}
    PROVE  Spec => []HaltIsQuiet
<1>1. Init => Inv(r)
  BY InitHasInv
<1>2. Inv(r) /\ [Next]_vars => Inv(r)'
  BY NextKeepsInv
<1>3. Inv(r) => HaltIsQuiet
  BY DEF Inv, SwitchInv, HaltIsQuiet, Resting, Running
<1> QED BY <1>1, <1>2, <1>3, PTL DEF Spec

\* Where no drawdown limit is set, only a release ends a halt and only a save
\* changes the limits: every other writer of the whole row brings those fields
\* back as they are.
THEOREM RowOutlivesItsWriters ==
    ASSUME NEW r, Requests = {r}
    PROVE  Spec => RowSurvivesItsWriters
<1>1. Init => Inv(r)
  BY InitHasInv
<1>2. Inv(r) /\ [Next]_vars => Inv(r)'
  BY NextKeepsInv
<1>3. Inv(r) /\ [Next]_vars
      => [ ~watches => /\ risk.halted /\ ~risk'.halted  => Writes("release")
                       /\ risk'.limits # risk.limits    => Writes("save") ]_vars
  <2> SUFFICES ASSUME SwitchInv(r), Next, ~watches, risk' # risk
               PROVE  /\ risk.halted /\ ~risk'.halted => Writes("release")
                      /\ risk'.limits # risk.limits => Writes("save")
    BY DEF Inv
  <2>1. r \in Threads /\ r # Refresh
    BY SwitchAssumption DEF Threads
  <2>2. ~WriteRow(Refresh)
    BY DEF WriteRow, At, SwitchInv, Trading
  <2>3. WriteRow(r) \/ HaltWriteRow(r)
    BY <2>2 DEF Next, Begin, Continue, RefreshStep, Halt, ReadForSave, Check, ReadForAcknowledge,
       Kill, HaltReadRow, HaltListOrders, HaltCancelOrder, HaltListBots, HaltPauseBot, VerifyRelease,
       ReadForRelease, CheckOrder, InsertOrder, PollFill, PauseBot, CheckResume, ResumeBot,
       EnginePass, EngineCheck, BotTrade, EngineDone, Market
  <2>4. CASE HaltWriteRow(r)
    BY <2>4 DEF HaltWriteRow, At, SwitchInv, Carries
  <2>5. CASE WriteRow(r)
    <3>1. /\ At(r, "write") /\ risk' = thread[r].row /\ thread[r] # None
          /\ thread'[r] = IF thread[r].why = "save" THEN [op |-> "check"] ELSE None
      BY <2>1, <2>5 DEF WriteRow, At, Goto, SwitchInv
    <3>2. thread'[r] # thread[r]
      BY <3>1 DEF At
    <3>3. Carries(thread[r], risk) /\ thread[r].op = "write"
      BY <3>1 DEF At, SwitchInv
    <3>4. Writes(thread[r].why)
      BY <2>1, <3>1, <3>2 DEF Writes
    <3> QED BY <3>1, <3>3, <3>4 DEF Carries, Why
  <2> QED BY <2>3, <2>4, <2>5
<1> QED BY <1>1, <1>2, <1>3, PTL DEF Spec, RowSurvivesItsWriters

(***************************************************************************)
(* The exit rules.  Every version of the rule was written by a save that   *)
(* is done, so that without two saves in one second a pass that finds its  *)
(* version again finds the levels it read, and a high that only rose.      *)
(***************************************************************************)
RuleRow == [levels : Levels, high : Nat, fired : SUBSET Exit!Kinds, version : Nat]

PutRow == [at : {"idle", "checked", "read", "done"}, levels : Levels \cup {None}, price : Nat,
           existing : RuleRow \cup {None}, version : Nat]

Places == {"idle", "quoting", "ratchet", "reread", "firing"}

ExitsTyped ==
    /\ rule # None => rule \in RuleRow
    /\ price \in Nat /\ now \in Nat
    /\ pass \in [at : Places, rule : RuleRow \cup {None}, price : Nat, todo : SUBSET Exit!Kinds]
    /\ pass.at # "idle" => pass.rule \in RuleRow
    /\ put \in [Saves -> PutRow]
    /\ \A p \in Saves :
         /\ put[p].at \in {"checked", "read"} => put[p].levels \in Levels
         /\ put[p].existing # None => put[p].existing \in RuleRow

WasSaved(version) == \E p \in Saves : put[p].at = "done" /\ put[p].version = version

VersionsAgree ==
    /\ rule # None => WasSaved(rule.version)
    /\ pass.at # "idle" => WasSaved(pass.rule.version)
    /\ ~Exit!Doubled /\ pass.at # "idle" /\ Exit!SameVersion =>
         rule.levels = pass.rule.levels /\ rule.high >= pass.rule.high

TodoIsCrossed ==
    pass.at = "firing" => pass.todo \subseteq Exit!crossed(pass.rule.levels, pass.rule.high, pass.price)

ExitInv == ExitsTyped /\ VersionsAgree /\ TodoIsCrossed /\ Exit!FiredIsTold

\* Max of two prices.
LEMMA MaxOfTwo ==
    ASSUME NEW a \in Nat, NEW b \in Nat
    PROVE  Exit!Max({a, b}) \in Nat /\ Exit!Max({a, b}) >= a /\ Exit!Max({a, b}) >= b
<1>1. \E x \in {a, b} : \A y \in {a, b} : x >= y
  OBVIOUS
<1>2. Exit!Max({a, b}) \in {a, b} /\ \A y \in {a, b} : Exit!Max({a, b}) >= y
  BY <1>1 DEF Exit!Max
<1> QED BY <1>2

\* A level that was crossed under a high is crossed under a greater one.
LEMMA CrossedUnderAHigherHigh ==
    ASSUME NEW levels \in Levels, NEW low \in Nat, NEW high \in Nat, NEW at \in Nat, high >= low
    PROVE  Exit!crossed(levels, low, at) \subseteq Exit!crossed(levels, high, at)
  BY DEF Exit!crossed, Exit!TrailLevel

\* What a pass goes on with is crossed, by the rule it has and at the price it got.
LEMMA FiringIsSound ==
    ASSUME NEW r \in RuleRow, NEW at \in Nat
    PROVE  \/ Exit!Firing(r, at) = Exit!Idle
           \/ /\ Exit!Firing(r, at) = [at |-> "firing", rule |-> r, price |-> at, todo |-> Exit!Todo(r, at)]
              /\ Exit!Todo(r, at) \subseteq Exit!crossed(r.levels, r.high, at)
              /\ Exit!Todo(r, at) \subseteq Exit!Kinds
  BY DEF Exit!Firing, Exit!Todo, Exit!crossed

\* What was saved stays saved, and two saves of one second stay two.
LEMMA SavesStay ==
    ASSUME ExitsTyped, NEW p \in Saves, put[p].at # "done",
           \A q \in Saves \ {p} : put'[q] = put[q]
    PROVE  /\ \A version : WasSaved(version) => WasSaved(version)'
           /\ Exit!Doubled => Exit!Doubled'
<1>1. \A q \in Saves : put[q].at = "done" => put'[q] = put[q]
  BY DEF ExitsTyped
<1> QED BY <1>1 DEF WasSaved, Exit!Doubled

\* A step that writes neither the rule, nor the alerts, nor the pass.
LEMMA RequestsKeepExitInv ==
    ASSUME ExitInv, NEW p \in Saves,
           (\E levels \in Levels : Exit!PutChecks(p, levels)) \/ Exit!PutReads(p)
    PROVE  ExitInv'
<1>1. /\ put[p].at # "done" /\ \A q \in Saves \ {p} : put'[q] = put[q]
      /\ put' \in [Saves -> PutRow] /\ put'[p].levels \in Levels
      /\ put'[p].existing # None => put'[p].existing \in RuleRow
  <2> DEFINE Fits(new) == new \in PutRow /\ new.levels \in Levels
                          /\ (new.existing # None => new.existing \in RuleRow)
  <2>1. PICK new : put[p].at # "done" /\ put' = [put EXCEPT ![p] = new] /\ Fits(new)
    <3>1. ASSUME NEW levels \in Levels, Exit!PutChecks(p, levels)
          PROVE  \E new : put[p].at # "done" /\ put' = [put EXCEPT ![p] = new] /\ Fits(new)
      <4> DEFINE new == [Exit!Unread EXCEPT !.at = "checked", !.levels = levels, !.price = price]
      <4>1. Fits(new)
        BY DEF Exit!Unread, PutRow, ExitInv, ExitsTyped
      <4> QED BY <3>1, <4>1 DEF Exit!PutChecks
    <3>2. ASSUME Exit!PutReads(p)
          PROVE  \E new : put[p].at # "done" /\ put' = [put EXCEPT ![p] = new] /\ Fits(new)
      <4> DEFINE new == [put[p] EXCEPT !.at = "read", !.existing = rule, !.version = now]
      <4>1. put[p].at = "checked" /\ put' = [put EXCEPT ![p] = new]
        BY <3>2 DEF Exit!PutReads, ExitInv, ExitsTyped
      <4>2. put[p] \in PutRow /\ put[p].levels \in Levels
        BY <4>1 DEF ExitInv, ExitsTyped
      <4>3. Fits(new)
        BY <4>2 DEF PutRow, ExitInv, ExitsTyped
      <4> QED BY <4>1, <4>3
    <3> QED BY <3>1, <3>2
  <2> QED BY <2>1 DEF ExitInv, ExitsTyped
<1>2. UNCHANGED <<rule, alerts, price, now, pass>>
  BY DEF Exit!PutChecks, Exit!PutReads
<1>3. /\ \A version : WasSaved(version) => WasSaved(version)'
      /\ Exit!Doubled => Exit!Doubled'
  BY <1>1, SavesStay DEF ExitInv
<1>4. ExitsTyped'
  BY <1>1, <1>2 DEF ExitInv, ExitsTyped
<1>5. VersionsAgree'
  BY <1>2, <1>3 DEF ExitInv, VersionsAgree, Exit!SameVersion
<1> QED BY <1>2, <1>4, <1>5 DEF ExitInv, TodoIsCrossed, Exit!FiredIsTold

\* A save writes the rule anew: no pass has read a rule of its version, unless it is a second one.
LEMMA SaveKeepsExitInv ==
    ASSUME ExitInv, NEW p \in Saves, Exit!PutWrites(p)
    PROVE  /\ ExitInv'
           /\ rule # None /\ rule.levels.trail /\ rule'.levels.trail /\ ~Exit!Overtakes =>
                rule'.high >= rule.high
<1> DEFINE r    == put[p]
           done == [Exit!Unread EXCEPT !.at = "done", !.version = r.version]
<1>1. /\ r.at = "read" /\ r \in PutRow /\ r.levels \in Levels
      /\ r.existing # None => r.existing \in RuleRow
      /\ rule' = [levels |-> r.levels, high |-> Exit!HighAfter(r), fired |-> {}, version |-> r.version]
      /\ put' = [put EXCEPT ![p] = done]
      /\ UNCHANGED <<alerts, price, now, pass>>
  BY DEF Exit!PutWrites, ExitInv, ExitsTyped
<1>2. done \in PutRow /\ done.at = "done" /\ done.version = r.version /\ done.existing = None
  BY <1>1 DEF PutRow, Exit!Unread
<1>3. r.price \in Nat /\ (r.existing # None => r.existing.high \in Nat)
  BY <1>1 DEF PutRow, RuleRow
<1>4. /\ Exit!HighAfter(r) \in Nat
      /\ r.levels.trail /\ r.existing # None /\ r.existing.levels.trail =>
           Exit!HighAfter(r) >= r.existing.high
  BY <1>3, MaxOfTwo DEF Exit!HighAfter
<1> HIDE DEF done
<1>5. /\ put' \in [Saves -> PutRow] /\ put'[p] = done
      /\ \A q \in Saves \ {p} : put'[q] = put[q]
  BY <1>1, <1>2 DEF ExitInv, ExitsTyped
<1>6. rule' \in RuleRow /\ rule'.version = r.version /\ rule'.levels = r.levels /\ rule'.fired = {}
      /\ rule'.high = Exit!HighAfter(r)
  BY <1>1, <1>4 DEF RuleRow, PutRow
<1>7. /\ \A version : WasSaved(version) => WasSaved(version)'
      /\ Exit!Doubled => Exit!Doubled'
  BY <1>1, <1>5, SavesStay DEF ExitInv
<1>8. ExitsTyped'
  BY <1>1, <1>2, <1>5, <1>6 DEF ExitInv, ExitsTyped
<1>9. VersionsAgree'
  <2>1. WasSaved(rule.version)'
    BY <1>2, <1>5, <1>6 DEF WasSaved
  <2>2. pass.at # "idle" /\ pass.rule.version = r.version => Exit!Doubled'
    <3> SUFFICES ASSUME pass.at # "idle", pass.rule.version = r.version PROVE Exit!Doubled'
      OBVIOUS
    <3>1. PICK q \in Saves : put[q].at = "done" /\ put[q].version = r.version
      BY DEF ExitInv, VersionsAgree, WasSaved
    <3>2. q # p /\ put'[q] = put[q]
      BY <1>1, <1>5, <3>1
    <3> QED BY <1>2, <1>5, <3>1, <3>2 DEF Exit!Doubled
  <2> QED BY <1>1, <1>6, <1>7, <2>1, <2>2 DEF ExitInv, VersionsAgree, Exit!SameVersion
<1>10. ExitInv'
  BY <1>1, <1>6, <1>8, <1>9 DEF ExitInv, TodoIsCrossed, Exit!FiredIsTold
<1>11. ASSUME rule # None, rule.levels.trail, rule'.levels.trail, ~Exit!Overtakes
       PROVE  rule'.high >= rule.high
  <2>1. r.existing = rule
    BY <1>1, <1>2, <1>5, <1>11 DEF Exit!Overtakes
  <2> QED BY <1>4, <1>6, <1>11, <2>1
<1> QED BY <1>10, <1>11

\* The pass reads, or raises the high of the version it read.
LEMMA PassKeepsExitInv ==
    ASSUME ExitInv,
           Exit!PassBegins \/ Exit!QuoteArrives \/ Exit!NoQuote \/ Exit!Ratchet \/ Exit!Reread
    PROVE  ExitInv' /\ (rule # None => rule'.high >= rule.high)
<1> USE DEF ExitInv
<1>1. /\ UNCHANGED <<alerts, price, now, put>>
      /\ \A version : WasSaved(version)' <=> WasSaved(version)
      /\ Exit!Doubled' <=> Exit!Doubled
  BY DEF Exit!PassBegins, Exit!QuoteArrives, Exit!NoQuote, Exit!Ratchet, Exit!Reread, WasSaved,
         Exit!Doubled
<1>2. Exit!Idle = [at |-> "idle", rule |-> None, price |-> 0, todo |-> {}]
  BY DEF Exit!Idle
<1>3. rule # None => rule.high \in Nat /\ rule.high >= rule.high
  BY DEF ExitsTyped, RuleRow
<1>4. ASSUME UNCHANGED rule, pass' = Exit!Idle PROVE ExitInv'
  BY <1>1, <1>2, <1>4 DEF ExitsTyped, VersionsAgree, TodoIsCrossed, Exit!FiredIsTold, Places,
       Exit!SameVersion
<1>5. CASE Exit!PassBegins
  <2>1. rule # None /\ UNCHANGED rule /\ pass' = [Exit!Idle EXCEPT !.at = "quoting", !.rule = rule]
    BY <1>5 DEF Exit!PassBegins
  <2>2. /\ pass' \in [at : Places, rule : RuleRow \cup {None}, price : Nat, todo : SUBSET Exit!Kinds]
        /\ pass'.at = "quoting" /\ pass'.rule = rule
    BY <1>2, <2>1 DEF ExitsTyped, Places
  <2>3. ExitsTyped'
    BY <1>1, <2>1, <2>2 DEF ExitsTyped
  <2>4. VersionsAgree'
    BY <1>1, <1>3, <2>1, <2>2 DEF VersionsAgree
  <2> QED BY <1>1, <1>3, <2>1, <2>2, <2>3, <2>4 DEF TodoIsCrossed, Exit!FiredIsTold
<1>6. ASSUME NEW r \in RuleRow, NEW at \in Nat, UNCHANGED rule, pass' = Exit!Firing(r, at),
             r.version = pass.rule.version, r.levels = pass.rule.levels, pass.at # "idle",
             Exit!SameVersion /\ ~Exit!Doubled => rule.high >= r.high
      PROVE  ExitInv'
  <2>1. CASE pass' = Exit!Idle
    BY <1>4, <1>6, <2>1
  <2>2. CASE pass' # Exit!Idle
    <3>1. /\ pass' = [at |-> "firing", rule |-> r, price |-> at, todo |-> Exit!Todo(r, at)]
          /\ Exit!Todo(r, at) \subseteq Exit!crossed(r.levels, r.high, at)
          /\ Exit!Todo(r, at) \subseteq Exit!Kinds
      BY <1>6, <2>2, FiringIsSound
    <3>2. ExitsTyped'
      BY <1>1, <1>6, <3>1 DEF ExitsTyped, Places
    <3>3. VersionsAgree'
      BY <1>1, <1>6, <3>1 DEF VersionsAgree, Exit!SameVersion
    <3> QED BY <1>1, <1>6, <3>1, <3>2, <3>3 DEF TodoIsCrossed, Exit!FiredIsTold
  <2> QED BY <2>1, <2>2
<1>7. CASE Exit!QuoteArrives
  <2>1. /\ pass.at = "quoting" /\ UNCHANGED rule
        /\ \/ pass' = [pass EXCEPT !.at = "ratchet", !.price = price]
           \/ pass' = Exit!Firing(pass.rule, price)
    BY <1>7 DEF Exit!QuoteArrives
  <2>2. CASE pass' = [pass EXCEPT !.at = "ratchet", !.price = price]
    <3>1. /\ pass' \in [at : Places, rule : RuleRow \cup {None}, price : Nat, todo : SUBSET Exit!Kinds]
          /\ pass'.at = "ratchet" /\ pass'.rule = pass.rule
      BY <2>2 DEF ExitsTyped, Places
    <3>2. ExitsTyped'
      BY <1>1, <2>1, <3>1 DEF ExitsTyped
    <3> QED BY <1>1, <1>3, <2>1, <3>1, <3>2 DEF VersionsAgree, TodoIsCrossed, Exit!FiredIsTold,
                                                Exit!SameVersion
  <2>3. CASE pass' = Exit!Firing(pass.rule, price)
    <3>1. pass.rule \in RuleRow /\ price \in Nat
      BY <2>1 DEF ExitsTyped
    <3>2. Exit!SameVersion /\ ~Exit!Doubled => rule.high >= pass.rule.high
      BY <2>1 DEF VersionsAgree
    <3> QED BY <1>3, <1>6, <2>1, <2>3, <3>1, <3>2
  <2> QED BY <2>1, <2>2, <2>3
<1>8. CASE Exit!NoQuote
  BY <1>3, <1>4, <1>8 DEF Exit!NoQuote
<1>9. CASE Exit!Ratchet
  <2>1. CASE ~Exit!SameVersion
    BY <1>3, <1>4, <1>9, <2>1 DEF Exit!Ratchet
  <2>2. CASE Exit!SameVersion
    <3>1. /\ pass.at = "ratchet" /\ rule # None /\ rule.version = pass.rule.version
          /\ rule' = [rule EXCEPT !.high = Exit!Max({rule.high, pass.price})]
          /\ pass' = [pass EXCEPT !.at = "reread"]
      BY <1>9, <2>2 DEF Exit!Ratchet, Exit!SameVersion
    <3>2. rule \in RuleRow /\ pass.price \in Nat /\ rule.high \in Nat
      BY <3>1 DEF ExitsTyped, RuleRow
    <3>3. /\ rule' \in RuleRow /\ rule'.high >= rule.high /\ rule'.version = rule.version
          /\ rule'.levels = rule.levels /\ rule'.fired = rule.fired /\ rule'.high \in Nat
      BY <3>1, <3>2, MaxOfTwo DEF RuleRow
    <3>4. /\ pass' \in [at : Places, rule : RuleRow \cup {None}, price : Nat, todo : SUBSET Exit!Kinds]
          /\ pass'.at = "reread" /\ pass'.rule = pass.rule /\ pass.rule \in RuleRow
      BY <3>1 DEF ExitsTyped, Places
    <3>5. ExitsTyped'
      BY <1>1, <3>3, <3>4 DEF ExitsTyped
    <3>6. VersionsAgree'
      <4>1. WasSaved(rule.version)' /\ WasSaved(pass.rule.version)'
        BY <1>1, <3>1, <3>3, <3>4 DEF VersionsAgree, WasSaved
      <4>2. ~Exit!Doubled => rule'.levels = pass'.rule.levels /\ rule'.high >= pass'.rule.high
        BY <2>2, <3>1, <3>2, <3>3, <3>4 DEF VersionsAgree, RuleRow
      <4> QED BY <1>1, <4>1, <4>2 DEF VersionsAgree
    <3> QED BY <1>1, <3>1, <3>3, <3>4, <3>5, <3>6 DEF TodoIsCrossed, Exit!FiredIsTold
  <2> QED BY <2>1, <2>2
<1>10. CASE Exit!Reread
  <2>1. CASE rule = None
    BY <1>3, <1>4, <1>10, <2>1 DEF Exit!Reread
  <2>2. CASE rule # None
    <3> DEFINE r == [pass.rule EXCEPT !.high = rule.high]
    <3>1. pass.at = "reread" /\ UNCHANGED rule /\ pass' = Exit!Firing(r, pass.price)
      BY <1>10, <2>2 DEF Exit!Reread
    <3>2. /\ r \in RuleRow /\ r.version = pass.rule.version /\ r.levels = pass.rule.levels
          /\ r.high = rule.high /\ pass.price \in Nat
      BY <2>2, <3>1 DEF ExitsTyped, RuleRow
    <3> HIDE DEF r
    <3> QED BY <1>3, <1>6, <2>2, <3>1, <3>2
  <2> QED BY <2>1, <2>2
<1> QED BY <1>5, <1>7, <1>8, <1>9, <1>10

\* A level fires: the mark and the alert are one write, of the row as it stands.
LEMMA FireKeepsExitInv ==
    ASSUME ExitInv, NEW k \in Exit!Kinds, Exit!Fire(k)
    PROVE  /\ ExitInv' /\ Exit!AlertIsOfTheRule
           /\ rule # None => rule'.high = rule.high
<1> USE DEF ExitInv
<1>1. /\ pass.at = "firing" /\ k \in pass.todo /\ UNCHANGED <<price, now, put>>
      /\ pass' \in {Exit!Idle, [pass EXCEPT !.todo = @ \ {k}]}
  BY DEF Exit!Fire
<1>2. /\ \A version : WasSaved(version)' <=> WasSaved(version)
      /\ Exit!Doubled' <=> Exit!Doubled
  BY <1>1 DEF WasSaved, Exit!Doubled
<1>3. /\ pass' \in [at : Places, rule : RuleRow \cup {None}, price : Nat, todo : SUBSET Exit!Kinds]
      /\ pass'.at # "idle" => /\ pass'.at = "firing" /\ pass'.rule = pass.rule
                              /\ pass'.price = pass.price /\ pass'.todo \subseteq pass.todo
  BY <1>1 DEF Exit!Idle, ExitsTyped, Places
<1>4. CASE ~Exit!MayFire(k)
  <2>1. UNCHANGED <<rule, alerts>>
    BY <1>4 DEF Exit!Fire
  <2>2. ExitsTyped' /\ VersionsAgree'
    BY <1>1, <1>2, <1>3, <2>1 DEF ExitsTyped, VersionsAgree, Exit!SameVersion
  <2>3. TodoIsCrossed' /\ Exit!FiredIsTold'
    BY <1>1, <1>3, <2>1 DEF TodoIsCrossed, Exit!FiredIsTold
  <2> QED BY <2>1, <2>2, <2>3 DEF Exit!AlertIsOfTheRule
<1>5. CASE Exit!MayFire(k)
  <2>1. /\ rule # None /\ rule.version = pass.rule.version /\ rule.levels.active /\ k \notin rule.fired
        /\ rule' = [rule EXCEPT !.fired = @ \cup {k}]
        /\ alerts' = alerts \cup {[kind |-> k, version |-> rule.version]}
    BY <1>5 DEF Exit!Fire, Exit!MayFire, Exit!SameVersion, Exit!Key
  <2>2. /\ rule' \in RuleRow /\ rule'.levels = rule.levels /\ rule'.high = rule.high
        /\ rule'.version = rule.version /\ rule'.fired = rule.fired \cup {k}
    BY <2>1 DEF ExitsTyped, RuleRow
  <2>3. ExitsTyped'
    BY <1>1, <1>3, <2>2 DEF ExitsTyped
  <2>4. VersionsAgree'
    BY <1>1, <1>2, <1>3, <2>1, <2>2 DEF VersionsAgree, Exit!SameVersion
  <2>5. TodoIsCrossed' /\ Exit!FiredIsTold'
    BY <1>1, <1>3, <2>1, <2>2 DEF TodoIsCrossed, Exit!FiredIsTold
  <2>6. ASSUME alerts' # alerts, ~Exit!Doubled
        PROVE  k \in Exit!crossed(rule.levels, rule.high, pass.price)
    <3>1. rule.levels = pass.rule.levels /\ rule.high >= pass.rule.high
      BY <1>1, <2>1, <2>6 DEF VersionsAgree, Exit!SameVersion
    <3>2. /\ pass.rule.levels \in Levels /\ pass.rule.high \in Nat /\ rule.high \in Nat
          /\ pass.price \in Nat
      BY <1>1, <2>1 DEF ExitsTyped, RuleRow
    <3> QED BY <1>1, <3>1, <3>2, CrossedUnderAHigherHigh DEF TodoIsCrossed
  <2>7. alerts' # alerts => alerts' \ alerts = {[kind |-> k, version |-> rule.version]}
    BY <2>1
  <2> QED BY <2>1, <2>2, <2>3, <2>4, <2>5, <2>6, <2>7 DEF Exit!AlertIsOfTheRule
<1> QED BY <1>4, <1>5

\* The market, the portfolio and the clock; and a rule that is deleted.
LEMMA OthersKeepExitInv ==
    ASSUME ExitInv,
           \/ Exit!delete_rule \/ (\E to \in Prices : Exit!PriceMoves(to))
           \/ Exit!SessionTurns \/ Exit!Trade \/ Exit!Tick
    PROVE  ExitInv' /\ alerts' = alerts /\ (rule' = rule \/ rule' = None)
<1>1. /\ UNCHANGED <<alerts, put, pass>> /\ (rule' = rule \/ rule' = None)
      /\ price' \in Prices \cup {price} /\ now' \in {now, now + 1}
  BY DEF Exit!delete_rule, Exit!PriceMoves, Exit!SessionTurns, Exit!Trade, Exit!Tick
<1>2. price' \in Nat /\ now' \in Nat
  <2>1. price \in Nat /\ now \in Nat /\ now + 1 \in Nat /\ Prices \subseteq Nat
    BY AlertAssumption DEF ExitInv, ExitsTyped
  <2> QED BY <1>1, <2>1
<1> QED BY <1>1, <1>2 DEF ExitInv, ExitsTyped, VersionsAgree, TodoIsCrossed, Exit!FiredIsTold,
                          WasSaved, Exit!Doubled, Exit!SameVersion

\* Every step of the exit rules, a save or a pass of the evaluator.
LEMMA ExitStepKeepsInv ==
    ASSUME ExitInv, Exit!Next
    PROVE  ExitInv' /\ Exit!AlertIsOfTheRule /\ Exit!HighIsKept
<1>1. rule # None => rule.high \in Nat /\ rule.high >= rule.high
  BY DEF ExitInv, ExitsTyped, RuleRow
<1>2. ASSUME NEW p \in Saves, (\E levels \in Levels : Exit!PutChecks(p, levels)) \/ Exit!PutReads(p)
      PROVE  ExitInv' /\ UNCHANGED <<rule, alerts>>
  BY <1>2, RequestsKeepExitInv DEF Exit!PutChecks, Exit!PutReads
<1>3. ASSUME NEW p \in Saves, Exit!PutWrites(p)
      PROVE  alerts' = alerts
  BY <1>3 DEF Exit!PutWrites
<1>4. CASE Exit!PassBegins \/ Exit!QuoteArrives \/ Exit!NoQuote \/ Exit!Ratchet \/ Exit!Reread
  <2>1. alerts' = alerts
    BY <1>4 DEF Exit!PassBegins, Exit!QuoteArrives, Exit!NoQuote, Exit!Ratchet, Exit!Reread
  <2> QED BY <1>4, <2>1, PassKeepsExitInv DEF Exit!AlertIsOfTheRule, Exit!HighIsKept
<1>5. CASE \/ Exit!delete_rule \/ (\E to \in Prices : Exit!PriceMoves(to))
           \/ Exit!SessionTurns \/ Exit!Trade \/ Exit!Tick
  BY <1>1, <1>5, OthersKeepExitInv DEF Exit!AlertIsOfTheRule, Exit!HighIsKept
<1>6. CASE \E k \in Exit!Kinds : Exit!Fire(k)
  BY <1>1, <1>6, FireKeepsExitInv DEF Exit!HighIsKept
<1>7. CASE \E p \in Saves : (\E levels \in Levels : Exit!PutChecks(p, levels)) \/ Exit!PutReads(p)
  BY <1>1, <1>2, <1>7 DEF Exit!AlertIsOfTheRule, Exit!HighIsKept
<1>8. CASE \E p \in Saves : Exit!PutWrites(p)
  BY <1>3, <1>8, SaveKeepsExitInv DEF Exit!AlertIsOfTheRule, Exit!HighIsKept
<1> QED BY <1>4, <1>5, <1>6, <1>7, <1>8 DEF Exit!Next

\* So the invariant of the exit rules holds, and with it what a step may not do.
LEMMA ExitInvHolds == AnySpec => []ExitInv /\ Exit!AlertsAreOfTheRule /\ Exit!TrailKeepsItsHigh
<1>1. AnyInit => ExitInv
  <2> SUFFICES ASSUME AnyInit PROVE ExitInv
    OBVIOUS
  <2>1. /\ rule = None /\ price = Opening /\ now = 0 /\ put = [p \in Saves |-> Exit!Unread]
        /\ pass = Exit!Idle
    BY DEF AnyInit, Exit!Init
  <2>2. Exit!Unread \in PutRow /\ Exit!Unread.at = "idle" /\ Exit!Unread.existing = None
    BY DEF Exit!Unread, PutRow
  <2>3. /\ pass \in [at : Places, rule : RuleRow \cup {None}, price : Nat, todo : SUBSET Exit!Kinds]
        /\ pass.at = "idle"
    BY <2>1 DEF Exit!Idle, Places
  <2>4. price \in Nat /\ now \in Nat
    BY <2>1, AlertAssumption
  <2>5. ExitsTyped
    BY <2>1, <2>2, <2>3, <2>4 DEF ExitsTyped
  <2> QED BY <2>1, <2>3, <2>5 DEF ExitInv, VersionsAgree, TodoIsCrossed, Exit!FiredIsTold
<1>2. ExitInv /\ UNCHANGED exitVars => ExitInv'
  BY DEF exitVars, ExitInv, ExitsTyped, VersionsAgree, TodoIsCrossed, Exit!FiredIsTold, WasSaved,
         Exit!Doubled, Exit!SameVersion
<1>3. [AnyNext]_allVars => Exit!Next \/ UNCHANGED exitVars
  BY DEF AnyNext, SwitchesRun, ExitsRun, TelegramRuns, allVars
<1>5. ExitInv /\ [AnyNext]_allVars => ExitInv'
  BY <1>2, <1>3, ExitStepKeepsInv
<1>6. ExitInv /\ [AnyNext]_allVars => [Exit!AlertIsOfTheRule]_Exit!vars
  BY <1>3, ExitStepKeepsInv DEF exitVars, Exit!vars
<1>7. ExitInv /\ [AnyNext]_allVars => [Exit!HighIsKept]_Exit!vars
  BY <1>3, ExitStepKeepsInv DEF exitVars, Exit!vars
<1> QED BY <1>1, <1>5, <1>6, <1>7, PTL DEF AnySpec, Exit!AlertsAreOfTheRule, Exit!TrailKeepsItsHigh

(***************************************************************************)
(* The Telegram bot.  What was written and what was issued only grows, so  *)
(* that whoever proved whose a chat is has proved it for good; the offset  *)
(* is past all that was handled; and whatever is on its way was looked up  *)
(* by a link of its user.                                                  *)
(***************************************************************************)
Command == [chat : Chats, command : {"start", "stop", "other"}, code : Nat]

LinksTyped ==
    /\ issued \in Seq(Users) /\ inbox \in Seq(Command)
    /\ \A i \in 1..Len(inbox) : inbox[i].code \in 0..Len(issued)
    /\ code \in [Users -> Nat] /\ link \in [Chats -> Nat]
    /\ \A u \in Users : code[u] # 0 => code[u] \in 1..Len(issued) /\ issued[code[u]] = u
    /\ \A c \in Chats : link[c] # 0 => link[c] \in 1..Len(issued)

PollPlaces == {"idle", "updates", "handling", "replying", "sending", "calling"}
PollRow    == [at : PollPlaces, id : Nat, last : Nat, pending : Seq(Users), chat : Chats \cup {None}]

OffsetIsAhead ==
    /\ poll \in PollRow /\ offset \in Nat \ {0} /\ handled \in Seq(Nat)
    /\ poll.at \in {"updates", "handling", "replying"} => poll.id + 1 = offset /\ poll.last <= Len(inbox)
    /\ poll.at = "handling" => poll.id \in 1..Len(inbox)
    /\ \A i \in 1..Len(handled) : handled[i] < offset /\ (poll.at = "handling" => handled[i] < poll.id)

SendsAreProved ==
    /\ outbox \in Seq(Users) /\ told \subseteq [user : Users, chat : Chats]
    /\ poll.at \in {"sending", "calling"} => poll.pending # <<>>
    /\ poll.at = "calling" => poll.chat \in Chats /\ Chat!Proved(Head(poll.pending), poll.chat)
    /\ push # Chat!NoPush => push \in [user : Users, chat : Chats] /\ Chat!Proved(push.user, push.chat)

ChatInv ==
    /\ LinksTyped /\ OffsetIsAhead /\ SendsAreProved
    /\ Chat!CommandsRunOnce /\ Chat!LinksAreProved /\ Chat!NewsGoesToItsOwner

\* A sequence that is the same, or has one more.
LEMMA AppendKeeps ==
    ASSUME NEW S, NEW s \in Seq(S), NEW x \in S
    PROVE  /\ Append(s, x) \in Seq(S) /\ Len(Append(s, x)) = Len(s) + 1
           /\ Append(s, x)[Len(s) + 1] = x /\ \A i \in 1..Len(s) : Append(s, x)[i] = s[i]
  OBVIOUS

\* What a chat proved it has proved for good.
Grows ==
    /\ Len(issued') >= Len(issued) /\ \A k \in 1..Len(issued) : issued'[k] = issued[k]
    /\ Len(inbox') >= Len(inbox) /\ \A i \in 1..Len(inbox) : inbox'[i] = inbox[i]
    /\ issued' \in Seq(Users) /\ inbox' \in Seq(Command)

\* Once a chat has written a code, it has.
LEMMA ProvedStays ==
    ASSUME LinksTyped, Grows
    PROVE  \A u, c : Chat!Proved(u, c) => Chat!Proved(u, c)'
<1> SUFFICES ASSUME NEW u, NEW c, Chat!Proved(u, c) PROVE Chat!Proved(u, c)'
  OBVIOUS
<1>1. PICK i \in DOMAIN inbox : inbox[i].chat = c /\ inbox[i].code # 0 /\ issued[inbox[i].code] = u
  BY DEF Chat!Proved, Chat!NoCode
<1>2. i \in 1..Len(inbox) /\ Len(inbox) \in Nat /\ Len(issued) \in Nat
  BY <1>1 DEF LinksTyped
<1>3. inbox[i].code \in 1..Len(issued)
  BY <1>1, <1>2 DEF LinksTyped
<1>4. inbox'[i] = inbox[i] /\ issued'[inbox[i].code] = u
  BY <1>1, <1>2, <1>3 DEF Grows
<1>5. i \in DOMAIN inbox'
  BY <1>2 DEF Grows
<1> QED BY <1>1, <1>4, <1>5 DEF Chat!Proved, Chat!NoCode

\* A step that neither issues a code nor writes to the bot.
LEMMA TalkStays ==
    ASSUME LinksTyped, UNCHANGED <<issued, inbox>>
    PROVE  Grows
  BY DEF LinksTyped, Grows

\* Links that go, and codes that go, leave the others as they were.
LEMMA FewerLinks ==
    ASSUME LinksTyped, Chat!LinksAreProved, Grows,
           \A i \in 1..Len(inbox') : inbox'[i].code \in 0..Len(issued'),
           code' \in [Users -> Nat],
           \A u \in Users : code'[u] # 0 => \/ code'[u] = code[u]
                                            \/ code'[u] \in 1..Len(issued') /\ issued'[code'[u]] = u,
           link' \in [Chats -> Nat], \A c \in Chats : link'[c] \in {0, link[c]}
    PROVE  LinksTyped' /\ Chat!LinksAreProved'
<1>1. Len(issued) \in Nat /\ Len(issued') \in Nat
  BY DEF LinksTyped, Grows
<1>2. \A c \in Chats : link'[c] # 0 =>
        /\ link'[c] = link[c] /\ link[c] # 0 /\ link[c] \in 1..Len(issued)
        /\ link'[c] \in 1..Len(issued') /\ issued'[link'[c]] = issued[link[c]]
  <2> SUFFICES ASSUME NEW c \in Chats, link'[c] # 0
               PROVE  /\ link'[c] = link[c] /\ link[c] # 0 /\ link[c] \in 1..Len(issued)
                      /\ link'[c] \in 1..Len(issued') /\ issued'[link'[c]] = issued[link[c]]
    OBVIOUS
  <2>1. link'[c] = link[c] /\ link[c] # 0
    OBVIOUS
  <2>2. link[c] \in 1..Len(issued)
    BY <2>1 DEF LinksTyped
  <2>3. Len(issued') >= Len(issued) /\ issued'[link[c]] = issued[link[c]]
    BY <2>2 DEF Grows
  <2>4. link[c] \in 1..Len(issued')
    BY <1>1, <2>2, <2>3
  <2> QED BY <2>1, <2>2, <2>3, <2>4
<1>3. ASSUME NEW u \in Users, code'[u] # 0
      PROVE  code'[u] \in 1..Len(issued') /\ issued'[code'[u]] = u
  <2>1. CASE code'[u] = code[u]
    <3>1. code[u] \in 1..Len(issued) /\ issued[code[u]] = u
      BY <1>3, <2>1 DEF LinksTyped
    <3>2. issued'[code[u]] = issued[code[u]] /\ code[u] \in 1..Len(issued')
      BY <1>1, <3>1 DEF Grows
    <3> QED BY <2>1, <3>1, <3>2
  <2>2. CASE code'[u] # code[u]
    BY <1>3, <2>2
  <2> QED BY <2>1, <2>2
<1>4. LinksTyped'
  BY <1>2, <1>3 DEF LinksTyped, Grows
<1>5. Chat!LinksAreProved'
  <2> SUFFICES ASSUME NEW c \in Chats, link'[c] # 0
               PROVE  /\ c \notin Groups /\ Chat!Proved(issued[link[c]], c)'
                      /\ \A d \in Chats : link'[d] # 0 /\ issued'[link'[d]] = issued'[link'[c]] => d = c
    BY DEF Chat!LinksAreProved, Chat!Linked, Chat!NoCode, Chat!Proved
  <2> QED BY <1>2, ProvedStays DEF Chat!LinksAreProved, Chat!Linked, Chat!NoCode
<1> QED BY <1>4, <1>5

\* The codes and the links, but for a redemption.
OtherLinkSteps ==
    \/ \E u \in Users : \/ Chat!issue_code(u) \/ Chat!Expire(u) \/ Chat!unlink(u)
                        \/ \E on \in BOOLEAN : Chat!set_enabled(u, on)
    \/ \E c \in Chats, command \in {"start", "stop", "other"}, k \in {0} \cup Chat!Codes :
          Chat!Write(c, command, k)

\* Whatever else is written, unlinked, muted or handled leaves the links proved.
LEMMA OthersKeepLinks ==
    ASSUME LinksTyped, Chat!LinksAreProved, OtherLinkSteps
    PROVE  Grows /\ LinksTyped' /\ Chat!LinksAreProved'
<1>0. Len(issued) \in Nat /\ Len(inbox) \in Nat /\ 0 \in Nat
  BY DEF LinksTyped
<1>1. ASSUME NEW u \in Users, Chat!issue_code(u)
      PROVE  Grows /\ LinksTyped' /\ Chat!LinksAreProved'
  <2>1. /\ issued' = Append(issued, u) /\ code' = [code EXCEPT ![u] = Len(issued) + 1]
        /\ UNCHANGED <<link, inbox>>
    BY <1>1 DEF Chat!issue_code
  <2>2. /\ issued' \in Seq(Users) /\ Len(issued') = Len(issued) + 1 /\ issued'[Len(issued) + 1] = u
        /\ \A k \in 1..Len(issued) : issued'[k] = issued[k]
    BY <2>1, AppendKeeps DEF LinksTyped
  <2>3. Grows
    BY <1>0, <2>1, <2>2 DEF Grows, LinksTyped
  <2>4. \A i \in 1..Len(inbox') : inbox'[i].code \in 0..Len(issued')
    BY <1>0, <2>1, <2>2 DEF LinksTyped
  <2>5. /\ code' \in [Users -> Nat]
        /\ \A v \in Users : code'[v] # 0 => \/ code'[v] = code[v]
                                            \/ code'[v] \in 1..Len(issued') /\ issued'[code'[v]] = v
    BY <1>0, <2>1, <2>2 DEF LinksTyped
  <2>6. link' \in [Chats -> Nat] /\ \A c \in Chats : link'[c] \in {0, link[c]}
    BY <2>1 DEF LinksTyped
  <2> QED BY <2>3, <2>4, <2>5, <2>6, FewerLinks
<1>2. ASSUME NEW u \in Users, Chat!Expire(u) \/ Chat!unlink(u) \/ \E on \in BOOLEAN : Chat!set_enabled(u, on)
      PROVE  Grows /\ LinksTyped' /\ Chat!LinksAreProved'
  <2>1. UNCHANGED <<issued, inbox>>
    BY <1>2 DEF Chat!Expire, Chat!unlink, Chat!set_enabled
  <2>2. Grows
    BY <2>1, TalkStays
  <2>3. code' \in [Users -> Nat] /\ \A v \in Users : code'[v] # 0 => code'[v] = code[v]
    BY <1>2 DEF Chat!Expire, Chat!unlink, Chat!set_enabled, Chat!NoCode, LinksTyped
  <2>4. link' \in [Chats -> Nat] /\ \A c \in Chats : link'[c] \in {0, link[c]}
    <3>1. CASE link' = link
      BY <3>1 DEF LinksTyped
    <3>2. CASE link' = [c \in Chats |-> IF Chat!Linked(u, c) THEN 0 ELSE link[c]]
      BY <1>0, <3>2 DEF LinksTyped
    <3> QED BY <1>2, <3>1, <3>2 DEF Chat!Expire, Chat!unlink, Chat!set_enabled, Chat!NoCode
  <2>5. \A i \in 1..Len(inbox') : inbox'[i].code \in 0..Len(issued')
    BY <2>1 DEF LinksTyped
  <2> QED BY <2>2, <2>3, <2>4, <2>5, FewerLinks
<1>3. ASSUME NEW c \in Chats, NEW command \in {"start", "stop", "other"}, NEW k \in {0} \cup Chat!Codes,
             Chat!Write(c, command, k)
      PROVE  Grows /\ LinksTyped' /\ Chat!LinksAreProved'
  <2> DEFINE m == [chat |-> c, command |-> command, code |-> k]
  <2>1. inbox' = Append(inbox, m) /\ k <= Len(issued) /\ UNCHANGED <<issued, code, link>>
    BY <1>3 DEF Chat!Write
  <2>2. k \in 0..Len(issued) /\ m \in Command /\ m.code = k
    BY <1>0, <2>1, AlertAssumption DEF Chat!Codes, Command
  <2> HIDE DEF m
  <2>3. /\ inbox' \in Seq(Command) /\ Len(inbox') = Len(inbox) + 1 /\ inbox'[Len(inbox) + 1] = m
        /\ \A i \in 1..Len(inbox) : inbox'[i] = inbox[i]
    BY <2>1, <2>2, AppendKeeps DEF LinksTyped
  <2>4. Grows
    BY <1>0, <2>1, <2>3 DEF Grows, LinksTyped
  <2>5. \A i \in 1..Len(inbox') : inbox'[i].code \in 0..Len(issued')
    <3> SUFFICES ASSUME NEW i \in 1..Len(inbox') PROVE inbox'[i].code \in 0..Len(issued)
      BY <2>1
    <3>1. i \in 1..Len(inbox) \/ i = Len(inbox) + 1
      BY <1>0, <2>3
    <3> QED BY <2>2, <2>3, <3>1 DEF LinksTyped
  <2>6. /\ code' \in [Users -> Nat] /\ \A v \in Users : code'[v] = code[v]
        /\ link' \in [Chats -> Nat] /\ \A d \in Chats : link'[d] \in {0, link[d]}
    BY <2>1 DEF LinksTyped
  <2> QED BY <2>4, <2>5, <2>6, FewerLinks
<1> QED BY <1>1, <1>2, <1>3 DEF OtherLinkSteps

\* A redemption spends a code of its owner's, and leaves the owner the one chat that wrote it.
LEMMA HandleKeepsLinks ==
    ASSUME LinksTyped, OffsetIsAhead, Chat!LinksAreProved, Chat!Handle
    PROVE  Grows /\ LinksTyped' /\ Chat!LinksAreProved'
<1> DEFINE u == inbox[poll.id]
<1>1. /\ poll.id \in 1..Len(inbox) /\ u \in Command /\ u.code \in 0..Len(issued)
      /\ UNCHANGED <<issued, inbox>>
  BY DEF Chat!Handle, OffsetIsAhead, LinksTyped
<1>2. Grows
  BY <1>1, TalkStays
<1>3. \A i \in 1..Len(inbox') : inbox'[i].code \in 0..Len(issued')
  BY <1>1 DEF LinksTyped
<1>4. CASE Chat!Owners(u) = {}
  <2>1. code' \in [Users -> Nat] /\ \A v \in Users : code'[v] = code[v]
    BY <1>4 DEF Chat!Handle, LinksTyped
  <2>2. link' \in [Chats -> Nat] /\ \A d \in Chats : link'[d] \in {0, link[d]}
    BY <1>4 DEF Chat!Handle, Chat!NoCode, LinksTyped
  <2> QED BY <1>2, <1>3, <2>1, <2>2, FewerLinks
<1>5. CASE /\ Chat!Owners(u) # {}
           /\ code' = [o \in Users |-> IF o \in Chat!Owners(u) THEN Chat!NoCode ELSE code[o]]
           /\ link' = [c \in Chats |-> CASE c = u.chat -> u.code
                                         [] c # u.chat /\ \E o \in Chat!Owners(u) : Chat!Linked(o, c) -> Chat!NoCode
                                         [] OTHER -> link[c]]
  <2>1. PICK o \in Users : o \in Chat!Owners(u)
    BY <1>5 DEF Chat!Owners
  <2>2. /\ u.code # 0 /\ u.code \in 1..Len(issued) /\ issued[u.code] = o /\ u.chat \in Chats
        /\ u.chat \notin Groups
    BY <1>1, <2>1 DEF Chat!Owners, Chat!Tries, Chat!Private, Chat!NoCode, LinksTyped, Command
  <2>3. \A v \in Users : v \in Chat!Owners(u) <=> v = o
    BY <2>1, <2>2 DEF Chat!Owners, Chat!NoCode, LinksTyped
  <2>4. /\ link' \in [Chats -> Nat] /\ link'[u.chat] = u.code
        /\ \A c \in Chats \ {u.chat} : /\ link'[c] \in {0, link[c]}
                                       /\ link'[c] # 0 => issued[link[c]] # o
    <3>1. \A c \in Chats : u.code \in Nat /\ link[c] \in Nat
      BY <2>2, <1>1 DEF LinksTyped
    <3>2. link'[u.chat] = u.code
      BY <1>5, <2>2
    <3>3. ASSUME NEW c \in Chats \ {u.chat} PROVE link'[c] = IF Chat!Linked(o, c) THEN 0 ELSE link[c]
      BY <1>5, <2>1, <2>3, <3>3 DEF Chat!NoCode, Chat!Owners
    <3>4. DOMAIN link' = Chats /\ link' = [c \in Chats |-> link'[c]]
      BY <1>5
    <3>5. \A c \in Chats : link'[c] \in Nat
      BY <3>1, <3>2, <3>3
    <3>6. link' \in [Chats -> Nat]
      BY <3>4, <3>5
    <3> QED BY <3>2, <3>3, <3>6 DEF Chat!Linked, Chat!NoCode
  <2>5. code' \in [Users -> Nat] /\ \A v \in Users : code'[v] # 0 => code'[v] = code[v]
    BY <1>5 DEF Chat!NoCode, LinksTyped
  <2>6. Chat!Proved(o, u.chat)
    <3>1. poll.id \in DOMAIN inbox
      BY <1>1 DEF LinksTyped
    <3> QED BY <2>2, <3>1 DEF Chat!Proved, Chat!NoCode
  <2>7. LinksTyped'
    <3>1. \A v \in Users : code'[v] # 0 => code'[v] \in 1..Len(issued) /\ issued[code'[v]] = v
      BY <2>5 DEF LinksTyped
    <3>2. \A c \in Chats : link'[c] # 0 => link'[c] \in 1..Len(issued)
      BY <2>2, <2>4 DEF LinksTyped
    <3> QED BY <1>1, <2>4, <2>5, <3>1, <3>2 DEF LinksTyped
  <2>8. Chat!LinksAreProved'
    <3> SUFFICES ASSUME NEW c \in Chats, link'[c] # 0
                 PROVE  /\ c \notin Groups /\ Chat!Proved(issued[link'[c]], c)
                        /\ \A d \in Chats : link'[d] # 0 /\ issued[link'[d]] = issued[link'[c]] => d = c
      BY <1>1 DEF Chat!LinksAreProved, Chat!Linked, Chat!NoCode, Chat!Proved
    <3>1. CASE c = u.chat
      BY <2>2, <2>4, <2>6, <3>1
    <3>2. CASE c # u.chat
      BY <2>2, <2>4, <3>2 DEF Chat!LinksAreProved, Chat!Linked, Chat!NoCode
    <3> QED BY <3>1, <3>2
  <2> QED BY <1>2, <2>7, <2>8
<1>6. Chat!Owners(u) # {} => Chat!Tries(u) /\ u.command # "stop"
  BY DEF Chat!Owners, Chat!Tries
<1> QED BY <1>4, <1>5, <1>6 DEF Chat!Handle

\* What is left to send, or the end of the job.
LEMMA SendingIs ==
    ASSUME NEW left \in Seq(Users)
    PROVE  /\ Chat!Sending(left) \in PollRow /\ Chat!Sending(left).at \in {"idle", "sending"}
           /\ Chat!Sending(left).at = "sending" => Chat!Sending(left).pending # <<>>
<1>1. CASE left = <<>>
  BY <1>1 DEF Chat!Sending, Chat!Idle, PollRow, PollPlaces
<1>2. CASE left # <<>>
  <2>1. Chat!Sending(left) \in [at : {"sending"}, id : {0}, last : {0}, pending : {left}, chat : {None}]
    BY <1>2 DEF Chat!Sending, Chat!Idle
  <2> QED BY <1>2, <2>1 DEF PollRow, PollPlaces
<1> QED BY <1>1, <1>2

\* The job: an update is stored before it is handled, and is past by then.
PollSteps == Chat!PollBegins \/ Chat!Take \/ Chat!Handle \/ Chat!Replied \/ Chat!ReplyFails

\* The poll confirms an update before it handles it, so that none is handled twice.
LEMMA PollKeepsOffset ==
    ASSUME OffsetIsAhead, Chat!CommandsRunOnce, Len(inbox) \in Nat, PollSteps
    PROVE  OffsetIsAhead' /\ Chat!CommandsRunOnce' /\ poll'.at \in {"idle", "updates", "handling", "replying"}
<1>1. /\ poll \in PollRow /\ offset \in Nat \ {0} /\ handled \in Seq(Nat) /\ Len(handled) \in Nat
      /\ DOMAIN handled = 1..Len(handled) /\ \A i \in 1..Len(handled) : handled[i] \in Nat
  BY DEF OffsetIsAhead
<1>2. UNCHANGED inbox
  BY DEF PollSteps, Chat!PollBegins, Chat!Take, Chat!Handle, Chat!Replied, Chat!ReplyFails
<1>3. CASE Chat!PollBegins
  <2>1. UNCHANGED <<offset, handled>>
    BY <1>3 DEF Chat!PollBegins
  <2>2. poll' \in [at : {"updates"}, id : {offset - 1}, last : {Len(inbox)}, pending : {<<>>}, chat : {None}]
    BY <1>3 DEF Chat!PollBegins, Chat!Idle
  <2>3. poll' \in PollRow /\ poll'.at = "updates" /\ poll'.id + 1 = offset /\ poll'.last <= Len(inbox)
    <3> DEFINE id == offset - 1
    <3>1. id \in Nat /\ id + 1 = offset /\ <<>> \in Seq(Users) /\ Len(inbox) <= Len(inbox)
      BY <1>1
    <3>2. poll' \in [at : {"updates"}, id : {id}, last : {Len(inbox)}, pending : {<<>>}, chat : {None}]
      BY <2>2
    <3> HIDE DEF id
    <3> QED BY <3>1, <3>2 DEF PollRow, PollPlaces
  <2> QED BY <1>1, <1>2, <2>1, <2>3 DEF OffsetIsAhead, Chat!CommandsRunOnce
<1>4. CASE Chat!Take
  <2>1. /\ poll.at = "updates" /\ poll.id < poll.last /\ offset' = poll.id + 1 + 1 /\ UNCHANGED handled
        /\ poll' = [poll EXCEPT !.at = "handling", !.id = poll.id + 1]
    BY <1>4 DEF Chat!Take, Chat!Store
  <2>2. /\ poll.id \in Nat /\ poll.last \in Nat /\ poll.id + 1 = offset /\ poll.last <= Len(inbox)
    BY <1>1, <2>1 DEF PollRow, OffsetIsAhead
  <2>3. /\ poll' \in [at : {"handling"}, id : {poll.id + 1}, last : {poll.last}, pending : {poll.pending},
                      chat : {poll.chat}]
    BY <1>1, <2>1 DEF PollRow
  <2>4. /\ poll' \in PollRow /\ poll'.at = "handling" /\ poll'.id = poll.id + 1 /\ poll'.last = poll.last
    BY <1>1, <2>2, <2>3 DEF PollRow, PollPlaces
  <2>5. \A i \in 1..Len(handled) : handled[i] < poll.id + 1
    BY <2>2 DEF OffsetIsAhead
  <2> QED BY <1>1, <1>2, <2>1, <2>2, <2>4, <2>5 DEF OffsetIsAhead, Chat!CommandsRunOnce
<1>5. CASE Chat!Handle
  <2>1. /\ poll.at = "handling" /\ handled' = Append(handled, poll.id) /\ UNCHANGED offset
        /\ poll' = [poll EXCEPT !.at = "replying"]
    BY <1>5 DEF Chat!Handle
  <2>2. /\ poll.id \in Nat /\ poll.id + 1 = offset /\ poll.last <= Len(inbox)
        /\ \A i \in 1..Len(handled) : handled[i] < poll.id
    BY <1>1, <2>1 DEF PollRow, OffsetIsAhead
  <2>3. /\ poll' \in PollRow /\ poll'.at = "replying" /\ poll'.id = poll.id /\ poll'.last = poll.last
    BY <1>1, <2>1 DEF PollRow, PollPlaces
  <2>4. /\ handled' \in Seq(Nat) /\ Len(handled') = Len(handled) + 1
        /\ handled'[Len(handled) + 1] = poll.id /\ \A i \in 1..Len(handled) : handled'[i] = handled[i]
    BY <1>1, <2>1, <2>2, AppendKeeps
  <2>5. \A i \in 1..Len(handled') : handled'[i] < offset
    <3> SUFFICES ASSUME NEW i \in 1..Len(handled') PROVE handled'[i] < offset
      OBVIOUS
    <3>1. i \in 1..Len(handled) \/ i = Len(handled) + 1
      BY <1>1, <2>4
    <3>2. poll.id < offset
      BY <2>2
    <3> QED BY <2>4, <3>1, <3>2 DEF OffsetIsAhead
  <2>6. OffsetIsAhead'
    BY <1>1, <1>2, <2>1, <2>2, <2>3, <2>4, <2>5 DEF OffsetIsAhead
  <2>7. Chat!CommandsRunOnce'
    <3> SUFFICES ASSUME NEW i \in 1..Len(handled'), NEW j \in 1..Len(handled'), i < j
                 PROVE  handled'[i] < handled'[j]
      BY <2>4 DEF Chat!CommandsRunOnce
    <3>1. i \in 1..Len(handled)
      BY <1>1, <2>4
    <3>2. CASE j \in 1..Len(handled)
      BY <1>1, <2>4, <3>1, <3>2 DEF Chat!CommandsRunOnce
    <3>3. CASE j = Len(handled) + 1
      BY <2>2, <2>4, <3>1, <3>3
    <3>4. Len(handled) \in Nat /\ j \in 1..(Len(handled) + 1)
      BY <1>1, <2>4
    <3>5. j \in 1..Len(handled) \/ j = Len(handled) + 1
      BY <3>4
    <3> QED BY <3>2, <3>3, <3>5
  <2> QED BY <2>3, <2>6, <2>7
<1>6. CASE Chat!Replied
  <2>1. /\ poll.at = "replying" /\ UNCHANGED <<offset, handled>> /\ poll' = [poll EXCEPT !.at = "updates"]
    BY <1>6 DEF Chat!Replied
  <2>2. poll' \in PollRow /\ poll'.at = "updates" /\ poll'.id = poll.id /\ poll'.last = poll.last
    BY <1>1, <2>1 DEF PollRow, PollPlaces
  <2> QED BY <1>1, <1>2, <2>1, <2>2 DEF OffsetIsAhead, Chat!CommandsRunOnce
<1>7. CASE Chat!ReplyFails
  <2>1. UNCHANGED <<offset, handled>> /\ poll' = Chat!Idle
    BY <1>7 DEF Chat!ReplyFails
  <2>2. poll' \in PollRow /\ poll'.at = "idle"
    BY <2>1 DEF Chat!Idle, PollRow, PollPlaces
  <2> QED BY <1>1, <1>2, <2>1, <2>2 DEF OffsetIsAhead, Chat!CommandsRunOnce
<1> QED BY <1>3, <1>4, <1>5, <1>6, <1>7 DEF PollSteps

\* A job that is not at the updates, and what was written meanwhile.
LEMMA RestKeepsOffset ==
    ASSUME OffsetIsAhead, Chat!CommandsRunOnce, UNCHANGED <<offset, handled>>,
           \/ UNCHANGED poll /\ Len(inbox) \in Nat /\ Len(inbox') \in Nat /\ Len(inbox') >= Len(inbox)
           \/ poll' \in PollRow /\ poll'.at \in {"idle", "sending", "calling"}
    PROVE  OffsetIsAhead' /\ Chat!CommandsRunOnce'
<1>1. CASE UNCHANGED poll /\ Len(inbox) \in Nat /\ Len(inbox') \in Nat /\ Len(inbox') >= Len(inbox)
  BY <1>1 DEF OffsetIsAhead, PollRow, Chat!CommandsRunOnce
<1>2. CASE poll' \in PollRow /\ poll'.at \in {"idle", "sending", "calling"}
  BY <1>2 DEF OffsetIsAhead, Chat!CommandsRunOnce
<1> QED BY <1>1, <1>2

\* A link that is looked up was proved.
LEMMA ReadIsProved ==
    ASSUME Chat!LinksAreProved, NEW u \in Users, NEW c \in Chats, Chat!Reads(u, c)
    PROVE  Chat!Proved(u, c)
  BY DEF Chat!LinksAreProved, Chat!Reads, Chat!Linked

\* A step that sends nothing keeps what is on its way provable.
LEMMA OthersKeepSends ==
    ASSUME LinksTyped, SendsAreProved, Chat!NewsGoesToItsOwner, Grows, UNCHANGED <<outbox, told, push>>,
           poll' = poll \/ poll'.at \in {"idle", "updates", "handling", "replying"}
    PROVE  SendsAreProved' /\ Chat!NewsGoesToItsOwner'
<1>1. \A u, c : Chat!Proved(u, c) => Chat!Proved(u, c)'
  BY ProvedStays
<1>2. Chat!NewsGoesToItsOwner'
  BY <1>1 DEF Chat!NewsGoesToItsOwner
<1>3. push # Chat!NoPush => push \in [user : Users, chat : Chats] /\ Chat!Proved(push.user, push.chat)'
  BY <1>1 DEF SendsAreProved
<1>4. CASE poll' = poll
  <2>1. poll.at = "calling" => Chat!Proved(Head(poll.pending), poll.chat)'
    BY <1>1, <1>4 DEF SendsAreProved
  <2> QED BY <1>2, <1>3, <1>4, <2>1 DEF SendsAreProved, Chat!NoPush, Chat!Proved
<1>5. CASE poll'.at \in {"idle", "updates", "handling", "replying"}
  BY <1>2, <1>3, <1>5 DEF SendsAreProved, Chat!NoPush, Chat!Proved
<1> QED BY <1>4, <1>5

\* What is sent, by the job or by another thread, was looked up by a link of its user.
SendSteps ==
    \/ \E u \in Users : Chat!queue(u) \/ \E c \in Chats : Chat!PushReads(u, c)
    \/ Chat!Flush \/ Chat!SendReads \/ Chat!Sent \/ Chat!PushSent \/ Chat!Crash

\* A text is sent to the chat its link was looked up for, which proved whose it is.
LEMMA SendsKeepNews ==
    ASSUME LinksTyped, OffsetIsAhead, Chat!LinksAreProved, SendsAreProved, Chat!NewsGoesToItsOwner, SendSteps
    PROVE  /\ SendsAreProved' /\ Chat!NewsGoesToItsOwner' /\ Grows
           /\ poll' = poll \/ (poll' \in PollRow /\ poll'.at \in {"idle", "sending", "calling"})
<1>1. UNCHANGED <<issued, inbox>>
  BY DEF SendSteps, Chat!queue, Chat!PushReads, Chat!Flush, Chat!SendReads, Chat!Sent, Chat!PushSent,
         Chat!Crash
<1>2. Grows
  BY <1>1, TalkStays
<1>3. \A u, c : Chat!Proved(u, c)' <=> Chat!Proved(u, c)
  BY <1>1 DEF Chat!Proved
<1>4. /\ poll \in PollRow /\ poll.pending \in Seq(Users) /\ outbox \in Seq(Users)
      /\ poll.at \in {"sending", "calling"} =>
           /\ Head(poll.pending) \in Users /\ Tail(poll.pending) \in Seq(Users)
           /\ poll.pending # <<>>
  BY DEF OffsetIsAhead, PollRow, SendsAreProved
<1>5. ASSUME NEW left \in Seq(Users), poll' = Chat!Sending(left)
      PROVE  /\ poll' \in PollRow /\ poll'.at \in {"idle", "sending"}
             /\ poll'.at = "sending" => poll'.pending # <<>>
  BY <1>5, SendingIs
<1>6. ASSUME NEW u \in Users, Chat!queue(u)
      PROVE  SendsAreProved' /\ Chat!NewsGoesToItsOwner' /\ poll' = poll
  <2> DEFINE kept == IF Len(outbox) = MaxQueued THEN Tail(outbox) ELSE outbox
  <2>1. UNCHANGED <<poll, push, told>> /\ outbox' = Append(kept, u)
    BY <1>6 DEF Chat!queue
  <2>2. kept \in Seq(Users)
    BY <1>4, AlertAssumption
  <2> HIDE DEF kept
  <2>3. outbox' \in Seq(Users)
    BY <2>1, <2>2
  <2> QED BY <1>3, <2>1, <2>3 DEF SendsAreProved, Chat!NewsGoesToItsOwner, Chat!NoPush
<1>7. ASSUME NEW u \in Users, NEW c \in Chats, Chat!PushReads(u, c)
      PROVE  SendsAreProved' /\ Chat!NewsGoesToItsOwner' /\ poll' = poll
  <2>1. UNCHANGED <<outbox, poll, told>> /\ push' = [user |-> u, chat |-> c] /\ Chat!Proved(u, c)
    BY <1>7, ReadIsProved DEF Chat!PushReads
  <2> QED BY <1>3, <2>1 DEF SendsAreProved, Chat!NewsGoesToItsOwner
<1>8. CASE Chat!Flush
  <2>1. UNCHANGED <<push, told>> /\ outbox' = <<>> /\ poll' = Chat!Sending(outbox)
    BY <1>8 DEF Chat!Flush
  <2> QED BY <1>2, <1>3, <1>4, <1>5, <2>1 DEF SendsAreProved, Chat!NewsGoesToItsOwner, Chat!NoPush
<1>9. CASE Chat!SendReads
  <2>1. poll.at = "sending" /\ UNCHANGED <<outbox, push, told>>
    BY <1>9 DEF Chat!SendReads
  <2>2. CASE poll' = Chat!Sending(Tail(poll.pending))
    BY <1>2, <1>3, <1>4, <1>5, <2>1, <2>2 DEF SendsAreProved, Chat!NewsGoesToItsOwner, Chat!NoPush
  <2>3. ASSUME NEW c \in Chats, Chat!Reads(Head(poll.pending), c),
               poll' = [poll EXCEPT !.at = "calling", !.chat = c]
        PROVE  /\ SendsAreProved' /\ Chat!NewsGoesToItsOwner'
               /\ poll' \in PollRow /\ poll'.at = "calling"
    <3>1. Chat!Proved(Head(poll.pending), c)
      BY <1>4, <2>1, <2>3, ReadIsProved
    <3>2. poll' \in [at : {"calling"}, id : Nat, last : Nat, pending : {poll.pending}, chat : {c}]
      BY <1>4, <2>3 DEF PollRow
    <3>3. poll' \in PollRow /\ poll'.at = "calling" /\ poll'.pending = poll.pending /\ poll'.chat = c
      BY <1>4, <3>2 DEF PollRow, PollPlaces
    <3> QED BY <1>3, <1>4, <2>1, <3>1, <3>3 DEF SendsAreProved, Chat!NewsGoesToItsOwner, Chat!NoPush
  <2> QED BY <1>2, <1>9, <2>2, <2>3 DEF Chat!SendReads
<1>10. CASE Chat!Sent
  <2>1. /\ poll.at = "calling" /\ poll' = Chat!Sending(Tail(poll.pending)) /\ UNCHANGED <<outbox, push>>
        /\ told' \subseteq told \cup {[user |-> Head(poll.pending), chat |-> poll.chat]}
    BY <1>10 DEF Chat!Sent
  <2>2. poll.chat \in Chats /\ Chat!Proved(Head(poll.pending), poll.chat)
    BY <2>1 DEF SendsAreProved
  <2>3. told' \subseteq [user : Users, chat : Chats] /\ Chat!NewsGoesToItsOwner'
    BY <1>3, <1>4, <2>1, <2>2 DEF SendsAreProved, Chat!NewsGoesToItsOwner
  <2> QED BY <1>2, <1>3, <1>4, <1>5, <2>1, <2>3 DEF SendsAreProved, Chat!NoPush
<1>11. CASE Chat!PushSent
  <2>1. /\ push # Chat!NoPush /\ push' = Chat!NoPush /\ UNCHANGED <<outbox, poll>>
        /\ told' \subseteq told \cup {push}
    BY <1>11 DEF Chat!PushSent
  <2>2. push \in [user : Users, chat : Chats] /\ Chat!Proved(push.user, push.chat)
    BY <2>1 DEF SendsAreProved
  <2>3. told' \subseteq [user : Users, chat : Chats] /\ Chat!NewsGoesToItsOwner'
    BY <1>3, <2>1, <2>2 DEF SendsAreProved, Chat!NewsGoesToItsOwner
  <2> QED BY <1>2, <1>3, <2>1, <2>3 DEF SendsAreProved, Chat!NoPush
<1>12. CASE Chat!Crash
  <2>1. outbox' = <<>> /\ poll' = Chat!Idle /\ push' = Chat!NoPush /\ UNCHANGED told
    BY <1>12 DEF Chat!Crash
  <2>2. poll' \in PollRow /\ poll'.at = "idle"
    BY <2>1 DEF Chat!Idle, PollRow, PollPlaces
  <2> QED BY <1>2, <1>3, <2>1, <2>2 DEF SendsAreProved, Chat!NewsGoesToItsOwner, Chat!NoPush
<1> QED BY <1>2, <1>6, <1>7, <1>8, <1>9, <1>10, <1>11, <1>12 DEF SendSteps

\* Every step of the bot, its users and the network.
LEMMA ChatStepKeepsInv ==
    ASSUME ChatInv, Chat!Next
    PROVE  ChatInv'
<1> USE DEF ChatInv
<1>1. Len(inbox) \in Nat /\ Len(inbox) >= Len(inbox)
  BY DEF LinksTyped
<1>2. CASE OtherLinkSteps
  <2>1. UNCHANGED <<offset, handled, poll, outbox, told, push>>
    BY <1>2 DEF OtherLinkSteps, Chat!issue_code, Chat!Expire, Chat!unlink, Chat!set_enabled, Chat!Write
  <2>2. Grows /\ LinksTyped' /\ Chat!LinksAreProved'
    BY <1>2, OthersKeepLinks
  <2>3. Len(inbox') \in Nat /\ Len(inbox') >= Len(inbox)
    BY <2>2 DEF Grows
  <2> QED BY <1>1, <2>1, <2>2, <2>3, RestKeepsOffset, OthersKeepSends
<1>3. CASE PollSteps
  <2>1. UNCHANGED <<outbox, told, push>>
    BY <1>3 DEF PollSteps, Chat!PollBegins, Chat!Take, Chat!Handle, Chat!Replied, Chat!ReplyFails
  <2>2. Grows /\ LinksTyped' /\ Chat!LinksAreProved'
    <3>1. CASE Chat!Handle
      BY <3>1, HandleKeepsLinks
    <3>2. CASE ~Chat!Handle
      <4>1. UNCHANGED <<issued, inbox, code, link>>
        BY <1>3, <3>2 DEF PollSteps, Chat!PollBegins, Chat!Take, Chat!Replied, Chat!ReplyFails
      <4> QED BY <4>1, TalkStays DEF LinksTyped, Chat!LinksAreProved, Chat!Linked, Chat!Proved
    <3> QED BY <3>1, <3>2
  <2> QED BY <1>1, <1>3, <2>1, <2>2, PollKeepsOffset, OthersKeepSends
<1>4. CASE SendSteps
  <2>1. UNCHANGED <<issued, inbox, code, link, offset, handled>>
    BY <1>4 DEF SendSteps, Chat!queue, Chat!PushReads, Chat!Flush, Chat!SendReads, Chat!Sent,
                Chat!PushSent, Chat!Crash
  <2>2. LinksTyped' /\ Chat!LinksAreProved'
    BY <2>1 DEF LinksTyped, Chat!LinksAreProved, Chat!Linked, Chat!Proved
  <2> QED BY <1>1, <1>4, <2>1, <2>2, SendsKeepNews, RestKeepsOffset
<1>5. CASE \E c \in Chats : Chat!WindowPasses(c)
  <2>1. UNCHANGED <<issued, code, link, muted, inbox, offset, outbox, poll, push, handled, told, texts, faults>>
    BY <1>5 DEF Chat!WindowPasses
  <2>2. LinksTyped' /\ Chat!LinksAreProved' /\ Grows
    BY <2>1, TalkStays DEF LinksTyped, Chat!LinksAreProved, Chat!Linked, Chat!Proved
  <2> QED BY <1>1, <2>1, <2>2, RestKeepsOffset, OthersKeepSends
<1> QED BY <1>2, <1>3, <1>4, <1>5 DEF Chat!Next, Chat!Thread, OtherLinkSteps, PollSteps, SendSteps, Chat!NoCode

\* So the invariant of the Telegram bot holds.
LEMMA ChatInvHolds == AnySpec => []ChatInv
<1>1. AnyInit => ChatInv
  <2> SUFFICES ASSUME AnyInit PROVE ChatInv
    OBVIOUS
  <2>1. /\ issued = <<>> /\ code = [u \in Users |-> 0] /\ link = [c \in Chats |-> 0]
        /\ inbox = <<>> /\ offset = 1 /\ outbox = <<>>
        /\ poll = Chat!Idle /\ push = Chat!NoPush /\ handled = <<>> /\ told = {}
    BY DEF AnyInit, Chat!Init, Chat!NoCode
  <2>2. poll \in PollRow /\ poll.at = "idle"
    BY <2>1 DEF Chat!Idle, PollRow, PollPlaces
  <2>3. LinksTyped /\ OffsetIsAhead /\ SendsAreProved
    BY <2>1, <2>2 DEF LinksTyped, OffsetIsAhead, SendsAreProved
  <2> QED BY <2>1, <2>3 DEF ChatInv, Chat!CommandsRunOnce, Chat!LinksAreProved, Chat!NewsGoesToItsOwner,
                            Chat!NoCode
<1>2. ChatInv /\ UNCHANGED chatVars => ChatInv'
  BY DEF chatVars, ChatInv, LinksTyped, OffsetIsAhead, SendsAreProved, Chat!CommandsRunOnce,
         Chat!LinksAreProved, Chat!NewsGoesToItsOwner, Chat!Proved, Chat!Linked
<1>3. [AnyNext]_allVars => Chat!Next \/ UNCHANGED chatVars
  BY DEF AnyNext, SwitchesRun, ExitsRun, TelegramRuns, allVars
<1>4. ChatInv /\ [AnyNext]_allVars => ChatInv'
  BY <1>2, <1>3, ChatStepKeepsInv
<1> QED BY <1>1, <1>4, PTL DEF AnySpec

\* An alert is about the rule as it is, what a rule takes for told was told, and a trail keeps its
\* high; a command of the bot runs once and in order, a linked chat proved whose it is, and news goes
\* to its owner: for any number of saves, users, chats and texts, whatever fails or restarts.
THEOREM AlertsStayTrue == AnySpec => AlertsAreTrue
<1>1. ExitInv => Exit!FiredIsTold
  BY DEF ExitInv
<1>2. ChatInv => Chat!CommandsRunOnce /\ Chat!LinksAreProved /\ Chat!NewsGoesToItsOwner
  BY DEF ChatInv
<1> QED BY <1>1, <1>2, ExitInvHolds, ChatInvHolds, PTL DEF AlertsAreTrue
=============================================================================
