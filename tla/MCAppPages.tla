------------------------------ MODULE MCAppPages ------------------------------
(***************************************************************************)
(* The pages of the web application: the shell with its history and tours, *)
(* a stock's page, the panels, the totals of the portfolio, the watchlists, *)
(* the forms, the order ticket, the menus and the tooltips.  They share no *)
(* state that the modules keep: one of them is chosen, and runs alone.     *)
(***************************************************************************)
EXTENDS Naturals

CONSTANTS None, NoAlert, NoTicker, us, il, a1, home, news, button, tip

VARIABLES
    part,
    ticker, focus, attempt, result, asked, overrideDone, folded, stored, other, watchBusy, steps, toggled,
    history, at, tab, fallback, tour, tourStep, tourTimer, toursSeen, toursReplay, onboarded,
    tourAllowed, dataLoading, palette, leaving, moves,
    tips, group, pointer, focused, gestures, pressed,
    given, form, step, pending, lookup, late, order, accepted, lost, actions, losses,
    kind, opening, openings, input, edits, waiting, message, requests, applied, formLost, submits,
    formLosses,
    panel, choice, text, shown, displayed, panelRequests, busy, saved, panelMoves, panelLosses,
    rows, served, created, clock, lists, activeId, items, orders, calls, acts, failed, crossed,
    held, cash, base, kept, fx, ask, saves, quotable, doubtful, totalMoves, totalLosses,
    open, capturing, dialog, menuFocus, unpressed, menuGestures

stockVars   == <<ticker, focus, attempt, result, asked, overrideDone, folded, stored, other, watchBusy,
                 steps, toggled>>
shellVars   == <<history, at, tab, fallback, tour, tourStep, tourTimer, toursSeen, toursReplay,
                 onboarded, tourAllowed, dataLoading, palette, leaving, moves>>
tooltipVars == <<tips, group, pointer, focused, gestures, pressed>>
ticketVars  == <<given, form, step, pending, lookup, late, order, accepted, lost, actions, losses>>
formVars    == <<kind, opening, openings, input, edits, waiting, message, requests, applied, formLost,
                 submits, formLosses>>
panelVars   == <<panel, choice, text, shown, displayed, panelRequests, busy, saved, panelMoves, panelLosses>>
listVars    == <<rows, served, created, clock, lists, activeId, items, orders, calls, acts, failed, crossed>>
totalVars   == <<held, cash, base, kept, fx, ask, saves, quotable, doubtful, totalMoves, totalLosses>>
menuVars    == <<open, capturing, dialog, menuFocus, unpressed, menuGestures>>
vars        == <<part, stockVars, shellVars, tooltipVars, ticketVars, formVars, panelVars, listVars,
                 totalVars, menuVars>>

Stock == INSTANCE StockPage WITH
            Tickers <- {us, il}, TaseTickers <- {il}, Alerts <- {a1}, Extras <- {"anchors"},
            MaxAttempts <- 1, MaxSteps <- 3

Shell == INSTANCE AppShell WITH
            Views <- {home, news}, DefaultView <- home, TourViews <- {home, news}, TourSteps <- 2,
            MaxHistory <- 3, MaxMoves <- 4

Bubbles == INSTANCE Tooltips WITH
              Triggers <- {button, tip}, ClickTriggers <- {tip}, MaxGestures <- 4

Ticket == INSTANCE OrderTicket WITH Tickers <- {us, il}, MaxSteps <- 5, MaxLosses <- 1

Dialogs == INSTANCE Forms WITH
              MaxOpenings <- 2, MaxEdits <- 1, MaxSubmits <- 2, MaxLosses <- 1,
              lost <- formLost, losses <- formLosses

Tools == INSTANCE Panels WITH
            Subjects <- {us, il}, First <- us, MaxMoves <- 3, MaxLosses <- 1,
            failed <- displayed, requests <- panelRequests, stored <- saved, moves <- panelMoves,
            losses <- panelLosses

Lists == INSTANCE Watchlists WITH
            Tickers <- {us, il}, NoList <- 0, MaxLists <- 3, MaxActs <- 3, MaxLosses <- 0

Position(ccy, quoted) == [ccy |-> ccy, quoted |-> quoted]

Totals == INSTANCE PortfolioTotals WITH
            Currencies <- {"USD", "ILS"}, Default <- "USD",
            Positions <- {Position("ILS", "ILS"), Position("USD", "ILS")},
            MaxMoves <- 2, MaxLosses <- 1, moves <- totalMoves, losses <- totalLosses

Overlays == INSTANCE Menus WITH
              Menus <- {"MenuButton", "UserMenu", "DraftsMenu", "SnapshotMenu"}, MaxGestures <- 6,
              focus <- menuFocus, gestures <- menuGestures

\* The parts that do not run start in one state only.
Init ==
    /\ part \in {"stock", "shell", "tooltips", "ticket", "forms", "panels", "lists", "totals", "menus"}
    /\ Stock!Init   /\ (part # "stock" => ticker = us /\ focus = NoAlert /\ stored = {})
    /\ Shell!Init   /\ (part # "shell" => history = <<Shell!View(home)>> /\ onboarded)
    /\ Bubbles!Init
    /\ Ticket!Init  /\ (part # "ticket" => given = us /\ form.side = "BUY" /\ form.qty = Ticket!Blank)
    /\ Dialogs!Init /\ (part # "forms" => kind = "SellDialog")
    /\ Tools!Init   /\ (part # "panels" => panel = "SaleCheck")
    /\ Lists!Init   /\ (part # "lists" => orders[1] = <<>>)
    /\ Totals!Init  /\ (part # "totals" => held = {} /\ cash = {} /\ kept = base)
    /\ Overlays!Init

Chosen(name) == part = name /\ UNCHANGED part

StockRuns(act) ==
    /\ Chosen("stock") /\ act
    /\ UNCHANGED <<shellVars, tooltipVars, ticketVars, formVars, panelVars, listVars, totalVars, menuVars>>
ShellRuns(act) ==
    /\ Chosen("shell") /\ act
    /\ UNCHANGED <<stockVars, tooltipVars, ticketVars, formVars, panelVars, listVars, totalVars, menuVars>>
TooltipsRun(act) ==
    /\ Chosen("tooltips") /\ act
    /\ UNCHANGED <<stockVars, shellVars, ticketVars, formVars, panelVars, listVars, totalVars, menuVars>>
TicketRuns(act) ==
    /\ Chosen("ticket") /\ act
    /\ UNCHANGED <<stockVars, shellVars, tooltipVars, formVars, panelVars, listVars, totalVars, menuVars>>
FormsRun(act) ==
    /\ Chosen("forms") /\ act
    /\ UNCHANGED <<stockVars, shellVars, tooltipVars, ticketVars, panelVars, listVars, totalVars, menuVars>>
PanelsRun(act) ==
    /\ Chosen("panels") /\ act
    /\ UNCHANGED <<stockVars, shellVars, tooltipVars, ticketVars, formVars, listVars, totalVars, menuVars>>
ListsRun(act) ==
    /\ Chosen("lists") /\ act
    /\ UNCHANGED <<stockVars, shellVars, tooltipVars, ticketVars, formVars, panelVars, totalVars, menuVars>>
TotalsRun(act) ==
    /\ Chosen("totals") /\ act
    /\ UNCHANGED <<stockVars, shellVars, tooltipVars, ticketVars, formVars, panelVars, listVars, menuVars>>
MenusRun(act) ==
    /\ Chosen("menus") /\ act
    /\ UNCHANGED <<stockVars, shellVars, tooltipVars, ticketVars, formVars, panelVars, listVars, totalVars>>

Next ==
    \/ StockRuns(Stock!Next) \/ ShellRuns(Shell!Next) \/ TooltipsRun(Bubbles!Next)
    \/ TicketRuns(Ticket!Next) \/ FormsRun(Dialogs!Next) \/ PanelsRun(Tools!Next)
    \/ ListsRun(Lists!Next) \/ TotalsRun(Totals!Next) \/ MenusRun(Overlays!Next)

Spec ==
    /\ Init /\ [][Next]_vars
    /\ WF_vars(ShellRuns(Shell!StillHere)) /\ WF_vars(ShellRuns(Shell!RewriteJunk))
    /\ WF_vars(ShellRuns(Shell!DataLoaded)) /\ WF_vars(ShellRuns(Shell!TourTimerFires))
    /\ \A t \in {button, tip} :
          /\ WF_vars(TooltipsRun(Bubbles!OpenTimer(t))) /\ WF_vars(TooltipsRun(Bubbles!CloseTimer(t)))
          /\ WF_vars(TooltipsRun(Bubbles!PressTimer(t)))
    /\ WF_vars(FormsRun(\E r \in requests, verdict \in {"taken", "refused"} : Dialogs!Handle(r, verdict)))
    /\ WF_vars(FormsRun(\E r \in requests : Dialogs!Answered(r)))
    /\ WF_vars(PanelsRun(\E r \in panelRequests : Tools!TimerFires(r) \/ Tools!Handle(r) \/ Tools!Answered(r)))
    /\ WF_vars(TotalsRun(Totals!Poll)) /\ WF_vars(TotalsRun(Totals!RatesHandled))
    /\ WF_vars(TotalsRun(Totals!RatesArrive))

\* What a stock's page claims came for that stock, the pane an alert links to is open, a panel rests
\* on the answer for its subject, a total counts what it could convert and says what it leaves out,
\* and a tour starts by itself only where it is due.
PagesTellTheTruth ==
    /\ Stock!ClaimsAreBacked /\ Stock!FocusedAlertIsOpen /\ Tools!RestsOnItsSubject
    /\ Totals!TotalsAreHonest /\ Totals!BaseSettles /\ Shell!AutoTourIsDue
\* One ticket places one order, and a guarded form is taken once.
AskedForOnce == Ticket!OneOrderPerTicket /\ Dialogs!TakenOnce
\* A list remains, an arrangement hides no row, and the page shows what the server keeps.
ListsAreKept == Lists!AListRemains /\ Lists!OrderHidesNothing /\ Lists!ShownIsStored

\* One tooltip at a time, and a trigger that was pressed stays quiet; one menu at a time, the focus
\* where the user can see it, and Escape takes one layer.
PopupsHold ==
    /\ [](Bubbles!OneTooltipAtATime /\ Bubbles!PressedStaysHidden /\ Overlays!MenusAreOrderly)
    /\ Overlays!EscapePeels
\* What the user typed into the ticket, only the user changes; and no result gives way to an older one.
NothingIsOverwritten == Ticket!TypedValuesAreKept /\ Tools!NothingIsOvertaken
\* Back leaves a stock's page, a hovered tooltip closes, what waits for an answer comes back, and
\* the totals come in the base that is shown.
WaitsEnd ==
    /\ part = "shell" => Shell!BackLeavesTheStockPage
    /\ part = "tooltips" => Bubbles!HoverEnds
    /\ part = "forms" => Dialogs!WaitingEnds
    /\ part = "panels" => Tools!BusyEnds
    /\ part = "totals" => Totals!RatesCome
=============================================================================
