---------------------------- MODULE MCKillSwitch ----------------------------
(***************************************************************************)
(* What guards an account and tells of it: the risk switches with the      *)
(* orders and bots they stop, the exit rules that raise alerts, and the    *)
(* Telegram bot.  They share no state: one of them is chosen, and runs     *)
(* alone.                                                                  *)
(***************************************************************************)
EXTENDS KillSwitch

CONSTANTS
    Prices, Opening, Levels, Saves,                 \* of Exits: its prices, the first one, its requests
    Users, Chats, Groups, MaxBad, MaxQueued,        \* of Telegram
    MaxNow, MaxMoves, MaxFailures, MaxCodes, MaxUpdates, MaxTexts, MaxFaults    \* bounds

\* Prices and levels are whole numbers, and the bot's queue holds a text at least.
ASSUME AlertAssumption ==
    /\ Prices \subseteq Nat /\ Opening \in Prices
    /\ Levels \subseteq [stop : Nat, take_profit : Nat, trail : BOOLEAN, active : BOOLEAN]
    /\ MaxQueued \in Nat \ {0} /\ MaxCodes \in Nat

VARIABLES
    part,
    rule, alerts, held, price, live, now, put, pass, moves, failures,
    issued, code, link, muted, inbox, offset, bad, outbox, poll, push, handled, told, texts, faults

exitVars == <<rule, alerts, held, price, live, now, put, pass, moves, failures>>
chatVars == <<issued, code, link, muted, inbox, offset, bad, outbox, poll, push, handled, told, texts,
              faults>>
allVars  == <<part, vars, exitVars, chatVars>>

\* The levels of the run: all three of them, and a stop that is not active.
WatchedLevels ==
    {[stop |-> 1, take_profit |-> 3, trail |-> TRUE, active |-> TRUE],
     [stop |-> 1, take_profit |-> 0, trail |-> FALSE, active |-> FALSE]}

Exit == INSTANCE Exits WITH Puts <- Saves

Chat == INSTANCE Telegram WITH Nobody <- None

\* Those that do not run start in one state only.
AnyInit ==
    /\ part \in {"switches", "exits", "telegram"}
    /\ Init /\ (part # "switches" => watches /\ risk.limits = CHOOSE l \in Limits : TRUE)
    /\ Exit!Init /\ price = Opening
    /\ Chat!Init

Chosen(name) == part = name /\ UNCHANGED part

SwitchesRun(step) == Chosen("switches") /\ step /\ UNCHANGED <<exitVars, chatVars>>
ExitsRun(step)    == Chosen("exits") /\ step /\ UNCHANGED <<vars, chatVars>>
TelegramRuns(step) == Chosen("telegram") /\ step /\ UNCHANGED <<vars, exitVars>>

AnyNext == SwitchesRun(Next) \/ ExitsRun(Exit!Next) \/ TelegramRuns(Chat!Next)

\* The fairness of the modules, in one condition: only one of them ever runs.
AnySpec ==
    /\ AnyInit /\ [][AnyNext]_allVars
    /\ WF_allVars(\/ SwitchesRun((\E r \in Requests : Continue(r)) /\ UNCHANGED watches)
                  \/ ExitsRun(Exit!Thread) \/ TelegramRuns(Chat!Thread))

\* An alert is of the rule as it is and what a rule takes for told was told; a trail keeps its high; a
\* command runs once, a linked chat proved whose it is, and news goes to its owner.
AlertsAreTrue ==
    /\ Exit!AlertsAreOfTheRule /\ Exit!TrailKeepsItsHigh
    /\ [](Exit!FiredIsTold /\ Chat!CommandsRunOnce /\ Chat!LinksAreProved /\ Chat!NewsGoesToItsOwner)

\* A halt that was accepted is written, a level that stays reached is told, what is written to the bot
\* is taken and what waits for it is sent or dropped.
WaitsEnd ==
    /\ part = "switches" => HaltTakesEffect
    /\ part = "exits" => Exit!ReachedLevelsAreTold
    /\ part = "telegram" => Chat!UpdatesAreTaken /\ Chat!QueueDrains
=============================================================================
