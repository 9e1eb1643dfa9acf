---------------------------- MODULE DrawingSync ----------------------------
(***************************************************************************)
(* lib/drawings/storage.js under useDrawings: the drawings of one stock,   *)
(* kept in each browser and on the server.  Every edit is written to the   *)
(* browser, marked dirty, and pushed; opening the chart asks the server    *)
(* and takes one of the two copies.  The calls of a browser are kept in    *)
(* the order they were made; the network ends them in any order.           *)
(***************************************************************************)
EXTENDS Naturals, SequencesExt

CONSTANTS None, Devices,
          MaxShapes,    \* bound: shapes drawn, over all devices
          MaxCalls,     \* bound: calls of each browser under way
          MaxLost       \* bound: requests or answers lost

VARIABLES
    server,        \* [shapes, at]: the saved drawings and their updated_at
    local,         \* each browser's copy: None or [shapes, at, dirty]
    open, ready,  \* is the chart mounted, has its load resolved
    screen,        \* the shapes on each screen
    calls,         \* each browser's calls under way, oldest first
    drawn,         \* history: the shapes drawn on each device
    drewSince,     \* history: drawn since the chart was opened on a clean copy
    hasty,         \* history: drawn before the load resolved, opened before the last visit's
                   \*          calls ended, or a call went ahead of an older one
    lost

histories == <<drawn, drewSince, hasty, lost>>
vars == <<server, local, open, ready, screen, calls, histories>>

Clean(drawing, at) == [shapes |-> drawing, at |-> at, dirty |-> FALSE]
Dirty(drawing)     == [shapes |-> drawing, at |-> 0, dirty |-> TRUE]

Call(step, copy) == [step |-> step, copy |-> copy, remote |-> None, load |-> step = "get"]

AllDrawn == UNION {drawn[d] : d \in Devices}
Undrawn  == 1..MaxShapes \ AllDrawn

\* The load effect of a mounted chart: the local copy is read before the request.
Open(d) ==
    /\ ~open[d]
    /\ \A i \in DOMAIN calls[d] : ~calls[d][i].load
    /\ Len(calls[d]) < MaxCalls[d]
    /\ open' = [open EXCEPT ![d] = TRUE]
    /\ calls' = [calls EXCEPT ![d] = Append(@, Call("get", local[d]))]
    /\ drewSince' = [drewSince EXCEPT ![d] = calls[d] # <<>> \/ (local[d] # None /\ local[d].dirty)]
    /\ hasty' = (hasty \/ calls[d] # <<>>)
    /\ UNCHANGED <<server, local, ready, screen, drawn, lost>>

\* The chart is left: its load goes on, and no longer reaches the screen.
Close(d) ==
    /\ open[d]
    /\ open' = [open EXCEPT ![d] = FALSE]
    /\ ready' = [ready EXCEPT ![d] = FALSE]
    /\ screen' = [screen EXCEPT ![d] = {}]
    /\ UNCHANGED <<server, local, calls, histories>>

InOrder(i) == hasty' = (hasty \/ i # 1)

Goes(d, i, step, remote) == calls' = [calls EXCEPT ![d][i] = [@ EXCEPT !.step = step, !.remote = remote]]

Ends(d, i) == calls' = [calls EXCEPT ![d] = RemoveAt(@, i)]

\* loadDrawings resolves with what to show.
Resolve(d, drawing) ==
    /\ screen' = [screen EXCEPT ![d] = IF open[d] THEN drawing ELSE @]
    /\ ready' = [ready EXCEPT ![d] = open[d]]

\* GET: the server answers with what it holds now.
Fetch(d, i) ==
    /\ calls[d][i].step = "get"
    /\ Goes(d, i, "got", server)
    /\ InOrder(i)
    /\ UNCHANGED <<server, local, open, ready, screen, drawn, drewSince, lost>>

\* Is the browser's copy pushed rather than dropped for the server's.
Pushes(copy, remote) == copy # None /\ (copy.dirty \/ copy.at > remote.at)

\* A browser that had a copy keeps the server's.
Taken(d, copy, remote) == IF copy = None THEN local[d] ELSE Clean(remote.shapes, remote.at)

\* The answer arrives: the copy read at the start decides.
Decide(d, i) ==
    LET copy == calls[d][i].copy  remote == calls[d][i].remote IN
    /\ calls[d][i].step = "got"
    /\ InOrder(i)
    /\ IF Pushes(copy, remote)
       THEN /\ Goes(d, i, "push", None)
            /\ UNCHANGED <<local, screen, ready>>
       ELSE /\ local' = [local EXCEPT ![d] = Taken(d, copy, remote)]
            /\ Resolve(d, remote.shapes)
            /\ Ends(d, i)
    /\ UNCHANGED <<server, open, drawn, drewSince, lost>>

\* PUT reaches the server.
Apply(d, i) ==
    /\ calls[d][i].step = "push"
    /\ server' = [shapes |-> calls[d][i].copy.shapes, at |-> server.at + 1]
    /\ Goes(d, i, "pushed", server')
    /\ InOrder(i)
    /\ UNCHANGED <<local, open, ready, screen, drawn, drewSince, lost>>

\* Mutant: the copy a failed push leaves is not marked.
Failed_clean(drawing) == Clean(drawing, 0)

\* The copy a failed push leaves.
Failed(drawing) == Dirty(drawing)

\* pushDrawings ends: the copy that was pushed is the local one, clean or dirty.
PushEnds(d, i, copy) ==
    /\ local' = [local EXCEPT ![d] = copy]
    /\ IF calls[d][i].load THEN Resolve(d, copy.shapes) ELSE UNCHANGED <<screen, ready>>
    /\ Ends(d, i)
    /\ InOrder(i)
    /\ UNCHANGED <<server, open, drawn, drewSince>>

Saved(d, i) ==
    /\ calls[d][i].step = "pushed"
    /\ PushEnds(d, i, Clean(calls[d][i].copy.shapes, calls[d][i].remote.at))
    /\ UNCHANGED lost

\* The request or its answer is lost.
SaveFails(d, i) ==
    /\ calls[d][i].step \in {"push", "pushed"}
    /\ lost < MaxLost /\ lost' = lost + 1
    /\ PushEnds(d, i, Failed(calls[d][i].copy.shapes))

FetchFails(d, i) ==
    /\ calls[d][i].step \in {"get", "got"}
    /\ lost < MaxLost /\ lost' = lost + 1
    /\ Resolve(d, IF calls[d][i].copy = None THEN {} ELSE calls[d][i].copy.shapes)
    /\ Ends(d, i)
    /\ InOrder(i)
    /\ UNCHANGED <<server, local, open, drawn, drewSince>>

\* commit: on screen, in the browser, and on its way to the server.
Edit(d) ==
    LET new     == CHOOSE n \in Undrawn : TRUE
        drawing == screen[d] \cup {new} IN
    /\ open[d] /\ Undrawn # {} /\ Len(calls[d]) < MaxCalls[d]
    /\ screen' = [screen EXCEPT ![d] = drawing]
    /\ local' = [local EXCEPT ![d] = Dirty(drawing)]
    /\ calls' = [calls EXCEPT ![d] = Append(@, Call("push", Dirty(drawing)))]
    /\ drawn' = [drawn EXCEPT ![d] = @ \cup {new}]
    /\ drewSince' = [drewSince EXCEPT ![d] = TRUE]
    /\ hasty' = (hasty \/ ~ready[d])
    /\ UNCHANGED <<server, open, ready, lost>>

Init ==
    /\ server = [shapes |-> {}, at |-> 0]
    /\ local = [d \in Devices |-> None]
    /\ open = [d \in Devices |-> FALSE] /\ ready = [d \in Devices |-> FALSE]
    /\ screen = [d \in Devices |-> {}]
    /\ calls = [d \in Devices |-> <<>>]
    /\ drawn = [d \in Devices |-> {}] /\ drewSince = [d \in Devices |-> FALSE]
    /\ hasty = FALSE /\ lost = 0

Progress(d) ==
    \E i \in DOMAIN calls[d] :
        Fetch(d, i) \/ Decide(d, i) \/ Apply(d, i) \/ Saved(d, i) \/ SaveFails(d, i) \/ FetchFails(d, i)

Next == \E d \in Devices : Open(d) \/ Close(d) \/ Edit(d) \/ Progress(d)

Spec == Init /\ [][Next]_vars /\ \A d \in Devices : WF_vars(Progress(d))

(***************************************************************************)
(* Properties.                                                             *)
(***************************************************************************)
\* storage.js: "nothing is lost if the request fails".  While nobody is hasty,
\* what the only device that draws has drawn is on its screen and, once its
\* calls have ended, in its browser and on the server unless the copy is dirty.
EditsSurvive ==
    ~hasty =>
        \A d \in Devices : drawn[d] = AllDrawn /\ drawn[d] # {} =>
            /\ open[d] /\ ready[d] => drawn[d] \subseteq screen[d]
            /\ calls[d] = <<>> =>
                 /\ drawn[d] \subseteq local[d].shapes
                 /\ local[d].dirty \/ drawn[d] \subseteq server.shapes

\* storage.js: a stale cache does not clobber another device's drawing.  A
\* browser whose copy was clean when the chart opened pushes only what was
\* drawn on it since, whatever the other one does meanwhile.
CleanCacheNeverPushes ==
    \A d \in Devices : ~drewSince[d] => \A i \in DOMAIN calls[d] : calls[d][i].step \in {"get", "got"}

\* Browsers whose charts are opened again and again come to agree with the
\* server, whatever order the calls ended in and whichever were lost.
DevicesConverge ==
    (\A d \in Devices : []<><<Open(d)>>_vars) =>
        <>[](\A d \in Devices :
                local[d] # None => ~local[d].dirty /\ local[d].shapes = server.shapes)
=============================================================================
