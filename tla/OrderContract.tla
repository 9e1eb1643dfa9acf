--------------------------- MODULE OrderContract ---------------------------
(***************************************************************************)
(* What execution.py promises of an order, whichever broker carries it: it *)
(* is placed once for a number of shares, its shares reach the ledger at   *)
(* most once, only while the order is open, and an order that is no longer *)
(* open never changes again.                                               *)
(***************************************************************************)
EXTENDS Integers

CONSTANTS Orders,      \* order ids
          Quantities   \* share counts an order may ask for

VARIABLES wanted,  \* shares each order asks for; 0 before it is placed
          booked,  \* shares of it the ledger has booked
          open     \* is it waiting for a fill?

vars == <<wanted, booked, open>>

Init ==
    /\ wanted = [o \in Orders |-> 0]
    /\ booked = [o \in Orders |-> 0]
    /\ open = [o \in Orders |-> FALSE]

Place(o, n) ==
    /\ wanted[o] = 0
    /\ wanted' = [wanted EXCEPT ![o] = n]
    /\ open' = [open EXCEPT ![o] = TRUE]
    /\ UNCHANGED booked

Fill(o, n) ==
    /\ open[o]
    /\ booked[o] + n <= wanted[o]
    /\ booked' = [booked EXCEPT ![o] = @ + n]
    /\ open' = [open EXCEPT ![o] = booked[o] + n < wanted[o]]
    /\ UNCHANGED wanted

Close(o) ==
    /\ open[o]
    /\ open' = [open EXCEPT ![o] = FALSE]
    /\ UNCHANGED <<wanted, booked>>

Next == \E o \in Orders :
    \/ \E n \in Quantities : Place(o, n) \/ Fill(o, n)
    \/ Close(o)

Spec == Init /\ [][Next]_vars
=============================================================================
