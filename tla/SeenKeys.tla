------------------------------ MODULE SeenKeys ------------------------------
(***************************************************************************)
(* seen.js of the extension, copied verbatim into the desktop shell: which *)
(* alerts of a page are new, and the first-in first-out memory of keys.    *)
(* An alert is its number in the order the backend raised it.              *)
(***************************************************************************)
EXTENDS Integers, SequencesExt

CONSTANTS PageSize,  \* rows GET /api/alerts answers with
          SeenCap    \* keys the memory keeps

ASSUME SeenKeysAssumption == PageSize \in Nat \ {0} /\ SeenCap \in Nat /\ SeenCap >= 3 * PageSize

\* The newest rows of a feed of n alerts, newest first.
PageOf(n) == [i \in 1..(IF n < PageSize THEN n ELSE PageSize) |-> n + 1 - i]

DiffNew(seen, page) == SelectSeq(page, LAMBDA key : \A i \in DOMAIN seen : seen[i] # key)

PushSeen(seen, page) ==
    LET kept   == SelectSeq(seen, LAMBDA key : \A i \in DOMAIN page : page[i] # key)
        merged == kept \o page
    IN  SubSeq(merged, IF Len(merged) > SeenCap THEN Len(merged) - SeenCap + 1 ELSE 1, Len(merged))
=============================================================================
