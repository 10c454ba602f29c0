------------------------------- MODULE MCDict -------------------------------
(***************************************************************************)
(* The dict for TLC: alone, under a safe iterator, or scanned by a client. *)
(***************************************************************************)
EXTENDS DictIter, DictScan

VARIABLE walk   \* how the dict is walked; never changes

allVars == <<walk, iterVars, scanVars>>

\* Keys are numbers so that the hash function can be written down: 1 and 9
\* collide in every table, 5 with both in the tables of up to four buckets.
MCHash == [k \in Keys |-> k % 8]

MCInit == walk \in {"none", "iterator", "scan"} /\ IterInit /\ ScanInit

MCNext ==
    /\ \/ walk = "none" /\ Next
             /\ UNCHANGED <<iter, returned, kept, cursor, scan, emitted, stable, leapt>>
       \/ walk = "iterator" /\ IterNext /\ UNCHANGED <<cursor, scan, emitted, stable, leapt>>
       \/ walk = "scan" /\ ScanNext /\ UNCHANGED <<iter, returned, kept>>
    /\ UNCHANGED walk

\* Values do not matter to a walk.
OneValue == walk # "none" => \A e \in Contents(dict) : e.val = CHOOSE v \in Vals : TRUE

MCSpec     == MCInit /\ [][MCNext /\ OneValue']_allVars
MCFairSpec == MCSpec /\ Fairness
=============================================================================
