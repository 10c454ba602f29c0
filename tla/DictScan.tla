------------------------------ MODULE DictScan ------------------------------
(***************************************************************************)
(* dictScan(): a stateless iteration by a cursor whose bits are counted in *)
(* reverse, while other clients add, delete and resize between the calls.  *)
(***************************************************************************)
EXTENDS Dict, FiniteSetsExt

CONSTANT CursorBits     \* width of the unsigned long cursor

VARIABLES
    cursor,     \* the cursor the client holds
    scan,       \* "idle", "running" or "done"
    emitted,    \* keys passed to the callback since the cursor was 0
    stable,     \* keys present at every moment since then
    leapt       \* a call since then met tables too far apart, see Leaps

scanVars == <<vars, cursor, scan, emitted, stable, leapt>>

Word == 2^CursorBits

ASSUME CursorAssumption == CursorBits \in Nat \ {0} /\ \A s \in Sizes : s <= Word

-----------------------------------------------------------------------------
(* Masks are sizes minus one, so & and | with a mask are mod and plus. *)

rev(v) == MapThenSumSet(LAMBDA i : ((v \div 2^i) % 2) * 2^(CursorBits - 1 - i),
                        0..(CursorBits - 1))

\* v |= ~m0; v = rev(v); v++; v = rev(v)
NextCursor(v, size) == rev((rev((Word - size) + (v % size)) + 1) % Word)

\* The smaller and the larger table; outside a rehash there is only one.
Small(d) == IF dictIsRehashing(d) /\ d.ht[0].size > d.ht[1].size THEN d.ht[1] ELSE d.ht[0]
Large(d) == IF dictIsRehashing(d) /\ d.ht[0].size > d.ht[1].size THEN d.ht[0] ELSE d.ht[1]

\* How often the expansion loop runs: it adds the small size to v until the
\* bits between the two masks are zero again.
Expansions(d, v) ==
    IF dictIsRehashing(d)
    THEN (Large(d).size - (v % Large(d).size) + (v % Small(d).size)) \div Small(d).size
    ELSE 0

\* Mutant: the larger table is not visited.
Emit_SmallTableOnly(d, v) == Chain(Small(d), v)

Emit(d, v) ==
    Chain(Small(d), v) \cup
    UNION {Chain(Large(d), v + j * Small(d).size) : j \in 0..(Expansions(d, v) - 1)}

dictScan(d, v) ==
    IF dictSize(d) = 0 THEN 0
    ELSE NextCursor((v + Expansions(d, v) * Small(d).size) % Word, Small(d).size)

-----------------------------------------------------------------------------

ScanInit ==
    Init /\ cursor = 0 /\ scan = "idle" /\ emitted = {} /\ stable = {} /\ leapt = FALSE

ScanBegin ==
    /\ scan = "idle"
    /\ scan' = "running" /\ cursor' = 0
    /\ emitted' = {} /\ stable' = KeysOf(Contents(dict)) /\ leapt' = FALSE
    /\ UNCHANGED vars

\* A call in the middle of a rehash between tables that differ by two powers of
\* two or more, with a cursor that has bits between the two masks: the larger
\* table's buckets are visited upwards from the cursor, not in the order of the
\* reversed bits.
Leaps(d, v) ==
    /\ dictIsRehashing(d) /\ Large(d).size > 2 * Small(d).size
    /\ v % Large(d).size >= Small(d).size

\* What a call passes to the callback.
EmittedBy(d, v) == IF dictSize(d) = 0 THEN {} ELSE KeysOf(Emit(d, v))

\* One call of dictScan by the client; the scan ends when it returns 0.
ScanCall ==
    /\ scan = "running"
    /\ cursor' = dictScan(dict, cursor)
    /\ scan' = IF cursor' = 0 THEN "idle" ELSE "running"
    /\ leapt' = (scan' = "running" /\ (leapt \/ Leaps(dict, cursor)))
    /\ emitted' = IF leapt' \/ scan' = "idle" THEN {} ELSE emitted \cup EmittedBy(dict, cursor)
    /\ stable' = IF leapt' \/ scan' = "idle" THEN {} ELSE stable
    /\ UNCHANGED vars

\* Anything else that happens to the dict between two calls.  Iterations lie
\* within one event handler.
OtherClients ==
    /\ Next
    /\ dict'.iterators = 0
    /\ stable' = stable \cap KeysOf(Contents(dict'))
    /\ UNCHANGED <<cursor, scan, emitted, leapt>>

ScanNext == ScanBegin \/ ScanCall \/ OtherClients

ScanSpec == ScanInit /\ [][ScanNext]_scanVars

-----------------------------------------------------------------------------

\* dict.c:824: "The function guarantees all elements present in the dictionary
\* get returned between the start and end of the iteration", that is, when a scan
\* ends a key that was present at every moment of it has been emitted.  The
\* guarantee does not extend to scans with a call that Leaps.
ScanComplete ==
    [][scan = "running" /\ scan' = "idle" /\ ~leapt /\ ~Leaps(dict, cursor)
       => stable \subseteq emitted \cup EmittedBy(dict, cursor)]_scanVars
=============================================================================
