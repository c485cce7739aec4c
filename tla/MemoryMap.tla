----------------------------- MODULE MemoryMap -----------------------------
(***************************************************************************)
(* scripts/check_memory_map.py: which of a list of memory regions overlap. *)
(***************************************************************************)
EXTENDS Integers, Sequences, FiniteSets

CONSTANT RegionLists      \* lists of regions, each a start and a size

VARIABLES
    regions,      \* REGIONS, then sorted by address
    scan,         \* the two indices of the nested loops, 0 before they begin
    found,        \* the pairs that were printed
    exitStatus    \* -1 while the script runs

mapVars == <<regions, scan, found, exitStatus>>

MapStart(S) == /\ regions \in S /\ scan = [a |-> 0, b |-> 0]
               /\ found = {} /\ exitStatus = -1
MapInit == MapStart(RegionLists)

(* sorted(regions, key=start), which keeps the order of equal starts.      *)
SortRegions ==
    /\ scan.a = 0
    /\ LET n == Len(regions)
           Before(i, j) == \/ regions[i].start < regions[j].start
                           \/ regions[i].start = regions[j].start /\ i < j
       IN \E order \in [1 .. n -> 1 .. n] :
             /\ \A i, j \in 1 .. n : i < j => Before(order[i], order[j])
             /\ regions' = [i \in 1 .. n |-> regions[order[i]]]
    /\ scan' = [a |-> 1, b |-> 2]
    /\ UNCHANGED <<found, exitStatus>>

\* Mutant: regions that touch overlap.
CheckTouching ==
    /\ scan.a \in 1 .. Len(regions) /\ scan.b <= Len(regions)
    /\ found' = IF regions[scan.b].start <= regions[scan.a].start + regions[scan.a].size
                THEN found \cup {<<scan.a, scan.b>>} ELSE found
    /\ scan' = [scan EXCEPT !.b = @ + 1]
    /\ UNCHANGED <<regions, exitStatus>>

(* A pair of the nested loops of check_overlaps.                           *)
CheckPair ==
    /\ scan.a \in 1 .. Len(regions) /\ scan.b <= Len(regions)
    /\ found' = IF regions[scan.b].start < regions[scan.a].start + regions[scan.a].size
                THEN found \cup {<<scan.a, scan.b>>} ELSE found
    /\ scan' = [scan EXCEPT !.b = @ + 1]
    /\ UNCHANGED <<regions, exitStatus>>
NextRegion ==
    /\ scan.a \in 1 .. Len(regions) /\ scan.b > Len(regions)
    /\ scan' = [a |-> scan.a + 1, b |-> scan.a + 2]
    /\ UNCHANGED <<regions, found, exitStatus>>

(* main                                                                    *)
ExitWith ==
    /\ scan.a > Len(regions) /\ exitStatus = -1
    /\ exitStatus' = IF found = {} THEN 0 ELSE 1
    /\ UNCHANGED <<regions, scan, found>>

MapNext == SortRegions \/ CheckPair \/ NextRegion \/ ExitWith
MapSpec == MapInit /\ [][MapNext]_mapVars
----------------------------------------------------------------------------
(* Every two regions that share a byte are reported and no others, regions *)
(* that begin together, lie in one another or touch among them, and the    *)
(* script succeeds only if there are none.                                 *)
Shares(r, s) == \E byte \in r.start .. r.start + r.size - 1 :
                   s.start <= byte /\ byte < s.start + s.size
PairsReported ==
    exitStatus # -1 =>
        LET pairs == {p \in (1 .. Len(regions)) \X (1 .. Len(regions)) :
                        p[1] < p[2] /\ Shares(regions[p[1]], regions[p[2]])}
        IN found = pairs /\ (exitStatus = 0 <=> pairs = {})
============================================================================
