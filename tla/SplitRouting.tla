---------------------------- MODULE SplitRouting ----------------------------
(***************************************************************************)
(* The AllowedIPs of split routing (internal/vpn/routing.go): the CIDRs    *)
(* excluded from the tunnel become numeric ranges, are merged, and their   *)
(* complement is cut into aligned CIDRs, one loop iteration per step, in   *)
(* the 32-bit arithmetic of the code.                                      *)
(*                                                                         *)
(* sort.Slice is not stable, so any order that agrees with the starts may   *)
(* come out.                                                               *)
(***************************************************************************)
EXTENDS AddressSpace, Sequences

CONSTANTS
  MaxRanges  \* bound: CIDRs in the two lists

ASSUME RoutingAssumption == MaxRanges \in Nat

VARIABLES
  pc,        \* the function, or loop, that runs
  ranges,    \* excludedRanges: ranges, sorted in place by mergeRanges
  merged,    \* mergeRanges: merged
  k,         \* the index of the loop over ranges, then of the one over merged
  cursor,    \* computeComplement: cursor
  from, to,  \* rangeToCIDRs: start and end; from > to when its loop is over
  blocks,    \* the CIDRs put out
  excluded   \* history: the addresses of the CIDRs parsed

vars == <<pc, ranges, merged, k, cursor, from, to, blocks, excluded>>

Range == [start : Addresses, end : Addresses]

\* Type invariant; from may step one beyond the last address, where the code
\* leaves the loop instead.
TypeOK ==
  /\ pc \in {"parse", "merge", "gaps", "last"}
  /\ ranges \in Seq(Range) /\ merged \in Seq(Range)
  /\ k \in Nat
  /\ cursor \in Addresses /\ to \in Addresses
  /\ from \in 0 .. Whole
  /\ blocks \subseteq [start : Addresses, size : Sizes]
  /\ excluded \subseteq Addresses

Init ==
  /\ pc = "parse"
  /\ ranges = <<>> /\ merged = <<>> /\ k = 1
  /\ cursor = 0 /\ from = 1 /\ to = 0
  /\ blocks = {} /\ excluded = {}

----------------------------------------------------------------------------
\* A size of 2^32 is 0 in uint32; the subtraction brings it back.
CidrRange(a, size) == [start |-> a, end |-> Wrap(a + Wrap(size) - 1)]

\* excludedRanges: add.
Add(a, size) ==
  /\ pc = "parse" /\ Len(ranges) < MaxRanges
  /\ IsNetwork(a, size)
  /\ ranges' = Append(ranges, CidrRange(a, size))
  /\ excluded' = excluded \cup (a .. a + size - 1)
  /\ UNCHANGED <<pc, merged, k, cursor, from, to, blocks>>

\* mergeRanges: sort.Slice, and the first range.
Sort ==
  /\ pc = "parse" /\ pc' = "merge"
  /\ \E p \in [DOMAIN ranges -> DOMAIN ranges] :
       /\ \A j \in DOMAIN ranges : \E i \in DOMAIN ranges : p[i] = j
       /\ \A i, j \in DOMAIN ranges : i < j => ranges[p[i]].start <= ranges[p[j]].start
       /\ ranges' = [i \in DOMAIN ranges |-> ranges[p[i]]]
  /\ merged' = IF ranges = <<>> THEN <<>> ELSE <<ranges'[1]>>
  /\ k' = 2
  /\ UNCHANGED <<cursor, from, to, blocks, excluded>>

\* Whether a range continues the last one, which must not end at the top.
Joins(last, r) == r.start <= Wrap(last.end + 1) /\ last.end # Top

\* A mistake: the range that comes later is taken to end later.
Absorb_Later(last, r) == [last EXCEPT !.end = r.end]

Absorb(last, r) == IF r.end > last.end THEN [last EXCEPT !.end = r.end] ELSE last

MergeNext ==
  /\ pc = "merge" /\ k \in DOMAIN ranges
  /\ LET n == Len(merged) IN
       merged' = IF Joins(merged[n], ranges[k])
                 THEN [merged EXCEPT ![n] = Absorb(@, ranges[k])]
                 ELSE Append(merged, ranges[k])
  /\ k' = k + 1
  /\ UNCHANGED <<pc, ranges, cursor, from, to, blocks, excluded>>

MergeEnds ==
  /\ pc = "merge" /\ k \notin DOMAIN ranges
  /\ pc' = "gaps" /\ k' = 1
  /\ UNCHANGED <<ranges, merged, cursor, from, to, blocks, excluded>>

\* computeComplement, one iteration: the addresses before merged[k] are cut
\* next, and nothing follows a range that ends at the top.
Gap ==
  /\ pc = "gaps" /\ from > to /\ k \in DOMAIN merged
  /\ IF merged[k].start > cursor
     THEN from' = cursor /\ to' = merged[k].start - 1
     ELSE UNCHANGED <<from, to>>
  /\ IF merged[k].end = Top
     THEN pc' = "last" /\ UNCHANGED <<k, cursor>>
     ELSE k' = k + 1 /\ cursor' = merged[k].end + 1 /\ UNCHANGED pc
  /\ UNCHANGED <<ranges, merged, blocks, excluded>>

\* The addresses after the last range.
LastGap ==
  /\ pc = "gaps" /\ from > to /\ k \notin DOMAIN merged
  /\ from' = cursor /\ to' = Top
  /\ pc' = "last"
  /\ UNCHANGED <<ranges, merged, k, cursor, blocks, excluded>>

\* The blocks that may start at from.
Fits(size) == from % size = 0 /\ size <= to - from + 1

\* A mistake: the next start is computed in 32 bits.
CutBlock_Wraps(size) ==
  /\ pc \in {"gaps", "last"} /\ from <= to
  /\ Fits(size) /\ \A other \in Sizes : Fits(other) => other <= size
  /\ blocks' = blocks \cup {[start |-> from, size |-> size]}
  /\ from' = Wrap(from + size)
  /\ UNCHANGED <<pc, ranges, merged, k, cursor, to, excluded>>

\* rangeToCIDRs, one iteration: the largest block that is aligned and fits.
CutBlock(size) ==
  /\ pc \in {"gaps", "last"} /\ from <= to
  /\ Fits(size) /\ \A other \in Sizes : Fits(other) => other <= size
  /\ blocks' = blocks \cup {[start |-> from, size |-> size]}
  /\ from' = from + size
  /\ UNCHANGED <<pc, ranges, merged, k, cursor, to, excluded>>

----------------------------------------------------------------------------
Done == pc = "last" /\ from > to

\* A finished computation has nothing left to do.
Finished == Done /\ UNCHANGED vars

Compute == Sort \/ MergeNext \/ MergeEnds \/ Gap \/ LastGap \/ \E size \in Sizes : CutBlock(size)

Next ==
  \/ \E a \in Addresses, size \in Sizes : Add(a, size)
  \/ Compute
  \/ Finished

Spec == Init /\ [][Next]_vars

\* Nothing suspends the computation.
FairSpec == Spec /\ WF_vars(Compute)

----------------------------------------------------------------------------
(* Properties.                                                              *)

Covers(b, a) == b.start <= a /\ a < b.start + b.size

\* Split routing tunnels exactly the addresses that no CIDR of the lists
\* contains: no excluded address is lost at a border, a wrap or in a nested or
\* repeated CIDR, and no other one is left out (all of routing.go).
TunnelsExactlyTheRest ==
  Done => \A a \in Addresses : (\E b \in blocks : Covers(b, a)) <=> a \notin excluded

\* At every moment: each CIDR put out is a network, and no two overlap, so that
\* the text of AllowedIPs names the blocks meant (rangeToCIDRs' alignment).
BlocksAreNetworks ==
  /\ \A b \in blocks : IsNetwork(b.start, b.size)
  /\ \A b, c \in blocks : b = c \/ b.start + b.size <= c.start \/ c.start + c.size <= b.start

\* The computation ends, the last block at the top of the address space included
\* (the break of rangeToCIDRs; allowedIPsFor would hang in its sync.Once).
Terminates == <>Done
=============================================================================
