------------------------- MODULE SplitRoutingProofs -------------------------
(***************************************************************************)
(* Proofs about SplitRouting and AddressPool, for an address space of any  *)
(* size, any block sizes, any lists of CIDRs and any addresses in use.     *)
(***************************************************************************)
EXTENDS MCSplitRouting, WellFoundedInduction, TLAPS

In(r, a) == r.start <= a /\ a <= r.end

\* Pending addresses: those the loop of rangeToCIDRs has still to cut.
Put(a) == \E b \in blocks : Covers(b, a)
Pending(a) == from <= a /\ a <= to

Ordered ==
  /\ \A i \in DOMAIN ranges : ranges[i].start <= ranges[i].end
  /\ pc # "parse" =>
       \A i, j \in DOMAIN ranges : i < j => ranges[i].start <= ranges[j].start

RangesAreExcluded ==
  \A a \in Addresses : a \in excluded <=> \E i \in DOMAIN ranges : In(ranges[i], a)

NothingPut == pc \in {"parse", "merge"} => blocks = {} /\ cursor = 0 /\ from = 1 /\ to = 0

Started == pc = "merge" => k >= 2 /\ (ranges = <<>> <=> merged = <<>>)

\* Ranges before the index k are merged, and none that follows starts earlier.
MergedSoFar ==
  pc = "merge" =>
    /\ \A a \in Addresses :
         (\E m \in DOMAIN merged : In(merged[m], a))
           <=> \E i \in DOMAIN ranges : i < k /\ In(ranges[i], a)
    /\ \A m \in DOMAIN merged : \A i \in DOMAIN ranges :
         i >= k => merged[m].start <= ranges[i].start

\* Merged ranges are in order and do not touch, up to one that ends at the top.
Apart ==
  /\ \A m \in DOMAIN merged : merged[m].start <= merged[m].end
  /\ \A m, n \in DOMAIN merged : m < n =>
       /\ merged[m].start <= merged[n].start
       /\ merged[m].end = Top \/ merged[m].end + 1 < merged[n].start

MergedIsExcluded ==
  pc \in {"gaps", "last"} =>
    \A a \in Addresses : a \in excluded <=> \E m \in DOMAIN merged : In(merged[m], a)

\* The cursor is behind the ranges before the index k and not beyond the others.
CursorBetween ==
  pc = "gaps" =>
    /\ k \in 1 .. Len(merged) + 1
    /\ \A m \in DOMAIN merged : IF m < k THEN merged[m].end < cursor
                                         ELSE cursor <= merged[m].start

CutSoFar ==
  /\ pc = "gaps" => \A a \in Addresses :
       (Put(a) \/ Pending(a)) <=> (a < cursor /\ a \notin excluded)
  /\ pc = "last" => \A a \in Addresses : (Put(a) \/ Pending(a)) <=> a \notin excluded

\* Blocks end before the addresses that are cut next.
BlocksBehind ==
  /\ from <= to => \A b \in blocks : b.start + b.size <= from
  /\ pc = "gaps" =>
       /\ \A b \in blocks : b.start + b.size <= cursor
       /\ from <= to => to < cursor

Inv ==
  /\ TypeOK /\ Started /\ Ordered /\ RangesAreExcluded /\ NothingPut /\ MergedSoFar /\ Apart
  /\ MergedIsExcluded /\ CursorBetween /\ CutSoFar

-----------------------------------------------------------------------------
\* The conversions and helpers stay in the address space.
LEMMA CidrRangeExact ==
  ASSUME NEW a \in Addresses, NEW size \in Sizes, IsNetwork(a, size)
  PROVE  CidrRange(a, size) = [start |-> a, end |-> a + size - 1]
         /\ a + size - 1 \in Addresses /\ size \in Nat /\ size >= 1
BY AddressAssumption, RoutingAssumption DEF CidrRange, Wrap, IsNetwork, Addresses, Top

LEMMA TypeNext ==
  ASSUME TypeOK, Started, [Next]_vars
  PROVE  TypeOK' /\ Started'
<1> USE DEF TypeOK, Started
<1>1. ASSUME NEW a \in Addresses, NEW size \in Sizes, Add(a, size) PROVE TypeOK' /\ Started'
  <2>1. CidrRange(a, size) \in Range /\ a .. a + size - 1 \subseteq Addresses
    <3>1. /\ CidrRange(a, size) = [start |-> a, end |-> a + size - 1]
          /\ a + size - 1 \in Addresses
      BY <1>1, CidrRangeExact DEF Add
    <3>2. a .. a + size - 1 \subseteq Addresses
      BY <3>1, AddressAssumption, RoutingAssumption DEF Addresses, Top
    <3> QED BY <3>1, <3>2 DEF Range
  <2>2. ranges' \in Seq(Range)
    BY <1>1, <2>1 DEF Add
  <2> QED BY <1>1, <2>1, <2>2 DEF Add
<1>2. ASSUME Sort PROVE TypeOK' /\ Started'
  <2>1. ranges' \in Seq(Range) /\ DOMAIN ranges' = DOMAIN ranges
    <3>1. PICK p \in [DOMAIN ranges -> DOMAIN ranges] :
                 ranges' = [i \in DOMAIN ranges |-> ranges[p[i]]]
      BY <1>2 DEF Sort
    <3>2. DOMAIN ranges = 1 .. Len(ranges) /\ Len(ranges) \in Nat
      OBVIOUS
    <3>3. \A i \in DOMAIN ranges : ranges[p[i]] \in Range
      OBVIOUS
    <3> QED BY <3>1, <3>2, <3>3
  <2>2. merged' \in Seq(Range) /\ (ranges' = <<>> <=> merged' = <<>>)
    <3>1. CASE ranges = <<>>
      BY <1>2, <2>1, <3>1 DEF Sort
    <3>2. CASE ranges # <<>>
      <4>1. ranges'[1] \in Range /\ ranges' # <<>>
        BY <2>1, <3>2
      <4> QED BY <1>2, <3>2, <4>1 DEF Sort
    <3> QED BY <3>1, <3>2
  <2> QED BY <1>2, <2>1, <2>2 DEF Sort
<1>3. ASSUME MergeNext PROVE TypeOK' /\ Started'
  <2>1. /\ Len(merged) \in DOMAIN merged
        /\ merged[Len(merged)] \in Range
        /\ ranges[k] \in Range
    BY <1>3 DEF MergeNext
  <2>2. Absorb(merged[Len(merged)], ranges[k]) \in Range
    BY <2>1 DEF Absorb, Range
  <2>3. merged' \in Seq(Range) /\ merged' # <<>>
    BY <1>3, <2>1, <2>2 DEF MergeNext
  <2> QED BY <1>3, <2>3 DEF MergeNext
<1>4. CASE MergeEnds
  BY <1>4 DEF MergeEnds
<1>5. ASSUME Gap PROVE TypeOK' /\ Started'
  <2>1. merged[k] \in Range
    BY <1>5 DEF Gap
  <2>2. merged[k].start \in Addresses /\ merged[k].end \in Addresses
    BY <2>1 DEF Range
  <2>3. /\ merged[k].start > cursor => merged[k].start - 1 \in Addresses
        /\ merged[k].end # Top => merged[k].end + 1 \in Addresses
        /\ Addresses \subseteq 0 .. Whole
    <3>1. merged[k].start \in Int /\ merged[k].end \in Int /\ cursor \in Int /\ Whole \in Int
      BY <2>2, AddressAssumption DEF Addresses, Top
    <3>2. /\ 0 <= cursor /\ 0 <= merged[k].start /\ merged[k].start <= Whole - 1
          /\ 0 <= merged[k].end /\ merged[k].end <= Whole - 1
      BY <2>2 DEF Addresses, Top
    <3> HIDE DEF TypeOK, Started
    <3>3. merged[k].start > cursor => merged[k].start - 1 \in Addresses
      BY <3>1, <3>2 DEF Addresses, Top
    <3>4. merged[k].end # Top => merged[k].end + 1 \in Addresses
      BY <3>1, <3>2 DEF Addresses, Top
    <3>5. Addresses \subseteq 0 .. Whole
      BY <3>1 DEF Addresses, Top
    <3> QED BY <3>3, <3>4, <3>5
  <2>4. from' \in 0 .. Whole /\ to' \in Addresses /\ cursor' \in Addresses
    BY <1>5, <2>2, <2>3 DEF Gap
  <2> QED BY <1>5, <2>4 DEF Gap
<1>6. CASE LastGap
  BY <1>6, AddressAssumption, RoutingAssumption DEF LastGap, Addresses, Top
<1>7. ASSUME NEW size \in Sizes, CutBlock(size) PROVE TypeOK' /\ Started'
  <2>1. size \in Nat /\ size >= 1 /\ from \in Addresses /\ from + size \in 0 .. Whole
    BY <1>7, AddressAssumption, RoutingAssumption DEF CutBlock, Fits, Addresses, Top
  <2> QED BY <1>7, <2>1 DEF CutBlock
<1>8. CASE UNCHANGED vars
  BY <1>8 DEF vars
<1> QED BY <1>1, <1>2, <1>3, <1>4, <1>5, <1>6, <1>7, <1>8 DEF Next, Compute, Finished

\* Every variable keeps its type (the uint32 arithmetic of routing.go).
THEOREM TypeCorrect == Spec => []TypeOK
<1>1. Init => TypeOK /\ Started
  BY AddressAssumption, RoutingAssumption DEF Init, TypeOK, Started, Addresses, Top
<1>2. TypeOK /\ Started /\ [Next]_vars => (TypeOK /\ Started)'
  BY TypeNext
<1> QED BY <1>1, <1>2, PTL DEF Spec

-----------------------------------------------------------------------------
(* The steps, one lemma for each.                                           *)

LEMMA Numbers ==
  ASSUME TypeOK
  PROVE  /\ \A i \in DOMAIN ranges : ranges[i].start \in Addresses /\ ranges[i].end \in Addresses
         /\ \A m \in DOMAIN merged : merged[m].start \in Addresses /\ merged[m].end \in Addresses
         /\ DOMAIN ranges = 1 .. Len(ranges) /\ Len(ranges) \in Nat
         /\ DOMAIN merged = 1 .. Len(merged) /\ Len(merged) \in Nat
         /\ Addresses \subseteq Int /\ Top \in Int
<1>1. ASSUME NEW s \in Seq(Range)
      PROVE  /\ \A i \in DOMAIN s : s[i].start \in Addresses /\ s[i].end \in Addresses
             /\ DOMAIN s = 1 .. Len(s) /\ Len(s) \in Nat
  <2>1. ASSUME NEW i \in DOMAIN s PROVE s[i].start \in Addresses /\ s[i].end \in Addresses
    <3>1. s[i] \in Range
      OBVIOUS
    <3> QED BY <3>1 DEF Range
  <2> QED BY <2>1
<1>2. Addresses \subseteq Int /\ Top \in Int
  BY AddressAssumption, RoutingAssumption DEF Addresses, Top
<1> QED BY <1>1, <1>2 DEF TypeOK

LEMMA AddKeeps ==
  ASSUME Inv, NEW a \in Addresses, NEW size \in Sizes, Add(a, size)
  PROVE  Ordered' /\ RangesAreExcluded' /\ NothingPut' /\ MergedSoFar' /\ Apart'
         /\ MergedIsExcluded' /\ CursorBetween' /\ CutSoFar'
<1> DEFINE new == [start |-> a, end |-> a + size - 1]
<1>1. /\ ranges' = Append(ranges, new)
      /\ a + size - 1 \in Addresses /\ size \in Nat /\ size >= 1 /\ a \in Int
  BY CidrRangeExact, Numbers DEF Add, Inv
<1>2. /\ DOMAIN ranges' = DOMAIN ranges \cup {Len(ranges) + 1}
      /\ \A i \in DOMAIN ranges : ranges'[i] = ranges[i]
      /\ ranges'[Len(ranges) + 1] = new
  <2>1. ranges \in Seq(Range) /\ Len(ranges) \in Nat /\ DOMAIN ranges = 1 .. Len(ranges)
    BY Numbers DEF Inv, TypeOK
  <2>2. Len(ranges') = Len(ranges) + 1 /\ DOMAIN ranges' = 1 .. Len(ranges) + 1
    BY <1>1, <2>1
  <2> QED BY <1>1, <2>1, <2>2
<1>3. Ordered'
  BY <1>1, <1>2 DEF Add, Inv, Ordered
<1>4. RangesAreExcluded'
  <2> SUFFICES ASSUME NEW b \in Addresses
               PROVE  b \in excluded' <=> \E i \in DOMAIN ranges' : In(ranges'[i], b)
    BY DEF RangesAreExcluded, In
  <2>1. b \in excluded' <=> b \in excluded \/ In(new, b)
    BY <1>1, Numbers DEF Add, In, Inv
  <2>2. b \in excluded <=> \E i \in DOMAIN ranges : In(ranges[i], b)
    BY DEF Inv, RangesAreExcluded
  <2>3. (\E i \in DOMAIN ranges' : In(ranges'[i], b))
          <=> (\E i \in DOMAIN ranges : In(ranges[i], b)) \/ In(new, b)
    <3> HIDE DEF new, In
    <3> QED BY <1>2
  <2> QED BY <2>1, <2>2, <2>3
<1> QED BY <1>3, <1>4 DEF Add, Inv, NothingPut, MergedSoFar, Apart, MergedIsExcluded,
                          CursorBetween, CutSoFar, In, Put, Covers, Pending

LEMMA SortKeeps ==
  ASSUME Inv, Sort
  PROVE  Ordered' /\ RangesAreExcluded' /\ NothingPut' /\ MergedSoFar' /\ Apart'
         /\ MergedIsExcluded' /\ CursorBetween' /\ CutSoFar'
<1>1. PICK p \in [DOMAIN ranges -> DOMAIN ranges] :
             /\ \A j \in DOMAIN ranges : \E i \in DOMAIN ranges : p[i] = j
             /\ \A i, j \in DOMAIN ranges : i < j => ranges[p[i]].start <= ranges[p[j]].start
             /\ ranges' = [i \in DOMAIN ranges |-> ranges[p[i]]]
  BY DEF Sort
<1>2. DOMAIN ranges' = DOMAIN ranges /\ \A i \in DOMAIN ranges : ranges'[i] = ranges[p[i]]
  BY <1>1
<1>3. Ordered'
  BY <1>1, <1>2 DEF Inv, Ordered
<1>4. RangesAreExcluded'
  <2> SUFFICES ASSUME NEW b \in Addresses
               PROVE  (\E i \in DOMAIN ranges : In(ranges[i], b))
                        <=> (\E i \in DOMAIN ranges' : In(ranges'[i], b))
    BY DEF Inv, RangesAreExcluded, In, Sort
  <2> QED BY <1>1, <1>2 DEF In
<1>5. Apart' /\ MergedSoFar'
  <2>1. CASE ranges = <<>>
    <3>1. merged' = <<>> /\ DOMAIN merged' = {} /\ DOMAIN ranges' = {}
      BY <1>2, <2>1 DEF Sort
    <3> QED BY <3>1 DEF Apart, MergedSoFar
  <2>2. CASE ranges # <<>>
    <3>1. 1 \in DOMAIN ranges /\ DOMAIN ranges = 1 .. Len(ranges) /\ Len(ranges) \in Nat
      BY <2>2, Numbers DEF Inv, TypeOK
    <3>2. merged' = <<ranges'[1]>> /\ DOMAIN merged' = {1} /\ merged'[1] = ranges'[1]
      BY <2>2 DEF Sort
    <3>3. \A i \in DOMAIN ranges' : ranges'[1].start <= ranges'[i].start
      <4>1. ranges'[1].start \in Int
        <5>1. p[1] \in DOMAIN ranges
          BY <3>1
        <5>2. ranges[p[1]].start \in Int
          BY <5>1, Numbers DEF Inv
        <5> QED BY <1>2, <3>1, <5>2
      <4>2. ASSUME NEW i \in DOMAIN ranges, i # 1
            PROVE  ranges'[1].start <= ranges'[i].start
        <5>1. 1 < i
          BY <3>1, <4>2
        <5>2. ranges[p[1]].start <= ranges[p[i]].start
          BY <1>1, <3>1, <5>1
        <5> QED BY <1>2, <3>1, <5>2
      <4> QED BY <1>2, <4>1, <4>2
    <3>4. Apart'
      BY <1>3, <1>2, <3>1, <3>2 DEF Apart, Ordered
    <3>5. \A i \in DOMAIN ranges' : i < k' <=> i = 1
      BY <1>2, <3>1 DEF Sort
    <3>6. MergedSoFar'
      BY <1>2, <3>1, <3>2, <3>3, <3>5 DEF MergedSoFar, In
    <3> QED BY <3>4, <3>6
  <2> QED BY <2>1, <2>2
<1> QED BY <1>3, <1>4, <1>5 DEF Sort, Inv, NothingPut, MergedIsExcluded, CursorBetween, CutSoFar

LEMMA MergeNextKeeps ==
  ASSUME Inv, MergeNext
  PROVE  Ordered' /\ RangesAreExcluded' /\ NothingPut' /\ MergedSoFar' /\ Apart'
         /\ MergedIsExcluded' /\ CursorBetween' /\ CutSoFar'
<1> DEFINE n == Len(merged)
           last == merged[n]
           r == ranges[k]
<1>1. /\ DOMAIN ranges = 1 .. Len(ranges) /\ Len(ranges) \in Nat
      /\ DOMAIN merged = 1 .. n /\ n \in Nat /\ n \in DOMAIN merged
      /\ merged \in Seq(Range) /\ r \in Range /\ last \in Range
      /\ k \in DOMAIN ranges /\ k \in Nat
  BY Numbers DEF Inv, TypeOK, Started, MergeNext
<1>2. /\ last.start \in Int /\ last.end \in Int /\ r.start \in Int /\ r.end \in Int
      /\ last.end <= Top /\ last.end >= 0 /\ Top \in Int
  BY <1>1, AddressAssumption, RoutingAssumption DEF Range, Addresses, Top
<1>3. /\ last.start <= r.start /\ last.start <= last.end /\ r.start <= r.end
      /\ \A m \in DOMAIN merged : merged[m].start <= r.start
  BY <1>1 DEF Inv, Apart, Ordered, MergedSoFar, MergeNext
<1>4. Joins(last, r) <=> last.end # Top /\ r.start <= last.end + 1
  BY <1>2, AddressAssumption, RoutingAssumption DEF Joins, Wrap, Top
<1>5. ASSUME \A a \in Addresses :
               (\E m \in DOMAIN merged' : In(merged'[m], a))
                 <=> (\E m \in DOMAIN merged : In(merged[m], a)) \/ In(r, a),
             \A m \in DOMAIN merged' : merged'[m].start \in Int /\ merged'[m].start <= r.start
      PROVE  MergedSoFar'
  <2>1. ranges' = ranges /\ k' = k + 1 /\ pc' = pc /\ pc = "merge"
    BY DEF MergeNext
  <2>2. ASSUME NEW a \in Addresses
        PROVE  (\E i \in DOMAIN ranges : i < k + 1 /\ In(ranges[i], a))
                 <=> (\E i \in DOMAIN ranges : i < k /\ In(ranges[i], a)) \/ In(r, a)
    <3> HIDE DEF In
    <3>1. \A i \in DOMAIN ranges : i < k + 1 <=> i < k \/ i = k
      BY <1>1
    <3> QED BY <1>1, <3>1
  <2>3. \A a \in Addresses :
          (\E m \in DOMAIN merged : In(merged[m], a))
            <=> \E i \in DOMAIN ranges : i < k /\ In(ranges[i], a)
    BY <2>1 DEF Inv, MergedSoFar
  <2>4. ASSUME NEW m \in DOMAIN merged', NEW i \in DOMAIN ranges, i >= k + 1
        PROVE  merged'[m].start <= ranges[i].start
    <3>1. r.start <= ranges[i].start /\ ranges[i].start \in Int
      <4>1. k < i
        BY <1>1, <2>4
      <4>2. ranges[k].start <= ranges[i].start
        BY <1>1, <2>1, <4>1 DEF Inv, Ordered
      <4> QED BY <4>2, Numbers DEF Inv
    <3> QED BY <1>2, <1>5, <3>1
  <2> QED BY <1>5, <2>1, <2>2, <2>3, <2>4 DEF MergedSoFar, In
<1>6. ASSUME Joins(last, r) PROVE Apart' /\ MergedSoFar'
  <2> DEFINE new == Absorb(last, r)
  <2>1. /\ new.start = last.start /\ new.end \in Int
        /\ \A a \in Int : In(new, a) <=> In(last, a) \/ In(r, a)
        /\ last.end <= new.end
    <3>1. new.start = last.start /\ new.end = IF r.end > last.end THEN r.end ELSE last.end
      BY <1>1 DEF Absorb, Range
    <3> QED BY <3>1, <1>2, <1>3, <1>4, <1>6 DEF In
  <2>2. merged' = [merged EXCEPT ![n] = new]
    BY <1>6 DEF MergeNext
  <2>3. /\ DOMAIN merged' = DOMAIN merged /\ merged'[n] = new
        /\ \A m \in DOMAIN merged : m # n => merged'[m] = merged[m]
    BY <1>1, <2>2
  <2> HIDE DEF new, last, r
  <2>4. Apart'
    <3>1. \A m \in DOMAIN merged' : merged'[m].start = merged[m].start
      BY <2>1, <2>3 DEF last
    <3>2. \A m, l \in DOMAIN merged' : m < l => m # n
      BY <1>1, <2>3
    <3>3. \A m \in DOMAIN merged' : merged'[m].start <= merged'[m].end
      BY <1>2, <1>3, <2>1, <2>3 DEF Inv, Apart
    <3> QED BY <2>3, <3>1, <3>2, <3>3 DEF Inv, Apart
  <2>5. MergedSoFar'
    <3>1. ASSUME NEW a \in Addresses
          PROVE  (\E m \in DOMAIN merged' : In(merged'[m], a))
                   <=> (\E m \in DOMAIN merged : In(merged[m], a)) \/ In(r, a)
      <4>1. a \in Int
        BY Numbers DEF Inv
      <4> HIDE DEF In
      <4> QED BY <1>1, <2>1, <2>3, <4>1 DEF last
    <3>2. \A m \in DOMAIN merged' : merged'[m].start \in Int /\ merged'[m].start <= r.start
      BY <1>3, <2>1, <2>3, Numbers DEF Inv, last, r
    <3> QED BY <1>5, <3>1, <3>2 DEF r
  <2> QED BY <2>4, <2>5
<1>7. ASSUME ~Joins(last, r) PROVE Apart' /\ MergedSoFar'
  <2>1. merged' = Append(merged, r)
    BY <1>7 DEF MergeNext
  <2>2. /\ DOMAIN merged' = DOMAIN merged \cup {n + 1} /\ n + 1 \notin DOMAIN merged
        /\ merged'[n + 1] = r
        /\ \A m \in DOMAIN merged : merged'[m] = merged[m]
    BY <1>1, <2>1
  <2> HIDE DEF last, r
  <2>3. Apart'
    <3>1. \A m \in DOMAIN merged : merged[m].start <= r.start
                                  /\ (merged[m].end = Top \/ merged[m].end + 1 < r.start)
      <4> SUFFICES ASSUME NEW m \in DOMAIN merged
                   PROVE  merged[m].end = Top \/ merged[m].end + 1 < r.start
        BY <1>3
      <4>1. CASE m = n
        BY <1>2, <1>4, <1>7, <4>1 DEF last
      <4>2. CASE m # n
        <5>1. m < n /\ n \in DOMAIN merged
          BY <1>1, <4>2
        <5>2. merged[m].end = Top \/ merged[m].end + 1 < last.start
          BY <5>1 DEF Inv, Apart, last
        <5> QED BY <1>2, <1>3, <5>2, Numbers DEF Inv
      <4> QED BY <4>1, <4>2
    <3>2. \A m, l \in DOMAIN merged' : m < l => m \in DOMAIN merged
      BY <1>1, <2>2
    <3>3. \A m \in DOMAIN merged' : merged'[m].start <= merged'[m].end
      BY <1>3, <2>2 DEF Inv, Apart
    <3>4. ASSUME NEW m \in DOMAIN merged', NEW l \in DOMAIN merged', m < l
          PROVE  /\ merged'[m].start <= merged'[l].start
                 /\ merged'[m].end = Top \/ merged'[m].end + 1 < merged'[l].start
      <4>1. m \in DOMAIN merged
        BY <3>2, <3>4
      <4> QED BY <2>2, <3>1, <3>4, <4>1 DEF Inv, Apart
    <3> QED BY <3>3, <3>4 DEF Apart
  <2>4. MergedSoFar'
    <3>1. ASSUME NEW a \in Addresses
          PROVE  (\E m \in DOMAIN merged' : In(merged'[m], a))
                   <=> (\E m \in DOMAIN merged : In(merged[m], a)) \/ In(r, a)
      <4> HIDE DEF In
      <4> QED BY <2>2
    <3>2. \A m \in DOMAIN merged' : merged'[m].start \in Int /\ merged'[m].start <= r.start
      BY <1>2, <1>3, <2>2, Numbers DEF Inv
    <3> QED BY <1>5, <3>1, <3>2 DEF r
  <2> QED BY <2>3, <2>4
<1> QED BY <1>6, <1>7 DEF MergeNext, Inv, Ordered, RangesAreExcluded, NothingPut,
                          MergedIsExcluded, CursorBetween, CutSoFar, In

LEMMA MergeEndsKeeps ==
  ASSUME Inv, MergeEnds
  PROVE  Ordered' /\ RangesAreExcluded' /\ NothingPut' /\ MergedSoFar' /\ Apart'
         /\ MergedIsExcluded' /\ CursorBetween' /\ CutSoFar'
<1>1. /\ pc = "merge" /\ pc' = "gaps" /\ k' = 1 /\ k >= 2 /\ k \in Nat
      /\ k \notin DOMAIN ranges /\ DOMAIN ranges = 1 .. Len(ranges) /\ Len(ranges) \in Nat
      /\ UNCHANGED <<ranges, merged, cursor, from, to, blocks, excluded>>
  BY Numbers DEF MergeEnds, Inv, Started, TypeOK
<1>2. \A i \in DOMAIN ranges : i < k
  BY <1>1
<1>3. MergedIsExcluded'
  BY <1>1, <1>2 DEF Inv, MergedSoFar, RangesAreExcluded, MergedIsExcluded, In
<1>4. CursorBetween'
  <2>1. \A m \in DOMAIN merged : m \in Int /\ ~(m < 1) /\ 0 <= merged[m].start
    BY Numbers DEF Inv, Addresses
  <2>2. cursor = 0
    BY <1>1 DEF Inv, NothingPut
  <2>3. 1 \in 1 .. Len(merged) + 1
    BY Numbers DEF Inv
  <2> QED BY <1>1, <2>1, <2>2, <2>3 DEF CursorBetween
<1>5. CutSoFar'
  <2>1. blocks = {} /\ cursor = 0 /\ from = 1 /\ to = 0
    BY <1>1 DEF Inv, NothingPut
  <2>2. \A a \in Addresses : a \in Int /\ ~(a < 0)
    BY Numbers DEF Inv, Addresses
  <2> QED BY <1>1, <2>1, <2>2 DEF CutSoFar, Put, Pending
<1> QED BY <1>1, <1>3, <1>4, <1>5 DEF Inv, Ordered, RangesAreExcluded, NothingPut,
                                      MergedSoFar, Apart, In

LEMMA GapKeeps ==
  ASSUME Inv, Gap
  PROVE  Ordered' /\ RangesAreExcluded' /\ NothingPut' /\ MergedSoFar' /\ Apart'
         /\ MergedIsExcluded' /\ CursorBetween' /\ CutSoFar'
<1> DEFINE r == merged[k]
<1>1. /\ pc = "gaps" /\ pc' \in {"gaps", "last"} /\ from > to
      /\ k \in DOMAIN merged /\ DOMAIN merged = 1 .. Len(merged) /\ Len(merged) \in Nat
      /\ UNCHANGED <<ranges, merged, blocks, excluded>>
      /\ from \in Int /\ to \in Int /\ cursor \in Int /\ k \in Int
      /\ r.start \in Int /\ r.end \in Int /\ r.end <= Top /\ r.start <= r.end
  <2>1. from \in Int /\ to \in Int /\ cursor \in Int
    BY Numbers, AddressAssumption, RoutingAssumption DEF Inv, TypeOK
  <2> QED BY <2>1, Numbers DEF Gap, Inv, TypeOK, Apart, Addresses
<1>2. /\ cursor <= r.start
      /\ \A m \in DOMAIN merged : m < k => merged[m].end < cursor
      /\ \A m \in DOMAIN merged : k < m => r.start <= merged[m].start
      /\ r.end # Top => \A m \in DOMAIN merged : k < m => r.end + 1 < merged[m].start
  BY <1>1 DEF Inv, CursorBetween, Apart
<1>3. CursorBetween'
  <2>1. CASE r.end = Top
    BY <2>1, <1>1 DEF Gap, CursorBetween
  <2>2. CASE r.end # Top
    <3>1. k' = k + 1 /\ cursor' = r.end + 1 /\ pc' = "gaps" /\ merged' = merged
      BY <2>2, <1>1 DEF Gap
    <3>2. k + 1 \in 1 .. Len(merged) + 1
      BY <1>1
    <3>3. ASSUME NEW m \in DOMAIN merged
          PROVE  IF m < k + 1 THEN merged[m].end < r.end + 1 ELSE r.end + 1 <= merged[m].start
      <4> HIDE DEF r
      <4>1. m \in Int /\ merged[m].start \in Int /\ merged[m].end \in Int
        BY Numbers DEF Inv
      <4>2. CASE m < k
        BY <4>1, <4>2, <1>1, <1>2
      <4>3. CASE m = k
        BY <4>3, <1>1 DEF r
      <4>4. CASE k < m
        BY <4>1, <4>4, <1>1, <1>2, <2>2
      <4> QED BY <4>1, <4>2, <4>3, <4>4, <1>1
    <3> QED BY <3>1, <3>2, <3>3 DEF CursorBetween
  <2> QED BY <2>1, <2>2
<1>4. CutSoFar'
  <2>1. ASSUME NEW a \in Addresses PROVE Pending(a)' <=> cursor <= a /\ a < r.start
    <3>1. a \in Int
      BY Numbers DEF Inv
    <3>2. CASE r.start > cursor
      BY <1>1, <3>1, <3>2 DEF Gap, Pending
    <3>3. CASE ~(r.start > cursor)
      BY <1>1, <1>2, <3>1, <3>3 DEF Gap, Pending
    <3> QED BY <3>2, <3>3
  <2>2. ASSUME NEW a \in Addresses PROVE Put(a)' <=> a < cursor /\ a \notin excluded
    <3>1. a \in Int
      BY Numbers DEF Inv
    <3>2. Put(a)' <=> Put(a)
      BY <1>1 DEF Put
    <3>3. ~Pending(a)
      BY <1>1, <3>1 DEF Pending
    <3> QED BY <1>1, <3>2, <3>3 DEF Inv, CutSoFar
  <2>3. ASSUME NEW a \in Addresses, a <= r.end, cursor <= a
        PROVE  a \in excluded <=> r.start <= a
    <3>1. a \in Int /\ (a \in excluded <=> \E m \in DOMAIN merged : In(merged[m], a))
      BY <1>1, Numbers DEF Inv, MergedIsExcluded
    <3>2. ASSUME NEW m \in DOMAIN merged, In(merged[m], a) PROVE r.start <= a
      <4> HIDE DEF r
      <4>1. m \in Int /\ merged[m].start \in Int /\ merged[m].end \in Int
        BY Numbers DEF Inv
      <4>2. m = k \/ m < k \/ k < m
        BY <1>1, <4>1
      <4>3. CASE m < k
        BY <1>1, <1>2, <2>3, <3>1, <3>2, <4>1, <4>3 DEF In
      <4>4. CASE m = k
        BY <3>2, <4>4 DEF In, r
      <4>5. CASE k < m
        BY <1>1, <1>2, <3>1, <3>2, <4>1, <4>5 DEF In
      <4> QED BY <4>2, <4>3, <4>4, <4>5
    <3> QED BY <1>1, <2>3, <3>1, <3>2 DEF In
  <2>4. CASE r.end = Top
    <3>1. pc' = "last" /\ excluded' = excluded
      BY <2>4, <1>1 DEF Gap
    <3>2. \A a \in Addresses : a \in Int /\ a <= r.end
      BY <2>4, Numbers DEF Inv, Addresses
    <3> HIDE DEF r
    <3>3. ASSUME NEW a \in Addresses PROVE (Put(a) \/ Pending(a))' <=> a \notin excluded
      <4>1. CASE a < cursor
        BY <4>1, <1>1, <1>2, <2>1, <2>2, <3>2
      <4>2. CASE cursor <= a
        BY <4>2, <1>1, <2>1, <2>2, <2>3, <3>2
      <4> QED BY <4>1, <4>2, <1>1, <3>2
    <3> QED BY <3>1, <3>3 DEF CutSoFar, Put, Pending
  <2>5. CASE r.end # Top
    <3>1. cursor' = r.end + 1 /\ pc' = "gaps" /\ excluded' = excluded
      BY <2>5, <1>1 DEF Gap
    <3>2. \A a \in Addresses : a \in Int
      BY Numbers DEF Inv
    <3> HIDE DEF r
    <3>3. ASSUME NEW a \in Addresses
          PROVE  (Put(a) \/ Pending(a))' <=> a < r.end + 1 /\ a \notin excluded
      <4>1. CASE a < cursor
        BY <4>1, <1>1, <1>2, <2>1, <2>2, <3>2
      <4>2. CASE cursor <= a
        BY <4>2, <1>1, <2>1, <2>2, <2>3, <3>2
      <4> QED BY <4>1, <4>2, <1>1, <3>2
    <3> QED BY <3>1, <3>3 DEF CutSoFar, Put, Pending
  <2> QED BY <2>4, <2>5
<1> QED BY <1>1, <1>3, <1>4 DEF Inv, Ordered, RangesAreExcluded, NothingPut,
                                MergedSoFar, Apart, MergedIsExcluded, In

LEMMA LastGapKeeps ==
  ASSUME Inv, LastGap
  PROVE  Ordered' /\ RangesAreExcluded' /\ NothingPut' /\ MergedSoFar' /\ Apart'
         /\ MergedIsExcluded' /\ CursorBetween' /\ CutSoFar'
<1>1. /\ pc = "gaps" /\ pc' = "last" /\ from > to /\ from' = cursor /\ to' = Top
      /\ UNCHANGED <<ranges, merged, k, cursor, blocks, excluded>>
      /\ from \in Int /\ to \in Int /\ cursor \in Int
  BY Numbers, AddressAssumption, RoutingAssumption DEF LastGap, Inv, TypeOK
<1>2. \A m \in DOMAIN merged : merged[m].end \in Int /\ merged[m].end < cursor
  <2>1. k \in 1 .. Len(merged) + 1 /\ k \notin DOMAIN merged
    BY <1>1 DEF Inv, CursorBetween, LastGap
  <2>2. \A m \in DOMAIN merged : m < k
    BY <2>1, Numbers DEF Inv
  <2> QED BY <1>1, <2>2, Numbers DEF Inv, CursorBetween
<1>3. ASSUME NEW a \in Addresses PROVE (Put(a) \/ Pending(a))' <=> a \notin excluded
  <2>1. a \in Int /\ a <= Top
    BY Numbers DEF Inv, Addresses
  <2>2. Pending(a)' <=> cursor <= a
    BY <1>1, <2>1 DEF Pending
  <2>3. Put(a)' <=> a < cursor /\ a \notin excluded
    <3>1. ~Pending(a)
      BY <1>1, <2>1 DEF Pending
    <3> QED BY <1>1, <3>1 DEF Inv, CutSoFar, Put
  <2>4. cursor <= a => a \notin excluded
    BY <1>1, <1>2, <2>1, Numbers DEF Inv, MergedIsExcluded, In
  <2> QED BY <1>1, <2>1, <2>2, <2>3, <2>4
<1>4. CutSoFar'
  BY <1>1, <1>3 DEF CutSoFar, Put, Pending
<1> QED BY <1>1, <1>4 DEF Inv, Ordered, RangesAreExcluded, NothingPut, MergedSoFar, Apart,
                          MergedIsExcluded, CursorBetween, In

LEMMA CutBlockKeeps ==
  ASSUME Inv, NEW size \in Sizes, CutBlock(size)
  PROVE  Ordered' /\ RangesAreExcluded' /\ NothingPut' /\ MergedSoFar' /\ Apart'
         /\ MergedIsExcluded' /\ CursorBetween' /\ CutSoFar'
<1> DEFINE b == [start |-> from, size |-> size]
<1>1. /\ pc \in {"gaps", "last"} /\ blocks' = blocks \cup {b} /\ from' = from + size
      /\ UNCHANGED <<pc, ranges, merged, k, cursor, to, excluded>>
      /\ from \in Int /\ to \in Int /\ size \in Int /\ size >= 1
      /\ size <= to - from + 1
  BY Numbers, AddressAssumption, RoutingAssumption DEF CutBlock, Fits, Inv, TypeOK
<1>2. ASSUME NEW a \in Addresses PROVE (Put(a) \/ Pending(a))' <=> Put(a) \/ Pending(a)
  <2>1. a \in Int
    BY Numbers DEF Inv
  <2>2. Put(a)' <=> Put(a) \/ Covers(b, a)
    <3> HIDE DEF Covers, b
    <3> QED BY <1>1 DEF Put
  <2>3. Covers(b, a) <=> from <= a /\ a < from + size
    BY DEF Covers
  <2>4. Pending(a)' <=> from + size <= a /\ a <= to
    BY <1>1 DEF Pending
  <2> QED BY <1>1, <2>1, <2>2, <2>3, <2>4 DEF Pending
<1>3. CutSoFar'
  <2> HIDE DEF b
  <2> QED BY <1>1, <1>2 DEF Inv, CutSoFar
<1> QED BY <1>1, <1>3 DEF Inv, Ordered, RangesAreExcluded, NothingPut, MergedSoFar, Apart,
                          MergedIsExcluded, CursorBetween, In

LEMMA InvInit == Init => Inv
<1> SUFFICES ASSUME Init PROVE Inv
  OBVIOUS
<1>1. TypeOK /\ Started
  BY AddressAssumption, RoutingAssumption DEF Init, TypeOK, Started, Addresses, Top
<1>2. DOMAIN ranges = {} /\ DOMAIN merged = {}
  BY DEF Init
<1> QED BY <1>1, <1>2 DEF Init, Inv, Ordered, RangesAreExcluded, NothingPut, MergedSoFar, Apart,
                          MergedIsExcluded, CursorBetween, CutSoFar

LEMMA InvNext ==
  ASSUME Inv, [Next]_vars
  PROVE  Inv'
<1>1. TypeOK' /\ Started'
  BY TypeNext DEF Inv
<1>2. CASE UNCHANGED vars
  BY <1>2 DEF vars, Inv, TypeOK, Started, Ordered, RangesAreExcluded, NothingPut, MergedSoFar,
              Apart, MergedIsExcluded, CursorBetween, CutSoFar, In, Put, Pending
<1>3. CASE \E a \in Addresses, size \in Sizes : Add(a, size)
  BY <1>1, <1>3, AddKeeps DEF Inv
<1>4. CASE Sort
  BY <1>1, <1>4, SortKeeps DEF Inv
<1>5. CASE MergeNext
  BY <1>1, <1>5, MergeNextKeeps DEF Inv
<1>6. CASE MergeEnds
  BY <1>1, <1>6, MergeEndsKeeps DEF Inv
<1>7. CASE Gap
  BY <1>1, <1>7, GapKeeps DEF Inv
<1>8. CASE LastGap
  BY <1>1, <1>8, LastGapKeeps DEF Inv
<1>9. CASE \E size \in Sizes : CutBlock(size)
  BY <1>1, <1>9, CutBlockKeeps DEF Inv
<1> QED BY <1>2, <1>3, <1>4, <1>5, <1>6, <1>7, <1>8, <1>9 DEF Next, Compute, Finished

\* Whatever the lists of CIDRs, their order and their overlaps, the CIDRs that
\* split routing puts out contain exactly the addresses that none of the lists
\* contains (allowedIPsFor, in 32-bit arithmetic).
THEOREM ExactComplement == Spec => []TunnelsExactlyTheRest
<1>1. Inv => TunnelsExactlyTheRest
  <2> SUFFICES ASSUME Inv, Done, NEW a \in Addresses
               PROVE  (\E b \in blocks : Covers(b, a)) <=> a \notin excluded
    BY DEF TunnelsExactlyTheRest
  <2>1. ~Pending(a)
    <3>1. a \in Int /\ from \in Int /\ to \in Int
      BY Numbers, AddressAssumption, RoutingAssumption DEF Inv, TypeOK
    <3> QED BY <3>1 DEF Done, Pending
  <2> QED BY <2>1 DEF Inv, CutSoFar, Done, Put
<1> QED BY <1>1, InvInit, InvNext, PTL DEF Spec

-----------------------------------------------------------------------------
LEMMA BlocksNext ==
  ASSUME Inv, BlocksBehind, BlocksAreNetworks, [Next]_vars
  PROVE  BlocksBehind' /\ BlocksAreNetworks'
<1>1. ASSUME NEW b \in blocks
      PROVE  b.start \in Int /\ b.size \in Int /\ b.size >= 1
  <2>1. b \in [start : Addresses, size : Sizes]
    BY DEF Inv, TypeOK
  <2>2. b.start \in Addresses /\ b.size \in Sizes
    BY <2>1
  <2>3. b.start \in Int
    BY <2>2, Numbers DEF Inv
  <2>4. b.size \in Int /\ b.size >= 1
    <3>1. \A size \in Sizes : size \in Int /\ size >= 1
      BY AddressAssumption, RoutingAssumption
    <3> QED BY <2>2, <3>1
  <2> QED BY <2>3, <2>4
<1>2. from \in Int /\ to \in Int /\ cursor \in Int /\ to <= Top /\ from >= 0 /\ Top = Whole - 1
  BY Numbers, AddressAssumption, RoutingAssumption DEF Inv, TypeOK, Addresses, Top
<1>3. CASE UNCHANGED <<pc, cursor, from, to, blocks>>
  BY <1>3 DEF BlocksBehind, BlocksAreNetworks
<1>4. CASE pc \in {"parse", "merge"} /\ UNCHANGED <<cursor, from, to, blocks>>
  <2>1. blocks' = {} /\ cursor' = 0 /\ from' = 1 /\ to' = 0
    BY <1>4 DEF Inv, NothingPut
  <2> QED BY <2>1 DEF BlocksBehind, BlocksAreNetworks
<1>5. CASE Gap
  <2>1. /\ k \in DOMAIN merged /\ merged[k].start \in Int /\ merged[k].end \in Int
        /\ merged[k].start <= merged[k].end
    BY <1>5, Numbers DEF Gap, Inv, Apart
  <2>2. /\ pc = "gaps" /\ blocks' = blocks /\ from > to
        /\ \A b \in blocks : b.start + b.size <= cursor
    BY <1>5 DEF Gap, BlocksBehind
  <2>3. \/ from' = cursor /\ to' = merged[k].start - 1
        \/ from' = from /\ to' = to
    BY <1>5 DEF Gap
  <2>4. pc' = "gaps" => cursor' = merged[k].end + 1 /\ cursor <= merged[k].start
    BY <1>5, <2>1, <2>2 DEF Gap, Inv, CursorBetween
  <2>5. from' <= to' => \A b \in blocks : b.start + b.size <= from'
    BY <1>2, <2>2, <2>3
  <2>6. pc' = "gaps" => /\ \A b \in blocks : b.start + b.size <= cursor'
                        /\ from' <= to' => to' < cursor'
    BY <1>1, <1>2, <2>1, <2>2, <2>3, <2>4
  <2> QED BY <2>2, <2>5, <2>6 DEF BlocksBehind, BlocksAreNetworks
<1>6. CASE LastGap
  BY <1>6 DEF LastGap, BlocksBehind, BlocksAreNetworks
<1>7. ASSUME NEW size \in Sizes, CutBlock(size) PROVE BlocksBehind' /\ BlocksAreNetworks'
  <2> DEFINE new == [start |-> from, size |-> size]
  <2>1. /\ blocks' = blocks \cup {new} /\ from' = from + size /\ to' = to
        /\ cursor' = cursor /\ pc' = pc /\ from <= to
        /\ size \in Int /\ size >= 1 /\ size <= to - from + 1 /\ from % size = 0
    BY <1>7, AddressAssumption, RoutingAssumption DEF CutBlock, Fits
  <2>2. \A b \in blocks : b.start + b.size <= from
    BY <2>1 DEF BlocksBehind
  <2>3. new.start = from /\ new.size = size
    OBVIOUS
  <2>4. IsNetwork(new.start, new.size)
    BY <1>2, <2>1, <2>3, AddressAssumption, RoutingAssumption DEF IsNetwork
  <2> HIDE DEF new
  <2>5. BlocksAreNetworks'
    <3>1. \A b \in blocks' : IsNetwork(b.start, b.size)
      BY <2>1, <2>4 DEF BlocksAreNetworks
    <3>2. ASSUME NEW b \in blocks', NEW c \in blocks'
          PROVE  b = c \/ b.start + b.size <= c.start \/ c.start + c.size <= b.start
      BY <2>1, <2>2, <2>3 DEF BlocksAreNetworks
    <3> QED BY <3>1, <3>2 DEF BlocksAreNetworks, IsNetwork
  <2>6. BlocksBehind'
    <3>1. \A b \in blocks' : b.start + b.size <= from + size
      BY <1>1, <1>2, <2>1, <2>2, <2>3
    <3>2. pc = "gaps" => from + size <= cursor
      BY <1>2, <2>1 DEF BlocksBehind
    <3>3. \A b \in blocks' : b.start + b.size \in Int
      BY <1>1, <1>2, <2>1, <2>3
    <3> QED BY <1>2, <2>1, <3>1, <3>2, <3>3 DEF BlocksBehind
  <2> QED BY <2>5, <2>6
<1>8. ASSUME NEW a \in Addresses, NEW size \in Sizes, Add(a, size)
      PROVE  pc \in {"parse", "merge"} /\ UNCHANGED <<cursor, from, to, blocks>>
  BY <1>8 DEF Add
<1>9. Sort \/ MergeNext \/ MergeEnds
        => pc \in {"parse", "merge"} /\ UNCHANGED <<cursor, from, to, blocks>>
  BY DEF Sort, MergeNext, MergeEnds
<1> QED BY <1>3, <1>4, <1>5, <1>6, <1>7, <1>8, <1>9 DEF Next, Compute, Finished, vars

\* Each CIDR put out is a network and no two overlap, at every moment and for any
\* lists (rangeToCIDRs).
THEOREM NetworksOnly == Spec => []BlocksAreNetworks
<1>1. Init => Inv /\ BlocksBehind /\ BlocksAreNetworks
  BY InvInit DEF Init, BlocksBehind, BlocksAreNetworks
<1>2. Inv /\ BlocksBehind /\ BlocksAreNetworks /\ [Next]_vars
        => (Inv /\ BlocksBehind /\ BlocksAreNetworks)'
  BY InvNext, BlocksNext
<1> QED BY <1>1, <1>2, PTL DEF Spec

-----------------------------------------------------------------------------
(* The allocation of addresses.                                             *)

\* A nonempty set of naturals has a least element.
LEMMA Least ==
  ASSUME NEW S, S \subseteq Nat, S # {}
  PROVE  \E n \in S : \A m \in S : n <= m
<1>1. PICK n \in S : \A m \in S : <<m, n>> \notin OpToRel(<, Nat)
  BY NatLessThanWellFounded, WFMin, Zenon
<1>2. \A m \in S : ~(m < n)
  <2> SUFFICES ASSUME NEW m \in S, m < n PROVE FALSE
    OBVIOUS
  <2>1. <<m, n>> \in Nat \X Nat
    BY Zenon
  <2>2. <<m, n>> \in OpToRel(<, Nat)
    BY <2>1, Zenon DEF OpToRel
  <2> QED BY <1>1, <2>2, Zenon
<1> QED BY <1>2

\* The arithmetic of the loop: neither the wrap of the size nor that of its
\* decrement shifts a candidate, whatever the prefix length.
LEMMA OffsetsAreHosts ==
  ASSUME NEW network \in Addresses, NEW size \in Sizes, IsNetwork(network, size)
  PROVE  /\ \A offset \in Offsets(size) :
              /\ offset \in Nat
              /\ Wrap(network + offset) = network + offset
              /\ network + offset \in HostsOf(network, size)
         /\ \A a \in HostsOf(network, size) : a - network \in Offsets(size)
<1>1. size \in 1 .. Whole /\ network + size <= Whole /\ network \in 0 .. Whole - 1 /\ Whole \in Nat
  BY AddressAssumption DEF Addresses, Top, IsNetwork
<1>2. \A offset \in 2 .. Top : offset < Wrap(Wrap(size) - 1) <=> offset < size - 1
  BY <1>1 DEF Wrap, Top
<1>3. Offsets(size) = {offset \in 2 .. Top : offset < size - 1}
  BY <1>2 DEF Offsets
<1>4. \A offset \in Offsets(size) :
        /\ offset \in Nat
        /\ Wrap(network + offset) = network + offset
        /\ network + offset \in HostsOf(network, size)
  BY <1>1, <1>3 DEF Wrap, HostsOf, Addresses, Top
<1>5. \A a \in HostsOf(network, size) : a - network \in Offsets(size)
  BY <1>1, <1>3 DEF HostsOf, Addresses, Top
<1> QED BY <1>4, <1>5

\* For every set of used addresses, those outside the subnet included.
LEMMA PoolGives ==
  ASSUME NEW network \in Addresses, NEW size \in Sizes, IsNetwork(network, size), NEW used
  PROVE  GivesLowestFree(network, size, used)
<1> DEFINE free == HostsOf(network, size) \ used
           Open == FreeOffsets(network, size, used)
<1>1. \A offset \in Open : offset \in Nat /\ network + offset \in free
  BY OffsetsAreHosts DEF FreeOffsets
<1>2. \A a \in free : a - network \in Open
  <2> SUFFICES ASSUME NEW a \in free PROVE a - network \in Open
    OBVIOUS
  <2>1. a - network \in Offsets(size) /\ Wrap(network + (a - network)) = network + (a - network)
    BY OffsetsAreHosts
  <2>2. network + (a - network) = a
    BY AddressAssumption DEF HostsOf, Addresses, Top
  <2> QED BY <2>1, <2>2 DEF FreeOffsets
<1>3. CASE Exhausted(network, size, used)
  BY <1>2, <1>3 DEF Exhausted, GivesLowestFree
<1>4. CASE ~Exhausted(network, size, used)
  <2> DEFINE first == CHOOSE offset \in Open : \A other \in Open : offset <= other
  <2>1. Open # {} /\ Open \subseteq Nat
    BY <1>1, <1>4 DEF Exhausted
  <2>2. \E offset \in Open : \A other \in Open : offset <= other
    BY <2>1, Least
  <2>3. first \in Open /\ \A other \in Open : first <= other
    BY <2>2
  <2> HIDE DEF first
  <2>4. Wrap(network + first) = network + first
    BY <2>3, OffsetsAreHosts DEF FreeOffsets
  <2>5. Allocated(network, size, used) = network + first
    BY <2>4 DEF Allocated, first
  <2>6. \A a \in free : network + first <= a
    <3> SUFFICES ASSUME NEW a \in free PROVE network + first <= a
      OBVIOUS
    <3>1. first <= a - network
      BY <1>2, <2>3
    <3>2. first \in Nat /\ a \in Int /\ network \in Int
      BY <1>1, <2>3, AddressAssumption DEF HostsOf, Addresses, Top
    <3> QED BY <3>1, <3>2
  <2>7. network + first \in free
    BY <1>1, <2>3
  <2> QED BY <1>4, <2>5, <2>6, <2>7 DEF GivesLowestFree
<1> QED BY <1>3, <1>4

\* allocateWireGuardIP gives the lowest free host of the subnet, and fails only
\* when there is none, for every prefix length and every set of used addresses.
LEMMA PoolIsExact == LowestFreeHost
BY PoolGives DEF LowestFreeHost

\* The run asks AddressPool where the computation of SplitRouting begins: the
\* answer is exact there, whatever the address space (allocateWireGuardIP).
THEOREM LowestFreeAllocated == Spec => []AllocatesLowestFree
<1>1. AllocatesLowestFree
  BY PoolIsExact DEF AllocatesLowestFree
<1> QED BY <1>1, PTL
=============================================================================
