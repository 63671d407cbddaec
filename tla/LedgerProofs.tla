----------------------------- MODULE LedgerProofs -----------------------------
(***************************************************************************)
(* Proofs about Ledger, for any charges of any users.                      *)
(***************************************************************************)
EXTENDS Ledger, WellFoundedInduction, TLAPS

\* A nonempty set of numbers below a bound has a greatest element.
LEMMA Greatest ==
  ASSUME NEW T \in SUBSET Nat, T # {}, NEW bound \in Nat, \A t \in T : t < bound
  PROVE  \E m \in T : \A t \in T : t <= m
<1> DEFINE below == {ss \in Nat \X Nat : ss[1] < ss[2]}
           D == {d \in Nat : \E t \in T : d = bound - t}
<1>1. IsWellFoundedOn(below, Nat)
  BY NatLessThanWellFounded DEF OpToRel
<1>2. D \subseteq Nat /\ D # {}
  <2>1. PICK t \in T : TRUE
    OBVIOUS
  <2>2. bound - t \in Nat
    BY <2>1
  <2> QED BY <2>1, <2>2
<1>3. PICK x \in D : \A y \in D : <<y, x>> \notin below
  <2> HIDE DEF below, D
  <2> QED BY <1>1, <1>2, WFMin
<1>4. PICK m \in T : x = bound - m
  BY <1>3
<1>5. ASSUME NEW t \in T PROVE t <= m
  <2>1. bound - t \in D
    BY <1>5
  <2>2. ~(bound - t < x)
    BY <1>3, <2>1
  <2> QED BY <1>4, <2>2
<1> QED BY <1>4, <1>5

LEMMA TypeNext ==
  ASSUME TypeOK, [Next]_vars
  PROVE  TypeOK'
<1>1. ASSUME NEW c \in Charges, Begin(c) PROVE TypeOK'
  BY <1>1 DEF Begin, TypeOK
<1>2. ASSUME NEW c \in Charges, ReadPrev(c) PROVE TypeOK'
  <2>1. PrevHash(c) \in Charges \cup {Genesis}
    BY DEF PrevHash, Newest, Entries
  <2> QED BY <1>2, <2>1 DEF ReadPrev, TypeOK
<1>3. ASSUME NEW c \in Charges, Commit(c) PROVE TypeOK'
  BY <1>3 DEF Commit, TypeOK
<1>4. ASSUME NEW c \in Charges, Rollback(c) PROVE TypeOK'
  BY <1>4 DEF Rollback, TypeOK
<1>5. CASE UNCHANGED vars
  BY <1>5 DEF vars, TypeOK
<1> QED BY <1>1, <1>2, <1>3, <1>4, <1>5 DEF Next

\* Every variable of Ledger keeps its type (the transactions of FinalizePaid).
THEOREM TypeCorrect == Spec => []TypeOK
<1>1. Init => TypeOK
  BY DEF Init, TypeOK
<1>2. TypeOK /\ [Next]_vars => TypeOK'
  BY TypeNext
<1> QED BY <1>1, <1>2, PTL DEF Spec

-------------------------------------------------------------------------------
(* The inductive invariant.  Whatever happens later, an entry keeps the     *)
(* predecessor that was newest at some moment t of its transaction: what    *)
(* commits afterwards has a later commit time.                              *)

Timing ==
  \A c \in Charges :
    /\ place[c] # "none" => began[c] < clock
    /\ place[c] = "done" => began[c] < committed[c] /\ committed[c] < clock

\* What a read at time t by the transaction of c sees.
Seen(c, t) == {e \in Entries : Account[e] = Account[c] /\ committed[e] < t}

AsOf(c, t) ==
  \/ prev[c] = Genesis /\ Seen(c, t) = {}
  \/ /\ prev[c] \in Seen(c, t)
     /\ \A e \in Seen(c, t) : began[e] <= began[prev[c]]

ReadAt(c, t) ==
  /\ began[c] < t /\ t <= clock
  /\ place[c] = "done" => t <= committed[c]
  /\ AsOf(c, t)

ChainedOnce ==
  \A c \in Charges : place[c] \in {"chained", "done"} => \E t \in Nat : ReadAt(c, t)

IInv == TypeOK /\ Timing /\ ChainedOnce

\* A step that only adds entries committed at t or later changes nothing as of t.
LEMMA AsOfKept ==
  ASSUME NEW c \in Charges, NEW t \in Nat, AsOf(c, t), prev'[c] = prev[c],
         Entries \subseteq Entries',
         \A e \in Entries : began'[e] = began[e] /\ committed'[e] = committed[e],
         \A e \in Entries' : e \notin Entries => ~(committed'[e] < t)
  PROVE  AsOf(c, t)'
<1>1. Seen(c, t)' = Seen(c, t)
  BY DEF Seen
<1>2. Seen(c, t) \subseteq Entries
  BY DEF Seen
<1> QED BY <1>1, <1>2 DEF AsOf

LEMMA TimingNext ==
  ASSUME IInv, [Next]_vars
  PROVE  Timing'
<1> USE DEF IInv, TypeOK, Timing
<1>1. ASSUME NEW c \in Charges, Begin(c) PROVE Timing'
  BY <1>1 DEF Begin
<1>2. ASSUME NEW c \in Charges, ReadPrev(c) PROVE Timing'
  BY <1>2 DEF ReadPrev
<1>3. ASSUME NEW c \in Charges, Commit(c) PROVE Timing'
  BY <1>3 DEF Commit
<1>4. ASSUME NEW c \in Charges, Rollback(c) PROVE Timing'
  BY <1>4 DEF Rollback
<1>5. CASE UNCHANGED vars
  BY <1>5 DEF vars
<1> QED BY <1>1, <1>2, <1>3, <1>4, <1>5 DEF Next

\* The read of the newest entry, at the present moment.
LEMMA ReadPrevAsOf ==
  ASSUME IInv, NEW c \in Charges, ReadPrev(c), NEW now \in Nat, now = clock
  PROVE  ReadAt(c, now)'
<1> DEFINE mine == Seen(c, now)
<1>1. /\ place' = [place EXCEPT ![c] = "chained"]
      /\ prev' = [prev EXCEPT ![c] = PrevHash(c)]
      /\ place[c] = "begun"
      /\ UNCHANGED <<clock, began, committed>>
  BY DEF ReadPrev
<1>2. Entries' = Entries
  BY <1>1 DEF Entries, IInv, TypeOK
<1>3. mine = {e \in Entries : Account[e] = Account[c]}
  BY DEF Seen, Entries, IInv, Timing
<1>4. Seen(c, now)' = mine
  BY <1>1, <1>2 DEF Seen
<1>5. prev'[c] = PrevHash(c)
  BY <1>1 DEF IInv, TypeOK
<1>6. CASE mine = {}
  <2>1. Newest(c) = {}
    BY <1>3, <1>6 DEF Newest
  <2>2. prev'[c] = Genesis
    BY <1>5, <2>1 DEF PrevHash
  <2> QED BY <1>1, <1>4, <1>6, <2>2 DEF ReadAt, AsOf, IInv, TypeOK, Timing
<1>7. CASE mine # {}
  <2> DEFINE T == {began[e] : e \in mine}
  <2>1. /\ T \in SUBSET Nat /\ T # {} /\ clock \in Nat
        /\ \A t \in T : t < clock
    BY <1>7 DEF Seen, Entries, IInv, TypeOK, Timing
  <2>2. PICK m \in T : \A t \in T : t <= m
    <3> HIDE DEF T
    <3> QED BY <2>1, Greatest
  <2>3. PICK e \in mine : began[e] = m
    BY <2>2
  <2>4. e \in Newest(c)
    BY <1>3, <2>2, <2>3 DEF Newest
  <2>5. prev'[c] \in Newest(c)
    BY <1>5, <2>4 DEF PrevHash
  <2>6. prev'[c] \in mine /\ \A f \in mine : began[f] <= began[prev'[c]]
    BY <1>3, <2>5 DEF Newest
  <2> QED BY <1>1, <1>4, <2>6 DEF ReadAt, AsOf, IInv, TypeOK, Timing
<1> QED BY <1>6, <1>7

LEMMA ChainedNext ==
  ASSUME IInv, [Next]_vars
  PROVE  ChainedOnce'
<1> USE DEF IInv, TypeOK
<1>0. SUFFICES ASSUME NEW c \in Charges, place'[c] \in {"chained", "done"}
               PROVE  \E t \in Nat : ReadAt(c, t)'
  BY DEF ChainedOnce
<1>1. ASSUME NEW d \in Charges, Begin(d) PROVE \E t \in Nat : ReadAt(c, t)'
  <2>1. c # d /\ place[c] = place'[c] /\ place[d] = "none"
    BY <1>0, <1>1 DEF Begin
  <2>2. PICK t \in Nat : ReadAt(c, t)
    BY <1>0, <2>1 DEF ChainedOnce
  <2>3. Entries' = Entries /\ d \notin Entries
    BY <1>1, <2>1 DEF Begin, Entries
  <2>4. \A e \in Entries : began'[e] = began[e] /\ committed'[e] = committed[e]
    BY <1>1, <2>3 DEF Begin, Entries
  <2>5. AsOf(c, t)'
    BY <1>1, <2>2, <2>3, <2>4, AsOfKept DEF Begin, ReadAt
  <2> QED BY <1>1, <2>1, <2>2, <2>5 DEF Begin, ReadAt
<1>2. ASSUME NEW d \in Charges, ReadPrev(d) PROVE \E t \in Nat : ReadAt(c, t)'
  <2>1. CASE c = d
    <3>1. PICK now \in Nat : now = clock
      OBVIOUS
    <3>2. ReadAt(c, now)'
      BY <1>2, <2>1, <3>1, ReadPrevAsOf
    <3> QED BY <3>2
  <2>2. CASE c # d
    <3>1. place'[c] = place[c] /\ prev'[c] = prev[c]
      BY <1>2, <2>2 DEF ReadPrev
    <3>2. PICK t \in Nat : ReadAt(c, t)
      BY <1>0, <3>1 DEF ChainedOnce
    <3>3. Entries' = Entries
      BY <1>2 DEF ReadPrev, Entries
    <3>4. AsOf(c, t)'
      BY <1>2, <3>1, <3>2, <3>3, AsOfKept DEF ReadPrev, ReadAt
    <3> QED BY <1>2, <3>1, <3>2, <3>4 DEF ReadPrev, ReadAt
  <2> QED BY <2>1, <2>2
<1>3. ASSUME NEW d \in Charges, Commit(d) PROVE \E t \in Nat : ReadAt(c, t)'
  <2>1. place[c] \in {"chained", "done"}
    BY <1>0, <1>3 DEF Commit
  <2>2. PICK t \in Nat : ReadAt(c, t)
    BY <2>1 DEF ChainedOnce
  <2>3. Entries' = Entries \cup {d} /\ d \notin Entries
    BY <1>3 DEF Commit, Entries
  <2>4. \A e \in Entries : began'[e] = began[e] /\ committed'[e] = committed[e]
    BY <1>3, <2>3 DEF Commit, Entries
  <2>5. committed'[d] = clock /\ t <= clock
    BY <1>3, <2>2 DEF Commit, ReadAt
  <2>6. AsOf(c, t)'
    BY <1>3, <2>2, <2>3, <2>4, <2>5, AsOfKept DEF Commit, ReadAt
  <2>7. place'[c] = "done" => t <= committed'[c]
    <3>1. CASE c = d
      BY <2>5, <3>1
    <3>2. CASE c # d
      BY <1>3, <2>2, <3>2 DEF Commit, ReadAt
    <3> QED BY <3>1, <3>2
  <2> QED BY <1>3, <2>2, <2>6, <2>7 DEF Commit, ReadAt
<1>4. ASSUME NEW d \in Charges, Rollback(d) PROVE \E t \in Nat : ReadAt(c, t)'
  <2>1. place'[c] = place[c]
    BY <1>0, <1>4 DEF Rollback
  <2>2. PICK t \in Nat : ReadAt(c, t)
    BY <1>0, <2>1 DEF ChainedOnce
  <2>3. Entries' = Entries
    BY <1>4 DEF Rollback, Entries
  <2>4. AsOf(c, t)'
    BY <1>4, <2>2, <2>3, AsOfKept DEF Rollback, ReadAt
  <2> QED BY <1>4, <2>1, <2>2, <2>4 DEF Rollback, ReadAt
<1>5. CASE UNCHANGED vars
  <2>1. PICK t \in Nat : ReadAt(c, t)
    BY <1>0, <1>5 DEF ChainedOnce, vars
  <2>2. ReadAt(c, t)'
    BY <1>5, <2>1 DEF vars, ReadAt, AsOf, Seen, Entries
  <2> QED BY <2>2
<1> QED BY <1>1, <1>2, <1>3, <1>4, <1>5 DEF Next

LEMMA Inductive == Spec => []IInv
<1>1. Init => IInv
  BY DEF Init, IInv, TypeOK, Timing, ChainedOnce
<1>2. IInv /\ [Next]_vars => IInv'
  <2> SUFFICES ASSUME IInv, [Next]_vars PROVE IInv'
    OBVIOUS
  <2> QED BY TypeNext, TimingNext, ChainedNext DEF IInv
<1> QED BY <1>1, <1>2, PTL DEF Spec

\* An entry names an earlier committed entry of its user, or starts a chain: the
\* ledger has no dangling link and no cycle, whatever transactions overlap.
THEOREM Grounded == Spec => []ChainGrounded
<1>1. IInv => ChainGrounded
  <2> SUFFICES ASSUME IInv, NEW c \in Entries
               PROVE  \/ prev[c] = Genesis
                      \/ /\ prev[c] \in Entries
                         /\ Account[prev[c]] = Account[c]
                         /\ committed[prev[c]] < committed[c]
    BY DEF ChainGrounded
  <2>1. PICK t \in Nat : ReadAt(c, t)
    BY DEF IInv, ChainedOnce, Entries
  <2>2. t <= committed[c]
    BY <2>1 DEF ReadAt, Entries
  <2>3. prev[c] = Genesis \/ prev[c] \in Seen(c, t)
    BY <2>1 DEF ReadAt, AsOf
  <2> QED BY <2>2, <2>3 DEF Seen, Entries, IInv, TypeOK
<1> QED BY <1>1, Inductive, PTL

\* Without overlapping transactions of the same user the ledger is one chain in
\* commit order (appendLedger): only concurrency can fork it.
THEOREM Serial == Spec => []SerialIsChain
<1>1. IInv => SerialIsChain
  <2> SUFFICES ASSUME IInv, NEW c \in Entries,
                      \A d, e \in Entries : Account[d] = Account[c] /\ d # e => ~Overlap(d, e),
                      NEW before,
                      before = {d \in Entries : Account[d] = Account[c]
                                                /\ committed[d] < committed[c]}
               PROVE  \/ before = {} /\ prev[c] = Genesis
                      \/ /\ prev[c] \in before
                         /\ \A d \in before : committed[d] <= committed[prev[c]]
    BY DEF SerialIsChain
  <2>1. PICK t \in Nat : ReadAt(c, t)
    BY DEF IInv, ChainedOnce, Entries
  <2>2. began[c] < t /\ t <= committed[c] /\ AsOf(c, t)
    BY <2>1 DEF ReadAt, Entries
  <2>3. \A d \in Entries : /\ began[d] \in Nat /\ committed[d] \in Nat
                           /\ began[d] < committed[d]
    BY DEF IInv, TypeOK, Timing, Entries
  <2>4. ASSUME NEW d \in before PROVE committed[d] < t
    <3>1. d \in Entries /\ d # c /\ Account[d] = Account[c] /\ committed[d] < committed[c]
      BY <2>3, <2>4
    <3>2. ~(began[d] < committed[c] /\ began[c] < committed[d])
      BY <3>1 DEF Overlap
    <3> QED BY <2>2, <2>3, <3>1, <3>2
  <2>5. before = Seen(c, t)
    BY <2>2, <2>3, <2>4 DEF Seen
  <2>6. CASE prev[c] = Genesis /\ Seen(c, t) = {}
    BY <2>5, <2>6
  <2>7. CASE /\ prev[c] \in Seen(c, t)
             /\ \A e \in Seen(c, t) : began[e] <= began[prev[c]]
    <3> DEFINE p == prev[c]
    <3>1. p \in Entries /\ Account[p] = Account[c]
      BY <2>7 DEF Seen
    <3>2. ASSUME NEW d \in before PROVE committed[d] <= committed[p]
      <4>1. d \in Entries /\ Account[d] = Account[c] /\ began[d] <= began[p]
        BY <2>5, <2>7 DEF Seen
      <4>2. CASE d = p
        BY <2>3, <3>1, <4>2
      <4>3. CASE d # p
        <5>1. ~(began[d] < committed[p] /\ began[p] < committed[d])
          BY <3>1, <4>1, <4>3 DEF Overlap
        <5> QED BY <2>3, <3>1, <4>1, <5>1
      <4> QED BY <4>2, <4>3
    <3> QED BY <2>5, <2>7, <3>2
  <2> QED BY <2>2, <2>6, <2>7 DEF AsOf
<1> QED BY <1>1, Inductive, PTL
===============================================================================
