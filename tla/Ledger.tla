-------------------------------- MODULE Ledger --------------------------------
(***************************************************************************)
(* The hash chain of internal/billing: FinalizePaid appends the charge of  *)
(* an order to the ledger of its user, in a READ COMMITTED transaction     *)
(* that reads the newest committed entry and inserts one that names its    *)
(* hash.  Newest is by created_at, which defaults to now(): the start of   *)
(* the inserting transaction.  Nothing locks the ledger of a user: two of  *)
(* its orders may be finalised at once, by two workers.                    *)
(*                                                                         *)
(* An entry stands for its hash, which no other entry has.  The clock      *)
(* ticks at every begin and commit, so that no two entries share a         *)
(* created_at; "id DESC" orders those that do, as some order of ticks.     *)
(***************************************************************************)
EXTENDS Naturals

CONSTANTS
  Charges,  \* the orders being finalised
  Account,  \* Account[c]: the user of order c
  Genesis   \* prev_hash IS NULL

ASSUME LedgerAssumption ==
  /\ Genesis \notin Charges
  /\ DOMAIN Account = Charges

VARIABLES
  clock,
  place,      \* where the transaction of each charge is
  began,      \* when it began: created_at of its entry
  committed,  \* when it committed
  prev        \* the entry whose hash it read

vars == <<clock, place, began, committed, prev>>

TypeOK ==
  /\ clock \in Nat
  /\ place \in [Charges -> {"none", "begun", "chained", "done", "aborted"}]
  /\ began \in [Charges -> Nat]
  /\ committed \in [Charges -> Nat]
  /\ prev \in [Charges -> Charges \cup {Genesis}]

Init ==
  /\ clock = 1
  /\ place = [c \in Charges |-> "none"]
  /\ began = [c \in Charges |-> 0]
  /\ committed = [c \in Charges |-> 0]
  /\ prev = [c \in Charges |-> Genesis]

-------------------------------------------------------------------------------
Entries == {c \in Charges : place[c] = "done"}

\* Mistakes: the order of the entries reversed, the filter on the user forgotten.
Newest_Oldest(c) ==
  {e \in Entries : /\ Account[e] = Account[c]
                   /\ \A f \in Entries : Account[f] = Account[c] => began[e] <= began[f]}
Newest_AnyUser(c) ==
  {e \in Entries : \A f \in Entries : began[f] <= began[e]}

\* SELECT hash ... WHERE user_id ORDER BY created_at DESC LIMIT 1: one row or none.
Newest(c) ==
  {e \in Entries : /\ Account[e] = Account[c]
                   /\ \A f \in Entries : Account[f] = Account[c] => began[f] <= began[e]}

\* NULLIF(prevHash, ''): NULL starts a chain.
PrevHash(c) ==
  IF Newest(c) = {} THEN Genesis ELSE CHOOSE e \in Newest(c) : TRUE

\* FinalizePaid begins, and updates its order and payment.
Begin(c) ==
  /\ place[c] = "none"
  /\ place' = [place EXCEPT ![c] = "begun"]
  /\ began' = [began EXCEPT ![c] = clock]
  /\ clock' = clock + 1
  /\ UNCHANGED <<committed, prev>>

\* appendLedger reads the newest entry.
ReadPrev(c) ==
  /\ place[c] = "begun"
  /\ place' = [place EXCEPT ![c] = "chained"]
  /\ prev' = [prev EXCEPT ![c] = PrevHash(c)]
  /\ UNCHANGED <<clock, began, committed>>

\* appendLedger inserts, FinalizePaid commits.
Commit(c) ==
  /\ place[c] = "chained"
  /\ place' = [place EXCEPT ![c] = "done"]
  /\ committed' = [committed EXCEPT ![c] = clock]
  /\ clock' = clock + 1
  /\ UNCHANGED <<began, prev>>

\* An error or a crash rolls the transaction back; nothing retries it.
Rollback(c) ==
  /\ place[c] \in {"begun", "chained"}
  /\ place' = [place EXCEPT ![c] = "aborted"]
  /\ UNCHANGED <<clock, began, committed, prev>>

Next == \E c \in Charges : Begin(c) \/ ReadPrev(c) \/ Commit(c) \/ Rollback(c)

Spec == Init /\ [][Next]_vars

-------------------------------------------------------------------------------
(* Properties.                                                             *)

\* Every entry but the first of a chain names an entry of the same user that was
\* committed before it began to be written to the database: no entry hangs on a
\* rolled-back one, and following prev_hash always ends (appendLedger).
ChainGrounded ==
  \A c \in Entries :
    \/ prev[c] = Genesis
    \/ /\ prev[c] \in Entries
       /\ Account[prev[c]] = Account[c]
       /\ committed[prev[c]] < committed[c]

Overlap(c, d) ==
  /\ Account[c] = Account[d]
  /\ began[c] < committed[d]
  /\ began[d] < committed[c]

\* Finalised one after the other, the orders of a user form one chain: each entry
\* names the one committed just before it.  Only overlapping transactions of one
\* user can break the chain (FinalizePaid takes no lock on the user).
SerialIsChain ==
  \A c \in Entries :
    (\A d, e \in Entries : Account[d] = Account[c] /\ d # e => ~Overlap(d, e)) =>
      LET before == {d \in Entries : Account[d] = Account[c] /\ committed[d] < committed[c]}
      IN  \/ before = {} /\ prev[c] = Genesis
          \/ /\ prev[c] \in before
             /\ \A d \in before : committed[d] <= committed[prev[c]]

-------------------------------------------------------------------------------
(* A stronger statement that the code does not meet.                       *)

\* "Immutable financial ledger with a hash chain": no two entries of a user follow
\* the same entry, and only one starts the chain.
NoFork ==
  \A c, d \in Entries : Account[c] = Account[d] /\ prev[c] = prev[d] => c = d
===============================================================================
