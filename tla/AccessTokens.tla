---------------------------- MODULE AccessTokens ----------------------------
(***************************************************************************)
(* The access tokens of one account (internal/auth/tokens.go), the Redis   *)
(* keys by which logout revokes them (service.go) and the account's status *)
(* and role, which a token carries a copy of (users; admin/repository.go). *)
(*                                                                         *)
(* Time is a coarse clock shared by the program and Redis.  Every deadline *)
(* is kept as the ticks that are left to it, so that a run may go on for   *)
(* ever: a token that has expired and is not named anywhere is issued      *)
(* again as a new one.                                                     *)
(***************************************************************************)
EXTENDS Integers

CONSTANTS
  Tokens,   \* bound: access tokens in use at once
  Life,     \* accessTTL, in ticks
  NoToken

ASSUME AccessAssumption == Life \in Nat \ {0} /\ NoToken \notin Tokens

VARIABLES
  role, blocked,  \* users.role; users.status = 'blocked'
  left,           \* of each token: what is left of its lifetime
  claim,          \* its Role claim
  key,            \* what is left of the lifetime of its blacklist key
  blockedFor,     \* history: the age of the present block, up to Life
  demotedFor      \* history: how long the role has not been an administrator's

Roles == {"user", "admin"}   \* "admin" stands for superadmin as well
No == -1

account == <<role, blocked, blockedFor, demotedFor>>
access  == <<account, left, claim, key>>

AccessTypeOK ==
  /\ role \in Roles /\ blocked \in BOOLEAN
  /\ left \in [Tokens -> 0 .. Life] /\ key \in [Tokens -> 0 .. Life]
  /\ claim \in [Tokens -> Roles]
  /\ blockedFor \in {No} \cup 0 .. Life /\ blocked = (blockedFor # No)
  /\ demotedFor \in {No} \cup 0 .. Life /\ (role = "admin") = (demotedFor = No)

AccessInit ==
  /\ role \in Roles /\ blocked = FALSE
  /\ left = [t \in Tokens |-> 0] /\ claim = [t \in Tokens |-> "user"]
  /\ key = [t \in Tokens |-> 0]
  /\ blockedFor = No /\ demotedFor = IF role = "admin" THEN No ELSE Life

\* ParseAccess: the token is ours and in its time.
ParseAccess(t) == left[t] > 0

\* IsBlacklisted: the key exists.
IsBlacklisted(t) == key[t] > 0

\* IssueAccess, with the role the account had when it was read.
IssueAccess(t, r) ==
  /\ left[t] = 0 /\ key[t] = 0
  /\ left' = [left EXCEPT ![t] = Life]
  /\ claim' = [claim EXCEPT ![t] = r]

\* A mistake: how long ago the token was issued.
TimeLeft_SinceIssue(t) == Life - left[t]

\* Logout: time.Until(accessExpiry) ...
TimeLeft(t) == left[t]

\* ... and SET, some time later, with what was left then.
Blacklist(t, ttl) == key' = [key EXCEPT ![t] = ttl]

SetUserStatus(b) ==
  /\ blocked' = b
  /\ blockedFor' = IF ~ b THEN No ELSE IF blocked THEN blockedFor ELSE 0
  /\ UNCHANGED <<role, demotedFor>>

SetUserRole(r) ==
  /\ role' = r
  /\ demotedFor' = IF r = "admin" THEN No ELSE IF role = "admin" THEN 0 ELSE demotedFor
  /\ UNCHANGED <<blocked, blockedFor>>

Sooner(n) == IF n > 0 THEN n - 1 ELSE 0
Older(n) == IF n \in 0 .. Life - 1 THEN n + 1 ELSE n

Tick ==
  /\ left' = [t \in Tokens |-> Sooner(left[t])]
  /\ key' = [t \in Tokens |-> Sooner(key[t])]
  /\ blockedFor' = Older(blockedFor) /\ demotedFor' = Older(demotedFor)
  /\ UNCHANGED <<role, blocked, claim>>
=============================================================================
