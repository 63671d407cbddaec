---------------------------- MODULE AuthSessions ----------------------------
(***************************************************************************)
(* Refresh-token sessions (internal/auth/service.go and repository.go):    *)
(* login, rotation by Refresh, detection of a reused token, logout and the *)
(* blocking of a user, each handler one statement at a time.               *)
(*                                                                         *)
(* A token stands for its user_sessions row.  The tokens obtained from one *)
(* login by successive rotations form a chain, named by its first token.   *)
(***************************************************************************)
EXTENDS FiniteSets, Naturals

CONSTANTS
  Users,
  Tokens,     \* bound: refresh tokens that may ever be issued
  Handlers,   \* bound: requests in progress at once
  MaxFaults,  \* bound: statements whose failure the code ignores
  NoUser, NoToken

ASSUME AuthAssumption ==
  /\ MaxFaults \in Nat
  /\ NoUser \notin Users /\ NoToken \notin Tokens

VARIABLES
  session,          \* user_sessions: no row, revoked_at IS NULL, or revoked
  expired,          \* tokens past expires_at
  owner,            \* user_sessions.user_id
  blocked,          \* users whose status is 'blocked'
  pc, user, token,  \* each handler: its place, its user, the token presented
  faults,
  parent, chain,    \* history: the token each was rotated from, and its login
  raced,            \* history: chains with a token two handlers rotated at once
  reused,           \* history: tokens whose reuse was detected and acted upon
  ended             \* history: chains a reuse has ended, no rotation of theirs under way

rows    == <<session, expired, owner>>
request == <<pc, user, token>>
hist    == <<parent, chain, raced, reused, ended>>
vars    == <<rows, blocked, request, faults, hist>>

Issued == {t \in Tokens : session[t] # "none"}
Live == {t \in Tokens : session[t] = "live"}

\* Type invariant; a rotated token keeps its row.
TypeOK ==
  /\ session \in [Tokens -> {"none", "live", "revoked"}]
  /\ expired \subseteq Tokens
  /\ owner \in [Tokens -> Users \cup {NoUser}]
  /\ blocked \subseteq Users
  /\ pc \in [Handlers -> {"idle", "checked", "reuse", "rotated", "issuing"}]
  /\ user \in [Handlers -> Users \cup {NoUser}]
  /\ token \in [Handlers -> Tokens \cup {NoToken}]
  /\ faults \in 0 .. MaxFaults
  /\ parent \in [Tokens -> Tokens \cup {NoToken}]
  /\ chain \in [Tokens -> Tokens \cup {NoToken}]
  /\ raced \subseteq Tokens /\ reused \subseteq Tokens /\ ended \subseteq Tokens
  /\ \A t \in Tokens : parent[t] # NoToken => {t, parent[t]} \subseteq Issued

Init ==
  /\ session = [t \in Tokens |-> "none"]
  /\ expired = {}
  /\ owner = [t \in Tokens |-> NoUser]
  /\ blocked = {}
  /\ pc = [h \in Handlers |-> "idle"]
  /\ user = [h \in Handlers |-> NoUser]
  /\ token = [h \in Handlers |-> NoToken]
  /\ faults = 0
  /\ parent = [t \in Tokens |-> NoToken]
  /\ chain = [t \in Tokens |-> NoToken]
  /\ raced = {} /\ reused = {} /\ ended = {}

----------------------------------------------------------------------------
Begin(h, place, u, t) ==
  /\ pc[h] = "idle"
  /\ pc' = [pc EXCEPT ![h] = place]
  /\ user' = [user EXCEPT ![h] = u]
  /\ token' = [token EXCEPT ![h] = t]

Goto(h, place) ==
  /\ pc' = [pc EXCEPT ![h] = place]
  /\ UNCHANGED <<user, token>>

Finish(h) ==
  /\ pc' = [pc EXCEPT ![h] = "idle"]
  /\ user' = [user EXCEPT ![h] = NoUser]
  /\ token' = [token EXCEPT ![h] = NoToken]

\* Login and TelegramLogin with valid credentials: the status was read with
\* the user's row.
Login(h, u) ==
  /\ u \notin blocked
  /\ Begin(h, "issuing", u, NoToken)
  /\ UNCHANGED <<rows, blocked, faults, hist>>

\* Refresh, first statement: GetSessionByHash and what is decided on it.
Revoked(t) == session[t] = "revoked"

GetSession(h, t) ==
  /\ t \in Issued
  /\ Revoked(t) \/ t \notin expired
  /\ Begin(h, IF Revoked(t) THEN "reuse" ELSE "checked", owner[t], t)
  /\ raced' = IF ~Revoked(t) /\ \E g \in Handlers : pc[g] = "checked" /\ token[g] = t
              THEN raced \cup {chain[t]} ELSE raced
  /\ UNCHANGED <<rows, blocked, faults, parent, chain, reused, ended>>

\* Chains of user u that no Refresh is rotating.
Quiet(u) ==
  {c \in Tokens :
     /\ chain[c] = c /\ owner[c] = u
     /\ \A g \in Handlers : pc[g] \in {"checked", "rotated", "issuing"} /\ token[g] # NoToken
                           => chain[token[g]] # c}

\* A mistake: only the presented token's successors are revoked.
Condemned_Successors(h) == {t \in Live : parent[t] = token[h]}

Condemned(h) == {t \in Live : owner[t] = user[h]}

\* RevokeAllUserSessions; an error is ignored.
RevokeAll(h) ==
  /\ pc[h] = "reuse"
  /\ \/ /\ session' = [t \in Tokens |-> IF t \in Condemned(h) THEN "revoked" ELSE session[t]]
        /\ reused' = reused \cup {token[h]}
        /\ ended' = ended \cup Quiet(user[h])
        /\ UNCHANGED faults
     \/ /\ faults < MaxFaults /\ faults' = faults + 1
        /\ UNCHANGED <<session, reused, ended>>
  /\ Finish(h)
  /\ UNCHANGED <<expired, owner, blocked, parent, chain, raced>>

\* A mistake: the old session stays as it is.
RevokeSession_Skipped(h) ==
  /\ pc[h] = "checked"
  /\ Goto(h, "rotated")
  /\ UNCHANGED <<rows, blocked, faults, hist>>

\* Refresh, second statement.  It does not matter whether a row was updated.
RevokeSession(h) ==
  /\ pc[h] = "checked"
  /\ session' = [session EXCEPT ![token[h]] = "revoked"]
  /\ Goto(h, "rotated")
  /\ UNCHANGED <<expired, owner, blocked, faults, hist>>

\* Refresh, third statement: GetUserByID.
GetUser(h) ==
  /\ pc[h] = "rotated"
  /\ IF user[h] \in blocked THEN Finish(h) ELSE Goto(h, "issuing")
  /\ UNCHANGED <<rows, blocked, faults, hist>>

\* issueTokens: CreateSession with a new token.
CreateSession(h, t) ==
  /\ pc[h] = "issuing"
  /\ t \in Tokens \ Issued
  /\ session' = [session EXCEPT ![t] = "live"]
  /\ owner' = [owner EXCEPT ![t] = user[h]]
  /\ parent' = [parent EXCEPT ![t] = token[h]]
  /\ chain' = [chain EXCEPT ![t] = IF token[h] = NoToken THEN t ELSE chain[token[h]]]
  /\ Finish(h)
  /\ UNCHANGED <<expired, blocked, faults, raced, reused, ended>>

\* The request ends early: an error of a statement, or the client is gone.
Abandon(h) ==
  /\ pc[h] \in {"checked", "rotated", "issuing"}
  /\ Finish(h)
  /\ UNCHANGED <<rows, blocked, faults, hist>>

\* Logout with a refresh token.  Finding the session cannot find anything else
\* later, so it is one step with the revocation; a failure of either is ignored.
Logout(t) ==
  /\ t \in Live
  /\ session' = [session EXCEPT ![t] = "revoked"]
  /\ UNCHANGED <<expired, owner, blocked, request, faults, hist>>

\* admin.Repository.SetUserStatus.
SetUserStatus(u) ==
  /\ blocked' = IF u \in blocked THEN blocked \ {u} ELSE blocked \cup {u}
  /\ UNCHANGED <<rows, request, faults, hist>>

Expire(t) ==
  /\ t \in Issued \ expired
  /\ expired' = expired \cup {t}
  /\ UNCHANGED <<session, owner, blocked, request, faults, hist>>

----------------------------------------------------------------------------
Next ==
  \/ \E h \in Handlers :
       \/ \E u \in Users : Login(h, u)
       \/ \E t \in Tokens : GetSession(h, t) \/ CreateSession(h, t)
       \/ RevokeAll(h) \/ RevokeSession(h) \/ GetUser(h) \/ Abandon(h)
  \/ \E t \in Tokens : Logout(t) \/ Expire(t)
  \/ \E u \in Users : SetUserStatus(u)

Spec == Init /\ [][Next]_vars

----------------------------------------------------------------------------
(* Properties.                                                              *)

\* Handlers of chain c that have spent their token and still owe a new one.
Rotating(c) ==
  {h \in Handlers : /\ pc[h] \in {"rotated", "issuing"} /\ token[h] # NoToken
                    /\ chain[token[h]] = c}

\* A login is in one place at a time: of the tokens of a chain at most one is
\* usable, counting the one a Refresh is about to issue, unless two Refreshes
\* of one token overlapped (the order of the statements of Refresh).
OneLivePerChain ==
  \A c \in Tokens \ raced :
    Cardinality({t \in Live : chain[t] = c}) + Cardinality(Rotating(c)) <= 1

\* Reuse ends every login of the user for good: no token of a chain that was not
\* just being rotated is usable again, whatever the requests already under way
\* issue later (RevokeAllUserSessions in Refresh).
ReuseEndsLogins == \A t \in Live : chain[t] \notin ended

----------------------------------------------------------------------------
(* Stronger statements that the code does not meet.                         *)

\* service.go:153 "Refresh rotates a refresh token: the presented session is
\* revoked and a new token pair is issued."  No token yields two pairs.
RotatedOnce ==
  \A s, t \in Tokens : s # t /\ parent[s] = parent[t] => parent[s] = NoToken

\* service.go:154 "Reusing a revoked token revokes the whole user chain."  Once
\* the reuse of a token was acted upon, no token of its chain is usable.
ReuseRevokesChain == \A r \in reused : \A t \in Live : chain[t] # chain[r]
=============================================================================
