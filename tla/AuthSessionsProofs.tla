------------------------- MODULE AuthSessionsProofs -------------------------
(***************************************************************************)
(* Proofs about AuthSessions, for any sets of users, refresh tokens and    *)
(* requests and any number of ignored failures.                            *)
(***************************************************************************)
EXTENDS AuthSessions, FiniteSetTheorems, TLAPS

\* Every row belongs to a chain that starts with a row of the same user.
ChainsKnown ==
  /\ \A t \in Tokens \ Issued : chain[t] = NoToken
  /\ \A t \in Issued : chain[t] \in Issued /\ owner[chain[t]] = owner[t]

\* A request holds a token that has a row, and its user is the row's.
RequestsKnown ==
  \A h \in Handlers :
    /\ pc[h] \in {"checked", "reuse", "rotated"} => token[h] # NoToken
    /\ token[h] # NoToken => token[h] \in Issued /\ owner[token[h]] = user[h]

\* A Refresh of chain c found a usable token, or has spent it.
Checks(h, c) == pc[h] = "checked" /\ chain[token[h]] = c
Owes(h, c) == pc[h] \in {"rotated", "issuing"} /\ token[h] # NoToken /\ chain[token[h]] = c

\* Where a chain is: OneLivePerChain is not inductive, because a Refresh revokes
\* whatever it checked before, even if a logout was faster.  Nothing else of the
\* chain may then be usable or owed.
OnePlace ==
  \A c \in Tokens \ raced :
    /\ \A s, t \in Live : chain[s] = c /\ chain[t] = c => s = t
    /\ \A g, h \in Handlers : Owes(g, c) /\ Owes(h, c) => g = h
    /\ \A h \in Handlers, t \in Live : Owes(h, c) => chain[t] # c
    /\ \A h \in Handlers : Checks(h, c) =>
         /\ \A t \in Live : chain[t] = c => t = token[h]
         /\ \A g \in Handlers : ~Owes(g, c)
         /\ \A g \in Handlers : Checks(g, c) => g = h

\* A chain that was ended has no usable token and no Refresh that may issue one.
EndedStay ==
  /\ ended \subseteq Issued
  /\ ReuseEndsLogins
  /\ \A h \in Handlers :
       pc[h] \in {"checked", "rotated", "issuing"} /\ token[h] # NoToken
         => chain[token[h]] \notin ended

IInv == TypeOK /\ ChainsKnown /\ RequestsKnown /\ OnePlace /\ EndedStay

-----------------------------------------------------------------------------
LEMMA InvInit == Init => IInv
<1> SUFFICES ASSUME Init PROVE IInv
  OBVIOUS
<1>1. TypeOK
  BY AuthAssumption DEF Init, TypeOK
<1>2. Issued = {} /\ Live = {}
  BY DEF Init, Issued, Live
<1>3. ChainsKnown /\ RequestsKnown
  BY <1>2 DEF Init, ChainsKnown, RequestsKnown
<1>4. OnePlace /\ EndedStay
  BY <1>2 DEF Init, OnePlace, EndedStay, ReuseEndsLogins, Checks, Owes
<1> QED BY <1>1, <1>3, <1>4 DEF IInv

LEMMA ChainsAreTokens ==
  ASSUME ChainsKnown
  PROVE  \A t \in Issued : chain[t] \in Tokens
BY DEF ChainsKnown, Issued

\* The types, but for the rows of rotated tokens, which rest on what requests hold.
LEMMA TypeStep ==
  ASSUME TypeOK, ChainsKnown, RequestsKnown, [Next]_vars
  PROVE  TypeOK'
<1> USE AuthAssumption DEF TypeOK, rows, request, hist
<1>1. ASSUME NEW h \in Handlers, NEW u \in Users, Login(h, u) PROVE TypeOK'
  BY <1>1 DEF Login, Begin, Issued
<1>2. ASSUME NEW h \in Handlers, NEW t \in Tokens, GetSession(h, t) PROVE TypeOK'
  <2>1. /\ pc' \in [Handlers -> {"idle", "checked", "reuse", "rotated", "issuing"}]
        /\ user' \in [Handlers -> Users \cup {NoUser}]
        /\ token' \in [Handlers -> Tokens \cup {NoToken}]
    BY <1>2 DEF GetSession, Begin
  <2>2. raced' \subseteq Tokens
    <3>1. chain[t] \in Tokens
      BY <1>2, ChainsAreTokens DEF GetSession
    <3> QED BY <1>2, <3>1 DEF GetSession
  <2> QED BY <1>2, <2>1, <2>2 DEF GetSession, Issued
<1>3. ASSUME NEW h \in Handlers, NEW t \in Tokens, CreateSession(h, t) PROVE TypeOK'
  <2>1. /\ session' \in [Tokens -> {"none", "live", "revoked"}]
        /\ owner' \in [Tokens -> Users \cup {NoUser}]
        /\ parent' \in [Tokens -> Tokens \cup {NoToken}]
        /\ chain' \in [Tokens -> Tokens \cup {NoToken}]
    BY <1>3 DEF CreateSession
  <2>2. \A s \in Tokens : parent'[s] # NoToken => {s, parent'[s]} \subseteq Issued'
    <3>1. token[h] # NoToken => token[h] \in Issued
      BY DEF RequestsKnown
    <3> QED BY <1>3, <3>1 DEF CreateSession, Issued
  <2> QED BY <1>3, <2>1, <2>2 DEF CreateSession, Finish
<1>4. ASSUME NEW h \in Handlers, RevokeAll(h) PROVE TypeOK'
  <2>1. session' \in [Tokens -> {"none", "live", "revoked"}] /\ Issued' = Issued
    BY <1>4 DEF RevokeAll, Issued, Live, Condemned
  <2>2. faults' \in 0 .. MaxFaults
    BY <1>4 DEF RevokeAll
  <2>3. reused' \subseteq Tokens /\ ended' \subseteq Tokens
    BY <1>4 DEF RevokeAll, Quiet, RequestsKnown, Issued
  <2> QED BY <1>4, <2>1, <2>2, <2>3 DEF RevokeAll, Finish
<1>5. ASSUME NEW h \in Handlers, RevokeSession(h) PROVE TypeOK'
  BY <1>5 DEF RevokeSession, Goto, Issued, RequestsKnown
<1>6. ASSUME NEW h \in Handlers, GetUser(h) \/ Abandon(h) PROVE TypeOK'
  BY <1>6 DEF GetUser, Abandon, Goto, Finish, Issued
<1>7. ASSUME NEW t \in Tokens, Logout(t) \/ Expire(t) PROVE TypeOK'
  BY <1>7 DEF Logout, Expire, Issued, Live
<1>8. ASSUME NEW u \in Users, SetUserStatus(u) PROVE TypeOK'
  BY <1>8 DEF SetUserStatus, Issued
<1>9. CASE UNCHANGED vars
  BY <1>9 DEF vars, Issued
<1> QED BY <1>1, <1>2, <1>3, <1>4, <1>5, <1>6, <1>7, <1>8, <1>9 DEF Next

\* A step that issues no token and gives no request another token: a request
\* goes on, loses its token or has none, and usable tokens only become fewer.
Lessens ==
  /\ UNCHANGED <<owner, chain, raced>>
  /\ Issued' = Issued /\ Live' \subseteq Live
  /\ \A h \in Handlers :
       \/ token'[h] = NoToken /\ pc'[h] \in {"idle", "issuing"}
       \/ /\ token'[h] = token[h] /\ user'[h] = user[h]
          /\ pc'[h] = pc[h] \/ <<pc[h], pc'[h]>> = <<"rotated", "issuing">>

LEMMA LessensKeeps ==
  ASSUME IInv, Lessens
  PROVE  /\ ChainsKnown' /\ RequestsKnown' /\ OnePlace'
         /\ ended' = ended => EndedStay'
<1>1. ChainsKnown' /\ RequestsKnown'
  BY DEF IInv, Lessens, ChainsKnown, RequestsKnown
<1>2. \A h \in Handlers, c \in Tokens : /\ Owes(h, c)' => Owes(h, c)
                                        /\ Checks(h, c)' => Checks(h, c) /\ token'[h] = token[h]
  BY DEF Lessens, Owes, Checks
<1>3. OnePlace'
  BY <1>2 DEF IInv, Lessens, OnePlace
<1>4. ended' = ended => EndedStay'
  BY DEF IInv, Lessens, EndedStay, ReuseEndsLogins
<1> QED BY <1>1, <1>3, <1>4

LEMMA LessSteps ==
  ASSUME TypeOK,
         \/ \E h \in Handlers : (\E u \in Users : Login(h, u)) \/ GetUser(h) \/ Abandon(h)
         \/ \E t \in Tokens : Logout(t) \/ Expire(t)
         \/ \E u \in Users : SetUserStatus(u)
         \/ UNCHANGED vars
  PROVE  Lessens /\ ended' = ended
<1> USE DEF rows, request, hist
<1>1. ASSUME session' = session PROVE Issued' = Issued /\ Live' = Live
  BY <1>1 DEF Issued, Live
<1>2. ASSUME NEW h \in Handlers, pc'[h] \in {"idle", "issuing"}, token'[h] = NoToken,
             \A g \in Handlers \ {h} :
               pc'[g] = pc[g] /\ token'[g] = token[g] /\ user'[g] = user[g],
             UNCHANGED rows, UNCHANGED <<chain, raced, ended>>
      PROVE  Lessens /\ ended' = ended
  BY <1>1, <1>2 DEF Lessens
<1>3. ASSUME NEW h \in Handlers, NEW u \in Users, Login(h, u) PROVE Lessens /\ ended' = ended
  BY <1>2, <1>3 DEF Login, Begin, TypeOK
<1>4. ASSUME NEW h \in Handlers, Finish(h), UNCHANGED <<rows, hist>>
      PROVE  Lessens /\ ended' = ended
  BY <1>2, <1>4 DEF Finish, TypeOK
<1>5. ASSUME NEW h \in Handlers, GetUser(h), ~Finish(h) PROVE Lessens /\ ended' = ended
  <2>1. /\ pc[h] = "rotated" /\ pc' = [pc EXCEPT ![h] = "issuing"]
        /\ UNCHANGED <<rows, user, token, hist>>
    BY <1>5 DEF GetUser, Goto
  <2> QED BY <1>1, <2>1 DEF Lessens, TypeOK
<1>6. ASSUME NEW h \in Handlers, GetUser(h) \/ Abandon(h) PROVE Lessens /\ ended' = ended
  BY <1>4, <1>5, <1>6 DEF GetUser, Abandon
<1>7. ASSUME NEW t \in Tokens, Logout(t) PROVE Lessens /\ ended' = ended
  <2>1. Issued' = Issued /\ Live' \subseteq Live
    BY <1>7 DEF Logout, TypeOK, Issued, Live
  <2> QED BY <1>7, <2>1 DEF Logout, Lessens
<1>8. CASE (\E t \in Tokens : Expire(t)) \/ (\E u \in Users : SetUserStatus(u)) \/ UNCHANGED vars
  <2>1. UNCHANGED <<session, owner, chain, raced, ended, pc, user, token>>
    BY <1>8 DEF Expire, SetUserStatus, vars
  <2> QED BY <1>1, <2>1 DEF Lessens
<1> QED BY <1>3, <1>6, <1>7, <1>8

\* A reuse ends the chains of the user that no Refresh is rotating.
LEMMA RevokeAllKeeps ==
  ASSUME IInv, NEW h \in Handlers, RevokeAll(h)
  PROVE  ChainsKnown' /\ RequestsKnown' /\ OnePlace' /\ EndedStay'
<1>1. /\ pc[h] = "reuse" /\ token[h] \in Issued /\ owner[token[h]] = user[h]
      /\ pc' = [pc EXCEPT ![h] = "idle"] /\ user' = [user EXCEPT ![h] = NoUser]
      /\ token' = [token EXCEPT ![h] = NoToken]
      /\ UNCHANGED <<owner, chain, raced>>
  BY DEF RevokeAll, Finish, IInv, RequestsKnown
<1>2. Issued' = Issued /\ Live' \subseteq Live
  BY DEF RevokeAll, Condemned, IInv, TypeOK, Issued, Live
<1>3. Lessens
  BY <1>1, <1>2 DEF Lessens, IInv, TypeOK
<1>4. CASE ended' = ended
  BY <1>3, <1>4, LessensKeeps
<1>5. CASE ended' # ended
  <2>1. /\ ended' = ended \cup Quiet(user[h])
        /\ session' = [t \in Tokens |-> IF t \in Condemned(h) THEN "revoked" ELSE session[t]]
    BY <1>5 DEF RevokeAll
  <2>2. \A t \in Live' : t \in Live /\ owner[t] # user[h] /\ t \in Issued
    BY <2>1 DEF Condemned, Live, Issued
  <2>3. \A c \in Quiet(user[h]) : c \in Issued /\ owner[c] = user[h]
    BY AuthAssumption DEF IInv, ChainsKnown, Quiet
  <2>4. \A t \in Live' : chain[t] \notin ended'
    BY <2>1, <2>2, <2>3 DEF IInv, ChainsKnown, EndedStay, ReuseEndsLogins
  <2>5. ASSUME NEW g \in Handlers, pc'[g] \in {"checked", "rotated", "issuing"},
               token'[g] # NoToken
        PROVE  chain[token'[g]] \notin ended'
    <3>1. pc'[g] = pc[g] /\ token'[g] = token[g]
      BY <1>1, <2>5 DEF IInv, TypeOK
    <3>2. chain[token[g]] \notin ended
      BY <2>5, <3>1 DEF IInv, EndedStay
    <3>3. chain[token[g]] \notin Quiet(user[h])
      BY <2>5, <3>1 DEF Quiet
    <3> QED BY <2>1, <3>1, <3>2, <3>3
  <2>6. ended' \subseteq Issued'
    BY <1>2, <2>1, <2>3 DEF IInv, EndedStay
  <2>7. EndedStay'
    BY <1>1, <2>4, <2>5, <2>6 DEF EndedStay, ReuseEndsLogins
  <2> QED BY <1>3, <2>7, LessensKeeps
<1> QED BY <1>4, <1>5

LEMMA RevokeSessionKeeps ==
  ASSUME IInv, NEW h \in Handlers, RevokeSession(h)
  PROVE  ChainsKnown' /\ RequestsKnown' /\ OnePlace' /\ EndedStay'
<1> DEFINE t == token[h]
<1>1. /\ pc[h] = "checked" /\ t # NoToken /\ t \in Issued /\ t \in Tokens
      /\ session' = [session EXCEPT ![t] = "revoked"]
      /\ pc' = [pc EXCEPT ![h] = "rotated"]
      /\ UNCHANGED <<owner, user, token, chain, raced, ended>>
  BY DEF RevokeSession, Goto, hist, IInv, RequestsKnown, Issued
<1>2. Issued' = Issued /\ Live' = Live \ {t}
  BY <1>1 DEF IInv, TypeOK, Issued, Live
<1>3. ChainsKnown' /\ RequestsKnown'
  BY <1>1, <1>2 DEF IInv, TypeOK, ChainsKnown, RequestsKnown
<1>4. EndedStay'
  BY <1>1, <1>2 DEF IInv, TypeOK, EndedStay, ReuseEndsLogins
<1>5. /\ \A g \in Handlers, c \in Tokens : Owes(g, c)' <=> Owes(g, c) \/ (g = h /\ chain[t] = c)
      /\ \A g \in Handlers, c \in Tokens : Checks(g, c)' <=> Checks(g, c) /\ g # h
      /\ Checks(h, chain[t])
  BY <1>1 DEF IInv, TypeOK, Owes, Checks
<1>6. OnePlace'
  <2> SUFFICES ASSUME NEW c \in Tokens \ raced
               PROVE  /\ \A s, r \in Live' : chain[s] = c /\ chain[r] = c => s = r
                      /\ \A f, g \in Handlers : Owes(f, c)' /\ Owes(g, c)' => f = g
                      /\ \A g \in Handlers, r \in Live' : Owes(g, c)' => chain[r] # c
                      /\ \A g \in Handlers : Checks(g, c)' =>
                           /\ \A r \in Live' : chain[r] = c => r = token[g]
                           /\ \A f \in Handlers : ~Owes(f, c)'
                           /\ \A f \in Handlers : Checks(f, c)' => f = g
    BY <1>1 DEF OnePlace
  <2>1. /\ \A s, r \in Live : chain[s] = c /\ chain[r] = c => s = r
        /\ \A f, g \in Handlers : Owes(f, c) /\ Owes(g, c) => f = g
        /\ \A g \in Handlers, r \in Live : Owes(g, c) => chain[r] # c
        /\ \A g \in Handlers : Checks(g, c) =>
             /\ \A r \in Live : chain[r] = c => r = token[g]
             /\ \A f \in Handlers : ~Owes(f, c)
             /\ \A f \in Handlers : Checks(f, c) => f = g
    BY DEF IInv, OnePlace
  <2> QED BY <1>2, <1>5, <2>1
<1> QED BY <1>3, <1>4, <1>6

LEMMA GetSessionKeeps ==
  ASSUME IInv, NEW h \in Handlers, NEW t \in Tokens, GetSession(h, t)
  PROVE  ChainsKnown' /\ RequestsKnown' /\ OnePlace' /\ EndedStay'
<1>1. /\ pc[h] = "idle" /\ t \in Issued
      /\ pc' = [pc EXCEPT ![h] = IF Revoked(t) THEN "reuse" ELSE "checked"]
      /\ user' = [user EXCEPT ![h] = owner[t]] /\ token' = [token EXCEPT ![h] = t]
      /\ UNCHANGED <<session, owner, chain, ended>>
  BY DEF GetSession, Begin, rows
<1>2. Issued' = Issued /\ Live' = Live /\ (~Revoked(t) => t \in Live)
  BY <1>1 DEF IInv, TypeOK, Issued, Live, Revoked
<1>3. ChainsKnown' /\ RequestsKnown'
  BY <1>1, <1>2, AuthAssumption DEF IInv, TypeOK, ChainsKnown, RequestsKnown
<1>4. EndedStay'
  BY <1>1, <1>2 DEF IInv, TypeOK, EndedStay, ReuseEndsLogins
<1>5. /\ \A g \in Handlers, c \in Tokens : Owes(g, c)' <=> Owes(g, c)
      /\ \A g \in Handlers, c \in Tokens :
           Checks(g, c)' <=> Checks(g, c) \/ (g = h /\ ~Revoked(t) /\ chain[t] = c)
      /\ \A g \in Handlers : g # h => token'[g] = token[g]
      /\ token'[h] = t /\ \A c \in Tokens : ~Checks(h, c)
  BY <1>1 DEF IInv, TypeOK, Owes, Checks
<1>6. /\ raced \subseteq raced'
      /\ ~Revoked(t) /\ chain[t] \notin raced' =>
           \A g \in Handlers : pc[g] = "checked" => token[g] # t
  BY DEF GetSession
<1>7. OnePlace'
  <2> SUFFICES ASSUME NEW c \in Tokens \ raced'
               PROVE  /\ \A s, r \in Live : chain[s] = c /\ chain[r] = c => s = r
                      /\ \A f, g \in Handlers : Owes(f, c)' /\ Owes(g, c)' => f = g
                      /\ \A g \in Handlers, r \in Live : Owes(g, c)' => chain[r] # c
                      /\ \A g \in Handlers : Checks(g, c)' =>
                           /\ \A r \in Live : chain[r] = c => r = token'[g]
                           /\ \A f \in Handlers : ~Owes(f, c)'
                           /\ \A f \in Handlers : Checks(f, c)' => f = g
    BY <1>1, <1>2 DEF OnePlace
  <2>1. /\ \A s, r \in Live : chain[s] = c /\ chain[r] = c => s = r
        /\ \A f, g \in Handlers : Owes(f, c) /\ Owes(g, c) => f = g
        /\ \A g \in Handlers, r \in Live : Owes(g, c) => chain[r] # c
        /\ \A g \in Handlers : Checks(g, c) =>
             /\ \A r \in Live : chain[r] = c => r = token[g]
             /\ \A f \in Handlers : ~Owes(f, c)
             /\ \A f \in Handlers : Checks(f, c) => f = g
    BY <1>6 DEF IInv, OnePlace
  <2>2. ~Revoked(t) /\ chain[t] = c => \A g \in Handlers : ~Checks(g, c)
    BY <1>2, <1>6, <2>1 DEF Checks
  <2> QED BY <1>2, <1>5, <2>1, <2>2
<1> QED BY <1>3, <1>4, <1>7

LEMMA CreateSessionKeeps ==
  ASSUME IInv, NEW h \in Handlers, NEW t \in Tokens, CreateSession(h, t)
  PROVE  ChainsKnown' /\ RequestsKnown' /\ OnePlace' /\ EndedStay'
<1> DEFINE first == IF token[h] = NoToken THEN t ELSE chain[token[h]]
<1>1. /\ pc[h] = "issuing" /\ t \notin Issued
      /\ session' = [session EXCEPT ![t] = "live"]
      /\ owner' = [owner EXCEPT ![t] = user[h]]
      /\ chain' = [chain EXCEPT ![t] = first]
      /\ pc' = [pc EXCEPT ![h] = "idle"] /\ user' = [user EXCEPT ![h] = NoUser]
      /\ token' = [token EXCEPT ![h] = NoToken]
      /\ UNCHANGED <<raced, ended>>
  BY DEF CreateSession, Finish
<1>2. /\ Issued' = Issued \cup {t} /\ Live' = Live \cup {t}
      /\ t \notin Live /\ Live \subseteq Issued /\ Issued \subseteq Tokens
  BY <1>1 DEF IInv, TypeOK, Issued, Live
<1>3. token[h] # NoToken => /\ token[h] \in Issued /\ owner[token[h]] = user[h]
                            /\ first \in Issued /\ owner[first] = user[h]
  BY DEF IInv, RequestsKnown, ChainsKnown
<1>4. /\ \A s \in Issued : chain'[s] = chain[s] /\ owner'[s] = owner[s] /\ s # t
      /\ chain'[t] = first /\ owner'[t] = user[h]
  BY <1>1, <1>2 DEF IInv, TypeOK
<1>5. ChainsKnown'
  <2>1. \A s \in Tokens \ Issued' : chain'[s] = NoToken
    BY <1>1, <1>2 DEF IInv, TypeOK, ChainsKnown
  <2>2. \A s \in Issued : chain'[s] \in Issued' /\ owner'[chain'[s]] = owner'[s]
    BY <1>2, <1>4 DEF IInv, ChainsKnown
  <2>3. chain'[t] \in Issued' /\ owner'[chain'[t]] = owner'[t]
    BY <1>2, <1>3, <1>4
  <2> QED BY <1>2, <2>1, <2>2, <2>3 DEF ChainsKnown
<1>6. /\ \A g \in Handlers \ {h} : pc'[g] = pc[g] /\ token'[g] = token[g] /\ user'[g] = user[g]
      /\ pc'[h] = "idle" /\ token'[h] = NoToken
  BY <1>1 DEF IInv, TypeOK
<1>7. RequestsKnown'
  BY <1>2, <1>4, <1>6 DEF IInv, RequestsKnown
<1>8. \A g \in Handlers \ {h} : token[g] # NoToken => chain'[token[g]] = chain[token[g]]
  BY <1>4 DEF IInv, RequestsKnown
<1>9. EndedStay'
  <2>1. ended \subseteq Issued' /\ \A s \in Live : chain'[s] \notin ended
    BY <1>2, <1>4 DEF IInv, EndedStay, ReuseEndsLogins
  <2>2. chain'[t] \notin ended
    BY <1>1, <1>4 DEF IInv, EndedStay
  <2>3. \A g \in Handlers :
          pc'[g] \in {"checked", "rotated", "issuing"} /\ token'[g] # NoToken
            => chain'[token'[g]] \notin ended
    BY <1>6, <1>8 DEF IInv, EndedStay
  <2> QED BY <1>1, <1>2, <2>1, <2>2, <2>3 DEF EndedStay, ReuseEndsLogins
<1>10. /\ \A g \in Handlers, c \in Tokens : Owes(g, c)' <=> Owes(g, c) /\ g # h
       /\ \A g \in Handlers, c \in Tokens : Checks(g, c)' <=> Checks(g, c) /\ g # h
       /\ token[h] # NoToken => Owes(h, first)
  <2>1. \A c \in Tokens : ~Owes(h, c)' /\ ~Checks(h, c)'
    BY <1>6 DEF Owes, Checks
  <2>2. ASSUME NEW g \in Handlers, g # h, NEW c \in Tokens
        PROVE  (Owes(g, c)' <=> Owes(g, c)) /\ (Checks(g, c)' <=> Checks(g, c))
    <3>1. pc[g] = "checked" => token[g] # NoToken
      BY DEF IInv, RequestsKnown
    <3> QED BY <1>6, <1>8, <2>2, <3>1 DEF Owes, Checks
  <2>3. token[h] # NoToken => Owes(h, first)
    BY <1>1 DEF Owes
  <2> HIDE DEF first
  <2> QED BY <2>1, <2>2, <2>3
<1>11. OnePlace'
  <2> SUFFICES ASSUME NEW c \in Tokens \ raced
               PROVE  /\ \A s, r \in Live' : chain'[s] = c /\ chain'[r] = c => s = r
                      /\ \A f, g \in Handlers : Owes(f, c)' /\ Owes(g, c)' => f = g
                      /\ \A g \in Handlers, r \in Live' : Owes(g, c)' => chain'[r] # c
                      /\ \A g \in Handlers : Checks(g, c)' =>
                           /\ \A r \in Live' : chain'[r] = c => r = token'[g]
                           /\ \A f \in Handlers : ~Owes(f, c)'
                           /\ \A f \in Handlers : Checks(f, c)' => f = g
    BY <1>1 DEF OnePlace
  <2>1. /\ \A s, r \in Live : chain[s] = c /\ chain[r] = c => s = r
        /\ \A f, g \in Handlers : Owes(f, c) /\ Owes(g, c) => f = g
        /\ \A g \in Handlers, r \in Live : Owes(g, c) => chain[r] # c
        /\ \A g \in Handlers : Checks(g, c) =>
             /\ \A r \in Live : chain[r] = c => r = token[g]
             /\ \A f \in Handlers : ~Owes(f, c)
             /\ \A f \in Handlers : Checks(f, c) => f = g
    BY DEF IInv, OnePlace
  <2>2. ASSUME first = c
        PROVE  /\ \A r \in Live : chain[r] # c
               /\ \A g \in Handlers : g # h => ~Owes(g, c) /\ ~Checks(g, c)
    <3>1. CASE token[h] = NoToken
      <4>1. \A r \in Issued : chain[r] # t
        BY <1>1 DEF IInv, ChainsKnown
      <4>2. \A g \in Handlers : ~Owes(g, t) /\ ~Checks(g, t)
        BY <4>1 DEF IInv, RequestsKnown, Owes, Checks
      <4> QED BY <1>2, <2>2, <3>1, <4>1, <4>2
    <3>2. CASE token[h] # NoToken
      BY <1>10, <2>1, <2>2, <3>2
    <3> QED BY <3>1, <3>2
  <2>3. \A s \in Live : chain'[s] = chain[s]
    BY <1>2, <1>4
  <2> HIDE DEF first
  <2> QED BY <1>2, <1>4, <1>6, <1>10, <2>1, <2>2, <2>3
<1> QED BY <1>5, <1>7, <1>9, <1>11

LEMMA InvStep == IInv /\ [Next]_vars => IInv'
<1> SUFFICES ASSUME IInv, [Next]_vars PROVE IInv'
  OBVIOUS
<1>1. TypeOK'
  BY TypeStep DEF IInv
<1>2. CASE \E h \in Handlers, t \in Tokens : GetSession(h, t)
  BY <1>1, <1>2, GetSessionKeeps DEF IInv
<1>3. CASE \E h \in Handlers, t \in Tokens : CreateSession(h, t)
  BY <1>1, <1>3, CreateSessionKeeps DEF IInv
<1>4. CASE \E h \in Handlers : RevokeAll(h)
  BY <1>1, <1>4, RevokeAllKeeps DEF IInv
<1>5. CASE \E h \in Handlers : RevokeSession(h)
  BY <1>1, <1>5, RevokeSessionKeeps DEF IInv
<1>6. CASE Lessens /\ ended' = ended
  BY <1>1, <1>6, LessensKeeps DEF IInv
<1> QED BY <1>2, <1>3, <1>4, <1>5, <1>6, LessSteps DEF Next, IInv

LEMMA SessionInvariant == Spec => []IInv
<1>1. QED BY InvInit, InvStep, PTL DEF Spec

\* Every variable keeps its type, and a rotated token its row, whatever requests
\* overlap (repository.go's statements).
THEOREM TypeCorrect == Spec => []TypeOK
<1>1. IInv => TypeOK
  BY DEF IInv
<1> QED BY <1>1, SessionInvariant, PTL

\* A set without two members has at most one.
LEMMA AtMostOne ==
  ASSUME NEW S, \A x, y \in S : x = y
  PROVE  /\ Cardinality(S) \in {0, 1}
         /\ Cardinality(S) = 0 <=> S = {}
<1>1. CASE S = {}
  BY <1>1, FS_EmptySet
<1>2. CASE S # {}
  <2>1. PICK x \in S : S = {x}
    BY <1>2
  <2> QED BY <2>1, FS_Singleton
<1> QED BY <1>1, <1>2

\* A login is in one place at a time: of the tokens of a chain at most one is
\* usable or owed, whatever requests and failures interleave (Refresh).
THEOREM OnePlaceAtATime == Spec => []OneLivePerChain
<1>1. IInv => OneLivePerChain
  <2> SUFFICES ASSUME IInv, NEW c \in Tokens \ raced
               PROVE  Cardinality({t \in Live : chain[t] = c}) + Cardinality(Rotating(c)) <= 1
    BY DEF OneLivePerChain
  <2> DEFINE L == {t \in Live : chain[t] = c}
  <2>1. \A s, t \in L : s = t
    BY DEF IInv, OnePlace
  <2>2. \A g, h \in Rotating(c) : g = h
    BY DEF IInv, OnePlace, Rotating, Owes
  <2>3. L = {} \/ Rotating(c) = {}
    BY DEF IInv, OnePlace, Rotating, Owes
  <2> HIDE DEF L
  <2>4. Cardinality(L) \in {0, 1} /\ (Cardinality(L) = 0 <=> L = {})
    BY <2>1, AtMostOne
  <2>5. /\ Cardinality(Rotating(c)) \in {0, 1}
        /\ Cardinality(Rotating(c)) = 0 <=> Rotating(c) = {}
    BY <2>2, AtMostOne
  <2>6. Cardinality(L) + Cardinality(Rotating(c)) <= 1
    BY <2>3, <2>4, <2>5
  <2> QED BY <2>6 DEF L
<1> QED BY <1>1, SessionInvariant, PTL

\* Reuse ends every login of the user for good, but for those being rotated at
\* that moment (RevokeAllUserSessions in Refresh).
THEOREM ReuseIsFinal == Spec => []ReuseEndsLogins
<1>1. IInv => ReuseEndsLogins
  BY DEF IInv, EndedStay
<1> QED BY <1>1, SessionInvariant, PTL
=============================================================================
