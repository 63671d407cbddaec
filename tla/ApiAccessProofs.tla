-------------------------- MODULE ApiAccessProofs ---------------------------
(***************************************************************************)
(* Proofs about ApiAccess, for any numbers of requests, tokens, secrets and *)
(* faults, any limit and any token lifetime.                               *)
(***************************************************************************)
EXTENDS ApiAccess, FiniteSetTheorems, TLAPS

(* TwoFactor by itself: what the second factor of an account keeps, for any *)
(* number of requests and secrets.                                          *)

\* A request between the check and the update of Enable2FA leaves nothing to
\* be enabled but a secret that was confirmed or set meanwhile: what makes
\* UnconfirmedOnlyByOverlap inductive.
EnablesOnlyThese ==
  \A h \in Handlers : pc[h] = "enabling" => secret \in confirmed \cup overtaken \cup {None}

SecondFactorInv ==
  TypeOK /\ EnabledHasSecret /\ UnconfirmedOnlyByOverlap /\ EnablesOnlyThese

\* The user of an account starts without a second factor.
LEMMA SecondFactorInit == Init => SecondFactorInv
BY TwoFactorAssumption
   DEF Init, SecondFactorInv, TypeOK, EnabledHasSecret, UnconfirmedOnlyByOverlap,
       EnablesOnlyThese

\* The types, action by action.
LEMMA SecondFactorTypes == TypeOK /\ [Next]_vars => TypeOK'
<1> SUFFICES ASSUME TypeOK, [Next]_vars PROVE TypeOK'
  OBVIOUS
<1> USE TwoFactorAssumption DEF TypeOK
<1>1. ASSUME NEW h \in Handlers, NEW s \in Secrets, Setup2FA(h, s) PROVE TypeOK'
  BY <1>1 DEF Setup2FA, Begin
<1>2. ASSUME NEW h \in Handlers, NEW s \in Secrets, Enable2FA(h, s) PROVE TypeOK'
  BY <1>2 DEF Enable2FA, Begin, Accepts
<1>3. ASSUME NEW h \in Handlers, NEW s \in Secrets, Disable2FA(h, s) PROVE TypeOK'
  BY <1>3 DEF Disable2FA, Begin, Accepts
<1>4. ASSUME NEW h \in Handlers, SetTOTPSecret(h) PROVE TypeOK'
  BY <1>4 DEF SetTOTPSecret, Finish
<1>5. ASSUME NEW h \in Handlers, EnableTOTP(h) \/ DisableTOTP(h) \/ Abandon(h) PROVE TypeOK'
  BY <1>5 DEF EnableTOTP, DisableTOTP, Abandon, Finish
<1>6. CASE UNCHANGED vars
  BY <1>6 DEF vars, request
<1>7. QED
  BY <1>1, <1>2, <1>3, <1>4, <1>5, <1>6 DEF Next, Exhausted

\* The invariant, action by action.
LEMMA SecondFactorStep == SecondFactorInv /\ [Next]_vars => SecondFactorInv'
<1> SUFFICES ASSUME SecondFactorInv, [Next]_vars PROVE SecondFactorInv'
  OBVIOUS
<1>0. TypeOK' /\ TypeOK
  BY SecondFactorTypes DEF SecondFactorInv
<1>1. ASSUME NEW h \in Handlers, NEW s \in Secrets, Setup2FA(h, s)
      PROVE SecondFactorInv'
  BY <1>0, <1>1, TwoFactorAssumption
     DEF SecondFactorInv, EnabledHasSecret, UnconfirmedOnlyByOverlap, EnablesOnlyThese,
         TypeOK, Setup2FA, Begin
<1>2. ASSUME NEW h \in Handlers, NEW s \in Secrets, Enable2FA(h, s)
      PROVE SecondFactorInv'
  BY <1>0, <1>2, TwoFactorAssumption
     DEF SecondFactorInv, EnabledHasSecret, UnconfirmedOnlyByOverlap, EnablesOnlyThese,
         TypeOK, Enable2FA, Begin, Accepts
<1>3. ASSUME NEW h \in Handlers, NEW s \in Secrets, Disable2FA(h, s)
      PROVE SecondFactorInv'
  BY <1>0, <1>3, TwoFactorAssumption
     DEF SecondFactorInv, EnabledHasSecret, UnconfirmedOnlyByOverlap, EnablesOnlyThese,
         TypeOK, Disable2FA, Begin, Accepts
<1>4. ASSUME NEW h \in Handlers, SetTOTPSecret(h)
      PROVE SecondFactorInv'
  BY <1>0, <1>4, TwoFactorAssumption
     DEF SecondFactorInv, EnabledHasSecret, UnconfirmedOnlyByOverlap, EnablesOnlyThese,
         TypeOK, SetTOTPSecret, Finish
<1>5. ASSUME NEW h \in Handlers, EnableTOTP(h)
      PROVE SecondFactorInv'
  BY <1>0, <1>5, TwoFactorAssumption
     DEF SecondFactorInv, EnabledHasSecret, UnconfirmedOnlyByOverlap, EnablesOnlyThese,
         TypeOK, EnableTOTP, Finish
<1>6. ASSUME NEW h \in Handlers, DisableTOTP(h)
      PROVE SecondFactorInv'
  BY <1>0, <1>6, TwoFactorAssumption
     DEF SecondFactorInv, EnabledHasSecret, UnconfirmedOnlyByOverlap, EnablesOnlyThese,
         TypeOK, DisableTOTP, Finish
<1>7. ASSUME NEW h \in Handlers, Abandon(h)
      PROVE SecondFactorInv'
  BY <1>0, <1>7, TwoFactorAssumption
     DEF SecondFactorInv, EnabledHasSecret, UnconfirmedOnlyByOverlap, EnablesOnlyThese,
         TypeOK, Abandon, Finish
<1>8. CASE UNCHANGED vars
  <2>1. UNCHANGED <<secret, enabled, pc, seen, confirmed, overtaken>>
    BY <1>8 DEF vars, request
  <2>2. (EnabledHasSecret /\ UnconfirmedOnlyByOverlap)'
    BY <2>1 DEF SecondFactorInv, EnabledHasSecret, UnconfirmedOnlyByOverlap
  <2>3. EnablesOnlyThese'
    BY <2>1 DEF SecondFactorInv, EnablesOnlyThese
  <2>4. QED
    BY <1>0, <2>2, <2>3 DEF SecondFactorInv
<1>9. QED
  BY <1>1, <1>2, <1>3, <1>4, <1>5, <1>6, <1>7, <1>8 DEF Next, Exhausted

\* However many requests overlap, an enabled second factor has a secret, which
\* the user confirmed or which was set while an Enable2FA was under way.
THEOREM SecondFactorSafe == Spec => [](EnabledHasSecret /\ UnconfirmedOnlyByOverlap)
<1>1. SecondFactorInv => EnabledHasSecret /\ UnconfirmedOnlyByOverlap
  BY DEF SecondFactorInv
<1>2. QED
  BY <1>1, SecondFactorInit, SecondFactorStep, PTL DEF Spec

----------------------------------------------------------------------------
(* ApiAccess.                                                               *)

\* A change of the account, or of something else.
Changes ==
  /\ \/ \E b \in BOOLEAN : SetUserStatus(b)
     \/ \E r \in Roles : SetUserRole(r)
     \/ UNCHANGED account
  /\ Overtakes

\* What the administrative endpoints do alike ...
Administrate(h) ==
  /\ at[h] = "accepted" /\ Changes /\ unaudited' = unaudited + 1
  /\ (Goto(h, "audit") /\ UNCHANGED faults) \/ (Answered(h) /\ Fault)
  /\ UNCHANGED <<second, limiter, left, claim, key, out, carried>>

\* ... and administrators elsewhere.
Elsewhere ==
  /\ Changes
  /\ UNCHANGED <<second, limiter, left, claim, key, local, unaudited, faults,
                 out, carried>>

LEMMA Administration ==
  /\ \A h \in Handlers : UserStatus(h) \/ UserRole(h) \/ ServerStatus(h) => Administrate(h)
  /\ OtherAdministrator \/ Grantadmin => Elsewhere
BY DEF UserStatus, UserRole, ServerStatus, MayAdministrate, Executed, Administrate, Changes,
       OtherAdministrator, Grantadmin, Elsewhere

\* The steps, as the proofs tell them apart.
Steps ==
  \/ \E h \in Handlers :
       \/ Arrive(h) \/ OpenWindow(h) \/ Login(h) \/ TelegramLogin(h) \/ Refresh(h)
       \/ \E t \in Tokens : IssueTokens(h, t) \/ Present(h, t)
       \/ Authenticate(h) \/ Logout(h) \/ SetBlacklistKey(h)
       \/ BeginSecondFactor(h) \/ EndSecondFactor(h)
       \/ Administrate(h) \/ InsertAudit(h) \/ Drop(h)
  \/ Elsewhere \/ Window \/ Clock

LEMMA NextSteps == ApiNext => Steps
BY Administration DEF ApiNext, Steps

Unidentified == {"idle", "expire", "credentials", "issue"}

\* The requests are where their locals say they are.
LocalTypes ==
  /\ at \in [Handlers -> Places] /\ tok \in [Handlers -> Tokens \cup {NoToken}]
  /\ grant \in [Handlers -> Roles \cup {"none"}] /\ ttl \in [Handlers -> 0 .. Life]
  /\ \A h \in Handlers :
       /\ (at[h] = "second") = (pc[h] # "idle")
       /\ (at[h] = "issue") = (grant[h] # "none")
       /\ (tok[h] = NoToken) = (at[h] \in Unidentified)

GlobalTypes ==
  /\ LimiterTypeOK /\ AccessTypeOK
  /\ unaudited \in Int /\ faults \in 0 .. MaxFaults
  /\ out \subseteq Tokens /\ carried \subseteq Tokens /\ carrying \subseteq Handlers

\* The type invariant in three parts.
LEMMA TypeParts == ApiTypeOK <=> TypeOK /\ LocalTypes /\ GlobalTypes
BY DEF ApiTypeOK, LocalTypes, GlobalTypes, Unidentified

\* A request that moves to another place.
LEMMA PlaceTypes ==
  ASSUME LocalTypes, NEW h \in Handlers, NEW p \in Places, NEW t \in Tokens \cup {NoToken},
         NEW g \in Roles \cup {"none"}, NEW rest \in 0 .. Life,
         (p = "issue") = (g # "none"), (t = NoToken) = (p \in Unidentified),
         Place(h, p, t, g, rest),
         \A k \in Handlers \ {h} : pc'[k] = pc[k], (p = "second") = (pc'[h] # "idle")
  PROVE  LocalTypes'
<1>1. /\ at' \in [Handlers -> Places] /\ tok' \in [Handlers -> Tokens \cup {NoToken}]
      /\ grant' \in [Handlers -> Roles \cup {"none"}] /\ ttl' \in [Handlers -> 0 .. Life]
  BY DEF LocalTypes, Place
<1>2. ASSUME NEW k \in Handlers
      PROVE  /\ (at'[k] = "second") = (pc'[k] # "idle")
             /\ (at'[k] = "issue") = (grant'[k] # "none")
             /\ (tok'[k] = NoToken) = (at'[k] \in Unidentified)
  <2>1. CASE k = h
    BY <2>1 DEF LocalTypes, Place
  <2>2. CASE k # h
    BY <2>2 DEF LocalTypes, Place
  <2>3. QED
    BY <2>1, <2>2
<1>3. QED
  BY <1>1, <1>2 DEF LocalTypes

\* The same, for a request that does nothing about the second factor.
LEMMA MoveTypes ==
  ASSUME LocalTypes, NEW h \in Handlers, NEW p \in Places, NEW t \in Tokens \cup {NoToken},
         NEW g \in Roles \cup {"none"}, NEW rest \in 0 .. Life,
         (p = "issue") = (g # "none"), (t = NoToken) = (p \in Unidentified),
         Place(h, p, t, g, rest), at[h] # "second", p # "second", pc' = pc
  PROVE  LocalTypes'
<1>1. pc[h] = "idle"
  BY DEF LocalTypes
<1>2. QED
  BY <1>1, PlaceTypes

\* A request that is answered.
LEMMA AnswerTypes ==
  ASSUME LocalTypes, NEW h \in Handlers, Answered(h), at[h] # "second", pc' = pc,
         AccessAssumption
  PROVE  LocalTypes'
BY MoveTypes DEF Answered, AccessAssumption, Places, Unidentified, Roles

\* A request that goes on with the locals it has.
LEMMA GotoTypes ==
  ASSUME LocalTypes, NEW h \in Handlers, NEW p \in Places, Goto(h, p), at[h] # "second",
         p # "second", p # "issue", at[h] # "issue", pc' = pc,
         (p \in Unidentified) = (at[h] \in Unidentified)
  PROVE  LocalTypes'
<1>1. /\ tok[h] \in Tokens \cup {NoToken} /\ grant[h] \in Roles \cup {"none"}
      /\ ttl[h] \in 0 .. Life
      /\ grant[h] = "none" /\ (tok[h] = NoToken) = (p \in Unidentified)
  BY DEF LocalTypes
<1>2. QED
  BY <1>1, MoveTypes DEF Goto

----------------------------------------------------------------------------
(* Types.                                                                   *)

\* Every step of a request is a step of TwoFactor or leaves its state alone.
LEMMA SecondStep == [ApiNext]_apiVars => [Next]_vars
<1> SUFFICES ASSUME [ApiNext]_apiVars, ~ UNCHANGED vars PROVE Next
  OBVIOUS
<1>1. \/ \E h \in Handlers : BeginSecondFactor(h)
      \/ \E h \in Handlers : EndSecondFactor(h)
  BY NextSteps DEF Steps, apiVars, second, vars, Arrive, OpenWindow, Login, TelegramLogin, Refresh,
         IssueTokens, Present, Authenticate, Logout, SetBlacklistKey, Administrate,
         InsertAudit, Drop, Elsewhere, Window, Clock
<1>2. QED
  BY <1>1 DEF BeginSecondFactor, EndSecondFactor, Next

LEMMA LimiterTypes ==
  ASSUME GlobalTypes, ApiAssumption
  PROVE  /\ Counted \in 0 .. Limit + 1
         /\ Incr \/ IncrFails \/ Expire \/ ExpireFails \/ WindowEnds => LimiterTypeOK'
<1>1. Counted \in 0 .. Limit + 1
  BY DEF GlobalTypes, LimiterTypeOK, Counted, ApiAssumption
<1>2. CASE Incr
  BY <1>1, <1>2 DEF GlobalTypes, LimiterTypeOK, Incr
<1>3. CASE IncrFails
  <2>1. hits' \in 0 .. Limit + 1
    BY <1>1, <1>3 DEF GlobalTypes, LimiterTypeOK, IncrFails, limiter
  <2>2. closing' \in BOOLEAN
    BY <1>3 DEF GlobalTypes, LimiterTypeOK, IncrFails, limiter
  <2>3. orphaned' \in BOOLEAN
    BY <1>3 DEF GlobalTypes, LimiterTypeOK, IncrFails, limiter
  <2>4. QED
    BY <1>1, <2>1, <2>2, <2>3 DEF LimiterTypeOK
<1>4. CASE Expire \/ ExpireFails \/ WindowEnds
  <2>1. hits' \in 0 .. Limit + 1
    BY <1>4 DEF GlobalTypes, LimiterTypeOK, Expire, ExpireFails, WindowEnds, ApiAssumption
  <2>2. closing' \in BOOLEAN
    <3>1. CASE Expire
      BY <3>1 DEF Expire
    <3>2. CASE ExpireFails
      BY <3>2 DEF GlobalTypes, LimiterTypeOK, ExpireFails
    <3>3. CASE WindowEnds
      BY <3>3 DEF WindowEnds
    <3>4. QED
      BY <1>4, <3>1, <3>2, <3>3
  <2>3. orphaned' \in BOOLEAN
    BY <1>4 DEF GlobalTypes, LimiterTypeOK, Expire, ExpireFails, WindowEnds
  <2>4. QED
    BY <1>1, <2>1, <2>2, <2>3 DEF LimiterTypeOK
<1>5. QED
  BY <1>1, <1>2, <1>3, <1>4

\* A change of the account, through its two updates.
LEMMA ChangesTypes ==
  ASSUME GlobalTypes, Changes, AccessAssumption, UNCHANGED <<left, claim, key>>
  PROVE  AccessTypeOK' /\ carrying' \subseteq Handlers
<1>1. ASSUME NEW b \in BOOLEAN, SetUserStatus(b) PROVE AccessTypeOK'
  <2>1. blockedFor' \in {No} \cup 0 .. Life /\ (blocked' <=> blockedFor' # No)
    <3>1. CASE ~ b
      BY <1>1, <3>1 DEF SetUserStatus, No
    <3>2. CASE b /\ blocked
      BY <1>1, <3>2 DEF GlobalTypes, AccessTypeOK, SetUserStatus, No
    <3>3. CASE b /\ ~ blocked
      BY <1>1, <3>3 DEF AccessAssumption, SetUserStatus, No
    <3>4. QED
      BY <3>1, <3>2, <3>3
  <2>2. blocked' \in BOOLEAN /\ UNCHANGED <<role, demotedFor, left, claim, key>>
    BY <1>1 DEF SetUserStatus
  <2>3. QED
    BY <2>1, <2>2 DEF GlobalTypes, AccessTypeOK
<1>2. ASSUME NEW r \in Roles, SetUserRole(r) PROVE AccessTypeOK'
  <2>1. demotedFor' \in {No} \cup 0 .. Life /\ (role' = "admin" <=> demotedFor' = No)
    BY <1>2 DEF GlobalTypes, AccessTypeOK, AccessAssumption, SetUserRole, No
  <2>2. role' \in Roles /\ UNCHANGED <<blocked, blockedFor, left, claim, key>>
    BY <1>2 DEF SetUserRole
  <2>3. QED
    BY <2>1, <2>2 DEF GlobalTypes, AccessTypeOK
<1>3. ASSUME UNCHANGED account PROVE AccessTypeOK'
  BY <1>3 DEF GlobalTypes, AccessTypeOK, account
<1>4. carrying' \subseteq Handlers
  BY DEF GlobalTypes, Changes, Overtakes
<1>5. QED
  BY <1>1, <1>2, <1>3, <1>4 DEF Changes

LEMMA TickTypes ==
  ASSUME GlobalTypes, Tick, AccessAssumption
  PROVE  AccessTypeOK'
<1>1. /\ \A n \in 0 .. Life : Sooner(n) \in 0 .. Life
      /\ \A n \in {No} \cup 0 .. Life : Older(n) \in {No} \cup 0 .. Life
      /\ \A n \in {No} \cup 0 .. Life : (n = No) = (Older(n) = No)
  BY DEF Sooner, Older, No, AccessAssumption
<1>2. left' \in [Tokens -> 0 .. Life] /\ key' \in [Tokens -> 0 .. Life]
  BY <1>1 DEF GlobalTypes, AccessTypeOK, Tick
<1>3. blockedFor' \in {No} \cup 0 .. Life /\ blocked' = (blockedFor' # No)
  BY <1>1 DEF GlobalTypes, AccessTypeOK, Tick
<1>4. demotedFor' \in {No} \cup 0 .. Life /\ (role' = "admin") = (demotedFor' = No)
  BY <1>1 DEF GlobalTypes, AccessTypeOK, Tick
<1>5. QED
  BY <1>2, <1>3, <1>4 DEF GlobalTypes, AccessTypeOK, Tick

\* The types of the request that acts, action by action.
LEMMA LocalTypesStep ==
  ASSUME ApiTypeOK, AccessAssumption, ApiAssumption, NEW h \in Handlers,
         \/ Arrive(h) \/ OpenWindow(h) \/ Login(h) \/ TelegramLogin(h) \/ Refresh(h)
         \/ \E t \in Tokens : IssueTokens(h, t) \/ Present(h, t)
         \/ Authenticate(h) \/ Logout(h) \/ SetBlacklistKey(h)
         \/ Administrate(h) \/ InsertAudit(h) \/ Drop(h)
  PROVE  LocalTypes'
<1>0. LocalTypes /\ GlobalTypes
  BY TypeParts
<1>1. ASSUME pc' = pc, Answered(h), at[h] # "second" PROVE LocalTypes'
  BY <1>0, <1>1, AnswerTypes
<1> USE DEF second, request
<1>2. CASE Arrive(h)
  <2>1. /\ at[h] = "idle" /\ pc' = pc
        /\ Goto(h, "expire") \/ Goto(h, "credentials") \/ Answered(h)
    BY <1>2 DEF Arrive
  <2>2. QED
    BY <2>1, <1>0, <1>1, GotoTypes DEF Places, Unidentified
<1>3. CASE OpenWindow(h)
  <2>1. at[h] = "expire" /\ pc' = pc /\ (Goto(h, "credentials") \/ Answered(h))
    BY <1>3 DEF OpenWindow
  <2>2. QED
    BY <2>1, <1>0, <1>1, GotoTypes DEF Places, Unidentified
<1>4. CASE Login(h) \/ TelegramLogin(h) \/ Refresh(h)
  <2>1. /\ at[h] \in {"credentials", "idle"} /\ pc' = pc
        /\ ReadsAccount(h) \/ Answered(h)
    BY <1>4 DEF Login, TelegramLogin, Refresh
  <2>2. CASE ReadsAccount(h)
    <3>1. role \in Roles /\ role # "none" /\ 0 \in 0 .. Life
      BY <1>0, AccessAssumption DEF GlobalTypes, AccessTypeOK, Roles
    <3>2. Place(h, "issue", NoToken, role, 0)
      BY <2>2 DEF ReadsAccount
    <3>3. QED
      BY <2>1, <3>1, <3>2, <1>0, MoveTypes DEF Places, Unidentified
  <2>3. QED
    BY <2>1, <2>2, <1>1
<1>5. ASSUME NEW t \in Tokens, Present(h, t) PROVE LocalTypes'
  <2>1. at[h] = "idle" /\ pc' = pc /\ Place(h, "parsed", t, "none", 0)
    BY <1>5 DEF Present
  <2>2. 0 \in 0 .. Life /\ t # NoToken
    BY AccessAssumption
  <2>3. QED
    BY <2>1, <2>2, <1>0, MoveTypes DEF Places, Unidentified
<1>6. CASE Authenticate(h)
  <2>1. at[h] = "parsed" /\ pc' = pc /\ (Goto(h, "accepted") \/ Answered(h))
    BY <1>6 DEF Authenticate
  <2>2. QED
    BY <2>1, <1>0, <1>1, GotoTypes DEF Places, Unidentified
<1>7. CASE Logout(h)
  <2>1. /\ at[h] = "accepted" /\ pc' = pc
        /\ Place(h, "blacklist", tok[h], "none", left[tok[h]]) \/ Answered(h)
    BY <1>7 DEF Logout, TimeLeft
  <2>2. tok[h] \in Tokens /\ tok[h] # NoToken
    BY <1>0, <2>1 DEF LocalTypes, Unidentified
  <2>3. left[tok[h]] \in 0 .. Life
    BY <1>0, <2>2 DEF GlobalTypes, AccessTypeOK
  <2>4. QED
    BY <2>1, <2>2, <2>3, <1>0, <1>1, MoveTypes DEF Places, Unidentified
<1>8. CASE Administrate(h)
  <2>1. at[h] = "accepted" /\ pc' = pc /\ (Goto(h, "audit") \/ Answered(h))
    BY <1>8 DEF Administrate
  <2>2. QED
    BY <2>1, <1>0, <1>1, GotoTypes DEF Places, Unidentified
<1>9. CASE SetBlacklistKey(h) \/ InsertAudit(h) \/ Drop(h) \/ \E t \in Tokens : IssueTokens(h, t)
  BY <1>1, <1>9 DEF SetBlacklistKey, InsertAudit, Drop, IssueTokens
<1>10. QED
  BY <1>2, <1>3, <1>4, <1>5, <1>6, <1>7, <1>8, <1>9

\* The types of everything else.
LEMMA GlobalTypesStep ==
  ASSUME ApiTypeOK, AccessAssumption, ApiAssumption, [ApiNext]_apiVars
  PROVE  GlobalTypes'
<1>0. LocalTypes /\ GlobalTypes
  BY TypeParts
<1>F. Fault => faults' \in 0 .. MaxFaults
  BY <1>0, ApiAssumption DEF Fault, GlobalTypes
<1>U. ASSUME UNCHANGED <<limiter, access, unaudited, history>>,
             UNCHANGED faults \/ Fault
      PROVE  GlobalTypes'
  BY <1>0, <1>F, <1>U DEF limiter, access, account, history, GlobalTypes, LimiterTypeOK,
                          AccessTypeOK
<1>L. ASSUME LimiterTypeOK', UNCHANGED <<access, unaudited, history>>,
             UNCHANGED faults \/ Fault
      PROVE  GlobalTypes'
  BY <1>0, <1>F, <1>L DEF access, account, history, GlobalTypes, AccessTypeOK
<1>1. ASSUME NEW h \in Handlers, Arrive(h) \/ OpenWindow(h) PROVE GlobalTypes'
  BY <1>0, <1>1, <1>L, LimiterTypes, ApiAssumption DEF Arrive, OpenWindow
<1>2. ASSUME NEW h \in Handlers,
             \/ Login(h) \/ TelegramLogin(h) \/ Refresh(h) \/ Authenticate(h)
             \/ BeginSecondFactor(h) \/ EndSecondFactor(h) \/ \E t \in Tokens : Present(h, t)
      PROVE GlobalTypes'
  BY <1>2, <1>U DEF Login, TelegramLogin, Refresh, Authenticate, BeginSecondFactor,
                    EndSecondFactor, Present
<1>3. ASSUME NEW h \in Handlers, NEW t \in Tokens, IssueTokens(h, t) PROVE GlobalTypes'
  <2>1. /\ left' = [left EXCEPT ![t] = Life] /\ claim' = [claim EXCEPT ![t] = grant[h]]
        /\ UNCHANGED <<limiter, account, key, unaudited, faults>>
    BY <1>3 DEF IssueTokens, IssueAccess
  <2>2. at[h] = "issue"
    BY <1>3 DEF IssueTokens
  <2>3. grant[h] \in Roles
    BY <1>0, <2>2 DEF LocalTypes
  <2>4. left' \in [Tokens -> 0 .. Life] /\ claim' \in [Tokens -> Roles]
    BY <1>0, <2>1, <2>3, AccessAssumption DEF GlobalTypes, AccessTypeOK
  <2>5. out' \subseteq Tokens /\ carried' \subseteq Tokens /\ carrying' \subseteq Handlers
    BY <1>0, <1>3 DEF IssueTokens, GlobalTypes
  <2>6. QED
    BY <1>0, <2>1, <2>4, <2>5 DEF limiter, account, GlobalTypes, LimiterTypeOK, AccessTypeOK
<1>4. ASSUME NEW h \in Handlers, Logout(h) PROVE GlobalTypes'
  <2>1. tok[h] \in Tokens
    BY <1>0, <1>4 DEF Logout, LocalTypes, Unidentified
  <2>2. out' \subseteq Tokens
    BY <1>0, <1>4, <2>1 DEF Logout, GlobalTypes
  <2>3. QED
    BY <1>0, <1>4, <2>2 DEF Logout, limiter, access, account, GlobalTypes, LimiterTypeOK,
                            AccessTypeOK
<1>5. ASSUME NEW h \in Handlers, SetBlacklistKey(h) PROVE GlobalTypes'
  <2>1. tok[h] \in Tokens /\ ttl[h] \in 0 .. Life
    BY <1>0, <1>5 DEF SetBlacklistKey, LocalTypes, Unidentified
  <2>2. key' \in [Tokens -> 0 .. Life]
    BY <1>0, <1>5, <2>1 DEF SetBlacklistKey, Blacklist, GlobalTypes, AccessTypeOK
  <2>3. out' \subseteq Tokens
    BY <1>0, <1>5, <2>1 DEF SetBlacklistKey, GlobalTypes
  <2>4. faults' \in 0 .. MaxFaults
    BY <1>0, <1>5, <1>F DEF SetBlacklistKey, GlobalTypes
  <2>5. UNCHANGED <<limiter, account, left, claim, unaudited, carrying, carried>>
    BY <1>5 DEF SetBlacklistKey
  <2>6. QED
    BY <1>0, <2>2, <2>3, <2>4, <2>5 DEF limiter, account, GlobalTypes, LimiterTypeOK,
                                        AccessTypeOK
<1>C. ASSUME Changes, UNCHANGED <<limiter, left, claim, key, out, carried>>,
             unaudited' \in Int, UNCHANGED faults \/ Fault
      PROVE  GlobalTypes'
  BY <1>0, <1>C, <1>F, ChangesTypes, AccessAssumption DEF limiter, GlobalTypes, LimiterTypeOK
<1>6. ASSUME NEW h \in Handlers, Administrate(h) PROVE GlobalTypes'
  <2>1. unaudited' \in Int
    BY <1>0, <1>6 DEF Administrate, GlobalTypes
  <2>2. QED
    BY <1>6, <2>1, <1>C DEF Administrate
<1>7. ASSUME NEW h \in Handlers, InsertAudit(h) PROVE GlobalTypes'
  BY <1>0, <1>7, <1>F DEF InsertAudit, limiter, access, account, GlobalTypes,
                          LimiterTypeOK, AccessTypeOK
<1>8. ASSUME NEW h \in Handlers, Drop(h) PROVE GlobalTypes'
  BY <1>0, <1>8 DEF Drop, limiter, access, account, GlobalTypes, LimiterTypeOK, AccessTypeOK
<1>9. CASE Elsewhere
  BY <1>0, <1>9, <1>C DEF Elsewhere, GlobalTypes
<1>10. CASE Window
  BY <1>0, <1>10, <1>L, LimiterTypes, ApiAssumption DEF Window
<1>11. CASE Clock
  BY <1>0, <1>11, TickTypes, AccessAssumption DEF Clock, limiter, history, GlobalTypes,
                                                  LimiterTypeOK
<1>12. CASE UNCHANGED apiVars
  BY <1>12, <1>U DEF apiVars
<1>13. QED
  BY <1>1, <1>2, <1>3, <1>4, <1>5, <1>6, <1>7, <1>8, <1>9, <1>10, <1>11, <1>12, NextSteps DEF Steps

\* The places of requests about the second factor.
LEMMA SecondPlaces ==
  ASSUME ApiTypeOK, AccessAssumption, NEW h \in Handlers,
         BeginSecondFactor(h) \/ EndSecondFactor(h)
  PROVE  LocalTypes'
<1>0. LocalTypes /\ TypeOK
  BY TypeParts
<1>1. CASE BeginSecondFactor(h)
  <2>1. /\ at[h] = "accepted" /\ Place(h, "second", tok[h], grant[h], ttl[h])
        /\ \E s \in Secrets : Setup2FA(h, s) \/ Enable2FA(h, s) \/ Disable2FA(h, s)
    BY <1>1 DEF BeginSecondFactor, Goto
  <2>2. \E p \in {"setup", "enabling", "disabling"} : pc' = [pc EXCEPT ![h] = p]
    BY <2>1 DEF Setup2FA, Enable2FA, Disable2FA, Begin
  <2>3. (\A k \in Handlers \ {h} : pc'[k] = pc[k]) /\ pc'[h] # "idle"
    BY <1>0, <2>2 DEF TypeOK
  <2>4. /\ tok[h] \in Tokens /\ tok[h] # NoToken /\ grant[h] \in Roles \cup {"none"}
        /\ grant[h] = "none" /\ ttl[h] \in 0 .. Life
    BY <1>0, <2>1, AccessAssumption DEF LocalTypes, Unidentified
  <2>5. QED
    BY <1>0, <2>1, <2>3, <2>4, PlaceTypes DEF Places, Unidentified
<1>2. CASE EndSecondFactor(h)
  <2>1. Place(h, "idle", NoToken, "none", 0)
    BY <1>2 DEF EndSecondFactor, Answered
  <2>2. pc' = [pc EXCEPT ![h] = "idle"]
    BY <1>2 DEF EndSecondFactor, SetTOTPSecret, EnableTOTP, DisableTOTP, Abandon, Finish
  <2>3. (\A k \in Handlers \ {h} : pc'[k] = pc[k]) /\ pc'[h] = "idle"
    BY <1>0, <2>2 DEF TypeOK
  <2>4. 0 \in 0 .. Life
    BY AccessAssumption
  <2>5. QED
    BY <1>0, <2>1, <2>3, <2>4, PlaceTypes DEF Places, Unidentified, Roles
<1>3. QED
  BY <1>1, <1>2

LEMMA ApiTypeInit == ApiInit => ApiTypeOK
<1> SUFFICES ASSUME ApiInit PROVE ApiTypeOK
  OBVIOUS
<1>1. TypeOK
  BY SecondFactorInit DEF ApiInit, SecondFactorInv
<1>2. LocalTypes
  BY AccessAssumption DEF ApiInit, Init, LocalTypes, Places, Unidentified, Roles
<1>3. AccessTypeOK
  <2>1. role \in Roles /\ blocked = FALSE /\ blockedFor = No
    BY DEF ApiInit, AccessInit
  <2>2. demotedFor \in {No} \cup 0 .. Life /\ (role = "admin" <=> demotedFor = No)
    BY AccessAssumption DEF ApiInit, AccessInit, No
  <2>3. left \in [Tokens -> 0 .. Life] /\ key \in [Tokens -> 0 .. Life]
    BY AccessAssumption DEF ApiInit, AccessInit
  <2>4. claim \in [Tokens -> Roles]
    BY DEF ApiInit, AccessInit, Roles
  <2>5. QED
    BY <2>1, <2>2, <2>3, <2>4 DEF AccessTypeOK
<1>4. LimiterTypeOK
  <2>1. hits = 0 /\ closing = FALSE /\ orphaned = FALSE
    BY DEF ApiInit, LimiterInit
  <2>2. 0 \in 0 .. Limit + 1
    BY ApiAssumption
  <2>3. QED
    BY <2>1, <2>2 DEF LimiterTypeOK
<1>5. QED
  BY <1>1, <1>2, <1>3, <1>4, TypeParts, ApiAssumption DEF ApiInit, GlobalTypes

LEMMA ApiTypeStep == ApiTypeOK /\ [ApiNext]_apiVars => ApiTypeOK'
<1> SUFFICES ASSUME ApiTypeOK, [ApiNext]_apiVars PROVE ApiTypeOK'
  OBVIOUS
<1>1. TypeOK'
  BY SecondStep, SecondFactorTypes, TypeParts
<1>2. GlobalTypes'
  BY GlobalTypesStep, AccessAssumption, ApiAssumption
<1>3. LocalTypes'
  <2>1. ASSUME UNCHANGED <<pc, local>> PROVE LocalTypes'
    BY <2>1, TypeParts DEF local, LocalTypes
  <2>2. CASE Elsewhere \/ Window \/ Clock \/ UNCHANGED apiVars
    BY <2>1, <2>2 DEF Elsewhere, Window, Clock, apiVars, second, request
  <2>3. QED
    BY <2>2, LocalTypesStep, SecondPlaces, AccessAssumption, ApiAssumption, NextSteps
       DEF Steps
<1>4. QED
  BY <1>1, <1>2, <1>3 DEF ApiTypeOK, LocalTypes, GlobalTypes, Unidentified

\* The requests, the tokens, the counter and the account keep their types.
THEOREM ApiTypes == ApiSpec => []ApiTypeOK
BY ApiTypeInit, ApiTypeStep, PTL DEF ApiSpec

----------------------------------------------------------------------------
(* The composition keeps what TwoFactor promises.                           *)

\* The API implements TwoFactor: requests, limiter, tokens and administrators
\* around it only choose when its statements run.
THEOREM ApiImplementsTwoFactor == ApiSpec => Spec
<1>1. ApiInit => Init
  BY DEF ApiInit
<1>2. QED
  BY <1>1, SecondStep, PTL DEF ApiSpec, Spec

\* An enabled second factor has a secret, which the user confirmed or which was
\* set while an Enable2FA was under way (TwoFactor).
THEOREM ApiSecondFactorSafe == ApiSpec => [](EnabledHasSecret /\ UnconfirmedOnlyByOverlap)
BY ApiImplementsTwoFactor, SecondFactorSafe, PTL

----------------------------------------------------------------------------
(* Logout.                                                                  *)

\* A key that was set, or is about to be, outlives its token.
KeysOutliveTokens ==
  /\ \A t \in out : left[t] <= key[t]
  /\ \A h \in Handlers : at[h] = "blacklist" => left[tok[h]] <= ttl[h]

LEMMA KeysStep == ApiTypeOK /\ KeysOutliveTokens /\ [ApiNext]_apiVars => KeysOutliveTokens'
<1> SUFFICES ASSUME ApiTypeOK, KeysOutliveTokens, [ApiNext]_apiVars
             PROVE  KeysOutliveTokens'
  OBVIOUS
<1>0. LocalTypes /\ GlobalTypes
  BY TypeParts
<1>A. ASSUME UNCHANGED <<left, key, out>>, NEW h \in Handlers, NEW p \in Places \ {"blacklist"},
             NEW t, NEW g, NEW rest, Place(h, p, t, g, rest)
      PROVE  KeysOutliveTokens'
  BY <1>0, <1>A DEF Place, KeysOutliveTokens, LocalTypes
<1>B. ASSUME NEW h \in Handlers, NEW p \in Places \ {"blacklist"},
             UNCHANGED <<left, key, out>>, Goto(h, p) \/ Answered(h) \/ ReadsAccount(h)
      PROVE  KeysOutliveTokens'
  BY <1>A, <1>B DEF Goto, Answered, ReadsAccount, Places
<1>1. ASSUME NEW h \in Handlers,
             \/ Arrive(h) \/ OpenWindow(h) \/ Login(h) \/ TelegramLogin(h) \/ Refresh(h)
             \/ Authenticate(h) \/ BeginSecondFactor(h) \/ EndSecondFactor(h)
             \/ Administrate(h) \/ InsertAudit(h) \/ Drop(h)
      PROVE  KeysOutliveTokens'
  BY <1>1, <1>B DEF Arrive, OpenWindow, Login, TelegramLogin, Refresh, Authenticate,
                    BeginSecondFactor, EndSecondFactor, Administrate, InsertAudit, Drop,
                    access, history, Places
<1>2. ASSUME NEW h \in Handlers, NEW t \in Tokens, Present(h, t) PROVE KeysOutliveTokens'
  BY <1>2, <1>A DEF Present, access, history, Places
<1>3. ASSUME NEW h \in Handlers, NEW t \in Tokens, IssueTokens(h, t)
      PROVE  KeysOutliveTokens'
  <2>1. /\ left' = [left EXCEPT ![t] = Life] /\ key' = key /\ out' = out \ {t}
        /\ \A g \in Handlers : tok[g] # t
    BY <1>3 DEF IssueTokens, IssueAccess
  <2>2. \A u \in out' : left'[u] <= key'[u]
    BY <1>0, <2>1 DEF KeysOutliveTokens, GlobalTypes, AccessTypeOK
  <2>3. ASSUME NEW g \in Handlers, at'[g] = "blacklist" PROVE left'[tok'[g]] <= ttl'[g]
    <3>1. at[g] = "blacklist" /\ tok'[g] = tok[g] /\ ttl'[g] = ttl[g]
      BY <1>0, <1>3, <2>3 DEF IssueTokens, Answered, Place, LocalTypes
    <3>2. tok[g] \in Tokens /\ tok[g] # t
      BY <1>0, <2>1, <3>1 DEF LocalTypes, Unidentified
    <3>3. QED
      BY <1>0, <2>1, <3>1, <3>2 DEF KeysOutliveTokens, GlobalTypes, AccessTypeOK
  <2>4. QED
    BY <2>2, <2>3 DEF KeysOutliveTokens
<1>4. ASSUME NEW h \in Handlers, Logout(h) PROVE KeysOutliveTokens'
  <2>1. tok[h] \in Tokens /\ left[tok[h]] \in 0 .. Life /\ key[tok[h]] \in 0 .. Life
    BY <1>0, <1>4 DEF Logout, LocalTypes, Unidentified, GlobalTypes, AccessTypeOK
  <2>2. CASE left[tok[h]] > 0
    BY <1>0, <1>4, <2>1, <2>2 DEF Logout, TimeLeft, Place, access, KeysOutliveTokens, LocalTypes
  <2>3. CASE ~ left[tok[h]] > 0
    <3>1. at' = [at EXCEPT ![h] = "idle"] /\ tok' = [tok EXCEPT ![h] = NoToken]
      BY <1>4, <2>3 DEF Logout, TimeLeft, Answered, Place
    <3>2. ttl' = [ttl EXCEPT ![h] = 0] /\ out' = out \cup {tok[h]} /\ UNCHANGED <<left, key>>
      BY <1>4, <2>3 DEF Logout, TimeLeft, Answered, Place, access
    <3>3. QED
      BY <1>0, <2>1, <2>3, <3>1, <3>2 DEF KeysOutliveTokens, LocalTypes
  <2>4. QED
    BY <2>2, <2>3
<1>5. ASSUME NEW h \in Handlers, SetBlacklistKey(h) PROVE KeysOutliveTokens'
  <2>1. /\ at[h] = "blacklist" /\ left' = left
        /\ key' = [key EXCEPT ![tok[h]] = ttl[h]] \/ key' = key
        /\ out' = out \/ (out' = out \cup {tok[h]} /\ key' = [key EXCEPT ![tok[h]] = ttl[h]])
    BY <1>5 DEF SetBlacklistKey, Blacklist
  <2>2. left[tok[h]] <= ttl[h] /\ tok[h] \in Tokens
    BY <1>0, <2>1 DEF KeysOutliveTokens, LocalTypes, Unidentified
  <2>3. \A t \in out' : left'[t] <= key'[t]
    BY <1>0, <2>1, <2>2 DEF KeysOutliveTokens, GlobalTypes, AccessTypeOK
  <2>4. \A g \in Handlers : at'[g] = "blacklist" =>
          at[g] = "blacklist" /\ tok'[g] = tok[g] /\ ttl'[g] = ttl[g]
    BY <1>0, <1>5 DEF SetBlacklistKey, Answered, Place, LocalTypes
  <2>5. QED
    BY <2>1, <2>3, <2>4 DEF KeysOutliveTokens
<1>6. CASE Clock
  <2>1. \A m, n \in 0 .. Life : m <= n => Sooner(m) <= Sooner(n) /\ Sooner(m) <= n
    BY DEF Sooner
  <2>2. /\ left' = [t \in Tokens |-> Sooner(left[t])] /\ key' = [t \in Tokens |-> Sooner(key[t])]
        /\ UNCHANGED <<at, tok, ttl, out>>
    BY <1>6 DEF Clock, Tick, local, history
  <2>3. \A t \in out' : left'[t] <= key'[t]
    BY <1>0, <2>1, <2>2 DEF KeysOutliveTokens, GlobalTypes, AccessTypeOK
  <2>4. ASSUME NEW h \in Handlers, at'[h] = "blacklist" PROVE left'[tok'[h]] <= ttl'[h]
    <3>1. tok[h] \in Tokens /\ ttl[h] \in 0 .. Life /\ at[h] = "blacklist"
      BY <1>0, <2>2, <2>4 DEF LocalTypes, Unidentified
    <3>2. QED
      BY <1>0, <2>1, <2>2, <3>1 DEF KeysOutliveTokens, GlobalTypes, AccessTypeOK
  <2>5. QED
    BY <2>3, <2>4 DEF KeysOutliveTokens
<1>7. CASE Elsewhere \/ Window \/ UNCHANGED apiVars
  BY <1>7 DEF Elsewhere, Window, apiVars, access, local, history, KeysOutliveTokens
<1>8. QED
  BY <1>1, <1>2, <1>3, <1>4, <1>5, <1>6, <1>7, NextSteps DEF Steps

\* The step of Authenticate that lets a request pass.
LEMMA LogoutSticksStep ==
  ASSUME ApiTypeOK, KeysOutliveTokens, [ApiNext]_apiVars, NEW h \in Handlers,
         at[h] = "parsed", at'[h] = "accepted", tok[h] \in out
  PROVE  left[tok[h]] = 0
<1>0. LocalTypes /\ GlobalTypes
  BY TypeParts
<1>1. Authenticate(h)
  <2>1. ASSUME NEW g \in Handlers, g # h, NEW p, NEW t, NEW r, NEW rest, Place(g, p, t, r, rest)
        PROVE  FALSE
    BY <1>0, <2>1 DEF Place, LocalTypes
  <2>2. ASSUME NEW g \in Handlers, Goto(g, "accepted") PROVE g = h
    BY <2>1, <2>2 DEF Goto
  <2>3. ASSUME UNCHANGED at PROVE FALSE
    BY <2>3
  <2>4. ASSUME NEW g \in Handlers, NEW p \in Places \ {"accepted"},
               Goto(g, p) \/ Answered(g) \/ ReadsAccount(g) PROVE FALSE
    BY <1>0, <2>1, <2>4 DEF Goto, Answered, ReadsAccount, Place, LocalTypes
  <2>5. QED
    BY <2>1, <2>2, <2>3, <2>4, <1>0, NextSteps DEF Steps, apiVars, local, Places, Arrive, OpenWindow,
       Login, TelegramLogin, Refresh, IssueTokens, Present, Logout, SetBlacklistKey,
       BeginSecondFactor, EndSecondFactor, Administrate, InsertAudit, Drop,
       Elsewhere, Window, Clock, Authenticate, Place, LocalTypes
<1>2. key[tok[h]] = 0
  <2>1. ~ IsBlacklisted(tok[h])
    BY <1>0, <1>1 DEF Authenticate, Answered, Place, LocalTypes
  <2>2. QED
    BY <1>0, <2>1 DEF IsBlacklisted, GlobalTypes, AccessTypeOK
<1>3. QED
  BY <1>0, <1>2 DEF KeysOutliveTokens, GlobalTypes, AccessTypeOK

\* A token that was logged out gets no request past Authenticate while it lasts,
\* whatever was delayed between the computation of the key's lifetime and SET.
THEOREM LogoutLasts == ApiSpec => LogoutSticks
<1>1. ApiInit => KeysOutliveTokens
  BY DEF ApiInit, KeysOutliveTokens
<1>2. ApiTypeOK /\ KeysOutliveTokens /\ [ApiNext]_apiVars =>
        [\A h \in Handlers :
           at[h] = "parsed" /\ at'[h] = "accepted" /\ tok[h] \in out => left[tok[h]] = 0]_apiVars
  BY LogoutSticksStep
<1>3. QED
  BY <1>1, <1>2, KeysStep, ApiTypes, PTL DEF ApiSpec, LogoutSticks

----------------------------------------------------------------------------
(* Rights that were taken away.                                             *)

\* A right taken away was taken away before the rest of the token's lifetime
\* began, or the token was issued by a request that had read it before.
RightsInv ==
  /\ \A t \in Tokens \ carried : left[t] > 0 =>
       /\ blocked => blockedFor + left[t] <= Life
       /\ role = "user" /\ claim[t] = "admin" => demotedFor + left[t] <= Life
  /\ \A h \in Handlers \ carrying : at[h] = "issue" =>
       ~ blocked /\ (grant[h] = "admin" => role = "admin")

LEMMA RightsStep == ApiTypeOK /\ RightsInv /\ [ApiNext]_apiVars => RightsInv'
<1> SUFFICES ASSUME ApiTypeOK, RightsInv, [ApiNext]_apiVars PROVE RightsInv'
  OBVIOUS
<1>0. LocalTypes /\ GlobalTypes /\ AccessTypeOK
  BY TypeParts DEF GlobalTypes
<1>A. ASSUME UNCHANGED <<account, left, claim, carried>>, carrying \subseteq carrying'
                           \/ (\E h \in Handlers : at'[h] = "idle" /\ carrying' = carrying \ {h}),
             \A h \in Handlers : at'[h] = "issue" => at[h] = "issue" /\ grant'[h] = grant[h]
      PROVE  RightsInv'
  BY <1>A DEF account, RightsInv
<1>B. ASSUME UNCHANGED <<account, left, claim, carried, carrying>>, NEW h \in Handlers,
             NEW p \in Places \ {"issue"}, Goto(h, p) \/ Answered(h)
      PROVE  RightsInv'
  BY <1>0, <1>A, <1>B DEF Goto, Answered, Place, LocalTypes, Places
<1>1. ASSUME NEW h \in Handlers,
             \/ Arrive(h) \/ OpenWindow(h) \/ Authenticate(h) \/ BeginSecondFactor(h)
             \/ EndSecondFactor(h) \/ InsertAudit(h)
      PROVE  RightsInv'
  BY <1>1, <1>B DEF Arrive, OpenWindow, Authenticate, BeginSecondFactor, EndSecondFactor,
                    InsertAudit, access, history, Places
<1>2. ASSUME NEW h \in Handlers, Login(h) \/ TelegramLogin(h) \/ Refresh(h) PROVE RightsInv'
  <2>1. UNCHANGED <<account, left, claim, carried, carrying>>
    BY <1>2 DEF Login, TelegramLogin, Refresh, access, history
  <2>2. CASE Answered(h)
    BY <2>1, <2>2, <1>0, <1>A DEF Answered, Place, LocalTypes
  <2>3. CASE ReadsAccount(h) /\ ~ blocked
    <3>1. \A g \in Handlers \ {h} : at'[g] = at[g] /\ grant'[g] = grant[g]
      BY <1>0, <2>3 DEF ReadsAccount, Place, LocalTypes
    <3>2. grant'[h] = role
      BY <1>0, <2>3 DEF ReadsAccount, Place, LocalTypes
    <3>3. QED
      BY <2>1, <2>3, <3>1, <3>2 DEF account, RightsInv
  <2>4. QED
    BY <1>2, <2>2, <2>3 DEF Login, MayLogin, TelegramLogin, Refresh
<1>3. ASSUME NEW h \in Handlers, NEW t \in Tokens, Present(h, t) PROVE RightsInv'
  BY <1>0, <1>3, <1>A DEF Present, Place, access, history, LocalTypes
<1>4. ASSUME NEW h \in Handlers, NEW t \in Tokens, IssueTokens(h, t) PROVE RightsInv'
  <2>1. /\ left' = [left EXCEPT ![t] = Life] /\ claim' = [claim EXCEPT ![t] = grant[h]]
        /\ UNCHANGED account /\ carrying' = carrying \ {h} /\ at[h] = "issue"
        /\ carried' = IF h \in carrying THEN carried \cup {t} ELSE carried \ {t}
    BY <1>4 DEF IssueTokens, IssueAccess
  <2>2. \A g \in Handlers : at'[g] = "issue" =>
          g # h /\ at[g] = "issue" /\ grant'[g] = grant[g]
    BY <1>0, <1>4 DEF IssueTokens, Answered, Place, LocalTypes
  <2>3. ASSUME NEW u \in Tokens \ carried', left'[u] > 0
        PROVE  /\ blocked' => blockedFor' + left'[u] <= Life
               /\ role' = "user" /\ claim'[u] = "admin" => demotedFor' + left'[u] <= Life
    <3>1. CASE u # t
      BY <1>0, <2>1, <2>3, <3>1 DEF account, AccessTypeOK, RightsInv
    <3>2. CASE u = t
      <4>1. h \notin carrying
        BY <2>1, <2>3, <3>2
      <4>2. ~ blocked' /\ (grant[h] = "admin" => role' = "admin")
        BY <2>1, <4>1 DEF account, RightsInv
      <4>3. claim'[t] = grant[h]
        BY <1>0, <2>1 DEF AccessTypeOK
      <4>4. QED
        BY <3>2, <4>2, <4>3
    <3>3. QED
      BY <3>1, <3>2
  <2>4. QED
    BY <2>1, <2>2, <2>3 DEF account, RightsInv
<1>5. ASSUME NEW h \in Handlers, Logout(h) \/ SetBlacklistKey(h) \/ Drop(h) PROVE RightsInv'
  <2>1. \A g \in Handlers : at'[g] = "issue" => at[g] = "issue" /\ grant'[g] = grant[g]
    BY <1>0, <1>5 DEF Logout, SetBlacklistKey, Drop, Answered, Place, LocalTypes
  <2>2. CASE Logout(h) \/ SetBlacklistKey(h)
    BY <2>1, <2>2, <1>A DEF Logout, SetBlacklistKey, access
  <2>3. CASE Drop(h)
    BY <1>0, <2>1, <2>3, <1>A DEF Drop, Answered, Place, LocalTypes, access
  <2>4. QED
    BY <1>5, <2>2, <2>3
<1>C. ASSUME Changes, UNCHANGED <<left, claim, carried>>,
             \A h \in Handlers : at'[h] = "issue" => at[h] = "issue" /\ grant'[h] = grant[h]
      PROVE  RightsInv'
  <2>1. carrying \subseteq carrying'
    BY <1>C DEF Changes, Overtakes
  <2>2. CASE UNCHANGED account
    BY <1>A, <1>C, <2>1, <2>2
  <2>3. ASSUME NEW b \in BOOLEAN, SetUserStatus(b) PROVE RightsInv'
    <3>1. /\ blocked' = b /\ UNCHANGED <<role, demotedFor>>
          /\ blockedFor' = IF ~ b THEN No ELSE IF blocked THEN blockedFor ELSE 0
      BY <2>3 DEF SetUserStatus
    <3>2. \A t \in Tokens \ carried' : left'[t] > 0 =>
            /\ blocked' => blockedFor' + left'[t] <= Life
            /\ role' = "user" /\ claim'[t] = "admin" => demotedFor' + left'[t] <= Life
      BY <1>0, <1>C, <3>1 DEF RightsInv, AccessTypeOK
    <3>3. \A h \in Handlers \ carrying' : at'[h] = "issue" =>
            ~ blocked' /\ (grant'[h] = "admin" => role' = "admin")
      <4>1. CASE b /\ ~ blocked
        BY <1>C, <3>1, <4>1 DEF Changes, Overtakes
      <4>2. CASE ~ b \/ blocked
        BY <1>C, <2>1, <3>1, <4>2 DEF RightsInv
      <4>3. QED
        BY <4>1, <4>2
    <3>4. QED
      BY <3>2, <3>3 DEF RightsInv
  <2>4. ASSUME NEW r \in Roles, SetUserRole(r) PROVE RightsInv'
    <3>1. /\ role' = r /\ UNCHANGED <<blocked, blockedFor>>
          /\ demotedFor' = IF r = "admin" THEN No
                           ELSE IF role = "admin" THEN 0 ELSE demotedFor
      BY <2>4 DEF SetUserRole
    <3>2. \A t \in Tokens \ carried' : left'[t] > 0 =>
            /\ blocked' => blockedFor' + left'[t] <= Life
            /\ role' = "user" /\ claim'[t] = "admin" => demotedFor' + left'[t] <= Life
      BY <1>0, <1>C, <3>1 DEF RightsInv, AccessTypeOK, Roles
    <3>3. \A h \in Handlers \ carrying' : at'[h] = "issue" =>
            ~ blocked' /\ (grant'[h] = "admin" => role' = "admin")
      <4>1. CASE role = "admin" /\ r # "admin"
        BY <1>C, <3>1, <4>1 DEF Changes, Overtakes
      <4>2. CASE ~ (role = "admin" /\ r # "admin")
        BY <1>C, <2>1, <3>1, <4>2 DEF RightsInv
      <4>3. QED
        BY <4>1, <4>2
    <3>4. QED
      BY <3>2, <3>3 DEF RightsInv
  <2>5. QED
    BY <1>C, <2>2, <2>3, <2>4 DEF Changes
<1>6. ASSUME NEW h \in Handlers, Administrate(h) PROVE RightsInv'
  <2>1. \A g \in Handlers : at'[g] = "issue" => at[g] = "issue" /\ grant'[g] = grant[g]
    BY <1>0, <1>6 DEF Administrate, Goto, Answered, Place, LocalTypes
  <2>2. QED
    BY <1>6, <2>1, <1>A, <1>C DEF Administrate
<1>7. CASE Elsewhere
  BY <1>7, <1>C DEF Elsewhere, local
<1>8. CASE Clock
  <2>1. /\ left' = [t \in Tokens |-> Sooner(left[t])] /\ claim' = claim /\ carried' = carried
        /\ blockedFor' = Older(blockedFor) /\ demotedFor' = Older(demotedFor)
        /\ UNCHANGED <<role, blocked, at, grant, carrying>>
    BY <1>8 DEF Clock, Tick, local, history
  <2>2. \A n \in 0 .. Life, age \in {No} \cup 0 .. Life : Sooner(n) > 0 /\ age + n <= Life =>
          n > 0 /\ Older(age) + Sooner(n) <= Life
    BY AccessAssumption DEF Sooner, Older, No
  <2>3. \A n \in 0 .. Life : Sooner(n) > 0 => n > 0
    BY DEF Sooner
  <2>4. ASSUME NEW t \in Tokens \ carried, left'[t] > 0
        PROVE  /\ blocked => blockedFor' + left'[t] <= Life
               /\ role = "user" /\ claim[t] = "admin" => demotedFor' + left'[t] <= Life
    <3>1. left[t] \in 0 .. Life /\ left'[t] = Sooner(left[t]) /\ left[t] > 0
      BY <1>0, <2>1, <2>3, <2>4 DEF AccessTypeOK
    <3>2. blockedFor \in {No} \cup 0 .. Life /\ demotedFor \in {No} \cup 0 .. Life
      BY <1>0 DEF AccessTypeOK
    <3>3. QED
      BY <2>1, <2>2, <2>4, <3>1, <3>2 DEF RightsInv
  <2>5. QED
    BY <2>1, <2>4 DEF RightsInv
<1>9. CASE Window \/ UNCHANGED apiVars
  BY <1>9, <1>A DEF Window, apiVars, access, local, history
<1>10. QED
  BY <1>1, <1>2, <1>3, <1>4, <1>5, <1>6, <1>7, <1>8, <1>9, NextSteps DEF Steps

\* A right that was taken away is gone from every token after one lifetime,
\* but from those issued on an earlier reading of the account.
THEOREM RightsEnd == ApiSpec => []RightsEndWithTokens
<1>1. ApiInit => RightsInv
  BY AccessAssumption DEF ApiInit, AccessInit, RightsInv
<1>2. ApiTypeOK /\ RightsInv => RightsEndWithTokens
  <2> SUFFICES ASSUME ApiTypeOK, RightsInv, NEW t \in Tokens \ carried, ParseAccess(t)
               PROVE  /\ blocked => blockedFor < Life
                      /\ role = "user" /\ claim[t] = "admin" => demotedFor < Life
    BY DEF RightsEndWithTokens
  <2>1. /\ left[t] \in 0 .. Life /\ left[t] > 0
        /\ blockedFor \in {No} \cup 0 .. Life /\ demotedFor \in {No} \cup 0 .. Life
    BY TypeParts DEF GlobalTypes, AccessTypeOK, ParseAccess
  <2>2. QED
    BY <2>1, AccessAssumption DEF RightsInv, No
<1>3. QED
  BY <1>1, <1>2, RightsStep, ApiTypes, PTL DEF ApiSpec

----------------------------------------------------------------------------
(* The limiter's window.                                                    *)

\* What an INCR does that returns an error.
LEMMA IncrFailsStep ==
  ASSUME IncrFails, LimiterTypeOK
  PROVE  closing' = closing /\ (orphaned => orphaned') /\ (hits = 0 => hits' = 0 \/ orphaned')
<1>1. CASE UNCHANGED limiter
  BY <1>1 DEF limiter
<1>2. CASE hits' = Counted /\ orphaned' = (orphaned \/ hits = 0) /\ UNCHANGED closing
  <2>1. CASE orphaned \/ hits = 0
    <3>1. orphaned' = TRUE
      BY <1>2, <2>1
    <3>2. QED
      BY <1>2, <3>1
  <2>2. QED
    BY <1>2, <2>1
<1>3. QED
  BY <1>1, <1>2 DEF IncrFails

LEMMA WindowStep == ApiTypeOK /\ WindowWillClose /\ [ApiNext]_apiVars => WindowWillClose'
<1> SUFFICES ASSUME ApiTypeOK, WindowWillClose, [ApiNext]_apiVars PROVE WindowWillClose'
  OBVIOUS
<1>0. LocalTypes /\ GlobalTypes /\ LimiterTypeOK /\ hits \in Nat
  BY TypeParts, ApiAssumption DEF GlobalTypes, LimiterTypeOK
<1>A. ASSUME UNCHANGED limiter, \A h \in Handlers : at[h] = "expire" => at'[h] = "expire"
      PROVE  WindowWillClose'
  BY <1>A DEF limiter, WindowWillClose
<1>1. ASSUME NEW h \in Handlers, Arrive(h) PROVE WindowWillClose'
  <2>1. at[h] = "idle" /\ \A g \in Handlers : at[g] = "expire" => at'[g] = "expire"
    BY <1>0, <1>1 DEF Arrive, Goto, Answered, Place, LocalTypes
  <2>2. CASE hits = 0
    <3>1. CASE Incr
      <4>1. Counted = 1 \/ hits > Limit
        BY <2>2 DEF Counted
      <4>2. Counted = 1
        BY <2>2, ApiAssumption DEF Counted
      <4>3. CASE Goto(h, "expire")
        BY <1>0, <4>3 DEF Goto, Place, LocalTypes, WindowWillClose
      <4>4. CASE Fault /\ IncrFails
        BY <1>0, <2>2, <4>4, IncrFailsStep DEF WindowWillClose
      <4>5. QED
        BY <1>1, <4>2, <4>3, <4>4 DEF Arrive, OpensWindow
    <3>2. CASE IncrFails
      BY <1>0, <2>2, <3>2, IncrFailsStep DEF WindowWillClose
    <3>3. QED
      BY <1>1, <3>1, <3>2 DEF Arrive
  <2>3. CASE hits > 0
    <3>1. closing \/ orphaned \/ \E g \in Handlers : at'[g] = "expire"
      BY <2>1, <2>3 DEF WindowWillClose
    <3>2. closing' = closing /\ (orphaned => orphaned')
      BY <1>0, <1>1, IncrFailsStep DEF Arrive, Incr
    <3>3. QED
      BY <3>1, <3>2 DEF WindowWillClose
  <2>4. QED
    BY <1>0, <2>2, <2>3
<1>2. ASSUME NEW h \in Handlers, OpenWindow(h) PROVE WindowWillClose'
  BY <1>2 DEF OpenWindow, Expire, ExpireFails, WindowWillClose
<1>3. ASSUME NEW h \in Handlers,
             \/ Login(h) \/ TelegramLogin(h) \/ Refresh(h) \/ Authenticate(h) \/ Logout(h)
             \/ SetBlacklistKey(h) \/ BeginSecondFactor(h) \/ EndSecondFactor(h)
             \/ Administrate(h) \/ InsertAudit(h) \/ Drop(h)
             \/ \E t \in Tokens : IssueTokens(h, t) \/ Present(h, t)
      PROVE  WindowWillClose'
  <2>1. at[h] # "expire" /\ UNCHANGED limiter
    BY <1>3 DEF Login, TelegramLogin, Refresh, Authenticate, Logout, SetBlacklistKey,
                BeginSecondFactor, EndSecondFactor, Administrate, InsertAudit, Drop,
                IssueTokens, Present
  <2>2. \E p \in Places : \E t, g, rest : Place(h, p, t, g, rest)
    BY <1>3 DEF Login, TelegramLogin, Refresh, Authenticate, Logout, SetBlacklistKey,
                BeginSecondFactor, EndSecondFactor, Administrate, InsertAudit, Drop,
                IssueTokens, Present, ReadsAccount, Goto, Answered, Places
  <2>3. \A g \in Handlers : at[g] = "expire" => at'[g] = "expire"
    BY <1>0, <2>1, <2>2 DEF Place, LocalTypes
  <2>4. QED
    BY <1>A, <2>1, <2>3
<1>4. CASE Window
  BY <1>4 DEF Window, WindowEnds, WindowWillClose
<1>5. CASE Elsewhere \/ Clock \/ UNCHANGED apiVars
  BY <1>5, <1>A DEF Elsewhere, Clock, apiVars, local
<1>6. QED
  BY <1>1, <1>2, <1>3, <1>4, <1>5, NextSteps DEF Steps

\* A counter without an expiry is one whose EXPIRE is still to come or failed.
THEOREM WindowCloses == ApiSpec => []WindowWillClose
<1>1. ApiInit => WindowWillClose
  BY DEF ApiInit, LimiterInit, WindowWillClose
<1>2. QED
  BY <1>1, WindowStep, ApiTypes, PTL DEF ApiSpec

----------------------------------------------------------------------------
(* The audit log.                                                           *)

Auditing == {h \in Handlers : at[h] = "audit"}

\* How the number of requests that are still to insert their row changes.
LEMMA AuditingCount ==
  ASSUME LocalTypes, ApiAssumption, NEW h \in Handlers, NEW p, NEW t, NEW g, NEW rest,
         Place(h, p, t, g, rest)
  PROVE  /\ Cardinality(Auditing) \in Nat /\ Cardinality(Auditing') \in Nat
         /\ at[h] # "audit" /\ p # "audit" => Cardinality(Auditing') = Cardinality(Auditing)
         /\ at[h] # "audit" /\ p = "audit" => Cardinality(Auditing') = Cardinality(Auditing) + 1
         /\ at[h] = "audit" /\ p # "audit" => Cardinality(Auditing') = Cardinality(Auditing) - 1
<1>1. IsFiniteSet(Auditing) /\ IsFiniteSet(Auditing')
  BY FS_Subset, ApiAssumption DEF Auditing
<1>2. Cardinality(Auditing) \in Nat /\ Cardinality(Auditing') \in Nat
  BY <1>1, FS_CardinalityType
<1>3. ASSUME at[h] # "audit", p # "audit" PROVE Auditing' = Auditing
  BY <1>3 DEF Place, LocalTypes, Auditing
<1>4. ASSUME at[h] # "audit", p = "audit" PROVE Auditing' = Auditing \cup {h} /\ h \notin Auditing
  BY <1>4 DEF Place, LocalTypes, Auditing
<1>5. ASSUME at[h] = "audit", p # "audit" PROVE Auditing' = Auditing \ {h} /\ h \in Auditing
  BY <1>5 DEF Place, LocalTypes, Auditing
<1>6. QED
  BY <1>1, <1>2, <1>3, <1>4, <1>5, FS_AddElement, FS_RemoveElement

LEMMA AuditStep == ApiTypeOK /\ AuditComplete /\ [ApiNext]_apiVars => AuditComplete'
<1> SUFFICES ASSUME ApiTypeOK, AuditComplete, [ApiNext]_apiVars PROVE AuditComplete'
  OBVIOUS
<1>0. LocalTypes /\ GlobalTypes /\ unaudited \in Int /\ faults \in Nat
  BY TypeParts, ApiAssumption DEF GlobalTypes
<1>1. AuditComplete <=> unaudited <= Cardinality(Auditing) + faults
  BY DEF AuditComplete, Auditing
<1>2. AuditComplete' <=> unaudited' <= Cardinality(Auditing') + faults'
  BY DEF AuditComplete, Auditing
<1>F. Fault => faults' = faults + 1
  BY DEF Fault
<1>3. ASSUME NEW h \in Handlers,
             \/ Arrive(h) \/ OpenWindow(h) \/ Login(h) \/ TelegramLogin(h) \/ Refresh(h)
             \/ Authenticate(h) \/ Logout(h) \/ SetBlacklistKey(h) \/ BeginSecondFactor(h)
             \/ EndSecondFactor(h) \/ Drop(h)
             \/ \E t \in Tokens : IssueTokens(h, t) \/ Present(h, t)
      PROVE  AuditComplete'
  <2>1. at[h] # "audit" /\ unaudited' = unaudited /\ (faults' = faults \/ Fault)
    BY <1>3 DEF Arrive, OpenWindow, Login, TelegramLogin, Refresh, Authenticate, Logout,
                SetBlacklistKey, BeginSecondFactor, EndSecondFactor, Drop, IssueTokens, Present
  <2>2. \E p \in Places \ {"audit"} : \E t, g, rest : Place(h, p, t, g, rest)
    BY <1>3 DEF Arrive, OpenWindow, Login, TelegramLogin, Refresh, Authenticate, Logout,
                SetBlacklistKey, BeginSecondFactor, EndSecondFactor, Drop, IssueTokens,
                Present, ReadsAccount, Goto, Answered, Places
  <2>3. Cardinality(Auditing') = Cardinality(Auditing) /\ Cardinality(Auditing) \in Nat
    BY <1>0, <2>1, <2>2, AuditingCount, ApiAssumption
  <2>4. QED
    BY <1>0, <1>1, <1>2, <1>F, <2>1, <2>3
<1>4. ASSUME NEW h \in Handlers, Administrate(h) PROVE AuditComplete'
  <2>1. at[h] = "accepted"
    BY <1>4 DEF Administrate
  <2>2. CASE Goto(h, "audit") /\ unaudited' = unaudited + 1 /\ faults' = faults
    <3>1. Cardinality(Auditing') = Cardinality(Auditing) + 1 /\ Cardinality(Auditing) \in Nat
      BY <1>0, <2>1, <2>2, AuditingCount, ApiAssumption DEF Goto
    <3>2. QED
      BY <1>0, <1>1, <1>2, <2>2, <3>1
  <2>3. CASE /\ Answered(h)
             /\ (faults' = faults + 1 /\ unaudited' = unaudited + 1)
                  \/ UNCHANGED <<unaudited, faults>>
    <3>1. Cardinality(Auditing') = Cardinality(Auditing) /\ Cardinality(Auditing) \in Nat
      BY <1>0, <2>1, <2>3, AuditingCount, ApiAssumption DEF Answered
    <3>2. QED
      BY <1>0, <1>1, <1>2, <2>3, <3>1
  <2>4. QED
    BY <1>4, <1>F, <2>2, <2>3 DEF Administrate
<1>5. ASSUME NEW h \in Handlers, InsertAudit(h) PROVE AuditComplete'
  <2>1. at[h] = "audit" /\ Answered(h)
    BY <1>5 DEF InsertAudit
  <2>2. Cardinality(Auditing') = Cardinality(Auditing) - 1 /\ Cardinality(Auditing) \in Nat
    BY <1>0, <2>1, AuditingCount, ApiAssumption DEF Answered
  <2>3. \/ unaudited' = unaudited - 1 /\ faults' = faults
        \/ unaudited' = unaudited /\ faults' = faults + 1
    BY <1>5, <1>F DEF InsertAudit
  <2>4. QED
    BY <1>0, <1>1, <1>2, <2>2, <2>3
<1>6. CASE Elsewhere \/ Window \/ Clock \/ UNCHANGED apiVars
  BY <1>6 DEF Elsewhere, Window, Clock, apiVars, local, AuditComplete
<1>7. QED
  BY <1>3, <1>4, <1>5, <1>6, NextSteps DEF Steps

\* Every administrative change has its row in audit_log, but for those whose
\* request is still to insert it or met a failure.
THEOREM AuditIsComplete == ApiSpec => []AuditComplete
<1>1. ApiInit => AuditComplete
  <2> SUFFICES ASSUME ApiInit PROVE AuditComplete
    OBVIOUS
  <2>1. {h \in Handlers : at[h] = "audit"} = {}
    BY DEF ApiInit
  <2>2. QED
    BY <2>1, FS_EmptySet DEF ApiInit, AuditComplete
<1>2. QED
  BY <1>1, AuditStep, ApiTypes, PTL DEF ApiSpec
=============================================================================
