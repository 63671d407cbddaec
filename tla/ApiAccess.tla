----------------------------- MODULE ApiAccess ------------------------------
(***************************************************************************)
(* The API as one account sees it: requests that pass the rate limiter to  *)
(* log in, requests that pass the authentication middleware to log out, to *)
(* manage the second factor or to administrate, and the administrators and *)
(* the clock around them.  It composes RateLimiter, AccessTokens and       *)
(* TwoFactor (internal/auth/handler.go and middleware.go,                  *)
(* internal/admin/handler.go); refresh tokens are AuthSessions' subject.   *)
(*                                                                         *)
(* A request is at one place at a time; while TwoFactor runs its statements *)
(* that place is "second".                                                 *)
(***************************************************************************)
EXTENDS TwoFactor, RateLimiter, AccessTokens, FiniteSets

CONSTANT MaxFaults   \* bound: calls to Redis or the database that fail

ASSUME ApiAssumption == MaxFaults \in Nat /\ Limit \in Nat /\ IsFiniteSet(Handlers)

VARIABLES
  at, tok,      \* each request: its place, and the access token presented
  grant, ttl,   \* the role read for a new token; what is left of one logged out
  unaudited,    \* administrative changes without a row in audit_log
  faults,
  out,                \* history: tokens whose logout was answered 200
  carrying, carried   \* history: requests that read the account before it last
                      \* lost a right, and the tokens they issued

local   == <<at, tok, grant, ttl>>
second  == <<secret, enabled, generated, request, confirmed, overtaken>>
history == <<out, carrying, carried>>
apiVars == <<second, limiter, access, local, unaudited, faults, history>>

Places == {"idle", "expire", "credentials", "issue", "parsed", "accepted",
           "blacklist", "second", "audit"}

\* Type invariant; each request is where its locals say it is.
ApiTypeOK ==
  /\ TypeOK /\ LimiterTypeOK /\ AccessTypeOK
  /\ at \in [Handlers -> Places] /\ tok \in [Handlers -> Tokens \cup {NoToken}]
  /\ grant \in [Handlers -> Roles \cup {"none"}] /\ ttl \in [Handlers -> 0 .. Life]
  /\ unaudited \in Int /\ faults \in 0 .. MaxFaults
  /\ out \subseteq Tokens /\ carried \subseteq Tokens /\ carrying \subseteq Handlers
  /\ \A h \in Handlers :
       /\ (at[h] = "second") = (pc[h] # "idle")
       /\ (at[h] = "issue") = (grant[h] # "none")
       /\ (tok[h] = NoToken) = (at[h] \in {"idle", "expire", "credentials", "issue"})

ApiInit ==
  /\ Init /\ LimiterInit /\ AccessInit
  /\ at = [h \in Handlers |-> "idle"] /\ tok = [h \in Handlers |-> NoToken]
  /\ grant = [h \in Handlers |-> "none"] /\ ttl = [h \in Handlers |-> 0]
  /\ unaudited = 0 /\ faults = 0
  /\ out = {} /\ carrying = {} /\ carried = {}

----------------------------------------------------------------------------
Place(h, p, t, g, rest) ==
  /\ at' = [at EXCEPT ![h] = p] /\ tok' = [tok EXCEPT ![h] = t]
  /\ grant' = [grant EXCEPT ![h] = g] /\ ttl' = [ttl EXCEPT ![h] = rest]

Goto(h, p) == Place(h, p, tok[h], grant[h], ttl[h])

\* The request is answered.
Answered(h) == Place(h, "idle", NoToken, "none", 0)

Fault == faults < MaxFaults /\ faults' = faults + 1

----------------------------------------------------------------------------
(* Login, register and Telegram login: the limiter, the credentials, the    *)
(* tokens.                                                                  *)

\* RateLimiter.Middleware: a call to Redis that fails lets the request pass.
Arrive(h) ==
  /\ at[h] = "idle"
  /\ \/ /\ Incr /\ UNCHANGED faults
        /\ IF OpensWindow(Counted) THEN Goto(h, "expire")
           ELSE IF Admitted(Counted) THEN Goto(h, "credentials") ELSE Answered(h)
     \/ Fault /\ IncrFails /\ Goto(h, "credentials")
  /\ UNCHANGED <<second, access, unaudited, history>>

\* The EXPIRE of the request that opened the window; it is not sent either when
\* the client goes away first.
OpenWindow(h) ==
  /\ at[h] = "expire"
  /\ \/ Expire /\ Goto(h, "credentials") /\ UNCHANGED faults
     \/ Fault /\ ExpireFails /\ (Goto(h, "credentials") \/ Answered(h))
  /\ UNCHANGED <<second, access, unaudited, history>>

\* GetAuthByEmail, GetUserByTelegramID or GetUserByID.
ReadsAccount(h) == Place(h, "issue", NoToken, role, 0)

\* Login's tests of the status and of the second factor: the user may give any
\* code there is a secret for, or none.
MayLogin == ~ blocked /\ (enabled => \E code \in generated : Accepts(code))

Login(h) ==
  /\ at[h] = "credentials"
  /\ (MayLogin /\ ReadsAccount(h)) \/ Answered(h)
  /\ UNCHANGED <<second, limiter, access, unaudited, faults, history>>

\* TelegramLogin asks for no second factor; Register makes the account.
TelegramLogin(h) ==
  /\ at[h] = "credentials" /\ ~ blocked
  /\ ReadsAccount(h)
  /\ UNCHANGED <<second, limiter, access, unaudited, faults, history>>

\* A mistake: the user's status is not looked at.
Refresh_Unchecked(h) ==
  /\ at[h] = "idle"
  /\ ReadsAccount(h)
  /\ UNCHANGED <<second, limiter, access, unaudited, faults, history>>

\* Refresh, from its GetUserByID on.
Refresh(h) ==
  /\ at[h] = "idle" /\ ~ blocked
  /\ ReadsAccount(h)
  /\ UNCHANGED <<second, limiter, access, unaudited, faults, history>>

\* issueTokens.  When CreateSession fails the token is never handed out.
IssueTokens(h, t) ==
  /\ at[h] = "issue"
  /\ IssueAccess(t, grant[h]) /\ \A g \in Handlers : tok[g] # t
  /\ out' = out \ {t}
  /\ carried' = IF h \in carrying THEN carried \cup {t} ELSE carried \ {t}
  /\ carrying' = carrying \ {h}
  /\ Answered(h)
  /\ UNCHANGED <<second, limiter, account, key, unaudited, faults>>

----------------------------------------------------------------------------
(* Requests that present a token.                                           *)

\* Authenticate: ParseAccess ...
Present(h, t) ==
  /\ at[h] = "idle" /\ ParseAccess(t)
  /\ Place(h, "parsed", t, "none", 0)
  /\ UNCHANGED <<second, limiter, access, unaudited, faults, history>>

\* ... and IsBlacklisted; the request is refused as well when Redis fails.
Authenticate(h) ==
  /\ at[h] = "parsed"
  /\ \/ (IF IsBlacklisted(tok[h]) THEN Answered(h) ELSE Goto(h, "accepted"))
        /\ UNCHANGED faults
     \/ Fault /\ Answered(h)
  /\ UNCHANGED <<second, limiter, access, unaudited, history>>

\* Logout of a token that has just expired needs no key ...
Logout(h) ==
  /\ at[h] = "accepted"
  /\ IF TimeLeft(tok[h]) > 0
     THEN Place(h, "blacklist", tok[h], "none", TimeLeft(tok[h])) /\ UNCHANGED out
     ELSE Answered(h) /\ out' = out \cup {tok[h]}
  /\ UNCHANGED <<second, limiter, access, unaudited, faults, carrying, carried>>

\* ... and otherwise SET, whose error is the answer.
SetBlacklistKey(h) ==
  /\ at[h] = "blacklist"
  /\ \/ /\ Blacklist(tok[h], ttl[h]) /\ out' = out \cup {tok[h]}
        /\ UNCHANGED faults
     \/ /\ Fault /\ UNCHANGED out
        /\ (Blacklist(tok[h], ttl[h]) \/ UNCHANGED key)
  /\ Answered(h)
  /\ UNCHANGED <<second, limiter, account, left, claim, unaudited, carrying, carried>>

\* The three second-factor endpoints ...
BeginSecondFactor(h) ==
  /\ at[h] = "accepted"
  /\ \E s \in Secrets : Setup2FA(h, s) \/ Enable2FA(h, s) \/ Disable2FA(h, s)
  /\ Goto(h, "second")
  /\ UNCHANGED <<limiter, access, unaudited, faults, history>>

\* ... and their updates.
EndSecondFactor(h) ==
  /\ at[h] = "second"
  /\ SetTOTPSecret(h) \/ EnableTOTP(h) \/ DisableTOTP(h) \/ Abandon(h)
  /\ Answered(h)
  /\ UNCHANGED <<limiter, access, unaudited, faults, history>>

----------------------------------------------------------------------------
(* Administration.                                                          *)

\* Requests that have read the account before it loses a right will issue a
\* token all the same.
Overtakes ==
  carrying' = IF (blocked' /\ ~ blocked) \/ (role = "admin" /\ role' # "admin")
              THEN carrying \cup {h \in Handlers : at[h] = "issue"} ELSE carrying

\* RequireRole looks at the claim.
MayAdministrate(h) == at[h] = "accepted" /\ claim[tok[h]] = "admin"

\* An update was executed: its row of audit_log is to follow, unless the update
\* returned an error.
Executed(h) ==
  /\ Overtakes /\ unaudited' = unaudited + 1
  /\ \/ Goto(h, "audit") /\ UNCHANGED faults
     \/ Answered(h) /\ Fault
  /\ UNCHANGED <<second, limiter, left, claim, key, out, carried>>

\* The update of this account or of another one.  An update that touches no row
\* is answered without an audit, as is a request that is malformed: Drop.
UserStatus(h) ==
  /\ MayAdministrate(h)
  /\ (\E b \in BOOLEAN : SetUserStatus(b)) \/ UNCHANGED account
  /\ Executed(h)

UserRole(h) ==
  /\ MayAdministrate(h)
  /\ (\E r \in Roles : SetUserRole(r)) \/ UNCHANGED account
  /\ Executed(h)

\* createPromo does the same for this account.
ServerStatus(h) == MayAdministrate(h) /\ UNCHANGED account /\ Executed(h)

\* A mistake: some change is not audited.
InsertAudit_Omitted(h) ==
  /\ at[h] = "audit"
  /\ unaudited' \in {unaudited - 1, unaudited} /\ UNCHANGED faults
  /\ Answered(h)
  /\ UNCHANGED <<second, limiter, access, out, carrying, carried>>

\* audited: the row is inserted after the change, and an error is ignored.
InsertAudit(h) ==
  /\ at[h] = "audit"
  /\ \/ unaudited' = unaudited - 1 /\ UNCHANGED faults
     \/ Fault /\ UNCHANGED unaudited
  /\ Answered(h)
  /\ UNCHANGED <<second, limiter, access, out, carrying, carried>>

\* Another administrator.
OtherAdministrator ==
  /\ (\E b \in BOOLEAN : SetUserStatus(b)) \/ (\E r \in Roles : SetUserRole(r))
  /\ Overtakes
  /\ UNCHANGED <<second, limiter, left, claim, key, local, unaudited, faults,
                 out, carried>>

\* cmd/grantadmin, run beside the server.
Grantadmin ==
  /\ \E r \in Roles : SetUserRole(r)
  /\ Overtakes
  /\ UNCHANGED <<second, limiter, left, claim, key, local, unaudited, faults,
                 out, carried>>

----------------------------------------------------------------------------
\* Every other endpoint, a statement that fails, or a client that goes away.
Drop(h) ==
  /\ at[h] \in {"issue", "parsed", "accepted"}
  /\ Answered(h) /\ carrying' = carrying \ {h}
  /\ UNCHANGED <<second, limiter, access, unaudited, faults, out, carried>>

Window == WindowEnds /\ UNCHANGED <<second, access, local, unaudited, faults, history>>

Clock == Tick /\ UNCHANGED <<second, limiter, local, unaudited, faults, history>>

ApiNext ==
  \/ \E h \in Handlers :
       \/ Arrive(h) \/ OpenWindow(h) \/ Login(h) \/ TelegramLogin(h) \/ Refresh(h)
       \/ \E t \in Tokens : IssueTokens(h, t) \/ Present(h, t)
       \/ Authenticate(h) \/ Logout(h) \/ SetBlacklistKey(h)
       \/ BeginSecondFactor(h) \/ EndSecondFactor(h)
       \/ UserStatus(h) \/ UserRole(h) \/ ServerStatus(h)
       \/ InsertAudit(h) \/ Drop(h)
  \/ OtherAdministrator \/ Grantadmin \/ Window \/ Clock

ApiSpec == ApiInit /\ [][ApiNext]_apiVars

----------------------------------------------------------------------------
(* Properties.                                                              *)

\* Once Logout was answered, no request gets past Authenticate with that token
\* while it lasts, whatever was delayed in between: the key outlives the token
\* (the time left is computed before SET), and a failing Redis refuses.
LogoutSticks ==
  [][\A h \in Handlers :
       at[h] = "parsed" /\ at'[h] = "accepted" /\ tok[h] \in out => left[tok[h]] = 0]_apiVars

\* The middleware asks neither for the status nor for the role, so that a
\* right taken away lives on in tokens: for one lifetime and no longer, since
\* Login and Refresh read the account anew -- but for a token issued by a
\* request that had already read it.
RightsEndWithTokens ==
  \A t \in Tokens \ carried : ParseAccess(t) =>
    /\ blocked => blockedFor < Life
    /\ role = "user" /\ claim[t] = "admin" => demotedFor < Life

\* A counter exists only with an expiry, or while the request that made it is
\* about to set one, unless that call failed: nobody is locked out for good by
\* an order of requests.
WindowWillClose ==
  hits > 0 => closing \/ orphaned \/ \E h \in Handlers : at[h] = "expire"

\* Every administrative change has its row in audit_log, but for those whose
\* request is still to insert it or failed to.
AuditComplete ==
  unaudited <= Cardinality({h \in Handlers : at[h] = "audit"}) + faults

----------------------------------------------------------------------------
(* A stronger statement that the code does not meet.                        *)

\* security.go:26 "a fixed-window per-IP rate limiter": a counter has an
\* expiry, or is about to get one.
WindowIsFixed == hits > 0 => closing \/ \E h \in Handlers : at[h] = "expire"
=============================================================================
