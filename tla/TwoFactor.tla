----------------------------- MODULE TwoFactor -----------------------------
(***************************************************************************)
(* The second factor of one user (internal/auth/service.go, Setup2FA to    *)
(* Disable2FA): requests of several clients of the same account, each read *)
(* and each UPDATE a step.  Users do not share any of this state.          *)
(*                                                                         *)
(* A TOTP code is represented by the secret it was computed from; a code   *)
(* that has expired is one that is not presented.                          *)
(***************************************************************************)
EXTENDS Naturals

CONSTANTS
  Secrets,   \* bound: secrets that may ever be generated
  Handlers,  \* bound: requests in progress at once
  None       \* totp_secret IS NULL

ASSUME TwoFactorAssumption == None \notin Secrets

VARIABLES
  secret,     \* users.totp_secret
  enabled,    \* users.totp_enabled
  generated,  \* secrets generated so far
  pc, seen,   \* each request: its place, and the secret that it read
  confirmed,  \* history: secrets a code of which was accepted by Enable2FA
  overtaken   \* history: secrets set while an Enable2FA was between its statements

request == <<pc, seen>>
vars == <<secret, enabled, generated, request, confirmed, overtaken>>

\* Type invariant.
TypeOK ==
  /\ secret \in generated \cup {None}
  /\ enabled \in BOOLEAN
  /\ generated \subseteq Secrets
  /\ pc \in [Handlers -> {"idle", "setup", "enabling", "disabling"}]
  /\ seen \in [Handlers -> generated \cup {None}]
  /\ \A h \in Handlers : pc[h] = "idle" <=> seen[h] = None
  /\ confirmed \subseteq generated /\ overtaken \subseteq generated

Init ==
  /\ secret = None /\ enabled = FALSE /\ generated = {}
  /\ pc = [h \in Handlers |-> "idle"] /\ seen = [h \in Handlers |-> None]
  /\ confirmed = {} /\ overtaken = {}

----------------------------------------------------------------------------
Begin(h, place, s) ==
  /\ pc[h] = "idle"
  /\ pc' = [pc EXCEPT ![h] = place] /\ seen' = [seen EXCEPT ![h] = s]

Finish(h) ==
  /\ pc' = [pc EXCEPT ![h] = "idle"] /\ seen' = [seen EXCEPT ![h] = None]

\* Setup2FA: the user is read and a new secret generated ...
Setup2FA(h, s) ==
  /\ s \notin generated
  /\ Begin(h, "setup", s)
  /\ generated' = generated \cup {s}
  /\ UNCHANGED <<secret, enabled, confirmed, overtaken>>

\* A mistake: a second factor that was enabled stays enabled.
SetTOTPSecret_KeepsEnabled(h) ==
  /\ pc[h] = "setup"
  /\ secret' = seen[h]
  /\ overtaken' = IF \E g \in Handlers : pc[g] = "enabling"
                  THEN overtaken \cup {seen[h]} ELSE overtaken
  /\ Finish(h)
  /\ UNCHANGED <<enabled, generated, confirmed>>

\* ... and stored, not yet enabled.
SetTOTPSecret(h) ==
  /\ pc[h] = "setup"
  /\ secret' = seen[h] /\ enabled' = FALSE
  /\ overtaken' = IF \E g \in Handlers : pc[g] = "enabling"
                  THEN overtaken \cup {seen[h]} ELSE overtaken
  /\ Finish(h)
  /\ UNCHANGED <<generated, confirmed>>

\* ValidateTOTP with the secret that GetTOTP read.
Accepts(code) == secret # None /\ code = secret

\* Enable2FA: GetTOTP, and the check of the code ...
Enable2FA(h, code) ==
  /\ Accepts(code)
  /\ Begin(h, "enabling", secret)
  /\ confirmed' = confirmed \cup {code}
  /\ UNCHANGED <<secret, enabled, generated, overtaken>>

\* A mistake: the row is updated whether or not it has a secret.
EnableTOTP_Always(h) ==
  /\ pc[h] = "enabling"
  /\ enabled' = TRUE
  /\ Finish(h)
  /\ UNCHANGED <<secret, generated, confirmed, overtaken>>

\* ... and EnableTOTP, for whatever secret the row has now.
EnableTOTP(h) ==
  /\ pc[h] = "enabling"
  /\ enabled' = (enabled \/ secret # None)
  /\ Finish(h)
  /\ UNCHANGED <<secret, generated, confirmed, overtaken>>

\* Disable2FA: GetTOTP, and the check of the code ...
Disable2FA(h, code) ==
  /\ enabled /\ Accepts(code)
  /\ Begin(h, "disabling", secret)
  /\ UNCHANGED <<secret, enabled, generated, confirmed, overtaken>>

\* ... and DisableTOTP.
DisableTOTP(h) ==
  /\ pc[h] = "disabling"
  /\ secret' = None /\ enabled' = FALSE
  /\ Finish(h)
  /\ UNCHANGED <<generated, confirmed, overtaken>>

\* An error of a statement, or the client is gone.
Abandon(h) ==
  /\ pc[h] # "idle"
  /\ Finish(h)
  /\ UNCHANGED <<secret, enabled, generated, confirmed, overtaken>>

\* All secrets of the bound are used and no request is in progress.
Exhausted ==
  /\ generated = Secrets /\ secret = None /\ \A h \in Handlers : pc[h] = "idle"
  /\ UNCHANGED vars

Next ==
  \/ \E h \in Handlers :
       \/ \E s \in Secrets : Setup2FA(h, s) \/ Enable2FA(h, s) \/ Disable2FA(h, s)
       \/ SetTOTPSecret(h) \/ EnableTOTP(h) \/ DisableTOTP(h) \/ Abandon(h)
  \/ Exhausted

Spec == Init /\ [][Next]_vars

----------------------------------------------------------------------------
(* Properties.                                                              *)

\* A user with the second factor enabled has a secret, whatever requests
\* overlap; without one no code is ever right, and Login, which asks for one,
\* shuts the user out (the condition of EnableTOTP, against DisableTOTP).
EnabledHasSecret == enabled => secret # None

\* The secret in force is one that the user showed to have, unless it was set
\* while an Enable2FA was between its check and its update: no order of whole
\* requests, failures in between included, enables a secret the user may never
\* have received (SetTOTPSecret resets totp_enabled).
UnconfirmedOnlyByOverlap == enabled => secret \in confirmed \cup overtaken

----------------------------------------------------------------------------
(* A stronger statement that the code does not meet.                        *)

\* service.go:81 "2FA is not enabled until confirmed via Enable2FA."
EnabledIsConfirmed == enabled => secret \in confirmed
=============================================================================
