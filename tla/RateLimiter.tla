---------------------------- MODULE RateLimiter -----------------------------
(***************************************************************************)
(* The fixed-window counter of one client address in Redis                 *)
(* (internal/platform/httpx/security.go), as the operators that a request  *)
(* on its way to a limited endpoint goes through.  The operators take the  *)
(* counter only; the module that composes them keeps the requests' places. *)
(***************************************************************************)
EXTENDS Naturals

CONSTANT Limit   \* requests admitted per window

VARIABLES
  hits,      \* the counter, 0 when there is no key
  closing,   \* the key has an expiry
  orphaned   \* history: the EXPIRE of this key was attempted and failed

limiter == <<hits, closing, orphaned>>

LimiterTypeOK == hits \in 0 .. Limit + 1 /\ closing \in BOOLEAN /\ orphaned \in BOOLEAN

LimiterInit == hits = 0 /\ closing = FALSE /\ orphaned = FALSE

\* INCR, which makes the key when there is none.  Bound: the counter stops at
\* Limit + 1, since beyond it no request can tell the values apart.
Counted == IF hits > Limit THEN hits ELSE hits + 1

Incr == hits' = Counted /\ UNCHANGED <<closing, orphaned>>

\* INCR returns an error, whether or not Redis has counted: the request goes on
\* as if there were no limit, and one that opened the window does not know.
IncrFails ==
  \/ UNCHANGED limiter
  \/ hits' = Counted /\ orphaned' = (orphaned \/ hits = 0) /\ UNCHANGED closing

\* A mistake: INCR is taken to return the count before it.
OpensWindow_FromZero(c) == c = 0

\* What a request that counted c does next.
OpensWindow(c) == c = 1
Admitted(c) == c <= Limit

\* EXPIRE, by the request that opened the window.
Expire == closing' = (hits > 0) /\ UNCHANGED <<hits, orphaned>>

\* The error of EXPIRE is ignored, and nothing sends it again.
ExpireFails == orphaned' = TRUE /\ UNCHANGED <<hits, closing>>

\* Redis drops the key when its time is over.
WindowEnds == closing /\ hits' = 0 /\ closing' = FALSE /\ UNCHANGED orphaned
=============================================================================
