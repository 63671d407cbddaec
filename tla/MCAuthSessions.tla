--------------------------- MODULE MCAuthSessions ---------------------------
(* AuthSessions with interchangeable tokens, handlers and users.            *)
EXTENDS AuthSessions, TLC

Same == Permutations(Tokens) \cup Permutations(Handlers) \cup Permutations(Users)
=============================================================================
