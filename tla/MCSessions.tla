----------------------------- MODULE MCSessions -----------------------------
(***************************************************************************)
(* Mixes of operations, and symmetry, for model checking Sessions.         *)
(***************************************************************************)
EXTENDS Sessions, TLC

LoadsDef ==
  {{"guess", "login", "mfa", "reset", "follow"}, {"login", "refresh", "logout", "follow"},
   {"login", "refresh", "suspend"}, {"follow", "suspend", "logout"}, {"login", "refresh", "lapse"},
   {"reset", "follow", "lapse"}}

Interchangeable == Permutations(Requests) \cup Permutations(Tokens) \cup Permutations(Links)
=============================================================================
