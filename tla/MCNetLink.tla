----------------------------- MODULE MCNetLink -----------------------------
(* A few failures, which may hit the link and the session together, and a  *)
(* restart in the middle of any of it.                                     *)
EXTENDS NetLink
=============================================================================
