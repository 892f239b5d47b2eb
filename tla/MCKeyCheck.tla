----------------------------- MODULE MCKeyCheck -----------------------------
(* KeyCheck for TLC. *)
EXTENDS KeyCheck
=============================================================================
