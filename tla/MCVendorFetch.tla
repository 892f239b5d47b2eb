---------------------------- MODULE MCVendorFetch ----------------------------
(***************************************************************************)
(* VendorFetch for TLC: two sign-ins of one account and one of another.    *)
(* Nothing depends on what the last fetch returned, so states that differ  *)
(* in nothing else are one; a step to it is looked at each time.           *)
(***************************************************************************)
EXTENDS VendorFetch

CONSTANTS a1, a2, b1

Accounts == (a1 :> a1) @@ (a2 :> a1) @@ (b1 :> b1)

Symmetry == Permutations(Procs)

WithoutOut == <<vendor, cache, ledger, logins, tokens, lock, pc, cred, retried, quiet, deaths>>
=============================================================================
