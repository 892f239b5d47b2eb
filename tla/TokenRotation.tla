---------------------------- MODULE TokenRotation ----------------------------
(***************************************************************************)
(* What a provider that rotates refresh tokens asks of everyone who shares *)
(* a stored login, and what the credential code promises.  The provider    *)
(* accepts the latest token only, and may take a spent one for a theft.    *)
(* So tokens go one at a time: the stored one is sent, and nothing else;   *)
(* it is exchanged while it is the accepted one; and nobody asks again     *)
(* until the new token is stored in its place.                             *)
(*                                                                         *)
(* A token that is lost on the way, by an answer that never arrives, a     *)
(* write that fails or a death in between, breaks the login: somebody has  *)
(* to sign in again, and nothing more is promised.                         *)
(***************************************************************************)
EXTENDS Naturals

VARIABLES
  stored,    \* the number of the refresh token in the store
  accepted,  \* the number of the one the provider accepts
  asking,    \* the tokens sent and not answered yet
  inFlight,  \* a new token has been issued and is not stored yet
  broken     \* a token was lost

vars == <<stored, accepted, asking, inFlight, broken>>

Init ==
  /\ stored \in Nat /\ accepted \in Nat
  /\ asking = {}
  /\ inFlight = FALSE
  /\ broken \in BOOLEAN
  /\ ~broken => stored = accepted

Ask ==
  /\ ~broken /\ ~inFlight
  /\ asking = {}
  /\ asking' = {stored}
  /\ UNCHANGED <<stored, accepted, inFlight, broken>>

Exchange ==
  /\ ~broken /\ ~inFlight
  /\ accepted \in asking
  /\ stored = accepted
  /\ accepted' = accepted + 1
  /\ asking' = {}
  /\ inFlight' = TRUE
  /\ UNCHANGED <<stored, broken>>

(***************************************************************************)
(* Refused, not answered, or answered without a new token.                 *)
(***************************************************************************)
GiveUp ==
  /\ asking' = {}
  /\ UNCHANGED <<stored, accepted, inFlight, broken>>

Store ==
  /\ inFlight
  /\ stored' = accepted
  /\ inFlight' = FALSE
  /\ UNCHANGED <<accepted, asking, broken>>

(***************************************************************************)
(* A client that nobody sees between its exchange and its write.           *)
(***************************************************************************)
Replace ==
  /\ ~broken /\ ~inFlight
  /\ accepted \in asking
  /\ stored = accepted
  /\ accepted' = accepted + 1
  /\ stored' = accepted'
  /\ asking' = {}
  /\ UNCHANGED <<inFlight, broken>>

(***************************************************************************)
(* A token is lost, or may be: the answer to an exchange of the stored     *)
(* one, or the one in flight.                                              *)
(***************************************************************************)
Lose ==
  /\ broken' = TRUE
  /\ accepted' = accepted \/ accepted' = accepted + 1
  /\ asking' \subseteq asking
  /\ inFlight' => inFlight
  /\ UNCHANGED stored

Broken == broken /\ broken' = TRUE

Next == Ask \/ Exchange \/ GiveUp \/ Store \/ Replace \/ Lose \/ Broken

Spec == Init /\ [][Next]_vars

(***************************************************************************)
(* The stored token is the one the provider accepts, or the new one is on  *)
(* its way, or a token was lost; and what is being sent is the stored one. *)
(***************************************************************************)
NeverBehind == broken \/ inFlight \/ stored = accepted

OnlyTheStored == broken \/ asking \subseteq {stored}
=============================================================================
