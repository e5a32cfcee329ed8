------------------------------- MODULE Access -------------------------------
(***************************************************************************)
(* What paying promises, as a user sees it: access to a payment's product  *)
(* begins only after the payment, begins once, and when it ends it ends    *)
(* for good.  Deleting the account is the one thing that forgets a         *)
(* payment.                                                                *)
(***************************************************************************)
CONSTANT Payments

VARIABLES
  paid,    \* payments the provider has collected
  live,    \* payments whose product is open to the buyer
  ended    \* payments whose access was refunded or revoked

vars == <<paid, live, ended>>

Init == paid = {} /\ live = {} /\ ended = {}

Pay ==
  \E p \in Payments \ paid :
    paid' = paid \cup {p} /\ UNCHANGED <<live, ended>>

(* One reconciliation opens several. *)
Open ==
  \E S \in (SUBSET (paid \ (live \cup ended))) \ {{}} :
    live' = live \cup S /\ UNCHANGED <<paid, ended>>

Close ==
  \E S \in (SUBSET live) \ {{}} :
    live' = live \ S /\ ended' = ended \cup S /\ UNCHANGED paid

Forget ==
  \E S \in (SUBSET (live \cup ended)) \ {{}} :
    live' = live \ S /\ ended' = ended \ S /\ UNCHANGED paid

Next == Pay \/ Open \/ Close \/ Forget

Spec == Init /\ [][Next]_vars
=============================================================================
