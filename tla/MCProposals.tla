----------------------------- MODULE MCProposals -----------------------------
(* Proposals on small instances. *)
EXTENDS Proposals
CONSTANTS m1, m2, policy, payment
TwoMembers == {m1, m2}
OnePayment == {payment}
Remove == {[kind |-> "RemoveSigner", member |-> m2], [kind |-> "AddSigner", member |-> m2]}
Update == {[kind |-> "UpdateSigner", member |-> m1]}
Create == {[kind |-> "PolicyCreate", policy |-> policy]}
All == Create \cup Remove \cup Update
NoPolicy == {}
OnePolicy == {policy}
=============================================================================
