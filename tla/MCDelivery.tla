----------------------------- MODULE MCDelivery -----------------------------
(* Small instances of the delivery of messages for TLC.                          *)
EXTENDS DeliveryProperties, TLC

CONSTANTS e1, e2, t1, t2, r1, r2

Messages == {e1, e2}
OneReconciliation == {r1}
TwoReconciliations == {r1, r2}

\* Texts are interchangeable, and so are messages.
DraftSymmetry ==
    {p @@ q : p \in Permutations({t1, t2}), q \in Permutations(Messages)}
=============================================================================
