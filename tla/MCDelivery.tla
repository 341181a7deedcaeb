----------------------------- MODULE MCDelivery -----------------------------
(* Delivery of one event, of each kind in turn. *)
EXTENDS Delivery, TLC

CONSTANTS e1

OneEvent == {e1}
EachKind == [OneEvent -> Kinds]
=============================================================================
