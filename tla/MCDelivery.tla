----------------------------- MODULE MCDelivery -----------------------------
(***************************************************************************)
(* Instances of Delivery for TLC.  The browser, whose sockets rarely       *)
(* overlap, gets an outbox with room for both commands; the phone one that *)
(* is full after the first.                                                *)
(***************************************************************************)
EXTENDS Delivery, TLC

OutboxRoom == "web" :> 2 @@ "mobile" :> 1
=============================================================================
