----------------------------- MODULE MCDelivery -----------------------------
(* Delivery on a small instance.  Limits of two bytes an item and six cells *)
(* a payload: a batch at both limits and one above the first.              *)
EXTENDS Delivery

MCBatches == { << <<1, 2>>, <<1>> >>, << <<1, 1, 1>> >> }
=============================================================================
