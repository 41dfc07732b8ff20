------------------------ MODULE MCIdempotentDelivery ------------------------
(***************************************************************************)
(* A small instance of IdempotentDelivery for TLC: three calls under one   *)
(* key, so that one may be repeated while it is still at work and once it  *)
(* died, with a request to deliver now and one to deliver later.           *)
(***************************************************************************)
EXTENDS IdempotentDelivery
============================================================================
