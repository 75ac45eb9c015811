--------------------------- MODULE MCSubscription ---------------------------
(* Two tails, two racing callers of unsubscribe and a ring of two slots,   *)
(* which five pushes wrap more than twice.                                 *)
EXTENDS Subscription
=============================================================================
