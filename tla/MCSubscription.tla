--------------------------- MODULE MCSubscription ---------------------------
(* Small instances of Subscription for TLC. *)
EXTENDS Subscription, TLC

CONSTANTS d, e, a, b, c

\* Two consumers share the "drop" subscription, one has the "close" one.
Readers == a :> d @@ b :> d @@ c :> e
=============================================================================
