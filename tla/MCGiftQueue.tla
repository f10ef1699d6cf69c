----------------------------- MODULE MCGiftQueue -----------------------------
(* Small instances of GiftQueue for TLC. *)
EXTENDS GiftQueue, TLC

CONSTANTS m1, m2

\* A creation that starts out hidden, and an amendment.
TwoRequests == m1 :> "delayedCreation" @@ m2 :> "amendment"

\* The former, and a message that no call is made for.
OneUnroutable == m1 :> "delayedCreation" @@ m2 :> "unroutable"
=============================================================================
