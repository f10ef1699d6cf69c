--------------------------- MODULE MCGiftAmendment ---------------------------
(* Small instances of GiftAmendment for TLC. *)
EXTENDS GiftAmendment, TLC

CONSTANTS a1, a2, a3, a4

\* A cash facility (85%) with two obligations.
Cash == [amount |-> 20, expiry |-> 4, share |-> <<17, 17>>, maturity |-> <<4, 3>>]

MixedFollows == <<TRUE, FALSE>>

\* An increase, what is a decrease only after it, and an earlier and a later
\* expiry date, in any order.
OneOfEach == a1 :> "IncreaseAmount" @@ a2 :> "DecreaseAmount" @@
             a3 :> "ReplaceExpiryDate" @@ a4 :> "ReplaceExpiryDate"
OneOfEachValue == a1 :> 30 @@ a2 :> 25 @@ a3 :> 2 @@ a4 :> 6

\* A later expiry date, and one later still.
TwoExpiries == a1 :> "ReplaceExpiryDate" @@ a2 :> "ReplaceExpiryDate"
TwoExpiriesValue == a1 :> 6 @@ a2 :> 8

\* One increase.
OneIncrease == a1 :> "IncreaseAmount"
OneIncreaseValue == a1 :> 30

Symmetry == Permutations(WorkPackages)
=============================================================================
