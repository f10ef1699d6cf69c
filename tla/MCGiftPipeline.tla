--------------------------- MODULE MCGiftPipeline ---------------------------
(* Small instances of GiftPipeline for TLC. *)
EXTENDS GiftPipeline, TLC

CONSTANTS m1, m2, m3, f

\* A creation that starts out hidden, an amendment of its facility, and a
\* message that no call is made for.
Requests == [m \in Messages |->
    (m1 :> "delayedCreation" @@ m2 :> "amendment" @@ m3 :> "unroutable")[m]]

OneFacility == [m \in Messages |-> f]

=============================================================================
