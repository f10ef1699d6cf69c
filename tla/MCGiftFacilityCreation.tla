----------------------- MODULE MCGiftFacilityCreation -----------------------
(* Small instances of GiftFacilityCreation for TLC. *)
EXTENDS GiftFacilityCreation, TLC

CONSTANT f1

\* Three attempts for one facility: a delivery and two redeliveries.
OneFacility == [a \in Attempts |-> f1]

Counts(counterparties, fees, obligations, schedules, profiles) ==
    <<1, 1, counterparties, fees, obligations, schedules, profiles, 1>>

\* Two obligations and two schedules, so that a schedule can be given the
\* wrong obligation; the optional kinds are left out.
WidePayload == [f \in Facilities |-> Counts(1, 0, 2, 2, 0)]

Symmetry == Permutations(Attempts) \cup Permutations(WorkPackages)
=============================================================================
