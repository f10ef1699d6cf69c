----------------------- MODULE MCGiftAsyncValidation -----------------------
(* Payloads for GiftAsyncValidation: one that is supported, and others     *)
(* with a fault of every kind, at the first position, at a later one, and  *)
(* several together.                                                       *)
EXTENDS GiftAsyncValidation

CONSTANT f1

OneFacility == [a \in Attempts |-> f1]

\* As few entities as a payload has, for the one that is supported.
MCPayload == [f \in Facilities |-> <<1, 1, 1, 0, 1, 1, 0, 1>>]

\* "B" is a subtype of another product type only.
MCReference ==
    [counterpartyRoles |-> [role \in {"shares", "plain"} |-> role = "shares"],
     productTypes |-> {"P1", "P2"}, currencies |-> {"GBP", "USD"}, feeTypes |-> {"fee"},
     obligationSubtypes |-> {[code |-> "A", productTypeCode |-> "P1"],
                             [code |-> "B", productTypeCode |-> "P2"]}]

Party(role, share) == [roleCode |-> role, sharePercentage |-> share]
Fee(type, currency) == [feeTypeCode |-> type, currency |-> currency]
Debt(currency, subtype) == [currency |-> currency, subtypeCode |-> subtype]

Supported ==
    [productTypeCode |-> "P1", currency |-> "GBP",
     counterparties |-> <<Party("shares", 1000)>>,
     fixedFees |-> <<>>,
     obligations |-> <<Debt("USD", "A")>>]

With(field, value) == [Supported EXCEPT ![field] = value]

FaultyOverviews ==
    {With("productTypeCode", "P3"), With("currency", "XXX"),
     [With("productTypeCode", "P3") EXCEPT !.currency = "XXX"]}

FaultyCounterparties ==
    {With("counterparties", <<Party("plain", Null), Party("shares", share)>>) :
        share \in {Null, -5, 0, 1001}}
    \cup {With("counterparties", <<Party("shares", 1), Party("none", Null)>>),
          With("counterparties", <<Party("none", 0), Party("shares", 0)>>)}

FaultyFees ==
    {With("fixedFees", <<Fee("fee", "XXX")>>), With("fixedFees", <<Fee("none", "GBP")>>),
     With("fixedFees", <<Fee("fee", "GBP"), Fee("none", "XXX")>>), With("fixedFees", Null)}

FaultyObligations ==
    {With("obligations", <<Debt("GBP", first), Debt(currency, second)>>) :
        first \in {Null, "A", "B"}, second \in {"B", "C"}, currency \in {"GBP", "XXX"}}
    \cup {With("obligations", <<Debt("XXX", Null), Debt("GBP", Null)>>)}

FaultyWithFees ==
    {[payload EXCEPT !.fixedFees = <<Fee("fee", "USD")>>] : payload \in FaultyObligations \cup FaultyOverviews}

MCRequests ==
    {[f \in Facilities |-> payload] :
        payload \in {Supported} \cup FaultyOverviews \cup FaultyCounterparties
                      \cup FaultyFees \cup FaultyObligations \cup FaultyWithFees}
=============================================================================
