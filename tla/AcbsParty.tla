----------------------------- MODULE AcbsParty ------------------------------
(***************************************************************************)
(* Parties and their external ratings: PartyController, PartyService,      *)
(* PartyExternalRatingService and their ACBS services.  POST /parties is   *)
(* the one handler of the API that decides from what it reads: it searches *)
(* for the party, creates it, asks for its ratings, asks MDM who the       *)
(* customer is, and rates it, a call at a time.                            *)
(*                                                                         *)
(* A party is known to ACBS by its index in the store.                     *)
(***************************************************************************)
EXTENDS AcbsHttp

PartyIdentifiers == Nat \ {0}

PARTY == [countryCode |-> "GBR"]
PARTY_EXTERNAL_RATING == [ratingEntityCode |-> "150", probabilityofDefault |-> 0]
ASSIGNED_RATING_CODES == [SOVEREIGN |-> "01", CORPORATE |-> "03"]
SOVEREIGN_ACCOUNT_TYPES ==
    {"Overseas Government Dept", "Overseas Government Dept.", "Overseas Public Body"}

ASSUME AcbsPartyAssumption == None \notin SOVEREIGN_ACCOUNT_TYPES

CreatePartyRequestItem ==
    [alternateIdentifier : Identifiers, industryClassification : Texts,
     name1 : Texts, name2 : Maybe(Texts), name3 : Maybe(Texts), smeType : Texts,
     citizenshipClass : {"1", "2"}, officerRiskDate : Dates,
     countryCode : Maybe(Texts)]

GetPartyByIdentifierResponseDto ==
    [alternateIdentifier : Identifiers, industryClassification : Texts,
     name1 : Texts, name2 : Texts \cup {""}, name3 : Texts \cup {""},
     smeType : Texts, citizenshipClass : {"1", "2"}, officerRiskDate : Dates,
     countryCode : Texts \cup {PARTY.countryCode}]

GetPartiesBySearchTextResponseItem == GetPartyByIdentifierResponseDto

CreatePartyResponse == [partyIdentifier : PartyIdentifiers]

GetPartyExternalRatingsResponseItem ==
    [partyIdentifier : PartyIdentifiers, ratingEntityCode : {"150"},
     assignedRatingCode : Range(ASSIGNED_RATING_CODES), ratedDate : DateTimes,
     probabilityofDefault : {0}]

AcbsCreatePartyRequestDto ==
    [PartyAlternateIdentifier : Identifiers, IndustryClassificationCode : Texts,
     PartyName1 : Texts, PartyName2 : Texts \cup {""},
     PartyName3 : Texts \cup {""}, MinorityClassCode : Texts,
     CitizenshipClassCode : {"1", "2"}, OfficerRiskDate : DateTimes,
     CountryCode : Texts \cup {PARTY.countryCode}]

AcbsCreatePartyExternalRatingRequestDto ==
    [PartyIdentifier : PartyIdentifiers, RatingEntityCode : {"150"},
     AssignedRatingCode : Range(ASSIGNED_RATING_CODES), RatedDate : DateTimes,
     ProbabilityofDefault : {0}]

BuildAcbsCreatePartyRequest(party) ==
    [PartyAlternateIdentifier |-> party.alternateIdentifier,
     IndustryClassificationCode |-> party.industryClassification,
     PartyName1 |-> party.name1,
     PartyName2 |-> OrDefault(party.name2, ""),
     PartyName3 |-> OrDefault(party.name3, ""),
     MinorityClassCode |-> party.smeType,
     CitizenshipClassCode |-> party.citizenshipClass,
     OfficerRiskDate |-> AddTime(party.officerRiskDate),
     CountryCode |-> OrDefault(party.countryCode, PARTY.countryCode)]

PartyOfAcbs(party) ==
    [alternateIdentifier |-> party.PartyAlternateIdentifier,
     industryClassification |-> party.IndustryClassificationCode,
     name1 |-> party.PartyName1,
     name2 |-> party.PartyName2,
     name3 |-> party.PartyName3,
     smeType |-> party.MinorityClassCode,
     citizenshipClass |-> party.CitizenshipClassCode,
     officerRiskDate |-> RemoveTimeIfExists(party.OfficerRiskDate),
     countryCode |-> party.CountryCode]

RatingOfAcbs(rating) ==
    [partyIdentifier |-> rating.PartyIdentifier,
     ratingEntityCode |-> rating.RatingEntityCode,
     assignedRatingCode |-> rating.AssignedRatingCode,
     ratedDate |-> rating.RatedDate,
     probabilityofDefault |-> rating.ProbabilityofDefault]

BuildAcbsCreateExternalRating(partyIdentifier, assignedRatingCode, ratedDate) ==
    [PartyIdentifier |-> partyIdentifier,
     RatingEntityCode |-> PARTY_EXTERNAL_RATING.ratingEntityCode,
     AssignedRatingCode |-> assignedRatingCode,
     RatedDate |-> AddTime(ratedDate),
     ProbabilityofDefault |-> PARTY_EXTERNAL_RATING.probabilityofDefault]

-----------------------------------------------------------------------------
(* Calls of ACBS, and of MDM.                                              *)

IsParty(partyIdentifier) ==
    partyIdentifier \in DOMAIN acbs /\ acbs[partyIdentifier].kind = "Party"

AcbsGetPartyByIdentifier(partyIdentifier) ==
    GetCall({"PartyNotFound"},
        IF IsParty(partyIdentifier) THEN Ok(acbs[partyIdentifier].data)
        ELSE Refusal("PartyNotFound"))

PartiesOf(alternateIdentifier) ==
    {i \in DOMAIN acbs : IsParty(i)
                          /\ acbs[i].data.PartyAlternateIdentifier = alternateIdentifier}

\* Answers the parties' identifiers.
AcbsGetPartyBySearchText(searchText) == GetCall({}, Ok(SetToSeq(PartiesOf(searchText))))

AcbsCreateParty(r, party, Then) ==
    Write(r, {}, Ok(Added(r, "Party", None, party)), Then)

AcbsGetExternalRatingsForParty(partyIdentifier) ==
    GetCall({"PartyNotFound"},
        IF IsParty(partyIdentifier) THEN Ok(DataOf("PartyExternalRating", partyIdentifier))
        ELSE Refusal("PartyNotFound"))

AcbsCreateExternalRatingForParty(r, rating, Then) ==
    Write(r, {"PartyIdentifierIsNotValid"},
          IF IsParty(rating.PartyIdentifier)
          THEN Ok(Added(r, "PartyExternalRating", rating.PartyIdentifier, rating))
          ELSE Refusal("PartyIdentifierIsNotValid"),
          Then)

\* MdmService.findCustomersByPartyUrn: the types of the customers it may find,
\* or an error, and the faults that takes.  MDM answers 404, which is None, or
\* with no customers, when it knows none.
FindCustomersByPartyUrn(partyUrn) ==
    {[types |-> workload.mdm[partyUrn], faults |-> 0]} \cup
    {[types |-> None, faults |-> 1] : error \in FaultsLeft}

AssignedRatingCode(customerType) ==
    IF customerType \in SOVEREIGN_ACCOUNT_TYPES THEN ASSIGNED_RATING_CODES.SOVEREIGN
    ELSE ASSIGNED_RATING_CODES.CORPORATE

-----------------------------------------------------------------------------
(* The handlers.                                                           *)

GetPartiesBySearchText(r) ==
    LET Found(parties) ==
            Reply(r, 200, [i \in DOMAIN parties |-> PartyOfAcbs(acbs[parties[i]].data)])
    IN  \/ /\ Receives(r, "GET/parties")
           /\ Validated(r, Params(r).searchText \in Identifiers,
                        Goto(r, "searchForParties", None))
        \/ /\ pc[r] = "searchForParties"
           /\ Get(r, AcbsGetPartyBySearchText(Params(r).searchText), Found)

GetPartyByIdentifier(r) ==
    LET Found(party) == Reply(r, 200, PartyOfAcbs(party))
    IN  \/ /\ Receives(r, "GET/parties/<partyIdentifier>")
           /\ Validated(r, Params(r).partyIdentifier \in PartyIdentifiers,
                        Goto(r, "getParty", None))
        \/ pc[r] = "getParty" /\ Get(r, AcbsGetPartyByIdentifier(Params(r).partyIdentifier), Found)

GetExternalRatingsForParty(r) ==
    LET Found(ratings) ==
            Reply(r, 200, [i \in DOMAIN ratings |-> RatingOfAcbs(ratings[i])])
    IN  \/ /\ Receives(r, "GET/parties/<partyIdentifier>/external-ratings")
           /\ WithoutAcbs
           /\ Goto(r, "getExternalRatings", None)
        \/ /\ pc[r] = "getExternalRatings"
           /\ Get(r, AcbsGetExternalRatingsForParty(Params(r).partyIdentifier), Found)

(* POST /parties.                                                          *)
PartyToCreate(r) == Body(r)[1]

ReceiveParty(r) ==
    /\ Receives(r, "POST/parties")
    /\ ValidatedItem(r, TRUE, CreatePartyRequestItem, Goto(r, "searchForParty", None))

SearchForPartyByName(r) ==   \* variant: searches for the name
    LET Searched(parties) ==
            IF parties = <<>> THEN Goto(r, "createParty", None)
            ELSE Goto(r, "getRatings", [partyIdentifier |-> parties[1], status |-> 200])
    IN  /\ pc[r] = "searchForParty"
        /\ Get(r, AcbsGetPartyBySearchText(PartyToCreate(r).name1), Searched)

\* createPartyIfItDoesNotExist: the first party found is taken.
SearchForParty(r) ==
    LET Searched(parties) ==
            IF parties = <<>> THEN Goto(r, "createParty", None)
            ELSE Goto(r, "getRatings", [partyIdentifier |-> parties[1], status |-> 200])
    IN  /\ pc[r] = "searchForParty"
        /\ Get(r, AcbsGetPartyBySearchText(PartyToCreate(r).alternateIdentifier), Searched)

CreateParty(r) ==
    /\ pc[r] = "createParty"
    /\ AcbsCreateParty(r, BuildAcbsCreatePartyRequest(PartyToCreate(r)),
           Goto(r, "getRatings", [partyIdentifier |-> Len(acbs) + 1, status |-> 201]))

AnswerParty(r) ==
    Reply(r, local[r].status, [partyIdentifier |-> local[r].partyIdentifier])

GetRatingsOfNewParty(r) ==   \* variant: a party that was found needs no rating
    LET Rated(ratings) ==
            IF ratings = <<>> /\ local[r].status = 201 THEN Goto(r, "findCustomers", local[r])
            ELSE AnswerParty(r)
    IN  /\ pc[r] = "getRatings"
        /\ Get(r, AcbsGetExternalRatingsForParty(local[r].partyIdentifier), Rated)

GetRatingsOfParty(r) ==
    LET Rated(ratings) ==
            IF ratings = <<>> THEN Goto(r, "findCustomers", local[r]) ELSE AnswerParty(r)
    IN  /\ pc[r] = "getRatings"
        /\ Get(r, AcbsGetExternalRatingsForParty(local[r].partyIdentifier), Rated)

GetLastCustomerType(types) ==   \* variant: the last customer decides
    IF types \in {None, <<>>} THEN None ELSE types[Len(types)]

\* PartyCustomerTypeService: the type of the first customer, and null when MDM
\* has none.
GetPartyCustomerType(types) ==
    IF types \in {None, <<>>} THEN None ELSE types[1]

\* AssignedRatingCodeProvider.
FindCustomerType(r) ==
    /\ pc[r] = "findCustomers"
    /\ UNCHANGED acbs
    /\ \E found \in FindCustomersByPartyUrn(PartyToCreate(r).alternateIdentifier) :
         /\ faults' = faults + found.faults
         /\ IF found.faults = 1 THEN Throw(r, "MdmException")
            ELSE Goto(r, "createRating",
                      [partyIdentifier |-> local[r].partyIdentifier,
                       status |-> local[r].status,
                       assignedRatingCode |->
                           AssignedRatingCode(GetPartyCustomerType(found.types))])

CreateRating(r) ==
    /\ pc[r] = "createRating"
    /\ AcbsCreateExternalRatingForParty(r,
           BuildAcbsCreateExternalRating(local[r].partyIdentifier,
               local[r].assignedRatingCode, PartyToCreate(r).officerRiskDate),
           AnswerParty(r))

PostParties(r) ==
    \/ ReceiveParty(r)
    \/ SearchForParty(r)
    \/ CreateParty(r)
    \/ GetRatingsOfParty(r)
    \/ FindCustomerType(r)
    \/ CreateRating(r)

PartyHandler(r) ==
    \/ GetPartiesBySearchText(r)
    \/ GetPartyByIdentifier(r)
    \/ GetExternalRatingsForParty(r)
    \/ PostParties(r)
=============================================================================
