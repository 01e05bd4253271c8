------------------------------ MODULE MCPlatform ------------------------------
(***************************************************************************)
(* The parts of the platform beside the money, checked in one run.  They   *)
(* share no state, so every behaviour is a behaviour of one part, which    *)
(* the first state chooses; the variables of the others keep their values. *)
(***************************************************************************)
EXTENDS Accounts, Media, Catalog, Seats, Points, Reviews, Rooms, Listings,
        Onboarding, StripeEndpoint, TLC

CONSTANTS r1, r2

VARIABLE part   \* the part this behaviour is about

Interchangeable == Permutations({r1, r2})   \* the requests of each part

MCMinPoints == <<4, 2>>
MCDuration == <<1, 2>>
MCMultiplier == <<200, 150>>

allVars == <<part, accountVars, mediaVars, catalogVars, seatVars, pointVars,
             reviewVars, roomVars, listVars, onboardingVars, endpointVars>>

Parts == {"accounts", "media", "catalog", "seats", "points", "reviews",
          "rooms", "listings", "onboarding", "endpoint"}

(* Only the behaviours of the listings choose a list. *)
NoListChosen ==
    following \in findAllUsers /\ limit = 1 /\ ~tied /\ foreign = {}

PlatformInit ==
    /\ part \in Parts
    /\ AccountsInit /\ MediaInit /\ CatalogInit /\ SeatsInit /\ PointsInit
    /\ ReviewsInit /\ RoomsInit /\ ListingsInit /\ OnboardingInit
    /\ EndpointInit
    /\ part # "listings" => NoListChosen

MarketVars == <<mediaVars, catalogVars, seatVars, pointVars, reviewVars, roomVars>>
OuterVars == <<accountVars, listVars, onboardingVars, endpointVars>>

PlatformNext ==
    /\ UNCHANGED part
    /\ \/ /\ part = "accounts" /\ AccountsNext
          /\ UNCHANGED <<MarketVars, listVars, onboardingVars, endpointVars>>
       \/ /\ part = "media" /\ MediaNext
          /\ UNCHANGED <<OuterVars, catalogVars, seatVars, pointVars, reviewVars,
                         roomVars>>
       \/ /\ part = "catalog" /\ CatalogNext
          /\ UNCHANGED <<OuterVars, mediaVars, seatVars, pointVars, reviewVars,
                         roomVars>>
       \/ /\ part = "seats" /\ SeatsNext
          /\ UNCHANGED <<OuterVars, mediaVars, catalogVars, pointVars, reviewVars,
                         roomVars>>
       \/ /\ part = "points" /\ PointsNext
          /\ UNCHANGED <<OuterVars, mediaVars, catalogVars, seatVars, reviewVars,
                         roomVars>>
       \/ /\ part = "reviews" /\ ReviewsNext
          /\ UNCHANGED <<OuterVars, mediaVars, catalogVars, seatVars, pointVars,
                         roomVars>>
       \/ /\ part = "rooms" /\ RoomsNext
          /\ UNCHANGED <<OuterVars, mediaVars, catalogVars, seatVars, pointVars,
                         reviewVars>>
       \/ /\ part = "listings" /\ ListingsNext
          /\ UNCHANGED <<MarketVars, accountVars, onboardingVars, endpointVars>>
       \/ /\ part = "onboarding" /\ OnboardingNext
          /\ UNCHANGED <<MarketVars, accountVars, listVars, endpointVars>>
       \/ /\ part = "endpoint" /\ EndpointNext
          /\ UNCHANGED <<MarketVars, accountVars, listVars, onboardingVars>>

PlatformSpec == PlatformInit /\ [][PlatformNext]_allVars

-----------------------------------------------------------------------------
(* The properties are those of the modules; their types, by part:          *)

(* Every part's state is well typed. *)
PlatformTypeOK ==
    CASE part = "accounts"   -> AccountTypeOK
      [] part = "media"      -> MediaTypeOK
      [] part = "catalog"    -> CatalogTypeOK
      [] part = "seats"      -> SeatsTypeOK
      [] part = "points"     -> PointsTypeOK
      [] part = "reviews"    -> ReviewsTypeOK
      [] part = "rooms"      -> RoomsTypeOK
      [] part = "listings"   -> ListingsTypeOK
      [] part = "onboarding" -> OnboardingTypeOK
      [] part = "endpoint"   -> EndpointTypeOK
=============================================================================
