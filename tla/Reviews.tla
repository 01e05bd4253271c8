------------------------------- MODULE Reviews -------------------------------
(***************************************************************************)
(* Reviews of one seller's events, and the rating the seller shows         *)
(* (review.service.ts).  A review is checked for, created, averaged with   *)
(* the others of its event, and the average written to the seller: four    *)
(* queries without a transaction.  The average is of the event reviewed,   *)
(* not of the seller, and a later write may hold an earlier one.           *)
(***************************************************************************)
EXTENDS FiniteSets, Integers

CONSTANTS
    ReviewEvents,    \* events of the seller
    Reviewers,       \* guests with a booking of each event
    ReviewRequests,  \* requests at once
    MaxReviews       \* bound: reviews ever written

ASSUME ReviewsAssumption ==
    IsFiniteSet(ReviewRequests) /\ MaxReviews \in Nat

VARIABLES
    reviews,     \* reviews[i]: the i-th review written
    average,     \* User.averageRating: the reviews it was computed from
    replyed,     \* reviews that were replied to, and how often
    reviewing,   \* reviewing[r]: where request r stands
    crossed,     \* pairs <<guest, event>> that two requests reviewed at once
    overtaken    \* two averages were computed at once, or one was given up

reviewVars == <<reviews, average, replyed, reviewing, crossed, overtaken>>

Review == [guest : Reviewers, event : ReviewEvents]
ReviewIdle == [pc |-> "idle"]
ReviewStates ==
    [pc : {"create", "average"}, guest : Reviewers, event : ReviewEvents]
    \cup [pc : {"write"}, of : SUBSET (1..MaxReviews)]
    \cup [pc : {"reply"}, review : 1..MaxReviews]

Written == DOMAIN reviews

ReviewsTypeOK ==
    /\ Written = 1..Cardinality(Written) /\ Cardinality(Written) <= MaxReviews
    /\ \A i \in Written : reviews[i] \in Review
    /\ average \subseteq Written
    /\ replyed \in [1..MaxReviews -> Nat]
    /\ reviewing \in [ReviewRequests -> ReviewStates \cup {ReviewIdle}]
    /\ crossed \subseteq Reviewers \X ReviewEvents
    /\ overtaken \in BOOLEAN

ReviewsInit ==
    /\ reviews = [i \in {} |-> 0]
    /\ average = {}
    /\ replyed = [i \in 1..MaxReviews |-> 0]
    /\ reviewing = [r \in ReviewRequests |-> ReviewIdle]
    /\ crossed = {}
    /\ overtaken = FALSE

-----------------------------------------------------------------------------

OfEvent(e) == {i \in Written : reviews[i].event = e}

OfGuest(g, e) == {i \in OfEvent(e) : reviews[i].guest = g}

ReviewEnds(r) == reviewing' = [reviewing EXCEPT ![r] = ReviewIdle]

\* A slip: the search is by the booking, and finds none of the others.
AlreadyNever(g, e) == FALSE
alreadyReviewed(g, e) == OfGuest(g, e) # {}

StartReview(r, g, e) ==
    /\ reviewing[r] = ReviewIdle
    /\ ~alreadyReviewed(g, e)
    /\ reviewing' = [reviewing EXCEPT ![r] =
                        [pc |-> "create", guest |-> g, event |-> e]]
    /\ crossed' =
         IF \E q \in ReviewRequests : /\ reviewing[q].pc = "create"
                                      /\ reviewing[q].guest = g
                                      /\ reviewing[q].event = e
         THEN crossed \cup {<<g, e>>} ELSE crossed
    /\ UNCHANGED <<reviews, average, replyed, overtaken>>

CreateReview(r) ==
    /\ reviewing[r].pc = "create"
    /\ Cardinality(Written) < MaxReviews
    /\ LET i == Cardinality(Written) + 1
           new == [guest |-> reviewing[r].guest, event |-> reviewing[r].event]
       IN  reviews' = [j \in Written \cup {i} |->
                            IF j = i THEN new ELSE reviews[j]]
    /\ reviewing' = [reviewing EXCEPT ![r].pc = "average"]
    /\ UNCHANGED <<average, replyed, crossed, overtaken>>

\* A slip: the average is computed as it was before this review.
AllButLast(e) == OfEvent(e) \ {Cardinality(Written)}
Averaged(e) == OfEvent(e)

(* The reviews of the event, read for the average. *)
ReadReviews(r) ==
    /\ reviewing[r].pc = "average"
    /\ reviewing' = [reviewing EXCEPT ![r] =
                        [pc |-> "write", of |-> Averaged(reviewing[r].event)]]
    /\ overtaken' = (overtaken \/ \E q \in ReviewRequests \ {r} :
                                     reviewing[q].pc \in {"average", "write"})
    /\ UNCHANGED <<reviews, average, replyed, crossed>>

WriteAverage(r) ==
    /\ reviewing[r].pc = "write"
    /\ average' = reviewing[r].of
    /\ ReviewEnds(r)
    /\ UNCHANGED <<reviews, replyed, crossed, overtaken>>

(* A reply is checked for and then written, over one that came between. *)
StartReply(r, i) ==
    /\ reviewing[r] = ReviewIdle
    /\ i \in Written /\ replyed[i] = 0
    /\ reviewing' = [reviewing EXCEPT ![r] = [pc |-> "reply", review |-> i]]
    /\ UNCHANGED <<reviews, average, replyed, crossed, overtaken>>

reply(r) ==
    /\ reviewing[r].pc = "reply"
    /\ replyed' = [replyed EXCEPT ![reviewing[r].review] = @ + 1]
    /\ ReviewEnds(r)
    /\ UNCHANGED <<reviews, average, crossed, overtaken>>

(* The request dies: a review that was written stays, unaveraged. *)
ReviewDies(r) ==
    /\ reviewing[r] # ReviewIdle
    /\ overtaken' = (overtaken \/ reviewing[r].pc \in {"average", "write"})
    /\ ReviewEnds(r)
    /\ UNCHANGED <<reviews, average, replyed, crossed>>

ReviewsNext ==
    \E r \in ReviewRequests :
        \/ \E g \in Reviewers, e \in ReviewEvents : StartReview(r, g, e)
        \/ CreateReview(r) \/ ReadReviews(r) \/ WriteAverage(r)
        \/ \E i \in 1..MaxReviews : StartReply(r, i)
        \/ reply(r) \/ ReviewDies(r)

ReviewsSpec == ReviewsInit /\ [][ReviewsNext]_reviewVars

-----------------------------------------------------------------------------
(* Properties. *)

Averaging == \E r \in ReviewRequests : reviewing[r].pc \in {"average", "write"}

(* A guest reviews an event once, unless two requests of the guest looked at
   once; a review is replied to by no more requests than look at once. *)
OneReviewPerGuest ==
    /\ \A g \in Reviewers, e \in ReviewEvents :
         Cardinality(OfGuest(g, e)) > 1 => <<g, e>> \in crossed
    /\ \A i \in Written : replyed[i] <= Cardinality(ReviewRequests)

(* While nobody is adding to it, the rating of the seller is the average of
   all reviews of the event that was reviewed last, unless two averages were
   computed at once or one was given up. *)
RatingIsOfLastEvent ==
    \/ Averaging
    \/ overtaken
    \/ Written = {}
    \/ average = OfEvent(reviews[Cardinality(Written)].event)

(* One review for each guest and event, and the average of an event is that
   of its reviews, each up to the races the module names (review.service). *)
ReviewsHold == OneReviewPerGuest /\ RatingIsOfLastEvent
=============================================================================
