-------------------------------- MODULE Seats --------------------------------
(***************************************************************************)
(* A seat and its seller (event.service.ts) against the checkouts of the   *)
(* guests (stripe.service.ts) and the payments that complete them          *)
(* (webhook.service.ts).  The seller adds, changes and deletes a ticket;   *)
(* the check that it is not sold and the write are two steps, a checkout   *)
(* reads the price and creates the booking in two, and a ticket counts as  *)
(* sold only when a payment has been handled.  Deleting a ticket deletes   *)
(* its bookings, and leaves their payments with none.                      *)
(***************************************************************************)
EXTENDS FiniteSets, Integers

CONSTANTS
    Seats,           \* tickets
    Guests,          \* guests, each with one checkout
    SellerRequests,  \* requests of the seller at once
    Prices,          \* prices a ticket can have
    MaxSeatChanges   \* bound: requests of the seller in all

ASSUME SeatsAssumption ==
    IsFiniteSet(SellerRequests) /\ MaxSeatChanges \in Nat

VARIABLES
    seat,         \* seat[t]: the row of ticket t
    checkout,     \* checkout[g]: guest g's session, and its booking and payment
    seller,       \* seller[r]: where request r stands
    seatChanges   \* requests of the seller so far

seatVars == <<seat, checkout, seller, seatChanges>>

NoSeat == [there |-> FALSE]
Seat == [there : {TRUE}, price : Prices, isBooked : BOOLEAN]

NoCheckout == [pc |-> "none"]

(* raced: a request of the seller was past its check when the payment was
   handled. *)
Checkout == [pc : {"session", "open", "paid", "closed"}, ticket : Seats,
             price : Prices, booking : {"none", "PENDING", "CONFIRMED"},
             raced : BOOLEAN]

SellerIdle == [pc |-> "idle"]
Checked == [pc : {"update", "delete"}, ticket : Seats, price : Prices]

SeatsTypeOK ==
    /\ seat \in [Seats -> Seat \cup {NoSeat}]
    /\ checkout \in [Guests -> Checkout \cup {NoCheckout}]
    /\ seller \in [SellerRequests -> Checked \cup {SellerIdle}]
    /\ seatChanges \in 0..MaxSeatChanges

SeatsInit ==
    /\ seat = [t \in Seats |-> NoSeat]
    /\ checkout = [g \in Guests |-> NoCheckout]
    /\ seller = [r \in SellerRequests |-> SellerIdle]
    /\ seatChanges = 0

-----------------------------------------------------------------------------
(* The seller. *)

SeatChange == seatChanges < MaxSeatChanges /\ seatChanges' = seatChanges + 1

addticketToEvent(t, p) ==
    /\ SeatChange
    /\ seat[t] = NoSeat
    /\ \A g \in Guests : checkout[g] # NoCheckout => checkout[g].ticket # t
    /\ \A r \in SellerRequests : seller[r] # SellerIdle => seller[r].ticket # t
    /\ seat' = [seat EXCEPT ![t] =
                    [there |-> TRUE, price |-> p, isBooked |-> FALSE]]
    /\ UNCHANGED <<checkout, seller>>

\* A slip: a ticket that is sold can be changed.
AnyTicket(t) == seat[t].there
NotSold(t) == seat[t].there /\ ~seat[t].isBooked

CheckTicket(r, op, t, p) ==
    /\ SeatChange
    /\ seller[r] = SellerIdle
    /\ NotSold(t)
    /\ seller' = [seller EXCEPT ![r] = [pc |-> op, ticket |-> t, price |-> p]]
    /\ UNCHANGED <<seat, checkout>>

updateticket(r) ==
    /\ seller[r].pc = "update"
    /\ seat' = IF seat[seller[r].ticket].there
               THEN [seat EXCEPT ![seller[r].ticket].price = seller[r].price]
               ELSE seat
    /\ seller' = [seller EXCEPT ![r] = SellerIdle]
    /\ UNCHANGED <<checkout, seatChanges>>

(* The bookings of the ticket go with it (onDelete: Cascade). *)
deleteTicket(r) ==
    /\ seller[r].pc = "delete"
    /\ LET t == seller[r].ticket
       IN  /\ seat' = [seat EXCEPT ![t] = NoSeat]
           /\ checkout' = [g \in Guests |->
                IF checkout[g] # NoCheckout /\ checkout[g].ticket = t
                THEN [checkout[g] EXCEPT !.booking = "none"]
                ELSE checkout[g]]
    /\ seller' = [seller EXCEPT ![r] = SellerIdle]
    /\ UNCHANGED seatChanges

-----------------------------------------------------------------------------
(* A guest's checkout. *)

(* The ticket is read, and the session opened for its price. *)
OpenSession(g, t) ==
    /\ checkout[g] = NoCheckout
    /\ seat[t].there
    /\ checkout' = [checkout EXCEPT ![g] =
            [pc |-> "session", ticket |-> t, price |-> seat[t].price,
             booking |-> "none", raced |-> FALSE]]
    /\ UNCHANGED <<seat, seller, seatChanges>>

(* The ticket is read again, and the booking and its payment are created.
   A session that is refused here stays open, and nobody is told of it. *)
CreateBooking(g) ==
    /\ checkout[g].pc = "session"
    /\ checkout' = [checkout EXCEPT ![g] =
            IF NotSold(checkout[g].ticket)
            THEN [@ EXCEPT !.pc = "open", !.booking = "PENDING"]
            ELSE [@ EXCEPT !.pc = "closed"]]
    /\ UNCHANGED <<seat, seller, seatChanges>>

\* A slip: a ticket is marked when its checkout starts, not when it is paid.
LeavesTicket(t) == seat
MarksTicket(t) == [seat EXCEPT ![t].isBooked = TRUE]

(* The guest has paid: the payment is marked SUCCESS, and the booking and
   the ticket if the booking is still there. *)
CheckoutCompleted(g) ==
    /\ checkout[g].pc = "open"
    /\ LET t == checkout[g].ticket
           confirms == checkout[g].booking = "PENDING"
           racing == \E r \in SellerRequests :
                        seller[r] # SellerIdle /\ seller[r].ticket = t
       IN  /\ checkout' = [checkout EXCEPT ![g] =
                 [@ EXCEPT !.pc = "paid",
                           !.booking = IF confirms THEN "CONFIRMED"
                                       ELSE checkout[g].booking,
                           !.raced = racing]]
           /\ seat' = IF confirms THEN MarksTicket(t) ELSE seat
    /\ UNCHANGED <<seller, seatChanges>>

(* The session runs out, or the guest leaves. *)
CheckoutExpired(g) ==
    /\ checkout[g].pc = "open"
    /\ checkout' = [checkout EXCEPT ![g].pc = "closed"]
    /\ UNCHANGED <<seat, seller, seatChanges>>

SeatsNext ==
    \/ \E t \in Seats, p \in Prices :
        \/ addticketToEvent(t, p)
        \/ \E r \in SellerRequests, op \in {"update", "delete"} :
             CheckTicket(r, op, t, p)
    \/ \E r \in SellerRequests : updateticket(r) \/ deleteTicket(r)
    \/ \E g \in Guests :
        \/ \E t \in Seats : OpenSession(g, t)
        \/ CreateBooking(g) \/ CheckoutCompleted(g) \/ CheckoutExpired(g)

SeatsSpec == SeatsInit /\ [][SeatsNext]_seatVars

-----------------------------------------------------------------------------
(* Properties. *)

Sold(g) == checkout[g].pc = "paid" /\ checkout[g].booking = "CONFIRMED"

(* A seat that was sold stays, with its booking and at its price: what can
   take either is a request of the seller that had checked the ticket before
   the payment was handled.  (A payment that comes after the deletion finds
   no booking, and is marked SUCCESS all the same.) *)
SoldSeatStays ==
    [][\A g \in Guests :
         Sold(g) /\ ~checkout[g].raced =>
           LET t == checkout[g].ticket
           IN  /\ checkout'[g].booking = "CONFIRMED"
               /\ seat'[t].there /\ seat'[t].price = seat[t].price]_seatVars

(* Whoever has paid has a seat that is booked, or the seat is gone: the
   deletion of a ticket is all that leaves a payment without a seat. *)
PaidSeatIsBookedOrGone ==
    \A g \in Guests :
        checkout[g].pc = "paid" =>
            LET s == seat[checkout[g].ticket]
            IN  IF s.there THEN s.isBooked /\ Sold(g)
                ELSE checkout[g].booking = "none"
=============================================================================
