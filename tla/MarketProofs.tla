---------------------------- MODULE MarketProofs ----------------------------
(***************************************************************************)
(* Theorems about the parts beside the money: sold seats (Seats), the room *)
(* of a booking (Rooms), the files rows name (Media) and the reviews of a  *)
(* seller's events (Reviews), for any number of tickets, guests, rows and  *)
(* requests.                                                               *)
(***************************************************************************)
EXTENDS Seats, Rooms, Media, Reviews, FiniteSetTheorems, TLAPS

-----------------------------------------------------------------------------
(* Seats: what a checkout knows of its ticket                              *)

\* A booking that waits for its payment has a ticket, and a payment has a
\* booked ticket or none at all.
Fits(c, s) ==
    /\ c.pc = "open" => c.booking = IF s.there THEN "PENDING" ELSE "none"
    /\ c.pc = "paid" => IF s.there THEN s.isBooked /\ c.booking = "CONFIRMED"
                        ELSE c.booking = "none"

\* No request of the seller that could take the ticket is under way.
Undisturbed(c) ==
    c.pc = "paid" /\ c.booking = "CONFIRMED" /\ ~c.raced =>
        \A r \in SellerRequests : seller[r] # SellerIdle => seller[r].ticket # c.ticket

CheckoutInv(g) ==
    checkout[g] # NoCheckout =>
        Fits(checkout[g], seat[checkout[g].ticket]) /\ Undisturbed(checkout[g])

SeatsInv == SeatsTypeOK /\ \A g \in Guests : CheckoutInv(g)

LEMMA SeatRecords ==
    /\ NoSeat.there = FALSE /\ NoCheckout.pc = "none" /\ SellerIdle.pc = "idle"
    /\ \A s \in Seat : s.there = TRUE /\ s # NoSeat /\ s.isBooked \in BOOLEAN
                       /\ s.price \in Prices
    /\ \A c \in Checkout : /\ c # NoCheckout /\ c.ticket \in Seats
                           /\ c.price \in Prices
                           /\ c.pc \in {"session", "open", "paid", "closed"}
                           /\ c.raced \in BOOLEAN
    /\ \A q \in Checked : /\ q # SellerIdle /\ q.ticket \in Seats
                          /\ q.price \in Prices /\ q.pc \in {"update", "delete"}
<1>1. NoSeat.there = FALSE
  BY DEF NoSeat
<1>2. NoCheckout.pc = "none" /\ SellerIdle.pc = "idle"
  BY DEF NoCheckout, SellerIdle
<1>3. \A s \in Seat : s.there = TRUE /\ s.isBooked \in BOOLEAN /\ s.price \in Prices
  BY DEF Seat
<1>4. \A c \in Checkout : /\ c.ticket \in Seats /\ c.price \in Prices
                          /\ c.pc \in {"session", "open", "paid", "closed"}
                          /\ c.raced \in BOOLEAN
  BY DEF Checkout
<1>5. \A q \in Checked : /\ q.ticket \in Seats /\ q.price \in Prices
                         /\ q.pc \in {"update", "delete"}
  BY DEF Checked
<1>6. \A s \in Seat : s # NoSeat
  BY <1>1, <1>3
<1>7. \A c \in Checkout : c # NoCheckout
  BY <1>2, <1>4
<1>8. \A q \in Checked : q # SellerIdle
  BY <1>2, <1>5
<1> QED BY <1>1, <1>2, <1>3, <1>4, <1>5, <1>6, <1>7, <1>8, Zenon

LEMMA SeatTyped ==
    ASSUME SeatsInv
    PROVE  /\ \A t \in Seats : seat[t] \in Seat \/ seat[t] = NoSeat
           /\ \A t \in Seats : seat[t].there <=> seat[t] \in Seat
           /\ \A g \in Guests : checkout[g] \in Checkout \/ checkout[g] = NoCheckout
           /\ \A r \in SellerRequests : seller[r] \in Checked \/ seller[r] = SellerIdle
<1>1. /\ \A t \in Seats : seat[t] \in Seat \/ seat[t] = NoSeat
      /\ \A g \in Guests : checkout[g] \in Checkout \/ checkout[g] = NoCheckout
      /\ \A r \in SellerRequests : seller[r] \in Checked \/ seller[r] = SellerIdle
  BY DEF SeatsInv, SeatsTypeOK
<1> QED BY <1>1, SeatRecords

LEMMA SeatsInvInit == SeatsInit => SeatsInv
<1> SUFFICES ASSUME SeatsInit PROVE SeatsInv
  OBVIOUS
<1>1. /\ seat \in [Seats -> Seat \cup {NoSeat}]
      /\ checkout \in [Guests -> Checkout \cup {NoCheckout}]
      /\ seller \in [SellerRequests -> Checked \cup {SellerIdle}]
      /\ \A g \in Guests : checkout[g] = NoCheckout
  BY DEF SeatsInit
<1>2. seatChanges \in 0..MaxSeatChanges
  BY SeatsAssumption DEF SeatsInit
<1> QED BY <1>1, <1>2 DEF SeatsInv, SeatsTypeOK, CheckoutInv

\* The seller's steps: what they do to a ticket t.
LEMMA AddKeeps ==
    ASSUME SeatsInv, NEW t \in Seats, NEW p \in Prices, addticketToEvent(t, p)
    PROVE  SeatsInv'
<1>1. PICK s : s = [there |-> TRUE, price |-> p, isBooked |-> FALSE]
  OBVIOUS
<1>2. s \in Seat
  BY <1>1 DEF Seat
<1>3. /\ seat' = [seat EXCEPT ![t] = s] /\ UNCHANGED <<checkout, seller>>
      /\ \A g \in Guests : checkout[g] # NoCheckout => checkout[g].ticket # t
      /\ seatChanges < MaxSeatChanges /\ seatChanges' = seatChanges + 1
  BY <1>1 DEF addticketToEvent, SeatChange
<1>4. seatChanges' \in 0..MaxSeatChanges
  BY <1>3, SeatsAssumption DEF SeatsInv, SeatsTypeOK
<1>5. SeatsTypeOK'
  BY <1>2, <1>3, <1>4 DEF SeatsInv, SeatsTypeOK
<1>6. ASSUME NEW g \in Guests PROVE CheckoutInv(g)'
  <2> SUFFICES ASSUME checkout[g] # NoCheckout
               PROVE  Fits(checkout[g], seat'[checkout[g].ticket])
                      /\ Undisturbed(checkout[g])'
    BY <1>3 DEF CheckoutInv
  <2>1. checkout[g].ticket \in Seats /\ checkout[g].ticket # t
    BY <1>3, SeatTyped, SeatRecords
  <2>2. seat'[checkout[g].ticket] = seat[checkout[g].ticket]
    BY <1>3, <2>1 DEF SeatsInv, SeatsTypeOK
  <2>3. Fits(checkout[g], seat[checkout[g].ticket]) /\ Undisturbed(checkout[g])
    BY DEF SeatsInv, CheckoutInv
  <2> QED BY <1>3, <2>2, <2>3 DEF Undisturbed
<1> QED BY <1>5, <1>6 DEF SeatsInv

\* A ticket that is sold for good passes nobody's check.
LEMMA SellerCheckKeeps ==
    ASSUME SeatsInv, NEW r \in SellerRequests, NEW op \in {"update", "delete"},
           NEW t \in Seats, NEW p \in Prices, CheckTicket(r, op, t, p)
    PROVE  SeatsInv'
<1>1. PICK q : q = [pc |-> op, ticket |-> t, price |-> p]
  OBVIOUS
<1>2. q \in Checked /\ q.ticket = t
  BY <1>1 DEF Checked
<1>3. /\ seller' = [seller EXCEPT ![r] = q] /\ UNCHANGED <<seat, checkout>>
      /\ seat[t].there /\ ~seat[t].isBooked
      /\ seatChanges < MaxSeatChanges /\ seatChanges' = seatChanges + 1
  BY <1>1 DEF CheckTicket, SeatChange, NotSold
<1>4. seatChanges' \in 0..MaxSeatChanges
  BY <1>3, SeatsAssumption DEF SeatsInv, SeatsTypeOK
<1>5. SeatsTypeOK'
  BY <1>2, <1>3, <1>4 DEF SeatsInv, SeatsTypeOK
<1>6. ASSUME NEW g \in Guests PROVE CheckoutInv(g)'
  <2> SUFFICES ASSUME checkout[g] # NoCheckout
               PROVE  Fits(checkout[g], seat[checkout[g].ticket])
                      /\ Undisturbed(checkout[g])'
    BY <1>3 DEF CheckoutInv
  <2>1. Fits(checkout[g], seat[checkout[g].ticket]) /\ Undisturbed(checkout[g])
    BY DEF SeatsInv, CheckoutInv
  <2>2. checkout[g].pc = "paid" /\ checkout[g].booking = "CONFIRMED"
        => checkout[g].ticket # t
    BY <1>3, <2>1 DEF Fits
  <2>3. \A x \in SellerRequests : seller'[x] = seller[x] \/ seller'[x] = q
    BY <1>3 DEF SeatsInv, SeatsTypeOK
  <2>4. PICK c : c = checkout[g]
    OBVIOUS
  <2>5. Undisturbed(c)'
    <3>1. Undisturbed(c)
      BY <2>1, <2>4
    <3>2. c.pc = "paid" /\ c.booking = "CONFIRMED" => c.ticket # q.ticket
      BY <1>2, <2>2, <2>4
    <3> QED BY <2>3, <3>1, <3>2 DEF Undisturbed
  <2> QED BY <1>3, <2>1, <2>4, <2>5
<1> QED BY <1>5, <1>6 DEF SeatsInv

\* A request of the seller that ends disturbs nobody any more.
LEMMA SellerEnds ==
    ASSUME SeatsInv, NEW r \in SellerRequests,
           seller' = [seller EXCEPT ![r] = SellerIdle], NEW c
    PROVE  /\ seller' \in [SellerRequests -> Checked \cup {SellerIdle}]
           /\ Undisturbed(c) => Undisturbed(c)'
<1>1. seller \in [SellerRequests -> Checked \cup {SellerIdle}]
  BY DEF SeatsInv, SeatsTypeOK
<1>2. \A x \in SellerRequests : seller'[x] \in {seller[x], SellerIdle}
  BY <1>1
<1> QED BY <1>1, <1>2 DEF Undisturbed

LEMMA UpdateKeeps ==
    ASSUME SeatsInv, NEW r \in SellerRequests, updateticket(r)
    PROVE  SeatsInv'
<1>1. /\ seller[r].pc = "update" /\ seller' = [seller EXCEPT ![r] = SellerIdle]
      /\ UNCHANGED <<checkout, seatChanges>>
  BY DEF updateticket
<1>2. seller[r] \in Checked
  BY <1>1, SeatTyped, SeatRecords
<1>3. PICK t \in Seats : t = seller[r].ticket
  BY <1>2, SeatRecords
<1>4. PICK p \in Prices : p = seller[r].price
  BY <1>2, SeatRecords
<1>5. PICK s : s = [seat[t] EXCEPT !.price = p]
  OBVIOUS
<1>6. (seat[t].there /\ seat' = [seat EXCEPT ![t] = s]) \/ seat' = seat
  BY <1>3, <1>4, <1>5 DEF updateticket
<1>7. seat[t] \in Seat => s \in Seat /\ s.there = TRUE /\ s.isBooked = seat[t].isBooked
  BY <1>5 DEF Seat
<1>8. /\ seat' \in [Seats -> Seat \cup {NoSeat}]
      /\ \A x \in Seats : seat'[x] = seat[x] \/ (x = t /\ seat'[x] = s /\ seat[t] \in Seat)
  BY <1>6, <1>7, SeatTyped DEF SeatsInv, SeatsTypeOK
<1>9. SeatsTypeOK'
  BY <1>1, <1>8, SellerEnds DEF SeatsInv, SeatsTypeOK
<1>10. ASSUME NEW g \in Guests PROVE CheckoutInv(g)'
  <2> SUFFICES ASSUME checkout[g] # NoCheckout
               PROVE  Fits(checkout[g], seat'[checkout[g].ticket])
                      /\ Undisturbed(checkout[g])'
    BY <1>1 DEF CheckoutInv
  <2>1. Fits(checkout[g], seat[checkout[g].ticket]) /\ Undisturbed(checkout[g])
    BY DEF SeatsInv, CheckoutInv
  <2>2. checkout[g].ticket \in Seats
    BY SeatTyped, SeatRecords
  <2>3. Fits(checkout[g], seat'[checkout[g].ticket])
    <3>1. PICK x \in Seats : x = checkout[g].ticket
      BY <2>2
    <3>2. CASE seat'[x] = seat[x]
      BY <2>1, <3>1, <3>2
    <3>3. CASE x = t /\ seat'[x] = s /\ seat[t] \in Seat
      <4>1. s.there = TRUE /\ s.isBooked = seat[t].isBooked /\ seat[t].there = TRUE
        BY <1>7, <3>3, SeatRecords
      <4> QED BY <2>1, <3>1, <3>3, <4>1 DEF Fits
    <3> QED BY <1>8, <3>2, <3>3
  <2> QED BY <1>1, <2>1, <2>3, SellerEnds
<1> QED BY <1>9, <1>10 DEF SeatsInv

LEMMA SeatDeleted ==
    ASSUME SeatsInv, NEW r \in SellerRequests, deleteTicket(r)
    PROVE  SeatsInv'
<1>1. /\ seller[r].pc = "delete" /\ seller' = [seller EXCEPT ![r] = SellerIdle]
      /\ UNCHANGED seatChanges
  BY DEF deleteTicket
<1>2. seller[r] \in Checked
  BY <1>1, SeatTyped, SeatRecords
<1>3. PICK t \in Seats : t = seller[r].ticket
  BY <1>2, SeatRecords
<1>4. /\ seat' = [seat EXCEPT ![t] = NoSeat]
      /\ checkout' = [g \in Guests |->
                        IF checkout[g] # NoCheckout /\ checkout[g].ticket = t
                        THEN [checkout[g] EXCEPT !.booking = "none"]
                        ELSE checkout[g]]
  BY <1>3 DEF deleteTicket
<1>5. seat' \in [Seats -> Seat \cup {NoSeat}]
  BY <1>4 DEF SeatsInv, SeatsTypeOK
<1>6. ASSUME NEW g \in Guests
      PROVE  /\ checkout'[g] \in Checkout \cup {NoCheckout}
             /\ CheckoutInv(g)'
  <2>1. CASE checkout[g] # NoCheckout /\ checkout[g].ticket = t
    <3>1. PICK c : c = [checkout[g] EXCEPT !.booking = "none"]
      OBVIOUS
    <3>2. c \in Checkout /\ c.booking = "none" /\ c.ticket = t
      BY <2>1, <3>1, SeatTyped DEF Checkout
    <3>3. checkout'[g] = c /\ seat'[t] = NoSeat
      BY <1>4, <2>1, <3>1 DEF SeatsInv, SeatsTypeOK
    <3>4. Fits(c, NoSeat) /\ Undisturbed(c)'
      BY <3>2, SeatRecords DEF Fits, Undisturbed
    <3> QED BY <3>2, <3>3, <3>4 DEF CheckoutInv
  <2>2. CASE ~(checkout[g] # NoCheckout /\ checkout[g].ticket = t)
    <3>1. checkout'[g] = checkout[g] /\ checkout[g] \in Checkout \cup {NoCheckout}
      BY <1>4, <2>2, SeatTyped
    <3>2. ASSUME checkout[g] # NoCheckout PROVE CheckoutInv(g)'
      <4>1. checkout[g].ticket \in Seats /\ checkout[g].ticket # t
        BY <2>2, <3>2, SeatTyped, SeatRecords
      <4>2. seat'[checkout[g].ticket] = seat[checkout[g].ticket]
        BY <1>4, <4>1 DEF SeatsInv, SeatsTypeOK
      <4>3. Fits(checkout[g], seat[checkout[g].ticket]) /\ Undisturbed(checkout[g])
        BY <3>2 DEF SeatsInv, CheckoutInv
      <4>4. Undisturbed(checkout[g])'
        BY <1>1, <3>1, <4>3 DEF SeatsInv, SeatsTypeOK, Undisturbed
      <4> QED BY <3>1, <4>2, <4>3, <4>4 DEF CheckoutInv
    <3>3. CASE checkout[g] = NoCheckout
      BY <3>1, <3>3 DEF CheckoutInv
    <3> QED BY <3>1, <3>2, <3>3
  <2> QED BY <2>1, <2>2
<1>7. checkout' \in [Guests -> Checkout \cup {NoCheckout}]
  BY <1>4, <1>6
<1>8. SeatsTypeOK'
  BY <1>1, <1>5, <1>7, SellerEnds DEF SeatsInv, SeatsTypeOK
<1> QED BY <1>6, <1>8 DEF SeatsInv

\* A guest's checkout moves to c, and leaves the tickets alone.
LEMMA CheckoutMoves ==
    ASSUME SeatsInv, NEW g \in Guests, NEW c \in Checkout,
           checkout' = [checkout EXCEPT ![g] = c], Fits(c, seat[c.ticket]),
           c.pc # "paid", UNCHANGED <<seat, seller, seatChanges>>
    PROVE  SeatsInv'
<1>1. SeatsTypeOK'
  BY DEF SeatsInv, SeatsTypeOK
<1>2. ASSUME NEW h \in Guests PROVE CheckoutInv(h)'
  <2>1. CASE h = g
    <3>1. checkout'[h] = c
      BY <2>1 DEF SeatsInv, SeatsTypeOK
    <3> QED BY <3>1 DEF CheckoutInv, Undisturbed
  <2>2. CASE h # g
    <3>1. checkout'[h] = checkout[h]
      BY <2>2 DEF SeatsInv, SeatsTypeOK
    <3>2. CheckoutInv(h)
      BY DEF SeatsInv
    <3> QED BY <3>1, <3>2 DEF CheckoutInv, Undisturbed
  <2> QED BY <2>1, <2>2
<1> QED BY <1>1, <1>2 DEF SeatsInv

LEMMA SessionKeeps ==
    ASSUME SeatsInv, NEW g \in Guests, NEW t \in Seats, OpenSession(g, t)
    PROVE  SeatsInv'
<1>1. PICK p : p = seat[t].price
  OBVIOUS
<1>2. PICK c : c = [pc |-> "session", ticket |-> t, price |-> p,
                    booking |-> "none", raced |-> FALSE]
  OBVIOUS
<1>3. /\ seat[t].there /\ checkout' = [checkout EXCEPT ![g] = c]
      /\ UNCHANGED <<seat, seller, seatChanges>>
  BY <1>1, <1>2 DEF OpenSession
<1>4. p \in Prices
  BY <1>1, <1>3, SeatTyped, SeatRecords
<1>5. c \in Checkout /\ c.pc = "session"
  BY <1>2, <1>4 DEF Checkout
<1>6. Fits(c, seat[c.ticket])
  BY <1>5 DEF Fits
<1> QED BY <1>3, <1>5, <1>6, CheckoutMoves

LEMMA BookingKeeps ==
    ASSUME SeatsInv, NEW g \in Guests, CreateBooking(g) \/ CheckoutExpired(g)
    PROVE  SeatsInv'
<1>1. PICK o : o = [checkout[g] EXCEPT !.pc = "open", !.booking = "PENDING"]
  OBVIOUS
<1>2. PICK c : c = [checkout[g] EXCEPT !.pc = "closed"]
  OBVIOUS
<1>3. /\ checkout[g].pc \in {"session", "open"}
      /\ UNCHANGED <<seat, seller, seatChanges>>
      /\ \/ seat[checkout[g].ticket].there /\ checkout' = [checkout EXCEPT ![g] = o]
         \/ checkout' = [checkout EXCEPT ![g] = c]
  BY <1>1, <1>2 DEF CreateBooking, CheckoutExpired, NotSold
<1>4. checkout[g] \in Checkout
  BY <1>3, SeatTyped, SeatRecords
<1>5. o \in Checkout /\ o.pc = "open" /\ o.booking = "PENDING"
      /\ o.ticket = checkout[g].ticket
  BY <1>1, <1>4 DEF Checkout
<1>6. c \in Checkout /\ c.pc = "closed"
  BY <1>2, <1>4 DEF Checkout
<1>7. CASE seat[checkout[g].ticket].there /\ checkout' = [checkout EXCEPT ![g] = o]
  <2>1. Fits(o, seat[o.ticket])
    BY <1>5, <1>7 DEF Fits
  <2> QED BY <1>3, <1>5, <1>7, <2>1, CheckoutMoves
<1>8. CASE checkout' = [checkout EXCEPT ![g] = c]
  <2>1. Fits(c, seat[c.ticket])
    BY <1>6 DEF Fits
  <2> QED BY <1>3, <1>6, <1>8, <2>1, CheckoutMoves
<1> QED BY <1>3, <1>7, <1>8

\* The payment is handled: the ticket is marked when its booking is there.
LEMMA PaidKeeps ==
    ASSUME SeatsInv, NEW g \in Guests, CheckoutCompleted(g)
    PROVE  SeatsInv'
<1>1. PICK t : t = checkout[g].ticket
  OBVIOUS
<1>2. PICK b : b = IF checkout[g].booking = "PENDING" THEN "CONFIRMED"
                   ELSE checkout[g].booking
  OBVIOUS
<1>3. PICK racing : racing = (\E r \in SellerRequests :
                                 seller[r] # SellerIdle /\ seller[r].ticket = t)
  OBVIOUS
<1>4. PICK c : c = [checkout[g] EXCEPT !.pc = "paid", !.booking = b,
                                       !.raced = racing]
  OBVIOUS
<1>5. PICK s : s = [seat[t] EXCEPT !.isBooked = TRUE]
  OBVIOUS
<1>6. /\ checkout[g].pc = "open" /\ UNCHANGED <<seller, seatChanges>>
  BY DEF CheckoutCompleted
<1>7. checkout' = [checkout EXCEPT ![g] = c]
  BY <1>1, <1>2, <1>3, <1>4 DEF CheckoutCompleted
<1>8. seat' = IF checkout[g].booking = "PENDING"
              THEN [seat EXCEPT ![t] = s] ELSE seat
  BY <1>1, <1>5 DEF CheckoutCompleted, MarksTicket
<1>9. checkout[g] \in Checkout /\ t \in Seats /\ racing \in BOOLEAN
  BY <1>1, <1>3, <1>6, SeatTyped, SeatRecords
<1>10. b \in {"none", "PENDING", "CONFIRMED"}
  BY <1>2, <1>9 DEF Checkout
<1>11. /\ c \in Checkout /\ c.pc = "paid" /\ c.booking = b /\ c.ticket = t
       /\ c.raced = racing
  BY <1>1, <1>4, <1>9, <1>10 DEF Checkout
<1>12. checkout[g].booking = IF seat[t].there THEN "PENDING" ELSE "none"
  BY <1>1, <1>6, <1>9, SeatRecords DEF SeatsInv, CheckoutInv, Fits
<1>13. seat[t] \in Seat => s \in Seat /\ s.there = TRUE /\ s.isBooked = TRUE
  BY <1>5 DEF Seat
<1>14. /\ seat[t].there => seat[t] \in Seat /\ seat' = [seat EXCEPT ![t] = s]
                           /\ b = "CONFIRMED"
       /\ ~seat[t].there => seat' = seat /\ b = "none"
  BY <1>2, <1>8, <1>9, <1>12, SeatTyped
<1>15. /\ seat' \in [Seats -> Seat \cup {NoSeat}]
       /\ \A x \in Seats : \/ seat'[x] = seat[x]
                           \/ x = t /\ seat'[x] = s /\ seat[t] \in Seat
  BY <1>13, <1>14 DEF SeatsInv, SeatsTypeOK
<1>16. SeatsTypeOK'
  BY <1>6, <1>7, <1>11, <1>15 DEF SeatsInv, SeatsTypeOK
<1>17. Fits(c, seat'[t])
  <2>1. CASE seat[t].there
    <3>1. seat'[t] = s /\ s.there = TRUE /\ s.isBooked = TRUE /\ b = "CONFIRMED"
      BY <1>9, <1>13, <1>14, <2>1 DEF SeatsInv, SeatsTypeOK
    <3> QED BY <1>11, <3>1 DEF Fits
  <2>2. CASE ~seat[t].there
    <3>1. seat'[t] = seat[t] /\ b = "none"
      BY <1>14, <2>2
    <3> QED BY <1>11, <2>2, <3>1 DEF Fits
  <2> QED BY <2>1, <2>2
<1>18. Undisturbed(c)'
  <2>1. ~c.raced => \A r \in SellerRequests : seller[r] # SellerIdle
                                              => seller[r].ticket # t
    BY <1>3, <1>11
  <2> QED BY <1>6, <1>11, <2>1 DEF Undisturbed
<1>19. ASSUME NEW h \in Guests PROVE CheckoutInv(h)'
  <2>1. CASE h = g
    <3>1. checkout'[h] = c
      BY <1>7, <2>1 DEF SeatsInv, SeatsTypeOK
    <3> QED BY <1>11, <1>17, <1>18, <3>1 DEF CheckoutInv
  <2>2. CASE h # g /\ checkout[h] # NoCheckout
    <3>1. PICK d : d = checkout[h]
      OBVIOUS
    <3>2. checkout'[h] = d
      BY <1>7, <2>2, <3>1 DEF SeatsInv, SeatsTypeOK
    <3>3. Fits(d, seat[d.ticket]) /\ Undisturbed(d)
      BY <2>2, <3>1 DEF SeatsInv, CheckoutInv
    <3>4. d.ticket \in Seats
      BY <2>2, <3>1, SeatTyped, SeatRecords
    <3>5. Fits(d, seat'[d.ticket])
      <4>1. CASE seat'[d.ticket] = seat[d.ticket]
        BY <3>3, <4>1
      <4>2. CASE d.ticket = t /\ seat'[d.ticket] = s /\ seat[t] \in Seat
        <5>1. s.there = TRUE /\ s.isBooked = TRUE /\ seat[t].there = TRUE
          BY <1>13, <4>2, SeatRecords
        <5> QED BY <3>3, <4>2, <5>1 DEF Fits
      <4> QED BY <1>15, <3>4, <4>1, <4>2
    <3>6. Undisturbed(d)'
      BY <1>6, <3>3 DEF Undisturbed
    <3> QED BY <3>2, <3>5, <3>6 DEF CheckoutInv
  <2>3. CASE h # g /\ checkout[h] = NoCheckout
    <3>1. checkout'[h] = NoCheckout
      BY <1>7, <2>3 DEF SeatsInv, SeatsTypeOK
    <3> QED BY <3>1 DEF CheckoutInv
  <2> QED BY <2>1, <2>2, <2>3
<1> QED BY <1>16, <1>19 DEF SeatsInv

LEMMA SeatsInvNext == SeatsInv /\ [SeatsNext]_seatVars => SeatsInv'
<1>1. ASSUME SeatsInv, UNCHANGED seatVars
      PROVE  SeatsInv'
  BY <1>1 DEF seatVars, SeatsInv, SeatsTypeOK, CheckoutInv, Undisturbed
<1>2. ASSUME SeatsInv, NEW t \in Seats, NEW p \in Prices, addticketToEvent(t, p)
      PROVE  SeatsInv'
  BY <1>2, AddKeeps
<1>3. ASSUME SeatsInv, NEW t \in Seats, NEW p \in Prices,
             NEW r \in SellerRequests, NEW op \in {"update", "delete"},
             CheckTicket(r, op, t, p)
      PROVE  SeatsInv'
  BY <1>3, SellerCheckKeeps
<1>4. ASSUME SeatsInv, NEW r \in SellerRequests, updateticket(r) \/ deleteTicket(r)
      PROVE  SeatsInv'
  BY <1>4, UpdateKeeps, SeatDeleted
<1>5. ASSUME SeatsInv, NEW g \in Guests, NEW t \in Seats, OpenSession(g, t)
      PROVE  SeatsInv'
  BY <1>5, SessionKeeps
<1>6. ASSUME SeatsInv, NEW g \in Guests,
             CreateBooking(g) \/ CheckoutCompleted(g) \/ CheckoutExpired(g)
      PROVE  SeatsInv'
  BY <1>6, BookingKeeps, PaidKeeps
<1> QED BY <1>1, <1>2, <1>3, <1>4, <1>5, <1>6, Zenon DEF SeatsNext

LEMMA SeatsInvariant == SeatsSpec => []SeatsInv
  BY SeatsInvInit, SeatsInvNext, PTL DEF SeatsSpec

\* Tickets, checkouts and the seller's requests have their types, for any
\* number of each and any prices.
THEOREM SeatsTypeCorrect == SeatsSpec => []SeatsTypeOK
<1>1. SeatsInv => SeatsTypeOK
  BY DEF SeatsInv
<1> QED BY <1>1, SeatsInvariant, PTL

\* webhook.service against event.service: whoever has paid has a seat that is
\* booked, or the seat was deleted and the booking with it.
THEOREM PaidSeats == SeatsSpec => []PaidSeatIsBookedOrGone
<1>1. ASSUME SeatsInv PROVE PaidSeatIsBookedOrGone
  <2> SUFFICES ASSUME NEW g \in Guests, checkout[g].pc = "paid"
               PROVE  IF seat[checkout[g].ticket].there
                      THEN seat[checkout[g].ticket].isBooked /\ Sold(g)
                      ELSE checkout[g].booking = "none"
    BY DEF PaidSeatIsBookedOrGone
  <2>1. Fits(checkout[g], seat[checkout[g].ticket])
    BY <1>1, SeatRecords DEF SeatsInv, CheckoutInv
  <2> QED BY <2>1 DEF Fits, Sold
<1> QED BY <1>1, SeatsInvariant, PTL

\* The step that comes after a sale nobody raced.
Stays(g) ==
    /\ checkout'[g].booking = "CONFIRMED"
    /\ seat'[checkout[g].ticket].there
    /\ seat'[checkout[g].ticket].price = seat[checkout[g].ticket].price

LEMMA SoldStays ==
    ASSUME SeatsInv, [SeatsNext]_seatVars, NEW g \in Guests, Sold(g),
           ~checkout[g].raced
    PROVE  Stays(g)
<1>1. PICK d : d = checkout[g]
  OBVIOUS
<1>2. /\ d \in Checkout /\ d.pc = "paid" /\ d.booking = "CONFIRMED"
      /\ checkout[g] # NoCheckout
  BY <1>1, SeatTyped, SeatRecords DEF Sold
<1>3. PICK t \in Seats : t = d.ticket
  BY <1>2, SeatRecords
<1>4. Fits(d, seat[t]) /\ Undisturbed(d)
  BY <1>1, <1>2, <1>3 DEF SeatsInv, CheckoutInv
<1>5. seat[t] \in Seat /\ seat[t].there
  BY <1>2, <1>3, <1>4, SeatTyped DEF Fits
<1>6. \A r \in SellerRequests : seller[r] # SellerIdle => seller[r].ticket # t
  BY <1>1, <1>2, <1>3, <1>4 DEF Undisturbed
<1>7. ASSUME checkout'[g] = d, seat'[t] = seat[t]
      PROVE  Stays(g)
  BY <1>1, <1>2, <1>3, <1>5, <1>7 DEF Stays
<1>8. CASE UNCHANGED seatVars
  BY <1>1, <1>7, <1>8 DEF seatVars
<1>9. ASSUME NEW x \in Seats, NEW p \in Prices, addticketToEvent(x, p)
      PROVE  Stays(g)
  <2>1. x # t /\ checkout' = checkout
    BY <1>1, <1>2, <1>3, <1>9 DEF addticketToEvent
  <2>2. seat'[t] = seat[t]
    BY <1>9, <2>1 DEF addticketToEvent, SeatsInv, SeatsTypeOK
  <2> QED BY <1>1, <1>7, <2>1, <2>2
<1>10. ASSUME NEW x \in Seats, NEW p \in Prices, NEW r \in SellerRequests,
              NEW op \in {"update", "delete"}, CheckTicket(r, op, x, p)
       PROVE  Stays(g)
  BY <1>1, <1>7, <1>10 DEF CheckTicket
<1>11. ASSUME NEW r \in SellerRequests, updateticket(r)
       PROVE  Stays(g)
  <2>1. seller[r].pc = "update" /\ checkout' = checkout
    BY <1>11 DEF updateticket
  <2>2. seller[r] \in Checked
    BY <2>1, SeatTyped, SeatRecords
  <2>3. seller[r] # SellerIdle
    BY <2>2, SeatRecords
  <2>4. PICK x \in Seats : x = seller[r].ticket
    BY <2>2, SeatRecords
  <2>5. x # t
    BY <1>6, <2>3, <2>4
  <2>6. PICK p : p = seller[r].price
    OBVIOUS
  <2>7. seat' = [seat EXCEPT ![x].price = p] \/ seat' = seat
    BY <1>11, <2>4, <2>6 DEF updateticket
  <2>8. seat'[t] = seat[t]
    BY <2>5, <2>7 DEF SeatsInv, SeatsTypeOK
  <2> QED BY <1>1, <1>7, <2>1, <2>8
<1>12. ASSUME NEW r \in SellerRequests, deleteTicket(r)
       PROVE  Stays(g)
  <2>1. seller[r].pc = "delete"
    BY <1>12 DEF deleteTicket
  <2>2. seller[r] \in Checked
    BY <2>1, SeatTyped, SeatRecords
  <2>3. seller[r] # SellerIdle
    BY <2>2, SeatRecords
  <2>4. PICK x \in Seats : x = seller[r].ticket
    BY <2>2, SeatRecords
  <2>5. x # t
    BY <1>6, <2>3, <2>4
  <2>6. /\ seat' = [seat EXCEPT ![x] = NoSeat]
        /\ checkout' = [h \in Guests |->
                          IF checkout[h] # NoCheckout /\ checkout[h].ticket = x
                          THEN [checkout[h] EXCEPT !.booking = "none"]
                          ELSE checkout[h]]
    BY <1>12, <2>4 DEF deleteTicket
  <2>7. seat'[t] = seat[t]
    BY <2>5, <2>6 DEF SeatsInv, SeatsTypeOK
  <2>8. checkout'[g] = d
    BY <1>1, <1>3, <2>5, <2>6
  <2> QED BY <1>7, <2>7, <2>8
<1>13. ASSUME NEW h \in Guests, NEW c, checkout' = [checkout EXCEPT ![h] = c],
              h # g, seat' = seat
       PROVE  Stays(g)
  <2>1. checkout'[g] = d
    BY <1>1, <1>13 DEF SeatsInv, SeatsTypeOK
  <2> QED BY <1>7, <1>13, <2>1
<1>14. ASSUME NEW h \in Guests,
              \/ \E x \in Seats : OpenSession(h, x)
              \/ CreateBooking(h) \/ CheckoutExpired(h)
       PROVE  Stays(g)
  <2>1. seat' = seat /\ \E c : checkout' = [checkout EXCEPT ![h] = c]
    BY <1>14 DEF OpenSession, CreateBooking, CheckoutExpired
  <2>2. h # g
    BY <1>1, <1>2, <1>14, SeatRecords DEF OpenSession, CreateBooking, CheckoutExpired
  <2> QED BY <1>13, <2>1, <2>2
<1>15. ASSUME NEW h \in Guests, CheckoutCompleted(h)
       PROVE  Stays(g)
  <2>1. h # g /\ checkout[h].pc = "open"
    BY <1>1, <1>2, <1>15 DEF CheckoutCompleted
  <2>2. PICK x : x = checkout[h].ticket
    OBVIOUS
  <2>3. PICK s : s = [seat[x] EXCEPT !.isBooked = TRUE]
    OBVIOUS
  <2>4. seat' = [seat EXCEPT ![x] = s] \/ seat' = seat
    BY <1>15, <2>2, <2>3 DEF CheckoutCompleted, MarksTicket
  <2>5. \E c : checkout' = [checkout EXCEPT ![h] = c]
    BY <1>15 DEF CheckoutCompleted
  <2>6. checkout'[g] = d
    BY <1>1, <2>1, <2>5 DEF SeatsInv, SeatsTypeOK
  <2>7. seat'[t] = seat[t] \/ (x = t /\ seat'[t] = s)
    BY <2>4 DEF SeatsInv, SeatsTypeOK
  <2>8. CASE x = t /\ seat'[t] = s
    <3>1. s.there /\ s.price = seat[t].price
      BY <1>5, <2>3, <2>8 DEF Seat
    <3> QED BY <1>1, <1>2, <1>3, <2>6, <2>8, <3>1 DEF Stays
  <2> QED BY <1>7, <2>6, <2>7, <2>8
<1> QED BY <1>8, <1>9, <1>10, <1>11, <1>12, <1>14, <1>15, Zenon DEF SeatsNext

\* A seat that was sold stays, with its booking and at its price, unless the
\* seller had checked the ticket before the payment was handled.
THEOREM SoldSeatsStay == SeatsSpec => SoldSeatStays
<1>1. ASSUME SeatsInv, [SeatsNext]_seatVars
      PROVE  [\A g \in Guests :
                Sold(g) /\ ~checkout[g].raced =>
                  LET t == checkout[g].ticket
                  IN  /\ checkout'[g].booking = "CONFIRMED"
                      /\ seat'[t].there /\ seat'[t].price = seat[t].price]_seatVars
  BY <1>1, SoldStays DEF Stays
<1> QED BY <1>1, SeatsInvariant, PTL DEF SeatsSpec, SoldSeatStays

-----------------------------------------------------------------------------
(* Rooms: where messages are                                               *)

Halls == {"open", "upload", "empty", "delete room"}

\* Whoever is to send an image has seen the room.
Uploading(q) == q.pc = "upload" => q.room \in 1..MaxRooms

RoomsInv ==
    /\ RoomsTypeOK
    /\ \A r \in RoomRequests : Uploading(talking[r])
    /\ RoomsHoldMessages

LEMMA TalkKinds ==
    ASSUME NEW q \in Talking
    PROVE  /\ q.pc \in Halls => q.room \in 0..MaxRooms /\ q.file = None
           /\ q.pc = "say" => q.room \in 1..MaxRooms /\ q.file \in 0..MaxMessages
           /\ q.pc \in {"unlink", "remove"} => q.message \in Message
           /\ q.pc # "idle"
<1>1. CASE q \in [pc : Halls, room : 0..MaxRooms, file : {None}]
  BY <1>1 DEF Halls
<1>2. CASE q \in [pc : {"say"}, room : 1..MaxRooms, file : 0..MaxMessages]
  BY <1>2 DEF Halls
<1>3. CASE q \in [pc : {"unlink", "remove"}, message : Message]
  BY <1>3 DEF Halls
<1> QED BY <1>1, <1>2, <1>3 DEF Talking, Halls

LEMMA TalkMade ==
    /\ \A pc \in Halls, id \in 0..MaxRooms : /\ TalkAt(pc, id, None) \in Talking
                                             /\ TalkAt(pc, id, None).pc = pc
                                             /\ TalkAt(pc, id, None).room = id
    /\ \A id \in 1..MaxRooms, f \in 0..MaxMessages :
         TalkAt("say", id, f) \in Talking /\ TalkAt("say", id, f).pc = "say"
    /\ \A m \in Message, pc \in {"unlink", "remove"} : \A q :
         q = [pc |-> pc, message |-> m] => q \in Talking /\ q.pc = pc
<1>1. ASSUME NEW pc \in Halls, NEW id \in 0..MaxRooms, NEW q,
             q = [pc |-> pc, room |-> id, file |-> None]
      PROVE  q \in Talking /\ q.pc = pc /\ q.room = id
  <2>1. q \in [pc : Halls, room : 0..MaxRooms, file : {None}]
    BY <1>1
  <2> QED BY <1>1, <2>1 DEF Talking, Halls
<1>2. ASSUME NEW id \in 1..MaxRooms, NEW f \in 0..MaxMessages, NEW q,
             q = [pc |-> "say", room |-> id, file |-> f]
      PROVE  q \in Talking /\ q.pc = "say"
  <2>1. q \in [pc : {"say"}, room : 1..MaxRooms, file : 0..MaxMessages]
    BY <1>2
  <2> QED BY <1>2, <2>1 DEF Talking
<1>3. ASSUME NEW m \in Message, NEW pc \in {"unlink", "remove"}, NEW q,
             q = [pc |-> pc, message |-> m]
      PROVE  q \in Talking /\ q.pc = pc
  <2>1. q \in [pc : {"unlink", "remove"}, message : Message]
    BY <1>3
  <2> QED BY <1>3, <2>1 DEF Talking
<1>4. ASSUME NEW pc \in Halls, NEW id \in 0..MaxRooms
      PROVE  /\ TalkAt(pc, id, None) \in Talking
             /\ TalkAt(pc, id, None).pc = pc /\ TalkAt(pc, id, None).room = id
  <2>1. PICK q : q = TalkAt(pc, id, None)
    OBVIOUS
  <2> QED BY <1>1, <2>1 DEF TalkAt
<1>5. ASSUME NEW id \in 1..MaxRooms, NEW f \in 0..MaxMessages
      PROVE  TalkAt("say", id, f) \in Talking /\ TalkAt("say", id, f).pc = "say"
  <2>1. PICK q : q = TalkAt("say", id, f)
    OBVIOUS
  <2> QED BY <1>2, <2>1 DEF TalkAt
<1> QED BY <1>3, <1>4, <1>5, Zenon

LEMMA RoomsInvInit == RoomsInit => RoomsInv
<1> SUFFICES ASSUME RoomsInit PROVE RoomsInv
  OBVIOUS
<1>1. /\ room = None /\ opened = 0 /\ messages = {} /\ sent = 0
      /\ attachments = {} /\ removed = FALSE
      /\ talking \in [RoomRequests -> Talking \cup {TalkIdle}]
      /\ \A r \in RoomRequests : talking[r] = TalkIdle
  BY DEF RoomsInit
<1>2. 0 \in 0..MaxRooms /\ 0 \in 0..MaxMessages
  BY RoomsAssumption
<1>3. RoomsTypeOK
  BY <1>1, <1>2 DEF RoomsTypeOK, None
<1>4. TalkIdle.pc # "upload"
  BY DEF TalkIdle
<1> QED BY <1>1, <1>3, <1>4 DEF RoomsInv, RoomsHoldMessages, Uploading

LEMMA TalkTyped ==
    ASSUME RoomsInv, NEW r \in RoomRequests
    PROVE  /\ talking[r] \in Talking \/ talking[r] = TalkIdle
           /\ talking[r].pc # "idle" => talking[r] \in Talking
           /\ TalkIdle.pc = "idle"
<1>1. talking[r] \in Talking \/ talking[r] = TalkIdle
  BY DEF RoomsInv, RoomsTypeOK
<1>2. TalkIdle.pc = "idle"
  BY DEF TalkIdle
<1> QED BY <1>1, <1>2

\* A request moves to q.
LEMMA TalkMoves ==
    ASSUME RoomsInv, NEW r \in RoomRequests, NEW q \in Talking \cup {TalkIdle},
           talking' = [talking EXCEPT ![r] = q], Uploading(q)
    PROVE  /\ talking' \in [RoomRequests -> Talking \cup {TalkIdle}]
           /\ \A s \in RoomRequests : Uploading(talking'[s])
<1>1. talking \in [RoomRequests -> Talking \cup {TalkIdle}]
  BY DEF RoomsInv, RoomsTypeOK
<1>2. \A s \in RoomRequests : talking'[s] \in {talking[s], q}
  BY <1>1
<1>3. \A s \in RoomRequests : Uploading(talking[s])
  BY DEF RoomsInv
<1> QED BY <1>1, <1>2, <1>3

\* Steps that write nothing but where their request stands.
LEMMA TalksKeep ==
    ASSUME RoomsInv, NEW r \in RoomRequests, NEW q \in Talking \cup {TalkIdle},
           talking' = [talking EXCEPT ![r] = q], Uploading(q),
           UNCHANGED <<room, opened, messages, sent, attachments, removed>>
    PROVE  RoomsInv'
<1>1. /\ talking' \in [RoomRequests -> Talking \cup {TalkIdle}]
      /\ \A s \in RoomRequests : Uploading(talking'[s])
  BY TalkMoves
<1>2. RoomsTypeOK' /\ RoomsHoldMessages'
  BY <1>1 DEF RoomsInv, RoomsTypeOK, RoomsHoldMessages
<1> QED BY <1>1, <1>2 DEF RoomsInv

LEMMA IdleUploads == Uploading(TalkIdle)
<1>1. TalkIdle.pc # "upload"
  BY DEF TalkIdle
<1> QED BY <1>1 DEF Uploading

\* Requests that begin.
LEMMA TalkStarts ==
    ASSUME RoomsInv, NEW r \in RoomRequests,
           \/ initiateMessage(r)
           \/ \E pic \in BOOLEAN : sendMessage(r, pic)
           \/ deleteRoom(r)
    PROVE  RoomsInv'
<1>1. room \in 0..MaxRooms /\ (room # None => room \in 1..MaxRooms)
  BY RoomsAssumption DEF RoomsInv, RoomsTypeOK, None
<1>2. UNCHANGED <<room, opened, messages, sent, attachments, removed>>
  BY DEF initiateMessage, sendMessage, deleteRoom
<1>3. /\ None \in 0..MaxMessages /\ None \in 0..MaxRooms
      /\ "open" \in Halls /\ "upload" \in Halls /\ "empty" \in Halls
  BY RoomsAssumption DEF None, Halls
<1>4. PICK q : /\ talking' = [talking EXCEPT ![r] = q]
               /\ \/ q = TalkAt("open", None, None)
                  \/ room # None /\ q = TalkAt("say", room, None)
                  \/ room # None /\ q = TalkAt("upload", room, None)
                  \/ q = TalkAt("empty", room, None)
  BY DEF initiateMessage, sendMessage, deleteRoom, Talks
<1>5. q \in Talking /\ Uploading(q)
  BY <1>1, <1>3, <1>4, TalkMade DEF Uploading
<1> QED BY <1>2, <1>4, <1>5, TalksKeep

LEMMA RemovalStarts ==
    ASSUME RoomsInv, NEW r \in RoomRequests, NEW m \in messages, removeMessage(r, m)
    PROVE  RoomsInv'
<1>1. PICK pc : pc = IF m.file # None THEN "unlink" ELSE "remove"
  OBVIOUS
<1>2. PICK q : q = [pc |-> pc, message |-> m]
  OBVIOUS
<1>3. pc \in {"unlink", "remove"} /\ m \in Message
  BY <1>1 DEF RoomsInv, RoomsTypeOK
<1>4. q \in Talking /\ q.pc = pc
  BY <1>2, <1>3, TalkMade
<1>5. Uploading(q)
  BY <1>3, <1>4 DEF Uploading
<1>6. /\ talking' = [talking EXCEPT ![r] = q]
      /\ UNCHANGED <<room, opened, messages, sent, attachments, removed>>
  BY <1>1, <1>2 DEF removeMessage, Talks
<1> QED BY <1>4, <1>5, <1>6, TalksKeep

LEMMA TalkEnds ==
    ASSUME RoomsInv, NEW r \in RoomRequests, TalkDies(r)
    PROVE  RoomsInv'
<1>1. /\ talking' = [talking EXCEPT ![r] = TalkIdle]
      /\ UNCHANGED <<room, opened, messages, sent, attachments, removed>>
  BY DEF TalkDies, StopsTalking, Talks
<1> QED BY <1>1, IdleUploads, TalksKeep

\* While there is no room there are no messages.
LEMMA NoRoomNoMessages ==
    ASSUME RoomsInv, room = None
    PROVE  messages = {}
<1>1. ASSUME NEW m \in messages PROVE FALSE
  <2>1. m \in Message /\ m.room = 0
    BY DEF RoomsInv, RoomsTypeOK, RoomsHoldMessages, None
  <2> QED BY <2>1, RoomsAssumption DEF Message
<1> QED BY <1>1

\* The room and its first message come together.
LEMMA OpenKeeps ==
    ASSUME RoomsInv, NEW r \in RoomRequests, OpenRoom(r)
    PROVE  RoomsInv'
<1>1. talking' = [talking EXCEPT ![r] = TalkIdle] /\ UNCHANGED attachments
  BY DEF OpenRoom, StopsTalking, Talks
<1>2. CASE UNCHANGED <<room, opened, messages, sent, removed>>
  BY <1>1, <1>2, IdleUploads, TalksKeep
<1>3. PICK n : n = sent + 1
  OBVIOUS
<1>4. PICK k : k = opened + 1
  OBVIOUS
<1>5. PICK m : m = [id |-> n, room |-> k, file |-> None]
  OBVIOUS
<1>6. CASE /\ room = None /\ opened < MaxRooms /\ sent < MaxMessages
           /\ room' = k /\ opened' = k /\ messages' = messages \cup {m}
           /\ sent' = n /\ removed' = FALSE
  <2>1. /\ sent \in Nat /\ opened \in Nat /\ MaxRooms \in Nat /\ MaxMessages \in Nat
        /\ attachments \subseteq 1..sent
    BY RoomsAssumption DEF RoomsInv, RoomsTypeOK
  <2>2. /\ n \in 1..MaxMessages /\ n \in 0..MaxMessages /\ 1..sent \subseteq 1..n
        /\ k \in 1..MaxRooms /\ k \in 0..MaxRooms /\ 0 \in 0..MaxMessages
    BY <1>3, <1>4, <1>6, <2>1
  <2>3. m \in Message /\ m.room = k
    BY <1>5, <2>2 DEF Message, None
  <2>4. messages' = {m}
    BY <1>6, NoRoomNoMessages
  <2>5. /\ talking' \in [RoomRequests -> Talking \cup {TalkIdle}]
        /\ \A s \in RoomRequests : Uploading(talking'[s])
    BY <1>1, IdleUploads, TalkMoves
  <2>6. RoomsTypeOK'
    BY <1>1, <1>6, <2>1, <2>2, <2>3, <2>4, <2>5 DEF RoomsTypeOK
  <2>7. RoomsHoldMessages'
    BY <1>6, <2>3, <2>4 DEF RoomsHoldMessages
  <2> QED BY <2>5, <2>6, <2>7 DEF RoomsInv
<1>7. \/ UNCHANGED <<room, opened, messages, sent, removed>>
      \/ /\ room = None /\ opened < MaxRooms /\ sent < MaxMessages
         /\ room' = k /\ opened' = k /\ messages' = messages \cup {m}
         /\ sent' = n /\ removed' = FALSE
  BY <1>3, <1>4, <1>5 DEF OpenRoom, FirstMessage
<1> QED BY <1>2, <1>6, <1>7

LEMMA UploadKeeps ==
    ASSUME RoomsInv, NEW r \in RoomRequests, UploadAttachment(r)
    PROVE  RoomsInv'
<1>1. PICK n : n = sent + 1
  OBVIOUS
<1>2. PICK k : k = talking[r].room
  OBVIOUS
<1>3. /\ talking[r].pc = "upload" /\ sent < MaxMessages
      /\ UNCHANGED <<room, opened, messages, removed>>
  BY DEF UploadAttachment
<1>4. k \in 1..MaxRooms
  BY <1>2, <1>3 DEF RoomsInv, Uploading
<1>5. /\ sent \in Nat /\ MaxMessages \in Nat /\ attachments \subseteq 1..sent
  BY RoomsAssumption DEF RoomsInv, RoomsTypeOK
<1>6. n \in 0..MaxMessages /\ 1..sent \subseteq 1..n /\ n \in 1..n
      /\ 0 \in 0..MaxMessages
  BY <1>1, <1>3, <1>5
<1>7. PICK f \in 0..MaxMessages : 
        /\ talking' = [talking EXCEPT ![r] = TalkAt("say", k, f)]
        /\ \/ sent' = n /\ attachments' = attachments \cup {n}
           \/ UNCHANGED <<sent, attachments>>
  BY <1>1, <1>2, <1>6 DEF UploadAttachment, Talks, None
<1>8. PICK q : q = TalkAt("say", k, f)
  OBVIOUS
<1>9. q \in Talking /\ Uploading(q)
  BY <1>4, <1>8, TalkMade DEF Uploading
<1>10. /\ talking' \in [RoomRequests -> Talking \cup {TalkIdle}]
       /\ \A s \in RoomRequests : Uploading(talking'[s])
  BY <1>7, <1>8, <1>9, TalkMoves
<1>11. sent' \in 0..MaxMessages /\ attachments' \subseteq 1..sent'
  BY <1>5, <1>6, <1>7 DEF RoomsInv, RoomsTypeOK
<1>12. RoomsTypeOK' /\ RoomsHoldMessages'
  BY <1>3, <1>10, <1>11 DEF RoomsInv, RoomsTypeOK, RoomsHoldMessages
<1> QED BY <1>10, <1>12 DEF RoomsInv

LEMMA SayKeeps ==
    ASSUME RoomsInv, NEW r \in RoomRequests, Say(r)
    PROVE  RoomsInv'
<1>1. /\ talking[r].pc = "say" /\ sent < MaxMessages
      /\ talking' = [talking EXCEPT ![r] = TalkIdle]
      /\ UNCHANGED <<room, opened, attachments, removed>>
  BY DEF Say, StopsTalking, Talks
<1>2. CASE UNCHANGED <<sent, messages>>
  BY <1>1, <1>2, IdleUploads, TalksKeep
<1>3. PICK n : n = sent + 1
  OBVIOUS
<1>4. PICK f : f = talking[r].file
  OBVIOUS
<1>5. PICK m : m = [id |-> n, room |-> room, file |-> f]
  OBVIOUS
<1>6. CASE talking[r].room = room /\ sent' = n /\ messages' = messages \cup {m}
  <2>1. talking[r] \in Talking
    BY <1>1, TalkTyped
  <2>2. room \in 1..MaxRooms /\ f \in 0..MaxMessages
    BY <1>1, <1>4, <1>6, <2>1, TalkKinds
  <2>3. /\ sent \in Nat /\ MaxMessages \in Nat /\ attachments \subseteq 1..sent
    BY RoomsAssumption DEF RoomsInv, RoomsTypeOK
  <2>4. n \in 1..MaxMessages /\ n \in 0..MaxMessages /\ 1..sent \subseteq 1..n
    BY <1>1, <1>3, <2>3
  <2>5. m \in Message /\ m.room = room
    BY <1>5, <2>2, <2>4 DEF Message
  <2>6. /\ talking' \in [RoomRequests -> Talking \cup {TalkIdle}]
        /\ \A s \in RoomRequests : Uploading(talking'[s])
    BY <1>1, IdleUploads, TalkMoves
  <2>7. RoomsTypeOK'
    BY <1>1, <1>6, <2>3, <2>4, <2>5, <2>6 DEF RoomsInv, RoomsTypeOK
  <2>8. RoomsHoldMessages'
    BY <1>1, <1>6, <2>5 DEF RoomsInv, RoomsHoldMessages
  <2> QED BY <2>6, <2>7, <2>8 DEF RoomsInv
<1>7. \/ UNCHANGED <<sent, messages>>
      \/ talking[r].room = room /\ sent' = n /\ messages' = messages \cup {m}
  BY <1>3, <1>4, <1>5 DEF Say
<1> QED BY <1>2, <1>6, <1>7

\* Messages go, and the room has lost one.
LEMMA MessagesGo ==
    ASSUME RoomsInv, NEW r \in RoomRequests, NEW q \in Talking \cup {TalkIdle},
           talking' = [talking EXCEPT ![r] = q], Uploading(q),
           messages' \subseteq messages, removed' \in BOOLEAN,
           removed => removed', messages' # messages => removed',
           attachments' \subseteq attachments,
           UNCHANGED <<room, opened, sent>>
    PROVE  RoomsInv'
<1>1. /\ talking' \in [RoomRequests -> Talking \cup {TalkIdle}]
      /\ \A s \in RoomRequests : Uploading(talking'[s])
  BY TalkMoves
<1>2. RoomsTypeOK'
  BY <1>1 DEF RoomsInv, RoomsTypeOK
<1>3. RoomsHoldMessages'
  BY DEF RoomsInv, RoomsHoldMessages
<1> QED BY <1>1, <1>2, <1>3 DEF RoomsInv

LEMMA RemovalKeeps ==
    ASSUME RoomsInv, NEW r \in RoomRequests,
           UnlinkAttachment(r) \/ RemoveMessage(r) \/ EmptyRoom(r)
    PROVE  RoomsInv'
<1>1. removed \in BOOLEAN
  BY DEF RoomsInv, RoomsTypeOK
<1>2. CASE UnlinkAttachment(r)
  <2>1. PICK q : q = [talking[r] EXCEPT !.pc = "remove"]
    OBVIOUS
  <2>2. /\ talking[r].pc = "unlink" /\ attachments' \subseteq attachments
        /\ talking' = [talking EXCEPT ![r] = q]
        /\ UNCHANGED <<room, opened, messages, sent, removed>>
    BY <1>2, <2>1 DEF UnlinkAttachment, Talks
  <2>3. talking[r] \in Talking
    BY <2>2, TalkTyped
  <2>4. q \in Talking /\ q.pc = "remove"
    <3>1. talking[r] \in [pc : {"unlink", "remove"}, message : Message]
      BY <2>2, <2>3 DEF Talking
    <3>2. q \in [pc : {"unlink", "remove"}, message : Message] /\ q.pc = "remove"
      BY <2>1, <3>1
    <3> QED BY <3>2 DEF Talking
  <2>5. Uploading(q)
    BY <2>4 DEF Uploading
  <2> QED BY <1>1, <2>2, <2>4, <2>5, MessagesGo
<1>3. CASE RemoveMessage(r)
  <2>1. PICK m : m = talking[r].message
    OBVIOUS
  <2>2. /\ messages' = messages \ {m} /\ removed' = (removed \/ m \in messages)
        /\ talking' = [talking EXCEPT ![r] = TalkIdle]
        /\ UNCHANGED <<room, opened, sent, attachments>>
    BY <1>3, <2>1 DEF RemoveMessage, StopsTalking, Talks
  <2>3. removed' \in BOOLEAN /\ (removed => removed')
    BY <1>1, <2>2
  <2>4. messages' \subseteq messages /\ (messages' # messages => removed')
    BY <2>2
  <2> QED BY <2>2, <2>3, <2>4, IdleUploads, MessagesGo
<1>4. CASE EmptyRoom(r)
  <2>1. PICK q : q = [talking[r] EXCEPT !.pc = "delete room"]
    OBVIOUS
  <2>2. PICK k : k = talking[r].room
    OBVIOUS
  <2>3. /\ talking[r].pc = "empty" /\ messages' = {m \in messages : m.room # k}
        /\ removed' = (removed \/ k = room)
        /\ talking' = [talking EXCEPT ![r] = q]
        /\ UNCHANGED <<room, opened, sent, attachments>>
    BY <1>4, <2>1, <2>2 DEF EmptyRoom, Talks
  <2>4. talking[r] \in Talking
    BY <2>3, TalkTyped
  <2>5. q \in Talking /\ q.pc = "delete room"
    <3>1. talking[r] \in [pc : Halls, room : 0..MaxRooms, file : {None}]
      BY <2>3, <2>4 DEF Talking, Halls
    <3>2. /\ q \in [pc : Halls, room : 0..MaxRooms, file : {None}]
          /\ q.pc = "delete room"
      BY <2>1, <3>1 DEF Halls
    <3> QED BY <3>2 DEF Talking, Halls
  <2>6. Uploading(q)
    BY <2>5 DEF Uploading
  <2>7. removed' \in BOOLEAN /\ (removed => removed')
    BY <1>1, <2>3
  <2>8. messages' \subseteq messages /\ (messages' # messages => removed')
    <3>1. \A m \in messages : m.room = room
      BY DEF RoomsInv, RoomsHoldMessages
    <3> QED BY <2>3, <3>1
  <2> QED BY <2>3, <2>5, <2>6, <2>7, <2>8, MessagesGo
<1> QED BY <1>2, <1>3, <1>4

\* The row of the room goes when no message is left in it.
LEMMA RoomGoes ==
    ASSUME RoomsInv, NEW r \in RoomRequests, DeleteRoomRow(r)
    PROVE  RoomsInv'
<1>1. /\ talking' = [talking EXCEPT ![r] = TalkIdle]
      /\ UNCHANGED <<opened, messages, sent, attachments, removed>>
      /\ \/ room' = None /\ \A m \in messages : m.room # room
         \/ room' = room
  BY DEF DeleteRoomRow, StopsTalking, Talks
<1>2. CASE room' = room
  BY <1>1, <1>2, IdleUploads, TalksKeep
<1>3. CASE room' = None /\ \A m \in messages : m.room # room
  <2>1. messages = {}
    BY <1>3 DEF RoomsInv, RoomsHoldMessages
  <2>2. /\ talking' \in [RoomRequests -> Talking \cup {TalkIdle}]
        /\ \A s \in RoomRequests : Uploading(talking'[s])
    BY <1>1, IdleUploads, TalkMoves
  <2>3. RoomsTypeOK'
    BY <1>1, <1>3, <2>2 DEF RoomsInv, RoomsTypeOK, None
  <2>4. RoomsHoldMessages'
    BY <1>1, <1>3, <2>1 DEF RoomsHoldMessages
  <2> QED BY <2>2, <2>3, <2>4 DEF RoomsInv
<1> QED BY <1>1, <1>2, <1>3

LEMMA RoomsInvNext == RoomsInv /\ [RoomsNext]_roomVars => RoomsInv'
<1>1. ASSUME RoomsInv, UNCHANGED roomVars
      PROVE  RoomsInv'
  BY <1>1 DEF roomVars, RoomsInv, RoomsTypeOK, RoomsHoldMessages
<1>2. ASSUME RoomsInv, NEW r \in RoomRequests,
             \/ initiateMessage(r)
             \/ \E pic \in BOOLEAN : sendMessage(r, pic)
             \/ deleteRoom(r)
      PROVE  RoomsInv'
  BY <1>2, TalkStarts
<1>3. ASSUME RoomsInv, NEW r \in RoomRequests, NEW m \in messages,
             removeMessage(r, m)
      PROVE  RoomsInv'
  BY <1>3, RemovalStarts
<1>4. ASSUME RoomsInv, NEW r \in RoomRequests,
             OpenRoom(r) \/ UploadAttachment(r) \/ Say(r)
      PROVE  RoomsInv'
  BY <1>4, OpenKeeps, UploadKeeps, SayKeeps
<1>5. ASSUME RoomsInv, NEW r \in RoomRequests,
             UnlinkAttachment(r) \/ RemoveMessage(r) \/ EmptyRoom(r)
      PROVE  RoomsInv'
  BY <1>5, RemovalKeeps
<1>6. ASSUME RoomsInv, NEW r \in RoomRequests, DeleteRoomRow(r) \/ TalkDies(r)
      PROVE  RoomsInv'
  BY <1>6, RoomGoes, TalkEnds
<1> QED BY <1>1, <1>2, <1>3, <1>4, <1>5, <1>6, Zenon DEF RoomsNext

LEMMA RoomsInvariant == RoomsSpec => []RoomsInv
  BY RoomsInvInit, RoomsInvNext, PTL DEF RoomsSpec

\* The room, its messages and files have their types, for any number of
\* requests and messages.
THEOREM RoomsTypeCorrect == RoomsSpec => []RoomsTypeOK
<1>1. RoomsInv => RoomsTypeOK
  BY DEF RoomsInv
<1> QED BY <1>1, RoomsInvariant, PTL

\* message.service: every message is in the room that is there, and a room is
\* empty only after somebody took a message back or was deleting the room.
THEOREM RoomsHold == RoomsSpec => []RoomsHoldMessages
<1>1. RoomsInv => RoomsHoldMessages
  BY DEF RoomsInv
<1> QED BY <1>1, RoomsInvariant, PTL

-----------------------------------------------------------------------------
(* Media: whose key is whose                                               *)

\* A request that deleted the file its row names.
Deleted(q) ==
    /\ q.pc \in {"upload", "check", "write"} /\ q.old # 0
    /\ q.file \/ q.slot \in Documents

\* A request with a file of its own in the store.
Uploaded(q) == q.file /\ q.pc \in {"check", "write"} /\ q.key # 0

\* What request q says of keys is so: they were made, it deletes no file
\* without need, a key it uploaded is in the store and in no row yet, and the
\* rows of other slots name none of its keys.
EditingInv(q) ==
    /\ q.old \in 0..uploads /\ q.key \in 0..uploads
    /\ q.key = q.old \/ (q.file /\ q.pc \in {"check", "write"})
    /\ q.pc = "upload" => q.file
    /\ q.pc = "delete" => q.old # 0 /\ (q.file \/ q.slot \in Documents)
    /\ Uploaded(q) => q.key \in files /\ q.key # q.old
                      /\ \A s \in Slots : image[s] # q.key
    /\ \A s \in Slots : s # q.slot => image[s] = 0 \/ image[s] \notin {q.old, q.key}

\* Two requests: a key that was uploaded is its request's own, and a key is
\* of one slot.
ApartFrom(q, p) ==
    /\ Uploaded(q) => q.key # p.old /\ q.key # p.key
    /\ q.slot # p.slot => /\ q.old # 0 => q.old # p.old /\ q.old # p.key
                          /\ q.key # 0 => q.key # p.old /\ q.key # p.key

Creators(s) == {m \in MediaRequests : editing[m].pc = "create" /\ editing[m].slot = s}

KeysInv ==
    /\ files \subseteq 1..uploads
    /\ \A s \in Slots : image[s] \in 0..uploads
    /\ \A s, t \in Slots : s # t => image[s] = 0 \/ image[s] # image[t]
    /\ \A m \in MediaRequests : editing[m] # NotEditing => EditingInv(editing[m])
    /\ \A m, n \in MediaRequests :
         m # n /\ editing[m] # NotEditing /\ editing[n] # NotEditing
         => ApartFrom(editing[m], editing[n])

CreatorsInv ==
    \A s \in Singles :
        mediaRows[s] + Cardinality(Creators(s)) <= Cardinality(MediaRequests)

MediaInv == MediaTypeOK /\ KeysInv /\ ImagesExist /\ CreatorsInv

Others(m) == {editing[n] : n \in MediaRequests \ {m}} \ {NotEditing}

LEMMA EditRecords ==
    ASSUME NEW q \in Editing
    PROVE  /\ q # NotEditing /\ q.pc # "idle" /\ NotEditing.pc = "idle"
           /\ q.slot \in Slots /\ q.old \in Keys /\ q.key \in Keys
           /\ q.file \in BOOLEAN
           /\ q.pc \in {"find", "delete", "upload", "check", "write", "create"}
<1>1. /\ q.slot \in Slots /\ q.old \in Keys /\ q.key \in Keys
      /\ q.file \in BOOLEAN
      /\ q.pc \in {"find", "delete", "upload", "check", "write", "create"}
  BY DEF Editing
<1>2. NotEditing.pc = "idle"
  BY DEF NotEditing
<1> QED BY <1>1, <1>2

LEMMA EditTyped ==
    ASSUME MediaInv, NEW m \in MediaRequests
    PROVE  /\ editing[m] \in Editing \/ editing[m] = NotEditing
           /\ editing[m].pc # "idle" => editing[m] \in Editing
                                        /\ EditingInv(editing[m])
           /\ editing[m] \in Editing => editing[m].pc # "idle"
<1>1. editing[m] \in Editing \/ editing[m] = NotEditing
  BY DEF MediaInv, MediaTypeOK
<1>2. NotEditing.pc = "idle"
  BY DEF NotEditing
<1>3. editing[m] # NotEditing => EditingInv(editing[m])
  BY DEF MediaInv, KeysInv
<1>4. editing[m] \in Editing => editing[m] # NotEditing /\ editing[m].pc # "idle"
  BY EditRecords
<1> QED BY <1>1, <1>2, <1>3, <1>4

LEMMA OtherIs ==
    ASSUME MediaInv, NEW m \in MediaRequests, NEW p \in Others(m)
    PROVE  /\ p \in Editing /\ EditingInv(p)
           /\ editing[m] # NotEditing
              => ApartFrom(editing[m], p) /\ ApartFrom(p, editing[m])
<1>1. PICK n \in MediaRequests : n # m /\ p = editing[n] /\ p # NotEditing
  BY DEF Others
<1>2. p \in Editing
  BY <1>1 DEF MediaInv, MediaTypeOK
<1>3. EditingInv(p)
  BY <1>1 DEF MediaInv, KeysInv
<1>4. ASSUME editing[m] # NotEditing
      PROVE  ApartFrom(editing[m], p) /\ ApartFrom(p, editing[m])
  BY <1>1, <1>4 DEF MediaInv, KeysInv
<1> QED BY <1>2, <1>3, <1>4

\* A request moves to q, the others stay: what is left to show of the keys.
LEMMA KeysKeep ==
    ASSUME MediaInv, NEW m \in MediaRequests, NEW q,
           editing' = [editing EXCEPT ![m] = q],
           files' \subseteq 1..uploads', \A s \in Slots : image'[s] \in 0..uploads',
           \A s, t \in Slots : s # t => image'[s] = 0 \/ image'[s] # image'[t],
           q # NotEditing => EditingInv(q)',
           \A p \in Others(m) : EditingInv(p)',
           \A p \in Others(m) : q # NotEditing => ApartFrom(q, p) /\ ApartFrom(p, q)
    PROVE  KeysInv'
<1>1. editing \in [MediaRequests -> Editing \cup {NotEditing}]
  BY DEF MediaInv, MediaTypeOK
<1>2. editing'[m] = q
  BY <1>1
<1>3. ASSUME NEW n \in MediaRequests, n # m, editing'[n] # NotEditing
      PROVE  editing'[n] = editing[n] /\ editing[n] \in Others(m)
  BY <1>1, <1>3 DEF Others
<1>4. ASSUME NEW n \in MediaRequests, editing'[n] # NotEditing
      PROVE  EditingInv(editing[n])'
  <2>1. PICK p : p = editing'[n]
    OBVIOUS
  <2>2. EditingInv(p)'
    BY <1>2, <1>3, <1>4, <2>1
  <2> QED BY <2>1, <2>2
<1>5. ASSUME NEW n \in MediaRequests, NEW l \in MediaRequests, n # l,
             editing'[n] # NotEditing, editing'[l] # NotEditing
      PROVE  ApartFrom(editing'[n], editing'[l])
  <2>1. CASE n = m
    BY <1>2, <1>3, <1>5, <2>1
  <2>2. CASE l = m
    BY <1>2, <1>3, <1>5, <2>2
  <2>3. CASE n # m /\ l # m
    BY <1>3, <1>5, <2>3 DEF MediaInv, KeysInv
  <2> QED BY <2>1, <2>2, <2>3
<1> QED BY <1>4, <1>5 DEF KeysInv

\* What a step of request m to q makes of the file of slot s: it is there, or
\* a cause for its loss is, or it is as it was.
StaysAt(m, q, s) ==
    \/ image'[s] \in files' \cup {0} \/ s \in harmed'
    \/ Deleted(q) /\ q.slot = s
    \/ /\ image[s] \in files \cup {0} => image'[s] \in files' \cup {0}
       /\ s \in harmed => s \in harmed'
       /\ Deleted(editing[m]) /\ editing[m].slot = s => s \in harmed'

LEMMA ImagesStay ==
    ASSUME MediaInv, NEW m \in MediaRequests, NEW q,
           editing' = [editing EXCEPT ![m] = q],
           \A s \in Slots : StaysAt(m, q, s)
    PROVE  ImagesExist'
<1>1. editing \in [MediaRequests -> Editing \cup {NotEditing}]
  BY DEF MediaInv, MediaTypeOK
<1>2. editing'[m] = q /\ \A n \in MediaRequests \ {m} : editing'[n] = editing[n]
  BY <1>1
<1>3. \A n \in MediaRequests : HasDeleted(n)' <=> Deleted(editing'[n])
  BY DEF HasDeleted, Deleted, Slot
<1>4. \A n \in MediaRequests : HasDeleted(n) <=> Deleted(editing[n])
  BY DEF HasDeleted, Deleted, Slot
<1>5. ASSUME NEW s \in Slots
      PROVE  \/ image'[s] \in files' \cup {0} \/ s \in harmed'
             \/ \E n \in MediaRequests : Deleted(editing'[n]) /\ editing'[n].slot = s
  <2>1. CASE \/ image'[s] \in files' \cup {0} \/ s \in harmed'
             \/ Deleted(q) /\ q.slot = s
    BY <1>2, <2>1
  <2>2. CASE /\ image[s] \in files \cup {0} => image'[s] \in files' \cup {0}
             /\ s \in harmed => s \in harmed'
             /\ Deleted(editing[m]) /\ editing[m].slot = s => s \in harmed'
    <3>1. \/ image[s] \in files \cup {0} \/ s \in harmed
          \/ \E n \in MediaRequests : Deleted(editing[n]) /\ editing[n].slot = s
      BY <1>4 DEF MediaInv, ImagesExist, Slot
    <3> QED BY <1>2, <2>2, <3>1
  <2> QED BY <2>1, <2>2 DEF StaysAt
<1> QED BY <1>3, <1>5 DEF ImagesExist, Slot

LEMMA CreatorsAreFinite ==
    \A S \in SUBSET MediaRequests :
        IsFiniteSet(S) /\ Cardinality(S) \in Nat
        /\ Cardinality(S) <= Cardinality(MediaRequests)
  BY FS_Subset, FS_CardinalityType, MediaAssumption

\* No creator comes to a slot, and no row.
LEMMA CreatorsKeep ==
    ASSUME MediaInv, NEW m \in MediaRequests, NEW q,
           editing' = [editing EXCEPT ![m] = q], q.pc # "create",
           UNCHANGED mediaRows
    PROVE  CreatorsInv'
<1>1. ASSUME NEW s \in Singles
      PROVE  mediaRows'[s] + Cardinality(Creators(s)') <= Cardinality(MediaRequests)
  <2>1. Creators(s)' \subseteq Creators(s) /\ Creators(s) \subseteq MediaRequests
    BY DEF Creators, MediaInv, MediaTypeOK
  <2>2. Cardinality(Creators(s)') <= Cardinality(Creators(s))
    BY <2>1, CreatorsAreFinite, FS_Subset
  <2>3. /\ Cardinality(Creators(s)') \in Nat /\ Cardinality(Creators(s)) \in Nat
        /\ Cardinality(MediaRequests) \in Nat
    BY <2>1, CreatorsAreFinite
  <2>4. mediaRows[s] \in Nat
    BY MediaAssumption DEF MediaInv, MediaTypeOK, Slots, Singles
  <2>5. mediaRows[s] + Cardinality(Creators(s)) <= Cardinality(MediaRequests)
    BY DEF MediaInv, CreatorsInv
  <2> QED BY <2>2, <2>3, <2>4, <2>5
<1> QED BY <1>1 DEF CreatorsInv

LEMMA EditSteady ==
    ASSUME NEW p, EditingInv(p), UNCHANGED <<image, files, uploads>>
    PROVE  EditingInv(p)'
  BY DEF EditingInv

\* A request moves to q, and writes nothing.
LEMMA EditMoves ==
    ASSUME MediaInv, NEW m \in MediaRequests, NEW q \in Editing,
           editing' = [editing EXCEPT ![m] = q], EditingInv(q),
           \A p \in Others(m) : ApartFrom(q, p) /\ ApartFrom(p, q),
           Deleted(editing[m]) => Deleted(q) /\ q.slot = editing[m].slot,
           UNCHANGED <<mediaRows, image, files, uploads, harmed>>
    PROVE  MediaTypeOK' /\ KeysInv' /\ ImagesExist'
<1>1. MediaTypeOK'
  BY DEF MediaInv, MediaTypeOK
<1>2. KeysInv'
  <2>1. /\ files' \subseteq 1..uploads' /\ \A s \in Slots : image'[s] \in 0..uploads'
        /\ \A s, t \in Slots : s # t => image'[s] = 0 \/ image'[s] # image'[t]
    BY DEF MediaInv, KeysInv
  <2>2. EditingInv(q)' /\ \A p \in Others(m) : EditingInv(p)'
    BY EditSteady, OtherIs
  <2> QED BY <2>1, <2>2, KeysKeep
<1>3. ImagesExist'
  <2>1. \A s \in Slots : StaysAt(m, q, s)
    BY DEF StaysAt
  <2> QED BY <2>1, ImagesStay
<1> QED BY <1>1, <1>2, <1>3

\* A request ends: what it deleted it has harmed.
LEMMA LeavingKeeps ==
    ASSUME MediaInv, NEW m \in MediaRequests, Leave(m), harmed' = Harm(m),
           UNCHANGED <<mediaRows, image, files, uploads>>
    PROVE  MediaInv'
<1>1. editing' = [editing EXCEPT ![m] = NotEditing]
  BY DEF Leave
<1>2. \/ harmed' = harmed \cup {editing[m].slot} /\ Deleted(editing[m])
      \/ harmed' = harmed /\ ~Deleted(editing[m])
  BY DEF Harm, HasDeleted, Deleted, Slot
<1>3. Deleted(editing[m]) => editing[m].slot \in Slots
  BY EditTyped, EditRecords DEF Deleted
<1>4. MediaTypeOK'
  BY <1>1, <1>2, <1>3 DEF MediaInv, MediaTypeOK
<1>5. KeysInv'
  <2>1. /\ files' \subseteq 1..uploads' /\ \A s \in Slots : image'[s] \in 0..uploads'
        /\ \A s, t \in Slots : s # t => image'[s] = 0 \/ image'[s] # image'[t]
    BY DEF MediaInv, KeysInv
  <2>2. \A p \in Others(m) : EditingInv(p)'
    BY EditSteady, OtherIs
  <2> QED BY <1>1, <2>1, <2>2, KeysKeep
<1>6. ImagesExist'
  <2>1. \A s \in Slots : StaysAt(m, NotEditing, s)
    BY <1>2 DEF StaysAt
  <2> QED BY <1>1, <2>1, ImagesStay
<1>7. CreatorsInv'
  <2>1. NotEditing.pc # "create"
    BY DEF NotEditing
  <2> QED BY <1>1, <2>1, CreatorsKeep
<1> QED BY <1>4, <1>5, <1>6, <1>7 DEF MediaInv

\* A request that begins with key k, which is that of its slot or none.
LEMMA BeginsApart ==
    ASSUME MediaInv, NEW m \in MediaRequests, NEW q \in Editing,
           q.key = q.old, q.old = 0 \/ q.old = image[q.slot],
           q.pc = "upload" => q.file,
           q.pc = "delete" => q.old # 0 /\ (q.file \/ q.slot \in Documents),
           q.old # 0 => ~(q.file /\ q.pc \in {"check", "write"})
    PROVE  EditingInv(q) /\ \A p \in Others(m) : ApartFrom(q, p) /\ ApartFrom(p, q)
<1>1. uploads \in Nat /\ 0 \in 0..uploads /\ q.slot \in Slots
  BY MediaAssumption, EditRecords DEF MediaInv, MediaTypeOK
<1>2. q.old \in 0..uploads
  BY <1>1 DEF MediaInv, KeysInv
<1>3. ~Uploaded(q)
  BY DEF Uploaded
<1>4. \A s \in Slots : s # q.slot => image[s] = 0 \/ image[s] # q.old
  BY <1>1 DEF MediaInv, KeysInv
<1>5. EditingInv(q)
  BY <1>2, <1>3, <1>4 DEF EditingInv
<1>6. ASSUME NEW p \in Others(m)
      PROVE  ApartFrom(q, p) /\ ApartFrom(p, q)
  <2>1. p \in Editing /\ EditingInv(p)
    BY <1>6, OtherIs
  <2>2. q.slot # p.slot /\ q.old # 0 => q.old # p.old /\ q.old # p.key
    BY <1>1, <2>1 DEF EditingInv
  <2>3. Uploaded(p) => p.key # q.old
    BY <1>1, <2>1 DEF EditingInv, Uploaded
  <2> QED BY <1>3, <2>2, <2>3 DEF ApartFrom
<1> QED BY <1>5, <1>6

LEMMA UpdateStarts ==
    ASSUME MediaInv, NEW m \in MediaRequests, NEW s \in Slots,
           NEW file \in BOOLEAN, StartUpdate(m, s, file)
    PROVE  MediaInv'
<1>1. PICK k : k = image[s]
  OBVIOUS
<1>2. PICK pc : pc = FirstStep(s, file, k)
  OBVIOUS
<1>3. PICK q : q = [slot |-> s, file |-> file, old |-> k, key |-> k, pc |-> pc]
  OBVIOUS
<1>4. /\ editing[m] = NotEditing /\ editing' = [editing EXCEPT ![m] = q]
      /\ UNCHANGED <<mediaRows, image, files, uploads, harmed>>
  BY <1>1, <1>2, <1>3 DEF StartUpdate, Opened
<1>5. /\ pc \in {"delete", "upload", "check", "write"}
      /\ pc = "upload" => file
      /\ pc = "delete" => k # 0 /\ (file \/ s \in Documents)
      /\ file => pc \in {"delete", "upload"}
  BY <1>2 DEF FirstStep, AfterUpload
<1>6. k \in Keys
  BY <1>1 DEF MediaInv, MediaTypeOK
<1>7. /\ q \in Editing /\ q.slot = s /\ q.old = k /\ q.key = k /\ q.pc = pc
      /\ q.file = file
  BY <1>3, <1>5, <1>6 DEF Editing
<1>8. EditingInv(q) /\ \A p \in Others(m) : ApartFrom(q, p) /\ ApartFrom(p, q)
  BY <1>1, <1>5, <1>7, BeginsApart
<1>9. ~Deleted(editing[m])
  BY <1>4 DEF Deleted, NotEditing
<1>10. MediaTypeOK' /\ KeysInv' /\ ImagesExist'
  BY <1>4, <1>7, <1>8, <1>9, EditMoves
<1>11. CreatorsInv'
  BY <1>4, <1>5, <1>7, CreatorsKeep
<1> QED BY <1>10, <1>11 DEF MediaInv

\* createSiteSetting finds the row, and does not look at its key.
LEMMA FoundStarts ==
    ASSUME MediaInv, NEW m \in MediaRequests, NEW s \in Slots,
           NEW file \in BOOLEAN,
           Opened(m, s, file, IF file THEN "upload" ELSE "write", 0),
           UNCHANGED <<mediaRows, image, files, uploads, harmed>>
    PROVE  MediaInv'
<1>1. PICK pc : pc = IF file THEN "upload" ELSE "write"
  OBVIOUS
<1>2. PICK q : q = [slot |-> s, file |-> file, old |-> 0, key |-> 0, pc |-> pc]
  OBVIOUS
<1>3. editing[m] = NotEditing /\ editing' = [editing EXCEPT ![m] = q]
  BY <1>1, <1>2 DEF Opened
<1>4. pc \in {"upload", "write"} /\ (pc = "upload" => file)
  BY <1>1
<1>5. 0 \in Keys
  BY MediaAssumption DEF Keys
<1>6. /\ q \in Editing /\ q.slot = s /\ q.old = 0 /\ q.key = 0 /\ q.pc = pc
      /\ q.file = file
  BY <1>2, <1>4, <1>5 DEF Editing
<1>7. EditingInv(q) /\ \A p \in Others(m) : ApartFrom(q, p) /\ ApartFrom(p, q)
  BY <1>4, <1>6, BeginsApart
<1>8. ~Deleted(editing[m])
  BY <1>3 DEF Deleted, NotEditing
<1>9. MediaTypeOK' /\ KeysInv' /\ ImagesExist'
  BY <1>3, <1>6, <1>7, <1>8, EditMoves
<1>10. CreatorsInv'
  BY <1>3, <1>4, <1>6, CreatorsKeep
<1> QED BY <1>9, <1>10 DEF MediaInv

\* Creators begin while there is no row: however many there are, each is a
\* request.
LEMMA CreationStarts ==
    ASSUME MediaInv, NEW m \in MediaRequests, NEW s \in Slots,
           NEW file \in BOOLEAN, StartCreate(m, s, file)
    PROVE  MediaInv'
<1>1. PICK q : q = [slot |-> s, file |-> file, old |-> 0, key |-> 0,
                    pc |-> "create"]
  OBVIOUS
<1>2. /\ mediaRows[s] = 0 /\ editing[m] = NotEditing
      /\ editing' = [editing EXCEPT ![m] = q]
      /\ UNCHANGED <<mediaRows, image, files, uploads, harmed>>
  BY <1>1 DEF StartCreate, Opened, Found
<1>3. 0 \in Keys
  BY MediaAssumption DEF Keys
<1>4. /\ q \in Editing /\ q.slot = s /\ q.old = 0 /\ q.key = 0 /\ q.pc = "create"
  BY <1>1, <1>3 DEF Editing
<1>5. EditingInv(q) /\ \A p \in Others(m) : ApartFrom(q, p) /\ ApartFrom(p, q)
  BY <1>4, BeginsApart
<1>6. ~Deleted(editing[m])
  BY <1>2 DEF Deleted, NotEditing
<1>7. MediaTypeOK' /\ KeysInv' /\ ImagesExist'
  BY <1>2, <1>4, <1>5, <1>6, EditMoves
<1>8. ASSUME NEW t \in Singles
      PROVE  mediaRows'[t] + Cardinality(Creators(t)') <= Cardinality(MediaRequests)
  <2>1. Creators(t)' \subseteq MediaRequests
    BY DEF Creators
  <2>2. CASE t = s
    BY <1>2, <2>1, <2>2, CreatorsAreFinite
  <2>3. CASE t # s
    <3>1. Creators(t)' \subseteq Creators(t) /\ Creators(t) \subseteq MediaRequests
      BY <1>2, <1>4, <2>3 DEF Creators, MediaInv, MediaTypeOK
    <3>2. Cardinality(Creators(t)') <= Cardinality(Creators(t))
      BY <3>1, CreatorsAreFinite, FS_Subset
    <3>3. /\ Cardinality(Creators(t)') \in Nat /\ Cardinality(Creators(t)) \in Nat
          /\ Cardinality(MediaRequests) \in Nat
      BY <3>1, CreatorsAreFinite
    <3>4. mediaRows[t] \in Nat /\ mediaRows'[t] = mediaRows[t]
      BY <1>2, MediaAssumption DEF MediaInv, MediaTypeOK, Slots, Singles
    <3>5. mediaRows[t] + Cardinality(Creators(t)) <= Cardinality(MediaRequests)
      BY DEF MediaInv, CreatorsInv
    <3> QED BY <3>2, <3>3, <3>4, <3>5
  <2> QED BY <2>2, <2>3
<1> QED BY <1>7, <1>8 DEF MediaInv, CreatorsInv

LEMMA EditTo ==
    ASSUME NEW r \in Editing, NEW k \in Keys,
           NEW pc \in {"delete", "upload", "check", "write"},
           NEW q, q = [r EXCEPT !.key = k, !.pc = pc]
    PROVE  /\ q \in Editing /\ q.slot = r.slot /\ q.file = r.file
           /\ q.old = r.old /\ q.key = k /\ q.pc = pc
  BY DEF Editing

LEMMA EditPc ==
    ASSUME NEW r \in Editing, NEW pc \in {"delete", "upload", "check", "write"},
           NEW q, q = [r EXCEPT !.pc = pc]
    PROVE  /\ q \in Editing /\ q.slot = r.slot /\ q.file = r.file
           /\ q.old = r.old /\ q.key = r.key /\ q.pc = pc
  BY DEF Editing

\* The old file goes, before the new one comes.
LEMMA DeletionKeeps ==
    ASSUME MediaInv, NEW m \in MediaRequests, deleteFile(m)
    PROVE  MediaInv'
<1>1. PICK r : r = editing[m]
  OBVIOUS
<1>2. PICK pc : pc = IF r.file THEN "upload" ELSE "write"
  OBVIOUS
<1>3. PICK q : q = [r EXCEPT !.pc = pc]
  OBVIOUS
<1>4. /\ r.pc = "delete" /\ files' = files \ {r.old}
      /\ editing' = [editing EXCEPT ![m] = q]
      /\ UNCHANGED <<mediaRows, image, uploads, harmed>>
  BY <1>1, <1>2, <1>3 DEF deleteFile, Edit
<1>5. r \in Editing /\ EditingInv(r) /\ r # NotEditing
  BY <1>1, <1>4, EditTyped, EditRecords
<1>6. r.slot \in Slots /\ r.key \in Keys /\ r.file \in BOOLEAN
  BY <1>5, EditRecords
<1>7. pc \in {"upload", "write"} /\ (pc = "write" <=> ~r.file)
  BY <1>2, <1>6
<1>8. /\ q \in Editing /\ q.slot = r.slot /\ q.file = r.file
      /\ q.old = r.old /\ q.key = r.key /\ q.pc = pc
  <2>1. pc \in {"delete", "upload", "check", "write"}
    BY <1>7
  <2> QED BY <1>3, <1>5, <2>1, EditPc
<1>9. ~Uploaded(q) /\ ~Uploaded(r) /\ ~Deleted(r) /\ Deleted(q) /\ q.key = q.old
  BY <1>4, <1>5, <1>7, <1>8 DEF Uploaded, Deleted, EditingInv
<1>10. EditingInv(q)'
  <2>1. q.old \in 0..uploads' /\ q.key \in 0..uploads'
    BY <1>4, <1>5, <1>8 DEF EditingInv
  <2>2. \A s \in Slots : s # q.slot => image'[s] = 0 \/ image'[s] \notin {q.old, q.key}
    BY <1>4, <1>5, <1>8 DEF EditingInv
  <2> QED BY <1>7, <1>8, <1>9, <2>1, <2>2 DEF EditingInv
<1>11. ASSUME NEW p \in Others(m)
       PROVE  EditingInv(p)' /\ ApartFrom(q, p) /\ ApartFrom(p, q)
  <2>1. p \in Editing /\ EditingInv(p) /\ ApartFrom(r, p) /\ ApartFrom(p, r)
    BY <1>1, <1>5, <1>11, OtherIs
  <2>2. Uploaded(p) => p.key \in files'
    BY <1>4, <2>1 DEF EditingInv, ApartFrom
  <2>3. EditingInv(p)'
    BY <1>4, <2>1, <2>2 DEF EditingInv
  <2>4. ApartFrom(q, p)
    BY <1>8, <1>9, <2>1 DEF ApartFrom
  <2>5. ApartFrom(p, q)
    BY <1>8, <2>1 DEF ApartFrom
  <2> QED BY <2>3, <2>4, <2>5
<1>12. MediaTypeOK'
  BY <1>4, <1>8 DEF MediaInv, MediaTypeOK
<1>13. KeysInv'
  <2>1. /\ files' \subseteq 1..uploads' /\ \A s \in Slots : image'[s] \in 0..uploads'
        /\ \A s, t \in Slots : s # t => image'[s] = 0 \/ image'[s] # image'[t]
    BY <1>4 DEF MediaInv, KeysInv
  <2> QED BY <1>4, <1>10, <1>11, <2>1, KeysKeep
<1>14. ImagesExist'
  <2>1. \A s \in Slots : StaysAt(m, q, s)
    BY <1>1, <1>4, <1>5, <1>8, <1>9 DEF EditingInv, StaysAt
  <2> QED BY <1>4, <2>1, ImagesStay
<1>15. CreatorsInv'
  BY <1>4, <1>7, <1>8, CreatorsKeep
<1> QED BY <1>12, <1>13, <1>14, <1>15 DEF MediaInv

\* A key is new, and no other request's; or the store fails, and there is
\* none.
LEMMA KeyComes ==
    ASSUME MediaInv, NEW m \in MediaRequests, uploadFile(m)
    PROVE  MediaInv'
<1>1. PICK r : r = editing[m]
  OBVIOUS
<1>2. PICK pc : pc = AfterUpload(r.slot)
  OBVIOUS
<1>3. PICK k : k = uploads + 1
  OBVIOUS
<1>4. /\ uploads \in Nat /\ MaxUploads \in Nat /\ Keys = 0..MaxUploads
      /\ \A n \in 0..uploads : n # k /\ n \in 0..k
  BY <1>3, MediaAssumption DEF MediaInv, MediaTypeOK, Keys
<1>5. /\ r.pc = "upload" /\ uploads < MaxUploads
      /\ UNCHANGED <<mediaRows, image, harmed>>
  BY <1>1 DEF uploadFile
<1>6. \/ /\ editing' = [editing EXCEPT ![m] = [r EXCEPT !.key = k, !.pc = pc]]
         /\ files' = files \cup {k} /\ uploads' = k
      \/ /\ editing' = [editing EXCEPT ![m] = [r EXCEPT !.key = 0, !.pc = pc]]
         /\ UNCHANGED <<files, uploads>>
  BY <1>1, <1>2, <1>3 DEF uploadFile, KeyOfUpload, Undefined, Slot
<1>7. k \in Keys /\ k # 0 /\ 0 \in Keys /\ k \in 1..k /\ 1..uploads \subseteq 1..k
  BY <1>3, <1>4, <1>5
<1>8. PICK l \in {0, k} :
         /\ editing' = [editing EXCEPT ![m] = [r EXCEPT !.key = l, !.pc = pc]]
         /\ \/ l = k /\ files' = files \cup {k} /\ uploads' = k
            \/ l = 0 /\ files' = files /\ uploads' = uploads
  BY <1>6
<1>9. PICK q : q = [r EXCEPT !.key = l, !.pc = pc]
  OBVIOUS
<1>10. r \in Editing /\ EditingInv(r) /\ r # NotEditing /\ r.file /\ r.key = r.old
  BY <1>1, <1>5, EditTyped, EditRecords DEF EditingInv
<1>11. pc \in {"check", "write"}
  BY <1>2 DEF AfterUpload
<1>12. /\ q \in Editing /\ q.slot = r.slot /\ q.file = r.file
       /\ q.old = r.old /\ q.key = l /\ q.pc = pc
  <2>1. pc \in {"delete", "upload", "check", "write"} /\ l \in Keys
    BY <1>7, <1>8, <1>11
  <2>2. r \in Editing
    BY <1>10
  <2> QED BY <1>9, <2>1, <2>2 DEF Editing
<1>13. ~Uploaded(r) /\ (Deleted(r) => Deleted(q)) /\ (Uploaded(q) <=> l = k)
  BY <1>5, <1>7, <1>8, <1>10, <1>11, <1>12 DEF Uploaded, Deleted
<1>14. 0..uploads \subseteq 0..uploads' /\ l \in 0..uploads' /\ files \subseteq files'
  BY <1>4, <1>7, <1>8
<1>15. \A s \in Slots : image[s] \in 0..uploads /\ image[s] # k
  BY <1>4 DEF MediaInv, KeysInv
<1>16. EditingInv(q)'
  <2>1. q.old \in 0..uploads' /\ q.key \in 0..uploads' /\ q.old # k
    BY <1>4, <1>10, <1>12, <1>14 DEF EditingInv
  <2>2. \A s \in Slots : s # q.slot => image'[s] = 0 \/ image'[s] \notin {q.old, q.key}
    BY <1>5, <1>8, <1>10, <1>12, <1>15 DEF EditingInv
  <2>3. Uploaded(q) => q.key \in files' /\ q.key # q.old
                       /\ \A s \in Slots : image'[s] # q.key
    BY <1>5, <1>7, <1>8, <1>12, <1>13, <1>15, <2>1
  <2>4. q.pc = "upload" => q.file
    BY <1>11, <1>12
  <2>5. q.pc # "delete" /\ (q.key = q.old \/ (q.file /\ q.pc \in {"check", "write"}))
    BY <1>10, <1>11, <1>12
  <2> QED BY <2>1, <2>2, <2>3, <2>4, <2>5 DEF EditingInv
<1>17. ASSUME NEW p \in Others(m)
       PROVE  EditingInv(p)' /\ ApartFrom(q, p) /\ ApartFrom(p, q)
  <2>1. p \in Editing /\ EditingInv(p) /\ ApartFrom(r, p) /\ ApartFrom(p, r)
    BY <1>1, <1>10, <1>17, OtherIs
  <2>2. EditingInv(p)'
    BY <1>5, <1>14, <2>1 DEF EditingInv
  <2>3. p.old # k /\ p.key # k
    BY <1>4, <2>1 DEF EditingInv
  <2>4. ApartFrom(q, p)
    BY <1>8, <1>12, <1>13, <2>1, <2>3 DEF ApartFrom
  <2>5. Uploaded(p) => p.key # l
    BY <1>8, <2>3 DEF Uploaded
  <2>6. ApartFrom(p, q)
    BY <1>8, <1>12, <2>1, <2>3, <2>5 DEF ApartFrom
  <2> QED BY <2>2, <2>4, <2>6
<1>18. MediaTypeOK'
  <2>1. files' \subseteq Keys \ {0} /\ uploads' \in 0..MaxUploads
    BY <1>4, <1>7, <1>8 DEF MediaInv, MediaTypeOK
  <2> QED BY <1>5, <1>8, <1>9, <1>12, <2>1 DEF MediaInv, MediaTypeOK
<1>19. KeysInv'
  <2>1. files' \subseteq 1..uploads'
    BY <1>4, <1>7, <1>8 DEF MediaInv, KeysInv
  <2>2. /\ \A s \in Slots : image'[s] \in 0..uploads'
        /\ \A s, t \in Slots : s # t => image'[s] = 0 \/ image'[s] # image'[t]
    BY <1>5, <1>14, <1>15 DEF MediaInv, KeysInv
  <2> QED BY <1>8, <1>9, <1>16, <1>17, <2>1, <2>2, KeysKeep
<1>20. ImagesExist'
  <2>1. \A s \in Slots : StaysAt(m, q, s)
    BY <1>1, <1>5, <1>12, <1>13, <1>14 DEF StaysAt
  <2>2. editing' = [editing EXCEPT ![m] = q]
    BY <1>8, <1>9
  <2> QED BY <2>1, <2>2, ImagesStay
<1>21. CreatorsInv'
  BY <1>5, <1>8, <1>9, <1>11, <1>12, CreatorsKeep
<1> QED BY <1>18, <1>19, <1>20, <1>21 DEF MediaInv

\* A slug is free, or the request is refused.
LEMMA SlugKeeps ==
    ASSUME MediaInv, NEW m \in MediaRequests, CheckSlug(m)
    PROVE  MediaInv'
<1>1. UNCHANGED <<mediaRows, image, files, uploads>> /\ editing[m].pc = "check"
  BY DEF CheckSlug
<1>2. ASSUME Leave(m), harmed' = Harm(m) PROVE MediaInv'
  BY <1>1, <1>2, LeavingKeeps
<1>3. ASSUME Edit(m, "write"), UNCHANGED harmed PROVE MediaInv'
  <2>1. PICK r : r = editing[m]
    OBVIOUS
  <2>2. PICK q : q = [r EXCEPT !.pc = "write"]
    OBVIOUS
  <2>3. editing' = [editing EXCEPT ![m] = q]
    BY <1>3, <2>1, <2>2 DEF Edit
  <2>4. r \in Editing /\ EditingInv(r) /\ r # NotEditing /\ r.key \in Keys
    BY <1>1, <2>1, EditTyped, EditRecords
  <2>5. /\ q \in Editing /\ q.slot = r.slot /\ q.file = r.file
        /\ q.old = r.old /\ q.key = r.key /\ q.pc = "write"
    BY <2>2, <2>4, EditPc
  <2>6. (Uploaded(q) <=> Uploaded(r)) /\ (Deleted(r) => Deleted(q))
    BY <1>1, <2>1, <2>5 DEF Uploaded, Deleted
  <2>7. EditingInv(q)
    BY <1>1, <2>1, <2>4, <2>5, <2>6 DEF EditingInv
  <2>8. ASSUME NEW p \in Others(m)
        PROVE  ApartFrom(q, p) /\ ApartFrom(p, q)
    <3>1. ApartFrom(r, p) /\ ApartFrom(p, r)
      BY <2>1, <2>4, <2>8, OtherIs
    <3> QED BY <2>5, <2>6, <3>1 DEF ApartFrom
  <2>9. MediaTypeOK' /\ KeysInv' /\ ImagesExist'
    BY <1>1, <1>3, <2>1, <2>3, <2>5, <2>6, <2>7, <2>8, EditMoves
  <2>10. CreatorsInv'
    BY <1>1, <2>3, <2>5, CreatorsKeep
  <2> QED BY <2>9, <2>10 DEF MediaInv
<1>4. \/ Edit(m, "write") /\ UNCHANGED harmed
      \/ Leave(m) /\ harmed' = Harm(m)
  BY DEF CheckSlug
<1> QED BY <1>2, <1>3, <1>4

\* Key k is no other slot's and of no other request for another slot, and
\* nobody has it to come.
KeyIsFree(m, s, k) ==
    /\ \A t \in Slots : t # s => image[t] = 0 \/ image[t] # k
    /\ \A p \in Others(m) :
         /\ Uploaded(p) => p.key # k
         /\ p.slot # s => k = 0 \/ k \notin {p.old, p.key}

\* The row of slot s takes key k, and the request ends; files may have come
\* to the store.
LEMMA RowTakes ==
    ASSUME MediaInv, NEW m \in MediaRequests, NEW s \in Slots, NEW k,
           k \in 0..uploads', editing' = [editing EXCEPT ![m] = NotEditing],
           image' = [image EXCEPT ![s] = k],
           files \subseteq files', files' \subseteq 1..uploads',
           0..uploads \subseteq 0..uploads', KeyIsFree(m, s, k)
    PROVE  KeysInv'
<1>1. image \in [Slots -> Keys] /\ \A t \in Slots : image[t] \in 0..uploads
  BY DEF MediaInv, MediaTypeOK, KeysInv
<1>2. image'[s] = k /\ \A t \in Slots : t # s => image'[t] = image[t]
  BY <1>1
<1>3. \A t \in Slots : image'[t] \in 0..uploads'
  BY <1>1, <1>2
<1>4. \A t, u \in Slots : t # u => image'[t] = 0 \/ image'[t] # image'[u]
  BY <1>2 DEF MediaInv, KeysInv, KeyIsFree
<1>5. ASSUME NEW p \in Others(m)
      PROVE  EditingInv(p)'
  <2>1. EditingInv(p)
    BY <1>5, OtherIs
  <2>2. p.old \in 0..uploads' /\ p.key \in 0..uploads'
    BY <2>1 DEF EditingInv
  <2>3. Uploaded(p) => p.key \in files' /\ p.key # p.old
                       /\ \A t \in Slots : image'[t] # p.key
    BY <1>2, <1>5, <2>1 DEF EditingInv, KeyIsFree
  <2>4. \A t \in Slots : t # p.slot => image'[t] = 0 \/ image'[t] \notin {p.old, p.key}
    BY <1>2, <1>5, <2>1 DEF EditingInv, KeyIsFree
  <2> QED BY <2>1, <2>2, <2>3, <2>4 DEF EditingInv
<1> QED BY <1>3, <1>4, <1>5, KeysKeep

\* The row takes the key that was uploaded, or the one that was read.
LEMMA WritingKeeps ==
    ASSUME MediaInv, NEW m \in MediaRequests, WriteRow(m)
    PROVE  MediaInv'
<1>1. PICK r : r = editing[m]
  OBVIOUS
<1>2. PICK s : s = r.slot
  OBVIOUS
<1>3. PICK k : k = IF r.file \/ s \in Contents \cup Singles THEN r.key ELSE 0
  OBVIOUS
<1>4. /\ r.pc = "write" /\ Leave(m) /\ UNCHANGED <<mediaRows, files, uploads>>
      /\ image' = [image EXCEPT ![s] = IF k = 0 THEN image[s] ELSE k]
      /\ harmed' = CASE k = 0 -> Harm(m)
                     [] k # 0 /\ r.file -> harmed \ {s}
                     [] OTHER -> IF k = image[s] THEN harmed ELSE harmed \cup {s}
  BY <1>1, <1>2, <1>3 DEF WriteRow, WrittenKey, Undefined, Slot
<1>5. r \in Editing /\ EditingInv(r) /\ r # NotEditing
  BY <1>1, <1>4, EditTyped, EditRecords
<1>6. s \in Slots /\ r.key \in Keys /\ r.file \in BOOLEAN /\ r.key \in 0..uploads
  BY <1>2, <1>5, EditRecords DEF EditingInv
<1>7. /\ image \in [Slots -> Keys] /\ harmed \subseteq Slots
      /\ files \subseteq 1..uploads
      /\ s \in Contents \cup Singles => s \notin Documents
  BY MediaAssumption DEF MediaInv, MediaTypeOK, KeysInv, Singles
<1>8. editing' = [editing EXCEPT ![m] = NotEditing] /\ NotEditing.pc # "create"
  BY <1>4 DEF Leave, NotEditing
<1>9. CASE k = 0
  <2>1. image' = image /\ harmed' = Harm(m)
    BY <1>4, <1>6, <1>7, <1>9
  <2> QED BY <1>4, <2>1, LeavingKeeps
<1>10. CASE k # 0
  <2>1. k = r.key /\ image' = [image EXCEPT ![s] = k]
    BY <1>3, <1>4, <1>10
  <2>2. /\ r.file => harmed' = harmed \ {s}
        /\ ~r.file => IF k = image[s] THEN harmed' = harmed ELSE harmed' = harmed \cup {s}
    BY <1>4, <1>10
  <2>3. r.file => Uploaded(r)
    BY <1>4, <1>10, <2>1 DEF Uploaded
  <2>4. ~r.file => k = r.old /\ ~Deleted(r)
    <3>1. ~r.file => s \notin Documents
      BY <1>3, <1>7, <1>10
    <3> QED BY <1>2, <1>5, <2>1, <3>1 DEF EditingInv, Deleted
  <2>5. \A t \in Slots : t # s => image[t] = 0 \/ image[t] # k
    BY <1>2, <1>5, <2>1 DEF EditingInv
  <2>6. ASSUME NEW p \in Others(m)
        PROVE  /\ Uploaded(p) => p.key # k
               /\ p.slot # s => k = 0 \/ k \notin {p.old, p.key}
    <3>1. ApartFrom(r, p) /\ ApartFrom(p, r)
      BY <1>1, <1>5, <2>6, OtherIs
    <3> QED BY <1>2, <1>10, <2>1, <3>1 DEF ApartFrom
  <2>7. KeysInv'
    <3>1. /\ k \in 0..uploads' /\ files \subseteq files' /\ files' \subseteq 1..uploads'
          /\ 0..uploads \subseteq 0..uploads'
      BY <1>4, <1>6, <1>7, <2>1
    <3>2. KeyIsFree(m, s, k)
      BY <2>5, <2>6 DEF KeyIsFree
    <3>3. s \in Slots /\ editing' = [editing EXCEPT ![m] = NotEditing]
      BY <1>6, <1>8
    <3>4. image' = [image EXCEPT ![s] = k]
      BY <2>1
    <3> QED BY <3>1, <3>2, <3>3, <3>4, RowTakes
  <2>8. MediaTypeOK'
    <3>1. image' \in [Slots -> Keys] /\ harmed' \subseteq Slots
      BY <1>6, <1>7, <2>1, <2>2
    <3> QED BY <1>4, <1>8, <3>1 DEF MediaInv, MediaTypeOK
  <2>9. ImagesExist'
    <3>1. r.file => k \in files
      BY <1>5, <2>1, <2>3 DEF EditingInv
    <3>2. image'[s] = k /\ \A t \in Slots : t # s => image'[t] = image[t]
      BY <1>6, <1>7, <2>1
    <3>3. \A t \in Slots : StaysAt(m, NotEditing, t)
      BY <1>1, <1>2, <1>4, <1>6, <2>2, <2>4, <3>1, <3>2 DEF StaysAt
    <3> QED BY <1>8, <3>3, ImagesStay
  <2>10. CreatorsInv'
    BY <1>4, <1>8, CreatorsKeep
  <2> QED BY <2>7, <2>8, <2>9, <2>10 DEF MediaInv
<1> QED BY <1>9, <1>10

\* A creator becomes a row.
LEMMA CreatorEnds ==
    ASSUME MediaInv, NEW m \in MediaRequests, CreateRow(m)
    PROVE  CreatorsInv' /\ mediaRows' \in [Slots -> 0..MaxMediaRows]
<1>1. PICK r : r = editing[m]
  OBVIOUS
<1>2. PICK s : s = r.slot
  OBVIOUS
<1>3. /\ r.pc = "create" /\ mediaRows[s] < MaxMediaRows
      /\ mediaRows' = [mediaRows EXCEPT ![s] = mediaRows[s] + 1]
      /\ editing' = [editing EXCEPT ![m] = NotEditing]
  BY <1>1, <1>2 DEF CreateRow, Leave, Slot
<1>4. s \in Slots
  BY <1>1, <1>2, <1>3, EditTyped, EditRecords
<1>5. /\ mediaRows \in [Slots -> 0..MaxMediaRows] /\ MaxMediaRows \in Nat
      /\ editing \in [MediaRequests -> Editing \cup {NotEditing}]
  BY MediaAssumption DEF MediaInv, MediaTypeOK
<1>6. mediaRows' \in [Slots -> 0..MaxMediaRows]
  BY <1>3, <1>4, <1>5
<1>7. NotEditing.pc # "create"
  BY DEF NotEditing
<1>8. ASSUME NEW t \in Singles
      PROVE  mediaRows'[t] + Cardinality(Creators(t)') <= Cardinality(MediaRequests)
  <2>1. t \in Slots /\ Creators(t) \subseteq MediaRequests
    BY DEF Slots, Creators
  <2>2. /\ Cardinality(Creators(t)) \in Nat /\ IsFiniteSet(Creators(t))
        /\ Cardinality(MediaRequests) \in Nat
    BY <2>1, CreatorsAreFinite
  <2>3. mediaRows[t] + Cardinality(Creators(t)) <= Cardinality(MediaRequests)
    BY DEF MediaInv, CreatorsInv
  <2>4. mediaRows[t] \in Nat /\ mediaRows[s] \in Nat
    BY <1>4, <1>5, <2>1
  <2>5. Creators(t)' = Creators(t) \ {m}
    BY <1>3, <1>5, <1>7 DEF Creators
  <2>6. CASE t = s
    <3>1. m \in Creators(t)
      BY <1>1, <1>2, <1>3, <2>6 DEF Creators
    <3>2. Cardinality(Creators(t)') = Cardinality(Creators(t)) - 1
      BY <2>2, <2>5, <3>1, FS_RemoveElement
    <3>3. mediaRows'[t] = mediaRows[t] + 1
      BY <1>3, <1>4, <1>5, <2>6
    <3> QED BY <2>2, <2>3, <2>4, <3>2, <3>3
  <2>7. CASE t # s
    <3>1. m \notin Creators(t)
      BY <1>1, <1>2, <2>7 DEF Creators
    <3>2. Creators(t)' = Creators(t) /\ mediaRows'[t] = mediaRows[t]
      BY <1>3, <1>5, <2>1, <2>5, <2>7, <3>1
    <3> QED BY <2>3, <3>2
  <2> QED BY <2>6, <2>7
<1> QED BY <1>6, <1>8 DEF CreatorsInv

LEMMA CreationKeeps ==
    ASSUME MediaInv, NEW m \in MediaRequests, CreateRow(m)
    PROVE  MediaInv'
<1>1. PICK r : r = editing[m]
  OBVIOUS
<1>2. PICK s : s = r.slot
  OBVIOUS
<1>3. PICK n : n = uploads + 1
  OBVIOUS
<1>4. /\ r.pc = "create" /\ editing' = [editing EXCEPT ![m] = NotEditing]
      /\ UNCHANGED harmed
      /\ \/ /\ uploads < MaxUploads /\ uploads' = n /\ files' = files \cup {n}
            /\ \/ image' = image
               \/ image' = [image EXCEPT ![s] = n]
         \/ UNCHANGED <<uploads, files, image>>
  BY <1>1, <1>2, <1>3 DEF CreateRow, Leave, Slot
<1>5. r \in Editing /\ ~Deleted(r)
  BY <1>1, <1>4, EditTyped DEF Deleted
<1>6. s \in Slots
  BY <1>2, <1>5, EditRecords
<1>7. /\ uploads \in Nat /\ MaxUploads \in Nat /\ image \in [Slots -> 0..MaxUploads]
      /\ files \subseteq 1..uploads /\ harmed \subseteq Slots
      /\ \A t \in Slots : image[t] \in 0..uploads
  BY MediaAssumption DEF MediaInv, MediaTypeOK, KeysInv, Keys
<1>8. PICK k \in 0..uploads' :
        /\ image' = [image EXCEPT ![s] = k] /\ k \in 0..MaxUploads
        /\ \/ k = image[s]
           \/ k = n /\ uploads' = n /\ files' = files \cup {n}
  <2>1. image' = image => image' = [image EXCEPT ![s] = image[s]]
    BY <1>6, <1>7
  <2>2. image[s] \in 0..uploads' /\ image[s] \in 0..MaxUploads
    BY <1>3, <1>4, <1>6, <1>7
  <2>3. uploads < MaxUploads /\ uploads' = n => n \in 0..uploads' /\ n \in 0..MaxUploads
    BY <1>3, <1>7
  <2> QED BY <1>4, <2>1, <2>2, <2>3
<1>9. /\ files \subseteq files' /\ files' \subseteq 1..uploads'
      /\ 0..uploads \subseteq 0..uploads' /\ uploads' \in 0..MaxUploads
      /\ \A l \in 0..uploads : l # n
  <2>1. \A l \in 0..uploads : l # n
    BY <1>3, <1>7
  <2>2. CASE UNCHANGED <<uploads, files>>
    BY <1>7, <2>1, <2>2 DEF MediaInv, MediaTypeOK
  <2>3. CASE uploads < MaxUploads /\ uploads' = n /\ files' = files \cup {n}
    <3>1. /\ 0..uploads \subseteq 0..n /\ 1..uploads \subseteq 1..n
          /\ n \in 1..n /\ n \in 0..MaxUploads
      BY <1>3, <1>7, <2>3
    <3> QED BY <1>7, <2>1, <2>3, <3>1
  <2> QED BY <1>4, <2>2, <2>3
<1>10. \A t \in Slots : t # s => image[t] = 0 \/ image[t] # k
  BY <1>6, <1>7, <1>8, <1>9 DEF MediaInv, KeysInv
<1>11. ASSUME NEW p \in Others(m)
       PROVE  /\ Uploaded(p) => p.key # k
              /\ p.slot # s => k = 0 \/ k \notin {p.old, p.key}
  <2>1. EditingInv(p)
    BY <1>11, OtherIs
  <2> QED BY <1>6, <1>8, <1>9, <2>1 DEF EditingInv
<1>12. KeysInv'
  <2>1. KeyIsFree(m, s, k)
    BY <1>10, <1>11 DEF KeyIsFree
  <2>2. editing' = [editing EXCEPT ![m] = NotEditing]
    BY <1>4
  <2>3. image' = [image EXCEPT ![s] = k]
    BY <1>8
  <2> QED BY <1>6, <1>9, <2>1, <2>2, <2>3, RowTakes
<1>13. MediaTypeOK'
  <2>1. image' \in [Slots -> Keys]
    BY <1>7, <1>8 DEF Keys
  <2>2. editing' \in [MediaRequests -> Editing \cup {NotEditing}]
    BY <1>4 DEF MediaInv, MediaTypeOK
  <2>3. files' \subseteq Keys \ {0}
    BY <1>7, <1>9 DEF Keys
  <2> QED BY <1>4, <1>7, <1>9, <2>1, <2>2, <2>3, CreatorEnds DEF MediaTypeOK
<1>14. ImagesExist'
  <2>1. \A t \in Slots : StaysAt(m, NotEditing, t)
    BY <1>1, <1>4, <1>5, <1>6, <1>7, <1>8, <1>9 DEF StaysAt
  <2> QED BY <1>4, <2>1, ImagesStay
<1> QED BY <1>12, <1>13, <1>14, CreatorEnds DEF MediaInv

LEMMA MediaInvInit == MediaInit => MediaInv
<1> SUFFICES ASSUME MediaInit PROVE MediaInv
  OBVIOUS
<1>1. /\ uploads = 0 /\ files = {} /\ harmed = {}
      /\ image = [s \in Slots |-> 0]
      /\ editing = [m \in MediaRequests |-> NotEditing]
      /\ mediaRows = [s \in Slots |-> IF s \in Singles THEN 0 ELSE 1]
  BY DEF MediaInit
<1>2. /\ MaxUploads \in Nat /\ 0 \in Keys /\ 0 \in 0..MaxUploads /\ 0 \in 0..0
      /\ 0 \in 0..MaxMediaRows /\ 1 \in 0..MaxMediaRows
  BY MediaAssumption DEF Keys
<1>3. MediaTypeOK
  BY <1>1, <1>2 DEF MediaTypeOK
<1>4. KeysInv
  <2>1. \A m \in MediaRequests : editing[m] = NotEditing
    BY <1>1
  <2>2. \A s \in Slots : image[s] = 0
    BY <1>1
  <2>3. files \subseteq 1..uploads /\ \A s \in Slots : image[s] \in 0..uploads
    BY <1>1, <1>2, <2>2
  <2> QED BY <2>1, <2>2, <2>3 DEF KeysInv
<1>5. ImagesExist
  BY <1>1 DEF ImagesExist
<1>6. CreatorsInv
  <2>1. NotEditing.pc # "create"
    BY DEF NotEditing
  <2>2. ASSUME NEW s \in Singles
        PROVE  mediaRows[s] + Cardinality(Creators(s)) <= Cardinality(MediaRequests)
    <3>1. s \in Slots /\ mediaRows[s] = 0
      BY <1>1 DEF Slots
    <3>2. Creators(s) \subseteq MediaRequests
      BY DEF Creators
    <3>3. /\ Cardinality(Creators(s)) \in Nat /\ Cardinality(MediaRequests) \in Nat
          /\ Cardinality(Creators(s)) <= Cardinality(MediaRequests)
      BY <3>2, CreatorsAreFinite
    <3> QED BY <3>1, <3>3
  <2> QED BY <2>2 DEF CreatorsInv
<1> QED BY <1>3, <1>4, <1>5, <1>6 DEF MediaInv

LEMMA UpdatesKeep ==
    ASSUME MediaInv, NEW m \in MediaRequests, NEW file \in BOOLEAN,
           \/ updateAvatar(m) \/ replaceDocuments(m, file) \/ updateBlog(m, file)
           \/ updateTestimonial(m, file) \/ updateSiteSetting(m, file)
           \/ updateHeroSection(m, file)
    PROVE  MediaInv'
<1>1. \E s \in Slots, f \in BOOLEAN : StartUpdate(m, s, f)
  BY DEF updateAvatar, replaceDocuments, updateBlog, updateTestimonial,
         updateSiteSetting, updateHeroSection, Slots, Singles
<1> QED BY <1>1, UpdateStarts

LEMMA CreationsKeep ==
    ASSUME MediaInv, NEW m \in MediaRequests, NEW file \in BOOLEAN,
           createSiteSetting(m, file) \/ createHeroSection(m, file)
    PROVE  MediaInv'
<1>1. \E s \in Slots :
         \/ StartCreate(m, s, file)
         \/ StartUpdate(m, s, file)
         \/ /\ Opened(m, s, file, IF file THEN "upload" ELSE "write", 0)
            /\ UNCHANGED <<mediaRows, image, files, uploads, harmed>>
  BY DEF createSiteSetting, createHeroSection, Slots, Singles
<1> QED BY <1>1, CreationStarts, UpdateStarts, FoundStarts

LEMMA MediaInvNext == MediaInv /\ [MediaNext]_mediaVars => MediaInv'
<1>1. ASSUME MediaInv, UNCHANGED mediaVars
      PROVE  MediaInv'
  BY <1>1 DEF mediaVars, MediaInv, MediaTypeOK, KeysInv, EditingInv, ImagesExist,
              HasDeleted, Slot, CreatorsInv, Creators
<1>2. ASSUME MediaInv, NEW m \in MediaRequests, NEW file \in BOOLEAN,
             \/ replaceDocuments(m, file) \/ updateBlog(m, file)
             \/ updateTestimonial(m, file)
             \/ updateSiteSetting(m, file) \/ updateHeroSection(m, file)
             \/ createSiteSetting(m, file) \/ createHeroSection(m, file)
      PROVE  MediaInv'
  BY <1>2, UpdatesKeep, CreationsKeep
<1>3. ASSUME MediaInv, NEW m \in MediaRequests,
             \/ updateAvatar(m) \/ deleteFile(m) \/ uploadFile(m) \/ CheckSlug(m)
             \/ WriteRow(m) \/ CreateRow(m) \/ EditDies(m)
      PROVE  MediaInv'
  <2>1. CASE updateAvatar(m)
    BY <1>3, <2>1, UpdatesKeep
  <2>2. CASE EditDies(m)
    BY <1>3, <2>2, LeavingKeeps DEF EditDies
  <2>3. CASE deleteFile(m) \/ uploadFile(m) \/ CheckSlug(m)
    BY <1>3, <2>3, DeletionKeeps, KeyComes, SlugKeeps
  <2>4. CASE WriteRow(m) \/ CreateRow(m)
    BY <1>3, <2>4, WritingKeeps, CreationKeeps
  <2> QED BY <1>3, <2>1, <2>2, <2>3, <2>4
<1> QED BY <1>1, <1>2, <1>3, Zenon DEF MediaNext

LEMMA MediaInvariant == MediaSpec => []MediaInv
  BY MediaInvInit, MediaInvNext, PTL DEF MediaSpec

\* Rows, keys, files and the requests on them have their types, for any number
\* of slots, requests and uploads.
THEOREM MediaTypeCorrect == MediaSpec => []MediaTypeOK
<1>1. MediaInv => MediaTypeOK
  BY DEF MediaInv
<1> QED BY <1>1, MediaInvariant, PTL

\* users, blog, category and content.service: a file that a row names is
\* gone only by one of the three causes, never by two replacements at once,
\* and of a single row there are no more than requests that created it.
THEOREM MediaKept == MediaSpec => []MediaIsKept
<1>1. MediaInv => MediaIsKept
  <2> SUFFICES ASSUME MediaInv PROVE SinglesAreBounded
    BY DEF MediaInv, MediaIsKept
  <2>1. ASSUME NEW s \in Singles
        PROVE  mediaRows[s] <= Cardinality(MediaRequests)
    <3>1. Creators(s) \subseteq MediaRequests /\ s \in Slots
      BY DEF Creators, Slots
    <3>2. Cardinality(Creators(s)) \in Nat /\ Cardinality(MediaRequests) \in Nat
      BY <3>1, CreatorsAreFinite
    <3>3. mediaRows[s] \in Nat
      BY <3>1, MediaAssumption DEF MediaInv, MediaTypeOK
    <3>4. mediaRows[s] + Cardinality(Creators(s)) <= Cardinality(MediaRequests)
      BY DEF MediaInv, CreatorsInv
    <3> QED BY <3>2, <3>3, <3>4
  <2> QED BY <2>1 DEF SinglesAreBounded
<1> QED BY <1>1, MediaInvariant, PTL

-----------------------------------------------------------------------------
(* Reviews: what the requests under way owe                                *)

LastEvent == reviews[Cardinality(Written)].event

Adding(r) == reviewing[r].pc = "average"

Repliers(i) == {r \in ReviewRequests : reviewing[r].pc = "reply" /\ reviewing[r].review = i}

\* Who is about to write a review of an event that has one by the same guest,
\* or that another is about to write, has crossed it.
CrossedInv ==
    \A r \in ReviewRequests : reviewing[r].pc = "create" =>
        /\ OfGuest(reviewing[r].guest, reviewing[r].event) # {} =>
               <<reviewing[r].guest, reviewing[r].event>> \in crossed
        /\ \A q \in ReviewRequests \ {r} :
             /\ reviewing[q].pc = "create" /\ reviewing[q].guest = reviewing[r].guest
             /\ reviewing[q].event = reviewing[r].event
             => <<reviewing[r].guest, reviewing[r].event>> \in crossed

RepliedInv ==
    \A i \in 1..MaxReviews :
        replyed[i] + Cardinality(Repliers(i)) <= Cardinality(ReviewRequests)

\* A request that is the only one to read reviews reads those of the event
\* reviewed last; what is written with nobody about to read is their average.
RatingInv ==
    \/ overtaken
    \/ /\ \A r \in ReviewRequests :
            Adding(r) /\ (\A q \in ReviewRequests \ {r} : ~Adding(q))
            => reviewing[r].event = LastEvent
       /\ (\A r \in ReviewRequests : ~Adding(r)) =>
            \A r \in ReviewRequests :
              reviewing[r].pc = "write" => reviewing[r].of = OfEvent(LastEvent)
       /\ (\A r \in ReviewRequests : reviewing[r].pc \notin {"average", "write"}) =>
            Written = {} \/ average = OfEvent(LastEvent)

AveragesInv ==
    \A r \in ReviewRequests : reviewing[r].pc = "write" => reviewing[r].of \subseteq Written

GuestsInv ==
    \A g \in Reviewers, e \in ReviewEvents :
        Cardinality(OfGuest(g, e)) > 1 => <<g, e>> \in crossed

ReviewsInv ==
    /\ Cardinality(Written) \in 0..MaxReviews
    /\ ReviewsTypeOK /\ AveragesInv /\ GuestsInv /\ CrossedInv /\ RepliedInv
    /\ RatingInv

LEMMA ReviewKinds ==
    /\ ReviewIdle.pc = "idle"
    /\ \A q \in ReviewStates :
         /\ q # ReviewIdle /\ q.pc \in {"create", "average", "write", "reply"}
         /\ q.pc \in {"create", "average"} =>
              q.guest \in Reviewers /\ q.event \in ReviewEvents
              /\ [q EXCEPT !.pc = "average"] \in ReviewStates
              /\ [q EXCEPT !.pc = "average"].pc = "average"
              /\ [q EXCEPT !.pc = "average"].event = q.event
         /\ q.pc = "write" => q.of \in SUBSET (1..MaxReviews)
         /\ q.pc = "reply" => q.review \in 1..MaxReviews
<1>1. ReviewIdle.pc = "idle"
  BY DEF ReviewIdle
<1>2. ASSUME NEW q \in ReviewStates
      PROVE  /\ q # ReviewIdle /\ q.pc \in {"create", "average", "write", "reply"}
             /\ q.pc \in {"create", "average"} =>
                  q.guest \in Reviewers /\ q.event \in ReviewEvents
                  /\ [q EXCEPT !.pc = "average"] \in ReviewStates
                  /\ [q EXCEPT !.pc = "average"].pc = "average"
                  /\ [q EXCEPT !.pc = "average"].event = q.event
             /\ q.pc = "write" => q.of \in SUBSET (1..MaxReviews)
             /\ q.pc = "reply" => q.review \in 1..MaxReviews
  <2>1. CASE q \in [pc : {"create", "average"}, guest : Reviewers, event : ReviewEvents]
    <3>1. /\ q.pc \in {"create", "average"} /\ q.guest \in Reviewers
          /\ q.event \in ReviewEvents
      BY <2>1
    <3>2. PICK x : x = [q EXCEPT !.pc = "average"]
      OBVIOUS
    <3>3. /\ x \in [pc : {"create", "average"}, guest : Reviewers, event : ReviewEvents]
          /\ x.pc = "average" /\ x.event = q.event
      BY <2>1, <3>2
    <3>4. x \in ReviewStates
      BY <3>3 DEF ReviewStates
    <3> QED BY <1>1, <3>1, <3>2, <3>3, <3>4
  <2>2. CASE q \in [pc : {"write"}, of : SUBSET (1..MaxReviews)]
    BY <1>1, <2>2
  <2>3. CASE q \in [pc : {"reply"}, review : 1..MaxReviews]
    BY <1>1, <2>3
  <2> QED BY <1>2, <2>1, <2>2, <2>3 DEF ReviewStates
<1> QED BY <1>1, <1>2

LEMMA ReviewTyped ==
    ASSUME ReviewsInv, NEW r \in ReviewRequests
    PROVE  /\ reviewing[r] \in ReviewStates \/ reviewing[r] = ReviewIdle
           /\ reviewing[r].pc # "idle" => reviewing[r] \in ReviewStates
           /\ reviewing[r] \in ReviewStates => reviewing[r].pc # "idle"
<1>1. reviewing[r] \in ReviewStates \/ reviewing[r] = ReviewIdle
  BY DEF ReviewsInv, ReviewsTypeOK
<1> QED BY <1>1, ReviewKinds

\* How the requests and the written reviews stand after a step of one.
LEMMA ReviewMoves ==
    ASSUME ReviewsInv, NEW r \in ReviewRequests,
           NEW q \in ReviewStates \cup {ReviewIdle},
           reviewing' = [reviewing EXCEPT ![r] = q]
    PROVE  /\ reviewing' \in [ReviewRequests -> ReviewStates \cup {ReviewIdle}]
           /\ reviewing'[r] = q
           /\ \A s \in ReviewRequests : s # r => reviewing'[s] = reviewing[s]
  BY DEF ReviewsInv, ReviewsTypeOK

LEMMA NumbersOfReviews ==
    ASSUME ReviewsInv
    PROVE  /\ Cardinality(Written) \in Nat /\ MaxReviews \in Nat
           /\ Written = 1..Cardinality(Written) /\ IsFiniteSet(Written)
           /\ Cardinality(Written) + 1 \notin Written
           /\ Written \subseteq 1..MaxReviews
<1>1. /\ Cardinality(Written) \in 0..MaxReviews /\ MaxReviews \in Nat
      /\ Written = 1..Cardinality(Written)
  BY ReviewsAssumption DEF ReviewsInv, ReviewsTypeOK
<1>2. Cardinality(Written) \in Nat
  BY <1>1
<1>3. IsFiniteSet(1..Cardinality(Written))
  BY <1>2, FS_Interval
<1> QED BY <1>1, <1>2, <1>3

LEMMA RepliersAreFinite ==
    \A i : /\ Repliers(i) \subseteq ReviewRequests /\ IsFiniteSet(Repliers(i))
           /\ Cardinality(Repliers(i)) \in Nat /\ Cardinality(ReviewRequests) \in Nat
           /\ Cardinality(Repliers(i)) <= Cardinality(ReviewRequests)
<1>1. \A i : Repliers(i) \subseteq ReviewRequests
  BY DEF Repliers
<1> QED BY <1>1, FS_Subset, FS_CardinalityType, ReviewsAssumption

\* No request comes to reply.
LEMMA RepliersKeep ==
    ASSUME ReviewsInv, NEW r \in ReviewRequests,
           NEW q \in ReviewStates \cup {ReviewIdle},
           reviewing' = [reviewing EXCEPT ![r] = q], q.pc # "reply",
           UNCHANGED replyed
    PROVE  RepliedInv'
<1>1. ASSUME NEW i \in 1..MaxReviews
      PROVE  replyed'[i] + Cardinality(Repliers(i)') <= Cardinality(ReviewRequests)
  <2>1. Repliers(i)' \subseteq Repliers(i)
    BY ReviewMoves DEF Repliers
  <2>2. Cardinality(Repliers(i)') <= Cardinality(Repliers(i))
    BY <2>1, RepliersAreFinite, FS_Subset
  <2>3. Cardinality(Repliers(i)') \in Nat
    BY <2>1, RepliersAreFinite, FS_Subset, FS_CardinalityType
  <2>4. replyed[i] \in Nat /\ replyed'[i] = replyed[i]
    BY DEF ReviewsInv, ReviewsTypeOK
  <2>5. replyed[i] + Cardinality(Repliers(i)) <= Cardinality(ReviewRequests)
    BY DEF ReviewsInv, RepliedInv
  <2> QED BY <2>2, <2>3, <2>4, <2>5, RepliersAreFinite
<1> QED BY <1>1 DEF RepliedInv

\* No review comes, and no request that would write one.
LEMMA CrossedKeep ==
    ASSUME ReviewsInv, NEW r \in ReviewRequests,
           NEW q \in ReviewStates \cup {ReviewIdle},
           reviewing' = [reviewing EXCEPT ![r] = q], q.pc # "create",
           UNCHANGED <<reviews, crossed>>
    PROVE  CrossedInv' /\ GuestsInv'
<1>1. \A g, e : OfGuest(g, e)' = OfGuest(g, e)
  BY DEF OfGuest, OfEvent, Written
<1>2. GuestsInv'
  BY <1>1 DEF ReviewsInv, GuestsInv
<1>3. ASSUME NEW s \in ReviewRequests, reviewing'[s].pc = "create"
      PROVE  s # r /\ reviewing'[s] = reviewing[s]
  BY <1>3, ReviewMoves
<1>4. CrossedInv'
  BY <1>1, <1>3 DEF ReviewsInv, CrossedInv
<1> QED BY <1>2, <1>4

\* Nobody begins or ends to average.
LEMMA RatingKeep ==
    ASSUME ReviewsInv, NEW r \in ReviewRequests,
           NEW q \in ReviewStates \cup {ReviewIdle},
           reviewing' = [reviewing EXCEPT ![r] = q],
           reviewing[r].pc \notin {"average", "write"},
           q.pc \notin {"average", "write"},
           UNCHANGED <<reviews, average, overtaken>>
    PROVE  RatingInv' /\ AveragesInv'
<1>1. /\ \A e : OfEvent(e)' = OfEvent(e)
      /\ LastEvent' = LastEvent /\ Written' = Written
  BY DEF OfEvent, LastEvent, Written
<1>2. \A s \in ReviewRequests :
         /\ Adding(s)' <=> Adding(s)
         /\ reviewing'[s].pc = "write" <=> reviewing[s].pc = "write"
         /\ reviewing'[s].pc \in {"average", "write"} => reviewing'[s] = reviewing[s]
         /\ reviewing'[s].pc \in {"average", "write"} <=> reviewing[s].pc \in {"average", "write"}
  BY ReviewMoves DEF Adding
<1>3. AveragesInv'
  BY <1>1, <1>2 DEF ReviewsInv, AveragesInv
<1>4. CASE overtaken
  BY <1>3, <1>4 DEF RatingInv
<1>5. CASE ~overtaken
  <2>1. ASSUME NEW s \in ReviewRequests, Adding(s)',
               \A t \in ReviewRequests \ {s} : ~Adding(t)'
        PROVE  reviewing'[s].event = LastEvent'
    <3>1. Adding(s) /\ \A t \in ReviewRequests \ {s} : ~Adding(t)
      BY <1>2, <2>1
    <3>2. reviewing'[s] = reviewing[s]
      BY <1>2, <3>1 DEF Adding
    <3> QED BY <1>1, <1>5, <3>1, <3>2 DEF ReviewsInv, RatingInv
  <2>2. ASSUME \A s \in ReviewRequests : ~Adding(s)',
               NEW s \in ReviewRequests, reviewing'[s].pc = "write"
        PROVE  reviewing'[s].of = OfEvent(LastEvent)'
    <3>1. \A t \in ReviewRequests : ~Adding(t)
      BY <1>2, <2>2
    <3>2. reviewing'[s] = reviewing[s]
      BY <1>2, <2>2
    <3>3. reviewing[s].of = OfEvent(LastEvent)
      BY <1>5, <2>2, <3>1, <3>2 DEF ReviewsInv, RatingInv
    <3>4. OfEvent(LastEvent)' = OfEvent(LastEvent)
      BY DEF OfEvent, LastEvent, Written
    <3> QED BY <3>2, <3>3, <3>4
  <2>3. ASSUME \A s \in ReviewRequests : reviewing'[s].pc \notin {"average", "write"}
        PROVE  Written' = {} \/ average' = OfEvent(LastEvent)'
    <3>1. Written = {} \/ average = OfEvent(LastEvent)
      BY <1>2, <1>5, <2>3 DEF ReviewsInv, RatingInv
    <3>2. OfEvent(LastEvent)' = OfEvent(LastEvent)
      BY DEF OfEvent, LastEvent, Written
    <3> QED BY <1>1, <3>1, <3>2
  <2> QED BY <1>3, <2>1, <2>2, <2>3 DEF RatingInv
<1> QED BY <1>4, <1>5

\* A request looks, and finds nobody's review.
LEMMA ReviewStarts ==
    ASSUME ReviewsInv, NEW r \in ReviewRequests, NEW g \in Reviewers,
           NEW e \in ReviewEvents, StartReview(r, g, e)
    PROVE  ReviewsInv'
<1>1. PICK q : q = [pc |-> "create", guest |-> g, event |-> e]
  OBVIOUS
<1>2. /\ reviewing[r] = ReviewIdle /\ OfGuest(g, e) = {}
      /\ reviewing' = [reviewing EXCEPT ![r] = q]
      /\ UNCHANGED <<reviews, average, replyed, overtaken>>
  BY <1>1 DEF StartReview, alreadyReviewed
<1>3. /\ q \in ReviewStates \cup {ReviewIdle} /\ q.pc = "create"
      /\ q.guest = g /\ q.event = e
  BY <1>1 DEF ReviewStates
<1>4. /\ crossed \subseteq crossed' /\ crossed' \subseteq crossed \cup {<<g, e>>}
      /\ \A s \in ReviewRequests : reviewing[s].pc = "create" /\ reviewing[s].guest = g
                                   /\ reviewing[s].event = e => <<g, e>> \in crossed'
  BY DEF StartReview
<1>5. /\ \A h, f : OfGuest(h, f)' = OfGuest(h, f)
      /\ Written' = Written
  BY <1>2 DEF OfGuest, OfEvent, Written
<1>6. ReviewsTypeOK'
  BY <1>2, <1>3, <1>4, <1>5, ReviewMoves DEF ReviewsInv, ReviewsTypeOK
<1>7. RatingInv' /\ AveragesInv'
  BY <1>2, <1>3, ReviewKinds, RatingKeep
<1>8. RepliedInv'
  BY <1>2, <1>3, RepliersKeep
<1>9. GuestsInv'
  BY <1>4, <1>5 DEF ReviewsInv, GuestsInv
<1>10. CrossedInv'
  <2>1. ASSUME NEW s \in ReviewRequests, reviewing'[s].pc = "create",
               OfGuest(reviewing'[s].guest, reviewing'[s].event) # {}
        PROVE  <<reviewing'[s].guest, reviewing'[s].event>> \in crossed'
    <3>1. s # r
      BY <1>2, <1>3, <2>1, ReviewMoves
    <3>2. reviewing'[s] = reviewing[s]
      BY <1>2, <1>3, <3>1, ReviewMoves
    <3> QED BY <1>4, <2>1, <3>2 DEF ReviewsInv, CrossedInv
  <2>2. ASSUME NEW s \in ReviewRequests, reviewing'[s].pc = "create",
               NEW t \in ReviewRequests \ {s}, reviewing'[t].pc = "create",
               reviewing'[t].guest = reviewing'[s].guest,
               reviewing'[t].event = reviewing'[s].event
        PROVE  <<reviewing'[s].guest, reviewing'[s].event>> \in crossed'
    <3>1. reviewing'[r] = q /\ \A u \in ReviewRequests : u # r => reviewing'[u] = reviewing[u]
      BY <1>2, <1>3, ReviewMoves
    <3>2. CASE s # r /\ t # r
      BY <1>4, <2>2, <3>1, <3>2 DEF ReviewsInv, CrossedInv
    <3>3. CASE s = r \/ t = r
      BY <1>3, <1>4, <2>2, <3>1, <3>3
    <3> QED BY <3>2, <3>3
  <2> QED BY <1>5, <2>1, <2>2 DEF CrossedInv
<1> QED BY <1>5, <1>6, <1>7, <1>8, <1>9, <1>10 DEF ReviewsInv

\* The review that comes is one of its guest and event, and the newest.
LEMMA ReviewComes ==
    ASSUME ReviewsInv, NEW r \in ReviewRequests, CreateReview(r)
    PROVE  ReviewsInv'
<1>1. PICK x : x = reviewing[r]
  OBVIOUS
<1>2. PICK q : q = [x EXCEPT !.pc = "average"]
  OBVIOUS
<1>3. PICK n : n = Cardinality(Written)
  OBVIOUS
<1>4. PICK k : k = n + 1
  OBVIOUS
<1>5. PICK new : new = [guest |-> x.guest, event |-> x.event]
  OBVIOUS
<1>6. /\ x.pc = "create" /\ n < MaxReviews
      /\ reviews' = [j \in Written \cup {k} |-> IF j = k THEN new ELSE reviews[j]]
      /\ reviewing' = [reviewing EXCEPT ![r] = q]
      /\ UNCHANGED <<average, replyed, crossed, overtaken>>
  BY <1>1, <1>2, <1>3, <1>4, <1>5 DEF CreateReview
<1>7. /\ q \in ReviewStates \cup {ReviewIdle} /\ q.pc = "average" /\ q.event = x.event
      /\ x.guest \in Reviewers /\ x.event \in ReviewEvents
  BY <1>1, <1>2, <1>6, ReviewTyped, ReviewKinds
<1>8. /\ n \in Nat /\ MaxReviews \in Nat /\ Written = 1..n /\ IsFiniteSet(Written)
      /\ k \notin Written /\ k \in Nat /\ k \in 1..MaxReviews
  BY <1>3, <1>4, <1>6, NumbersOfReviews
<1>9. Written' = Written \cup {k} /\ Written' = 1..k
  BY <1>4, <1>6, <1>8 DEF Written
<1>10. Cardinality(Written') = k /\ k \in 0..MaxReviews /\ k <= MaxReviews
  <2>1. IsFiniteSet(1..k) /\ Cardinality(1..k) = k
    BY <1>8, FS_Interval
  <2>2. Cardinality(Written') = k
    BY <1>9, <2>1, Zenon
  <2>3. k \in 0..MaxReviews /\ k <= MaxReviews
    BY <1>8
  <2> QED BY <2>2, <2>3
<1>11. reviews'[k] = new /\ \A j \in Written : reviews'[j] = reviews[j]
  BY <1>6, <1>8
<1>12. new \in Review /\ new.guest = x.guest /\ new.event = x.event
  BY <1>5, <1>7 DEF Review
<1>13. ASSUME NEW g, NEW e, <<g, e>> # <<x.guest, x.event>>
       PROVE  OfGuest(g, e)' = OfGuest(g, e)
  BY <1>9, <1>11, <1>12, <1>13 DEF OfGuest, OfEvent
<1>14. OfGuest(x.guest, x.event)' = OfGuest(x.guest, x.event) \cup {k}
  BY <1>9, <1>11, <1>12 DEF OfGuest, OfEvent
<1>15. ReviewsTypeOK'
  <2>1. \A j \in Written' : reviews'[j] \in Review
    BY <1>9, <1>11, <1>12 DEF ReviewsInv, ReviewsTypeOK
  <2>2. Written' = 1..Cardinality(Written') /\ Cardinality(Written') <= MaxReviews
    BY <1>9, <1>10
  <2> QED BY <1>6, <1>7, <1>9, <2>1, <2>2, ReviewMoves DEF ReviewsInv, ReviewsTypeOK
<1>16. AveragesInv'
  BY <1>6, <1>7, <1>9, ReviewMoves DEF ReviewsInv, AveragesInv
<1>17. RepliedInv'
  BY <1>6, <1>7, RepliersKeep
<1>18. GuestsInv'
  <2>1. ASSUME NEW g \in Reviewers, NEW e \in ReviewEvents,
               Cardinality(OfGuest(g, e)') > 1
        PROVE  <<g, e>> \in crossed'
    <3>1. CASE <<g, e>> = <<x.guest, x.event>> /\ OfGuest(g, e) = {}
      <4>1. OfGuest(g, e)' = {k}
        BY <1>14, <3>1
      <4>2. Cardinality({k}) = 1
        BY FS_Singleton
      <4> QED BY <2>1, <4>1, <4>2
    <3>2. CASE <<g, e>> = <<x.guest, x.event>> /\ OfGuest(g, e) # {}
      BY <1>1, <1>6, <3>2 DEF ReviewsInv, CrossedInv
    <3>3. CASE <<g, e>> # <<x.guest, x.event>>
      BY <1>6, <1>13, <2>1, <3>3 DEF ReviewsInv, GuestsInv
    <3> QED BY <3>1, <3>2, <3>3
  <2> QED BY <2>1 DEF GuestsInv
<1>19. CrossedInv'
  <2>1. ASSUME NEW s \in ReviewRequests, reviewing'[s].pc = "create"
        PROVE  s # r /\ reviewing'[s] = reviewing[s]
    BY <1>6, <1>7, <2>1, ReviewMoves
  <2>2. ASSUME NEW s \in ReviewRequests, reviewing'[s].pc = "create",
               OfGuest(reviewing[s].guest, reviewing[s].event)' # {}
        PROVE  <<reviewing'[s].guest, reviewing'[s].event>> \in crossed'
    <3>1. PICK g, e : g = reviewing[s].guest /\ e = reviewing[s].event
      OBVIOUS
    <3>2. /\ reviewing[s].pc = "create" /\ s # r
          /\ g = reviewing'[s].guest /\ e = reviewing'[s].event
      BY <2>1, <2>2, <3>1
    <3>3. CASE <<g, e>> = <<x.guest, x.event>>
      BY <1>1, <1>6, <3>1, <3>2, <3>3 DEF ReviewsInv, CrossedInv
    <3>4. CASE <<g, e>> # <<x.guest, x.event>>
      <4>1. OfGuest(g, e)' = OfGuest(reviewing[s].guest, reviewing[s].event)'
        BY <3>2
      <4>2. OfGuest(g, e)' = OfGuest(g, e)
        BY <1>13, <3>4
      <4>3. OfGuest(g, e) # {}
        BY <2>2, <4>1, <4>2
      <4> QED BY <1>6, <3>1, <3>2, <4>3 DEF ReviewsInv, CrossedInv
    <3> QED BY <3>3, <3>4
  <2>3. ASSUME NEW s \in ReviewRequests, reviewing'[s].pc = "create",
               NEW t \in ReviewRequests \ {s}, reviewing'[t].pc = "create",
               reviewing'[t].guest = reviewing'[s].guest,
               reviewing'[t].event = reviewing'[s].event
        PROVE  <<reviewing'[s].guest, reviewing'[s].event>> \in crossed'
    BY <1>6, <2>1, <2>3 DEF ReviewsInv, CrossedInv
  <2> QED BY <2>2, <2>3 DEF CrossedInv
<1>20. RatingInv'
  <2>1. LastEvent' = x.event
    BY <1>10, <1>11, <1>12 DEF LastEvent
  <2>2. CASE overtaken
    BY <1>6, <2>2 DEF RatingInv
  <2>3. Adding(r)'
    BY <1>6, <1>7, ReviewMoves DEF Adding
  <2>4. ASSUME NEW s \in ReviewRequests,
               \A t \in ReviewRequests \ {s} : ~Adding(t)'
        PROVE  reviewing'[s].event = LastEvent'
    <3>1. s = r
      BY <2>3, <2>4
    <3> QED BY <1>6, <1>7, <2>1, <3>1, ReviewMoves
  <2> QED BY <2>3, <2>4 DEF RatingInv, Adding
<1> QED BY <1>10, <1>15, <1>16, <1>17, <1>18, <1>19, <1>20 DEF ReviewsInv

\* The average that is written is of the event reviewed last, or two were
\* under way.
LEMMA AverageIsRead ==
    ASSUME ReviewsInv, NEW r \in ReviewRequests, ReadReviews(r)
    PROVE  ReviewsInv'
<1>1. PICK e : e = reviewing[r].event
  OBVIOUS
<1>2. PICK q : q = [pc |-> "write", of |-> OfEvent(e)]
  OBVIOUS
<1>3. /\ reviewing[r].pc = "average" /\ reviewing' = [reviewing EXCEPT ![r] = q]
      /\ UNCHANGED <<reviews, average, replyed, crossed>>
  BY <1>1, <1>2 DEF ReadReviews, Averaged
<1>4. \/ overtaken' = TRUE
      \/ /\ overtaken' = FALSE /\ ~overtaken
         /\ \A s \in ReviewRequests \ {r} : reviewing[s].pc \notin {"average", "write"}
  BY DEF ReadReviews, ReviewsInv, ReviewsTypeOK
<1>5. /\ Written' = Written /\ LastEvent' = LastEvent
      /\ OfEvent(LastEvent)' = OfEvent(LastEvent)
      /\ OfEvent(e) \subseteq Written
  BY <1>3 DEF Written, OfEvent, LastEvent
<1>6. q \in ReviewStates /\ q.pc = "write" /\ q.of = OfEvent(e)
  BY <1>2, <1>5, NumbersOfReviews DEF ReviewStates
<1>7. /\ reviewing' \in [ReviewRequests -> ReviewStates \cup {ReviewIdle}]
      /\ reviewing'[r] = q
      /\ \A s \in ReviewRequests : s # r => reviewing'[s] = reviewing[s]
  BY <1>3, <1>6, ReviewMoves
<1>8. ReviewsTypeOK' /\ Cardinality(Written)' \in 0..MaxReviews
  BY <1>3, <1>4, <1>5, <1>7 DEF ReviewsInv, ReviewsTypeOK
<1>9. AveragesInv'
  BY <1>5, <1>6, <1>7 DEF ReviewsInv, AveragesInv
<1>10. RepliedInv' /\ CrossedInv' /\ GuestsInv'
  BY <1>3, <1>6, RepliersKeep, CrossedKeep
<1>11. RatingInv'
  <2>1. CASE overtaken'
    BY <2>1 DEF RatingInv
  <2>2. CASE ~overtaken'
    <3>1. /\ ~overtaken
          /\ \A s \in ReviewRequests \ {r} : reviewing[s].pc \notin {"average", "write"}
      BY <1>4, <2>2
    <3>2. e = LastEvent
      BY <1>1, <1>3, <3>1 DEF ReviewsInv, RatingInv, Adding
    <3>3. \A s \in ReviewRequests :
            /\ ~Adding(s)'
            /\ reviewing'[s].pc = "write" => reviewing'[s].of = OfEvent(LastEvent)
      BY <1>6, <1>7, <3>1, <3>2 DEF Adding
    <3>4. reviewing'[r].pc = "write"
      BY <1>6, <1>7
    <3>5. \A s \in ReviewRequests :
            reviewing'[s].pc = "write" => reviewing'[s].of = OfEvent(LastEvent)'
      BY <1>5, <3>3
    <3> QED BY <3>3, <3>4, <3>5 DEF RatingInv
  <2> QED BY <2>1, <2>2
<1> QED BY <1>8, <1>9, <1>10, <1>11 DEF ReviewsInv

\* What is written with nobody about to read is right.
LEMMA AverageIsWritten ==
    ASSUME ReviewsInv, NEW r \in ReviewRequests, WriteAverage(r)
    PROVE  ReviewsInv'
<1>1. /\ reviewing[r].pc = "write" /\ average' = reviewing[r].of
      /\ reviewing' = [reviewing EXCEPT ![r] = ReviewIdle]
      /\ UNCHANGED <<reviews, replyed, crossed, overtaken>>
  BY DEF WriteAverage, ReviewEnds
<1>2. /\ Written' = Written /\ LastEvent' = LastEvent
      /\ OfEvent(LastEvent)' = OfEvent(LastEvent)
  BY <1>1 DEF Written, OfEvent, LastEvent
<1>3. ReviewIdle.pc = "idle" /\ ReviewIdle \in ReviewStates \cup {ReviewIdle}
  BY ReviewKinds
<1>4. /\ reviewing' \in [ReviewRequests -> ReviewStates \cup {ReviewIdle}]
      /\ reviewing'[r] = ReviewIdle
      /\ \A s \in ReviewRequests : s # r => reviewing'[s] = reviewing[s]
  BY <1>1, <1>3, ReviewMoves
<1>5. average' \subseteq Written
  BY <1>1 DEF ReviewsInv, AveragesInv
<1>6. ReviewsTypeOK' /\ Cardinality(Written)' \in 0..MaxReviews
  BY <1>1, <1>2, <1>4, <1>5 DEF ReviewsInv, ReviewsTypeOK
<1>7. AveragesInv'
  BY <1>2, <1>3, <1>4 DEF ReviewsInv, AveragesInv
<1>8. RepliedInv' /\ CrossedInv' /\ GuestsInv'
  BY <1>1, <1>3, RepliersKeep, CrossedKeep
<1>9. RatingInv'
  <2>1. CASE overtaken
    BY <1>1, <2>1 DEF RatingInv
  <2>2. CASE ~overtaken
    <3>1. \A s \in ReviewRequests : Adding(s)' <=> Adding(s)
      BY <1>1, <1>3, <1>4 DEF Adding
    <3>2. ASSUME NEW s \in ReviewRequests, Adding(s)',
                 \A t \in ReviewRequests \ {s} : ~Adding(t)'
          PROVE  reviewing'[s].event = LastEvent'
      <4>1. reviewing'[s] = reviewing[s]
        BY <1>3, <1>4, <3>2 DEF Adding
      <4> QED BY <1>2, <2>2, <3>1, <3>2, <4>1 DEF ReviewsInv, RatingInv
    <3>3. ASSUME \A s \in ReviewRequests : ~Adding(s)',
                 NEW s \in ReviewRequests, reviewing'[s].pc = "write"
          PROVE  reviewing'[s].of = OfEvent(LastEvent)'
      <4>1. reviewing'[s] = reviewing[s]
        BY <1>3, <1>4, <3>3
      <4>2. reviewing[s].of = OfEvent(LastEvent)
        BY <2>2, <3>1, <3>3, <4>1 DEF ReviewsInv, RatingInv
      <4> QED BY <1>2, <4>1, <4>2
    <3>4. ASSUME \A s \in ReviewRequests : reviewing'[s].pc \notin {"average", "write"}
          PROVE  average' = OfEvent(LastEvent)'
      <4>1. \A s \in ReviewRequests : ~Adding(s)
        BY <3>1, <3>4 DEF Adding
      <4>2. reviewing[r].of = OfEvent(LastEvent)
        BY <1>1, <2>2, <4>1 DEF ReviewsInv, RatingInv
      <4> QED BY <1>1, <1>2, <4>2
    <3> QED BY <3>2, <3>3, <3>4 DEF RatingInv
  <2> QED BY <2>1, <2>2
<1> QED BY <1>6, <1>7, <1>8, <1>9 DEF ReviewsInv

\* However many look at once, each is a request.
LEMMA ReplyStarts ==
    ASSUME ReviewsInv, NEW r \in ReviewRequests, NEW n \in 1..MaxReviews,
           StartReply(r, n)
    PROVE  ReviewsInv'
<1>1. PICK q : q = [pc |-> "reply", review |-> n]
  OBVIOUS
<1>2. /\ reviewing[r] = ReviewIdle /\ replyed[n] = 0
      /\ reviewing' = [reviewing EXCEPT ![r] = q]
      /\ UNCHANGED <<reviews, average, replyed, crossed, overtaken>>
  BY <1>1 DEF StartReply
<1>3. q \in ReviewStates \cup {ReviewIdle} /\ q.pc = "reply" /\ q.review = n
  BY <1>1 DEF ReviewStates
<1>4. Written' = Written
  BY <1>2 DEF Written
<1>5. /\ reviewing' \in [ReviewRequests -> ReviewStates \cup {ReviewIdle}]
      /\ reviewing'[r] = q
      /\ \A s \in ReviewRequests : s # r => reviewing'[s] = reviewing[s]
  BY <1>2, <1>3, ReviewMoves
<1>6. ReviewsTypeOK' /\ Cardinality(Written)' \in 0..MaxReviews
  BY <1>2, <1>4, <1>5 DEF ReviewsInv, ReviewsTypeOK
<1>7. RatingInv' /\ AveragesInv' /\ CrossedInv' /\ GuestsInv'
  BY <1>2, <1>3, ReviewKinds, RatingKeep, CrossedKeep
<1>8. ASSUME NEW i \in 1..MaxReviews
      PROVE  replyed'[i] + Cardinality(Repliers(i)') <= Cardinality(ReviewRequests)
  <2>1. Repliers(i)' \subseteq ReviewRequests
    BY DEF Repliers
  <2>2. CASE i = n
    <3>1. /\ Cardinality(Repliers(i)') \in Nat /\ Cardinality(ReviewRequests) \in Nat
          /\ Cardinality(Repliers(i)') <= Cardinality(ReviewRequests)
      BY <2>1, FS_Subset, FS_CardinalityType, ReviewsAssumption
    <3> QED BY <1>2, <2>2, <3>1
  <2>3. CASE i # n
    <3>1. Repliers(i)' = Repliers(i)
      BY <1>2, <1>3, <1>5, <2>3, ReviewKinds DEF Repliers
    <3> QED BY <1>2, <3>1 DEF ReviewsInv, RepliedInv
  <2> QED BY <2>2, <2>3
<1> QED BY <1>6, <1>7, <1>8 DEF ReviewsInv, RepliedInv

LEMMA ReplyKeeps ==
    ASSUME ReviewsInv, NEW r \in ReviewRequests, reply(r)
    PROVE  ReviewsInv'
<1>1. PICK n : n = reviewing[r].review
  OBVIOUS
<1>2. /\ reviewing[r].pc = "reply"
      /\ replyed' = [replyed EXCEPT ![n] = replyed[n] + 1]
      /\ reviewing' = [reviewing EXCEPT ![r] = ReviewIdle]
      /\ UNCHANGED <<reviews, average, crossed, overtaken>>
  BY <1>1 DEF reply, ReviewEnds
<1>3. n \in 1..MaxReviews
  BY <1>1, <1>2, ReviewTyped, ReviewKinds
<1>4. ReviewIdle.pc = "idle" /\ ReviewIdle \in ReviewStates \cup {ReviewIdle}
  BY ReviewKinds
<1>5. /\ reviewing' \in [ReviewRequests -> ReviewStates \cup {ReviewIdle}]
      /\ reviewing'[r] = ReviewIdle
      /\ \A s \in ReviewRequests : s # r => reviewing'[s] = reviewing[s]
  BY <1>2, <1>4, ReviewMoves
<1>6. Written' = Written /\ replyed \in [1..MaxReviews -> Nat]
  BY <1>2 DEF Written, ReviewsInv, ReviewsTypeOK
<1>7. replyed' \in [1..MaxReviews -> Nat]
  BY <1>2, <1>3, <1>6
<1>8. ReviewsTypeOK' /\ Cardinality(Written)' \in 0..MaxReviews
  BY <1>2, <1>5, <1>6, <1>7 DEF ReviewsInv, ReviewsTypeOK
<1>9. RatingInv' /\ AveragesInv' /\ CrossedInv' /\ GuestsInv'
  BY <1>2, <1>4, RatingKeep, CrossedKeep
<1>10. ASSUME NEW i \in 1..MaxReviews
       PROVE  replyed'[i] + Cardinality(Repliers(i)') <= Cardinality(ReviewRequests)
  <2>1. replyed[i] + Cardinality(Repliers(i)) <= Cardinality(ReviewRequests)
    BY DEF ReviewsInv, RepliedInv
  <2>2. Repliers(i)' = Repliers(i) \ {r}
    BY <1>4, <1>5 DEF Repliers
  <2>3. /\ Cardinality(Repliers(i)) \in Nat /\ IsFiniteSet(Repliers(i))
        /\ Cardinality(ReviewRequests) \in Nat
    BY RepliersAreFinite
  <2>4. CASE i = n
    <3>1. r \in Repliers(i)
      BY <1>1, <1>2, <2>4 DEF Repliers
    <3>2. Cardinality(Repliers(i)') = Cardinality(Repliers(i)) - 1
      BY <2>2, <2>3, <3>1, FS_RemoveElement
    <3>3. replyed'[i] = replyed[i] + 1 /\ replyed[i] \in Nat
      BY <1>2, <1>6, <2>4
    <3> QED BY <2>1, <2>3, <3>2, <3>3
  <2>5. CASE i # n
    <3>1. r \notin Repliers(i)
      BY <1>1, <2>5 DEF Repliers
    <3>2. Repliers(i)' = Repliers(i) /\ replyed'[i] = replyed[i]
      BY <1>2, <1>6, <2>2, <2>5, <3>1
    <3> QED BY <2>1, <3>2
  <2> QED BY <2>4, <2>5
<1> QED BY <1>8, <1>9, <1>10 DEF ReviewsInv, RepliedInv

LEMMA ReviewDeath ==
    ASSUME ReviewsInv, NEW r \in ReviewRequests, ReviewDies(r)
    PROVE  ReviewsInv'
<1>1. /\ reviewing' = [reviewing EXCEPT ![r] = ReviewIdle]
      /\ overtaken' = (overtaken \/ reviewing[r].pc \in {"average", "write"})
      /\ UNCHANGED <<reviews, average, replyed, crossed>>
  BY DEF ReviewDies, ReviewEnds
<1>2. ReviewIdle.pc = "idle" /\ ReviewIdle \in ReviewStates \cup {ReviewIdle}
  BY ReviewKinds
<1>3. /\ reviewing' \in [ReviewRequests -> ReviewStates \cup {ReviewIdle}]
      /\ reviewing'[r] = ReviewIdle
      /\ \A s \in ReviewRequests : s # r => reviewing'[s] = reviewing[s]
  BY <1>1, <1>2, ReviewMoves
<1>4. Written' = Written /\ overtaken \in BOOLEAN /\ overtaken' \in BOOLEAN
  BY <1>1 DEF Written, ReviewsInv, ReviewsTypeOK
<1>5. ReviewsTypeOK' /\ Cardinality(Written)' \in 0..MaxReviews
  BY <1>1, <1>3, <1>4 DEF ReviewsInv, ReviewsTypeOK
<1>6. RepliedInv' /\ CrossedInv' /\ GuestsInv'
  BY <1>1, <1>2, RepliersKeep, CrossedKeep
<1>7. AveragesInv'
  BY <1>2, <1>3, <1>4 DEF ReviewsInv, AveragesInv
<1>8. CASE reviewing[r].pc \in {"average", "write"}
  BY <1>1, <1>5, <1>6, <1>7, <1>8 DEF ReviewsInv, RatingInv
<1>9. CASE reviewing[r].pc \notin {"average", "write"}
  <2>1. overtaken' = overtaken
    BY <1>1, <1>4, <1>9
  <2>2. RatingInv'
    BY <1>1, <1>2, <1>9, <2>1, RatingKeep
  <2> QED BY <1>5, <1>6, <1>7, <2>2 DEF ReviewsInv
<1> QED BY <1>8, <1>9

LEMMA ReviewsInvInit == ReviewsInit => ReviewsInv
<1> SUFFICES ASSUME ReviewsInit PROVE ReviewsInv
  OBVIOUS
<1>1. /\ reviews = [i \in {} |-> 0] /\ average = {} /\ crossed = {}
      /\ replyed = [i \in 1..MaxReviews |-> 0] /\ overtaken = FALSE
      /\ reviewing = [r \in ReviewRequests |-> ReviewIdle]
  BY DEF ReviewsInit
<1>2. Written = {}
  BY <1>1 DEF Written
<1>3. MaxReviews \in Nat /\ Cardinality(Written) = 0 /\ 1..0 = {}
  BY <1>2, FS_EmptySet, ReviewsAssumption
<1>4. \A g, e : OfGuest(g, e) = {} /\ OfEvent(e) = {}
  BY <1>2 DEF OfGuest, OfEvent
<1>5. \A r \in ReviewRequests : reviewing[r].pc = "idle"
  BY <1>1, ReviewKinds
<1>6. ReviewsTypeOK /\ Cardinality(Written) \in 0..MaxReviews
  <2>1. Written = 1..Cardinality(Written) /\ Cardinality(Written) <= MaxReviews
    BY <1>2, <1>3
  <2>2. Cardinality(Written) \in 0..MaxReviews
    BY <1>3
  <2>3. replyed \in [1..MaxReviews -> Nat]
    BY <1>1
  <2>4. reviewing \in [ReviewRequests -> ReviewStates \cup {ReviewIdle}]
    BY <1>1
  <2> QED BY <1>1, <1>2, <2>1, <2>2, <2>3, <2>4 DEF ReviewsTypeOK
<1>7. AveragesInv /\ CrossedInv
  BY <1>5 DEF AveragesInv, CrossedInv
<1>8. GuestsInv
  <2>1. \A g, e : Cardinality(OfGuest(g, e)) = 0
    BY <1>4, FS_EmptySet
  <2> QED BY <2>1 DEF GuestsInv
<1>9. RepliedInv
  <2>1. \A i \in 1..MaxReviews : replyed[i] = 0
    BY <1>1
  <2> QED BY <2>1, RepliersAreFinite DEF RepliedInv
<1>10. RatingInv
  BY <1>2, <1>5 DEF RatingInv, Adding
<1> QED BY <1>6, <1>7, <1>8, <1>9, <1>10 DEF ReviewsInv

LEMMA ReviewsInvNext == ReviewsInv /\ [ReviewsNext]_reviewVars => ReviewsInv'
<1>1. ASSUME ReviewsInv, UNCHANGED reviewVars
      PROVE  ReviewsInv'
  <2>1. UNCHANGED <<reviews, average, replyed, reviewing, crossed, overtaken>>
    BY <1>1 DEF reviewVars
  <2>2. /\ Written' = Written /\ LastEvent' = LastEvent
        /\ \A g, e : OfGuest(g, e)' = OfGuest(g, e)
        /\ OfEvent(LastEvent)' = OfEvent(LastEvent)
        /\ \A i : Repliers(i)' = Repliers(i)
        /\ \A r : Adding(r)' <=> Adding(r)
    BY <2>1 DEF Written, LastEvent, OfGuest, OfEvent, Repliers, Adding
  <2>3. ReviewsTypeOK' /\ AveragesInv' /\ GuestsInv' /\ RepliedInv'
    BY <1>1, <2>1, <2>2 DEF ReviewsInv, ReviewsTypeOK, AveragesInv, GuestsInv, RepliedInv
  <2>4. CrossedInv'
    BY <1>1, <2>1, <2>2 DEF ReviewsInv, CrossedInv
  <2>5. RatingInv'
    BY <1>1, <2>1, <2>2 DEF ReviewsInv, RatingInv
  <2> QED BY <1>1, <2>2, <2>3, <2>4, <2>5 DEF ReviewsInv
<1>2. ASSUME ReviewsInv, NEW r \in ReviewRequests, NEW g \in Reviewers,
             NEW e \in ReviewEvents, StartReview(r, g, e)
      PROVE  ReviewsInv'
  BY <1>2, ReviewStarts
<1>3. ASSUME ReviewsInv, NEW r \in ReviewRequests, NEW i \in 1..MaxReviews,
             StartReply(r, i)
      PROVE  ReviewsInv'
  BY <1>3, ReplyStarts
<1>4. ASSUME ReviewsInv, NEW r \in ReviewRequests,
             CreateReview(r) \/ ReadReviews(r) \/ WriteAverage(r)
      PROVE  ReviewsInv'
  BY <1>4, ReviewComes, AverageIsRead, AverageIsWritten
<1>5. ASSUME ReviewsInv, NEW r \in ReviewRequests, reply(r) \/ ReviewDies(r)
      PROVE  ReviewsInv'
  BY <1>5, ReplyKeeps, ReviewDeath
<1> QED BY <1>1, <1>2, <1>3, <1>4, <1>5, Zenon DEF ReviewsNext

LEMMA ReviewsInvariant == ReviewsSpec => []ReviewsInv
  BY ReviewsInvInit, ReviewsInvNext, PTL DEF ReviewsSpec

\* Reviews, the rating and the requests on them have their types, for any
\* number of events, guests and requests.
THEOREM ReviewsTypeCorrect == ReviewsSpec => []ReviewsTypeOK
<1>1. ReviewsInv => ReviewsTypeOK
  BY DEF ReviewsInv
<1> QED BY <1>1, ReviewsInvariant, PTL

\* review.service: a guest's second review of an event comes only from two
\* requests at once, and the seller's rating is the average of the event
\* reviewed last unless averages overlapped or one was given up.
THEOREM ReviewsHeld == ReviewsSpec => []ReviewsHold
<1>1. ReviewsInv => ReviewsHold
  <2> SUFFICES ASSUME ReviewsInv PROVE ReviewsHold
    OBVIOUS
  <2>1. ASSUME NEW i \in Written
        PROVE  replyed[i] <= Cardinality(ReviewRequests)
    <3>1. i \in 1..MaxReviews
      BY NumbersOfReviews
    <3>2. replyed[i] \in Nat
      BY <3>1 DEF ReviewsInv, ReviewsTypeOK
    <3>3. replyed[i] + Cardinality(Repliers(i)) <= Cardinality(ReviewRequests)
      BY <3>1 DEF ReviewsInv, RepliedInv
    <3> QED BY <3>2, <3>3, RepliersAreFinite
  <2>2. OneReviewPerGuest
    BY <2>1 DEF ReviewsInv, GuestsInv, OneReviewPerGuest
  <2>3. RatingIsOfLastEvent
    BY DEF ReviewsInv, RatingInv, LastEvent, Averaging, RatingIsOfLastEvent
  <2> QED BY <2>2, <2>3 DEF ReviewsHold
<1> QED BY <1>1, ReviewsInvariant, PTL
=============================================================================
