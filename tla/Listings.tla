------------------------------ MODULE Listings ------------------------------
(***************************************************************************)
(* The lists the API hands out page by page.  Every service has some, and  *)
(* they differ in how a page is found: by its number, by the id of the     *)
(* last row of the page before (a cursor), or by that row's sort key.  A   *)
(* client follows one list to its end while rows are inserted and removed. *)
(*                                                                         *)
(* Each list of the code is a definition here: whose rows it shows and the *)
(* ways its pages can be followed.  Filters other than the owner, and the  *)
(* columns, do not change how pages fit together and are left out.  A page *)
(* and its count are one read.                                             *)
(***************************************************************************)
EXTENDS FiniteSets, Integers, Sequences, SequencesExt

CONSTANTS
    OldRows,   \* rows that are there when the client starts
    MaxRows,   \* bound: rows ever inserted, ids 1..MaxRows, newest largest
    Limits     \* page sizes

ASSUME ListingsAssumption ==
    /\ OldRows \in Nat /\ MaxRows \in Nat \ {0} /\ OldRows <= MaxRows
    /\ Limits \subseteq Nat \ {0}

-----------------------------------------------------------------------------
(* Ways of following a list.  by: what finds the page.  extra: rows read
   and handed out beyond the limit.  ends: what tells the client that it has
   the last page. *)

Way == [by : {"page", "after", "from", "key", "skip one"}, extra : 0..1,
        ends : {"total", "page total", "full", "more", "empty"}]

Offset == [by |-> "page", extra |-> 0, ends |-> "total"]
After == [by |-> "after", extra |-> 0, ends |-> "empty"]
From == [by |-> "from", extra |-> 0, ends |-> "full"]
FromToEmpty == [by |-> "from", extra |-> 0, ends |-> "empty"]

List(owner, ways) == [of : {owner}, way : ways]

(* By number, of all rows: booking.service and users.service for admins,
   reviews, content, categories, reports, points, money. *)
findAllUsers == List("all", {Offset})
getAllSubmittedVerification == List("all", {Offset})
findAllBookings == List("all", {Offset})
adminGetAllBookings == List("all", {Offset})
getAdminWithdrawalRequests == List("all", {Offset})
getTransactions == List("all", {Offset})
getAllTransactions == List("all", {Offset})
getAdminBalance == List("all", {Offset})
getRewardPoints == List("all", {Offset})
findByAdmin == List("all", {Offset})
listActivity == List("all", {Offset})
getAllFeedback == List("all", {Offset})
listTestimonials == List("all", {Offset})
listAll == List("all", {Offset})
findAllReviews == List("all", {Offset})
getAllAdminBlogs == List("all", {Offset})
getAllEventsAdmin == List("all", {Offset})

(* By number, of the rows of one owner: a guest, a host, an event. *)
findByGuest == List("own", {Offset})
findByHost == List("own", {Offset})
getHostTransactions == List("own", {Offset})
getUserPayments == List("own", {Offset})
getSellerPayouts == List("own", {Offset})
listMine == List("own", {Offset})
findAllByExperience == List("own", {Offset})
findAllByHost == List("own", {Offset})
findAllByEvent == List("own", {Offset})
findAllPending == List("own", {Offset})

(* A seller's lists that are not filtered by the seller. *)
getSellerListing == List("all", {Offset})
getEventsSeller == List("all", {Offset})

(* The total is the length of the page at hand. *)
getAdminCollections ==
    List("all", {[by |-> "page", extra |-> 0, ends |-> "page total"]})

(* One row more than the limit is read, and handed out. *)
findAllHelp == List("all", {[by |-> "page", extra |-> 1, ends |-> "total"]})

(* By a cursor, which is skipped; the row beyond the limit only tells that
   there is more. *)
getByUser == List("own", {After})
getSingleRoom == List("own", {After})
findHostAppBookings == List("all", {After})
findAllAdmin == List("all", {[by |-> "after", extra |-> 0, ends |-> "more"]})

(* By number or by a cursor, which is not skipped. *)
getAllEventsPublic == List("all", {Offset, From})
getEventsListing == List("all", {Offset, From})
getticketsByEventId == List("own", {Offset, From})
getEventsBySeller == List("own", {Offset, From})
findAllWishlist == List("own", {Offset, FromToEmpty})
findAllApp == List("own", {FromToEmpty})

(* A cursor makes it skip one row, wherever the cursor stands. *)
getSidebar ==
    List("own", {[by |-> "skip one", extra |-> 0, ends |-> "empty"]})

(* By number or by the sort key of the last row, the id breaking ties. *)
getPublicBlogs ==
    List("all", {Offset, [by |-> "key", extra |-> 0, ends |-> "full"]})

AllLists ==
    UNION {findAllUsers, getAllSubmittedVerification, findAllBookings,
           adminGetAllBookings, getAdminWithdrawalRequests, getTransactions,
           getAllTransactions, getAdminBalance, getRewardPoints, findByAdmin,
           listActivity, getAllFeedback, listTestimonials, listAll,
           findAllReviews, getAllAdminBlogs, getAllEventsAdmin, findByGuest,
           findByHost, getHostTransactions, getUserPayments, getSellerPayouts,
           listMine, findAllByExperience, findAllByHost, findAllByEvent,
           findAllPending, getSellerListing, getEventsSeller,
           getAdminCollections, findAllHelp, getByUser, getSingleRoom,
           findHostAppBookings, findAllAdmin, getAllEventsPublic,
           getEventsListing, getticketsByEventId, getEventsBySeller,
           findAllWishlist, findAllApp, getSidebar, getPublicBlogs}

-----------------------------------------------------------------------------
VARIABLES
    following,   \* the list the client follows: whose rows, and which way
    limit,       \* the client's page size
    tied,        \* the old rows have one sort key
    rows,        \* ids of the rows there are
    foreign,     \* those of them that are another owner's
    made,        \* rows inserted so far, the old ones included
    reader,      \* the client: next page number, cursor, done or not
    seen,        \* rows it was given
    again,       \* rows it was given again, its own cursor excepted
    moved        \* what happened to the list meanwhile

listVars == <<following, limit, tied, rows, foreign, made, reader, seen,
              again, moved>>

NoCursor == 0
Shown == IF following.of = "all" THEN rows ELSE rows \ foreign

ListingsTypeOK ==
    /\ following \in [of : {"own", "all"}, way : Way]
    /\ limit \in Limits /\ tied \in BOOLEAN
    /\ made \in OldRows..MaxRows
    /\ rows \subseteq 1..made /\ foreign \subseteq 1..made
    /\ reader \in [done : BOOLEAN, page : 1..(MaxRows + 1),
                   cursor : NoCursor..MaxRows]
    /\ seen \subseteq 1..made /\ again \subseteq seen
    /\ moved \in [inserted : BOOLEAN, removed : BOOLEAN, lost : BOOLEAN]

ListingsInit ==
    /\ following \in AllLists /\ limit \in Limits /\ tied \in BOOLEAN
    /\ made = OldRows /\ rows = 1..OldRows
    /\ foreign \in {{}, {1} \cap rows}
    /\ reader = [done |-> FALSE, page |-> 1, cursor |-> NoCursor]
    /\ seen = {} /\ again = {}
    /\ moved = [inserted |-> FALSE, removed |-> FALSE, lost |-> FALSE]

-----------------------------------------------------------------------------
by == following.way.by

(* How many rows of S are as new as row x; and S sorted, the newest first. *)
Rank(S, x) == Cardinality({y \in S : y >= x})
Newest(S) == [i \in 1..Cardinality(S) |-> CHOOSE x \in S : Rank(S, x) = i]

\* A slip: the id does not break ties.
OldOrdersTied(old) == IF tied THEN SetToSeqs(old) ELSE {Newest(old)}
OldOrders(old) ==
    IF tied /\ by # "key" THEN SetToSeqs(old) ELSE {Newest(old)}

(* The database returns rows of one sort key in any order, another one for
   every query; a list by key asks for the id to break ties. *)
Orders ==
    LET old == Shown \cap 1..OldRows
    IN  {Newest(Shown \ old) \o tail : tail \in OldOrders(old)}

\* A slip: pages are counted from zero.
PagesBeforeZero(page) == page * limit
PagesBefore(page) == (page - 1) * limit

(* Rows of the order in front of the page.  A cursor whose row is gone finds
   no page; a key is compared with, whether or not its row is there. *)
Skipped(order) ==
    LET cursor == reader.cursor
        atOrBefore == {i \in DOMAIN order : \E j \in i..Len(order) : order[j] = cursor}
    IN  CASE by = "page" -> PagesBefore(reader.page)
          [] by # "page" /\ cursor = NoCursor -> 0
          [] by = "skip one" /\ cursor # NoCursor -> 1
          [] by = "key" /\ cursor # NoCursor ->
                Cardinality({i \in DOMAIN order : order[i] >= cursor})
          [] by \in {"after", "from"} /\ cursor \notin Shown /\ cursor # NoCursor ->
                Len(order)
          [] by = "after" /\ cursor \in Shown -> Cardinality(atOrBefore)
          [] by = "from" /\ cursor \in Shown -> Cardinality(atOrBefore) - 1

(* What the answer says of the end of the list; page is what it holds. *)
LastPage(order, page) ==
    CASE following.way.ends = "total" -> reader.page * limit >= Len(order)
      [] following.way.ends = "page total" -> reader.page * limit >= Len(page)
      [] following.way.ends = "full" -> Len(page) < limit
      [] following.way.ends = "more" -> Len(order) - Skipped(order) <= limit
      [] following.way.ends = "empty" -> page = <<>>

ReadPage ==
    /\ ~reader.done
    /\ \E order \in Orders :
        LET first == Skipped(order)
            last == first + limit + following.way.extra
            page == SubSeq(order, first + 1,
                           IF last < Len(order) THEN last ELSE Len(order))
        IN  /\ reader' =
                [done |-> LastPage(order, page),
                 page |-> IF by = "page" THEN reader.page + 1 ELSE 1,
                 cursor |-> IF by = "page" \/ page = <<>> THEN reader.cursor
                            ELSE page[Len(page)]]
            /\ seen' = seen \cup Range(page)
            /\ again' = again \cup ((seen \cap Range(page)) \ {reader.cursor})
            /\ moved' = [moved EXCEPT !.lost =
                            @ \/ reader.cursor \notin Shown \cup {NoCursor}]
    /\ UNCHANGED <<following, limit, tied, rows, foreign, made>>

(* A row is created, or comes to match the list's filter. *)
InsertRow(owner) ==
    /\ made < MaxRows
    /\ made' = made + 1
    /\ rows' = rows \cup {made + 1}
    /\ foreign' = IF owner = "other" THEN foreign \cup {made + 1} ELSE foreign
    /\ moved' = [moved EXCEPT !.inserted =
                    @ \/ owner = "client" \/ following.of = "all"]
    /\ UNCHANGED <<following, limit, tied, reader, seen, again>>

(* A row is deleted, or matches the filter no longer. *)
RemoveRow(r) ==
    /\ rows' = rows \ {r}
    /\ moved' = [moved EXCEPT !.removed = @ \/ r \in Shown]
    /\ UNCHANGED <<following, limit, tied, foreign, made, reader, seen, again>>

ListingsNext ==
    \/ ReadPage
    \/ \E owner \in {"client", "other"} : InsertRow(owner)
    \/ \E r \in rows : RemoveRow(r)

ListingsSpec == ListingsInit /\ [][ListingsNext]_listVars

-----------------------------------------------------------------------------
(* Properties. *)

Unordered == tied /\ by # "key"

(* A row that was there throughout is on some page, whatever else comes and
   goes, for a client of a cursor that stays or of a key; for a client of
   page numbers, as long as no row leaves the list before it. *)
RowsAreNotMissed ==
    reader.done =>
        \/ Shown \cap 1..OldRows \subseteq seen
        \/ by = "skip one" \/ following.way.ends = "page total"
        \/ Unordered
        \/ by = "page" /\ moved.removed
        \/ by \in {"after", "from"} /\ moved.lost

(* No row is given twice, a cursor that is not skipped excepted, as long as
   no row is inserted before a client of page numbers. *)
RowsAreNotRepeated ==
    \/ again = {}
    \/ by = "skip one" \/ following.way.extra = 1
    \/ Unordered
    \/ by = "page" /\ moved.inserted

(* Paging through a list that changes loses and repeats no rows but those
   its way of paging must (the list queries of every service). *)
PagesHold == RowsAreNotMissed /\ RowsAreNotRepeated
=============================================================================
