------------------------------- MODULE Catalog -------------------------------
(***************************************************************************)
(* What is for sale (event.service.ts, wishlist.service.ts): events are    *)
(* uploaded with their tickets, one at a time or in bulk, put into the     *)
(* collections of the home page, and onto a member's wishlist.             *)
(*                                                                         *)
(* An upload has a number of chunks of tickets.  A single upload is one    *)
(* transaction; a bulk upload commits the event and each chunk by itself,  *)
(* goes on after a failure, and may be sent again.  Tickets have no unique *)
(* column, so that an upload of what is there adds it once more.           *)
(***************************************************************************)
EXTENDS FiniteSets, Functions, Integers

CONSTANTS
    Events,           \* external ids, as the uploads name them
    Chunks,           \* bound: chunks of an upload's tickets are 1..Chunks
    CollectionTypes,
    Limit,            \* events a collection counts (five in the code)
    CatalogRequests,  \* requests at once
    MaxCatalogOps     \* bound: requests in all

ASSUME CatalogAssumption ==
    /\ IsFiniteSet(Events) /\ IsFiniteSet(CatalogRequests)
    /\ Chunks \in Nat \ {0} /\ Limit \in Nat \ {0} /\ MaxCatalogOps \in Nat
    /\ CollectionTypes # {}

VARIABLES
    eventRows,    \* events that have a row (eventId is unique)
    tickets,      \* tickets[e][c]: how often chunk c of e was inserted
    stopped,      \* bulk uploads of e that ended with a chunk missing
    collections,  \* collections[t][e]: rows of type t that hold e
    wishlist,     \* events on the member's list
    catalog,      \* catalog[r]: where request r stands
    catalogOps    \* requests so far

catalogVars == <<eventRows, tickets, stopped, collections, wishlist, catalog,
                 catalogOps>>

CatalogIdle == [pc |-> "idle"]
CatalogAt ==
    [pc : {"create", "add", "insert", "count", "connect", "wish"},
     event : Events, chunk : 1..Chunks, type : CollectionTypes]

CatalogTypeOK ==
    /\ eventRows \subseteq Events
    /\ tickets \in [Events -> [1..Chunks -> 0..MaxCatalogOps]]
    /\ stopped \in [Events -> 0..MaxCatalogOps]
    /\ collections \in [CollectionTypes -> [Events -> 0..MaxCatalogOps]]
    /\ wishlist \subseteq Events
    /\ catalog \in [CatalogRequests -> CatalogAt \cup {CatalogIdle}]
    /\ catalogOps \in 0..MaxCatalogOps

CatalogInit ==
    /\ eventRows = {}
    /\ tickets = [e \in Events |-> [c \in 1..Chunks |-> 0]]
    /\ stopped = [e \in Events |-> 0]
    /\ collections = [t \in CollectionTypes |-> [e \in Events |-> 0]]
    /\ wishlist = {}
    /\ catalog = [r \in CatalogRequests |-> CatalogIdle]
    /\ catalogOps = 0

-----------------------------------------------------------------------------

(* A request begins at a step of its own; e and t are all it knows. *)
CatalogBegins(r, pc, e, t) ==
    /\ catalog[r] = CatalogIdle
    /\ catalogOps < MaxCatalogOps
    /\ catalogOps' = catalogOps + 1
    /\ catalog' = [catalog EXCEPT ![r] =
                     [pc |-> pc, event |-> e, chunk |-> 1, type |-> t]]

Goes(r, pc) == catalog' = [catalog EXCEPT ![r].pc = pc] /\ UNCHANGED catalogOps

Ends(r) ==
    catalog' = [catalog EXCEPT ![r] = CatalogIdle] /\ UNCHANGED catalogOps

AnyType == CHOOSE t \in CollectionTypes : TRUE

-----------------------------------------------------------------------------
(* Uploads. *)

(* The event is looked up; the insert comes later. *)
StartUpload(r, e) ==
    /\ CatalogBegins(r, IF e \in eventRows THEN "add" ELSE "create", e, AnyType)
    /\ UNCHANGED <<eventRows, tickets, stopped, collections, wishlist>>

\* A slip: the chunks are not in the transaction, and the last one fails.
SomeChunks(e) ==
    [c \in 1..Chunks |-> tickets[e][c] + (IF c < Chunks THEN 1 ELSE 0)]
AllChunks(e) == [c \in 1..Chunks |-> tickets[e][c] + 1]

(* A single upload commits the event and all its tickets or nothing: another
   request may have created the event since it was looked up, the query may
   fail. *)
createEvent(r) ==
    LET e == catalog[r].event
    IN  /\ \/ /\ catalog[r].pc = "create"
              /\ e \notin eventRows
              /\ eventRows' = eventRows \cup {e}
              /\ tickets' = [tickets EXCEPT ![e] = AllChunks(e)]
           \/ /\ catalog[r].pc = "add"
              /\ tickets' = [tickets EXCEPT ![e] = AllChunks(e)]
              /\ UNCHANGED eventRows
        /\ Ends(r)
        /\ UNCHANGED <<stopped, collections, wishlist>>

UploadFails(r) ==
    /\ catalog[r].pc \in {"create", "add"}
    /\ Ends(r)
    /\ UNCHANGED <<eventRows, tickets, stopped, collections, wishlist>>

(* The event of a bulk upload, committed by itself.  (What follows is the
   same for an event that was found, whose first chunk is next.) *)
BulkEvent(r) ==
    /\ \/ /\ catalog[r].pc = "create"
          /\ catalog[r].event \notin eventRows
          /\ eventRows' = eventRows \cup {catalog[r].event}
       \/ catalog[r].pc = "add" /\ UNCHANGED eventRows
    /\ Goes(r, "insert")
    /\ UNCHANGED <<tickets, stopped, collections, wishlist>>

BulkChunk(r) ==
    /\ catalog[r].pc = "insert"
    /\ LET e == catalog[r].event
           c == catalog[r].chunk
       IN  /\ tickets' = [tickets EXCEPT ![e][c] = @ + 1]
           /\ IF c < Chunks
              THEN /\ catalog' = [catalog EXCEPT ![r].chunk = c + 1]
                   /\ UNCHANGED catalogOps
              ELSE Ends(r)
    /\ UNCHANGED <<eventRows, stopped, collections, wishlist>>

(* The catch of a bulk upload counts the event as skipped. *)
BulkSkips(r) ==
    /\ catalog[r].pc = "insert"
    /\ stopped' = [stopped EXCEPT ![catalog[r].event] = @ + 1]
    /\ Ends(r)
    /\ UNCHANGED <<eventRows, tickets, collections, wishlist>>

createEventsBulk(r) == BulkEvent(r) \/ BulkChunk(r) \/ BulkSkips(r)

-----------------------------------------------------------------------------
(* Collections: the rows of a type are counted, the event is looked up, the
   type is searched for it, and then a row is created. *)

Listed(t) == SumFunction(collections[t])

\* A slip: the check lets one more in.
RoomUpTo(t) == Listed(t) <= Limit
RoomIn(t) == Listed(t) < Limit

CountCollection(r, e, t) ==
    /\ RoomIn(t)
    /\ CatalogBegins(r, "count", e, t)
    /\ UNCHANGED <<eventRows, tickets, stopped, collections, wishlist>>

FindInCollection(r) ==
    /\ catalog[r].pc = "count"
    /\ IF /\ catalog[r].event \in eventRows
          /\ collections[catalog[r].type][catalog[r].event] = 0
       THEN Goes(r, "connect") ELSE Ends(r)
    /\ UNCHANGED <<eventRows, tickets, stopped, collections, wishlist>>

createCollections(r) ==
    /\ catalog[r].pc = "connect"
    /\ collections' =
         [collections EXCEPT ![catalog[r].type][catalog[r].event] = @ + 1]
    /\ Ends(r)
    /\ UNCHANGED <<eventRows, tickets, stopped, wishlist>>

deleteCollection(t, e) ==
    /\ collections[t][e] > 0
    /\ collections' = [collections EXCEPT ![t][e] = @ - 1]
    /\ UNCHANGED <<eventRows, tickets, stopped, wishlist, catalog, catalogOps>>

-----------------------------------------------------------------------------
(* The wishlist: (user, event) is unique, the second of two inserts fails. *)

StartAddItem(r, e) ==
    /\ e \in eventRows /\ e \notin wishlist
    /\ CatalogBegins(r, "wish", e, AnyType)
    /\ UNCHANGED <<eventRows, tickets, stopped, collections, wishlist>>

addItem(r) ==
    /\ catalog[r].pc = "wish"
    /\ wishlist' = wishlist \cup {catalog[r].event}
    /\ Ends(r)
    /\ UNCHANGED <<eventRows, tickets, stopped, collections>>

removeItem(e) ==
    /\ e \in wishlist
    /\ wishlist' = wishlist \ {e}
    /\ UNCHANGED <<eventRows, tickets, stopped, collections, catalog,
                   catalogOps>>

clear ==
    /\ wishlist' = {}
    /\ UNCHANGED <<eventRows, tickets, stopped, collections, catalog,
                   catalogOps>>

CatalogNext ==
    \/ \E r \in CatalogRequests :
        \/ createEvent(r) \/ UploadFails(r) \/ createEventsBulk(r)
        \/ FindInCollection(r) \/ createCollections(r) \/ addItem(r)
        \/ \E e \in Events :
             \/ StartUpload(r, e) \/ StartAddItem(r, e)
             \/ \E t \in CollectionTypes : CountCollection(r, e, t)
    \/ \E e \in Events :
        \/ removeItem(e)
        \/ \E t \in CollectionTypes : deleteCollection(t, e)
    \/ clear

CatalogSpec == CatalogInit /\ [][CatalogNext]_catalogVars

-----------------------------------------------------------------------------
(* Properties. *)

Inserting(e) ==
    {r \in CatalogRequests : catalog[r].pc = "insert" /\ catalog[r].event = e}

(* Tickets of an event are missing only where a bulk upload of it stopped
   halfway or has not ended: no single upload, and no two at once, leave an
   event with a part of its seats. *)
UploadsAreWhole ==
    \A e \in Events :
        /\ tickets[e][1] - tickets[e][Chunks]
                <= stopped[e] + Cardinality(Inserting(e))
        /\ tickets[e][1] > 0 => e \in eventRows

(* The limit of a collection is checked before three more queries: requests
   that counted at once go beyond it, each by one, and never further; one
   event is in it twice only if two requests added it at once. *)
CollectionsAreBounded ==
    \A t \in CollectionTypes :
        /\ Listed(t) < Limit + Cardinality(CatalogRequests)
        /\ \A e \in Events :
             collections[t][e] <= Cardinality(CatalogRequests)

(* A bulk upload leaves no event without all its tickets unless it stopped
   there, and a collection grows past its five events by no more than the
   requests at once (event.service). *)
CatalogIsWhole == UploadsAreWhole /\ CollectionsAreBounded
=============================================================================
