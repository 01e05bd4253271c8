------------------------------- MODULE Members -------------------------------
(***************************************************************************)
(* What a member may do: the roles an admin defines and assigns            *)
(* (role.service.ts), the permissions the guard computes from them and     *)
(* keeps in Redis for a minute (permissions.guard.ts, cache.service.ts),   *)
(* and the verification that makes a member a seller (users.service.ts).   *)
(*                                                                         *)
(* One member stands for all: every query and every key of the cache is    *)
(* about one.  The guard fills the cache from a read that may be outdated  *)
(* when it arrives, a change of the roles and its invalidation are two     *)
(* steps, and the approval of a seller invalidates nothing.                *)
(***************************************************************************)
EXTENDS FiniteSets, Integers

CONSTANTS
    Roles,        \* names of roles
    Permissions,  \* names of permissions
    Guards,       \* requests of the member that a guard checks, at once
    Admins,       \* requests of admins, or of the member's, at once
    MaxChanges    \* bound: requests that change something

SELLER == "SELLER"

ASSUME MembersAssumption ==
    /\ SELLER \in Roles
    /\ MaxChanges \in Nat

VARIABLES
    roles,       \* rows of Role
    grants,      \* grants[r]: the permissions of role r
    held,        \* the member's roles
    cache,       \* the entry user:perms:<id>
    guard,       \* guard[g]: where the guard of request g stands
    info,        \* status of the BusinessInfo row, or "none"
    isSellerVerified,  \* User.isSellerVerified, as BusinessInfo.isVerified
    admin,       \* admin[a]: where request a stands
    changes,     \* requests that changed something so far
    late,        \* the entry may be outdated until it expires
    withdrawn    \* the role SELLER was taken away, or not given, for a reason

memberVars == <<roles, grants, held, cache, guard, info, isSellerVerified, admin,
          changes, late, withdrawn>>

BusinessInfoStatus == {"PENDING", "VERIFIED", "REJECTED"}
Entry == [perms : SUBSET Permissions]
NoEntry == [perms |-> {"none"}]
Guard == [pc : {"load", "set"}, perms : SUBSET Permissions]
Idle == [pc |-> "idle"]
AdminStates == {"idle", "create info", "grant", "invalidate"}

MemberTypeOK ==
    /\ roles \subseteq Roles
    /\ grants \in [Roles -> SUBSET Permissions]
    /\ held \subseteq roles
    /\ cache \in Entry \cup {NoEntry}
    /\ guard \in [Guards -> Guard \cup {Idle}]
    /\ info \in BusinessInfoStatus \cup {"none"}
    /\ isSellerVerified \in BOOLEAN
    /\ admin \in [Admins -> AdminStates]
    /\ changes \in 0..MaxChanges
    /\ late \in BOOLEAN /\ withdrawn \in BOOLEAN

(* The permissions a query finds: those of the roles held. *)
PermissionsOf(h, g) == UNION {g[r] : r \in h}

Current == PermissionsOf(held, grants)

Fresh == cache = NoEntry \/ cache.perms = Current

(* The seeded roles: each with some permissions, the member with some. *)
MembersInit ==
    /\ roles = Roles
    /\ grants \in [Roles -> SUBSET Permissions]
    /\ held \in SUBSET (Roles \ {SELLER})
    /\ cache = NoEntry
    /\ guard = [g \in Guards |-> Idle]
    /\ info = "none"
    /\ isSellerVerified = FALSE
    /\ admin = [a \in Admins |-> "idle"]
    /\ changes = 0
    /\ late = FALSE
    /\ withdrawn = FALSE

-----------------------------------------------------------------------------
(* The guard: canActivate with getOrSet. *)

(* A hit, or a Redis that does not answer, decides without storing; a miss
   loads.  An error of Redis reads as a miss. *)
Get(g) ==
    /\ guard[g].pc = "idle"
    /\ cache = NoEntry
    /\ guard' = [guard EXCEPT ![g] = [pc |-> "load", perms |-> {}]]
    /\ UNCHANGED <<roles, grants, held, cache, info, isSellerVerified, admin,
                   changes, late, withdrawn>>

Load(g) ==
    /\ guard[g].pc = "load"
    /\ guard' = [guard EXCEPT ![g] = [pc |-> "set", perms |-> Current]]
    /\ UNCHANGED <<roles, grants, held, cache, info, isSellerVerified, admin,
                   changes, late, withdrawn>>

(* The entry is stored with what was loaded, or the write fails quietly. *)
Set(g) ==
    /\ guard[g].pc = "set"
    /\ \/ /\ cache' = [perms |-> guard[g].perms]
          /\ late' = (guard[g].perms # Current)
       \/ UNCHANGED <<cache, late>>
    /\ guard' = [guard EXCEPT ![g] = Idle]
    /\ UNCHANGED <<roles, grants, held, info, isSellerVerified, admin,
                   changes, withdrawn>>

GuardDies(g) ==
    /\ guard[g].pc # "idle"
    /\ guard' = [guard EXCEPT ![g] = Idle]
    /\ UNCHANGED <<roles, grants, held, cache, info, isSellerVerified, admin,
                   changes, late, withdrawn>>

(* setex: an entry lives for the seconds it was given, read or not. *)
ExpiresNever(entry) == FALSE             \* a slip: set in place of setex
Expires(entry) == entry # NoEntry

EntryExpires ==
    /\ Expires(cache)
    /\ cache' = NoEntry
    /\ late' = FALSE
    /\ UNCHANGED <<roles, grants, held, guard, info, isSellerVerified, admin,
                   changes, withdrawn>>

-----------------------------------------------------------------------------
(* Roles: each request writes, then invalidates. *)

\* A slip: the update of a role leaves the entries to their time to live.
InvalidatesExceptUpdates(op) == op # "updateRolePermissions"
Invalidates(op) == TRUE

(* Request a changed roles, permissions or memberships to r, p and h. *)
Change(a, op, r, p, h) ==
    /\ admin[a] = "idle" /\ changes < MaxChanges
    /\ roles' = r /\ grants' = p /\ held' = h
    /\ admin' = [admin EXCEPT ![a] = IF Invalidates(op) THEN "invalidate"
                                     ELSE "idle"]
    /\ changes' = changes + 1
    /\ UNCHANGED <<cache, guard, info, isSellerVerified, late>>

createRolePermissions(a, r, p) ==
    /\ r \notin roles
    /\ Change(a, "createRolePermissions", roles \cup {r},
              [grants EXCEPT ![r] = p], held)
    /\ UNCHANGED withdrawn

updateRolePermissions(a, r, p) ==
    /\ r \in roles
    /\ Change(a, "updateRolePermissions", roles, [grants EXCEPT ![r] = p], held)
    /\ UNCHANGED withdrawn

\* A slip: a membership outlives its role (no onDelete: Cascade).
MembershipsKept(r) == held
MembershipsWithout(r) == held \ {r}

(* Permissions and memberships of the role are deleted with it. *)
deleteRole(a, r) ==
    /\ r \in roles
    /\ Change(a, "deleteRole", roles \ {r}, [grants EXCEPT ![r] = {}],
              MembershipsWithout(r))
    /\ withdrawn' = (withdrawn \/ r = SELLER)

assignRoleToUser(a, r) ==
    /\ r \in roles
    /\ Change(a, "assignRoleToUser", roles, grants, held \cup {r})
    /\ UNCHANGED withdrawn

removeRoleFromUser(a, r) ==
    /\ r \in held
    /\ Change(a, "removeRoleFromUser", roles, grants, held \ {r})
    /\ withdrawn' = (withdrawn \/ r = SELLER)

(* del and invalidatePattern swallow the errors of Redis. *)
Invalidate(a) ==
    /\ admin[a] = "invalidate"
    /\ \/ cache' = NoEntry /\ late' = FALSE
       \/ late' = TRUE /\ UNCHANGED cache
    /\ admin' = [admin EXCEPT ![a] = "idle"]
    /\ UNCHANGED <<roles, grants, held, guard, info, isSellerVerified,
                   changes, withdrawn>>

-----------------------------------------------------------------------------
(* The verification of a seller. *)

(* verifyHost finds no row, uploads the documents and creates one; of two
   at once the second fails on the unique seller. *)
StartVerifyHost(a) ==
    /\ admin[a] = "idle" /\ changes < MaxChanges
    /\ info = "none"
    /\ admin' = [admin EXCEPT ![a] = "create info"]
    /\ changes' = changes + 1
    /\ UNCHANGED <<roles, grants, held, cache, guard, info, isSellerVerified,
                   late, withdrawn>>

verifyHost(a) ==
    /\ admin[a] = "create info"
    /\ info' = IF info = "none" THEN "PENDING" ELSE info
    /\ admin' = [admin EXCEPT ![a] = "idle"]
    /\ UNCHANGED <<roles, grants, held, cache, guard, isSellerVerified,
                   changes, late, withdrawn>>

(* The resubmission of a seller: pending again, and verified all along. *)
updateBusinessInfo ==
    /\ info # "none" /\ changes < MaxChanges
    /\ info' = "PENDING"
    /\ changes' = changes + 1
    /\ UNCHANGED <<roles, grants, held, cache, guard, isSellerVerified, admin,
                   late, withdrawn>>

\* A slip: only a row that was PENDING leads to the role.
GrantsPending(status, old) == status = "VERIFIED" /\ old = "PENDING"
Grants(status, old) == status = "VERIFIED"

(* The row and the flag in one transaction; the role is given after it. *)
updateBusinessInfoStatus(a, status) ==
    /\ admin[a] = "idle" /\ changes < MaxChanges
    /\ info # "none"
    /\ info' = status
    /\ isSellerVerified' = (status = "VERIFIED")
    /\ admin' = [admin EXCEPT ![a] = IF Grants(status, info) THEN "grant"
                                     ELSE "idle"]
    /\ changes' = changes + 1
    /\ UNCHANGED <<roles, grants, held, cache, guard, late, withdrawn>>

(* Without a role SELLER the request fails here.  No entry is invalidated. *)
GrantSeller(a) ==
    /\ admin[a] = "grant"
    /\ IF SELLER \in roles
       THEN /\ held' = held \cup {SELLER}
            /\ late' = (late \/ PermissionsOf(held', grants) # Current)
            /\ withdrawn' = FALSE
       ELSE /\ withdrawn' = TRUE
            /\ UNCHANGED <<held, late>>
    /\ admin' = [admin EXCEPT ![a] = "idle"]
    /\ UNCHANGED <<roles, grants, cache, guard, info, isSellerVerified,
                   changes>>

(* The process dies between two steps of a request. *)
AdminDies(a) ==
    /\ admin[a] # "idle"
    /\ late' = (late \/ admin[a] = "invalidate")
    /\ withdrawn' = (withdrawn \/ admin[a] = "grant")
    /\ admin' = [admin EXCEPT ![a] = "idle"]
    /\ UNCHANGED <<roles, grants, held, cache, guard, info, isSellerVerified,
                   changes>>

AdminStep(a) ==
    \/ \E r \in Roles, p \in SUBSET Permissions :
         createRolePermissions(a, r, p) \/ updateRolePermissions(a, r, p)
    \/ \E r \in Roles : \/ deleteRole(a, r) \/ assignRoleToUser(a, r)
                        \/ removeRoleFromUser(a, r)
    \/ StartVerifyHost(a)
    \/ \E status \in BusinessInfoStatus : updateBusinessInfoStatus(a, status)
    \/ AdminDies(a)

AdminGoesOn(a) == Invalidate(a) \/ verifyHost(a) \/ GrantSeller(a)
GuardGoesOn(g) == Load(g) \/ Set(g)

MembersNext ==
    \/ \E g \in Guards : Get(g) \/ GuardGoesOn(g) \/ GuardDies(g)
    \/ EntryExpires
    \/ \E a \in Admins : AdminStep(a) \/ AdminGoesOn(a)
    \/ updateBusinessInfo

(* A request that runs goes on, and Redis drops what has expired. *)
MembersFairness ==
    /\ \A g \in Guards : WF_memberVars(GuardGoesOn(g))
    /\ \A a \in Admins : WF_memberVars(AdminGoesOn(a))
    /\ WF_memberVars(EntryExpires)

MembersSpec == MembersInit /\ [][MembersNext]_memberVars /\ MembersFairness

-----------------------------------------------------------------------------
(* Properties. *)

(* An outdated entry of the cache has a cause: a change whose invalidation
   is still to come, or one of the three the code leaves to the time to
   live: an invalidation Redis or a crash lost, a guard that stored what it
   had loaded before a change, the approval of a seller. *)
StaleHasCause ==
    Fresh \/ late \/ \E a \in Admins : admin[a] = "invalidate"

(* A verified seller has the role, unless the approval has not come to it
   yet or failed before it, or somebody took the role away.  (Not the other
   way round: who is rejected later keeps it.) *)
VerifiedSellerHasRole ==
    isSellerVerified =>
        SELLER \in held \/ withdrawn \/ \E a \in Admins : admin[a] = "grant"

(* Once the roles stop changing the guard decides by what they are: no
   outdated entry outlives its minute, and no late one comes back. *)
StaleEnds == <>[]Fresh
=============================================================================
