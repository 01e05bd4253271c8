---------------------------- MODULE MembersProofs ----------------------------
(***************************************************************************)
(* Theorems about Members and Notices, for any roles, permissions, users   *)
(* and requests: why a cached permission may be outdated, what a verified  *)
(* seller holds, and which notifications arrive unwanted or twice.         *)
(***************************************************************************)
EXTENDS MCMembers, FiniteSetTheorems, TLAPS

-----------------------------------------------------------------------------
(* Members: type correctness                                               *)

LEMMA MemberTypesInit == MembersInit => MemberTypeOK
<1> SUFFICES ASSUME MembersInit PROVE MemberTypeOK
  OBVIOUS
<1>1. cache \in {NoEntry} /\ guard \in [Guards -> Guard \cup {Idle}]
  BY DEF MembersInit
<1>2. admin \in [Admins -> AdminStates]
  BY DEF MembersInit, AdminStates
<1>3. roles \subseteq Roles /\ held \subseteq roles /\ changes \in 0..MaxChanges
  BY MembersAssumption DEF MembersInit
<1>4. /\ grants \in [Roles -> SUBSET Permissions] /\ info = "none"
      /\ isSellerVerified = FALSE /\ late = FALSE /\ withdrawn = FALSE
  BY DEF MembersInit
<1> QED BY <1>1, <1>2, <1>3, <1>4 DEF MemberTypeOK

\* Every query finds permissions of the model.
LEMMA CurrentType == MemberTypeOK => Current \in SUBSET Permissions
  BY DEF MemberTypeOK, Current, PermissionsOf

LEMMA GuardTypes ==
    ASSUME MemberTypeOK, NEW g \in Guards, Get(g) \/ GuardGoesOn(g) \/ GuardDies(g)
    PROVE  MemberTypeOK'
<1>1. \A pc \in {"load", "set"}, p \in SUBSET Permissions :
          [pc |-> pc, perms |-> p] \in Guard
  BY DEF Guard
<1>2. CASE Get(g) \/ Load(g) \/ GuardDies(g)
  BY <1>1, <1>2, CurrentType DEF Get, Load, GuardDies, MemberTypeOK
<1>3. CASE Set(g)
  <2>1. guard[g] \in Guard
    BY <1>3 DEF Set, MemberTypeOK, Idle
  <2>2. guard[g].perms \in SUBSET Permissions
    BY <2>1 DEF Guard
  <2>3. [perms |-> guard[g].perms] \in Entry
    BY <2>2 DEF Entry
  <2> QED BY <1>3, <2>3 DEF Set, MemberTypeOK
<1> QED BY <1>2, <1>3 DEF GuardGoesOn

LEMMA CountsUp ==
    ASSUME changes \in 0..MaxChanges, changes < MaxChanges
    PROVE  changes + 1 \in 0..MaxChanges
  BY MembersAssumption

LEMMA AdminTypes ==
    ASSUME MemberTypeOK, NEW a \in Admins, AdminStep(a) \/ AdminGoesOn(a)
    PROVE  MemberTypeOK'
<1> USE DEF MemberTypeOK, AdminStates
<1>1. changes < MaxChanges => changes + 1 \in 0..MaxChanges
  BY CountsUp
<1>2. ASSUME NEW r \in Roles, NEW p \in SUBSET Permissions,
             createRolePermissions(a, r, p) \/ updateRolePermissions(a, r, p)
      PROVE  MemberTypeOK'
  BY <1>1, <1>2 DEF createRolePermissions, updateRolePermissions, Change,
                    Invalidates
<1>3. ASSUME NEW r \in Roles,
             deleteRole(a, r) \/ assignRoleToUser(a, r) \/ removeRoleFromUser(a, r)
      PROVE  MemberTypeOK'
  BY <1>1, <1>3 DEF deleteRole, assignRoleToUser, removeRoleFromUser, Change,
                    Invalidates, MembershipsWithout
<1>4. CASE StartVerifyHost(a)
  BY <1>1, <1>4 DEF StartVerifyHost
<1>5. ASSUME NEW status \in BusinessInfoStatus, updateBusinessInfoStatus(a, status)
      PROVE  MemberTypeOK'
  BY <1>1, <1>5 DEF updateBusinessInfoStatus
<1>6. CASE AdminDies(a)
  BY <1>6 DEF AdminDies
<1>7. CASE Invalidate(a)
  BY <1>7 DEF Invalidate
<1>8. CASE verifyHost(a)
  BY <1>8 DEF verifyHost, BusinessInfoStatus
<1>9. CASE GrantSeller(a)
  BY <1>9 DEF GrantSeller
<1> QED BY <1>2, <1>3, <1>4, <1>5, <1>6, <1>7, <1>8, <1>9
        DEF AdminStep, AdminGoesOn

LEMMA MemberTypesStep ==
    ASSUME MemberTypeOK, [MembersNext]_memberVars
    PROVE  MemberTypeOK'
<1>1. CASE EntryExpires
  BY <1>1 DEF EntryExpires, MemberTypeOK
<1>2. CASE updateBusinessInfo
  BY <1>2, MembersAssumption
     DEF updateBusinessInfo, MemberTypeOK, BusinessInfoStatus
<1>3. CASE UNCHANGED memberVars
  BY <1>3 DEF memberVars, MemberTypeOK
<1> QED BY <1>1, <1>2, <1>3, GuardTypes, AdminTypes DEF MembersNext

\* The state of roles, cache and requests is well typed: no membership outlives
\* its role, and nothing but permissions is cached (role.service.ts,
\* permissions.guard.ts).
THEOREM MemberTypes == MembersSpec => []MemberTypeOK
  BY MemberTypesInit, MemberTypesStep, PTL DEF MembersSpec

-----------------------------------------------------------------------------
(* Members: outdated entries                                               *)

Unfinished == \E a \in Admins : admin[a] = "invalidate"

\* What the guard's steps change, an outdated entry is accounted for.
LEMMA GuardStale ==
    ASSUME StaleHasCause, NEW g \in Guards,
           Get(g) \/ GuardGoesOn(g) \/ GuardDies(g)
    PROVE  StaleHasCause'
<1>1. admin' = admin /\ Current' = Current
  BY DEF Get, GuardGoesOn, Load, Set, GuardDies, Current, PermissionsOf
<1>2. CASE cache' = cache /\ late' = late
  BY <1>1, <1>2 DEF StaleHasCause, Fresh
<1>3. CASE cache' = [perms |-> guard[g].perms] /\ late' = (guard[g].perms # Current)
  BY <1>1, <1>3 DEF StaleHasCause, Fresh
<1> QED BY <1>2, <1>3 DEF Get, GuardGoesOn, Load, Set, GuardDies

LEMMA AdminStale ==
    ASSUME MemberTypeOK, StaleHasCause, NEW a \in Admins,
           AdminStep(a) \/ AdminGoesOn(a)
    PROVE  StaleHasCause'
<1>1. ASSUME NEW op, NEW r, NEW p, NEW h, Change(a, op, r, p, h)
      PROVE  StaleHasCause'
  BY <1>1 DEF Change, Invalidates, MemberTypeOK, StaleHasCause
<1>2. CASE StartVerifyHost(a) \/ verifyHost(a)
           \/ \E status \in BusinessInfoStatus : updateBusinessInfoStatus(a, status)
  <2>1. /\ UNCHANGED <<cache, late, held, grants>>
        /\ admin[a] # "invalidate"
        /\ \A b \in Admins \ {a} : admin'[b] = admin[b]
    BY <1>2 DEF StartVerifyHost, verifyHost, updateBusinessInfoStatus,
                MemberTypeOK
  <2>2. Fresh' = Fresh
    BY <2>1 DEF Fresh, Current
  <2> QED BY <2>1, <2>2 DEF StaleHasCause
<1>3. CASE AdminDies(a)
  <2>1. Fresh' = Fresh
    BY <1>3 DEF AdminDies, Fresh, Current
  <2>2. \A b \in Admins \ {a} : admin'[b] = admin[b]
    BY <1>3 DEF AdminDies, MemberTypeOK
  <2> QED BY <1>3, <2>1, <2>2 DEF AdminDies, StaleHasCause
<1>4. CASE Invalidate(a)
  BY <1>4 DEF Invalidate, StaleHasCause, Fresh
<1>5. CASE GrantSeller(a)
  <2>1. \A b \in Admins \ {a} : admin'[b] = admin[b]
    BY <1>5 DEF GrantSeller, MemberTypeOK
  <2>2. admin[a] # "invalidate" /\ cache' = cache
    BY <1>5 DEF GrantSeller
  <2>3. late' \/ (Fresh' = Fresh /\ late' = late)
    <3>1. Current' = PermissionsOf(held', grants)
      BY <1>5 DEF GrantSeller, Current
    <3>2. CASE SELLER \in roles /\ Current' = Current
      BY <1>5, <2>2, <3>1, <3>2 DEF GrantSeller, Fresh, MemberTypeOK
    <3>3. CASE SELLER \in roles /\ Current' # Current
      BY <1>5, <3>1, <3>3 DEF GrantSeller
    <3>4. CASE SELLER \notin roles
      BY <1>5, <2>2, <3>4 DEF GrantSeller, Fresh, Current
    <3> QED BY <3>2, <3>3, <3>4
  <2> QED BY <2>1, <2>2, <2>3 DEF StaleHasCause
<1> QED BY <1>1, <1>2, <1>3, <1>4, <1>5
        DEF AdminStep, AdminGoesOn, createRolePermissions, updateRolePermissions,
            deleteRole, assignRoleToUser, removeRoleFromUser

\* An outdated entry of the permission cache always has one of the causes the
\* module names, whatever guards, admins, crashes and Redis do at once.
THEOREM StaleEntries == MembersSpec => []StaleHasCause
<1>1. MembersInit => StaleHasCause
  BY DEF MembersInit, StaleHasCause, Fresh
<1>2. ASSUME MemberTypeOK, StaleHasCause, [MembersNext]_memberVars
      PROVE  StaleHasCause'
  <2>1. CASE EntryExpires
    BY <2>1 DEF EntryExpires, StaleHasCause, Fresh
  <2>2. CASE UNCHANGED <<cache, late, held, grants, admin>>
    <3>1. Current' = Current
      BY <2>2 DEF Current, PermissionsOf
    <3> QED BY <1>2, <2>2, <3>1 DEF StaleHasCause, Fresh
  <2> QED BY <1>2, <2>1, <2>2, GuardStale, AdminStale
          DEF MembersNext, memberVars, updateBusinessInfo
<1> QED BY <1>1, <1>2, MemberTypes, PTL DEF MembersSpec

-----------------------------------------------------------------------------
(* Members: verified sellers                                               *)

LEMMA AdminVerifies ==
    ASSUME MemberTypeOK, VerifiedSellerHasRole, NEW a \in Admins,
           AdminStep(a) \/ AdminGoesOn(a)
    PROVE  VerifiedSellerHasRole'
<1> USE DEF MemberTypeOK, VerifiedSellerHasRole
<1>1. ASSUME admin[a] # "grant", isSellerVerified' = isSellerVerified,
             SELLER \in held => SELLER \in held' \/ withdrawn',
             withdrawn => withdrawn',
             \A b \in Admins \ {a} : admin'[b] = admin[b]
      PROVE  VerifiedSellerHasRole'
  BY <1>1
<1>2. ASSUME NEW r \in Roles,
             \/ \E p \in SUBSET Permissions :
                   createRolePermissions(a, r, p) \/ updateRolePermissions(a, r, p)
             \/ deleteRole(a, r) \/ assignRoleToUser(a, r)
             \/ removeRoleFromUser(a, r)
      PROVE  VerifiedSellerHasRole'
  <2>1. /\ admin[a] = "idle" /\ isSellerVerified' = isSellerVerified
        /\ \A b \in Admins \ {a} : admin'[b] = admin[b]
    BY <1>2 DEF createRolePermissions, updateRolePermissions, deleteRole,
                assignRoleToUser, removeRoleFromUser, Change
  <2>2. /\ SELLER \in held => SELLER \in held' \/ withdrawn'
        /\ withdrawn => withdrawn'
    BY <1>2 DEF createRolePermissions, updateRolePermissions, deleteRole,
                assignRoleToUser, removeRoleFromUser, Change, MembershipsWithout
  <2> QED BY <1>1, <2>1, <2>2
<1>3. CASE StartVerifyHost(a) \/ verifyHost(a) \/ Invalidate(a)
  <2>1. /\ admin[a] # "grant"
        /\ UNCHANGED <<isSellerVerified, held, withdrawn>>
        /\ \A b \in Admins \ {a} : admin'[b] = admin[b]
    BY <1>3 DEF StartVerifyHost, verifyHost, Invalidate
  <2> QED BY <1>1, <2>1
<1>4. ASSUME NEW status \in BusinessInfoStatus, updateBusinessInfoStatus(a, status)
      PROVE  VerifiedSellerHasRole'
  BY <1>4 DEF updateBusinessInfoStatus, Grants
<1>5. CASE GrantSeller(a)
  BY <1>5 DEF GrantSeller
<1>6. CASE AdminDies(a)
  BY <1>6 DEF AdminDies
<1> QED BY <1>2, <1>3, <1>4, <1>5, <1>6 DEF AdminStep, AdminGoesOn

\* Whoever is verified has the role SELLER, or the module says why not: the
\* approval writes the two in two transactions (users.service.ts).
THEOREM VerifiedSellers == MembersSpec => []VerifiedSellerHasRole
<1>1. MembersInit => VerifiedSellerHasRole
  BY DEF MembersInit, VerifiedSellerHasRole
<1>2. ASSUME MemberTypeOK, VerifiedSellerHasRole, [MembersNext]_memberVars
      PROVE  VerifiedSellerHasRole'
  <2>1. CASE UNCHANGED <<isSellerVerified, held, withdrawn, admin>>
    BY <1>2, <2>1 DEF VerifiedSellerHasRole
  <2> QED BY <1>2, <2>1, AdminVerifies
          DEF MembersNext, memberVars, updateBusinessInfo, EntryExpires, Get,
              GuardGoesOn, Load, Set, GuardDies
<1> QED BY <1>1, <1>2, MemberTypes, PTL DEF MembersSpec

-----------------------------------------------------------------------------
(* Notices                                                                 *)

\* How often a job was tried: a listener of it is under way, or ended in a row
\* or in a failure.
Tried(j) == rows[j] + listeners[j] + lost[j]

\* What is queued or about to be respects the settings, unless they changed.
Wanted(n) == n.kind \in Single => n.late \/ n.kind \in settings[n.to]

\* The jobs that were queued are the first so many.
UsedUpTo(n) == n \in 0..MaxJobs /\ \A j \in Jobs : job[j] # NoJob <=> j <= n

\* Beside its type: a job that waits was tried once for each death at most, and
\* one that was taken once more.
NoticesInv ==
    /\ settings \in [Users -> SUBSET Kinds]
    /\ sending \in Sending \cup {NotSending}
    /\ sending # NotSending => Wanted(sending)
    /\ job \in [Jobs -> Job \cup {NoJob}]
    /\ \E n \in Nat : UsedUpTo(n)
    /\ listeners \in [Jobs -> Nat] /\ rows \in [Jobs -> Nat]
    /\ lost \in [Jobs -> Nat]
    /\ unread \subseteq Jobs
    /\ deaths \in 0..MaxDeaths
    /\ \A j \in Jobs :
         /\ job[j] = NoJob => Tried(j) = 0
         /\ job[j] # NoJob /\ job[j].pc = "queued" => Tried(j) <= deaths
         /\ Tried(j) <= deaths + 1
         /\ job[j] # NoJob => Wanted(job[j])

LEMMA NoticesInvInit == NoticesInit => NoticesInv
<1> SUFFICES ASSUME NoticesInit PROVE NoticesInv
  OBVIOUS
<1>1. UsedUpTo(0)
  BY NoticesAssumption DEF UsedUpTo, NoticesInit, Jobs
<1>2. \A j \in Jobs : job[j] = NoJob /\ Tried(j) = 0
  BY DEF NoticesInit, Tried
<1>3. deaths \in 0..MaxDeaths /\ deaths = 0
  BY NoticesAssumption DEF NoticesInit
<1>4. settings \in [Users -> SUBSET Kinds]
  BY DEF NoticesInit
<1> QED BY <1>1, <1>2, <1>3, <1>4 DEF NoticesInit, NoticesInv

LEMMA NoticesInvType == NoticesInv => NoticesTypeOK
<1> SUFFICES ASSUME NoticesInv PROVE NoticesTypeOK
  OBVIOUS
<1>1. ASSUME NEW j \in Jobs
      PROVE  /\ listeners[j] \in 0..(MaxDeaths + 1)
             /\ rows[j] \in 0..(MaxDeaths + 1) /\ lost[j] \in 0..(MaxDeaths + 1)
  BY NoticesAssumption DEF NoticesInv, Tried
<1> QED BY <1>1 DEF NoticesInv, NoticesTypeOK

LEMMA UsedIs ==
    ASSUME NEW n \in Nat, UsedUpTo(n)
    PROVE  Used = n
<1>1. {j \in Jobs : job[j] # NoJob} = 1..n
  BY NoticesAssumption DEF UsedUpTo, Jobs
<1>2. Cardinality(1..n) = n
  BY FS_Interval
<1> QED BY <1>1, <1>2 DEF Used

\* Senders append to the queue, and what they append respects the settings.
Appends ==
    \E n, m \in Nat :
        /\ UsedUpTo(n) /\ m \in n..MaxJobs
        /\ job' \in [Jobs -> Job \cup {NoJob}]
        /\ \A j \in Jobs :
             IF j \in (n + 1)..m
             THEN job'[j] \in Job /\ job'[j].pc = "queued" /\ Wanted(job'[j])
             ELSE job'[j] = job[j]

LEMMA NewJobType ==
    ASSUME NEW u \in Users, NEW k \in Kinds, NEW b \in BOOLEAN
    PROVE  /\ NewJob(u, k, b) \in Job /\ NewJob(u, k, b).pc = "queued"
           /\ NewJob(u, k, b).to = u /\ NewJob(u, k, b).kind = k
           /\ NewJob(u, k, b).late = b
  BY DEF NewJob, Job

LEMMA AddJobAppends ==
    ASSUME NoticesInv, AddJob
    PROVE  Appends
<1>1. PICK n \in Nat : UsedUpTo(n)
  BY DEF NoticesInv
<1>2. n \in n..MaxJobs /\ MaxJobs \in Nat /\ job \in [Jobs -> Job \cup {NoJob}]
  BY <1>1, NoticesAssumption DEF UsedUpTo, NoticesInv
<1>3. CASE job' = job
  <2>1. \A j \in Jobs : j \notin (n + 1)..n
    BY DEF Jobs
  <2> QED BY <1>1, <1>2, <1>3, <2>1 DEF Appends
<1>4. CASE job' # job
  <2> DEFINE x == NewJob(sending.to, sending.kind, sending.late)
  <2>1. /\ sending \in Sending /\ Wanted(sending)
        /\ n < MaxJobs /\ job' = [job EXCEPT ![n + 1] = x]
    BY <1>1, <1>4, UsedIs DEF AddJob, NoticesInv
  <2>2. /\ x \in Job /\ x.pc = "queued" /\ x.to = sending.to
        /\ x.kind = sending.kind /\ x.late = sending.late
    BY <2>1, NewJobType DEF Sending, Kinds
  <2> HIDE DEF x
  <2>3. Wanted(x)
    BY <2>1, <2>2 DEF Wanted
  <2>4. n + 1 \in Jobs /\ n + 1 \in n..MaxJobs
    BY <1>2, <2>1 DEF Jobs
  <2>5. \A j \in Jobs : j \in (n + 1)..(n + 1) <=> j = n + 1
    BY DEF Jobs
  <2> QED BY <1>1, <1>2, <2>1, <2>2, <2>3, <2>4, <2>5 DEF Appends
<1> QED BY <1>3, <1>4

LEMMA FanoutAppends ==
    ASSUME NoticesInv, NEW k \in Fanned, fanoutNotification(k)
    PROVE  Appends
<1>1. PICK n \in Nat : UsedUpTo(n)
  BY DEF NoticesInv
<1>2. Used = n
  BY <1>1, UsedIs
<1>3. PICK S \in SUBSET Users :
          \E f \in [S -> (n + 1)..(n + Cardinality(S))] :
            /\ n + Cardinality(S) <= MaxJobs
            /\ \A m, p \in S : m # p => f[m] # f[p]
            /\ job' = [j \in Jobs |->
                         IF \E m \in S : f[m] = j
                         THEN NewJob(CHOOSE m \in S : f[m] = j, k, FALSE)
                         ELSE job[j]]
  BY <1>2 DEF fanoutNotification
<1>4. PICK f \in [S -> (n + 1)..(n + Cardinality(S))] :
        /\ n + Cardinality(S) <= MaxJobs
        /\ \A m, p \in S : m # p => f[m] # f[p]
        /\ job' = [j \in Jobs |->
                     IF \E m \in S : f[m] = j
                     THEN NewJob(CHOOSE m \in S : f[m] = j, k, FALSE)
                     ELSE job[j]]
  BY <1>3
<1>5. IsFiniteSet(S) /\ Cardinality(S) \in Nat
  BY NoticesAssumption, FS_Subset, FS_CardinalityType
<1> DEFINE m == n + Cardinality(S)
           T == (n + 1)..m
<1>6. IsFiniteSet(T) /\ Cardinality(T) = Cardinality(S)
  BY <1>5, FS_Interval
<1>7. f \in Surjection(S, T)
  <2>1. f \in Injection(S, T)
    BY <1>4 DEF Injection, IsInjective
  <2> QED BY <1>6, <2>1, FS_Injection
<1>8. \A j \in Jobs : j \in T <=> \E u \in S : f[u] = j
  BY <1>7 DEF Surjection
<1>9. ASSUME NEW j \in Jobs, j \in T
      PROVE  job'[j] \in Job /\ job'[j].pc = "queued" /\ Wanted(job'[j])
  <2>1. PICK u \in Users : job'[j] = NewJob(u, k, FALSE)
    BY <1>4, <1>8, <1>9
  <2>2. k \in Kinds /\ k \notin Single
    BY NoticesAssumption DEF Kinds
  <2>3. job'[j] \in Job /\ job'[j].pc = "queued" /\ job'[j].kind = k
    BY <2>1, <2>2 DEF NewJob, Job
  <2> QED BY <2>2, <2>3 DEF Wanted
<1>10. \A j \in Jobs : j \notin T => job'[j] = job[j]
  BY <1>4, <1>8
<1>11. m \in Nat /\ m \in n..MaxJobs
  BY <1>4, <1>5, NoticesAssumption
<1>12. job' \in [Jobs -> Job \cup {NoJob}]
  BY <1>4, <1>9, <1>10 DEF NoticesInv
<1> HIDE DEF m
<1> QED BY <1>1, <1>9, <1>10, <1>11, <1>12 DEF Appends

LEMMA AppendsKeeps ==
    ASSUME NoticesInv, Appends,
           UNCHANGED <<settings, listeners, rows, lost, unread, deaths>>,
           sending' \in {sending, NotSending}
    PROVE  NoticesInv'
<1>1. PICK n \in Nat, m \in Nat :
        /\ UsedUpTo(n) /\ m \in n..MaxJobs
        /\ job' \in [Jobs -> Job \cup {NoJob}]
        /\ \A j \in Jobs :
             IF j \in (n + 1)..m
             THEN job'[j] \in Job /\ job'[j].pc = "queued" /\ Wanted(job'[j])
             ELSE job'[j] = job[j]
  BY DEF Appends
<1>2. NoJob \notin Job
  BY DEF NoJob, Job
<1>3. UsedUpTo(m)'
  <2>1. m \in 0..MaxJobs
    BY <1>1, NoticesAssumption DEF UsedUpTo
  <2>2. ASSUME NEW j \in Jobs PROVE job'[j] # NoJob <=> j <= m
    <3>1. CASE j \in (n + 1)..m
      BY <1>1, <1>2, <3>1
    <3>2. CASE j \notin (n + 1)..m
      BY <1>1, <3>2, NoticesAssumption DEF UsedUpTo, Jobs
    <3> QED BY <3>1, <3>2
  <2> QED BY <2>1, <2>2 DEF UsedUpTo
<1>4. ASSUME NEW j \in Jobs
      PROVE  /\ Tried(j)' = Tried(j) /\ Tried(j) <= deaths' + 1
             /\ job'[j] = NoJob => Tried(j) = 0
             /\ job'[j] # NoJob /\ job'[j].pc = "queued" => Tried(j) <= deaths'
             /\ job'[j] # NoJob => Wanted(job[j])' 
  <2>1. Tried(j)' = Tried(j) /\ deaths' = deaths /\ Tried(j) <= deaths + 1
    BY DEF Tried, NoticesInv
  <2>2. \A x : Wanted(x) => Wanted(x)'
    BY DEF Wanted
  <2>3. CASE j \in (n + 1)..m
    <3>1. job[j] = NoJob
      BY <1>1, <2>3 DEF UsedUpTo, Jobs
    <3>2. Tried(j) = 0 /\ deaths \in Nat
      BY <3>1, NoticesAssumption DEF NoticesInv
    <3>3. job'[j] \in Job /\ Wanted(job[j])'
      BY <1>1, <2>3 DEF Wanted
    <3> QED BY <2>1, <3>2, <3>3
  <2>4. CASE j \notin (n + 1)..m
    <3>1. job'[j] = job[j]
      BY <1>1, <2>4
    <3>2. job'[j] # NoJob => Wanted(job[j])'
      BY <3>1 DEF NoticesInv, Wanted
    <3> QED BY <2>1, <3>1, <3>2 DEF NoticesInv
  <2> QED BY <2>3, <2>4
<1>5. sending' # NotSending => Wanted(sending)'
  BY DEF NoticesInv, Wanted
<1> QED BY <1>1, <1>3, <1>4, <1>5 DEF NoticesInv

\* A change of the settings marks what was queued or is about to be.
LEMMA SettingsKeep ==
    ASSUME NoticesInv, NEW m \in Users, NEW S \in SUBSET Kinds,
           ChangeSettings(m, S)
    PROVE  NoticesInv'
<1>1. ASSUME NEW x \in Job \cup Sending, Wanted(x)
      PROVE  /\ x.to # m => Wanted(x)'
             /\ [x EXCEPT !.late = TRUE].late = TRUE
             /\ x \in Job => [x EXCEPT !.late = TRUE] \in Job
             /\ x \in Sending => [x EXCEPT !.late = TRUE] \in Sending
  <2>1. x.to # m => Wanted(x)'
    BY <1>1 DEF ChangeSettings, NoticesInv, Wanted, Job, Sending
  <2> QED BY <1>1, <2>1 DEF Job, Sending
<1>2. ASSUME NEW j \in Jobs
      PROVE  /\ job'[j] \in Job \cup {NoJob}
             /\ job'[j] = NoJob <=> job[j] = NoJob
             /\ job'[j] # NoJob => job'[j].pc = job[j].pc /\ Wanted(job[j])'
  <2>1. NoJob \notin Job
    BY DEF NoJob, Job
  <2>2. CASE job[j] # NoJob /\ job[j].to = m
    <3>1. job[j] \in Job /\ Wanted(job[j])
      BY <2>2 DEF NoticesInv
    <3> DEFINE y == [job[j] EXCEPT !.late = TRUE]
    <3>2. y \in Job /\ y.late = TRUE /\ y.pc = job[j].pc
      BY <3>1 DEF Job
    <3>3. job'[j] = y
      BY <2>2 DEF ChangeSettings
    <3> HIDE DEF y
    <3> QED BY <2>1, <2>2, <3>2, <3>3 DEF Wanted
  <2>3. CASE ~(job[j] # NoJob /\ job[j].to = m)
    <3>1. job'[j] = job[j] /\ job[j] \in Job \cup {NoJob}
      BY <2>3 DEF ChangeSettings, NoticesInv
    <3>2. job[j] # NoJob => Wanted(job[j])'
      BY <1>1, <2>3, <3>1 DEF NoticesInv
    <3> QED BY <3>1, <3>2
  <2> QED BY <2>2, <2>3
<1>3. /\ sending' \in Sending \cup {NotSending}
      /\ sending' # NotSending => Wanted(sending)'
  <2>1. CASE sending # NotSending /\ sending.to = m
    <3>1. sending \in Sending
      BY <2>1 DEF NoticesInv
    <3> DEFINE y == [sending EXCEPT !.late = TRUE]
    <3>2. y \in Sending /\ y.late = TRUE /\ sending' = y
      BY <2>1, <3>1 DEF ChangeSettings, Sending
    <3> HIDE DEF y
    <3> QED BY <3>2 DEF Wanted
  <2>2. CASE ~(sending # NotSending /\ sending.to = m)
    <3>1. sending' = sending /\ sending \in Sending \cup {NotSending}
      BY <2>2 DEF ChangeSettings, NoticesInv
    <3>2. sending # NotSending => Wanted(sending)'
      BY <1>1, <2>2, <3>1 DEF NoticesInv
    <3> QED BY <3>1, <3>2
  <2> QED BY <2>1, <2>2
<1>4. settings' \in [Users -> SUBSET Kinds]
  BY DEF ChangeSettings, NoticesInv
<1>5. job' \in [Jobs -> Job \cup {NoJob}]
  BY <1>2 DEF ChangeSettings
<1>6. \E n \in Nat : UsedUpTo(n)'
  BY <1>2 DEF NoticesInv, UsedUpTo
<1>7. UNCHANGED <<listeners, rows, lost, unread, deaths>>
      /\ \A j \in Jobs : Tried(j)' = Tried(j)
  BY DEF ChangeSettings, Tried
<1> QED BY <1>2, <1>3, <1>4, <1>5, <1>6, <1>7 DEF NoticesInv

\* What the worker does to the job of one listener.
LEMMA WorkerKeeps ==
    ASSUME NoticesInv, NEW j \in Jobs,
           TakeJob(j) \/ CompleteJob(j) \/ notificationQueueListener(j)
    PROVE  NoticesInv'
<1> USE DEF NoticesInv
<1>1. NoJob \notin Job /\ deaths \in Nat
  BY NoticesAssumption DEF NoJob, Job
<1>2. CASE TakeJob(j) \/ CompleteJob(j)
  <2>1. PICK pc \in {"taken", "completed"} :
          job' = [job EXCEPT ![j] = [job[j] EXCEPT !.pc = pc]]
    BY <1>2 DEF TakeJob, CompleteJob, Completes
  <2>2. job[j] # NoJob /\ job[j] \in Job /\ Wanted(job[j])
    BY <1>2 DEF TakeJob, CompleteJob, NoJob
  <2> DEFINE x == [job[j] EXCEPT !.pc = pc]
  <2>3. /\ x \in Job /\ x.pc # "queued" /\ x.to = job[j].to
        /\ x.kind = job[j].kind /\ x.late = job[j].late
    BY <2>2 DEF Job
  <2>4. job' = [job EXCEPT ![j] = x]
    BY <2>1
  <2> HIDE DEF x
  <2>5. UNCHANGED <<settings, sending, rows, lost, unread, deaths>>
    BY <1>2 DEF TakeJob, CompleteJob
  <2>6. job' \in [Jobs -> Job \cup {NoJob}]
    BY <2>3, <2>4
  <2>7. \A i \in Jobs : job'[i] = NoJob <=> job[i] = NoJob
    BY <1>1, <2>2, <2>3, <2>4
  <2>8. \E n \in Nat : UsedUpTo(n)'
    BY <2>7 DEF UsedUpTo
  <2>9. /\ listeners' \in [Jobs -> Nat]
        /\ Tried(j)' <= deaths + 1
        /\ \A i \in Jobs \ {j} : Tried(i)' = Tried(i)
    <3>1. CASE TakeJob(j)
      <4>1. Tried(j) <= deaths
        BY <2>2, <3>1 DEF TakeJob
      <4> QED BY <1>1, <3>1, <4>1 DEF TakeJob, Starts, Tried
    <3>2. CASE CompleteJob(j)
      BY <3>2 DEF CompleteJob, Tried
    <3> QED BY <1>2, <3>1, <3>2
  <2>10. ASSUME NEW i \in Jobs, job'[i] # NoJob
         PROVE  Wanted(job[i])'
    <3>1. CASE i = j
      BY <2>2, <2>3, <2>4, <2>5, <3>1 DEF Wanted
    <3>2. CASE i # j
      BY <2>4, <2>5, <2>10, <3>2 DEF Wanted
    <3> QED BY <3>1, <3>2
  <2>11. ASSUME NEW i \in Jobs
         PROVE  /\ job'[i] = NoJob => Tried(i)' = 0
                /\ job'[i] # NoJob /\ job'[i].pc = "queued" => Tried(i)' <= deaths
                /\ Tried(i)' <= deaths + 1
    <3>1. CASE i = j
      BY <1>1, <2>2, <2>3, <2>4, <2>9, <3>1
    <3>2. CASE i # j
      BY <2>4, <2>9, <3>2
    <3> QED BY <3>1, <3>2
  <2>12. sending' # NotSending => Wanted(sending)'
    BY <2>5 DEF Wanted
  <2> QED BY <2>5, <2>6, <2>8, <2>9, <2>10, <2>11, <2>12
<1>3. CASE notificationQueueListener(j)
  <2>1. /\ UNCHANGED <<settings, sending, job, deaths>>
        /\ unread' \subseteq Jobs
        /\ listeners[j] > 0 /\ listeners' = [listeners EXCEPT ![j] = @ - 1]
        /\ \/ rows' = [rows EXCEPT ![j] = @ + 1] /\ lost' = lost
           \/ lost' = [lost EXCEPT ![j] = @ + 1] /\ rows' = rows
    BY <1>3 DEF notificationQueueListener
  <2>2. \A i \in Jobs : Tried(i)' = Tried(i)
    BY <2>1 DEF Tried
  <2>3. /\ listeners' \in [Jobs -> Nat] /\ rows' \in [Jobs -> Nat]
        /\ lost' \in [Jobs -> Nat]
    BY <2>1
  <2>4. \E n \in Nat : UsedUpTo(n)'
    BY <2>1 DEF UsedUpTo
  <2>5. \A i \in Jobs : job[i] # NoJob => Wanted(job[i])'
    BY <2>1 DEF Wanted
  <2>6. sending # NotSending => Wanted(sending)'
    BY <2>1 DEF Wanted
  <2> QED BY <2>1, <2>2, <2>3, <2>4, <2>5, <2>6
<1> QED BY <1>2, <1>3

LEMMA DeathKeeps ==
    ASSUME NoticesInv, WorkerDies
    PROVE  NoticesInv'
<1> USE DEF NoticesInv
<1>1. NoJob \notin Job /\ deaths \in Nat /\ deaths' \in 0..MaxDeaths
      /\ deaths' = deaths + 1
  BY NoticesAssumption DEF NoJob, Job, WorkerDies
<1>2. UNCHANGED <<settings, sending, rows, unread>>
  BY DEF WorkerDies
<1>3. ASSUME NEW i \in Jobs
      PROVE  /\ listeners'[i] \in Nat /\ lost'[i] \in Nat
             /\ Tried(i)' = Tried(i)
  BY DEF WorkerDies, Tried
<1>4. ASSUME NEW i \in Jobs
      PROVE  /\ job'[i] \in Job \cup {NoJob}
             /\ job'[i] = NoJob <=> job[i] = NoJob
             /\ job'[i] # NoJob => Wanted(job[i])'
  <2>1. CASE job[i].pc = "taken"
    <3>1. job[i] \in Job /\ job[i] # NoJob /\ Wanted(job[i])
      BY <2>1 DEF NoJob
    <3> DEFINE x == [job[i] EXCEPT !.pc = "queued"]
    <3>2. /\ x \in Job /\ x.to = job[i].to /\ x.kind = job[i].kind
          /\ x.late = job[i].late /\ job'[i] = x
      BY <2>1, <3>1 DEF Job, WorkerDies
    <3> HIDE DEF x
    <3> QED BY <1>1, <1>2, <3>1, <3>2 DEF Wanted
  <2>2. CASE job[i].pc # "taken"
    <3>1. job'[i] = job[i]
      BY <2>2 DEF WorkerDies
    <3> QED BY <1>2, <3>1 DEF Wanted
  <2> QED BY <2>1, <2>2
<1>5. /\ job' \in [Jobs -> Job \cup {NoJob}]
      /\ listeners' \in [Jobs -> Nat] /\ lost' \in [Jobs -> Nat]
  BY <1>3, <1>4 DEF WorkerDies
<1>6. \E n \in Nat : UsedUpTo(n)'
  BY <1>4 DEF UsedUpTo
<1>7. ASSUME NEW i \in Jobs
      PROVE  /\ job'[i] = NoJob => Tried(i)' = 0
             /\ Tried(i)' <= deaths'
  BY <1>1, <1>3, <1>4
<1>8. ASSUME NEW i \in Jobs
      PROVE  Tried(i)' \in Int /\ Tried(i)' <= deaths' + 1
  BY <1>1, <1>3, <1>5, <1>7 DEF Tried
<1>9. sending' # NotSending => Wanted(sending)'
  BY <1>2 DEF Wanted
<1> QED BY <1>1, <1>2, <1>4, <1>5, <1>6, <1>7, <1>8, <1>9

LEMMA NoticesInvStep ==
    ASSUME NoticesInv, [NoticesNext]_noticeVars
    PROVE  NoticesInv'
<1>1. ASSUME UNCHANGED <<settings, sending, job, listeners, rows, lost, deaths>>,
             unread' \subseteq Jobs
      PROVE  NoticesInv'
  <2>1. \A i \in Jobs : Tried(i)' = Tried(i) /\ (Wanted(job[i])' <=> Wanted(job[i]))
    BY <1>1 DEF Tried, Wanted
  <2>2. sending # NotSending => Wanted(sending)'
    BY <1>1 DEF NoticesInv, Wanted
  <2>3. \E n \in Nat : UsedUpTo(n)'
    BY <1>1 DEF NoticesInv, UsedUpTo
  <2> QED BY <1>1, <2>1, <2>2, <2>3 DEF NoticesInv
<1>2. ASSUME NEW m \in Users, markAllAsRead(m) \/ clearNotifications(m)
      PROVE  NoticesInv'
  BY <1>1, <1>2 DEF markAllAsRead, clearNotifications, NoticesInv
<1>3. ASSUME NEW j \in Jobs, markAsRead(j)
      PROVE  NoticesInv'
  BY <1>1, <1>3 DEF markAsRead, NoticesInv
<1>4. CASE UNCHANGED noticeVars
  BY <1>1, <1>4 DEF noticeVars, NoticesInv
<1>5. ASSUME NEW m \in Users, NEW k \in Kinds, sendNotification(m, k)
      PROVE  NoticesInv'
  <2>1. CASE k \in Fanned
    <3>1. fanoutNotification(k)
      BY <1>5, <2>1 DEF sendNotification
    <3>2. sending' = sending
          /\ UNCHANGED <<settings, listeners, rows, lost, unread, deaths>>
      BY <3>1 DEF fanoutNotification
    <3>3. Appends
      BY <2>1, <3>1, FanoutAppends
    <3> QED BY <3>2, <3>3, AppendsKeeps
  <2>2. CASE k \notin Fanned
    <3>1. createAndQueueNotification(m, k)
      BY <1>5, <2>2 DEF sendNotification
    <3> DEFINE x == [pc |-> "queue", to |-> m, kind |-> k, late |-> FALSE]
    <3>2. x \in Sending /\ x.to = m /\ x.kind = k
      BY <2>2 DEF Sending, Kinds
    <3>3. sending' = x /\ k \in settings[m]
          /\ UNCHANGED <<settings, job, listeners, rows, lost, unread, deaths>>
      BY <3>1 DEF createAndQueueNotification, isNotificationEnabled
    <3> HIDE DEF x
    <3>4. Wanted(sending)'
      BY <3>2, <3>3 DEF Wanted
    <3>5. \A i \in Jobs : Tried(i)' = Tried(i) /\ (Wanted(job[i])' <=> Wanted(job[i]))
      BY <3>3 DEF Tried, Wanted
    <3>6. \E n \in Nat : UsedUpTo(n)'
      BY <3>3 DEF NoticesInv, UsedUpTo
    <3> QED BY <3>2, <3>3, <3>4, <3>5, <3>6 DEF NoticesInv
  <2> QED BY <2>1, <2>2
<1>6. CASE AddJob
  <2>1. /\ UNCHANGED <<settings, listeners, rows, lost, unread, deaths>>
        /\ sending' = NotSending
    BY <1>6 DEF AddJob
  <2> QED BY <1>6, <2>1, AddJobAppends, AppendsKeeps
<1>7. ASSUME NEW m \in Users, NEW S \in {Kinds, {}}, ChangeSettings(m, S)
      PROVE  NoticesInv'
  BY <1>7, SettingsKeep
<1> QED BY <1>2, <1>3, <1>4, <1>5, <1>6, <1>7, WorkerKeeps, DeathKeeps
        DEF NoticesNext

\* The state of the notifications is well typed: no listener, row or failure is
\* counted beyond one for each time the worker died, and one.
THEOREM NoticesTypes == NoticesSpec => []NoticesTypeOK
  BY NoticesInvInit, NoticesInvStep, NoticesInvType, PTL DEF NoticesSpec

\* A notification its member turned off is one of the kinds that go to everyone
\* or was decided before the change (notification.service.ts).
THEOREM NoticesAreWanted == NoticesSpec => []UnwantedIsLate
<1>1. NoticesInv => UnwantedIsLate
  BY DEF NoticesInv, UnwantedIsLate, Wanted
<1> QED BY <1>1, NoticesInvInit, NoticesInvStep, PTL DEF NoticesSpec

\* A member is told of a job once, and once more for each death of the worker.
THEOREM NoticesAreFew == NoticesSpec => []NoticesAreNotRepeated
<1>1. NoticesInv => NoticesAreNotRepeated
  <2> SUFFICES ASSUME NoticesInv, NEW j \in Jobs
               PROVE  rows[j] + listeners[j] <= 1 + deaths
    BY DEF NoticesAreNotRepeated
  <2>1. /\ rows[j] \in Nat /\ listeners[j] \in Nat /\ lost[j] \in Nat
        /\ deaths \in Nat /\ rows[j] + listeners[j] + lost[j] <= deaths + 1
    BY NoticesAssumption DEF NoticesInv, Tried
  <2> QED BY <2>1
<1> QED BY <1>1, NoticesInvInit, NoticesInvStep, PTL DEF NoticesSpec

-----------------------------------------------------------------------------
(* The run is both of its parts: whatever is proved of one holds in every
   behaviour of the two, which move one at a time. *)
THEOREM MembersAndNotices == MCSpec => MembersSpec /\ NoticesSpec
<1>1. MCInit => MembersInit /\ NoticesInit
    BY DEF MCInit
<1>2. [MCNext]_<<part, memberVars, noticeVars>> =>
        [MembersNext]_memberVars /\ [NoticesNext]_noticeVars
    BY DEF MCNext
<1>. QED BY <1>1, <1>2, PTL DEF MCSpec, MembersSpec, NoticesSpec

(* MCTypeOK: both parts together are well typed. *)
THEOREM MembersAndNoticesTypes == MCSpec => []MCTypeOK
  BY MembersAndNotices, MemberTypes, NoticesTypes, PTL DEF MCTypeOK
=============================================================================
