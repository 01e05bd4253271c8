------------------------------- MODULE Points --------------------------------
(***************************************************************************)
(* Points and tiers of a member (points.service.ts): batches of points     *)
(* awarded by a rule, the balance kept beside them, the tier computed from *)
(* what was earned in each tier's window, and the expiry of batches.       *)
(*                                                                         *)
(* Every operation reads first and writes in one transaction later, and    *)
(* nothing locks the rows in between: what was read may have been changed  *)
(* by another request.  (Redemption has no route and is left out.)         *)
(***************************************************************************)
EXTENDS Functions, Integers, Sequences

CONSTANTS
    Amounts,        \* amounts a booking is paid with
    BasePoints, UnitAmount,      \* the rule, per unit
    ExpiryTime,     \* the rule's expiry; 0 for never
    Tiers,          \* number of tiers, which are 1..Tiers, the highest first
    MinPoints, Duration, Multiplier,   \* of each tier; the last in percent
    PointRequests,  \* requests at once
    MaxBatches, MaxRecalcs, MaxNow     \* bounds: batches, recalculations, time

NoTier == 0
TierIds == 1..Tiers

ASSUME PointsAssumption ==
    /\ Amounts \subseteq Nat /\ UnitAmount \in Nat \ {0}
    /\ BasePoints \in Nat /\ Tiers \in Nat
    /\ MaxBatches \in Nat /\ MaxNow \in Nat
    /\ \A t \in TierIds : MinPoints[t] \in Nat /\ Multiplier[t] \in Nat
    /\ \A t \in TierIds : Duration[t] \in Nat

VARIABLES
    batches,        \* rows of RewardPoints, as they were awarded
    currentPoints, tierId,   \* columns of UserLoyalty
    tierHistory,    \* rows of TierHistory, <<oldTierId, newTierId>>
    points,         \* points[r]: where request r stands
    now,            \* the time
    overlapped      \* two requests of one kind that read before either wrote

pointVars == <<batches, currentPoints, tierId, tierHistory, points, now,
               overlapped>>

Batch == [points : Nat, status : {"ACTIVE", "EXPIRED"}, earnedAt : 0..MaxNow]

PointsIdle == [pc |-> "idle"]
PointsAt == [pc : {"award"}, points : Nat]
            \cup [pc : {"expire"}, due : SUBSET (1..MaxBatches)]
            \cup [pc : {"choose", "set tier"}, old : 0..Tiers, new : 0..Tiers]

PointsTypeOK ==
    /\ batches \in Seq(Batch) /\ Len(batches) <= MaxBatches
    /\ currentPoints \in Int
    /\ tierId \in 0..Tiers
    /\ tierHistory \in Seq((0..Tiers) \X (0..Tiers))
    /\ points \in [PointRequests -> PointsAt \cup {PointsIdle}]
    /\ now \in 0..MaxNow
    /\ overlapped \subseteq {"expire", "recalc"}

PointsInit ==
    /\ batches = <<>>
    /\ currentPoints = 0
    /\ tierId = NoTier
    /\ tierHistory = <<>>
    /\ points = [r \in PointRequests |-> PointsIdle]
    /\ now = 0
    /\ overlapped = {}

-----------------------------------------------------------------------------

Rows == 1..Len(batches)
SumOf(S) == SumFunctionOnSet([b \in Rows |-> batches[b].points], S)

Active == {b \in Rows : batches[b].status = "ACTIVE"}

PointsDone(r) == points' = [points EXCEPT ![r] = PointsIdle]

(* Whole units earn the base, times the multiplier of the tier, rounded
   down. *)
calcPointsFromRule(tier, amount) ==
    LET earned == (amount \div UnitAmount) * BasePoints
    IN  IF tier = NoTier THEN earned ELSE (earned * Multiplier[tier]) \div 100

(* The rule and the tier are read; nothing is awarded for no points. *)
StartAward(r, amount) ==
    /\ points[r] = PointsIdle
    /\ Len(batches) < MaxBatches
    /\ calcPointsFromRule(tierId, amount) > 0
    /\ points' = [points EXCEPT ![r] =
            [pc |-> "award", points |-> calcPointsFromRule(tierId, amount)]]
    /\ UNCHANGED <<batches, currentPoints, tierId, tierHistory, now,
                   overlapped>>

(* The batch and the increment of the balance, in one transaction. *)
awardPoints(r) ==
    /\ points[r].pc = "award"
    /\ Len(batches) < MaxBatches
    /\ batches' = Append(batches, [points |-> points[r].points,
                                   status |-> "ACTIVE", earnedAt |-> now])
    /\ currentPoints' = currentPoints + points[r].points
    /\ PointsDone(r)
    /\ UNCHANGED <<tierId, tierHistory, now, overlapped>>

-----------------------------------------------------------------------------
(* Expiry. *)

\* A slip: the query forgets the status.
DueOnceMore == {b \in Rows : ExpiryTime > 0
                             /\ batches[b].earnedAt + ExpiryTime <= now}
Due == {b \in Active : ExpiryTime > 0
                       /\ batches[b].earnedAt + ExpiryTime <= now}

InStep(pcs) == \E q \in PointRequests : points[q].pc \in pcs

(* The oldest of the batches that are due, up to the limit of the call. *)
StartExpire(r) ==
    /\ points[r] = PointsIdle
    /\ \E n \in Due :
         LET due == {b \in Due : b <= n}
         IN  points' = [points EXCEPT ![r] = [pc |-> "expire", due |-> due]]
    /\ overlapped' = IF InStep({"expire"}) THEN overlapped \cup {"expire"}
                     ELSE overlapped
    /\ UNCHANGED <<batches, currentPoints, tierId, tierHistory, now>>

(* All that were read are marked, and what they held is subtracted. *)
expireJob(r) ==
    /\ points[r].pc = "expire"
    /\ batches' = [b \in Rows |-> IF b \in points[r].due
                                  THEN [batches[b] EXCEPT !.status = "EXPIRED"]
                                  ELSE batches[b]]
    /\ currentPoints' = currentPoints - SumOf(points[r].due)
    /\ PointsDone(r)
    /\ UNCHANGED <<tierId, tierHistory, now, overlapped>>

-----------------------------------------------------------------------------
(* Tiers. *)

(* What was earned in the window of tier t, expired since or not. *)
InWindow(t) == SumOf({b \in Rows : batches[b].earnedAt >= now - Duration[t]})

\* A slip: each tier is compared with the tier below it.
ReachesBelow(t) == t = Tiers \/ InWindow(t) >= MinPoints[t + 1]
Reaches(t) == InWindow(t) >= MinPoints[t]

(* The tiers are gone through from the highest: the first reached. *)
Chosen == IF \E t \in TierIds : Reaches(t)
          THEN CHOOSE t \in TierIds : /\ Reaches(t)
                                      /\ \A u \in 1..(t - 1) : ~Reaches(u)
          ELSE NoTier

ChooseTier(r) ==
    /\ points[r] = PointsIdle
    /\ Len(tierHistory) < MaxRecalcs
    /\ points' = [points EXCEPT ![r] =
            [pc |-> "choose", old |-> NoTier, new |-> Chosen]]
    /\ overlapped' = IF InStep({"choose", "set tier"})
                     THEN overlapped \cup {"recalc"} ELSE overlapped
    /\ UNCHANGED <<batches, currentPoints, tierId, tierHistory, now>>

(* The tier the member has is read after that; the same one ends it. *)
ReadTier(r) ==
    /\ points[r].pc = "choose"
    /\ points' = [points EXCEPT ![r] =
            IF points[r].new = tierId THEN PointsIdle
            ELSE [pc |-> "set tier", old |-> tierId, new |-> points[r].new]]
    /\ UNCHANGED <<batches, currentPoints, tierId, tierHistory, now,
                   overlapped>>

\* A slip: the history tells the tier that was chosen, and not the one left.
HistoryOfNew(r) == <<points[r].new, points[r].new>>
HistoryRow(r) == <<points[r].old, points[r].new>>

recalcTier(r) ==
    /\ points[r].pc = "set tier"
    /\ tierId' = points[r].new
    /\ tierHistory' = Append(tierHistory, HistoryRow(r))
    /\ PointsDone(r)
    /\ UNCHANGED <<batches, currentPoints, now, overlapped>>

-----------------------------------------------------------------------------

(* A query fails or the process dies: nothing was written yet. *)
PointsDie(r) ==
    /\ points[r] # PointsIdle
    /\ PointsDone(r)
    /\ UNCHANGED <<batches, currentPoints, tierId, tierHistory, now,
                   overlapped>>

TimePasses ==
    /\ now < MaxNow
    /\ now' = now + 1
    /\ UNCHANGED <<batches, currentPoints, tierId, tierHistory, points,
                   overlapped>>

PointsNext ==
    \/ \E r \in PointRequests :
        \/ \E amount \in Amounts : StartAward(r, amount)
        \/ awardPoints(r) \/ StartExpire(r) \/ expireJob(r)
        \/ ChooseTier(r) \/ ReadTier(r) \/ recalcTier(r) \/ PointsDie(r)
    \/ TimePasses

PointsSpec == PointsInit /\ [][PointsNext]_pointVars

-----------------------------------------------------------------------------
(* Properties. *)

(* The balance beside the batches never shows points that are not there, and
   shows exactly those of the active batches as long as no expiry started
   while another was under way (two subtract the same batch twice). *)
BalanceMatchesBatches ==
    /\ currentPoints <= SumOf(Active)
    /\ "expire" \notin overlapped => currentPoints = SumOf(Active)

(* Who has a tier has once earned what it takes, however the awards, the
   windows and two recalculations fall. *)
TierWasEarned == tierId # NoTier => SumOf(Rows) >= MinPoints[tierId]

(* The history of the tiers is a chain that ends at the tier the member has,
   each row starting where the one before it ended, unless two
   recalculations overlapped. *)
HistoryIsAChain ==
    /\ tierHistory # <<>> => tierHistory[Len(tierHistory)][2] = tierId
    /\ "recalc" \notin overlapped =>
        \A i \in 1..Len(tierHistory) :
            tierHistory[i][1] = IF i = 1 THEN NoTier ELSE tierHistory[i - 1][2]

(* Balance, tiers and their history agree with the batches of points
   (points.service). *)
PointsAddUp == BalanceMatchesBatches /\ TierWasEarned /\ HistoryIsAChain
=============================================================================
