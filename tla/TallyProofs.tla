------------------------------ MODULE TallyProofs ------------------------------
(***************************************************************************)
(* Proofs about what is counted, summed and ranked: the chunks of tickets  *)
(* and the collections of Catalog, the batches of points and the tiers of  *)
(* Points, and the pages of Listings.                                      *)
(*                                                                         *)
(* The first two rest on lemmas about the community modules'               *)
(* SumFunctionOnSet: that the sum of a finite set of summands unrolls to   *)
(* any one of them and the rest, which is all their inductive invariants   *)
(* need.  The pages rest on the rank of a row, the number of rows as new   *)
(* as it is: in a sorted list a row stands where its rank says, a page     *)
(* holds the rows of consecutive ranks, and whatever a client passes by    *)
(* number or by cursor is a range of ranks it has seen.                    *)
(*                                                                         *)
(* The last section puts the parts of the platform together: MCPlatform    *)
(* implements each of them, so the theorems of this module, AccountProofs  *)
(* and MarketProofs hold of it.                                            *)
(***************************************************************************)
EXTENDS MCPlatform, AccountProofs, MarketProofs, FiniteSetTheorems,
        SequenceTheorems, WellFoundedInduction, TLAPS

-----------------------------------------------------------------------------
(* Sums. *)

Pick(T) == CHOOSE x \in T : TRUE
Sum(f, T) == SumFunctionOnSet(f, T)

Unrolls(f, S, g) ==
    g = [s \in SUBSET S |-> IF s = {} THEN 0 ELSE f[Pick(s)] + g[s \ {Pick(s)}]]

UnrollsOn(f, S, g) ==
    \A s \in SUBSET S :
        g[s] = IF s = {} THEN 0 ELSE f[Pick(s)] + g[s \ {Pick(s)}]

SumUnrollsAt(f, T) ==
    Sum(f, T) = IF T = {} THEN 0 ELSE f[Pick(T)] + Sum(f, T \ {Pick(T)})

(* A set of subsets of a finite set that has a subset whenever it has all
   smaller ones has them all. *)
LEMMA SubsetInduction ==
    ASSUME NEW S, IsFiniteSet(S), NEW G \in SUBSET SUBSET S,
           \A T \in SUBSET S :
                (\A U \in SUBSET T : U # T => U \in G) => T \in G
    PROVE  \A T \in SUBSET S : T \in G
<1>1. SUFFICES ASSUME (SUBSET S) \ G # {} PROVE FALSE
    OBVIOUS
<1>2. IsWellFoundedOn(StrictSubsetOrdering(S), SUBSET S)
    BY FS_StrictSubsetOrderingWellFounded, FS_FiniteSubsetsOfFinite
<1>3. PICK T \in (SUBSET S) \ G : \A U \in (SUBSET S) \ G :
            ~(<<U, T>> \in StrictSubsetOrdering(S))
  <2> DEFINE R == StrictSubsetOrdering(S)
             All == SUBSET S
             Bad == (SUBSET S) \ G
  <2>1. Bad \subseteq All /\ Bad # {} /\ IsWellFoundedOn(R, All)
    BY <1>1, <1>2
  <2> HIDE DEF R, All, Bad
  <2>2. \E T \in Bad : \A U \in Bad : ~(<<U, T>> \in R)
    BY <2>1, WFMin
  <2>. QED BY <2>2 DEF R, Bad
<1>4. \A U \in SUBSET T : U # T => U \in G
    BY <1>3 DEF StrictSubsetOrdering
<1>. QED BY <1>3, <1>4

LEMMA SumIsChosen ==
    ASSUME NEW f, NEW T
    PROVE  Sum(f, T) = (CHOOSE g : Unrolls(f, T, g))[T]
BY DEF Sum, Unrolls, Pick, SumFunctionOnSet, FoldFunctionOnSet, MapThenFoldSet

LEMMA PickIsIn == ASSUME NEW T, T # {} PROVE Pick(T) \in T
BY DEF Pick

(* There is at most one function that unrolls. *)
LEMMA UnrollsOnce ==
    ASSUME NEW f, NEW S, IsFiniteSet(S), NEW g, NEW h,
           Unrolls(f, S, g), UnrollsOn(f, S, h)
    PROVE  \A T \in SUBSET S : g[T] = h[T]
<1> DEFINE G == {T \in SUBSET S : g[T] = h[T]}
<1>1. ASSUME NEW T \in SUBSET S, \A U \in SUBSET T : U # T => U \in G
      PROVE  T \in G
  <2>1. g[T] = IF T = {} THEN 0 ELSE f[Pick(T)] + g[T \ {Pick(T)}]
    BY DEF Unrolls
  <2>2. CASE T = {}
    BY <2>1, <2>2 DEF UnrollsOn
  <2>3. CASE T # {}
    <3>1. T \ {Pick(T)} \in SUBSET T /\ T \ {Pick(T)} # T
        BY <2>3, PickIsIn
    <3>2. g[T \ {Pick(T)}] = h[T \ {Pick(T)}]
        BY <3>1, <1>1
    <3>. QED BY <2>1, <2>3, <3>2 DEF UnrollsOn
  <2>. QED BY <2>2, <2>3
<1> HIDE DEF G
<1>2. G \in SUBSET SUBSET S
    BY DEF G
<1>3. \A T \in SUBSET S : T \in G
    BY <1>1, <1>2, SubsetInduction, Zenon
<1>. QED BY <1>3 DEF G

(* The sum of a finite set is that of the picked element and the rest. *)
LEMMA SumUnrolls ==
    ASSUME NEW f, NEW S, IsFiniteSet(S)
    PROVE  \A T \in SUBSET S : SumUnrollsAt(f, T)
<1> DEFINE G == {T \in SUBSET S : SumUnrollsAt(f, T)}
<1>1. ASSUME NEW T \in SUBSET S, \A U \in SUBSET T : U # T => U \in G
      PROVE  T \in G
  <2> DEFINE rest == T \ {Pick(T)}
             top == IF T = {} THEN 0 ELSE f[Pick(T)] + Sum(f, rest)
             w == [s \in SUBSET T |-> IF s = T THEN top ELSE Sum(f, s)]
             c == CHOOSE g : Unrolls(f, T, g)
  <2>0. \A s \in SUBSET T : s # T => SumUnrollsAt(f, s)
    BY <1>1
  <2>1. T # {} => rest \in SUBSET T /\ rest # T
    BY PickIsIn
  <2>2. UnrollsOn(f, T, w)
    <3>1. SUFFICES ASSUME NEW s \in SUBSET T
            PROVE  w[s] = IF s = {} THEN 0
                          ELSE f[Pick(s)] + w[s \ {Pick(s)}]
        BY DEF UnrollsOn
    <3>2. CASE s = T
        BY <3>2, <2>1
    <3>3. CASE s # T /\ s = {}
        BY <3>3, <2>0 DEF SumUnrollsAt
    <3>4. CASE s # T /\ s # {}
        <4>1. s \ {Pick(s)} \in SUBSET T /\ s \ {Pick(s)} # T
            BY <3>4, PickIsIn
        <4>2. Sum(f, s) = f[Pick(s)] + Sum(f, s \ {Pick(s)})
            BY <3>4, <2>0 DEF SumUnrollsAt
        <4>. QED BY <3>4, <4>1, <4>2
    <3>. QED BY <3>2, <3>3, <3>4
  <2> HIDE DEF w, top
  <2>3. Unrolls(f, T, w)
    <3>1. w = [s \in SUBSET T |-> w[s]]
        BY DEF w
    <3>. QED BY <3>1, <2>2 DEF Unrolls, UnrollsOn
  <2>4. Unrolls(f, T, c)
    BY <2>3
  <2>5. Sum(f, T) = c[T]
    BY SumIsChosen
  <2> HIDE DEF c
  <2>6. IsFiniteSet(T)
    BY FS_Subset
  <2>7. \A s \in SUBSET T : c[s] = w[s]
    BY <2>2, <2>4, <2>6, UnrollsOnce
  <2>8. Sum(f, T) = top
    BY <2>5, <2>7 DEF w
  <2>. QED BY <2>8 DEF top, SumUnrollsAt
<1> HIDE DEF G
<1>2. G \in SUBSET SUBSET S
    BY DEF G
<1>3. \A T \in SUBSET S : T \in G
    BY <1>1, <1>2, SubsetInduction, Zenon
<1>. QED BY <1>3 DEF G

IntsOn(f, S) == \A x \in S : f[x] \in Int
NatsOn(f, S) == \A x \in S : f[x] \in Nat

LEMMA SumIsInt ==
    ASSUME NEW f, NEW S, IsFiniteSet(S), IntsOn(f, S)
    PROVE  \A T \in SUBSET S : Sum(f, T) \in Int
<1> DEFINE G == {T \in SUBSET S : Sum(f, T) \in Int}
<1>1. ASSUME NEW T \in SUBSET S, \A U \in SUBSET T : U # T => U \in G
      PROVE  T \in G
  <2>1. SumUnrollsAt(f, T)
    BY SumUnrolls
  <2>2. CASE T = {}
    BY <2>1, <2>2 DEF SumUnrollsAt
  <2>3. CASE T # {}
    <3>1. PICK x \in T : x = Pick(T)
        BY <2>3, PickIsIn
    <3>2. Sum(f, T \ {x}) \in Int
        BY <1>1, <3>1
    <3>3. f[x] \in Int
        BY DEF IntsOn
    <3>4. Sum(f, T) = f[x] + Sum(f, T \ {x})
        BY <2>1, <2>3, <3>1 DEF SumUnrollsAt
    <3>. QED BY <3>2, <3>3, <3>4
  <2>. QED BY <2>2, <2>3
<1> HIDE DEF G
<1>2. G \in SUBSET SUBSET S
    BY DEF G
<1>3. \A T \in SUBSET S : T \in G
    BY <1>1, <1>2, SubsetInduction, Zenon
<1>. QED BY <1>3 DEF G

(* ... and so it is that of any element and the rest. *)
SumTakesAt(f, T) == \A x \in T : Sum(f, T) = f[x] + Sum(f, T \ {x})

LEMMA SumTakes ==
    ASSUME NEW f, NEW S, IsFiniteSet(S), IntsOn(f, S)
    PROVE  \A T \in SUBSET S : SumTakesAt(f, T)
<1> DEFINE G == {T \in SUBSET S : SumTakesAt(f, T)}
<1>1. ASSUME NEW T \in SUBSET S, \A U \in SUBSET T : U # T => U \in G
      PROVE  T \in G
  <2>1. SUFFICES ASSUME NEW x \in T PROVE Sum(f, T) = f[x] + Sum(f, T \ {x})
    BY DEF SumTakesAt
  <2>2. PICK p \in T : p = Pick(T)
    BY PickIsIn
  <2>3. Sum(f, T) = f[p] + Sum(f, T \ {p})
    BY <2>2, SumUnrolls DEF SumUnrollsAt
  <2>4. CASE x = p
    BY <2>3, <2>4
  <2>5. CASE x # p
    <3>1. /\ T \ {p} \in SUBSET T /\ T \ {p} # T
          /\ T \ {x} \in SUBSET T /\ T \ {x} # T
        OBVIOUS
    <3>2. SumTakesAt(f, T \ {p}) /\ SumTakesAt(f, T \ {x})
        BY <3>1, <1>1
    <3>3. Sum(f, T \ {p}) = f[x] + Sum(f, (T \ {p}) \ {x})
        BY <2>5, <3>2 DEF SumTakesAt
    <3>4. Sum(f, T \ {x}) = f[p] + Sum(f, (T \ {x}) \ {p})
        BY <2>5, <3>2 DEF SumTakesAt
    <3>5. (T \ {p}) \ {x} = (T \ {x}) \ {p}
        OBVIOUS
    <3>6. PICK r \in Int : r = Sum(f, (T \ {x}) \ {p})
        BY SumIsInt
    <3>7. f[x] \in Int /\ f[p] \in Int
        BY DEF IntsOn
    <3>8. Sum(f, T \ {p}) = f[x] + r /\ Sum(f, T \ {x}) = f[p] + r
        BY <3>3, <3>4, <3>5, <3>6
    <3>. QED BY <2>3, <3>7, <3>8
  <2>. QED BY <2>4, <2>5
<1> HIDE DEF G
<1>2. G \in SUBSET SUBSET S
    BY DEF G
<1>3. \A T \in SUBSET S : T \in G
    BY <1>1, <1>2, SubsetInduction, Zenon
<1>. QED BY <1>3 DEF G

(* Functions that agree on the summands have the same sum. *)
AgreeOn(f, g, S) == \A x \in S : f[x] = g[x]

LEMMA SumAgrees ==
    ASSUME NEW f, NEW g, NEW S, IsFiniteSet(S), AgreeOn(f, g, S)
    PROVE  \A T \in SUBSET S : Sum(f, T) = Sum(g, T)
<1> DEFINE G == {T \in SUBSET S : Sum(f, T) = Sum(g, T)}
<1>1. ASSUME NEW T \in SUBSET S, \A U \in SUBSET T : U # T => U \in G
      PROVE  T \in G
  <2>1. SumUnrollsAt(f, T) /\ SumUnrollsAt(g, T)
    BY SumUnrolls
  <2>2. CASE T = {}
    BY <2>1, <2>2 DEF SumUnrollsAt
  <2>3. CASE T # {}
    <3>1. PICK x \in T : x = Pick(T)
        BY <2>3, PickIsIn
    <3>2. Sum(f, T \ {x}) = Sum(g, T \ {x})
        BY <1>1, <3>1
    <3>3. f[x] = g[x]
        BY DEF AgreeOn
    <3>4. /\ Sum(f, T) = f[x] + Sum(f, T \ {x})
          /\ Sum(g, T) = g[x] + Sum(g, T \ {x})
        BY <2>1, <2>3, <3>1 DEF SumUnrollsAt
    <3>. QED BY <3>2, <3>3, <3>4
  <2>. QED BY <2>2, <2>3
<1> HIDE DEF G
<1>2. G \in SUBSET SUBSET S
    BY DEF G
<1>3. \A T \in SUBSET S : T \in G
    BY <1>1, <1>2, SubsetInduction, Zenon
<1>. QED BY <1>3 DEF G

LEMMA SumOfZeros ==
    ASSUME NEW f, NEW S, IsFiniteSet(S), \A x \in S : f[x] = 0
    PROVE  \A T \in SUBSET S : Sum(f, T) = 0
<1> DEFINE G == {T \in SUBSET S : Sum(f, T) = 0}
<1>1. ASSUME NEW T \in SUBSET S, \A U \in SUBSET T : U # T => U \in G
      PROVE  T \in G
  <2>1. SumUnrollsAt(f, T)
    BY SumUnrolls
  <2>2. CASE T = {}
    BY <2>1, <2>2 DEF SumUnrollsAt
  <2>3. CASE T # {}
    <3>1. PICK x \in T : x = Pick(T)
        BY <2>3, PickIsIn
    <3>2. Sum(f, T \ {x}) = 0 /\ f[x] = 0
        BY <1>1, <3>1
    <3>3. Sum(f, T) = f[x] + Sum(f, T \ {x})
        BY <2>1, <2>3, <3>1 DEF SumUnrollsAt
    <3>. QED BY <3>2, <3>3
  <2>. QED BY <2>2, <2>3
<1> HIDE DEF G
<1>2. G \in SUBSET SUBSET S
    BY DEF G
<1>3. \A T \in SUBSET S : T \in G
    BY <1>1, <1>2, SubsetInduction, Zenon
<1>. QED BY <1>3 DEF G

(* The sum of a part and that of the rest make the sum of the whole. *)
LEMMA SumSplits ==
    ASSUME NEW f, NEW S, IsFiniteSet(S), IntsOn(f, S)
    PROVE  \A T \in SUBSET S : Sum(f, S) = Sum(f, T) + Sum(f, S \ T)
<1> DEFINE G == {T \in SUBSET S : Sum(f, S) = Sum(f, T) + Sum(f, S \ T)}
<1>1. ASSUME NEW T \in SUBSET S, \A U \in SUBSET T : U # T => U \in G
      PROVE  T \in G
  <2>2. CASE T = {}
    <3>1. Sum(f, T) = 0
        BY <2>2, SumUnrolls DEF SumUnrollsAt
    <3>2. S \ T = S /\ Sum(f, S) \in Int
        BY <2>2, SumIsInt
    <3>. QED BY <3>1, <3>2
  <2>3. CASE T # {}
    <3>1. PICK x \in T : TRUE
        BY <2>3
    <3>2. PICK U \in SUBSET T : U = T \ {x}
        OBVIOUS
    <3>3. U # T
        BY <3>1, <3>2
    <3>4. Sum(f, S) = Sum(f, U) + Sum(f, S \ U)
        BY <1>1, <3>3
    <3>5. Sum(f, T) = f[x] + Sum(f, U)
        BY <3>1, <3>2, SumTakes DEF SumTakesAt
    <3>6. (S \ U) \ {x} = S \ T /\ x \in S \ U /\ S \ U \in SUBSET S
        BY <3>1, <3>2
    <3>7. Sum(f, S \ U) = f[x] + Sum(f, S \ T)
        BY <3>6, SumTakes DEF SumTakesAt
    <3>8. Sum(f, U) \in Int /\ Sum(f, S \ T) \in Int /\ f[x] \in Int
        BY <3>2, SumIsInt DEF IntsOn
    <3>. QED BY <3>4, <3>5, <3>7, <3>8
  <2>. QED BY <2>2, <2>3
<1> HIDE DEF G
<1>2. G \in SUBSET SUBSET S
    BY DEF G
<1>3. \A T \in SUBSET S : T \in G
    BY <1>1, <1>2, SubsetInduction, Zenon
<1>. QED BY <1>3 DEF G

(* What is not negative does not sum to less than a part of it does. *)
LEMMA SumGrows ==
    ASSUME NEW f, NEW S, IsFiniteSet(S), NatsOn(f, S)
    PROVE  \A T \in SUBSET S : Sum(f, T) \in Nat /\ Sum(f, T) <= Sum(f, S)
<1> DEFINE G == {T \in SUBSET S : Sum(f, T) \in Nat}
<1>1. ASSUME NEW T \in SUBSET S, \A U \in SUBSET T : U # T => U \in G
      PROVE  T \in G
  <2>1. SumUnrollsAt(f, T)
    BY SumUnrolls
  <2>2. CASE T = {}
    BY <2>1, <2>2 DEF SumUnrollsAt
  <2>3. CASE T # {}
    <3>1. PICK x \in T : x = Pick(T)
        BY <2>3, PickIsIn
    <3>2. Sum(f, T \ {x}) \in Nat
        BY <1>1, <3>1
    <3>3. f[x] \in Nat
        BY DEF NatsOn
    <3>4. Sum(f, T) = f[x] + Sum(f, T \ {x})
        BY <2>1, <2>3, <3>1 DEF SumUnrollsAt
    <3>. QED BY <3>2, <3>3, <3>4
  <2>. QED BY <2>2, <2>3
<1> HIDE DEF G
<1>2. G \in SUBSET SUBSET S
    BY DEF G
<1>3. \A T \in SUBSET S : T \in G
    BY <1>1, <1>2, SubsetInduction, Zenon
<1>4. \A T \in SUBSET S : Sum(f, T) \in Nat
    BY <1>3 DEF G
<1>5. SUFFICES ASSUME NEW T \in SUBSET S PROVE Sum(f, T) <= Sum(f, S)
    BY <1>4
<1>6. IntsOn(f, S)
    BY DEF IntsOn, NatsOn
<1>7. Sum(f, S) = Sum(f, T) + Sum(f, S \ T)
    BY <1>6, SumSplits
<1>. QED BY <1>4, <1>7

-----------------------------------------------------------------------------
(* Points and tiers. *)

Recalculating(r) == points[r].pc \in {"choose", "set tier"}

DuesAreRows ==
    \A r \in PointRequests :
        points[r].pc = "expire" => points[r].due \subseteq Rows

(* An expiry that is alone subtracts batches that are active still. *)
BalanceInv ==
    /\ BalanceMatchesBatches
    /\ DuesAreRows
    /\ "expire" \notin overlapped =>
        \A r, q \in PointRequests :
            points[r].pc = "expire" =>
                /\ points[r].due \subseteq Active
                /\ points[q].pc = "expire" => q = r

(* A tier that was chosen has been earned before it is written. *)
TierInv ==
    /\ TierWasEarned
    /\ \A r \in PointRequests :
            Recalculating(r) /\ points[r].new # NoTier =>
                SumOf(Rows) >= MinPoints[points[r].new]

(* Who recalculates alone still writes over the tier it has read. *)
HistoryInv ==
    /\ HistoryIsAChain
    /\ tierHistory = <<>> => tierId = NoTier
    /\ "recalc" \notin overlapped =>
        \A r, q \in PointRequests :
            Recalculating(r) =>
                /\ points[r].pc = "set tier" => points[r].old = tierId
                /\ Recalculating(q) => q = r

PointsInv == PointsTypeOK /\ BalanceInv /\ TierInv /\ HistoryInv

PointsIn(B) == [b \in 1..Len(B) |-> B[b].points]
ActiveIn(B) == {b \in 1..Len(B) : B[b].status = "ACTIVE"}
Total(B) == Sum(PointsIn(B), 1..Len(B))
ActiveTotal(B) == Sum(PointsIn(B), ActiveIn(B))

LEMMA RowsAreWeighed ==
    ASSUME NEW B \in Seq(Batch)
    PROVE  /\ Len(B) \in Nat /\ IsFiniteSet(1..Len(B))
           /\ NatsOn(PointsIn(B), 1..Len(B))
           /\ IntsOn(PointsIn(B), 1..Len(B))
<1>1. Len(B) \in Nat /\ \A b \in 1..Len(B) : B[b] \in Batch
    BY ElementOfSeq, LenProperties
<1>2. IsFiniteSet(1..Len(B))
    BY <1>1, FS_Interval
<1>3. \A b \in 1..Len(B) : PointsIn(B)[b] \in Nat
    BY <1>1 DEF PointsIn, Batch
<1>. QED BY <1>1, <1>2, <1>3 DEF NatsOn, IntsOn

(* A batch that is appended adds its points to both sums. *)
LEMMA AwardAdds ==
    ASSUME NEW B \in Seq(Batch), NEW x \in Batch, x.status = "ACTIVE",
           NEW C, C = Append(B, x)
    PROVE  /\ C \in Seq(Batch) /\ Len(C) = Len(B) + 1
           /\ ActiveIn(B) \subseteq ActiveIn(C)
           /\ Total(C) = Total(B) + x.points
           /\ ActiveTotal(C) = ActiveTotal(B) + x.points
<1>1. /\ Len(B) \in Nat /\ C \in Seq(Batch) /\ Len(C) = Len(B) + 1
      /\ \A b \in 1..Len(B) : C[b] = B[b]
      /\ C[Len(B) + 1] = x
    BY LenProperties
<1> DEFINE n == Len(B) + 1
<1>2. /\ 1..Len(C) = (1..Len(B)) \cup {n} /\ n \notin 1..Len(B)
      /\ 1..Len(B) \subseteq 1..Len(C) /\ n \in 1..Len(C)
    BY <1>1
<1>3. ActiveIn(C) = ActiveIn(B) \cup {n} /\ n \notin ActiveIn(B)
    BY <1>1, <1>2 DEF ActiveIn
<1>4. AgreeOn(PointsIn(C), PointsIn(B), 1..Len(B))
    BY <1>1, <1>2 DEF AgreeOn, PointsIn
<1>5. PointsIn(C)[n] = x.points
    BY <1>1, <1>2 DEF PointsIn
<1>6. /\ IsFiniteSet(1..Len(B)) /\ IsFiniteSet(1..Len(C))
      /\ IntsOn(PointsIn(C), 1..Len(C)) /\ IntsOn(PointsIn(B), 1..Len(B))
    BY <1>1, RowsAreWeighed
<1>7. /\ ActiveIn(B) \in SUBSET (1..Len(B)) /\ ActiveIn(C) \in SUBSET (1..Len(C))
    BY DEF ActiveIn
<1>8. \A T \in SUBSET (1..Len(B)) : Sum(PointsIn(C), T) = Sum(PointsIn(B), T)
  <2> DEFINE f == PointsIn(C)  g == PointsIn(B)  S == 1..Len(B)
  <2>1. IsFiniteSet(S) /\ AgreeOn(f, g, S)
    BY <1>4, <1>6
  <2> HIDE DEF f, g, S
  <2>2. \A T \in SUBSET S : Sum(f, T) = Sum(g, T)
    BY <2>1, SumAgrees
  <2>. QED BY <2>2 DEF f, g, S
<1>9. /\ SumTakesAt(PointsIn(C), 1..Len(C))
      /\ SumTakesAt(PointsIn(C), ActiveIn(C))
    BY <1>6, <1>7, SumTakes
<1> HIDE DEF n
<1>10. Total(C) = Total(B) + x.points
  <2>1. (1..Len(C)) \ {n} = 1..Len(B) /\ 1..Len(B) \in SUBSET (1..Len(B))
    BY <1>2
  <2>2. Total(C) = PointsIn(C)[n] + Sum(PointsIn(C), (1..Len(C)) \ {n})
    BY <1>2, <1>9 DEF Total, SumTakesAt
  <2>3. Total(C) = x.points + Total(B)
    BY <2>1, <2>2, <1>5, <1>8 DEF Total
  <2>4. x.points \in Int /\ Total(B) \in Int
    BY <2>1, <1>6, SumIsInt DEF Total, Batch
  <2>. QED BY <2>3, <2>4
<1>11. ActiveTotal(C) = ActiveTotal(B) + x.points
  <2>1. ActiveIn(C) \ {n} = ActiveIn(B) /\ n \in ActiveIn(C)
    BY <1>3
  <2>2. ActiveTotal(C) = PointsIn(C)[n] + Sum(PointsIn(C), ActiveIn(C) \ {n})
    BY <2>1, <1>9 DEF ActiveTotal, SumTakesAt
  <2>3. ActiveTotal(C) = x.points + ActiveTotal(B)
    BY <2>1, <2>2, <1>5, <1>7, <1>8 DEF ActiveTotal
  <2>4. x.points \in Int /\ ActiveTotal(B) \in Int
    BY <1>6, <1>7, SumIsInt DEF ActiveTotal, Batch
  <2>. QED BY <2>3, <2>4
<1>. QED BY <1>1, <1>3, <1>10, <1>11

(* Batches that are marked expired take their points from those that are
   active, and no more than them. *)
LEMMA ExpirySubtracts ==
    ASSUME NEW B \in Seq(Batch), NEW D \in SUBSET (1..Len(B)),
           NEW C, C = [b \in 1..Len(B) |->
                         IF b \in D THEN [B[b] EXCEPT !.status = "EXPIRED"]
                         ELSE B[b]]
    PROVE  /\ C \in Seq(Batch) /\ Len(C) = Len(B)
           /\ ActiveIn(C) = ActiveIn(B) \ D
           /\ Total(C) = Total(B)
           /\ ActiveTotal(B) - Sum(PointsIn(B), D) <= ActiveTotal(C)
           /\ D \subseteq ActiveIn(B) =>
                ActiveTotal(B) - Sum(PointsIn(B), D) = ActiveTotal(C)
<1>1. Len(B) \in Nat /\ \A b \in 1..Len(B) : B[b] \in Batch
    BY ElementOfSeq, LenProperties
<1>2. C \in [1..Len(B) -> Batch]
    BY <1>1 DEF Batch
<1>3. C \in Seq(Batch)
    BY <1>1, <1>2, SeqDef
<1>4. Len(C) = Len(B)
  <2>1. DOMAIN C = 1..Len(B) /\ DOMAIN C = 1..Len(C) /\ Len(C) \in Nat
    BY <1>2, <1>3, LenProperties
  <2>. QED BY <2>1, <1>1
<1>5. ActiveIn(C) = ActiveIn(B) \ D
    BY <1>1, <1>4 DEF ActiveIn, Batch
<1>6. PointsIn(C) = PointsIn(B)
    BY <1>1, <1>4 DEF PointsIn, Batch
<1>7. Total(C) = Total(B)
    BY <1>4, <1>6 DEF Total
<1> DEFINE A == ActiveIn(B)
           f == PointsIn(B)
<1>8. /\ IsFiniteSet(1..Len(B)) /\ NatsOn(f, 1..Len(B)) /\ IntsOn(f, 1..Len(B))
    BY RowsAreWeighed
<1>9. A \in SUBSET (1..Len(B)) /\ A \cap D \in SUBSET A /\ A \cap D \in SUBSET D
      /\ A \ (A \cap D) = A \ D
    BY DEF ActiveIn
<1> HIDE DEF A, f
<1>10. /\ IsFiniteSet(A) /\ IsFiniteSet(D)
       /\ IntsOn(f, A) /\ NatsOn(f, D)
    BY <1>8, <1>9, FS_Subset DEF IntsOn, NatsOn
<1>11. Sum(f, A) = Sum(f, A \cap D) + Sum(f, A \ D)
    BY <1>9, <1>10, SumSplits
<1>12. Sum(f, A \cap D) <= Sum(f, D)
    BY <1>9, <1>10, SumGrows
<1>13. /\ Sum(f, A) \in Int /\ Sum(f, A \cap D) \in Int
       /\ Sum(f, A \ D) \in Int /\ Sum(f, D) \in Int
    BY <1>8, <1>9, SumIsInt
<1>14. ActiveTotal(B) = Sum(f, A) /\ ActiveTotal(C) = Sum(f, A \ D)
    BY <1>5, <1>6 DEF ActiveTotal, A, f
<1>15. D \subseteq A => A \cap D = D
    OBVIOUS
<1>16. /\ Sum(f, A) - Sum(f, D) <= Sum(f, A \ D)
       /\ D \subseteq A => Sum(f, A) - Sum(f, D) = Sum(f, A \ D)
  <2>1. PICK a \in Int, d \in Int, i \in Int, r \in Int :
            /\ a = Sum(f, A) /\ d = Sum(f, D)
            /\ i = Sum(f, A \cap D) /\ r = Sum(f, A \ D)
    BY <1>13
  <2>2. a = i + r /\ i <= d /\ (D \subseteq A => i = d)
    BY <1>11, <1>12, <1>15, <2>1
  <2>3. a - d <= r /\ (D \subseteq A => a - d = r)
    BY <2>2
  <2>. QED BY <2>1, <2>3
<1>. QED BY <1>3, <1>4, <1>5, <1>7, <1>14, <1>16 DEF A, f

LEMMA SumsAreTotals ==
    /\ SumOf(Rows) = Total(batches) /\ SumOf(Active) = ActiveTotal(batches)
    /\ \A S : SumOf(S) = Sum(PointsIn(batches), S)
    /\ Active = ActiveIn(batches) /\ Rows = 1..Len(batches)
BY DEF SumOf, Rows, Active, Total, ActiveTotal, PointsIn, ActiveIn, Sum

LEMMA PointsRequests ==
    ASSUME PointsTypeOK, NEW r \in PointRequests
    PROVE  /\ points[r].pc = "award" => points[r].points \in Nat
           /\ points[r].pc = "expire" => points[r].due \in SUBSET (1..MaxBatches)
           /\ Recalculating(r) =>
                points[r].old \in 0..Tiers /\ points[r].new \in 0..Tiers
<1>1. points[r] \in PointsAt \cup {PointsIdle}
    BY DEF PointsTypeOK
<1>2. CASE points[r] \in [pc : {"award"}, points : Nat]
    BY <1>2 DEF Recalculating
<1>3. CASE points[r] \in [pc : {"expire"}, due : SUBSET (1..MaxBatches)]
    BY <1>3 DEF Recalculating
<1>4. CASE points[r] \in [pc : {"choose", "set tier"}, old : 0..Tiers,
                          new : 0..Tiers]
    BY <1>4 DEF Recalculating
<1>5. CASE points[r] = PointsIdle
    BY <1>5 DEF PointsIdle, Recalculating
<1>. QED BY <1>1, <1>2, <1>3, <1>4, <1>5 DEF PointsAt

LEMMA PointRequestMoves ==
    ASSUME PointsTypeOK, NEW r \in PointRequests, NEW x,
           points' = [points EXCEPT ![r] = x]
    PROVE  points'[r] = x /\ \A q \in PointRequests : q # r => points'[q] = points[q]
BY DEF PointsTypeOK

LEMMA EarnedIsNatural ==
    ASSUME NEW tier \in 0..Tiers, NEW amount \in Amounts
    PROVE  calcPointsFromRule(tier, amount) \in Nat
<1>1. /\ amount \in Nat /\ UnitAmount \in Nat \ {0} /\ BasePoints \in Nat
      /\ Tiers \in Nat
    BY PointsAssumption
<1>2. PICK units \in Nat : units = amount \div UnitAmount
    BY <1>1
<1>3. PICK earned \in Nat : earned = (amount \div UnitAmount) * BasePoints
    BY <1>1, <1>2
<1>4. tier # NoTier => tier \in TierIds
    BY <1>1 DEF NoTier, TierIds
<1>5. tier # NoTier => Multiplier[tier] \in Nat
    BY <1>4, PointsAssumption
<1>6. tier # NoTier => (earned * Multiplier[tier]) \div 100 \in Nat
  <2>1. SUFFICES ASSUME tier # NoTier PROVE (earned * Multiplier[tier]) \div 100 \in Nat
    OBVIOUS
  <2>2. PICK m \in Nat : m = earned * Multiplier[tier]
    BY <2>1, <1>5
  <2>. QED BY <2>2
<1>. QED BY <1>3, <1>6 DEF calcPointsFromRule

LEMMA TotalsAreInt ==
    ASSUME PointsTypeOK
    PROVE  /\ Total(batches) \in Int /\ ActiveTotal(batches) \in Int
           /\ Len(batches) \in Nat
           /\ \A S \in SUBSET Rows :
                SumOf(S) \in Int /\ SumOf(S) <= Total(batches)
<1>1. /\ IsFiniteSet(Rows) /\ NatsOn(PointsIn(batches), Rows)
      /\ IntsOn(PointsIn(batches), Rows) /\ Len(batches) \in Nat
    BY RowsAreWeighed DEF PointsTypeOK, Rows
<1>2. \A S \in SUBSET Rows : /\ Sum(PointsIn(batches), S) \in Nat
                             /\ Sum(PointsIn(batches), S) <= Total(batches)
    BY <1>1, SumGrows DEF Total, Rows
<1>3. Rows \in SUBSET Rows /\ Active \in SUBSET Rows
    BY DEF Active
<1>. QED BY <1>1, <1>2, <1>3, SumsAreTotals

(* The tier that is chosen, if any, is one that was reached. *)
LEMMA ChosenWasReached ==
    ASSUME PointsTypeOK
    PROVE  /\ Chosen \in 0..Tiers
           /\ Chosen # NoTier => SumOf(Rows) >= MinPoints[Chosen]
<1>1. Tiers \in Nat /\ TierIds \subseteq Nat \ {0} /\ TierIds \subseteq 0..Tiers
    BY PointsAssumption DEF TierIds
<1>2. CASE ~\E t \in TierIds : Reaches(t)
    BY <1>1, <1>2 DEF Chosen, NoTier
<1>3. CASE \E t \in TierIds : Reaches(t)
  <2> DEFINE T == {t \in TierIds : Reaches(t)}
             R == OpToRel(<, Nat)
  <2>1. PICK t \in T : \A u \in T : ~(<<u, t>> \in R)
    <3>1. T \subseteq Nat /\ T # {} /\ IsWellFoundedOn(R, Nat)
        BY <1>1, <1>3, NatLessThanWellFounded
    <3> HIDE DEF T, R
    <3>. QED BY <3>1, WFMin
  <2>2. \A u \in T : ~(u < t)
    BY <2>1, <1>1 DEF OpToRel
  <2>3. \A u \in 1..(t - 1) : ~Reaches(u)
    BY <2>2, <1>1 DEF TierIds
  <2>4. \E u \in TierIds : Reaches(u) /\ \A v \in 1..(u - 1) : ~Reaches(v)
    BY <2>3
  <2>5. Chosen \in TierIds /\ Reaches(Chosen)
    BY <2>4, <1>3 DEF Chosen
  <2>6. PICK S \in SUBSET Rows : SumOf(S) >= MinPoints[Chosen]
    BY <2>5 DEF Reaches, InWindow
  <2>7. MinPoints[Chosen] \in Nat
    BY <2>5, PointsAssumption
  <2>8. SumOf(S) \in Int /\ SumOf(S) <= Total(batches) /\ Total(batches) \in Int
    BY TotalsAreInt
  <2>9. SumOf(Rows) = Total(batches)
    BY SumsAreTotals
  <2>. QED BY <2>5, <2>6, <2>7, <2>8, <2>9, <1>1
<1>. QED BY <1>2, <1>3

LEMMA PointsStepTypes ==
    ASSUME PointsTypeOK, DuesAreRows, [PointsNext]_pointVars
    PROVE  PointsTypeOK'
<1>0. /\ Len(batches) \in Nat /\ NoTier \in 0..Tiers /\ now \in 0..MaxNow
      /\ \A b \in Rows : batches[b] \in Batch
    BY PointsAssumption, TotalsAreInt, ElementOfSeq
       DEF PointsTypeOK, NoTier, Rows
<1>1. ASSUME NEW r \in PointRequests, NEW amount \in Amounts,
             StartAward(r, amount)
      PROVE  PointsTypeOK'
  <2>1. calcPointsFromRule(tierId, amount) \in Nat
    BY EarnedIsNatural DEF PointsTypeOK
  <2>2. [pc |-> "award", points |-> calcPointsFromRule(tierId, amount)]
            \in PointsAt
    BY <2>1 DEF PointsAt
  <2>3. points' \in [PointRequests -> PointsAt \cup {PointsIdle}]
    BY <1>1, <2>2 DEF StartAward, PointsTypeOK
  <2>. QED BY <1>1, <2>3 DEF StartAward, PointsTypeOK
<1>2. ASSUME NEW r \in PointRequests, PointsDone(r)
      PROVE  points' \in [PointRequests -> PointsAt \cup {PointsIdle}]
    BY <1>2 DEF PointsDone, PointsTypeOK
<1>3. ASSUME NEW r \in PointRequests, awardPoints(r) PROVE PointsTypeOK'
  <2> DEFINE x == [points |-> points[r].points, status |-> "ACTIVE",
                   earnedAt |-> now]
  <2>1. points[r].points \in Nat
    BY <1>3, PointsRequests DEF awardPoints
  <2>2. x \in Batch /\ x.status = "ACTIVE"
    BY <1>0, <2>1 DEF Batch
  <2>3. batches \in Seq(Batch) /\ batches' = Append(batches, x)
    BY <1>3 DEF awardPoints, PointsTypeOK
  <2> HIDE DEF x
  <2>4. batches' \in Seq(Batch) /\ Len(batches') = Len(batches) + 1
    BY <2>2, <2>3, AwardAdds
  <2>5. Len(batches') <= MaxBatches
    BY <1>0, <1>3, <2>4, PointsAssumption DEF awardPoints
  <2>6. currentPoints' \in Int
    BY <1>3, <2>1 DEF awardPoints, PointsTypeOK
  <2>. QED BY <1>2, <1>3, <2>4, <2>5, <2>6 DEF awardPoints, PointsTypeOK
<1>4. ASSUME NEW r \in PointRequests, StartExpire(r) PROVE PointsTypeOK'
  <2>1. PICK n \in Due :
            points' = [points EXCEPT ![r] =
                [pc |-> "expire", due |-> {b \in Due : b <= n}]]
    BY <1>4 DEF StartExpire
  <2>2. Due \subseteq 1..MaxBatches
    BY <1>0, PointsAssumption DEF Due, Active, Rows, PointsTypeOK
  <2>3. [pc |-> "expire", due |-> {b \in Due : b <= n}] \in PointsAt
    BY <2>2 DEF PointsAt
  <2>4. points' \in [PointRequests -> PointsAt \cup {PointsIdle}]
    BY <2>1, <2>3 DEF PointsTypeOK
  <2>5. overlapped' \subseteq {"expire", "recalc"}
    BY <1>4 DEF StartExpire, PointsTypeOK
  <2>. QED BY <1>4, <2>4, <2>5 DEF StartExpire, PointsTypeOK
<1>5. ASSUME NEW r \in PointRequests, expireJob(r) PROVE PointsTypeOK'
  <2> DEFINE D == points[r].due
  <2>1. batches \in Seq(Batch) /\ D \in SUBSET (1..Len(batches))
    BY <1>5 DEF PointsTypeOK, Rows, DuesAreRows, expireJob
  <2>2. batches' = [b \in 1..Len(batches) |->
                      IF b \in D THEN [batches[b] EXCEPT !.status = "EXPIRED"]
                      ELSE batches[b]]
    BY <1>5 DEF expireJob, Rows
  <2>3. SumOf(D) \in Int
    BY <2>1, TotalsAreInt DEF Rows
  <2> HIDE DEF D
  <2>4. batches' \in Seq(Batch) /\ Len(batches') = Len(batches)
    BY <2>1, <2>2, ExpirySubtracts
  <2>5. currentPoints' \in Int
    BY <1>5, <2>3 DEF expireJob, PointsTypeOK, D
  <2>. QED BY <1>2, <1>5, <2>4, <2>5 DEF expireJob, PointsTypeOK
<1>6. ASSUME NEW r \in PointRequests, ChooseTier(r) PROVE PointsTypeOK'
  <2>1. Chosen \in 0..Tiers
    BY ChosenWasReached
  <2>2. [pc |-> "choose", old |-> NoTier, new |-> Chosen] \in PointsAt
    BY <1>0, <2>1 DEF PointsAt
  <2>3. points' \in [PointRequests -> PointsAt \cup {PointsIdle}]
    BY <1>6, <2>2 DEF ChooseTier, PointsTypeOK
  <2>4. overlapped' \subseteq {"expire", "recalc"}
    BY <1>6 DEF ChooseTier, PointsTypeOK
  <2>. QED BY <1>6, <2>3, <2>4 DEF ChooseTier, PointsTypeOK
<1>7. ASSUME NEW r \in PointRequests, ReadTier(r) PROVE PointsTypeOK'
  <2>1. points[r].new \in 0..Tiers /\ tierId \in 0..Tiers
    BY <1>7, PointsRequests DEF ReadTier, Recalculating, PointsTypeOK
  <2>2. [pc |-> "set tier", old |-> tierId, new |-> points[r].new] \in PointsAt
    BY <2>1 DEF PointsAt
  <2>3. points' \in [PointRequests -> PointsAt \cup {PointsIdle}]
    BY <1>7, <2>2 DEF ReadTier, PointsTypeOK
  <2>. QED BY <1>7, <2>3 DEF ReadTier, PointsTypeOK
<1>8. ASSUME NEW r \in PointRequests, recalcTier(r) PROVE PointsTypeOK'
  <2>1. points[r].old \in 0..Tiers /\ points[r].new \in 0..Tiers
    BY <1>8, PointsRequests DEF recalcTier, Recalculating
  <2>2. HistoryRow(r) \in (0..Tiers) \X (0..Tiers)
    BY <2>1 DEF HistoryRow
  <2>3. tierHistory' \in Seq((0..Tiers) \X (0..Tiers))
    <3> DEFINE H == (0..Tiers) \X (0..Tiers)
               h == HistoryRow(r)
    <3>1. h \in H /\ tierHistory \in Seq(H) /\ tierHistory' = Append(tierHistory, h)
        BY <1>8, <2>2 DEF recalcTier, PointsTypeOK
    <3> HIDE DEF H, h
    <3>2. tierHistory' \in Seq(H)
        BY <3>1, AppendProperties
    <3>. QED BY <3>2 DEF H
  <2>. QED BY <1>2, <1>8, <2>1, <2>3 DEF recalcTier, PointsTypeOK
<1>9. ASSUME NEW r \in PointRequests, PointsDie(r) PROVE PointsTypeOK'
    BY <1>2, <1>9 DEF PointsDie, PointsTypeOK
<1>10. ASSUME TimePasses PROVE PointsTypeOK'
    BY <1>10, PointsAssumption DEF TimePasses, PointsTypeOK
<1>11. CASE UNCHANGED pointVars
    BY <1>11 DEF pointVars, PointsTypeOK
<1>. QED
    BY <1>1, <1>3, <1>4, <1>5, <1>6, <1>7, <1>8, <1>9, <1>10, <1>11
       DEF PointsNext

LEMMA SumsAreTotalsNext ==
    /\ SumOf(Rows)' = Total(batches') /\ SumOf(Active)' = ActiveTotal(batches')
    /\ Active' = ActiveIn(batches') /\ Rows' = 1..Len(batches')
BY DEF SumOf, Rows, Active, Total, ActiveTotal, PointsIn, ActiveIn, Sum

LEMMA BalanceStands ==
    ASSUME PointsTypeOK, BalanceInv, [PointsNext]_pointVars
    PROVE  BalanceInv'
<1>0. /\ ActiveTotal(batches) \in Int /\ currentPoints \in Int
      /\ Len(batches) \in Nat
      /\ SumOf(Active) = ActiveTotal(batches)
      /\ Active = ActiveIn(batches) /\ Rows = 1..Len(batches)
      /\ SumOf(Active)' = ActiveTotal(batches')
      /\ Active' = ActiveIn(batches') /\ Rows' = 1..Len(batches')
    BY TotalsAreInt, SumsAreTotals, SumsAreTotalsNext DEF PointsTypeOK
\* What has to be shown where the batches and the balance stay.
<1>1. ASSUME batches' = batches, currentPoints' = currentPoints,
             overlapped \subseteq overlapped',
             DuesAreRows',
             "expire" \notin overlapped' =>
                \A r, q \in PointRequests :
                    points'[r].pc = "expire" =>
                        /\ points'[r].due \subseteq Active
                        /\ points'[q].pc = "expire" => q = r
      PROVE  BalanceInv'
  <2>1. /\ SumOf(Active)' = SumOf(Active) /\ Active' = Active
    BY <1>0, <1>1
  <2>2. BalanceMatchesBatches'
    BY <1>1, <2>1 DEF BalanceInv, BalanceMatchesBatches
  <2>. QED BY <1>1, <2>1, <2>2 DEF BalanceInv
\* ... and no request begins to expire batches.
<1>2. ASSUME batches' = batches, currentPoints' = currentPoints,
             overlapped \subseteq overlapped',
             \A q \in PointRequests :
                points'[q].pc = "expire" => points'[q] = points[q]
      PROVE  BalanceInv'
  <2>1. DuesAreRows'
    BY <1>0, <1>2 DEF BalanceInv, DuesAreRows
  <2>2. "expire" \notin overlapped' =>
          \A r, q \in PointRequests :
            points'[r].pc = "expire" =>
                /\ points'[r].due \subseteq Active
                /\ points'[q].pc = "expire" => q = r
    BY <1>2 DEF BalanceInv
  <2>. QED BY <1>1, <1>2, <2>1, <2>2
<1>3. ASSUME NEW r \in PointRequests, NEW x,
             points' = [points EXCEPT ![r] = x], x.pc # "expire"
      PROVE  \A q \in PointRequests :
                points'[q].pc = "expire" => points'[q] = points[q]
    BY <1>3 DEF PointsTypeOK
<1>4. PointsIdle.pc # "expire"
    BY DEF PointsIdle
<1>5. ASSUME NEW r \in PointRequests, NEW amount \in Amounts,
             StartAward(r, amount)
      PROVE  BalanceInv'
  <2>1. \A q \in PointRequests :
            points'[q].pc = "expire" => points'[q] = points[q]
    BY <1>3, <1>5 DEF StartAward
  <2>. QED BY <1>2, <1>5, <2>1 DEF StartAward
<1>6. ASSUME NEW r \in PointRequests, awardPoints(r) PROVE BalanceInv'
  <2> DEFINE x == [points |-> points[r].points, status |-> "ACTIVE",
                   earnedAt |-> now]
  <2>1. x \in Batch /\ x.status = "ACTIVE"
    BY <1>6, PointsRequests DEF awardPoints, Batch, PointsTypeOK
  <2>2. batches \in Seq(Batch) /\ batches' = Append(batches, x)
    BY <1>6 DEF awardPoints, PointsTypeOK
  <2>3. x.points \in Nat /\ currentPoints' = currentPoints + x.points
    BY <1>6, <2>1 DEF awardPoints, Batch
  <2> HIDE DEF x
  <2>4. /\ Len(batches') = Len(batches) + 1
        /\ ActiveIn(batches) \subseteq ActiveIn(batches')
        /\ ActiveTotal(batches') = ActiveTotal(batches) + x.points
    BY <2>1, <2>2, AwardAdds
  <2>5. overlapped' = overlapped
    BY <1>6 DEF awardPoints
  <2>6. BalanceMatchesBatches'
    BY <1>0, <2>3, <2>4, <2>5 DEF BalanceInv, BalanceMatchesBatches
  <2>7. \A q \in PointRequests :
            points'[q].pc = "expire" => points'[q] = points[q]
    BY <1>3, <1>4, <1>6 DEF awardPoints, PointsDone
  <2>8. DuesAreRows'
    BY <1>0, <2>4, <2>7 DEF BalanceInv, DuesAreRows
  <2>9. "expire" \notin overlapped' =>
          \A s, q \in PointRequests :
            points'[s].pc = "expire" =>
                /\ points'[s].due \subseteq Active'
                /\ points'[q].pc = "expire" => q = s
    BY <1>0, <2>4, <2>5, <2>7 DEF BalanceInv
  <2>. QED BY <2>6, <2>8, <2>9 DEF BalanceInv
<1>7. ASSUME NEW r \in PointRequests, StartExpire(r) PROVE BalanceInv'
  <2>1. PICK D \in SUBSET Active :
            points' = [points EXCEPT ![r] = [pc |-> "expire", due |-> D]]
    BY <1>7 DEF StartExpire, Due
  <2>2. /\ batches' = batches /\ currentPoints' = currentPoints
        /\ overlapped \subseteq overlapped'
        /\ "expire" \notin overlapped' =>
                ~\E q \in PointRequests : points[q].pc = "expire"
    BY <1>7 DEF StartExpire, InStep
  <2>3. /\ points'[r].due = D /\ points'[r].pc = "expire"
        /\ \A q \in PointRequests : q # r => points'[q] = points[q]
    BY <2>1 DEF PointsTypeOK
  <2>4. DuesAreRows'
    BY <1>0, <2>2, <2>3 DEF BalanceInv, DuesAreRows, Active
  <2>5. "expire" \notin overlapped' =>
          \A s, q \in PointRequests :
            points'[s].pc = "expire" =>
                /\ points'[s].due \subseteq Active
                /\ points'[q].pc = "expire" => q = s
    BY <2>2, <2>3
  <2>. QED BY <1>1, <2>2, <2>4, <2>5
<1>8. ASSUME NEW r \in PointRequests, expireJob(r) PROVE BalanceInv'
  <2> DEFINE D == points[r].due
  <2>1. batches \in Seq(Batch) /\ D \in SUBSET (1..Len(batches))
    BY <1>8 DEF PointsTypeOK, Rows, BalanceInv, DuesAreRows, expireJob
  <2>2. batches' = [b \in 1..Len(batches) |->
                      IF b \in D THEN [batches[b] EXCEPT !.status = "EXPIRED"]
                      ELSE batches[b]]
    BY <1>8 DEF expireJob, Rows
  <2>3. /\ currentPoints' = currentPoints - SumOf(D)
        /\ overlapped' = overlapped /\ points[r].pc = "expire"
        /\ "expire" \notin overlapped => D \subseteq Active
    BY <1>8 DEF expireJob, BalanceInv
  <2>4. SumOf(D) \in Int /\ SumOf(D) = Sum(PointsIn(batches), D)
    BY <2>1, <1>0, TotalsAreInt, SumsAreTotals
  <2> HIDE DEF D
  <2>5. /\ batches' \in Seq(Batch) /\ Len(batches') = Len(batches)
        /\ ActiveIn(batches') = ActiveIn(batches) \ D
        /\ ActiveTotal(batches) - SumOf(D) <= ActiveTotal(batches')
        /\ D \subseteq ActiveIn(batches) =>
                ActiveTotal(batches) - SumOf(D) = ActiveTotal(batches')
    <3> DEFINE C == batches'
    <3>1. C = [b \in 1..Len(batches) |->
                 IF b \in D THEN [batches[b] EXCEPT !.status = "EXPIRED"]
                 ELSE batches[b]]
        BY <2>2
    <3> HIDE DEF C
    <3>2. /\ C \in Seq(Batch) /\ Len(C) = Len(batches)
          /\ ActiveIn(C) = ActiveIn(batches) \ D
          /\ ActiveTotal(batches) - Sum(PointsIn(batches), D) <= ActiveTotal(C)
          /\ D \subseteq ActiveIn(batches) =>
                ActiveTotal(batches) - Sum(PointsIn(batches), D) = ActiveTotal(C)
        BY <2>1, <3>1, ExpirySubtracts
    <3>. QED BY <3>2, <2>4 DEF C
  <2>6. ActiveTotal(batches') \in Int
    <3>1. /\ IsFiniteSet(1..Len(batches'))
          /\ IntsOn(PointsIn(batches'), 1..Len(batches'))
        BY <2>5, RowsAreWeighed
    <3>2. ActiveIn(batches') \in SUBSET (1..Len(batches'))
        BY DEF ActiveIn
    <3>. QED BY <3>1, <3>2, SumIsInt DEF ActiveTotal
  <2>7. BalanceMatchesBatches'
    <3>1. PICK a \in Int, b \in Int, d \in Int :
              /\ a = ActiveTotal(batches) /\ b = ActiveTotal(batches')
              /\ d = SumOf(D)
        BY <1>0, <2>4, <2>6
    <3>2. /\ currentPoints <= a
          /\ "expire" \notin overlapped => currentPoints = a
        BY <1>0, <3>1 DEF BalanceInv, BalanceMatchesBatches
    <3>3. /\ currentPoints' = currentPoints - d /\ a - d <= b
          /\ "expire" \notin overlapped => a - d = b
        BY <1>0, <2>3, <2>5, <3>1
    <3>4. /\ currentPoints' <= b
          /\ "expire" \notin overlapped => currentPoints' = b
        BY <1>0, <3>2, <3>3
    <3>5. SumOf(Active)' = b
        BY <1>0, <3>1
    <3>. QED BY <2>3, <3>4, <3>5 DEF BalanceMatchesBatches
  <2>8. \A q \in PointRequests :
            points'[q].pc = "expire" => points'[q] = points[q] /\ q # r
    BY <1>4, <1>8 DEF expireJob, PointsDone, PointsTypeOK
  <2>9. DuesAreRows'
    BY <1>0, <2>5, <2>8 DEF BalanceInv, DuesAreRows
  <2>10. "expire" \notin overlapped' =>
          ~\E q \in PointRequests : points'[q].pc = "expire"
    BY <2>3, <2>8 DEF BalanceInv
  <2>. QED BY <2>7, <2>9, <2>10 DEF BalanceInv
<1>9. ASSUME NEW r \in PointRequests, ChooseTier(r) PROVE BalanceInv'
  <2>1. \A q \in PointRequests :
            points'[q].pc = "expire" => points'[q] = points[q]
    <3> DEFINE x == [pc |-> "choose", old |-> NoTier, new |-> Chosen]
    <3>1. points' = [points EXCEPT ![r] = x] /\ x.pc # "expire"
        BY <1>9 DEF ChooseTier
    <3> HIDE DEF x
    <3>. QED BY <1>3, <3>1
  <2>. QED BY <1>2, <1>9, <2>1 DEF ChooseTier
<1>10. ASSUME NEW r \in PointRequests, ReadTier(r) PROVE BalanceInv'
  <2>1. \A q \in PointRequests :
            points'[q].pc = "expire" => points'[q] = points[q]
    <3>1. PICK x : points' = [points EXCEPT ![r] = x] /\ x.pc # "expire"
      <4>1. CASE points[r].new = tierId
        BY <1>4, <1>10, <4>1 DEF ReadTier
      <4>2. CASE points[r].new # tierId
        <5> DEFINE x == [pc |-> "set tier", old |-> tierId,
                         new |-> points[r].new]
        <5>1. points' = [points EXCEPT ![r] = x] /\ x.pc # "expire"
            BY <1>10, <4>2 DEF ReadTier
        <5> HIDE DEF x
        <5>. QED BY <5>1
      <4>. QED BY <4>1, <4>2
    <3>. QED BY <3>1, PointRequestMoves
  <2>. QED BY <1>2, <1>10, <2>1 DEF ReadTier
<1>11. ASSUME NEW r \in PointRequests, recalcTier(r) \/ PointsDie(r)
       PROVE  BalanceInv'
  <2>1. \A q \in PointRequests :
            points'[q].pc = "expire" => points'[q] = points[q]
    BY <1>3, <1>4, <1>11 DEF recalcTier, PointsDie, PointsDone
  <2>. QED BY <1>2, <1>11, <2>1 DEF recalcTier, PointsDie
<1>12. CASE TimePasses \/ UNCHANGED pointVars
    BY <1>2, <1>12 DEF TimePasses, pointVars
<1>. QED
    BY <1>5, <1>6, <1>7, <1>8, <1>9, <1>10, <1>11, <1>12 DEF PointsNext

LEMMA TierStands ==
    ASSUME PointsTypeOK, BalanceInv, TierInv, [PointsNext]_pointVars
    PROVE  TierInv'
<1>0. /\ Total(batches) \in Int /\ SumOf(Rows) = Total(batches)
      /\ SumOf(Rows)' = Total(batches') /\ Tiers \in Nat
      /\ tierId \in 0..Tiers
      /\ \A t \in 0..Tiers : t # NoTier => MinPoints[t] \in Nat
      /\ NoTier = 0
    BY TotalsAreInt, SumsAreTotals, SumsAreTotalsNext, PointsAssumption
       DEF PointsTypeOK, TierIds, NoTier
\* What was earned does not become less.
<1>1. Total(batches') \in Int /\ Total(batches) <= Total(batches')
  <2>1. CASE batches' = batches
    BY <1>0, <2>1
  <2>2. ASSUME NEW r \in PointRequests, awardPoints(r)
        PROVE  Total(batches') \in Int /\ Total(batches) <= Total(batches')
    <3> DEFINE x == [points |-> points[r].points, status |-> "ACTIVE",
                     earnedAt |-> now]
    <3>1. x \in Batch /\ x.status = "ACTIVE"
        BY <2>2, PointsRequests DEF awardPoints, Batch, PointsTypeOK
    <3>2. batches \in Seq(Batch) /\ batches' = Append(batches, x)
        BY <2>2 DEF awardPoints, PointsTypeOK
    <3>3. x.points \in Nat
        BY <3>1 DEF Batch
    <3> HIDE DEF x
    <3>4. Total(batches') = Total(batches) + x.points
        BY <3>1, <3>2, AwardAdds
    <3>. QED BY <1>0, <3>3, <3>4
  <2>3. ASSUME NEW r \in PointRequests, expireJob(r)
        PROVE  Total(batches') = Total(batches)
    <3> DEFINE D == points[r].due
               C == batches'
    <3>1. batches \in Seq(Batch) /\ D \in SUBSET (1..Len(batches))
        BY <2>3 DEF PointsTypeOK, Rows, BalanceInv, DuesAreRows, expireJob
    <3>2. C = [b \in 1..Len(batches) |->
                 IF b \in D THEN [batches[b] EXCEPT !.status = "EXPIRED"]
                 ELSE batches[b]]
        BY <2>3 DEF expireJob, Rows
    <3> HIDE DEF D, C
    <3>3. Total(C) = Total(batches)
        BY <3>1, <3>2, ExpirySubtracts
    <3>. QED BY <3>3 DEF C
  <2>4. \/ batches' = batches
        \/ \E r \in PointRequests : awardPoints(r) \/ expireJob(r)
    BY DEF PointsNext, StartAward, StartExpire, ChooseTier, ReadTier,
           recalcTier, PointsDie, TimePasses, pointVars
  <2>. QED BY <1>0, <2>1, <2>2, <2>3, <2>4
<1>2. ASSUME NEW t \in 0..Tiers, t # NoTier, SumOf(Rows) >= MinPoints[t]
      PROVE  SumOf(Rows)' >= MinPoints[t]
    BY <1>0, <1>1, <1>2
\* Only a request that has chosen a tier goes on to write it.
<1>3. ASSUME NEW q \in PointRequests, Recalculating(q)'
      PROVE  \/ points'[q].new = Chosen
             \/ Recalculating(q) /\ points'[q].new = points[q].new
  <2>1. CASE points'[q] = points[q]
    BY <1>3, <2>1 DEF Recalculating
  <2>2. CASE ChooseTier(q)
    <3> DEFINE x == [pc |-> "choose", old |-> NoTier, new |-> Chosen]
    <3>1. x.new = Chosen /\ points' = [points EXCEPT ![q] = x]
        BY <2>2 DEF ChooseTier
    <3> HIDE DEF x
    <3>2. points'[q] = x
        BY <3>1, PointRequestMoves
    <3>. QED BY <3>1, <3>2
  <2>3. CASE ReadTier(q)
    <3> DEFINE x == [pc |-> "set tier", old |-> tierId, new |-> points[q].new]
    <3>1. Recalculating(q) /\ x.new = points[q].new
        BY <2>3 DEF ReadTier, Recalculating
    <3>2. points' = [points EXCEPT ![q] =
                        IF points[q].new = tierId THEN PointsIdle ELSE x]
        BY <2>3 DEF ReadTier
    <3> HIDE DEF x
    <3>3. points'[q] = PointsIdle \/ points'[q] = x
        BY <3>2, PointRequestMoves
    <3>4. PointsIdle.pc \notin {"choose", "set tier"}
        BY DEF PointsIdle
    <3>5. points'[q] = x
        BY <1>3, <3>3, <3>4 DEF Recalculating
    <3>. QED BY <3>1, <3>5
  <2>4. CASE \/ \E amount \in Amounts : StartAward(q, amount)
             \/ StartExpire(q)
    <3>1. PICK x : points' = [points EXCEPT ![q] = x]
                   /\ x.pc \notin {"choose", "set tier"}
      <4>1. ASSUME NEW amount \in Amounts, StartAward(q, amount)
            PROVE  \E x : points' = [points EXCEPT ![q] = x]
                          /\ x.pc \notin {"choose", "set tier"}
        <5> DEFINE x == [pc |-> "award",
                         points |-> calcPointsFromRule(tierId, amount)]
        <5>1. /\ points' = [points EXCEPT ![q] = x]
              /\ x.pc \notin {"choose", "set tier"}
            BY <4>1 DEF StartAward
        <5> HIDE DEF x
        <5>. QED BY <5>1
      <4>2. CASE StartExpire(q)
        <5>1. PICK n \in Due :
                points' = [points EXCEPT ![q] =
                             [pc |-> "expire", due |-> {b \in Due : b <= n}]]
            BY <4>2 DEF StartExpire
        <5> DEFINE x == [pc |-> "expire", due |-> {b \in Due : b <= n}]
        <5>2. /\ points' = [points EXCEPT ![q] = x]
              /\ x.pc \notin {"choose", "set tier"}
            BY <5>1
        <5> HIDE DEF x
        <5>. QED BY <5>2
      <4>. QED BY <2>4, <4>1, <4>2
    <3>2. points'[q] = x
        BY <3>1, PointRequestMoves
    <3>3. ~Recalculating(q)'
        BY <3>1, <3>2 DEF Recalculating
    <3>. QED BY <1>3, <3>3
  <2>5. CASE points'[q] = PointsIdle
    <3>1. PointsIdle.pc \notin {"choose", "set tier"}
        BY DEF PointsIdle
    <3>. QED BY <1>3, <2>5, <3>1 DEF Recalculating
  <2>6. CASE awardPoints(q) \/ expireJob(q) \/ recalcTier(q) \/ PointsDie(q)
    BY <2>5, <2>6 DEF awardPoints, expireJob, recalcTier, PointsDie, PointsDone,
                      PointsTypeOK
  <2>7. ASSUME NEW r \in PointRequests, r # q,
               \/ \E amount \in Amounts : StartAward(r, amount)
               \/ awardPoints(r) \/ StartExpire(r) \/ expireJob(r)
               \/ ChooseTier(r) \/ ReadTier(r) \/ recalcTier(r) \/ PointsDie(r)
        PROVE  points'[q] = points[q]
    BY <2>7 DEF StartAward, awardPoints, StartExpire, expireJob, ChooseTier,
                ReadTier, recalcTier, PointsDie, PointsDone, PointsTypeOK
  <2>8. CASE TimePasses \/ UNCHANGED pointVars
    BY <2>1, <2>8 DEF TimePasses, pointVars
  <2>. QED BY <2>1, <2>2, <2>3, <2>4, <2>6, <2>7, <2>8 DEF PointsNext
<1>4. ASSUME NEW q \in PointRequests, Recalculating(q)', points'[q].new # NoTier
      PROVE  SumOf(Rows)' >= MinPoints[points'[q].new]
  <2>1. CASE points'[q].new = Chosen
    <3>1. Chosen \in 0..Tiers /\ Chosen # NoTier
          /\ SumOf(Rows) >= MinPoints[Chosen]
        BY <1>4, <2>1, ChosenWasReached
    <3>. QED BY <1>2, <2>1, <3>1
  <2>2. CASE Recalculating(q) /\ points'[q].new = points[q].new
    <3>1. points[q].new \in 0..Tiers /\ points[q].new # NoTier
          /\ SumOf(Rows) >= MinPoints[points[q].new]
        BY <1>4, <2>2, PointsRequests DEF TierInv
    <3>. QED BY <1>2, <2>2, <3>1
  <2>. QED BY <1>3, <1>4, <2>1, <2>2
<1>5. TierWasEarned'
  <2>1. CASE tierId' = tierId
    BY <1>0, <1>2, <2>1 DEF TierInv, TierWasEarned
  <2>2. ASSUME NEW r \in PointRequests, recalcTier(r)
        PROVE  TierWasEarned'
    <3>1. tierId' = points[r].new /\ Recalculating(r)
        BY <2>2 DEF recalcTier, Recalculating
    <3>2. tierId' # NoTier =>
            tierId' \in 0..Tiers /\ SumOf(Rows) >= MinPoints[tierId']
        BY <3>1, PointsRequests DEF TierInv
    <3>. QED BY <1>2, <3>2 DEF TierWasEarned
  <2>3. tierId' = tierId \/ \E r \in PointRequests : recalcTier(r)
    BY DEF PointsNext, StartAward, awardPoints, StartExpire, expireJob,
           ChooseTier, ReadTier, PointsDie, TimePasses, pointVars
  <2>. QED BY <2>1, <2>2, <2>3
<1>. QED BY <1>4, <1>5 DEF TierInv

RowAdded(s, h, t) ==
    /\ Len(s) \in Nat /\ Len(t) = Len(s) + 1
    /\ \A i \in 1..Len(s) : t[i] = s[i]
    /\ t[Len(s) + 1] = h /\ t # <<>>
    /\ s = <<>> <=> Len(s) = 0

LEMMA RowIsAppended ==
    ASSUME NEW H, NEW s \in Seq(H), NEW h \in H, NEW t, t = Append(s, h)
    PROVE  RowAdded(s, h, t)
<1>1. /\ Len(s) \in Nat /\ t \in Seq(H) /\ Len(t) = Len(s) + 1
      /\ \A i \in 1..Len(s) : t[i] = s[i]
      /\ t[Len(s) + 1] = h
    BY AppendProperties, LenProperties
<1>2. s = <<>> <=> Len(s) = 0
    BY EmptySeq, LenProperties
<1>3. t # <<>>
    BY <1>1, EmptySeq
<1>. QED BY <1>1, <1>2, <1>3, Zenon DEF RowAdded

LEMMA HistoryStands ==
    ASSUME PointsTypeOK, HistoryInv, [PointsNext]_pointVars
    PROVE  HistoryInv'
<1> DEFINE Kept == tierId' = tierId /\ tierHistory' = tierHistory
           Alone(r) == points[r].pc = "set tier" => points[r].old = tierId
<1>0. PointsIdle.pc \notin {"choose", "set tier"}
    BY DEF PointsIdle
\* A step that writes no tier, and lets nobody begin to recalculate.
<1>1. ASSUME Kept, overlapped \subseteq overlapped',
             \A q \in PointRequests :
                Recalculating(q)' => /\ Recalculating(q)
                                     /\ Alone(q) => Alone(q)'
      PROVE  HistoryInv'
    BY <1>1 DEF HistoryInv, HistoryIsAChain
<1>2. ASSUME Kept, overlapped \subseteq overlapped', NEW r \in PointRequests,
             NEW x, points' = [points EXCEPT ![r] = x],
             x.pc \notin {"choose", "set tier"}
      PROVE  HistoryInv'
  <2>1. points'[r] = x /\ \A q \in PointRequests : q # r => points'[q] = points[q]
    BY <1>2, PointRequestMoves
  <2>2. ~Recalculating(r)'
    BY <1>2, <2>1 DEF Recalculating
  <2>3. \A q \in PointRequests :
            Recalculating(q)' => /\ Recalculating(q)
                                 /\ Alone(q) => Alone(q)'
    <3>1. SUFFICES ASSUME NEW q \in PointRequests, Recalculating(q)'
                   PROVE  Recalculating(q) /\ (Alone(q) => Alone(q)')
        OBVIOUS
    <3>2. points'[q] = points[q]
        BY <2>1, <2>2, <3>1
    <3>. QED BY <1>2, <3>1, <3>2 DEF Recalculating
  <2>. QED BY <1>1, <1>2, <2>3
<1>3. ASSUME NEW r \in PointRequests, NEW amount \in Amounts,
             StartAward(r, amount)
      PROVE  HistoryInv'
  <2> DEFINE x == [pc |-> "award", points |-> calcPointsFromRule(tierId, amount)]
  <2>1. /\ points' = [points EXCEPT ![r] = x] /\ overlapped' = overlapped
        /\ x.pc \notin {"choose", "set tier"} /\ Kept
    BY <1>3 DEF StartAward
  <2> HIDE DEF x
  <2>. QED BY <1>2, <2>1
<1>4. ASSUME NEW r \in PointRequests,
             awardPoints(r) \/ expireJob(r) \/ PointsDie(r)
      PROVE  HistoryInv'
  <2>1. /\ points' = [points EXCEPT ![r] = PointsIdle]
        /\ overlapped' = overlapped /\ Kept
    BY <1>4 DEF awardPoints, expireJob, PointsDie, PointsDone
  <2>. QED BY <1>0, <1>2, <2>1
<1>5. ASSUME NEW r \in PointRequests, StartExpire(r) PROVE HistoryInv'
  <2>1. PICK n \in Due :
            points' = [points EXCEPT ![r] =
                         [pc |-> "expire", due |-> {b \in Due : b <= n}]]
    BY <1>5 DEF StartExpire
  <2> DEFINE x == [pc |-> "expire", due |-> {b \in Due : b <= n}]
  <2>2. /\ points' = [points EXCEPT ![r] = x]
        /\ overlapped \subseteq overlapped'
        /\ x.pc \notin {"choose", "set tier"} /\ Kept
    BY <1>5, <2>1 DEF StartExpire
  <2> HIDE DEF x
  <2>. QED BY <1>2, <2>2
<1>6. ASSUME NEW r \in PointRequests, ChooseTier(r) PROVE HistoryInv'
  <2> DEFINE x == [pc |-> "choose", old |-> NoTier, new |-> Chosen]
  <2>1. points' = [points EXCEPT ![r] = x] /\ x.pc = "choose" /\ Kept
    BY <1>6 DEF ChooseTier
  <2>2. /\ overlapped \subseteq overlapped'
        /\ "recalc" \notin overlapped' =>
                ~\E q \in PointRequests : Recalculating(q)
    BY <1>6 DEF ChooseTier, InStep, Recalculating
  <2> HIDE DEF x
  <2>3. points'[r] = x /\ \A q \in PointRequests : q # r => points'[q] = points[q]
    BY <2>1, PointRequestMoves
  <2>4. points'[r].pc # "set tier"
    BY <2>1, <2>3
  <2>5. "recalc" \notin overlapped' =>
            \A s, q \in PointRequests :
                Recalculating(s)' =>
                    /\ points'[s].pc = "set tier" => points'[s].old = tierId'
                    /\ Recalculating(q)' => q = s
    BY <2>2, <2>3, <2>4 DEF Recalculating
  <2>. QED BY <2>1, <2>2, <2>5 DEF HistoryInv, HistoryIsAChain
<1>7. ASSUME NEW r \in PointRequests, ReadTier(r) PROVE HistoryInv'
  <2> DEFINE x == [pc |-> "set tier", old |-> tierId, new |-> points[r].new]
  <2>1. /\ overlapped' = overlapped /\ Kept /\ Recalculating(r)
        /\ x.old = tierId
    BY <1>7 DEF ReadTier, Recalculating
  <2>2. points' = [points EXCEPT ![r] =
                     IF points[r].new = tierId THEN PointsIdle ELSE x]
    BY <1>7 DEF ReadTier
  <2> HIDE DEF x
  <2>3. CASE points[r].new = tierId
    BY <1>0, <1>2, <2>1, <2>2, <2>3
  <2>4. CASE points[r].new # tierId
    <3>1. points' = [points EXCEPT ![r] = x]
        BY <2>2, <2>4
    <3>2. /\ points'[r] = x
          /\ \A q \in PointRequests : q # r => points'[q] = points[q]
        BY <3>1, PointRequestMoves
    <3>3. points'[r].old = tierId'
        BY <2>1, <3>2
    <3>4. \A q \in PointRequests :
            Recalculating(q)' => /\ Recalculating(q)
                                 /\ Alone(q) => Alone(q)'
      <4>1. SUFFICES ASSUME NEW q \in PointRequests, Recalculating(q)'
                     PROVE  Recalculating(q) /\ (Alone(q) => Alone(q)')
        OBVIOUS
      <4>2. CASE q = r
        BY <2>1, <3>3, <4>2
      <4>3. CASE q # r
        <5>1. points'[q] = points[q]
            BY <3>2, <4>3
        <5>. QED BY <2>1, <4>1, <5>1 DEF Recalculating
      <4>. QED BY <4>2, <4>3
    <3>. QED BY <1>1, <2>1, <3>4
  <2>. QED BY <2>3, <2>4
<1>8. ASSUME NEW r \in PointRequests, recalcTier(r) PROVE HistoryInv'
  <2> DEFINE H == (0..Tiers) \X (0..Tiers)
             h == HistoryRow(r)
             n == Len(tierHistory) + 1
  <2>1. /\ tierHistory \in Seq(H) /\ tierHistory' = Append(tierHistory, h)
        /\ tierId' = points[r].new /\ points' = [points EXCEPT ![r] = PointsIdle]
        /\ overlapped' = overlapped /\ points[r].pc = "set tier"
    BY <1>8 DEF recalcTier, PointsDone, PointsTypeOK
  <2>2. h \in H /\ h[1] = points[r].old /\ h[2] = points[r].new
    <3>1. points[r].old \in 0..Tiers /\ points[r].new \in 0..Tiers
        BY <2>1, PointsRequests DEF Recalculating
    <3>. QED BY <3>1 DEF HistoryRow
  <2> HIDE DEF H, h
  <2>3. /\ Len(tierHistory) \in Nat /\ Len(tierHistory') = n
        /\ \A i \in 1..Len(tierHistory) : tierHistory'[i] = tierHistory[i]
        /\ tierHistory'[n] = h /\ tierHistory' # <<>>
        /\ tierHistory = <<>> <=> Len(tierHistory) = 0
    <3> DEFINE t == tierHistory'
    <3>1. t = Append(tierHistory, h) /\ tierHistory \in Seq(H) /\ h \in H
        BY <2>1, <2>2
    <3> HIDE DEF t
    <3>2. RowAdded(tierHistory, h, t)
        BY <3>1, RowIsAppended
    <3>. QED BY <3>2, Zenon DEF RowAdded, t
  <2>4. tierHistory'[Len(tierHistory')][2] = tierId'
    BY <2>1, <2>2, <2>3
  <2>5. "recalc" \notin overlapped => points[r].old = tierId
    BY <2>1 DEF HistoryInv, Recalculating
  <2>6. points'[r] = PointsIdle
        /\ \A q \in PointRequests : q # r => points'[q] = points[q]
    BY <2>1, PointRequestMoves
  <2>7. "recalc" \notin overlapped =>
            ~\E q \in PointRequests : Recalculating(q)'
    <3>1. ~Recalculating(r)'
        BY <1>0, <2>6 DEF Recalculating
    <3>2. "recalc" \notin overlapped =>
            \A q \in PointRequests : q # r => ~Recalculating(q)
        BY <2>1 DEF HistoryInv, Recalculating
    <3>. QED BY <2>6, <3>1, <3>2 DEF Recalculating
  <2>8. "recalc" \notin overlapped =>
            \A i \in 1..Len(tierHistory') :
                tierHistory'[i][1] =
                    IF i = 1 THEN NoTier ELSE tierHistory'[i - 1][2]
    <3>1. SUFFICES ASSUME "recalc" \notin overlapped,
                          NEW i \in 1..Len(tierHistory')
                   PROVE  tierHistory'[i][1] =
                             IF i = 1 THEN NoTier ELSE tierHistory'[i - 1][2]
        OBVIOUS
    <3>2. CASE i # n
      <4>1. /\ i \in 1..Len(tierHistory)
            /\ i # 1 => i - 1 \in 1..Len(tierHistory)
        BY <2>3, <3>2
      <4>2. tierHistory[i][1] =
                IF i = 1 THEN NoTier ELSE tierHistory[i - 1][2]
        BY <3>1, <4>1 DEF HistoryInv, HistoryIsAChain
      <4>. QED BY <2>3, <4>1, <4>2
    <3>3. CASE i = n
      <4>1. tierHistory'[i][1] = tierId
        BY <2>2, <2>3, <2>5, <3>1, <3>3
      <4>2. CASE i = 1
        <5>1. Len(tierHistory) = 0
            BY <2>3, <3>3, <4>2
        <5>2. tierHistory = <<>>
            BY <2>3, <5>1, Zenon
        <5>3. tierId = NoTier
            BY <5>2, Zenon DEF HistoryInv
        <5>. QED BY <4>1, <4>2, <5>3
      <4>3. CASE i # 1
        <5>1. /\ i - 1 = Len(tierHistory) /\ i - 1 \in 1..Len(tierHistory)
              /\ tierHistory # <<>>
            BY <2>3, <3>3, <4>3
        <5>2. tierHistory[Len(tierHistory)][2] = tierId
            BY <5>1 DEF HistoryInv, HistoryIsAChain
        <5>3. tierHistory'[i - 1] = tierHistory[i - 1]
            BY <2>3, <5>1
        <5>4. tierHistory'[i - 1][2] = tierId
            BY <5>1, <5>2, <5>3
        <5>. QED BY <4>1, <4>3, <5>4
      <4>. QED BY <4>2, <4>3
    <3>. QED BY <3>2, <3>3
  <2>9. HistoryIsAChain'
    BY <2>1, <2>4, <2>8 DEF HistoryIsAChain
  <2>. QED BY <2>1, <2>3, <2>7, <2>9 DEF HistoryInv
<1>9. CASE TimePasses \/ UNCHANGED pointVars
    BY <1>1, <1>9 DEF TimePasses, pointVars, Recalculating
<1>. QED
    BY <1>3, <1>4, <1>5, <1>6, <1>7, <1>8, <1>9 DEF PointsNext

LEMMA PointsInvHolds == PointsSpec => []PointsInv
<1>1. ASSUME PointsInit PROVE PointsInv
  <2>1. /\ batches = <<>> /\ Len(batches) = 0 /\ Rows = {} /\ Active = {}
        /\ batches \in Seq(Batch)
        /\ tierHistory = <<>> /\ tierHistory \in Seq((0..Tiers) \X (0..Tiers))
    BY <1>1, EmptySeq DEF PointsInit, Rows, Active
  <2>2. PointsTypeOK
    BY <1>1, <2>1, PointsAssumption DEF PointsInit, PointsTypeOK, NoTier
  <2>3. \A r \in PointRequests :
            /\ points[r].pc # "expire" /\ ~Recalculating(r)
    <3>1. PointsIdle.pc \notin {"expire", "choose", "set tier"}
        BY DEF PointsIdle
    <3>. QED BY <1>1, <3>1 DEF PointsInit, Recalculating
  <2>4. SumOf(Active) = 0
    <3>1. IsFiniteSet({})
        BY FS_EmptySet
    <3>2. Sum(PointsIn(batches), {}) = 0
        BY <3>1, SumUnrolls DEF SumUnrollsAt
    <3>. QED BY <2>1, <3>2, SumsAreTotals
  <2>5. BalanceInv
    BY <1>1, <2>3, <2>4
       DEF PointsInit, BalanceInv, BalanceMatchesBatches, DuesAreRows
  <2>6. TierInv
    BY <1>1, <2>3 DEF PointsInit, TierInv, TierWasEarned
  <2>7. HistoryInv
    <3>1. HistoryIsAChain
      <4>1. 1..Len(tierHistory) = {}
        BY <2>1
      <4>. QED BY <2>1, <4>1 DEF HistoryIsAChain
    <3>2. tierId = NoTier
        BY <1>1 DEF PointsInit
    <3>. QED BY <2>3, <3>1, <3>2 DEF HistoryInv
  <2>. QED BY <2>2, <2>5, <2>6, <2>7 DEF PointsInv
<1>2. ASSUME PointsInv, [PointsNext]_pointVars PROVE PointsInv'
    BY <1>2, PointsStepTypes, BalanceStands, TierStands, HistoryStands
       DEF PointsInv, BalanceInv
<1>. QED BY <1>1, <1>2, PTL DEF PointsSpec

(* The rows of points, tiers and requests keep their types. *)
THEOREM PointsTypeCorrect == PointsSpec => []PointsTypeOK
<1>1. PointsInv => PointsTypeOK
    BY DEF PointsInv
<1>. QED BY <1>1, PointsInvHolds, PTL

(* Balance, tiers and their history agree with the batches of points
   (points.service.ts), for any rule, any tiers and any number of requests. *)
THEOREM PointsAdded == PointsSpec => []PointsAddUp
<1>1. PointsInv => PointsAddUp
    BY DEF PointsInv, BalanceInv, TierInv, HistoryInv, PointsAddUp
<1>. QED BY <1>1, PointsInvHolds, PTL

-----------------------------------------------------------------------------
(* Uploads and collections. *)

(* Requests that may yet insert chunk c of e; those that have inserted the
   first and not the last; all uploads of e; and those on their way to put a
   row into a collection, before and after they looked for one. *)
Open(e, c) ==
    {r \in CatalogRequests :
        /\ catalog[r].pc \in {"create", "add", "insert"} /\ catalog[r].event = e
        /\ catalog[r].pc = "insert" => catalog[r].chunk <= c}
Halfway(e) ==
    {r \in CatalogRequests : /\ catalog[r].pc = "insert" /\ catalog[r].event = e
                             /\ catalog[r].chunk > 1}
UploadsOf(e) ==
    {r \in CatalogRequests : /\ catalog[r].pc \in {"create", "add", "insert"}
                             /\ catalog[r].event = e}
Fitting(t) ==
    {r \in CatalogRequests : /\ catalog[r].pc \in {"count", "connect"}
                             /\ catalog[r].type = t}
Entering(t, e) ==
    {r \in CatalogRequests : /\ catalog[r].pc \in {"count", "connect"}
                             /\ catalog[r].type = t /\ catalog[r].event = e}
Connecting(t, e) ==
    {r \in CatalogRequests : /\ catalog[r].pc = "connect"
                             /\ catalog[r].type = t /\ catalog[r].event = e}

(* What a request may still insert is counted together with what is there. *)
UploadTallies ==
    \A e \in Events :
        /\ tickets[e][1] - tickets[e][Chunks]
                <= stopped[e] + Cardinality(Halfway(e))
        /\ stopped[e] + Cardinality(UploadsOf(e)) <= catalogOps
        /\ \A c \in 1..Chunks :
            tickets[e][c] + Cardinality(Open(e, c)) <= catalogOps

CollectionTallies ==
    \A t \in CollectionTypes :
        /\ Listed(t) + Cardinality(Fitting(t))
                < Limit + Cardinality(CatalogRequests)
        /\ \A e \in Events :
            /\ collections[t][e] + Cardinality(Connecting(t, e))
                <= Cardinality(CatalogRequests)
            /\ collections[t][e] + Cardinality(Entering(t, e)) <= catalogOps

RowsInv ==
    /\ \A r \in CatalogRequests :
        catalog[r].pc \in {"add", "insert"} => catalog[r].event \in eventRows
    /\ \A e \in Events : tickets[e][1] > 0 => e \in eventRows


(* A sum moves with the one summand that changes. *)
LEMMA SumMoves ==
    ASSUME NEW f, NEW g, NEW S, IsFiniteSet(S), IntsOn(f, S), IntsOn(g, S),
           NEW x \in S, AgreeOn(g, f, S \ {x})
    PROVE  /\ Sum(f, S) \in Int /\ Sum(g, S) \in Int
           /\ Sum(g, S) = Sum(f, S) + (g[x] - f[x])
<1>1. /\ SumTakesAt(f, S) /\ SumTakesAt(g, S)
    BY SumTakes
<1>2. IsFiniteSet(S \ {x})
    BY FS_Subset
<1>3. Sum(g, S \ {x}) = Sum(f, S \ {x})
    BY <1>2, SumAgrees
<1>4. /\ Sum(f, S) \in Int /\ Sum(g, S) \in Int
      /\ Sum(f, S \ {x}) \in Int /\ f[x] \in Int /\ g[x] \in Int
    BY SumIsInt DEF IntsOn
<1>5. /\ Sum(f, S) = f[x] + Sum(f, S \ {x})
      /\ Sum(g, S) = g[x] + Sum(g, S \ {x})
    BY <1>1 DEF SumTakesAt
<1>. QED BY <1>3, <1>4, <1>5

One(r, S) == IF r \in S THEN 1 ELSE 0

(* T counts as many as S, but for r. *)
Moves(r, S, T) ==
    /\ Cardinality(S) \in Nat /\ Cardinality(T) \in Nat
    /\ Cardinality(T) = (Cardinality(S) - One(r, S)) + One(r, T)

LEMMA SetMoves ==
    ASSUME NEW R, IsFiniteSet(R), NEW r, NEW S \in SUBSET R, NEW T \in SUBSET R,
           \A q \in R \ {r} : q \in S <=> q \in T
    PROVE  Moves(r, S, T)
<1>1. S \ {r} = T \ {r}
    OBVIOUS
<1>2. ASSUME NEW U \in SUBSET R
      PROVE  /\ Cardinality(U) \in Nat /\ Cardinality(U \ {r}) \in Nat
             /\ Cardinality(U) = Cardinality(U \ {r}) + One(r, U)
  <2>1. IsFiniteSet(U) /\ IsFiniteSet(U \ {r})
    BY FS_Subset
  <2>2. Cardinality(U) \in Nat /\ Cardinality(U \ {r}) \in Nat
    BY <2>1, FS_CardinalityType
  <2>3. CASE r \in U
    <3>1. Cardinality(U \ {r}) = Cardinality(U) - 1
        BY <2>1, <2>3, FS_RemoveElement
    <3>2. One(r, U) = 1
        BY <2>3 DEF One
    <3>. QED BY <2>2, <3>1, <3>2
  <2>4. CASE r \notin U
    <3>1. Cardinality(U \ {r}) = Cardinality(U)
        BY <2>1, <2>4, FS_RemoveElement
    <3>2. One(r, U) = 0
        BY <2>4 DEF One
    <3>. QED BY <2>2, <3>1, <3>2
  <2>. QED BY <2>2, <2>3, <2>4
<1>3. PICK k \in Nat : k = Cardinality(S \ {r}) /\ k = Cardinality(T \ {r})
    BY <1>1, <1>2
<1>4. /\ Cardinality(S) \in Nat /\ Cardinality(T) \in Nat
      /\ Cardinality(S) = k + One(r, S) /\ Cardinality(T) = k + One(r, T)
    BY <1>2, <1>3
<1>. QED BY <1>4 DEF Moves, One

TalliesMove(r) ==
    /\ \A e \in Events : /\ Moves(r, Halfway(e), Halfway(e)')
                         /\ Moves(r, UploadsOf(e), UploadsOf(e)')
    /\ \A e \in Events, c \in 1..Chunks : Moves(r, Open(e, c), Open(e, c)')
    /\ \A t \in CollectionTypes : Moves(r, Fitting(t), Fitting(t)')
    /\ \A t \in CollectionTypes, e \in Events :
        /\ Moves(r, Entering(t, e), Entering(t, e)')
        /\ Moves(r, Connecting(t, e), Connecting(t, e)')

LEMMA RequestsMove ==
    ASSUME CatalogTypeOK, NEW r \in CatalogRequests, NEW x,
           catalog' = [catalog EXCEPT ![r] = x]
    PROVE  /\ catalog'[r] = x
           /\ \A q \in CatalogRequests : q # r => catalog'[q] = catalog[q]
           /\ TalliesMove(r)
<1>1. /\ catalog'[r] = x
      /\ \A q \in CatalogRequests \ {r} : catalog'[q] = catalog[q]
    BY DEF CatalogTypeOK
<1>2. IsFiniteSet(CatalogRequests)
    BY CatalogAssumption
<1>3. ASSUME NEW e \in Events
      PROVE  /\ Moves(r, Halfway(e), Halfway(e)')
             /\ Moves(r, UploadsOf(e), UploadsOf(e)')
  <2>1. \A q \in CatalogRequests \ {r} : /\ q \in Halfway(e) <=> q \in Halfway(e)'
                                         /\ q \in UploadsOf(e) <=> q \in UploadsOf(e)'
    BY <1>1 DEF Halfway, UploadsOf
  <2>2. /\ Halfway(e) \in SUBSET CatalogRequests
        /\ Halfway(e)' \in SUBSET CatalogRequests
        /\ UploadsOf(e) \in SUBSET CatalogRequests
        /\ UploadsOf(e)' \in SUBSET CatalogRequests
    BY DEF Halfway, UploadsOf
  <2>. QED BY <1>2, <2>1, <2>2, SetMoves
<1>4. ASSUME NEW e \in Events, NEW c \in 1..Chunks
      PROVE  Moves(r, Open(e, c), Open(e, c)')
  <2>1. \A q \in CatalogRequests \ {r} : q \in Open(e, c) <=> q \in Open(e, c)'
    BY <1>1 DEF Open
  <2>2. /\ Open(e, c) \in SUBSET CatalogRequests
        /\ Open(e, c)' \in SUBSET CatalogRequests
    BY DEF Open
  <2>. QED BY <1>2, <2>1, <2>2, SetMoves
<1>5. ASSUME NEW t \in CollectionTypes PROVE Moves(r, Fitting(t), Fitting(t)')
  <2>1. \A q \in CatalogRequests \ {r} : q \in Fitting(t) <=> q \in Fitting(t)'
    BY <1>1 DEF Fitting
  <2>2. /\ Fitting(t) \in SUBSET CatalogRequests
        /\ Fitting(t)' \in SUBSET CatalogRequests
    BY DEF Fitting
  <2>. QED BY <1>2, <2>1, <2>2, SetMoves
<1>6. ASSUME NEW t \in CollectionTypes, NEW e \in Events
      PROVE  /\ Moves(r, Entering(t, e), Entering(t, e)')
             /\ Moves(r, Connecting(t, e), Connecting(t, e)')
  <2>1. \A q \in CatalogRequests \ {r} :
            /\ q \in Entering(t, e) <=> q \in Entering(t, e)'
            /\ q \in Connecting(t, e) <=> q \in Connecting(t, e)'
    BY <1>1 DEF Entering, Connecting
  <2>2. /\ Entering(t, e) \in SUBSET CatalogRequests
        /\ Entering(t, e)' \in SUBSET CatalogRequests
        /\ Connecting(t, e) \in SUBSET CatalogRequests
        /\ Connecting(t, e)' \in SUBSET CatalogRequests
    BY DEF Entering, Connecting
  <2>. QED BY <1>2, <2>1, <2>2, SetMoves
<1>. QED BY <1>1, <1>3, <1>4, <1>5, <1>6 DEF TalliesMove

(* What is counted, without its bounds. *)
CatalogCounts ==
    /\ eventRows \subseteq Events /\ wishlist \subseteq Events
    /\ tickets \in [Events -> [1..Chunks -> Nat]]
    /\ stopped \in [Events -> Nat]
    /\ collections \in [CollectionTypes -> [Events -> Nat]]
    /\ catalog \in [CatalogRequests -> CatalogAt \cup {CatalogIdle}]
    /\ catalogOps \in 0..MaxCatalogOps

CatalogInv == CatalogCounts /\ UploadTallies /\ CollectionTallies /\ RowsInv

LEMMA RequestsAreCounted ==
    ASSUME NEW S \in SUBSET CatalogRequests
    PROVE  /\ Cardinality(S) \in Nat /\ Cardinality(CatalogRequests) \in Nat
           /\ Cardinality(S) <= Cardinality(CatalogRequests)
BY CatalogAssumption, FS_Subset, FS_CardinalityType

LEMMA TalliesAreCounted ==
    /\ \A e \in Events : /\ Cardinality(Halfway(e)) \in Nat
                         /\ Cardinality(UploadsOf(e)) \in Nat
    /\ \A e \in Events, c \in 1..Chunks : Cardinality(Open(e, c)) \in Nat
    /\ \A t \in CollectionTypes : Cardinality(Fitting(t)) \in Nat
    /\ \A t \in CollectionTypes, e \in Events :
        /\ Cardinality(Entering(t, e)) \in Nat
        /\ Cardinality(Connecting(t, e)) \in Nat
<1>1. \A e \in Events : /\ Halfway(e) \in SUBSET CatalogRequests
                        /\ UploadsOf(e) \in SUBSET CatalogRequests
    BY DEF Halfway, UploadsOf
<1>2. \A e \in Events, c \in 1..Chunks : Open(e, c) \in SUBSET CatalogRequests
    BY DEF Open
<1>3. \A t \in CollectionTypes : Fitting(t) \in SUBSET CatalogRequests
    BY DEF Fitting
<1>4. \A t \in CollectionTypes, e \in Events :
        /\ Entering(t, e) \in SUBSET CatalogRequests
        /\ Connecting(t, e) \in SUBSET CatalogRequests
    BY DEF Entering, Connecting
<1>. QED BY <1>1, <1>2, <1>3, <1>4, RequestsAreCounted

(* The tallies bound what is counted. *)
LEMMA CountsAreBounded ==
    ASSUME CatalogCounts, UploadTallies, CollectionTallies
    PROVE  CatalogTypeOK
<1>0. MaxCatalogOps \in Nat /\ catalogOps \in Nat /\ catalogOps <= MaxCatalogOps
    BY CatalogAssumption DEF CatalogCounts
<1>1. ASSUME NEW e \in Events, NEW c \in 1..Chunks
      PROVE  tickets[e][c] \in 0..MaxCatalogOps
  <2>1. tickets[e][c] \in Nat /\ Cardinality(Open(e, c)) \in Nat
    BY TalliesAreCounted DEF CatalogCounts
  <2>2. tickets[e][c] + Cardinality(Open(e, c)) <= catalogOps
    BY DEF UploadTallies
  <2>. QED BY <1>0, <2>1, <2>2
<1>2. tickets \in [Events -> [1..Chunks -> 0..MaxCatalogOps]]
    BY <1>1 DEF CatalogCounts
<1>3. ASSUME NEW e \in Events PROVE stopped[e] \in 0..MaxCatalogOps
  <2>1. stopped[e] \in Nat /\ Cardinality(UploadsOf(e)) \in Nat
    BY TalliesAreCounted DEF CatalogCounts
  <2>2. stopped[e] + Cardinality(UploadsOf(e)) <= catalogOps
    BY DEF UploadTallies
  <2>. QED BY <1>0, <2>1, <2>2
<1>4. stopped \in [Events -> 0..MaxCatalogOps]
    BY <1>3 DEF CatalogCounts
<1>5. ASSUME NEW t \in CollectionTypes, NEW e \in Events
      PROVE  collections[t][e] \in 0..MaxCatalogOps
  <2>1. collections[t][e] \in Nat /\ Cardinality(Entering(t, e)) \in Nat
    BY TalliesAreCounted DEF CatalogCounts
  <2>2. collections[t][e] + Cardinality(Entering(t, e)) <= catalogOps
    BY DEF CollectionTallies
  <2>. QED BY <1>0, <2>1, <2>2
<1>6. collections \in [CollectionTypes -> [Events -> 0..MaxCatalogOps]]
    BY <1>5 DEF CatalogCounts
<1>. QED BY <1>2, <1>4, <1>6 DEF CatalogCounts, CatalogTypeOK

LEMMA CatalogIsTyped ==
    ASSUME CatalogTypeOK
    PROVE  /\ CatalogCounts /\ MaxCatalogOps \in Nat /\ catalogOps \in Nat
           /\ \A e \in Events : stopped[e] \in Nat
           /\ \A e \in Events, c \in 1..Chunks : tickets[e][c] \in Nat
           /\ \A t \in CollectionTypes, e \in Events : collections[t][e] \in Nat
           /\ 1 \in 1..Chunks /\ Chunks \in 1..Chunks /\ Chunks \in Nat
           /\ \A r \in CatalogRequests :
                \/ catalog[r] = CatalogIdle
                \/ /\ catalog[r] \in CatalogAt
                   /\ catalog[r].event \in Events
                   /\ catalog[r].chunk \in 1..Chunks
                   /\ catalog[r].type \in CollectionTypes
<1>1. MaxCatalogOps \in Nat /\ Chunks \in Nat \ {0}
    BY CatalogAssumption
<1>2. \A r \in CatalogRequests :
            \/ catalog[r] = CatalogIdle
            \/ /\ catalog[r] \in CatalogAt
               /\ catalog[r].event \in Events
               /\ catalog[r].chunk \in 1..Chunks
               /\ catalog[r].type \in CollectionTypes
    BY DEF CatalogTypeOK, CatalogAt
<1>3. 1 \in 1..Chunks /\ Chunks \in 1..Chunks
    BY <1>1
<1>4. /\ tickets \in [Events -> [1..Chunks -> Nat]] /\ stopped \in [Events -> Nat]
      /\ collections \in [CollectionTypes -> [Events -> Nat]]
    BY <1>1 DEF CatalogTypeOK
<1>. QED BY <1>1, <1>2, <1>3, <1>4 DEF CatalogTypeOK, CatalogCounts

LEMMA ListedIsInt ==
    ASSUME CatalogTypeOK, NEW t \in CollectionTypes
    PROVE  /\ Listed(t) \in Int /\ IsFiniteSet(Events)
           /\ Listed(t) = Sum(collections[t], Events)
           /\ IntsOn(collections[t], Events)
<1>1. collections[t] \in [Events -> Nat]
    BY CatalogIsTyped DEF CatalogCounts
<1>2. DOMAIN collections[t] = Events /\ IntsOn(collections[t], Events)
    BY <1>1 DEF IntsOn
<1>3. Listed(t) = Sum(collections[t], Events)
    BY <1>2 DEF Listed, Sum, SumFunction
<1>4. IsFiniteSet(Events)
    BY CatalogAssumption
<1>. QED BY <1>2, <1>3, <1>4, SumIsInt

(* A request that inserts no tickets: it begins, or goes on to a step that
   inserts what it could insert before, or ends. *)
LEMMA UploadsStand ==
    ASSUME CatalogInv, NEW r \in CatalogRequests, NEW x,
           catalog' = [catalog EXCEPT ![r] = x],
           UNCHANGED <<tickets, stopped>>,
           catalogOps' \in {catalogOps, catalogOps + 1},
           catalog[r].pc # "insert",
           x.pc \in {"create", "add", "insert"} =>
                \/ catalogOps' = catalogOps + 1
                \/ /\ catalog[r].pc \in {"create", "add"}
                   /\ x.event = catalog[r].event
    PROVE  UploadTallies'
<1>1. CatalogTypeOK
    BY CountsAreBounded DEF CatalogInv
<1>2. catalogOps \in Nat /\ catalogOps' \in Nat /\ Chunks \in 1..Chunks /\ 1 \in 1..Chunks
    BY <1>1, CatalogIsTyped
<1>3. catalog'[r] = x /\ TalliesMove(r)
    BY <1>1, RequestsMove
<1>4. UploadTallies
    BY DEF CatalogInv
<1>5. ASSUME NEW e \in Events
      PROVE  /\ tickets'[e][1] - tickets'[e][Chunks]
                    <= stopped'[e] + Cardinality(Halfway(e)')
             /\ stopped'[e] + Cardinality(UploadsOf(e)') <= catalogOps'
  <2>1. /\ Moves(r, Halfway(e), Halfway(e)')
        /\ Moves(r, UploadsOf(e), UploadsOf(e)')
    BY <1>3 DEF TalliesMove
  <2>2. One(r, Halfway(e)) = 0 /\ One(r, Halfway(e)') \in {0, 1}
    BY DEF One, Halfway
  <2>3. /\ One(r, UploadsOf(e)) \in {0, 1} /\ One(r, UploadsOf(e)') \in {0, 1}
        /\ \/ catalogOps' = catalogOps + 1
           \/ One(r, UploadsOf(e)') <= One(r, UploadsOf(e))
    BY <1>3 DEF One, UploadsOf
  <2>4. PICK a \in Nat, b \in Nat, s \in Nat, h \in Nat, k \in Nat, u \in Nat,
             w \in Nat :
            /\ a = tickets[e][1] /\ b = tickets[e][Chunks] /\ s = stopped[e]
            /\ h = Cardinality(Halfway(e)) /\ k = Cardinality(Halfway(e)')
            /\ u = Cardinality(UploadsOf(e)) /\ w = Cardinality(UploadsOf(e)')
    BY <1>1, <1>2, <2>1, CatalogIsTyped DEF Moves
  <2>5. a - b <= s + h /\ s + u <= catalogOps
    BY <1>4, <2>4 DEF UploadTallies
  <2>6. h <= k
    BY <2>1, <2>2, <2>4 DEF Moves
  <2>7. w <= u \/ (catalogOps' = catalogOps + 1 /\ w <= u + 1)
    BY <1>2, <2>1, <2>3, <2>4 DEF Moves
  <2>8. a - b <= s + k /\ s + w <= catalogOps'
    BY <1>2, <2>5, <2>6, <2>7
  <2>. QED BY <2>4, <2>8
<1>6. ASSUME NEW e \in Events, NEW c \in 1..Chunks
      PROVE  tickets'[e][c] + Cardinality(Open(e, c)') <= catalogOps'
  <2>1. Moves(r, Open(e, c), Open(e, c)')
    BY <1>3 DEF TalliesMove
  <2>2. /\ One(r, Open(e, c)) \in {0, 1} /\ One(r, Open(e, c)') \in {0, 1}
        /\ \/ catalogOps' = catalogOps + 1
           \/ One(r, Open(e, c)') <= One(r, Open(e, c))
    BY <1>3 DEF One, Open
  <2>3. PICK a \in Nat, h \in Nat, k \in Nat :
            /\ a = tickets[e][c]
            /\ h = Cardinality(Open(e, c)) /\ k = Cardinality(Open(e, c)')
    BY <1>1, <2>1, CatalogIsTyped DEF Moves
  <2>4. a + h <= catalogOps
    BY <1>4, <2>3 DEF UploadTallies
  <2>5. k <= h \/ (catalogOps' = catalogOps + 1 /\ k <= h + 1)
    BY <1>2, <2>1, <2>2, <2>3 DEF Moves
  <2>6. a + k <= catalogOps'
    BY <1>2, <2>4, <2>5
  <2>. QED BY <2>3, <2>6
<1>. QED BY <1>5, <1>6 DEF UploadTallies

(* A request that inserts no row of a collection: what it counted lets it go
   on, and what it searched for was not there. *)
LEMMA CollectionsStand ==
    ASSUME CatalogInv, NEW r \in CatalogRequests, NEW x,
           catalog' = [catalog EXCEPT ![r] = x],
           UNCHANGED collections,
           catalogOps' \in {catalogOps, catalogOps + 1},
           x.pc \in {"count", "connect"} =>
                \/ catalogOps' = catalogOps + 1 /\ Listed(x.type) < Limit
                \/ /\ catalog[r].pc \in {"count", "connect"}
                   /\ x.event = catalog[r].event /\ x.type = catalog[r].type,
           x.pc = "connect" => collections[x.type][x.event] = 0
    PROVE  CollectionTallies'
<1>1. CatalogTypeOK
    BY CountsAreBounded DEF CatalogInv
<1>2. catalogOps \in Nat /\ catalogOps' \in Nat /\ Chunks \in 1..Chunks /\ 1 \in 1..Chunks
    BY <1>1, CatalogIsTyped
<1>3. catalog'[r] = x /\ TalliesMove(r)
    BY <1>1, RequestsMove
<1>4. CollectionTallies
    BY DEF CatalogInv
<1>7. ASSUME NEW t \in CollectionTypes
      PROVE  Listed(t)' + Cardinality(Fitting(t)')
                < Limit + Cardinality(CatalogRequests)
  <2>1. Moves(r, Fitting(t), Fitting(t)')
    BY <1>3 DEF TalliesMove
  <2>2. /\ One(r, Fitting(t)) \in {0, 1} /\ One(r, Fitting(t)') \in {0, 1}
        /\ \/ Listed(t) < Limit
           \/ One(r, Fitting(t)') <= One(r, Fitting(t))
    BY <1>3 DEF One, Fitting
  <2>3. Fitting(t)' \in SUBSET CatalogRequests
    BY DEF Fitting
  <2>4. PICK l \in Int, h \in Nat, k \in Nat, n \in Nat :
            /\ l = Listed(t) /\ n = Cardinality(CatalogRequests)
            /\ h = Cardinality(Fitting(t)) /\ k = Cardinality(Fitting(t)')
            /\ k <= n
    BY <1>1, <2>1, <2>3, RequestsAreCounted, ListedIsInt DEF Moves
  <2>5. Limit \in Nat /\ l + h < Limit + n
    BY <1>4, <2>4, CatalogAssumption DEF CollectionTallies
  <2>6. k <= h \/ l < Limit
    BY <2>1, <2>2, <2>4 DEF Moves
  <2>7. l + k < Limit + n
    BY <2>4, <2>5, <2>6
  <2>8. Listed(t)' = l
    BY <2>4 DEF Listed
  <2>. QED BY <2>4, <2>7, <2>8
<1>8. ASSUME NEW t \in CollectionTypes, NEW e \in Events
      PROVE  /\ collections'[t][e] + Cardinality(Connecting(t, e)')
                <= Cardinality(CatalogRequests)
             /\ collections'[t][e] + Cardinality(Entering(t, e)') <= catalogOps'
  <2>1. /\ Moves(r, Connecting(t, e), Connecting(t, e)')
        /\ Moves(r, Entering(t, e), Entering(t, e)')
    BY <1>3 DEF TalliesMove
  <2>2. /\ One(r, Connecting(t, e)) \in {0, 1}
        /\ One(r, Connecting(t, e)') \in {0, 1}
        /\ \/ One(r, Connecting(t, e)') = 0
           \/ collections[t][e] = 0
    <3>1. r \in Connecting(t, e)' => x.pc = "connect" /\ x.type = t /\ x.event = e
        BY <1>3 DEF Connecting
    <3>2. r \in Connecting(t, e)' => collections[t][e] = 0
        BY <3>1
    <3>. QED BY <3>2 DEF One
  <2>3. /\ One(r, Entering(t, e)) \in {0, 1} /\ One(r, Entering(t, e)') \in {0, 1}
        /\ \/ catalogOps' = catalogOps + 1
           \/ One(r, Entering(t, e)') <= One(r, Entering(t, e))
    BY <1>3 DEF One, Entering
  <2>4. Connecting(t, e)' \in SUBSET CatalogRequests
    BY DEF Connecting
  <2>5. PICK a \in Nat, n \in Nat, h \in Nat, k \in Nat, u \in Nat, w \in Nat :
            /\ a = collections[t][e] /\ n = Cardinality(CatalogRequests)
            /\ h = Cardinality(Connecting(t, e))
            /\ k = Cardinality(Connecting(t, e)') /\ k <= n
            /\ u = Cardinality(Entering(t, e)) /\ w = Cardinality(Entering(t, e)')
    BY <1>1, <2>1, <2>4, RequestsAreCounted, CatalogIsTyped DEF Moves
  <2>6. a + h <= n /\ a + u <= catalogOps
    BY <1>4, <2>5 DEF CollectionTallies
  <2>7. k <= h \/ a = 0
    BY <2>1, <2>2, <2>5 DEF Moves
  <2>8. w <= u \/ (catalogOps' = catalogOps + 1 /\ w <= u + 1)
    BY <1>2, <2>1, <2>3, <2>5 DEF Moves
  <2>9. a + k <= n /\ a + w <= catalogOps'
    BY <1>2, <2>5, <2>6, <2>7, <2>8
  <2>. QED BY <2>5, <2>9
<1>. QED BY <1>7, <1>8 DEF CollectionTallies
LEMMA IdleIsInNoTally ==
    ASSUME NEW r, catalog[r] = CatalogIdle
    PROVE  /\ \A e : One(r, Halfway(e)) = 0 /\ One(r, UploadsOf(e)) = 0
           /\ \A e, c : One(r, Open(e, c)) = 0
           /\ \A t : One(r, Fitting(t)) = 0
           /\ \A t, e : One(r, Entering(t, e)) = 0 /\ One(r, Connecting(t, e)) = 0
<1>1. catalog[r].pc = "idle"
    BY DEF CatalogIdle
<1>. QED BY <1>1 DEF One, Halfway, UploadsOf, Open, Fitting, Entering, Connecting

LEMMA IdleIsInNoTallyNext ==
    ASSUME NEW r, catalog'[r] = CatalogIdle
    PROVE  /\ \A e : One(r, Halfway(e)') = 0 /\ One(r, UploadsOf(e)') = 0
           /\ \A e, c : One(r, Open(e, c)') = 0
           /\ \A t : One(r, Fitting(t)') = 0
           /\ \A t, e : One(r, Entering(t, e)') = 0 /\ One(r, Connecting(t, e)') = 0
<1>1. catalog'[r].pc = "idle"
    BY DEF CatalogIdle
<1>. QED BY <1>1 DEF One, Halfway, UploadsOf, Open, Fitting, Entering, Connecting

(* What an upload inserts it could insert before, of all the tallies. *)
LEMMA UploadsMove ==
    ASSUME CatalogInv, NEW r \in CatalogRequests, NEW x,
           catalog' = [catalog EXCEPT ![r] = x], catalogOps' = catalogOps,
           \A e \in Events :
              /\ stopped'[e] \in Nat
              /\ tickets'[e][1] \in Nat /\ tickets'[e][Chunks] \in Nat
              /\ tickets'[e][1] - tickets'[e][Chunks] + One(r, Halfway(e))
                    <= tickets[e][1] - tickets[e][Chunks]
                       + One(r, Halfway(e)') + (stopped'[e] - stopped[e])
              /\ stopped'[e] + One(r, UploadsOf(e)')
                    <= stopped[e] + One(r, UploadsOf(e))
              /\ \A c \in 1..Chunks :
                    /\ tickets'[e][c] \in Nat
                    /\ tickets'[e][c] + One(r, Open(e, c)')
                          <= tickets[e][c] + One(r, Open(e, c))
    PROVE  UploadTallies'
<1>1. CatalogTypeOK
    BY CountsAreBounded DEF CatalogInv
<1>2. catalogOps \in Nat /\ Chunks \in 1..Chunks /\ 1 \in 1..Chunks
    BY <1>1, CatalogIsTyped
<1>3. TalliesMove(r)
    BY <1>1, RequestsMove
<1>4. UploadTallies
    BY DEF CatalogInv
<1>5. ASSUME NEW e \in Events
      PROVE  /\ tickets'[e][1] - tickets'[e][Chunks]
                    <= stopped'[e] + Cardinality(Halfway(e)')
             /\ stopped'[e] + Cardinality(UploadsOf(e)') <= catalogOps'
  <2>1. /\ Moves(r, Halfway(e), Halfway(e)')
        /\ Moves(r, UploadsOf(e), UploadsOf(e)')
    BY <1>3 DEF TalliesMove
  <2>2. PICK i \in Nat, j \in Nat, m \in Nat, n \in Nat :
            /\ i = One(r, Halfway(e)) /\ j = One(r, Halfway(e)')
            /\ m = One(r, UploadsOf(e)) /\ n = One(r, UploadsOf(e)')
    BY DEF One
  <2>3. PICK a \in Nat, b \in Nat, s \in Nat, h \in Nat, k \in Nat, u \in Nat,
             w \in Nat :
            /\ a = tickets[e][1] /\ b = tickets[e][Chunks] /\ s = stopped[e]
            /\ h = Cardinality(Halfway(e)) /\ k = Cardinality(Halfway(e)')
            /\ u = Cardinality(UploadsOf(e)) /\ w = Cardinality(UploadsOf(e)')
    BY <1>1, <1>2, <2>1, CatalogIsTyped DEF Moves
  <2>4. PICK p \in Nat, q \in Nat, z \in Nat :
            /\ p = tickets'[e][1] /\ q = tickets'[e][Chunks] /\ z = stopped'[e]
    OBVIOUS
  <2>5. a - b <= s + h /\ s + u <= catalogOps
    BY <1>4, <2>3 DEF UploadTallies
  <2>6. k = (h - i) + j /\ w = (u - m) + n
    BY <2>1, <2>2, <2>3 DEF Moves
  <2>7. p - q + i <= a - b + j + (z - s) /\ z + n <= s + m
    BY <2>2, <2>3, <2>4
  <2>8. p - q <= z + k /\ z + w <= catalogOps
    BY <1>2, <2>5, <2>6, <2>7
  <2>. QED BY <2>3, <2>4, <2>8
<1>6. ASSUME NEW e \in Events, NEW c \in 1..Chunks
      PROVE  tickets'[e][c] + Cardinality(Open(e, c)') <= catalogOps'
  <2>1. Moves(r, Open(e, c), Open(e, c)')
    BY <1>3 DEF TalliesMove
  <2>2. PICK i \in Nat, j \in Nat :
            i = One(r, Open(e, c)) /\ j = One(r, Open(e, c)')
    BY DEF One
  <2>3. PICK a \in Nat, p \in Nat, h \in Nat, k \in Nat :
            /\ a = tickets[e][c] /\ p = tickets'[e][c]
            /\ h = Cardinality(Open(e, c)) /\ k = Cardinality(Open(e, c)')
    BY <1>1, <2>1, CatalogIsTyped DEF Moves
  <2>4. a + h <= catalogOps /\ k = (h - i) + j /\ p + j <= a + i
    BY <1>4, <2>1, <2>2, <2>3 DEF UploadTallies, Moves
  <2>5. p + k <= catalogOps
    BY <1>2, <2>4
  <2>. QED BY <2>3, <2>5
<1>. QED BY <1>5, <1>6 DEF UploadTallies

(* A row more or less in a collection. *)
LEMMA ListedMoves ==
    ASSUME CatalogTypeOK, NEW t \in CollectionTypes, NEW e \in Events, NEW n \in Nat,
           collections' = [collections EXCEPT ![t][e] = n]
    PROVE  /\ \A u \in CollectionTypes :
                Listed(u)' = Listed(u)
                             + (IF u = t THEN n - collections[t][e] ELSE 0)
           /\ collections' \in [CollectionTypes -> [Events -> Nat]]
           /\ \A u \in CollectionTypes, f \in Events :
                collections'[u][f] = IF u = t /\ f = e THEN n
                                     ELSE collections[u][f]
<1>1. collections \in [CollectionTypes -> [Events -> Nat]]
    BY CatalogIsTyped DEF CatalogCounts
<1>2. collections' \in [CollectionTypes -> [Events -> Nat]]
    BY <1>1
<1>3. \A u \in CollectionTypes, f \in Events :
                collections'[u][f] = IF u = t /\ f = e THEN n
                                     ELSE collections[u][f]
    BY <1>1
<1>4. ASSUME NEW u \in CollectionTypes
      PROVE  Listed(u)' = Listed(u) + (IF u = t THEN n - collections[t][e] ELSE 0)
  <2>1. /\ Listed(u) \in Int /\ IsFiniteSet(Events)
        /\ Listed(u) = Sum(collections[u], Events)
        /\ IntsOn(collections[u], Events)
    BY ListedIsInt
  <2>2. CASE u # t
    <3>1. collections'[u] = collections[u]
        BY <1>1, <2>2
    <3>2. Listed(u)' = Listed(u)
        BY <3>1 DEF Listed
    <3>. QED BY <2>1, <2>2, <3>2
  <2>3. CASE u = t
    <3> DEFINE g == collections'[u]
               f == collections[u]
    <3>1. DOMAIN g = Events /\ \A d \in Events : g[d] \in Nat
        BY <1>2
    <3>2. Listed(u)' = Sum(g, Events)
        BY <3>1 DEF Listed, Sum, SumFunction
    <3>3. IntsOn(g, Events) /\ IntsOn(f, Events) /\ g[e] = n /\ f[e] \in Int
        BY <2>1, <2>3, <3>1, <1>3 DEF IntsOn
    <3>4. AgreeOn(g, f, Events \ {e})
        BY <1>3, <2>3 DEF AgreeOn
    <3> HIDE DEF f, g
    <3>5. Sum(g, Events) = Sum(f, Events) + (g[e] - f[e])
        BY <2>1, <3>3, <3>4, SumMoves
    <3>6. Listed(u) = Sum(f, Events) /\ f[e] = collections[t][e]
        BY <2>1, <2>3 DEF f
    <3>. QED BY <2>3, <3>2, <3>3, <3>5, <3>6
  <2>. QED BY <2>2, <2>3
<1>. QED BY <1>2, <1>3, <1>4

(* What inserts tickets has its event, and events stay. *)
LEMMA RowsStand ==
    ASSUME CatalogInv, NEW r \in CatalogRequests, NEW x,
           catalog' = [catalog EXCEPT ![r] = x],
           eventRows \subseteq eventRows',
           x.pc \in {"add", "insert"} => x.event \in eventRows',
           \A e \in Events :
                tickets'[e][1] = tickets[e][1] \/ e \in eventRows'
    PROVE  RowsInv'
<1>1. CatalogTypeOK
    BY CountsAreBounded DEF CatalogInv
<1>2. /\ catalog'[r] = x
      /\ \A q \in CatalogRequests : q # r => catalog'[q] = catalog[q]
    BY <1>1, RequestsMove
<1>. QED BY <1>2 DEF CatalogInv, RowsInv

(* Where no tallied variable changes, the tallies stand. *)
LEMMA CatalogStands ==
    ASSUME CatalogInv,
           UNCHANGED <<eventRows, tickets, stopped, collections, catalog,
                       catalogOps>>,
           wishlist' \subseteq Events
    PROVE  CatalogInv'
<1>1. CatalogCounts'
    BY DEF CatalogInv, CatalogCounts
<1>2. UploadTallies'
    BY DEF CatalogInv, UploadTallies, Halfway, UploadsOf, Open
<1>3. CollectionTallies'
    BY DEF CatalogInv, CollectionTallies, Fitting, Entering, Connecting, Listed
<1>4. RowsInv'
    BY DEF CatalogInv, RowsInv
<1>. QED BY <1>1, <1>2, <1>3, <1>4 DEF CatalogInv

LEMMA CatalogStarts ==
    ASSUME CatalogInv, NEW r \in CatalogRequests, NEW e \in Events,
           NEW t \in CollectionTypes, NEW pc \in {"create", "add", "count", "wish"},
           CatalogBegins(r, pc, e, t),
           pc = "add" => e \in eventRows, pc = "count" => RoomIn(t),
           UNCHANGED <<eventRows, tickets, stopped, collections, wishlist>>
    PROVE  CatalogInv'
<1> DEFINE x == [pc |-> pc, event |-> e, chunk |-> 1, type |-> t]
<1>1. /\ catalog' = [catalog EXCEPT ![r] = x] /\ catalogOps' = catalogOps + 1
      /\ catalogOps < MaxCatalogOps /\ catalog[r] = CatalogIdle
      /\ x.pc = pc /\ x.event = e /\ x.type = t
    BY DEF CatalogBegins
<1>2. CatalogTypeOK
    BY CountsAreBounded DEF CatalogInv
<1>3. x \in CatalogAt
    BY <1>2, CatalogIsTyped DEF CatalogAt
<1>4. catalogOps' \in 0..MaxCatalogOps
    BY <1>1, <1>2, CatalogIsTyped
<1>5. catalog[r].pc = "idle"
    BY <1>1 DEF CatalogIdle
<1> HIDE DEF x
<1>6. CatalogCounts'
    BY <1>1, <1>3, <1>4 DEF CatalogInv, CatalogCounts
<1>7. UploadTallies'
    BY <1>1, <1>5, UploadsStand
<1>8. CollectionTallies'
    <2>1. x.pc \in {"count", "connect"} =>
                catalogOps' = catalogOps + 1 /\ Listed(x.type) < Limit
        BY <1>1 DEF RoomIn
    <2>2. x.pc # "connect"
        BY <1>1
    <2>. QED BY <1>1, <2>1, <2>2, CollectionsStand
<1>9. RowsInv'
    BY <1>1, RowsStand
<1>. QED BY <1>6, <1>7, <1>8, <1>9 DEF CatalogInv

(* A request that ends without a row of a collection. *)
LEMMA CatalogEnds ==
    ASSUME CatalogInv, NEW r \in CatalogRequests, Ends(r)
    PROVE  /\ catalog' = [catalog EXCEPT ![r] = CatalogIdle]
           /\ catalogOps' = catalogOps
           /\ CatalogIdle.pc = "idle"
           /\ catalog' \in [CatalogRequests -> CatalogAt \cup {CatalogIdle}]
           /\ catalog'[r] = CatalogIdle
           /\ UNCHANGED collections => CollectionTallies'
<1>1. CatalogTypeOK
    BY CountsAreBounded DEF CatalogInv
<1>2. /\ catalog' = [catalog EXCEPT ![r] = CatalogIdle]
      /\ catalogOps' = catalogOps
    BY DEF Ends
<1>3. CatalogIdle.pc = "idle"
    BY DEF CatalogIdle
<1>4. catalog' \in [CatalogRequests -> CatalogAt \cup {CatalogIdle}]
    BY <1>1, <1>2 DEF CatalogTypeOK
<1>5. UNCHANGED collections => CollectionTallies'
    BY <1>2, <1>3, CollectionsStand
<1>6. catalog'[r] = CatalogIdle
    BY <1>1, <1>2, RequestsMove
<1>. QED BY <1>2, <1>3, <1>4, <1>5, <1>6

LEMMA UploadStep ==
    ASSUME CatalogInv, NEW r \in CatalogRequests, createEvent(r)
    PROVE  CatalogInv'
<1>1. CatalogTypeOK
    BY CountsAreBounded DEF CatalogInv
<1>2. PICK e \in Events :
        /\ e = catalog[r].event /\ catalog[r].pc \in {"create", "add"}
        /\ tickets' = [tickets EXCEPT ![e] = AllChunks(e)]
        /\ eventRows' \in {eventRows, eventRows \cup {e}} /\ e \in eventRows'
        /\ Ends(r) /\ UNCHANGED <<stopped, collections, wishlist>>
  <2>1. catalog[r] # CatalogIdle
    BY DEF createEvent, CatalogIdle
  <2>2. catalog[r].event \in Events
    BY <1>1, <2>1, CatalogIsTyped
  <2>3. catalog[r].pc = "add" => catalog[r].event \in eventRows
    BY DEF CatalogInv, RowsInv
  <2>. QED BY <2>2, <2>3 DEF createEvent
<1>3. /\ catalog' = [catalog EXCEPT ![r] = CatalogIdle]
      /\ catalogOps' = catalogOps /\ CatalogIdle.pc = "idle"
      /\ catalog' \in [CatalogRequests -> CatalogAt \cup {CatalogIdle}]
      /\ catalog'[r] = CatalogIdle /\ CollectionTallies'
    BY <1>2, CatalogEnds
<1>4. tickets \in [Events -> [1..Chunks -> Nat]]
    BY <1>1, CatalogIsTyped DEF CatalogCounts
<1>5. /\ tickets' \in [Events -> [1..Chunks -> Nat]]
      /\ \A f \in Events, c \in 1..Chunks :
            tickets'[f][c] = tickets[f][c] + (IF f = e THEN 1 ELSE 0)
  <2>1. PICK was \in [1..Chunks -> Nat] : was = tickets[e]
    BY <1>4
  <2>2. \A c \in 1..Chunks : was[c] \in Nat /\ was[c] + 1 \in Nat
    <3>1. TAKE c \in 1..Chunks
    <3>2. PICK n \in Nat : n = was[c]
        OBVIOUS
    <3>. QED BY <3>2
  <2>3. AllChunks(e) = [c \in 1..Chunks |-> was[c] + 1]
    BY <2>1 DEF AllChunks
  <2>4. PICK is \in [1..Chunks -> Nat] :
            is = AllChunks(e) /\ \A c \in 1..Chunks : is[c] = was[c] + 1
    BY <2>2, <2>3
  <2>5. tickets' \in [Events -> [1..Chunks -> Nat]]
    BY <1>2, <1>4, <2>4
  <2>6. ASSUME NEW f \in Events, NEW c \in 1..Chunks
        PROVE  tickets'[f][c] = tickets[f][c] + (IF f = e THEN 1 ELSE 0)
    <3>1. tickets[f][c] \in Nat
        BY <1>4
    <3>2. CASE f = e
        BY <1>2, <1>4, <2>1, <2>4, <3>1, <3>2
    <3>3. CASE f # e
        BY <1>2, <1>4, <3>1, <3>3
    <3>. QED BY <3>2, <3>3
  <2>. QED BY <2>5, <2>6
<1>6. CatalogCounts'
    BY <1>2, <1>3, <1>5 DEF CatalogInv, CatalogCounts
<1>7. ASSUME NEW f \in Events
      PROVE  /\ stopped'[f] \in Nat
             /\ tickets'[f][1] \in Nat /\ tickets'[f][Chunks] \in Nat
             /\ tickets'[f][1] - tickets'[f][Chunks] + One(r, Halfway(f))
                   <= tickets[f][1] - tickets[f][Chunks]
                      + One(r, Halfway(f)') + (stopped'[f] - stopped[f])
             /\ stopped'[f] + One(r, UploadsOf(f)')
                   <= stopped[f] + One(r, UploadsOf(f))
             /\ \A c \in 1..Chunks :
                   /\ tickets'[f][c] \in Nat
                   /\ tickets'[f][c] + One(r, Open(f, c)')
                         <= tickets[f][c] + One(r, Open(f, c))
  <2>1. /\ stopped'[f] = stopped[f] /\ stopped[f] \in Nat
        /\ 1 \in 1..Chunks /\ Chunks \in 1..Chunks
        /\ \A c \in 1..Chunks : tickets[f][c] \in Nat /\ tickets'[f][c] \in Nat
    BY <1>1, <1>2, <1>5, CatalogIsTyped
  <2>2. One(r, Halfway(f)) = 0 /\ One(r, UploadsOf(f)) \in {0, 1}
    BY <1>2 DEF One, Halfway
  <2>3. /\ One(r, Halfway(f)') = 0 /\ One(r, UploadsOf(f)') = 0
        /\ \A c \in 1..Chunks : One(r, Open(f, c)') = 0
    BY <1>3, IdleIsInNoTallyNext
  <2>4. \A c \in 1..Chunks : One(r, Open(f, c)) = IF f = e THEN 1 ELSE 0
    BY <1>2 DEF One, Open
  <2>5. tickets'[f][1] - tickets'[f][Chunks] = tickets[f][1] - tickets[f][Chunks]
    <3>1. PICK d \in Nat : d = IF f = e THEN 1 ELSE 0
        OBVIOUS
    <3>2. /\ tickets'[f][1] = tickets[f][1] + d
          /\ tickets'[f][Chunks] = tickets[f][Chunks] + d
        BY <1>5, <2>1, <3>1
    <3>. QED BY <2>1, <3>2
  <2>6. \A c \in 1..Chunks :
            tickets'[f][c] + 0 <= tickets[f][c] + (IF f = e THEN 1 ELSE 0)
    BY <1>5, <2>1
  <2>7. \A c \in 1..Chunks : tickets'[f][c] + One(r, Open(f, c)')
                                <= tickets[f][c] + One(r, Open(f, c))
    BY <2>3, <2>4, <2>6
  <2>8. stopped'[f] + 0 <= stopped[f] + One(r, UploadsOf(f))
    BY <2>1, <2>2
  <2>9. tickets'[f][1] - tickets'[f][Chunks] + 0
            <= tickets[f][1] - tickets[f][Chunks] + 0 + (stopped'[f] - stopped[f])
    BY <2>1, <2>5
  <2>. QED BY <2>1, <2>2, <2>3, <2>7, <2>8, <2>9
<1>8. UploadTallies'
    BY <1>3, <1>7, UploadsMove
<1>9. RowsInv'
  <2>1. \A f \in Events : tickets'[f][1] = tickets[f][1] \/ f \in eventRows'
    <3>1. 1 \in 1..Chunks /\ \A f \in Events : tickets[f][1] \in Nat
        BY <1>1, CatalogIsTyped
    <3>. QED BY <1>2, <1>5, <3>1
  <2>. QED BY <1>2, <1>3, <2>1, RowsStand
<1>. QED BY <1>3, <1>6, <1>8, <1>9 DEF CatalogInv

LEMMA ChunkStep ==
    ASSUME CatalogInv, NEW r \in CatalogRequests, BulkChunk(r)
    PROVE  CatalogInv'
<1>1. CatalogTypeOK
    BY CountsAreBounded DEF CatalogInv
<1>2. PICK e \in Events, d \in 1..Chunks :
        /\ e = catalog[r].event /\ d = catalog[r].chunk
        /\ catalog[r].pc = "insert" /\ catalog[r] \in CatalogAt
        /\ e \in eventRows
  <2>1. catalog[r] # CatalogIdle
    BY DEF BulkChunk, CatalogIdle
  <2>2. catalog[r].pc = "insert" => catalog[r].event \in eventRows
    BY DEF CatalogInv, RowsInv
  <2>. QED BY <1>1, <2>1, <2>2, CatalogIsTyped DEF BulkChunk
<1>3. /\ tickets' = [tickets EXCEPT ![e][d] = @ + 1]
      /\ UNCHANGED <<eventRows, stopped, collections, wishlist>>
    BY <1>2 DEF BulkChunk
<1>4. PICK x : /\ catalog' = [catalog EXCEPT ![r] = x] /\ catalogOps' = catalogOps
               /\ x \in CatalogAt \cup {CatalogIdle}
               /\ \/ d < Chunks /\ x.pc = "insert" /\ x.event = e /\ x.chunk = d + 1
                  \/ d = Chunks /\ x = CatalogIdle /\ x.pc = "idle"
  <2>0. Chunks \in Nat
    BY CatalogAssumption
  <2>1. CASE d < Chunks
    <3> DEFINE x == [catalog[r] EXCEPT !.chunk = d + 1]
    <3>1. catalog' = [catalog EXCEPT ![r].chunk = d + 1] /\ catalogOps' = catalogOps
        BY <1>2, <2>1 DEF BulkChunk
    <3>2. catalog' = [catalog EXCEPT ![r] = x]
        BY <3>1
    <3>3. d + 1 \in 1..Chunks
        BY <2>0, <2>1
    <3>4. x \in CatalogAt /\ x.pc = "insert" /\ x.event = e /\ x.chunk = d + 1
        BY <1>2, <3>3 DEF CatalogAt
    <3> HIDE DEF x
    <3>. QED BY <2>1, <3>1, <3>2, <3>4
  <2>2. CASE ~(d < Chunks)
    <3>1. Ends(r) /\ d = Chunks
        BY <1>2, <2>0, <2>2 DEF BulkChunk
    <3>2. CatalogIdle.pc = "idle"
        BY DEF CatalogIdle
    <3>. QED BY <3>1, <3>2 DEF Ends
  <2>. QED BY <2>1, <2>2
<1>5. catalog'[r] = x
    BY <1>1, <1>4, RequestsMove
<1>6. tickets \in [Events -> [1..Chunks -> Nat]] /\ Chunks \in Nat /\ d \in Nat
    BY <1>1, CatalogIsTyped DEF CatalogCounts
<1>7. /\ tickets' \in [Events -> [1..Chunks -> Nat]]
      /\ \A f \in Events, c \in 1..Chunks :
            tickets'[f][c] = tickets[f][c] + (IF f = e /\ c = d THEN 1 ELSE 0)
  <2>1. PICK n \in Nat : n = tickets[e][d] + 1
    BY <1>6
  <2>2. tickets' = [tickets EXCEPT ![e][d] = n]
    BY <1>3, <2>1
  <2>3. tickets' \in [Events -> [1..Chunks -> Nat]]
    BY <1>6, <2>2
  <2>4. ASSUME NEW f \in Events, NEW c \in 1..Chunks
        PROVE  tickets'[f][c] = tickets[f][c] + (IF f = e /\ c = d THEN 1 ELSE 0)
    <3>1. tickets[f][c] \in Nat
        BY <1>6
    <3>2. tickets'[f][c] = IF f = e /\ c = d THEN n ELSE tickets[f][c]
        BY <1>6, <2>2
    <3>. QED BY <2>1, <3>1, <3>2
  <2>. QED BY <2>3, <2>4
<1>8. CatalogCounts'
  <2>1. catalog' \in [CatalogRequests -> CatalogAt \cup {CatalogIdle}]
    BY <1>1, <1>4 DEF CatalogTypeOK
  <2>. QED BY <1>3, <1>4, <1>7, <2>1 DEF CatalogInv, CatalogCounts
<1>9. ASSUME NEW f \in Events
      PROVE  /\ stopped'[f] \in Nat
             /\ tickets'[f][1] \in Nat /\ tickets'[f][Chunks] \in Nat
             /\ tickets'[f][1] - tickets'[f][Chunks] + One(r, Halfway(f))
                   <= tickets[f][1] - tickets[f][Chunks]
                      + One(r, Halfway(f)') + (stopped'[f] - stopped[f])
             /\ stopped'[f] + One(r, UploadsOf(f)')
                   <= stopped[f] + One(r, UploadsOf(f))
             /\ \A c \in 1..Chunks :
                   /\ tickets'[f][c] \in Nat
                   /\ tickets'[f][c] + One(r, Open(f, c)')
                         <= tickets[f][c] + One(r, Open(f, c))
  <2>1. /\ stopped'[f] = stopped[f] /\ stopped[f] \in Nat
        /\ 1 \in 1..Chunks /\ Chunks \in 1..Chunks
        /\ \A c \in 1..Chunks : tickets[f][c] \in Nat /\ tickets'[f][c] \in Nat
    BY <1>1, <1>3, <1>7, CatalogIsTyped
  <2>2. /\ One(r, Halfway(f)) = IF f = e /\ d > 1 THEN 1 ELSE 0
        /\ One(r, UploadsOf(f)) = IF f = e THEN 1 ELSE 0
        /\ \A c \in 1..Chunks :
             One(r, Open(f, c)) = IF f = e /\ d <= c THEN 1 ELSE 0
    BY <1>2 DEF One, Halfway, UploadsOf, Open
  <2>3. /\ One(r, Halfway(f)') = IF f = e /\ d < Chunks THEN 1 ELSE 0
        /\ One(r, UploadsOf(f)') = IF f = e /\ d < Chunks THEN 1 ELSE 0
        /\ \A c \in 1..Chunks :
             One(r, Open(f, c)') =
                 IF f = e /\ d < Chunks /\ d + 1 <= c THEN 1 ELSE 0
    <3>1. CASE d < Chunks /\ x.pc = "insert" /\ x.event = e /\ x.chunk = d + 1
      <4>1. /\ r \in Halfway(f)' <=> f = e
            /\ r \in UploadsOf(f)' <=> f = e
            /\ \A c \in 1..Chunks : r \in Open(f, c)' <=> f = e /\ d + 1 <= c
        <5>1. d + 1 > 1
            BY <1>6
        <5>. QED BY <1>5, <3>1, <5>1 DEF Halfway, UploadsOf, Open
      <4>. QED BY <3>1, <4>1 DEF One
    <3>2. CASE d = Chunks /\ x = CatalogIdle
      <4>1. ~(d < Chunks)
        BY <1>6, <3>2
      <4>. QED BY <1>5, <3>2, <4>1, IdleIsInNoTallyNext
    <3>. QED BY <1>4, <3>1, <3>2
  <2>4. \A c \in 1..Chunks : tickets'[f][c] + One(r, Open(f, c)')
                                <= tickets[f][c] + One(r, Open(f, c))
    <3>1. TAKE c \in 1..Chunks
    <3>2. PICK a \in Nat : a = tickets[f][c]
        BY <2>1
    <3>3. tickets'[f][c] = a + (IF f = e /\ c = d THEN 1 ELSE 0)
        BY <1>7, <3>2
    <3>4. /\ One(r, Open(f, c)) = IF f = e /\ d <= c THEN 1 ELSE 0
          /\ One(r, Open(f, c)') =
                 IF f = e /\ d < Chunks /\ d + 1 <= c THEN 1 ELSE 0
        BY <2>2, <2>3
    <3>5. d \in Nat /\ c \in Nat
        BY <1>6
    <3>. QED BY <3>2, <3>3, <3>4, <3>5
  <2>5. tickets'[f][1] - tickets'[f][Chunks] + One(r, Halfway(f))
            <= tickets[f][1] - tickets[f][Chunks] + One(r, Halfway(f)')
               + (stopped'[f] - stopped[f])
    <3>1. PICK a \in Nat, b \in Nat, s \in Nat :
            /\ a = tickets[f][1] /\ b = tickets[f][Chunks] /\ s = stopped[f]
        BY <2>1
    <3>2. /\ tickets'[f][1] = a + (IF f = e /\ 1 = d THEN 1 ELSE 0)
          /\ tickets'[f][Chunks] = b + (IF f = e /\ Chunks = d THEN 1 ELSE 0)
        BY <1>7, <2>1, <3>1
    <3>3. 1 <= d /\ d <= Chunks
        BY <1>6
    <3>4. a + (IF f = e /\ 1 = d THEN 1 ELSE 0)
            - (b + (IF f = e /\ Chunks = d THEN 1 ELSE 0))
            + (IF f = e /\ d > 1 THEN 1 ELSE 0)
            <= a - b + (IF f = e /\ d < Chunks THEN 1 ELSE 0) + (s - s)
      <4>1. CASE f # e
        BY <4>1
      <4>2. CASE f = e /\ d = 1 /\ d = Chunks
        BY <4>2
      <4>3. CASE f = e /\ d = 1 /\ d < Chunks
        BY <4>3, <1>6
      <4>4. CASE f = e /\ 1 < d /\ d < Chunks
        BY <4>4, <1>6
      <4>5. CASE f = e /\ 1 < d /\ d = Chunks
        BY <4>5, <1>6
      <4>. QED BY <1>6, <3>3, <4>1, <4>2, <4>3, <4>4, <4>5
    <3>. QED BY <2>1, <2>2, <2>3, <3>1, <3>2, <3>4
  <2>6. stopped'[f] + One(r, UploadsOf(f)') <= stopped[f] + One(r, UploadsOf(f))
    BY <2>1, <2>2, <2>3
  <2>. QED BY <2>1, <2>4, <2>5, <2>6
<1>10. UploadTallies'
    BY <1>4, <1>9, UploadsMove
<1>11. CollectionTallies'
    BY <1>3, <1>4, CollectionsStand
<1>12. RowsInv'
  <2>1. \A f \in Events : tickets'[f][1] = tickets[f][1] \/ f \in eventRows'
    <3>1. 1 \in 1..Chunks /\ \A f \in Events : tickets[f][1] \in Nat
        BY <1>1, CatalogIsTyped
    <3>. QED BY <1>2, <1>3, <1>7, <3>1
  <2>2. x.pc \in {"add", "insert"} => x.event \in eventRows'
    BY <1>2, <1>3, <1>4
  <2>. QED BY <1>3, <1>4, <2>1, <2>2, RowsStand
<1>. QED BY <1>8, <1>10, <1>11, <1>12 DEF CatalogInv

LEMMA SkipStep ==
    ASSUME CatalogInv, NEW r \in CatalogRequests, BulkSkips(r)
    PROVE  CatalogInv'
<1>1. CatalogTypeOK
    BY CountsAreBounded DEF CatalogInv
<1>2. PICK e \in Events :
        /\ e = catalog[r].event /\ catalog[r].pc = "insert"
        /\ stopped' = [stopped EXCEPT ![e] = @ + 1]
        /\ Ends(r) /\ UNCHANGED <<eventRows, tickets, collections, wishlist>>
  <2>1. catalog[r] # CatalogIdle
    BY DEF BulkSkips, CatalogIdle
  <2>. QED BY <1>1, <2>1, CatalogIsTyped DEF BulkSkips
<1>3. /\ catalog' = [catalog EXCEPT ![r] = CatalogIdle]
      /\ catalogOps' = catalogOps /\ CatalogIdle.pc = "idle"
      /\ catalog' \in [CatalogRequests -> CatalogAt \cup {CatalogIdle}]
      /\ catalog'[r] = CatalogIdle /\ CollectionTallies'
    BY <1>2, CatalogEnds
<1>4. stopped \in [Events -> Nat]
    BY <1>1, CatalogIsTyped DEF CatalogCounts
<1>5. /\ stopped' \in [Events -> Nat]
      /\ \A f \in Events : stopped'[f] = stopped[f] + (IF f = e THEN 1 ELSE 0)
    BY <1>2, <1>4
<1>6. CatalogCounts'
    BY <1>2, <1>3, <1>5 DEF CatalogInv, CatalogCounts
<1>7. ASSUME NEW f \in Events
      PROVE  /\ stopped'[f] \in Nat
             /\ tickets'[f][1] \in Nat /\ tickets'[f][Chunks] \in Nat
             /\ tickets'[f][1] - tickets'[f][Chunks] + One(r, Halfway(f))
                   <= tickets[f][1] - tickets[f][Chunks]
                      + One(r, Halfway(f)') + (stopped'[f] - stopped[f])
             /\ stopped'[f] + One(r, UploadsOf(f)')
                   <= stopped[f] + One(r, UploadsOf(f))
             /\ \A c \in 1..Chunks :
                   /\ tickets'[f][c] \in Nat
                   /\ tickets'[f][c] + One(r, Open(f, c)')
                         <= tickets[f][c] + One(r, Open(f, c))
  <2>1. /\ tickets' = tickets /\ stopped[f] \in Nat /\ stopped'[f] \in Nat
        /\ 1 \in 1..Chunks /\ Chunks \in 1..Chunks
        /\ \A c \in 1..Chunks : tickets[f][c] \in Nat
    BY <1>1, <1>2, <1>5, CatalogIsTyped
  <2>2. /\ One(r, Halfway(f)) \in {0, 1} /\ (f # e => One(r, Halfway(f)) = 0)
        /\ One(r, UploadsOf(f)) = (IF f = e THEN 1 ELSE 0)
        /\ \A c \in 1..Chunks : One(r, Open(f, c)) \in {0, 1}
    BY <1>2 DEF One, Halfway, UploadsOf, Open
  <2>3. /\ One(r, Halfway(f)') = 0 /\ One(r, UploadsOf(f)') = 0
        /\ \A c \in 1..Chunks : One(r, Open(f, c)') = 0
    BY <1>3, IdleIsInNoTallyNext
  <2>4. PICK a \in Nat, b \in Nat, s \in Nat, i \in {0, 1} :
            /\ a = tickets[f][1] /\ b = tickets[f][Chunks] /\ s = stopped[f]
            /\ i = One(r, Halfway(f)) /\ (f # e => i = 0)
    BY <2>1, <2>2
  <2>5. stopped'[f] = s + (IF f = e THEN 1 ELSE 0)
    BY <1>5, <2>4
  <2>6. a - b + i <= a - b + 0 + ((s + (IF f = e THEN 1 ELSE 0)) - s)
    BY <2>4
  <2>7. (s + (IF f = e THEN 1 ELSE 0)) + 0 <= s + (IF f = e THEN 1 ELSE 0)
    BY <2>4
  <2>8. \A c \in 1..Chunks : tickets[f][c] + 0 <= tickets[f][c] + One(r, Open(f, c))
    BY <2>1, <2>2
  <2>. QED BY <2>1, <2>2, <2>3, <2>4, <2>5, <2>6, <2>7, <2>8
<1>8. UploadTallies'
    BY <1>3, <1>7, UploadsMove
<1>9. RowsInv'
    BY <1>2, <1>3, RowsStand
<1>. QED BY <1>3, <1>6, <1>8, <1>9 DEF CatalogInv

LEMMA CollectionStep ==
    ASSUME CatalogInv, NEW r \in CatalogRequests, createCollections(r)
    PROVE  CatalogInv'
<1>1. CatalogTypeOK
    BY CountsAreBounded DEF CatalogInv
<1>2. PICK e \in Events, t \in CollectionTypes :
        /\ e = catalog[r].event /\ t = catalog[r].type
        /\ catalog[r].pc = "connect"
        /\ collections' = [collections EXCEPT ![t][e] = @ + 1]
        /\ Ends(r) /\ UNCHANGED <<eventRows, tickets, stopped, wishlist>>
  <2>1. catalog[r] # CatalogIdle
    BY DEF createCollections, CatalogIdle
  <2>. QED BY <1>1, <2>1, CatalogIsTyped DEF createCollections
<1>3. /\ catalog' = [catalog EXCEPT ![r] = CatalogIdle]
      /\ catalogOps' = catalogOps /\ CatalogIdle.pc = "idle"
      /\ catalog' \in [CatalogRequests -> CatalogAt \cup {CatalogIdle}]
      /\ catalog'[r] = CatalogIdle
    BY <1>2, CatalogEnds
<1>4. /\ catalogOps \in Nat /\ Limit \in Nat
      /\ \A u \in CollectionTypes, f \in Events : collections[u][f] \in Nat
    BY <1>1, CatalogIsTyped, CatalogAssumption
<1>5. PICK n \in Nat : n = collections[t][e] + 1
    BY <1>4
<1>6. collections' = [collections EXCEPT ![t][e] = n]
    BY <1>2, <1>5
<1>7. /\ \A u \in CollectionTypes :
            Listed(u)' = Listed(u) + (IF u = t THEN n - collections[t][e] ELSE 0)
      /\ collections' \in [CollectionTypes -> [Events -> Nat]]
      /\ \A u \in CollectionTypes, f \in Events :
            collections'[u][f] = IF u = t /\ f = e THEN n ELSE collections[u][f]
    BY <1>1, <1>6, ListedMoves
<1>8. CatalogCounts'
    BY <1>2, <1>3, <1>7 DEF CatalogInv, CatalogCounts
<1>9. UploadTallies'
    BY <1>2, <1>3, UploadsStand
<1>10. RowsInv'
    BY <1>2, <1>3, RowsStand
<1>11. TalliesMove(r)
    BY <1>1, <1>3, RequestsMove
<1>12. ASSUME NEW u \in CollectionTypes
       PROVE  Listed(u)' + Cardinality(Fitting(u)')
                < Limit + Cardinality(CatalogRequests)
  <2>1. Moves(r, Fitting(u), Fitting(u)') /\ One(r, Fitting(u)') = 0
    BY <1>3, <1>11, IdleIsInNoTallyNext DEF TalliesMove
  <2>2. One(r, Fitting(u)) = IF u = t THEN 1 ELSE 0
    BY <1>2 DEF One, Fitting
  <2>3. CatalogRequests \in SUBSET CatalogRequests
    OBVIOUS
  <2>4. PICK l \in Int, h \in Nat, k \in Nat, m \in Nat :
            /\ l = Listed(u) /\ m = Cardinality(CatalogRequests)
            /\ h = Cardinality(Fitting(u)) /\ k = Cardinality(Fitting(u)')
    BY <1>1, <2>1, <2>3, RequestsAreCounted, ListedIsInt DEF Moves
  <2>5. l + h < Limit + m
    BY <2>4 DEF CatalogInv, CollectionTallies
  <2>6. n - collections[t][e] = 1
    BY <1>4, <1>5
  <2>7. Listed(u)' = l + (IF u = t THEN 1 ELSE 0)
    BY <1>7, <2>4, <2>6
  <2>8. k = h - (IF u = t THEN 1 ELSE 0)
    BY <2>1, <2>2, <2>4 DEF Moves
  <2>9. (l + (IF u = t THEN 1 ELSE 0)) + k < Limit + m
    BY <1>4, <2>5, <2>8
  <2>. QED BY <2>4, <2>7, <2>9
<1>13. ASSUME NEW u \in CollectionTypes, NEW f \in Events
       PROVE  /\ collections'[u][f] + Cardinality(Connecting(u, f)')
                    <= Cardinality(CatalogRequests)
              /\ collections'[u][f] + Cardinality(Entering(u, f)') <= catalogOps'
  <2>1. /\ Moves(r, Connecting(u, f), Connecting(u, f)')
        /\ One(r, Connecting(u, f)') = 0
        /\ Moves(r, Entering(u, f), Entering(u, f)') /\ One(r, Entering(u, f)') = 0
    BY <1>3, <1>11, IdleIsInNoTallyNext DEF TalliesMove
  <2>2. /\ One(r, Connecting(u, f)) = IF u = t /\ f = e THEN 1 ELSE 0
        /\ One(r, Entering(u, f)) = IF u = t /\ f = e THEN 1 ELSE 0
    BY <1>2 DEF One, Connecting, Entering
  <2>3. CatalogRequests \in SUBSET CatalogRequests
    OBVIOUS
  <2>4. PICK a \in Nat, m \in Nat, h \in Nat, k \in Nat, v \in Nat, w \in Nat :
            /\ a = collections[u][f] /\ m = Cardinality(CatalogRequests)
            /\ h = Cardinality(Connecting(u, f))
            /\ k = Cardinality(Connecting(u, f)')
            /\ v = Cardinality(Entering(u, f)) /\ w = Cardinality(Entering(u, f)')
    BY <1>4, <2>1, <2>3, RequestsAreCounted DEF Moves
  <2>5. a + h <= m /\ a + v <= catalogOps
    BY <2>4 DEF CatalogInv, CollectionTallies
  <2>6. PICK i \in {0, 1} : i = IF u = t /\ f = e THEN 1 ELSE 0
    OBVIOUS
  <2>7. collections'[u][f] = a + i
    BY <1>5, <1>7, <2>4, <2>6
  <2>8. k = h - i /\ w = v - i
    BY <2>1, <2>2, <2>4, <2>6 DEF Moves
  <2>9. (a + i) + k <= m /\ (a + i) + w <= catalogOps
    BY <1>4, <2>5, <2>8
  <2>. QED BY <1>3, <2>4, <2>7, <2>9
<1>14. CollectionTallies'
    BY <1>12, <1>13 DEF CollectionTallies
<1>. QED BY <1>8, <1>9, <1>10, <1>14 DEF CatalogInv

LEMMA DeletionStep ==
    ASSUME CatalogInv, NEW t \in CollectionTypes, NEW e \in Events,
           deleteCollection(t, e)
    PROVE  CatalogInv'
<1>1. CatalogTypeOK
    BY CountsAreBounded DEF CatalogInv
<1>2. /\ catalogOps \in Nat /\ Limit \in Nat
      /\ \A u \in CollectionTypes, f \in Events : collections[u][f] \in Nat
    BY <1>1, CatalogIsTyped, CatalogAssumption
<1>3. PICK n \in Nat : n = collections[t][e] - 1
    BY <1>2 DEF deleteCollection
<1>4. /\ collections' = [collections EXCEPT ![t][e] = n]
      /\ UNCHANGED <<eventRows, tickets, stopped, wishlist, catalog, catalogOps>>
    BY <1>3 DEF deleteCollection
<1>5. /\ \A u \in CollectionTypes :
            Listed(u)' = Listed(u) + (IF u = t THEN n - collections[t][e] ELSE 0)
      /\ collections' \in [CollectionTypes -> [Events -> Nat]]
      /\ \A u \in CollectionTypes, f \in Events :
            collections'[u][f] = IF u = t /\ f = e THEN n ELSE collections[u][f]
    BY <1>1, <1>4, ListedMoves
<1>6. CatalogCounts'
    BY <1>4, <1>5 DEF CatalogInv, CatalogCounts
<1>7. UploadTallies' /\ RowsInv'
    BY <1>4 DEF CatalogInv, UploadTallies, RowsInv, Halfway, UploadsOf, Open
<1>8. ASSUME NEW u \in CollectionTypes
      PROVE  /\ Fitting(u)' = Fitting(u)
             /\ \A f \in Events : /\ Entering(u, f)' = Entering(u, f)
                                  /\ Connecting(u, f)' = Connecting(u, f)
    BY <1>4 DEF Fitting, Entering, Connecting
<1>9. CatalogRequests \in SUBSET CatalogRequests
    OBVIOUS
<1>10. ASSUME NEW u \in CollectionTypes
       PROVE  Listed(u)' + Cardinality(Fitting(u)')
                < Limit + Cardinality(CatalogRequests)
  <2>1. PICK l \in Int, h \in Nat, m \in Nat :
            /\ l = Listed(u) /\ m = Cardinality(CatalogRequests)
            /\ h = Cardinality(Fitting(u))
    BY <1>1, <1>9, RequestsAreCounted, ListedIsInt, TalliesAreCounted
  <2>2. l + h < Limit + m
    BY <2>1 DEF CatalogInv, CollectionTallies
  <2>3. n - collections[t][e] = -1
    BY <1>2, <1>3
  <2>4. Listed(u)' = l + (IF u = t THEN -1 ELSE 0)
    BY <1>5, <2>1, <2>3
  <2>5. (l + (IF u = t THEN -1 ELSE 0)) + h < Limit + m
    BY <1>2, <2>2
  <2>. QED BY <1>8, <2>1, <2>4, <2>5
<1>11. ASSUME NEW u \in CollectionTypes, NEW f \in Events
       PROVE  /\ collections'[u][f] + Cardinality(Connecting(u, f)')
                    <= Cardinality(CatalogRequests)
              /\ collections'[u][f] + Cardinality(Entering(u, f)') <= catalogOps'
  <2>1. PICK a \in Nat, b \in Nat, m \in Nat, h \in Nat, v \in Nat :
            /\ a = collections[u][f] /\ b = collections'[u][f]
            /\ m = Cardinality(CatalogRequests)
            /\ h = Cardinality(Connecting(u, f)) /\ v = Cardinality(Entering(u, f))
    BY <1>2, <1>5, <1>9, RequestsAreCounted, TalliesAreCounted
  <2>2. a + h <= m /\ a + v <= catalogOps
    BY <2>1 DEF CatalogInv, CollectionTallies
  <2>3. b <= a
    BY <1>2, <1>3, <1>5, <2>1
  <2>4. b + h <= m /\ b + v <= catalogOps
    BY <1>2, <2>2, <2>3
  <2>. QED BY <1>4, <1>8, <2>1, <2>4
<1>12. CollectionTallies'
    BY <1>10, <1>11 DEF CollectionTallies
<1>. QED BY <1>6, <1>7, <1>12 DEF CatalogInv

(* A request that goes on keeps its event and its type. *)
LEMMA GoesOn ==
    ASSUME CatalogInv, NEW r \in CatalogRequests, catalog[r] # CatalogIdle,
           NEW pc \in {"insert", "connect"}, Goes(r, pc)
    PROVE  \E x \in CatalogAt :
                /\ catalog' = [catalog EXCEPT ![r] = x]
                /\ catalogOps' = catalogOps /\ x.pc = pc
                /\ x.event = catalog[r].event /\ x.type = catalog[r].type
                /\ catalog' \in [CatalogRequests -> CatalogAt \cup {CatalogIdle}]
<1>1. CatalogTypeOK
    BY CountsAreBounded DEF CatalogInv
<1>2. catalog[r] \in CatalogAt
    BY <1>1, CatalogIsTyped
<1> DEFINE x == [catalog[r] EXCEPT !.pc = pc]
<1>3. catalog' = [catalog EXCEPT ![r] = x] /\ catalogOps' = catalogOps
    BY DEF Goes
<1>4. /\ x \in CatalogAt /\ x.pc = pc /\ x.event = catalog[r].event
      /\ x.type = catalog[r].type
    BY <1>2 DEF CatalogAt
<1> HIDE DEF x
<1>5. catalog' \in [CatalogRequests -> CatalogAt \cup {CatalogIdle}]
    BY <1>1, <1>3, <1>4 DEF CatalogTypeOK
<1>. QED BY <1>3, <1>4, <1>5

LEMMA BulkEventStep ==
    ASSUME CatalogInv, NEW r \in CatalogRequests, BulkEvent(r)
    PROVE  CatalogInv'
<1>0. CatalogTypeOK
    BY CountsAreBounded DEF CatalogInv
<1>1. catalog[r] # CatalogIdle
    BY DEF BulkEvent, CatalogIdle
<1>2. catalog[r].event \in Events
    BY <1>0, <1>1, CatalogIsTyped
<1>3. PICK x \in CatalogAt :
        /\ catalog' = [catalog EXCEPT ![r] = x]
        /\ catalogOps' = catalogOps /\ x.pc = "insert"
        /\ x.event = catalog[r].event /\ x.type = catalog[r].type
        /\ catalog' \in [CatalogRequests -> CatalogAt \cup {CatalogIdle}]
    BY <1>1, GoesOn DEF BulkEvent
<1>4. /\ UNCHANGED <<tickets, stopped, collections, wishlist>>
      /\ catalog[r].pc \in {"create", "add"}
      /\ eventRows' \in {eventRows, eventRows \cup {catalog[r].event}}
      /\ catalog[r].event \in eventRows'
  <2>1. catalog[r].pc = "add" => catalog[r].event \in eventRows
    BY DEF CatalogInv, RowsInv
  <2>. QED BY <2>1 DEF BulkEvent
<1>5. CatalogCounts'
    BY <1>2, <1>3, <1>4 DEF CatalogInv, CatalogCounts
<1>6. UploadTallies'
    BY <1>3, <1>4, UploadsStand
<1>7. CollectionTallies'
    BY <1>3, <1>4, CollectionsStand
<1>8. RowsInv'
    BY <1>3, <1>4, RowsStand
<1>. QED BY <1>5, <1>6, <1>7, <1>8 DEF CatalogInv

LEMMA RequestEnds ==
    ASSUME CatalogInv, NEW r \in CatalogRequests, Ends(r),
           catalog[r].pc # "insert",
           UNCHANGED <<eventRows, tickets, stopped, collections>>,
           wishlist' \subseteq Events
    PROVE  CatalogInv'
<1>1. /\ catalog' = [catalog EXCEPT ![r] = CatalogIdle]
      /\ catalogOps' = catalogOps /\ CatalogIdle.pc = "idle"
      /\ catalog' \in [CatalogRequests -> CatalogAt \cup {CatalogIdle}]
      /\ CollectionTallies'
    BY CatalogEnds
<1>2. CatalogCounts'
    BY <1>1 DEF CatalogInv, CatalogCounts
<1>3. UploadTallies'
    BY <1>1, UploadsStand
<1>4. RowsInv'
    BY <1>1, RowsStand
<1>. QED BY <1>1, <1>2, <1>3, <1>4 DEF CatalogInv

LEMMA WishStep ==
    ASSUME CatalogInv, NEW r \in CatalogRequests, addItem(r)
    PROVE  CatalogInv'
<1>1. CatalogTypeOK
    BY CountsAreBounded DEF CatalogInv
<1>2. catalog[r] # CatalogIdle /\ catalog[r].pc # "insert"
    BY DEF addItem, CatalogIdle
<1>3. catalog[r].event \in Events
    BY <1>1, <1>2, CatalogIsTyped
<1>4. wishlist' \subseteq Events
    BY <1>3 DEF addItem, CatalogInv, CatalogCounts
<1>. QED BY <1>2, <1>4, RequestEnds DEF addItem

LEMMA FindStep ==
    ASSUME CatalogInv, NEW r \in CatalogRequests, FindInCollection(r)
    PROVE  CatalogInv'
<1>1. catalog[r] # CatalogIdle /\ catalog[r].pc = "count"
    BY DEF FindInCollection, CatalogIdle
<1>2. UNCHANGED <<eventRows, tickets, stopped, collections, wishlist>>
    BY DEF FindInCollection
<1>3. CASE Goes(r, "connect")
            /\ collections[catalog[r].type][catalog[r].event] = 0
  <2>1. PICK x \in CatalogAt :
        /\ catalog' = [catalog EXCEPT ![r] = x]
        /\ catalogOps' = catalogOps /\ x.pc = "connect"
        /\ x.event = catalog[r].event /\ x.type = catalog[r].type
        /\ catalog' \in [CatalogRequests -> CatalogAt \cup {CatalogIdle}]
    BY <1>1, <1>3, GoesOn
  <2>2. CatalogCounts'
    BY <1>2, <2>1 DEF CatalogInv, CatalogCounts
  <2>3. UploadTallies'
    BY <1>1, <1>2, <2>1, UploadsStand
  <2>4. CollectionTallies'
    BY <1>1, <1>2, <1>3, <2>1, CollectionsStand
  <2>5. RowsInv'
    BY <1>2, <2>1, RowsStand
  <2>. QED BY <2>2, <2>3, <2>4, <2>5 DEF CatalogInv
<1>4. CASE Ends(r)
  <2>1. wishlist' \subseteq Events
    BY <1>2 DEF CatalogInv, CatalogCounts
  <2>. QED BY <1>1, <1>2, <1>4, <2>1, RequestEnds
<1>. QED BY <1>3, <1>4 DEF FindInCollection

LEMMA CatalogInvHolds == CatalogSpec => []CatalogInv
<1>1. ASSUME CatalogInit PROVE CatalogInv
  <2>0. /\ Chunks \in Nat \ {0} /\ Limit \in Nat \ {0} /\ MaxCatalogOps \in Nat
        /\ IsFiniteSet(Events) /\ 1 \in 1..Chunks /\ Chunks \in 1..Chunks
    BY CatalogAssumption
  <2>1. CatalogCounts
    BY <1>1, <2>0 DEF CatalogInit, CatalogCounts
  <2>2. CatalogIdle.pc = "idle" /\ \A r \in CatalogRequests : catalog[r] = CatalogIdle
    BY <1>1 DEF CatalogInit, CatalogIdle
  <2>3. \A r \in CatalogRequests : catalog[r].pc = "idle"
    BY <2>2
  <2>4. Cardinality({}) = 0
    BY FS_EmptySet
  <2>5. \A e \in Events : /\ Halfway(e) = {} /\ UploadsOf(e) = {}
                          /\ \A c \in 1..Chunks : Open(e, c) = {}
    BY <2>3 DEF Halfway, UploadsOf, Open
  <2>6. \A t \in CollectionTypes : /\ Fitting(t) = {}
            /\ \A e \in Events : Entering(t, e) = {} /\ Connecting(t, e) = {}
    BY <2>3 DEF Fitting, Entering, Connecting
  <2>7. UploadTallies
    <3>1. \A e \in Events : /\ Cardinality(Halfway(e)) = 0
                            /\ Cardinality(UploadsOf(e)) = 0
                            /\ \A c \in 1..Chunks : Cardinality(Open(e, c)) = 0
        BY <2>4, <2>5
    <3>2. \A e \in Events : /\ stopped[e] = 0
                            /\ \A c \in 1..Chunks : tickets[e][c] = 0
        BY <1>1 DEF CatalogInit
    <3>3. catalogOps = 0
        BY <1>1 DEF CatalogInit
    <3>4. \A e \in Events : tickets[e][1] = 0 /\ tickets[e][Chunks] = 0
        BY <2>0, <3>2
    <3>. QED BY <3>1, <3>2, <3>3, <3>4 DEF UploadTallies
  <2>8. ASSUME NEW t \in CollectionTypes PROVE Listed(t) = 0
    <3> DEFINE f == collections[t]
    <3>1. DOMAIN f = Events /\ \A e \in Events : f[e] = 0
        BY <1>1 DEF CatalogInit
    <3>2. Listed(t) = Sum(f, Events)
        BY <3>1 DEF Listed, Sum, SumFunction
    <3> HIDE DEF f
    <3>3. \A T \in SUBSET Events : Sum(f, T) = 0
        BY <2>0, <3>1, SumOfZeros
    <3>. QED BY <3>2, <3>3
  <2>9. Cardinality(CatalogRequests) \in Nat
    BY CatalogAssumption, FS_CardinalityType
  <2>10. CollectionTallies
    <3>1. \A t \in CollectionTypes :
            /\ Cardinality(Fitting(t)) = 0
            /\ \A e \in Events : /\ Cardinality(Entering(t, e)) = 0
                                 /\ Cardinality(Connecting(t, e)) = 0
        BY <2>4, <2>6
    <3>2. \A t \in CollectionTypes, e \in Events : collections[t][e] = 0
        BY <1>1 DEF CatalogInit
    <3>3. catalogOps = 0
        BY <1>1 DEF CatalogInit
    <3>4. PICK n \in Nat : n = Cardinality(CatalogRequests)
        BY <2>9
    <3>5. 0 + 0 < Limit + n /\ 0 + 0 <= n
        BY <2>0
    <3>. QED BY <2>8, <3>1, <3>2, <3>3, <3>4, <3>5 DEF CollectionTallies
  <2>11. RowsInv
    BY <1>1, <2>0, <2>3 DEF CatalogInit, RowsInv
  <2>. QED BY <2>1, <2>7, <2>10, <2>11 DEF CatalogInv
<1>2. ASSUME CatalogInv, [CatalogNext]_catalogVars PROVE CatalogInv'
  <2>0. AnyType \in CollectionTypes
    BY CatalogAssumption DEF AnyType
  <2>1. ASSUME NEW r \in CatalogRequests, UploadFails(r) PROVE CatalogInv'
    <3>1. wishlist' \subseteq Events
        BY <1>2, <2>1 DEF CatalogInv, CatalogCounts, UploadFails
    <3>. QED BY <1>2, <2>1, <3>1, RequestEnds DEF UploadFails
  <2>2. ASSUME NEW r \in CatalogRequests, createEventsBulk(r) PROVE CatalogInv'
    BY <1>2, <2>2, BulkEventStep, ChunkStep, SkipStep DEF createEventsBulk
  <2>3. ASSUME NEW r \in CatalogRequests, addItem(r) PROVE CatalogInv'
    BY <1>2, <2>3, WishStep
  <2>4. ASSUME NEW r \in CatalogRequests, NEW e \in Events, StartUpload(r, e)
        PROVE  CatalogInv'
    <3>1. PICK pc \in {"create", "add", "count", "wish"} :
            /\ pc = (IF e \in eventRows THEN "add" ELSE "create")
            /\ CatalogBegins(r, pc, e, AnyType)
        BY <2>4 DEF StartUpload
    <3>2. (pc = "add" => e \in eventRows) /\ pc # "count"
        BY <3>1
    <3>3. UNCHANGED <<eventRows, tickets, stopped, collections, wishlist>>
        BY <2>4 DEF StartUpload
    <3>. QED BY <1>2, <2>0, <3>1, <3>2, <3>3, CatalogStarts
  <2>5. ASSUME NEW r \in CatalogRequests, NEW e \in Events, StartAddItem(r, e)
        PROVE  CatalogInv'
    <3>1. PICK pc \in {"create", "add", "count", "wish"} :
            pc = "wish" /\ CatalogBegins(r, pc, e, AnyType)
        BY <2>5 DEF StartAddItem
    <3>2. (pc = "add" => e \in eventRows) /\ pc # "count"
        BY <3>1
    <3>3. UNCHANGED <<eventRows, tickets, stopped, collections, wishlist>>
        BY <2>5 DEF StartAddItem
    <3>. QED BY <1>2, <2>0, <3>1, <3>2, <3>3, CatalogStarts
  <2>6. ASSUME NEW r \in CatalogRequests, NEW e \in Events,
               NEW t \in CollectionTypes, CountCollection(r, e, t)
        PROVE  CatalogInv'
    <3>1. PICK pc \in {"create", "add", "count", "wish"} :
            pc = "count" /\ CatalogBegins(r, pc, e, t)
        BY <2>6 DEF CountCollection
    <3>2. (pc = "add" => e \in eventRows) /\ (pc = "count" => RoomIn(t))
        BY <2>6, <3>1 DEF CountCollection
    <3>3. UNCHANGED <<eventRows, tickets, stopped, collections, wishlist>>
        BY <2>6 DEF CountCollection
    <3>. QED BY <1>2, <3>1, <3>2, <3>3, CatalogStarts
  <2>7. ASSUME \/ \E e \in Events : removeItem(e)
               \/ clear
               \/ UNCHANGED catalogVars
        PROVE  CatalogInv'
    <3>1. UNCHANGED <<eventRows, tickets, stopped, collections, catalog,
                      catalogOps>>
        BY <2>7 DEF removeItem, clear, catalogVars
    <3>2. wishlist \subseteq Events
        BY <1>2 DEF CatalogInv, CatalogCounts
    <3>3. wishlist' \subseteq Events
        BY <2>7, <3>2 DEF removeItem, clear, catalogVars
    <3>. QED BY <1>2, <3>1, <3>3, CatalogStands
  <2>. QED
    BY <1>2, <2>1, <2>2, <2>3, <2>4, <2>5, <2>6, <2>7, UploadStep, FindStep,
       CollectionStep, DeletionStep DEF CatalogNext
<1>. QED BY <1>1, <1>2, PTL DEF CatalogSpec

(* The rows, and how often each is there, keep their types: nothing is
   inserted more often than requests were made. *)
THEOREM CatalogTypeCorrect == CatalogSpec => []CatalogTypeOK
<1>1. CatalogInv => CatalogTypeOK
    BY CountsAreBounded DEF CatalogInv
<1>. QED BY <1>1, CatalogInvHolds, PTL

(* No event lacks tickets unless a bulk upload of it stopped or goes on, and
   a collection goes past its limit by no more than the requests at once
   (event.service.ts), for any number of events, chunks and requests. *)
THEOREM CatalogWhole == CatalogSpec => []CatalogIsWhole
<1>1. ASSUME CatalogInv PROVE CatalogIsWhole
  <2>1. CatalogTypeOK
    BY <1>1, CountsAreBounded DEF CatalogInv
  <2>2. ASSUME NEW e \in Events
        PROVE  tickets[e][1] - tickets[e][Chunks]
                    <= stopped[e] + Cardinality(Inserting(e))
    <3>1. Halfway(e) \subseteq Inserting(e) /\ IsFiniteSet(Inserting(e))
        BY CatalogAssumption, FS_Subset DEF Halfway, Inserting
    <3>2. /\ Cardinality(Halfway(e)) <= Cardinality(Inserting(e))
          /\ Cardinality(Inserting(e)) \in Nat
        BY <3>1, FS_Subset, FS_CardinalityType
    <3>3. PICK a \in Nat, b \in Nat, s \in Nat, h \in Nat, i \in Nat :
            /\ a = tickets[e][1] /\ b = tickets[e][Chunks] /\ s = stopped[e]
            /\ h = Cardinality(Halfway(e)) /\ i = Cardinality(Inserting(e))
        BY <2>1, <3>2, CatalogIsTyped, TalliesAreCounted
    <3>4. a - b <= s + h /\ h <= i
        BY <1>1, <3>2, <3>3 DEF CatalogInv, UploadTallies
    <3>. QED BY <3>3, <3>4
  <2>3. UploadsAreWhole
    BY <1>1, <2>2 DEF UploadsAreWhole, CatalogInv, RowsInv
  <2>4. ASSUME NEW t \in CollectionTypes
        PROVE  /\ Listed(t) < Limit + Cardinality(CatalogRequests)
               /\ \A e \in Events :
                    collections[t][e] <= Cardinality(CatalogRequests)
    <3>1. CatalogRequests \in SUBSET CatalogRequests
        OBVIOUS
    <3>2. PICK l \in Int, h \in Nat, n \in Nat :
            /\ l = Listed(t) /\ h = Cardinality(Fitting(t))
            /\ n = Cardinality(CatalogRequests)
        BY <2>1, <3>1, ListedIsInt, RequestsAreCounted, TalliesAreCounted
    <3>3. l + h < Limit + n /\ Limit \in Nat
        BY <1>1, <3>2, CatalogAssumption DEF CatalogInv, CollectionTallies
    <3>4. l < Limit + n
        BY <3>3
    <3>5. ASSUME NEW e \in Events PROVE collections[t][e] <= n
      <4>1. PICK a \in Nat, k \in Nat :
                a = collections[t][e] /\ k = Cardinality(Connecting(t, e))
        BY <2>1, CatalogIsTyped, TalliesAreCounted
      <4>2. a + k <= n
        BY <1>1, <3>2, <4>1 DEF CatalogInv, CollectionTallies
      <4>. QED BY <4>1, <4>2
    <3>. QED BY <3>2, <3>4, <3>5
  <2>. QED BY <2>3, <2>4 DEF CatalogIsWhole, CollectionsAreBounded
<1>. QED BY <1>1, CatalogInvHolds, PTL

-----------------------------------------------------------------------------
(* Lists: sorted rows. *)

(* The enumerations of a set, and the one that begins with the newest. *)
Enumerates(order, S) ==
    /\ order \in Seq(S) /\ Len(order) = Cardinality(S)
    /\ \A x \in S : \E i \in 1..Len(order) : order[i] = x
Sorts(order, S) ==
    /\ order \in Seq(S) /\ Len(order) = Cardinality(S)
    /\ \A i \in 1..Len(order) : Rank(S, order[i]) = i

LEMMA RanksCompare ==
    ASSUME NEW S \in SUBSET Int, IsFiniteSet(S), NEW x \in S, NEW y \in Int
    PROVE  /\ Rank(S, x) \in 1..Cardinality(S) /\ Rank(S, y) \in 0..Cardinality(S)
           /\ x >= y <=> Rank(S, x) <= Rank(S, y)
<1> DEFINE From_(z) == {t \in S : t >= z}
<1>1. \A z : /\ From_(z) \in SUBSET S /\ IsFiniteSet(From_(z))
             /\ Cardinality(From_(z)) \in Nat
             /\ Cardinality(From_(z)) <= Cardinality(S)
    BY FS_Subset, FS_CardinalityType
<1>2. Cardinality(S) \in Nat
    BY FS_CardinalityType
<1>3. x \in From_(x)
    OBVIOUS
<1>4. Cardinality(From_(x)) # 0
    BY <1>1, <1>3, FS_EmptySet
<1>5. ASSUME x >= y PROVE Cardinality(From_(x)) <= Cardinality(From_(y))
  <2>1. \A t \in S : t >= x => t >= y
    BY <1>5
  <2>2. From_(x) \in SUBSET From_(y)
    BY <2>1
  <2>. QED BY <1>1, <2>2, FS_Subset
<1>6. ASSUME ~(x >= y) PROVE Cardinality(From_(y)) < Cardinality(From_(x))
  <2>0. (\A t \in S : t >= y => t >= x) /\ ~(x >= y)
    BY <1>6
  <2>1. From_(y) \in SUBSET From_(x) /\ x \notin From_(y)
    BY <2>0
  <2>2. /\ Cardinality(From_(y)) <= Cardinality(From_(x))
        /\ Cardinality(From_(y)) # Cardinality(From_(x))
    BY <1>1, <1>3, <2>1, FS_Subset
  <2>. QED BY <1>1, <2>2
<1>7. Rank(S, x) = Cardinality(From_(x)) /\ Rank(S, y) = Cardinality(From_(y))
    BY DEF Rank
<1> HIDE DEF From_
<1>. QED BY <1>1, <1>2, <1>4, <1>5, <1>6, <1>7

(* A finite set of rows has a row of every rank. *)
LEMMA RanksAreTaken ==
    ASSUME NEW S \in SUBSET Int, IsFiniteSet(S)
    PROVE  \A i \in 1..Cardinality(S) : \E x \in S : Rank(S, x) = i
<1> DEFINE f == [x \in S |-> Rank(S, x)]
           N == 1..Cardinality(S)
<1>1. Cardinality(S) \in Nat
    BY FS_CardinalityType
<1>2. IsFiniteSet(N) /\ Cardinality(N) = Cardinality(S)
    BY <1>1, FS_Interval
<1>3. \A x \in S : Rank(S, x) \in N
    BY RanksCompare
<1>4. ASSUME NEW x \in S, NEW y \in S, Rank(S, x) = Rank(S, y) PROVE x = y
  <2>1. x >= y /\ y >= x
    BY <1>3, <1>4, RanksCompare
  <2>. QED BY <2>1
<1>5. f \in Injection(S, N)
    BY <1>3, <1>4 DEF Injection, IsInjective
<1> HIDE DEF N
<1>6. f \in Surjection(S, N)
    BY <1>2, <1>5, FS_Injection
<1>7. \A i \in N : \E x \in S : f[x] = i
    BY <1>6 DEF Surjection
<1>. QED BY <1>7 DEF N

LEMMA NewestSorts ==
    ASSUME NEW S \in SUBSET Int, IsFiniteSet(S)
    PROVE  Sorts(Newest(S), S)
<1> DEFINE n == Cardinality(S)
           Row_(i) == CHOOSE x \in S : Rank(S, x) = i
<1>1. n \in Nat
    BY FS_CardinalityType
<1>2. \A i \in 1..n : Row_(i) \in S /\ Rank(S, Row_(i)) = i
    BY RanksAreTaken
<1>3. Newest(S) = [i \in 1..n |-> Row_(i)]
    BY DEF Newest
<1> HIDE DEF n, Row_
<1>4. Newest(S) \in Seq(S) /\ Len(Newest(S)) = n
  <2>1. Newest(S) \in [1..n -> S]
    BY <1>2, <1>3
  <2>. QED BY <1>1, <2>1
<1>5. \A i \in 1..n : Newest(S)[i] = Row_(i)
    BY <1>3
<1>6. \A i \in 1..Len(Newest(S)) : Rank(S, Newest(S)[i]) = i
    BY <1>2, <1>4, <1>5
<1>. QED BY <1>4, <1>6 DEF Sorts, n

(* A row stands where its rank says. *)
LEMMA SortedPlaces ==
    ASSUME NEW S \in SUBSET Int, IsFiniteSet(S), NEW order, Sorts(order, S)
    PROVE  /\ Len(order) \in Nat /\ Len(order) = Cardinality(S)
           /\ \A i \in 1..Len(order) : order[i] \in S /\ Rank(S, order[i]) = i
           /\ \A x \in S : Rank(S, x) \in 1..Len(order) /\ order[Rank(S, x)] = x
           /\ Enumerates(order, S)
<1>1. /\ Len(order) \in Nat /\ Len(order) = Cardinality(S) /\ order \in Seq(S)
      /\ \A i \in 1..Len(order) : order[i] \in S /\ Rank(S, order[i]) = i
    BY DEF Sorts
<1>2. ASSUME NEW x \in S
      PROVE  Rank(S, x) \in 1..Len(order) /\ order[Rank(S, x)] = x
  <2>1. Rank(S, x) \in 1..Len(order)
    BY <1>1, RanksCompare
  <2>2. PICK y \in S : y = order[Rank(S, x)] /\ Rank(S, y) = Rank(S, x)
    BY <1>1, <2>1
  <2>3. x >= y /\ y >= x
    BY <2>1, <2>2, RanksCompare
  <2>. QED BY <2>1, <2>2, <2>3
<1>. QED BY <1>1, <1>2 DEF Enumerates

LEMMA DisjointCards ==
    ASSUME NEW S, NEW T, IsFiniteSet(S), IsFiniteSet(T), S \cap T = {}
    PROVE  /\ IsFiniteSet(S \cup T)
           /\ Cardinality(S \cup T) = Cardinality(S) + Cardinality(T)
<1>1. Cardinality(S \cap T) = 0
    BY FS_EmptySet
<1>2. Cardinality(S) \in Nat /\ Cardinality(T) \in Nat
    BY FS_CardinalityType
<1>3. /\ IsFiniteSet(S \cup T)
      /\ Cardinality(S \cup T) = Cardinality(S) + Cardinality(T) - Cardinality(S \cap T)
    BY FS_Union
<1>. QED BY <1>1, <1>2, <1>3

(* Two enumerations, one after the other. *)
LEMMA EnumeratesBoth ==
    ASSUME NEW S, NEW T, IsFiniteSet(S), IsFiniteSet(T), S \cap T = {},
           NEW f, NEW g, Enumerates(f, S), Enumerates(g, T)
    PROVE  Enumerates(f \o g, S \cup T)
<1> DEFINE U == S \cup T
<1>1. Cardinality(U) = Cardinality(S) + Cardinality(T)
    BY DisjointCards
<1>2. /\ f \in Seq(U) /\ g \in Seq(U) /\ Len(f) \in Nat /\ Len(g) \in Nat
      /\ Len(f) = Cardinality(S) /\ Len(g) = Cardinality(T)
    BY DEF Enumerates
<1> HIDE DEF U
<1>3. /\ f \o g \in Seq(U) /\ Len(f \o g) = Len(f) + Len(g)
      /\ \A i \in 1..(Len(f) + Len(g)) :
            (f \o g)[i] = IF i <= Len(f) THEN f[i] ELSE g[i - Len(f)]
    BY <1>2, ConcatProperties
<1>4. ASSUME NEW x \in S PROVE \E i \in 1..Len(f \o g) : (f \o g)[i] = x
  <2>1. PICK i \in 1..Len(f) : f[i] = x
    BY DEF Enumerates
  <2>2. i \in 1..(Len(f) + Len(g)) /\ i <= Len(f)
    BY <1>2
  <2>. QED BY <1>3, <2>1, <2>2
<1>5. ASSUME NEW x \in T PROVE \E i \in 1..Len(f \o g) : (f \o g)[i] = x
  <2>1. PICK i \in 1..Len(g) : g[i] = x
    BY DEF Enumerates
  <2>2. PICK j : j = i + Len(f)
    OBVIOUS
  <2>3. /\ j \in 1..(Len(f) + Len(g)) /\ ~(j <= Len(f)) /\ j - Len(f) = i
    BY <1>2, <2>2
  <2>. QED BY <1>3, <2>1, <2>3
<1>6. \A x \in U : \E i \in 1..Len(f \o g) : (f \o g)[i] = x
    BY <1>4, <1>5 DEF U
<1>. QED BY <1>1, <1>2, <1>3, <1>6 DEF Enumerates, U

(* Newer rows go before older ones. *)
LEMMA SortsBoth ==
    ASSUME NEW S \in SUBSET Int, NEW T \in SUBSET Int,
           IsFiniteSet(S), IsFiniteSet(T), \A x \in S, y \in T : x > y,
           NEW f, NEW g, Sorts(f, S), Sorts(g, T)
    PROVE  Sorts(f \o g, S \cup T)
<1> DEFINE U == S \cup T
<1>1. S \cap T = {}
  <2>1. ASSUME NEW x \in S, x \in T PROVE FALSE
    <3>1. x > x /\ x \in Int
        BY <2>1
    <3>. QED BY <3>1
  <2>. QED BY <2>1
<1>2. /\ Enumerates(f, S) /\ Enumerates(g, T)
      /\ Len(f) \in Nat /\ Len(g) \in Nat
      /\ \A i \in 1..Len(f) : f[i] \in S /\ Rank(S, f[i]) = i
      /\ \A i \in 1..Len(g) : g[i] \in T /\ Rank(T, g[i]) = i
    BY SortedPlaces
<1>3. Enumerates(f \o g, U)
    BY <1>1, <1>2, EnumeratesBoth
<1>4. /\ f \in Seq(U) /\ g \in Seq(U) /\ Len(f) = Cardinality(S)
    BY <1>2 DEF Enumerates
<1>5. \A x \in S : Rank(U, x) = Rank(S, x)
  <2>1. ASSUME NEW x \in S PROVE Rank(U, x) = Rank(S, x)
    <3>1. \A y \in T : ~(y >= x)
        OBVIOUS
    <3>2. {y \in U : y >= x} = {y \in S : y >= x}
        BY <3>1
    <3>. QED BY <3>2 DEF Rank
  <2>. QED BY <2>1
<1>6. \A x \in T : Rank(U, x) = Cardinality(S) + Rank(T, x)
  <2>1. ASSUME NEW x \in T PROVE Rank(U, x) = Cardinality(S) + Rank(T, x)
    <3> DEFINE B == {y \in T : y >= x}
    <3>1. \A y \in S : y >= x
        OBVIOUS
    <3>2. {y \in U : y >= x} = S \cup B
        BY <3>1
    <3>3. IsFiniteSet(B) /\ S \cap B = {} /\ Cardinality(B) \in Nat
        BY <1>1, FS_Subset, FS_CardinalityType
    <3>4. Cardinality(S \cup B) = Cardinality(S) + Cardinality(B)
        BY <3>3, DisjointCards
    <3>. QED BY <3>2, <3>4 DEF Rank
  <2>. QED BY <2>1
<1> HIDE DEF U
<1>7. /\ f \o g \in Seq(U) /\ Len(f \o g) = Len(f) + Len(g)
      /\ \A i \in 1..(Len(f) + Len(g)) :
            (f \o g)[i] = IF i <= Len(f) THEN f[i] ELSE g[i - Len(f)]
    BY <1>4, ConcatProperties
<1>8. ASSUME NEW i \in 1..Len(f \o g) PROVE Rank(U, (f \o g)[i]) = i
  <2>1. CASE i <= Len(f)
    <3>1. i \in 1..Len(f) /\ i \in 1..(Len(f) + Len(g))
        BY <1>2, <1>7, <2>1
    <3>. QED BY <1>2, <1>5, <1>7, <2>1, <3>1
  <2>2. CASE ~(i <= Len(f))
    <3>1. i - Len(f) \in 1..Len(g) /\ i \in 1..(Len(f) + Len(g))
        BY <1>2, <1>7, <2>2
    <3>2. (f \o g)[i] = g[i - Len(f)]
        BY <1>7, <2>2, <3>1
    <3>3. Rank(U, g[i - Len(f)]) = Len(f) + (i - Len(f))
        BY <1>2, <1>4, <1>6, <3>1
    <3>. QED BY <1>2, <1>7, <3>2, <3>3
  <2>. QED BY <2>1, <2>2
<1>. QED BY <1>3, <1>8 DEF Sorts, Enumerates, U

-----------------------------------------------------------------------------
(* Lists: what the code's ways of paging have in common. *)

Known(w) ==
    /\ w \in Way
    /\ w.by = "page" => w.ends \in {"total", "page total"}
    /\ w.by # "page" => w.ends \in {"full", "more", "empty"} /\ w.extra = 0
    /\ w.ends = "page total" => w.extra = 0
KnownList == {l \in [of : {"own", "all"}, way : Way] : Known(l.way)}

LEMMA WaysAreKnown ==
    /\ Known(Offset) /\ Known(After) /\ Known(From) /\ Known(FromToEmpty)
    /\ Known([by |-> "page", extra |-> 0, ends |-> "page total"])
    /\ Known([by |-> "page", extra |-> 1, ends |-> "total"])
    /\ Known([by |-> "after", extra |-> 0, ends |-> "more"])
    /\ Known([by |-> "skip one", extra |-> 0, ends |-> "empty"])
    /\ Known([by |-> "key", extra |-> 0, ends |-> "full"])
  BY DEF Known, Way, Offset, After, From, FromToEmpty

LEMMA ListIsKnown ==
    ASSUME NEW owner \in {"own", "all"}, NEW ways, \A w \in ways : Known(w)
    PROVE  List(owner, ways) \subseteq KnownList
  BY DEF List, KnownList, Known

LEMMA ListsAreKnown == AllLists \subseteq KnownList
<1>1. \A owner \in {"own", "all"} : \A ways :
        (\A w \in ways : Known(w)) => List(owner, ways) \subseteq KnownList
    BY ListIsKnown
<1>2. \A owner \in {"own", "all"} : \A w, v :
        Known(w) /\ Known(v) => List(owner, {w}) \subseteq KnownList
                                /\ List(owner, {w, v}) \subseteq KnownList
    BY <1>1
<1>3. /\ List("all", {Offset}) \subseteq KnownList
      /\ List("own", {Offset}) \subseteq KnownList
      /\ List("all", {Offset, From}) \subseteq KnownList
      /\ List("own", {Offset, From}) \subseteq KnownList
      /\ List("all", {After}) \subseteq KnownList
      /\ List("own", {After}) \subseteq KnownList
    BY <1>2, WaysAreKnown
<1>4. /\ getAdminCollections \subseteq KnownList
      /\ findAllHelp \subseteq KnownList /\ findAllAdmin \subseteq KnownList
      /\ findAllWishlist \subseteq KnownList /\ findAllApp \subseteq KnownList
      /\ getSidebar \subseteq KnownList /\ getPublicBlogs \subseteq KnownList
    BY <1>2, WaysAreKnown
       DEF getAdminCollections, findAllHelp, findAllAdmin, findAllWishlist,
           findAllApp, getSidebar, getPublicBlogs
<1>. QED
    BY <1>3, <1>4
       DEF AllLists, findAllUsers, getAllSubmittedVerification, findAllBookings,
           adminGetAllBookings, getAdminWithdrawalRequests, getTransactions,
           getAllTransactions, getAdminBalance, getRewardPoints, findByAdmin,
           listActivity, getAllFeedback, listTestimonials, listAll,
           findAllReviews, getAllAdminBlogs, getAllEventsAdmin, findByGuest,
           findByHost, getHostTransactions, getUserPayments, getSellerPayouts,
           listMine, findAllByExperience, findAllByHost, findAllByEvent,
           findAllPending, getSellerListing, getEventsSeller, getByUser,
           getSingleRoom, findHostAppBookings, getAllEventsPublic,
           getEventsListing, getticketsByEventId, getEventsBySeller

-----------------------------------------------------------------------------
(* Lists: the pages of a client. *)

(* The state, and how far a client of page numbers can come. *)
ListTypes ==
    /\ ListingsTypeOK
    /\ following \in KnownList
    /\ by # "page" => reader.page = 1
    /\ ~reader.done /\ reader.page > 1 => reader.page <= MaxRows

LEMMA ListNumbers ==
    ASSUME ListTypes
    PROVE  /\ limit \in Nat /\ limit > 0
           /\ reader.page \in Nat /\ reader.page > 0 /\ reader.cursor \in Nat
           /\ following.way.extra \in 0..1 /\ Known(following.way)
           /\ made \in Nat /\ OldRows \in Nat /\ MaxRows \in Nat
           /\ OldRows <= made /\ made <= MaxRows
           /\ PagesBefore(reader.page) \in Nat
           /\ PagesBefore(reader.page) + limit = reader.page * limit
           /\ reader.page * limit \in Nat /\ reader.page <= reader.page * limit
<1>1. /\ limit \in Nat /\ limit > 0
      /\ reader.page \in Nat /\ reader.page > 0 /\ reader.cursor \in Nat
      /\ following.way.extra \in 0..1 /\ Known(following.way)
      /\ made \in Nat /\ OldRows \in Nat /\ MaxRows \in Nat
      /\ OldRows <= made /\ made <= MaxRows
  <2>1. following.way \in Way /\ Known(following.way)
    BY DEF ListTypes, KnownList
  <2>2. following.way.extra \in 0..1
    BY <2>1 DEF Way
  <2>3. /\ limit \in Limits /\ made \in OldRows..MaxRows
        /\ reader.page \in 1..(MaxRows + 1) /\ reader.cursor \in 0..MaxRows
    BY DEF ListTypes, ListingsTypeOK, NoCursor
  <2>. QED BY <2>1, <2>2, <2>3, ListingsAssumption
<1>2. \A p, l \in Nat : p > 0 /\ l > 0 =>
        /\ (p - 1) * l \in Nat /\ (p - 1) * l + l = p * l /\ p * l \in Nat
        /\ p <= p * l
  <2>1. ASSUME NEW p \in Nat, NEW l \in Nat, p > 0, l > 0
        PROVE  /\ (p - 1) * l + l = p * l
               /\ p * l = p * (l - 1) + p
    BY <2>1
  <2>2. ASSUME NEW p \in Nat, NEW l \in Nat PROVE p * l \in Nat
    BY <2>2
  <2>. QED BY <2>1, <2>2
<1>. QED BY <1>1, <1>2 DEF PagesBefore

LEMMA ShownIsFinite ==
    ASSUME ListTypes
    PROVE  /\ Shown \in SUBSET Int /\ Shown \subseteq 1..made /\ IsFiniteSet(Shown)
           /\ Cardinality(Shown) \in Nat /\ Cardinality(Shown) <= MaxRows
<1>1. Shown \subseteq 1..made /\ made \in Nat /\ made <= MaxRows /\ MaxRows \in Nat
    BY ListNumbers DEF ListTypes, ListingsTypeOK, Shown
<1>2. IsFiniteSet(1..made) /\ Cardinality(1..made) = made
    BY <1>1, FS_Interval
<1>3. IsFiniteSet(Shown) /\ Cardinality(Shown) <= made
    BY <1>1, <1>2, FS_Subset
<1>. QED BY <1>1, <1>3, FS_CardinalityType

(* Whatever the order of the old rows, a query enumerates what is shown. *)
LEMMA OrdersEnumerate ==
    ASSUME ListTypes, NEW order \in Orders
    PROVE  Enumerates(order, Shown) /\ (~Unordered => Sorts(order, Shown))
<1> DEFINE old == Shown \cap 1..OldRows
           new == Shown \ old
<1>1. /\ old \in SUBSET Int /\ new \in SUBSET Int
      /\ IsFiniteSet(old) /\ IsFiniteSet(new)
    BY ShownIsFinite, FS_Subset
<1>2. \A x \in new, y \in old : x > y
  <2>1. \A x \in Shown : x \in Nat /\ x > 0
    BY ShownIsFinite, ListNumbers
  <2>. QED BY <2>1, ListNumbers
<1>3. new \cap old = {} /\ new \cup old = Shown
    OBVIOUS
<1>4. PICK tail \in OldOrders(old) : order = Newest(new) \o tail
    BY DEF Orders
<1> HIDE DEF old, new
<1>5. Sorts(Newest(new), new) /\ Enumerates(Newest(new), new)
    BY <1>1, NewestSorts, SortedPlaces
<1>6. CASE tail = Newest(old)
  <2>1. Sorts(tail, old) /\ Enumerates(tail, old)
    BY <1>1, <1>6, NewestSorts, SortedPlaces
  <2>2. Sorts(order, new \cup old) /\ Enumerates(order, new \cup old)
    BY <1>1, <1>2, <1>3, <1>4, <1>5, <2>1, SortsBoth, EnumeratesBoth
  <2>. QED BY <1>3, <2>2
<1>7. CASE Unordered /\ tail \in SetToSeqs(old)
  <2> DEFINE n == Cardinality(old)
  <2>1. n \in Nat /\ IsFiniteSet(1..n) /\ Cardinality(1..n) = n
    BY <1>1, FS_CardinalityType, FS_Interval
  <2>2. /\ tail \in [1..n -> old]
        /\ \A i, j \in 1..n : i # j => tail[i] # tail[j]
    BY <1>7 DEF SetToSeqs
  <2> HIDE DEF n
  <2>3. tail \in Injection(1..n, old)
    BY <2>2 DEF Injection, IsInjective
  <2>4. tail \in Surjection(1..n, old)
    BY <1>1, <2>1, <2>3, FS_Injection DEF n
  <2>5. \A x \in old : \E i \in 1..n : tail[i] = x
    BY <2>4 DEF Surjection
  <2>6. tail \in Seq(old) /\ Len(tail) = n
    BY <2>1, <2>2
  <2>7. Enumerates(tail, old)
    BY <2>5, <2>6 DEF Enumerates, n
  <2>8. Enumerates(order, new \cup old)
    BY <1>1, <1>3, <1>4, <1>5, <2>7, EnumeratesBoth
  <2>. QED BY <1>3, <1>7, <2>8
<1>8. tail \in IF Unordered THEN SetToSeqs(old) ELSE {Newest(old)}
    BY <1>4 DEF OldOrders, Unordered
<1>. QED BY <1>6, <1>7, <1>8

(* The rows up to the last place of the cursor. *)
UpTo(order, x) == {i \in DOMAIN order : \E j \in i..Len(order) : order[j] = x}
(* What a query skips, way by way. *)
LEMMA SkippedWays ==
    ASSUME NEW order, NoCursor \notin Shown
    PROVE  /\ by = "page" => Skipped(order) = PagesBefore(reader.page)
           /\ by # "page" /\ reader.cursor = NoCursor => Skipped(order) = 0
           /\ reader.cursor # NoCursor =>
                /\ by = "skip one" => Skipped(order) = 1
                /\ by = "key" => Skipped(order) =
                      Cardinality({i \in DOMAIN order : order[i] >= reader.cursor})
                /\ by \in {"after", "from"} /\ reader.cursor \notin Shown =>
                      Skipped(order) = Len(order)
                /\ by = "after" /\ reader.cursor \in Shown =>
                      Skipped(order) = Cardinality(UpTo(order, reader.cursor))
                /\ by = "from" /\ reader.cursor \in Shown =>
                      Skipped(order) = Cardinality(UpTo(order, reader.cursor)) - 1
<1>1. ASSUME by = "page" PROVE Skipped(order) = PagesBefore(reader.page)
    BY <1>1 DEF Skipped
<1>2. ASSUME by # "page", reader.cursor = NoCursor PROVE Skipped(order) = 0
    BY <1>2 DEF Skipped
<1>3. ASSUME by = "skip one", reader.cursor # NoCursor PROVE Skipped(order) = 1
    BY <1>3 DEF Skipped
<1>4. ASSUME by = "key", reader.cursor # NoCursor
      PROVE  Skipped(order) = Cardinality({i \in DOMAIN order : order[i] >= reader.cursor})
    BY <1>4 DEF Skipped
<1>5. ASSUME by \in {"after", "from"}, reader.cursor # NoCursor, reader.cursor \notin Shown
      PROVE  Skipped(order) = Len(order)
    BY <1>5 DEF Skipped
<1>6. ASSUME by = "after", reader.cursor # NoCursor, reader.cursor \in Shown
      PROVE  Skipped(order) = Cardinality(UpTo(order, reader.cursor))
    BY <1>6 DEF Skipped, UpTo
<1>7. ASSUME by = "from", reader.cursor # NoCursor, reader.cursor \in Shown
      PROVE  Skipped(order) = Cardinality(UpTo(order, reader.cursor)) - 1
    BY <1>7 DEF Skipped, UpTo
<1>. QED BY <1>1, <1>2, <1>3, <1>4, <1>5, <1>6, <1>7

LEMMA NoCursorIsNoRow ==
    ASSUME ListTypes
    PROVE  NoCursor \notin Shown
  BY ShownIsFinite, ListNumbers DEF NoCursor

LEMMA SkippedIsNat ==
    ASSUME ListTypes, NEW order \in Orders
    PROVE  Skipped(order) \in Nat
<1> DEFINE cursor == reader.cursor
           ByKey == {i \in DOMAIN order : order[i] >= cursor}
<1>1. /\ Len(order) \in Nat /\ DOMAIN order = 1..Len(order)
      /\ \A x \in Shown : \E i \in 1..Len(order) : order[i] = x
    BY OrdersEnumerate DEF Enumerates
<1>2. IsFiniteSet(1..Len(order))
    BY <1>1, FS_Interval
<1>3. /\ UpTo(order, cursor) \in SUBSET (1..Len(order))
      /\ ByKey \in SUBSET (1..Len(order))
    BY <1>1 DEF UpTo
<1>4. /\ Cardinality(UpTo(order, cursor)) \in Nat /\ Cardinality(ByKey) \in Nat
      /\ IsFiniteSet(UpTo(order, cursor))
    BY <1>2, <1>3, FS_Subset, FS_CardinalityType
<1>5. cursor \in Shown => Cardinality(UpTo(order, cursor)) # 0
  <2>1. ASSUME cursor \in Shown PROVE UpTo(order, cursor) # {}
    <3>1. PICK i \in 1..Len(order) : order[i] = cursor
        BY <1>1, <2>1
    <3>2. i \in i..Len(order)
        BY <1>1, <3>1
    <3>. QED BY <1>1, <3>1, <3>2 DEF UpTo
  <2>. QED BY <1>4, <2>1, FS_EmptySet
<1>6. PagesBefore(reader.page) \in Nat
    BY ListNumbers
<1>7. by \in {"page", "after", "from", "key", "skip one"}
  <2>1. following.way \in Way
    BY DEF ListTypes, KnownList
  <2>. QED BY <2>1 DEF Way, by
<1> DEFINE n == Cardinality(UpTo(order, cursor))
           k == Cardinality(ByKey)
<1>8. /\ by = "page" => Skipped(order) = PagesBefore(reader.page)
      /\ by # "page" /\ cursor = NoCursor => Skipped(order) = 0
      /\ cursor # NoCursor =>
            /\ by = "skip one" => Skipped(order) = 1
            /\ by = "key" => Skipped(order) = k
            /\ by \in {"after", "from"} /\ cursor \notin Shown =>
                  Skipped(order) = Len(order)
            /\ by = "after" /\ cursor \in Shown => Skipped(order) = n
            /\ by = "from" /\ cursor \in Shown => Skipped(order) = n - 1
    BY NoCursorIsNoRow, SkippedWays
<1>9. n \in Nat /\ k \in Nat /\ (cursor \in Shown => n - 1 \in Nat)
    BY <1>4, <1>5
<1>10. /\ \/ Skipped(order) = PagesBefore(reader.page) \/ Skipped(order) = 0
          \/ Skipped(order) = 1 \/ Skipped(order) = Len(order)
          \/ Skipped(order) = k \/ Skipped(order) = n
          \/ Skipped(order) = n - 1 /\ cursor \in Shown
  <2> HIDE DEF n, k, cursor
  <2>1. CASE by \in {"page", "key", "skip one"} \/ cursor = NoCursor
    BY <1>8, <2>1, Zenon
  <2>2. CASE by \in {"after", "from"} /\ cursor # NoCursor
    BY <1>8, <2>2, Zenon
  <2>. QED BY <1>7, <2>1, <2>2, Zenon
<1> HIDE DEF n, k, cursor
<1>. QED BY <1>1, <1>6, <1>9, <1>10

LEMMA RankIsBounded ==
    ASSUME NEW S \in SUBSET Int, IsFiniteSet(S), NEW y \in Int
    PROVE  Rank(S, y) \in 0..Cardinality(S)
<1>1. {t \in S : t >= y} \in SUBSET S
    OBVIOUS
<1>2. /\ Cardinality({t \in S : t >= y}) \in Nat /\ Cardinality(S) \in Nat
      /\ Cardinality({t \in S : t >= y}) <= Cardinality(S)
    BY <1>1, FS_Subset, FS_CardinalityType
<1>. QED BY <1>2 DEF Rank

(* In sorted rows a cursor skips as many rows as its rank says. *)
LEMMA CursorSkips ==
    ASSUME ListTypes, NEW order \in Orders, ~Unordered, reader.cursor # NoCursor
    PROVE  /\ Rank(Shown, reader.cursor) \in 0..Len(order)
           /\ by = "key" => Skipped(order) = Rank(Shown, reader.cursor)
           /\ by = "after" /\ reader.cursor \in Shown =>
                Skipped(order) = Rank(Shown, reader.cursor)
           /\ by = "from" /\ reader.cursor \in Shown =>
                Skipped(order) = Rank(Shown, reader.cursor) - 1
<1> DEFINE cursor == reader.cursor
           r == Rank(Shown, cursor)
           ByKey == {i \in DOMAIN order : order[i] >= cursor}
<1>1. /\ Len(order) \in Nat /\ Len(order) = Cardinality(Shown)
      /\ \A i \in 1..Len(order) : order[i] \in Shown /\ Rank(Shown, order[i]) = i
      /\ \A x \in Shown : Rank(Shown, x) \in 1..Len(order) /\ order[Rank(Shown, x)] = x
    BY ShownIsFinite, OrdersEnumerate, SortedPlaces
<1>2. DOMAIN order = 1..Len(order)
    BY OrdersEnumerate DEF Enumerates
<1>3. cursor \in Int /\ r \in 0..Len(order)
  <2>1. cursor \in Int
    BY ListNumbers
  <2>2. Rank(Shown, cursor) \in 0..Cardinality(Shown)
    BY <2>1, ShownIsFinite, RankIsBounded
  <2>. QED BY <1>1, <2>1, <2>2
<1>4. Cardinality(1..r) = r
    BY <1>3, FS_Interval
<1>5. ByKey = 1..r
  <2>1. \A i \in 1..Len(order) : order[i] >= cursor <=> i <= r
    <3>1. ASSUME NEW i \in 1..Len(order) PROVE order[i] >= cursor <=> i <= r
      <4>1. order[i] \in Shown /\ Rank(Shown, order[i]) = i
        BY <1>1
      <4>2. order[i] >= cursor <=> Rank(Shown, order[i]) <= r
        BY <1>3, <4>1, ShownIsFinite, RanksCompare
      <4>. QED BY <4>1, <4>2
    <3>. QED BY <3>1
  <2> HIDE DEF cursor, r
  <2>. QED BY <1>1, <1>2, <1>3, <2>1
<1>6. ASSUME cursor \in Shown PROVE UpTo(order, cursor) = 1..r
  <2>1. r \in 1..Len(order) /\ order[r] = cursor
    BY <1>1, <1>6
  <2>2. \A j \in 1..Len(order) : order[j] = cursor => j = r
    BY <1>1
  <2> HIDE DEF cursor, r
  <2>3. ASSUME NEW i \in 1..r PROVE i \in UpTo(order, cursor)
    <3>1. i \in 1..Len(order) /\ r \in i..Len(order)
        BY <1>1, <2>1
    <3>. QED BY <1>2, <2>1, <3>1 DEF UpTo
  <2>4. ASSUME NEW i \in UpTo(order, cursor) PROVE i \in 1..r
    <3>1. /\ i \in 1..Len(order)
          /\ \E j \in i..Len(order) : order[j] = cursor
        BY <1>2 DEF UpTo
    <3>2. PICK j \in i..Len(order) : order[j] = cursor
        BY <3>1
    <3>3. j \in 1..Len(order) /\ j >= i
        BY <1>1, <3>1, <3>2
    <3>. QED BY <1>1, <2>1, <2>2, <3>1, <3>2, <3>3
  <2>. QED BY <2>3, <2>4
<1> HIDE DEF ByKey
<1>7. /\ by = "key" => Skipped(order) = Cardinality(ByKey)
      /\ by = "after" /\ cursor \in Shown =>
            Skipped(order) = Cardinality(UpTo(order, cursor))
      /\ by = "from" /\ cursor \in Shown =>
            Skipped(order) = Cardinality(UpTo(order, cursor)) - 1
    BY NoCursorIsNoRow, SkippedWays DEF ByKey
<1> HIDE DEF cursor, r
<1>8. /\ r \in 0..Len(order)
      /\ by = "key" => Skipped(order) = r
      /\ by = "after" /\ cursor \in Shown => Skipped(order) = r
      /\ by = "from" /\ cursor \in Shown => Skipped(order) = r - 1
    BY <1>3, <1>4, <1>5, <1>6, <1>7
<1>. QED BY <1>8 DEF cursor, r

(* What a query hands out. *)
UpToRow(order) ==
    LET last == Skipped(order) + limit + following.way.extra
    IN  IF last < Len(order) THEN last ELSE Len(order)
PageOf(order) == SubSeq(order, Skipped(order) + 1, UpToRow(order))

LEMMA PageRows ==
    ASSUME ListTypes, NEW order \in Orders
    PROVE  LET f == Skipped(order)
               l == UpToRow(order)
               page == PageOf(order)
           IN  /\ f \in Nat /\ l \in Nat /\ Len(order) \in Nat /\ l <= Len(order)
               /\ f + limit <= l \/ l = Len(order)
               /\ l <= f + limit + following.way.extra
               /\ page = <<>> <=> l <= f
               /\ page # <<>> => l \in 1..Len(order) /\ page[Len(page)] = order[l]
               /\ Len(page) = IF l <= f THEN 0 ELSE l - f
               /\ \A x : x \in Range(page) <=> \E i \in (f + 1)..l : x = order[i]
               /\ \A i \in 1..Len(order) : order[i] \in Shown
<1> DEFINE f == Skipped(order)
           l == UpToRow(order)
           page == PageOf(order)
           e == following.way.extra
<1>1. /\ order \in Seq(Shown) /\ Len(order) \in Nat
      /\ \A i \in 1..Len(order) : order[i] \in Shown
    BY OrdersEnumerate DEF Enumerates
<1>2. f \in Nat /\ limit \in Nat /\ limit > 0 /\ e \in Nat
    BY SkippedIsNat, ListNumbers
<1>3. l = IF f + limit + e < Len(order) THEN f + limit + e ELSE Len(order)
    BY DEF UpToRow
<1>4. page = SubSeq(order, f + 1, l)
    BY DEF PageOf
<1> HIDE DEF f, l, page, e
<1>5. /\ l \in Nat /\ l <= Len(order) /\ l <= f + limit + e
      /\ f + limit <= l \/ l = Len(order)
    BY <1>1, <1>2, <1>3
<1>6. \A i \in (f + 1)..l : order[i] \in Shown
    BY <1>1, <1>2, <1>5
<1>7. /\ page \in Seq(Shown)
      /\ Len(page) = IF f + 1 <= l THEN l - (f + 1) + 1 ELSE 0
      /\ \A i \in 1..(l - (f + 1) + 1) : page[i] = order[(f + 1) + i - 1]
  <2>1. f + 1 \in Int /\ l \in Int
    BY <1>2, <1>5
  <2>. QED BY <1>4, <1>6, <2>1, SubSeqProperties
<1>8. /\ Len(page) = IF l <= f THEN 0 ELSE l - f
      /\ \A i \in 1..(l - f) : page[i] = order[f + i]
  <2>1. l - (f + 1) + 1 = l - f /\ \A i \in 1..(l - f) : (f + 1) + i - 1 = f + i
    BY <1>2, <1>5
  <2>2. f + 1 <= l <=> ~(l <= f)
    BY <1>2, <1>5
  <2>. QED BY <1>7, <2>1, <2>2
<1>9. page = <<>> <=> l <= f
  <2>1. page = <<>> <=> Len(page) = 0
    BY <1>7, EmptySeq
  <2>. QED BY <1>2, <1>5, <1>8, <2>1
<1>10. ASSUME page # <<>> PROVE l \in 1..Len(order) /\ page[Len(page)] = order[l]
  <2>1. ~(l <= f) /\ Len(page) = l - f /\ l - f \in 1..(l - f) /\ f + (l - f) = l
    BY <1>2, <1>5, <1>8, <1>9, <1>10
  <2>2. page[l - f] = order[f + (l - f)]
    BY <1>8, <2>1
  <2>3. l \in 1..Len(order)
    BY <1>1, <1>2, <1>5, <2>1
  <2>. QED BY <2>1, <2>2, <2>3
<1>11. ASSUME NEW x PROVE x \in Range(page) <=> \E i \in (f + 1)..l : x = order[i]
  <2>1. Range(page) = {page[i] : i \in 1..Len(page)}
    BY <1>7 DEF Range
  <2>2. 1..Len(page) = 1..(l - f)
    BY <1>2, <1>5, <1>8
  <2>3. x \in Range(page) <=> \E i \in 1..(l - f) : x = order[f + i]
    BY <1>8, <2>1, <2>2
  <2>4. /\ \A i \in 1..(l - f) : f + i \in (f + 1)..l
        /\ \A i \in (f + 1)..l : i - f \in 1..(l - f) /\ f + (i - f) = i
    BY <1>2, <1>5
  <2>. QED BY <2>3, <2>4
<1>12. /\ f \in Nat /\ l \in Nat /\ Len(order) \in Nat /\ l <= Len(order)
       /\ f + limit <= l \/ l = Len(order)
       /\ l <= f + limit + e
       /\ page = <<>> <=> l <= f
       /\ page # <<>> => l \in 1..Len(order) /\ page[Len(page)] = order[l]
       /\ Len(page) = IF l <= f THEN 0 ELSE l - f
       /\ \A x : x \in Range(page) <=> \E i \in (f + 1)..l : x = order[i]
       /\ \A i \in 1..Len(order) : order[i] \in Shown
    BY <1>1, <1>2, <1>5, <1>8, <1>9, <1>10, <1>11
<1>. QED BY <1>12 DEF f, l, page, e

(* The answer that ends a list: nothing is left, but where the total is that
   of the page. *)
LEMMA LastPageMeans ==
    ASSUME ListTypes, NEW order \in Orders
    PROVE  /\ by = "page" => following.way.ends \in {"total", "page total"}
           /\ following.way.ends = "total" =>
                (LastPage(order, PageOf(order)) <=> reader.page * limit >= Len(order))
           /\ following.way.ends = "page total" =>
                (LastPage(order, PageOf(order))
                    <=> reader.page * limit >= Len(PageOf(order)))
           /\ by # "page" /\ LastPage(order, PageOf(order)) =>
                UpToRow(order) = Len(order)
           /\ LastPage(order, PageOf(order)) \in BOOLEAN
<1> DEFINE page == PageOf(order)
           last == LastPage(order, page)
<1>1. /\ following.way.ends = "total" => (last <=> reader.page * limit >= Len(order))
      /\ following.way.ends = "page total" =>
            (last <=> reader.page * limit >= Len(page))
      /\ following.way.ends = "full" => (last <=> Len(page) < limit)
      /\ following.way.ends = "more" =>
            (last <=> Len(order) - Skipped(order) <= limit)
      /\ following.way.ends = "empty" => (last <=> page = <<>>)
    BY DEF LastPage
<1>2. /\ by = "page" => following.way.ends \in {"total", "page total"}
      /\ by # "page" => /\ following.way.ends \in {"full", "more", "empty"}
                        /\ following.way.extra = 0
    BY ListNumbers DEF Known, by
<1> DEFINE f == Skipped(order)
           l == UpToRow(order)
<1>3. /\ f \in Nat /\ l \in Nat /\ Len(order) \in Nat /\ l <= Len(order)
      /\ f + limit <= l \/ l = Len(order)
      /\ page = <<>> <=> l <= f
      /\ Len(page) = IF l <= f THEN 0 ELSE l - f
      /\ limit \in Nat /\ limit > 0
    BY PageRows, ListNumbers
<1> HIDE DEF page, last, f, l
<1>4. (Len(page) < limit) => l = Len(order)
    BY <1>3
<1>5. (Len(order) - f <= limit) => l = Len(order)
    BY <1>3
<1>6. (page = <<>>) => l = Len(order)
    BY <1>3
<1>7. by # "page" /\ last => l = Len(order)
    BY <1>1, <1>2, <1>4, <1>5, <1>6 DEF f
<1>8. last \in BOOLEAN
  <2> DEFINE ends == following.way.ends
  <2>1. ASSUME ends = "total" PROVE last \in BOOLEAN
    BY <2>1 DEF last, LastPage
  <2>2. ASSUME ends = "page total" PROVE last \in BOOLEAN
    <3>1. last = (reader.page * limit >= Len(page))
        BY <2>2, Zenon DEF last, LastPage
    <3>. QED BY <3>1
  <2>3. ASSUME ends = "full" PROVE last \in BOOLEAN
    BY <2>3 DEF last, LastPage
  <2>4. ASSUME ends = "more" PROVE last \in BOOLEAN
    BY <2>4 DEF last, LastPage
  <2>5. ASSUME ends = "empty" PROVE last \in BOOLEAN
    BY <2>5 DEF last, LastPage
  <2>. QED BY <1>2, <2>1, <2>2, <2>3, <2>4, <2>5
<1>. QED BY <1>1, <1>2, <1>7, <1>8 DEF page, last, l

(* A page read, by these names. *)
LEMMA PageIsRead ==
    ASSUME ReadPage
    PROVE  \E order \in Orders :
            /\ ~reader.done
            /\ reader' =
                [done |-> LastPage(order, PageOf(order)),
                 page |-> IF by = "page" THEN reader.page + 1 ELSE 1,
                 cursor |-> IF by = "page" \/ PageOf(order) = <<>> THEN reader.cursor
                            ELSE PageOf(order)[Len(PageOf(order))]]
            /\ seen' = seen \cup Range(PageOf(order))
            /\ again' = again \cup ((seen \cap Range(PageOf(order))) \ {reader.cursor})
            /\ moved' = [moved EXCEPT !.lost =
                            @ \/ reader.cursor \notin Shown \cup {NoCursor}]
            /\ UNCHANGED <<following, limit, tied, rows, foreign, made>>
  BY DEF ReadPage, PageOf, UpToRow

-----------------------------------------------------------------------------
(* Lists: no row is missed or repeated but for a cause. *)

(* Of the rows that stay: those up to where the client stands were seen. *)
ByNumberNotMissed ==
    by = "page" /\ following.way.ends # "page total" /\ ~Unordered /\ ~moved.removed =>
        \A x \in Shown \cap 1..OldRows :
            reader.done \/ Rank(Shown, x) <= PagesBefore(reader.page) => x \in seen
ByCursorNotMissed ==
    /\ by \in {"after", "from", "key"} /\ ~Unordered
    /\ by = "key" \/ ~moved.lost
    => \A x \in Shown \cap 1..OldRows :
            reader.done \/ (reader.cursor # NoCursor /\ x >= reader.cursor) => x \in seen

(* Of the rows that were seen: none is beyond where the client stands. *)
ByNumberNotRepeated ==
    by = "page" /\ following.way.extra = 0 /\ ~Unordered /\ ~moved.inserted =>
        /\ again = {}
        /\ \A x \in seen \cap Shown : Rank(Shown, x) <= PagesBefore(reader.page)
ByCursorNotRepeated ==
    by \in {"after", "from", "key"} /\ ~Unordered =>
        /\ again = {} /\ (reader.cursor = NoCursor => seen = {})
        /\ \A x \in seen : x >= reader.cursor

ListInv ==
    /\ ListTypes
    /\ ByNumberNotMissed /\ ByCursorNotMissed
    /\ ByNumberNotRepeated /\ ByCursorNotRepeated

LEMMA ListTypesHoldFirst == ListingsInit => ListTypes
<1> SUFFICES ASSUME ListingsInit PROVE ListTypes
    OBVIOUS
<1>1. following \in KnownList /\ following \in [of : {"own", "all"}, way : Way]
    BY ListsAreKnown DEF ListingsInit, KnownList
<1>2. /\ limit \in Limits /\ tied \in BOOLEAN
      /\ made = OldRows /\ rows = 1..OldRows /\ foreign \subseteq 1..OldRows
      /\ reader = [done |-> FALSE, page |-> 1, cursor |-> NoCursor]
      /\ seen = {} /\ again = {}
      /\ moved = [inserted |-> FALSE, removed |-> FALSE, lost |-> FALSE]
    BY DEF ListingsInit
<1>3. made \in OldRows..MaxRows
    BY <1>2, ListingsAssumption
<1>4. /\ reader \in [done : BOOLEAN, page : 1..(MaxRows + 1),
                     cursor : NoCursor..MaxRows]
      /\ moved \in [inserted : BOOLEAN, removed : BOOLEAN, lost : BOOLEAN]
      /\ reader.page = 1
    BY <1>2, ListingsAssumption DEF NoCursor
<1>5. ListingsTypeOK
    BY <1>1, <1>2, <1>3, <1>4 DEF ListingsTypeOK
<1>. QED BY <1>1, <1>4, <1>5 DEF ListTypes

LEMMA ListTypesAreRead == ListTypes /\ ReadPage => ListTypes'
<1> SUFFICES ASSUME ListTypes, ReadPage PROVE ListTypes'
    OBVIOUS
<1>1. PICK order \in Orders :
        /\ ~reader.done
        /\ reader' =
            [done |-> LastPage(order, PageOf(order)),
             page |-> IF by = "page" THEN reader.page + 1 ELSE 1,
             cursor |-> IF by = "page" \/ PageOf(order) = <<>> THEN reader.cursor
                        ELSE PageOf(order)[Len(PageOf(order))]]
        /\ seen' = seen \cup Range(PageOf(order))
        /\ again' = again \cup ((seen \cap Range(PageOf(order))) \ {reader.cursor})
        /\ moved' = [moved EXCEPT !.lost =
                        @ \/ reader.cursor \notin Shown \cup {NoCursor}]
        /\ UNCHANGED <<following, limit, tied, rows, foreign, made>>
    BY PageIsRead
<1> DEFINE page == PageOf(order)
           f == Skipped(order)
           l == UpToRow(order)
<1>2. /\ f \in Nat /\ l \in Nat /\ Len(order) \in Nat /\ l <= Len(order)
      /\ page # <<>> => l \in 1..Len(order) /\ page[Len(page)] = order[l]
      /\ Len(page) = IF l <= f THEN 0 ELSE l - f
      /\ \A x : x \in Range(page) <=> \E i \in (f + 1)..l : x = order[i]
      /\ \A i \in 1..Len(order) : order[i] \in Shown
    BY PageRows
<1>3. /\ Shown \subseteq 1..made /\ made \in Nat /\ made <= MaxRows /\ MaxRows \in Nat
      /\ Len(order) <= MaxRows
    BY ShownIsFinite, ListNumbers, OrdersEnumerate DEF Enumerates
<1> HIDE DEF page, f, l
<1>4. Range(page) \subseteq Shown
  <2>1. \A i \in (f + 1)..l : i \in 1..Len(order)
    BY <1>2
  <2>. QED BY <1>2, <2>1
<1>5. seen' \subseteq 1..made /\ again' \subseteq seen'
    BY <1>1, <1>3, <1>4 DEF page, ListTypes, ListingsTypeOK
<1>6. page # <<>> => page[Len(page)] \in NoCursor..MaxRows
  <2>1. page # <<>> => page[Len(page)] \in Shown
    BY <1>2
  <2>2. \A x \in Shown : x \in NoCursor..MaxRows
    BY <1>3 DEF NoCursor
  <2>. QED BY <2>1, <2>2
<1>7. /\ reader.page \in 1..(MaxRows + 1) /\ reader.cursor \in NoCursor..MaxRows
      /\ reader.page > 1 => reader.page <= MaxRows
      /\ by # "page" => reader.page = 1
    BY <1>1 DEF ListTypes, ListingsTypeOK
<1>8. /\ reader'.done \in BOOLEAN
      /\ reader'.page = IF by = "page" THEN reader.page + 1 ELSE 1
      /\ reader'.cursor = IF by = "page" \/ page = <<>> THEN reader.cursor
                          ELSE page[Len(page)]
      /\ reader'.done = LastPage(order, page)
      /\ DOMAIN reader' = {"done", "page", "cursor"}
  <2>1. LastPage(order, page) \in BOOLEAN
    BY LastPageMeans DEF page
  <2>. QED BY <1>1, <2>1 DEF page
<1>9. by = "page" /\ ~reader'.done => reader.page + 1 <= MaxRows
  <2>1. /\ Len(page) <= Len(order)
        /\ reader.page <= reader.page * limit /\ reader.page * limit \in Nat
        /\ reader.page \in Nat
    BY <1>2, ListNumbers
  <2>2. by = "page" /\ ~reader'.done =>
            \/ ~(reader.page * limit >= Len(order))
            \/ ~(reader.page * limit >= Len(page))
    BY <1>8, LastPageMeans DEF page
  <2>. QED BY <1>2, <1>3, <2>1, <2>2
<1>10. reader'.page \in 1..(MaxRows + 1)
  <2>1. reader.page \in 1..MaxRows
    BY <1>3, <1>7, ListingsAssumption
  <2>. QED BY <1>3, <1>8, <2>1
<1>11. reader' \in [done : BOOLEAN, page : 1..(MaxRows + 1),
                    cursor : NoCursor..MaxRows]
  <2>1. reader'.cursor \in NoCursor..MaxRows
    BY <1>6, <1>7, <1>8
  <2>2. reader' = [done |-> reader'.done, page |-> reader'.page,
                   cursor |-> reader'.cursor]
    BY <1>1
  <2>. QED BY <1>8, <1>10, <2>1, <2>2
<1>12. moved' \in [inserted : BOOLEAN, removed : BOOLEAN, lost : BOOLEAN]
  <2>1. moved \in [inserted : BOOLEAN, removed : BOOLEAN, lost : BOOLEAN]
    BY DEF ListTypes, ListingsTypeOK
  <2>. QED BY <1>1, <2>1
<1>13. ListingsTypeOK'
    BY <1>1, <1>5, <1>11, <1>12 DEF ListTypes, ListingsTypeOK
<1>14. following' \in KnownList /\ by' = by
    BY <1>1 DEF ListTypes, by
<1>15. /\ by' # "page" => reader'.page = 1
       /\ ~reader'.done /\ reader'.page > 1 => reader'.page <= MaxRows
    BY <1>8, <1>9, <1>14
<1>. QED BY <1>13, <1>14, <1>15 DEF ListTypes

(* Rows that come and go. *)
LEMMA RowsCome ==
    ASSUME ListTypes, NEW owner \in {"client", "other"}, InsertRow(owner)
    PROVE  /\ ListTypes'
           /\ UNCHANGED <<following, limit, tied, reader, seen, again, by>>
           /\ Unordered' = Unordered
           /\ Shown \subseteq Shown' /\ Shown' \in SUBSET Int /\ IsFiniteSet(Shown')
           /\ Shown' \cap 1..OldRows = Shown \cap 1..OldRows
           /\ ~moved'.inserted => Shown' = Shown /\ ~moved.inserted
           /\ moved'.removed = moved.removed /\ moved'.lost = moved.lost
<1>1. /\ made < MaxRows /\ made' = made + 1 /\ rows' = rows \cup {made + 1}
      /\ foreign' = IF owner = "other" THEN foreign \cup {made + 1} ELSE foreign
      /\ moved' = [moved EXCEPT !.inserted =
                    @ \/ owner = "client" \/ following.of = "all"]
      /\ UNCHANGED <<following, limit, tied, reader, seen, again>>
    BY DEF InsertRow
<1>2. /\ made \in Nat /\ OldRows \in Nat /\ MaxRows \in Nat /\ OldRows <= made
      /\ rows \subseteq 1..made /\ foreign \subseteq 1..made
      /\ seen \subseteq 1..made
      /\ moved \in [inserted : BOOLEAN, removed : BOOLEAN, lost : BOOLEAN]
      /\ following.of \in {"own", "all"}
    BY ListNumbers DEF ListTypes, ListingsTypeOK
<1>3. made + 1 \notin 1..made /\ made + 1 \notin 1..OldRows
    BY <1>2
<1>4. /\ made' \in OldRows..MaxRows /\ 1..made \subseteq 1..made'
      /\ made + 1 \in 1..made'
    BY <1>1, <1>2
<1>5. /\ rows' \subseteq 1..made' /\ foreign' \subseteq 1..made'
      /\ seen' \subseteq 1..made'
    BY <1>1, <1>2, <1>4
<1>6. moved' \in [inserted : BOOLEAN, removed : BOOLEAN, lost : BOOLEAN]
    BY <1>1, <1>2
<1>7. ListingsTypeOK'
    BY <1>1, <1>4, <1>5, <1>6 DEF ListTypes, ListingsTypeOK
<1>8. by' = by /\ Unordered' = Unordered
    BY <1>1 DEF by, Unordered
<1>9. ListTypes'
    BY <1>1, <1>7, <1>8 DEF ListTypes
<1>10. /\ Shown = IF following.of = "all" THEN rows ELSE rows \ foreign
       /\ Shown' = IF following.of = "all" THEN rows' ELSE rows' \ foreign'
    BY <1>1 DEF Shown
<1>11. Shown \subseteq Shown' /\ Shown' \subseteq Shown \cup {made + 1}
    BY <1>1, <1>2, <1>3, <1>10
<1>12. Shown' \cap 1..OldRows = Shown \cap 1..OldRows
    BY <1>3, <1>11
<1>13. ~moved'.inserted =>
        owner = "other" /\ following.of # "all" /\ ~moved.inserted
    BY <1>1, <1>2
<1>14. ~moved'.inserted => Shown' = Shown
    BY <1>1, <1>2, <1>3, <1>10, <1>13
<1>15. moved'.removed = moved.removed /\ moved'.lost = moved.lost
    BY <1>1, <1>2
<1>16. Shown' \in SUBSET Int /\ IsFiniteSet(Shown')
  <2>1. IsFiniteSet(Shown \cup {made + 1}) /\ Shown \in SUBSET Int
    BY ShownIsFinite, FS_AddElement
  <2>2. Shown' \in SUBSET (Shown \cup {made + 1}) /\ made + 1 \in Int
    BY <1>2, <1>11
  <2>3. IsFiniteSet(Shown')
    BY <2>1, <2>2, FS_Subset
  <2>. QED BY <2>1, <2>2, <2>3
<1>. QED BY <1>1, <1>8, <1>9, <1>11, <1>12, <1>13, <1>14, <1>15, <1>16

LEMMA RowsGo ==
    ASSUME ListTypes, NEW r \in rows, RemoveRow(r)
    PROVE  /\ ListTypes'
           /\ UNCHANGED <<following, limit, tied, reader, seen, again, by>>
           /\ Unordered' = Unordered
           /\ Shown' \subseteq Shown
           /\ ~moved'.removed => Shown' = Shown /\ ~moved.removed
           /\ moved'.inserted = moved.inserted /\ moved'.lost = moved.lost
<1>1. /\ rows' = rows \ {r}
      /\ moved' = [moved EXCEPT !.removed = @ \/ r \in Shown]
      /\ UNCHANGED <<following, limit, tied, foreign, made, reader, seen, again>>
    BY DEF RemoveRow
<1>2. moved \in [inserted : BOOLEAN, removed : BOOLEAN, lost : BOOLEAN]
    BY DEF ListTypes, ListingsTypeOK
<1>3. moved' \in [inserted : BOOLEAN, removed : BOOLEAN, lost : BOOLEAN]
    BY <1>1, <1>2
<1>4. ListingsTypeOK'
    BY <1>1, <1>3 DEF ListTypes, ListingsTypeOK
<1>5. by' = by /\ Unordered' = Unordered
    BY <1>1 DEF by, Unordered
<1>6. ListTypes'
    BY <1>1, <1>4, <1>5 DEF ListTypes
<1>7. /\ Shown = IF following.of = "all" THEN rows ELSE rows \ foreign
      /\ Shown' = IF following.of = "all" THEN rows' ELSE rows' \ foreign
    BY <1>1 DEF Shown
<1>8. Shown' = Shown \ {r}
    BY <1>1, <1>7
<1>9. ~moved'.removed => r \notin Shown /\ ~moved.removed
    BY <1>1, <1>2
<1>10. moved'.inserted = moved.inserted /\ moved'.lost = moved.lost
    BY <1>1, <1>2
<1>. QED BY <1>1, <1>5, <1>6, <1>8, <1>9, <1>10

LEMMA RankGrows ==
    ASSUME NEW S, NEW T \in SUBSET Int, IsFiniteSet(T), S \subseteq T, NEW y \in Int
    PROVE  Rank(S, y) \in Nat /\ Rank(T, y) \in Nat /\ Rank(S, y) <= Rank(T, y)
<1> DEFINE A == {t \in S : t >= y}
           B == {t \in T : t >= y}
<1>1. A \in SUBSET B /\ B \in SUBSET T
    OBVIOUS
<1>2. IsFiniteSet(B) /\ IsFiniteSet(A) /\ Cardinality(A) <= Cardinality(B)
    BY <1>1, FS_Subset
<1>. QED BY <1>2, FS_CardinalityType DEF Rank

LEMMA ListInvHoldsFirst == ListingsInit => ListInv
<1> SUFFICES ASSUME ListingsInit PROVE ListInv
    OBVIOUS
<1>1. ListTypes
    BY ListTypesHoldFirst
<1>2. /\ reader.done = FALSE /\ reader.page = 1 /\ reader.cursor = NoCursor
      /\ seen = {} /\ again = {}
    BY DEF ListingsInit
<1>3. PagesBefore(reader.page) = 0
    BY <1>1, <1>2, ListNumbers DEF PagesBefore
<1>4. \A x \in Shown : Rank(Shown, x) > 0
  <2>1. \A x \in Shown : Rank(Shown, x) \in 1..Cardinality(Shown)
    BY <1>1, ShownIsFinite, RanksCompare
  <2>. QED BY <1>1, <2>1, ShownIsFinite
<1>5. \A x \in Shown : ~(Rank(Shown, x) <= PagesBefore(reader.page))
  <2>1. \A x \in Shown : Rank(Shown, x) \in Nat
    BY <1>1, ShownIsFinite, RankGrows
  <2>. QED BY <1>3, <1>4, <2>1
<1>6. ByNumberNotMissed /\ ByCursorNotMissed
    BY <1>2, <1>5 DEF ByNumberNotMissed, ByCursorNotMissed
<1>7. ByNumberNotRepeated /\ ByCursorNotRepeated
    BY <1>2 DEF ByNumberNotRepeated, ByCursorNotRepeated
<1>. QED BY <1>1, <1>6, <1>7 DEF ListInv

(* A row that comes pushes others back, one that goes lets them move up. *)
LEMMA RowsComeKeep ==
    ASSUME ListInv, NEW owner \in {"client", "other"}, InsertRow(owner)
    PROVE  ListInv'
<1>1. /\ ListTypes' /\ ListTypes
      /\ UNCHANGED <<following, limit, tied, reader, seen, again, by>>
      /\ Unordered' = Unordered
      /\ Shown \subseteq Shown'
      /\ Shown' \cap 1..OldRows = Shown \cap 1..OldRows
      /\ ~moved'.inserted => Shown' = Shown /\ ~moved.inserted
      /\ moved'.removed = moved.removed /\ moved'.lost = moved.lost
    BY RowsCome DEF ListInv
<1>2. Shown' \in SUBSET Int /\ IsFiniteSet(Shown')
    BY RowsCome DEF ListInv
<1>3. PagesBefore(reader.page)' = PagesBefore(reader.page)
      /\ PagesBefore(reader.page) \in Nat
    BY <1>1, ListNumbers DEF PagesBefore
<1>4. \A x \in Shown : /\ Rank(Shown, x) \in Nat /\ Rank(Shown', x) \in Nat
                       /\ Rank(Shown, x) <= Rank(Shown', x)
  <2>1. \A x \in Shown : x \in Int
    BY <1>1, ShownIsFinite
  <2>. QED BY <1>1, <1>2, <2>1, RankGrows
<1>5. ByNumberNotMissed'
  <2>0. SUFFICES
            ASSUME by = "page", following.way.ends # "page total",
                   ~Unordered, ~moved.removed, NEW x \in Shown \cap 1..OldRows,
                   reader.done \/ Rank(Shown', x) <= PagesBefore(reader.page)
            PROVE  x \in seen
    BY <1>1, <1>3 DEF ByNumberNotMissed
  <2>1. ASSUME Rank(Shown', x) <= PagesBefore(reader.page)
        PROVE  Rank(Shown, x) <= PagesBefore(reader.page)
    BY <1>3, <1>4, <2>1
  <2>. QED BY <2>0, <2>1 DEF ListInv, ByNumberNotMissed
<1>6. ByCursorNotMissed'
    BY <1>1 DEF ListInv, ByCursorNotMissed
<1>7. ByNumberNotRepeated'
  <2> SUFFICES ASSUME by = "page", following.way.extra = 0, ~Unordered,
                      ~moved'.inserted
               PROVE  /\ again = {}
                      /\ \A x \in seen \cap Shown' :
                            Rank(Shown', x) <= PagesBefore(reader.page)
    BY <1>1, <1>3 DEF ByNumberNotRepeated
  <2>1. Shown' = Shown /\ ~moved.inserted
    BY <1>1
  <2>. QED BY <2>1 DEF ListInv, ByNumberNotRepeated
<1>8. ByCursorNotRepeated'
    BY <1>1 DEF ListInv, ByCursorNotRepeated
<1>. QED BY <1>1, <1>5, <1>6, <1>7, <1>8 DEF ListInv

LEMMA RowsGoKeep ==
    ASSUME ListInv, NEW r \in rows, RemoveRow(r)
    PROVE  ListInv'
<1>1. /\ ListTypes' /\ ListTypes
      /\ UNCHANGED <<following, limit, tied, reader, seen, again, by>>
      /\ Unordered' = Unordered
      /\ Shown' \subseteq Shown
      /\ ~moved'.removed => Shown' = Shown /\ ~moved.removed
      /\ moved'.inserted = moved.inserted /\ moved'.lost = moved.lost
    BY RowsGo DEF ListInv
<1>2. PagesBefore(reader.page)' = PagesBefore(reader.page)
      /\ PagesBefore(reader.page) \in Nat
    BY <1>1, ListNumbers DEF PagesBefore
<1>3. \A x \in Shown : /\ Rank(Shown', x) \in Nat /\ Rank(Shown, x) \in Nat
                       /\ Rank(Shown', x) <= Rank(Shown, x)
  <2>1. \A x \in Shown : x \in Int
    BY <1>1, ShownIsFinite
  <2>. QED BY <1>1, <2>1, ShownIsFinite, RankGrows
<1>4. ByNumberNotMissed'
  <2> SUFFICES ASSUME by = "page", following.way.ends # "page total",
                      ~Unordered, ~moved'.removed,
                      NEW x \in Shown' \cap 1..OldRows,
                      reader.done \/ Rank(Shown', x) <= PagesBefore(reader.page)
               PROVE  x \in seen
    BY <1>1, <1>2 DEF ByNumberNotMissed
  <2>1. Shown' = Shown /\ ~moved.removed
    BY <1>1
  <2>. QED BY <2>1 DEF ListInv, ByNumberNotMissed
<1>5. ByCursorNotMissed'
    BY <1>1 DEF ListInv, ByCursorNotMissed
<1>6. ByNumberNotRepeated'
  <2> SUFFICES ASSUME by = "page", following.way.extra = 0, ~Unordered,
                      ~moved.inserted
               PROVE  /\ again = {}
                      /\ \A x \in seen \cap Shown' :
                            Rank(Shown', x) <= PagesBefore(reader.page)
    BY <1>1, <1>2 DEF ByNumberNotRepeated
  <2>1. /\ again = {}
        /\ \A x \in seen \cap Shown : Rank(Shown, x) <= PagesBefore(reader.page)
    BY DEF ListInv, ByNumberNotRepeated
  <2>2. ASSUME NEW x \in seen \cap Shown'
        PROVE  Rank(Shown', x) <= PagesBefore(reader.page)
    <3>1. x \in seen \cap Shown
        BY <1>1
    <3>2. Rank(Shown, x) <= PagesBefore(reader.page)
        BY <2>1, <3>1
    <3>. QED BY <1>2, <1>3, <3>1, <3>2
  <2>. QED BY <2>1, <2>2
<1>7. ByCursorNotRepeated'
    BY <1>1 DEF ListInv, ByCursorNotRepeated
<1>. QED BY <1>1, <1>4, <1>5, <1>6, <1>7 DEF ListInv

(* In sorted rows a page holds the rows of some ranks, and ends at the last. *)
LEMMA SortedPage ==
    ASSUME ListTypes, NEW order \in Orders, ~Unordered
    PROVE  /\ Range(PageOf(order)) \subseteq Shown
           /\ \A x \in Shown :
                /\ Rank(Shown, x) \in Nat /\ Rank(Shown, x) > 0
                /\ Rank(Shown, x) <= Len(order)
                /\ x \in Range(PageOf(order)) <=>
                        ~(Rank(Shown, x) <= Skipped(order))
                        /\ Rank(Shown, x) <= UpToRow(order)
           /\ PageOf(order) # <<>> =>
                /\ PageOf(order)[Len(PageOf(order))] \in Shown
                /\ Rank(Shown, PageOf(order)[Len(PageOf(order))]) = UpToRow(order)
                /\ ~(UpToRow(order) <= Skipped(order))
           /\ PageOf(order) = <<>> => UpToRow(order) <= Skipped(order)
<1> DEFINE page == PageOf(order)
           f == Skipped(order)
           l == UpToRow(order)
<1>1. /\ f \in Nat /\ l \in Nat /\ Len(order) \in Nat /\ l <= Len(order)
      /\ page = <<>> <=> l <= f
      /\ page # <<>> => l \in 1..Len(order) /\ page[Len(page)] = order[l]
      /\ \A x : x \in Range(page) <=> \E i \in (f + 1)..l : x = order[i]
    BY PageRows
<1>2. /\ \A i \in 1..Len(order) : order[i] \in Shown /\ Rank(Shown, order[i]) = i
      /\ \A x \in Shown : Rank(Shown, x) \in 1..Len(order) /\ order[Rank(Shown, x)] = x
    BY ShownIsFinite, OrdersEnumerate, SortedPlaces
<1> HIDE DEF page, f, l
<1>3. \A i \in (f + 1)..l : i \in 1..Len(order)
    BY <1>1
<1>4. Range(page) \subseteq Shown
    BY <1>1, <1>2, <1>3
<1>5. ASSUME NEW x \in Shown
      PROVE  /\ Rank(Shown, x) \in Nat /\ Rank(Shown, x) > 0
             /\ Rank(Shown, x) <= Len(order)
             /\ x \in Range(page) <=>
                    ~(Rank(Shown, x) <= f) /\ Rank(Shown, x) <= l
  <2>1. Rank(Shown, x) \in 1..Len(order) /\ order[Rank(Shown, x)] = x
    BY <1>2
  <2>2. x \in Range(page) <=> \E i \in (f + 1)..l : x = order[i]
    BY <1>1
  <2>3. (\E i \in (f + 1)..l : x = order[i]) <=> Rank(Shown, x) \in (f + 1)..l
    BY <1>2, <1>3, <2>1
  <2>. QED BY <1>1, <2>1, <2>2, <2>3
<1>6. ASSUME page # <<>>
      PROVE  page[Len(page)] \in Shown /\ Rank(Shown, page[Len(page)]) = l /\ ~(l <= f)
    BY <1>1, <1>2, <1>6
<1>. QED BY <1>1, <1>4, <1>5, <1>6 DEF page, f, l

(* What a client of page numbers, and one of a cursor, skips it has read. *)
LEMMA SkippedByNumber ==
    ASSUME ListTypes, NEW order \in Orders, by = "page"
    PROVE  Skipped(order) = PagesBefore(reader.page)
  BY SkippedWays, NoCursorIsNoRow

LEMMA SkippedByCursor ==
    ASSUME ListTypes, NEW order \in Orders, ~Unordered,
           by \in {"after", "from", "key"}
    PROVE  /\ reader.cursor = NoCursor => Skipped(order) = 0
           /\ reader.cursor # NoCursor /\ (by = "key" \/ reader.cursor \in Shown) =>
                /\ \A x \in Shown :
                    Rank(Shown, x) <= Skipped(order) => x >= reader.cursor
                /\ \A x \in Shown :
                    ~(Rank(Shown, x) <= Skipped(order)) =>
                        reader.cursor >= x /\ (x = reader.cursor => by = "from")
           /\ reader.cursor # NoCursor /\ ~(by = "key" \/ reader.cursor \in Shown) =>
                Skipped(order) = Len(order)
<1> DEFINE cursor == reader.cursor
           f == Skipped(order)
           r == Rank(Shown, cursor)
<1>1. cursor = NoCursor => f = 0
    BY SkippedWays, NoCursorIsNoRow
<1>2. cursor # NoCursor /\ ~(by = "key" \/ cursor \in Shown) => f = Len(order)
    BY SkippedWays, NoCursorIsNoRow
<1>3. ASSUME cursor # NoCursor, by = "key" \/ cursor \in Shown
      PROVE  /\ r \in Nat /\ f = IF by = "from" THEN r - 1 ELSE r
  <2>1. /\ r \in 0..Len(order)
        /\ by = "key" => f = r
        /\ by = "after" /\ cursor \in Shown => f = r
        /\ by = "from" /\ cursor \in Shown => f = r - 1
    BY <1>3, CursorSkips
  <2>. QED BY <1>3, <2>1
<1>4. \A x \in Shown : /\ x \in Int /\ cursor \in Int /\ Rank(Shown, x) \in Nat
                       /\ x >= cursor <=> Rank(Shown, x) <= r
  <2>1. cursor \in Int
    BY ListNumbers
  <2>. QED BY <2>1, ShownIsFinite, RanksCompare, SortedPage
<1>5. \A x \in Shown : cursor \in Shown => (cursor >= x <=> r <= Rank(Shown, x))
  <2>1. \A x \in Shown : x \in Int
    BY <1>4
  <2>. QED BY <2>1, ShownIsFinite, RanksCompare
<1>6. ASSUME cursor # NoCursor, by = "key" \/ cursor \in Shown, NEW x \in Shown
      PROVE  /\ Rank(Shown, x) <= f => x >= cursor
             /\ ~(Rank(Shown, x) <= f) => cursor >= x /\ (x = cursor => by = "from")
  <2>1. /\ x \in Int /\ cursor \in Int /\ Rank(Shown, x) \in Nat /\ r \in Nat
        /\ x >= cursor <=> Rank(Shown, x) <= r
        /\ f = IF by = "from" THEN r - 1 ELSE r
    BY <1>3, <1>4, <1>6
  <2>2. by = "from" => (cursor >= x <=> r <= Rank(Shown, x))
    BY <1>5, <1>6
  <2> HIDE DEF f, r, cursor
  <2>3. CASE by = "from"
    BY <2>1, <2>2, <2>3
  <2>4. CASE by # "from"
    BY <2>1, <2>4
  <2>. QED BY <2>3, <2>4
<1>. QED BY <1>1, <1>2, <1>6

LEMMA PagesKeep == ListInv /\ ReadPage => ListInv'
<1> SUFFICES ASSUME ListInv, ReadPage PROVE ListInv'
    OBVIOUS
<1>1. ListTypes /\ ListTypes'
    BY ListTypesAreRead DEF ListInv
<1>2. PICK order \in Orders :
        /\ ~reader.done
        /\ reader' =
            [done |-> LastPage(order, PageOf(order)),
             page |-> IF by = "page" THEN reader.page + 1 ELSE 1,
             cursor |-> IF by = "page" \/ PageOf(order) = <<>> THEN reader.cursor
                        ELSE PageOf(order)[Len(PageOf(order))]]
        /\ seen' = seen \cup Range(PageOf(order))
        /\ again' = again \cup ((seen \cap Range(PageOf(order))) \ {reader.cursor})
        /\ moved' = [moved EXCEPT !.lost =
                        @ \/ reader.cursor \notin Shown \cup {NoCursor}]
        /\ UNCHANGED <<following, limit, tied, rows, foreign, made>>
    BY PageIsRead
<1> DEFINE page == PageOf(order)
           f == Skipped(order)
           l == UpToRow(order)
           cursor == reader.cursor
           rank(x) == Rank(Shown, x)
<1>3. /\ following' = following /\ by' = by /\ Shown' = Shown /\ limit' = limit
      /\ Unordered' = Unordered
    BY <1>2 DEF by, Shown, Unordered
<1>4. /\ reader'.done = LastPage(order, page)
      /\ reader'.page = IF by = "page" THEN reader.page + 1 ELSE 1
      /\ reader'.cursor = IF by = "page" \/ page = <<>> THEN cursor
                          ELSE page[Len(page)]
      /\ ~reader.done
      /\ seen' = seen \cup Range(page)
      /\ again' = again \cup ((seen \cap Range(page)) \ {cursor})
    BY <1>2
<1>5. /\ moved'.inserted = moved.inserted /\ moved'.removed = moved.removed
      /\ ~moved'.lost => ~moved.lost /\ (cursor = NoCursor \/ cursor \in Shown)
  <2>1. moved \in [inserted : BOOLEAN, removed : BOOLEAN, lost : BOOLEAN]
    BY <1>1 DEF ListTypes, ListingsTypeOK
  <2>. QED BY <1>2, <2>1
<1>6. /\ f \in Nat /\ l \in Nat /\ Len(order) \in Nat /\ l <= Len(order)
      /\ f + limit <= l \/ l = Len(order)
      /\ l <= f + limit + following.way.extra
      /\ Len(page) = IF l <= f THEN 0 ELSE l - f
      /\ limit \in Nat /\ limit > 0 /\ cursor \in Nat
    BY <1>1, PageRows, ListNumbers
<1>7. ~Unordered =>
        /\ Range(page) \subseteq Shown
        /\ \A x \in Shown :
            /\ rank(x) \in Nat /\ rank(x) > 0 /\ rank(x) <= Len(order)
            /\ x \in Range(page) <=> ~(rank(x) <= f) /\ rank(x) <= l
        /\ page # <<>> => /\ page[Len(page)] \in Shown
                          /\ rank(page[Len(page)]) = l /\ ~(l <= f)
        /\ page = <<>> => l <= f
    BY <1>1, SortedPage
<1>8. by = "page" => /\ f = PagesBefore(reader.page)
                     /\ PagesBefore(reader.page)' = f + limit
                     /\ reader.page * limit = f + limit
  <2>1. ASSUME by = "page" PROVE f = PagesBefore(reader.page)
    BY <1>1, <2>1, SkippedByNumber
  <2>2. /\ PagesBefore(reader.page) + limit = reader.page * limit
        /\ reader.page \in Nat
    BY <1>1, ListNumbers
  <2>3. PagesBefore(reader.page)' = (reader'.page - 1) * limit'
    BY DEF PagesBefore
  <2>4. by = "page" => reader'.page - 1 = reader.page
    BY <1>4, <2>2
  <2>5. by = "page" => PagesBefore(reader.page)' = reader.page * limit
    BY <1>3, <2>3, <2>4
  <2>. QED BY <2>1, <2>2, <2>5
<1>9. by # "page" /\ reader'.done => l = Len(order)
    BY <1>1, <1>4, LastPageMeans
<1>10. by = "page" /\ following.way.ends # "page total" =>
        (reader'.done <=> f + limit >= Len(order))
    BY <1>1, <1>4, <1>8, LastPageMeans
<1> HIDE DEF page, f, l, cursor, rank
<1>11. ByNumberNotMissed'
  <2>0. SUFFICES
            ASSUME by = "page", following.way.ends # "page total", ~Unordered,
                   ~moved.removed, NEW x \in Shown \cap 1..OldRows,
                   reader'.done \/ rank(x) <= f + limit
            PROVE  x \in seen \cup Range(page)
    BY <1>3, <1>4, <1>5, <1>8 DEF ByNumberNotMissed, rank
  <2>1. rank(x) \in Nat /\ rank(x) <= Len(order)
    BY <1>7, <2>0
  <2>2. f + limit >= Len(order) \/ rank(x) <= f + limit
    BY <1>10, <2>0
  <2>3. rank(x) <= l
    BY <1>6, <2>1, <2>2
  <2>4. rank(x) <= f => x \in seen
    BY <1>4, <1>8, <2>0 DEF ListInv, ByNumberNotMissed, rank
  <2>5. ~(rank(x) <= f) => x \in Range(page)
    BY <1>7, <2>0, <2>3
  <2>. QED BY <2>4, <2>5
<1>12. ByCursorNotMissed'
  <2>0. SUFFICES
            ASSUME by \in {"after", "from", "key"}, ~Unordered,
                   by = "key" \/ ~moved'.lost, NEW x \in Shown \cap 1..OldRows,
                   reader'.done \/ (reader'.cursor # NoCursor /\ x >= reader'.cursor)
            PROVE  x \in seen \cup Range(page)
    BY <1>3, <1>4 DEF ByCursorNotMissed
  <2>1. /\ rank(x) \in Nat /\ rank(x) > 0 /\ rank(x) <= Len(order)
        /\ x \in Range(page) <=> ~(rank(x) <= f) /\ rank(x) <= l
    BY <1>7, <2>0
  <2>2. ASSUME cursor # NoCursor, x >= cursor PROVE x \in seen
    BY <1>5, <2>0, <2>2 DEF ListInv, ByCursorNotMissed, cursor
  <2>3. ASSUME rank(x) <= f PROVE x \in seen
    <3>1. cursor = NoCursor => f = 0
        BY <1>1, <2>0, SkippedByCursor DEF f, cursor
    <3>2. cursor # NoCursor
        BY <1>6, <2>1, <2>3, <3>1
    <3>3. by = "key" \/ cursor \in Shown
        BY <1>5, <2>0, <3>2
    <3>4. x >= cursor
        BY <1>1, <2>0, <2>3, <3>2, <3>3, SkippedByCursor DEF f, cursor, rank
    <3>. QED BY <2>2, <3>2, <3>4
  <2>4. CASE rank(x) <= l
    BY <2>1, <2>3, <2>4
  <2>5. CASE ~(rank(x) <= l)
    <3>1. ~reader'.done
        BY <1>9, <2>0, <2>1, <2>5
    <3>2. reader'.cursor # NoCursor /\ x >= reader'.cursor
        BY <2>0, <3>1
    <3>3. page = <<>>
      <4>1. ASSUME page # <<>> PROVE FALSE
        <5>1. /\ reader'.cursor = page[Len(page)] /\ page[Len(page)] \in Shown
              /\ rank(page[Len(page)]) = l
            BY <1>4, <1>7, <2>0, <4>1
        <5>2. x >= page[Len(page)] <=> rank(x) <= rank(page[Len(page)])
          <6>1. \A y \in Shown : y \in Int
            BY <1>1, ShownIsFinite
          <6>. QED BY <1>1, <5>1, <6>1, ShownIsFinite, RanksCompare DEF rank
        <5>. QED BY <2>5, <3>2, <5>1, <5>2
      <4>. QED BY <4>1
    <3>4. reader'.cursor = cursor
        BY <1>4, <3>3
    <3>. QED BY <2>2, <3>2, <3>4
  <2>. QED BY <2>4, <2>5
<1>13. ByNumberNotRepeated'
  <2>0. SUFFICES
            ASSUME by = "page", following.way.extra = 0, ~Unordered, ~moved.inserted
            PROVE  /\ again' = {}
                   /\ \A x \in (seen \cup Range(page)) \cap Shown : rank(x) <= f + limit
    BY <1>3, <1>4, <1>5, <1>8 DEF ByNumberNotRepeated, rank
  <2>1. again = {} /\ \A x \in seen \cap Shown : rank(x) <= f
    BY <1>8, <2>0 DEF ListInv, ByNumberNotRepeated, rank
  <2>2. \A x \in Range(page) : x \in Shown /\ ~(rank(x) <= f) /\ rank(x) <= l
    BY <1>7, <2>0
  <2>3. seen \cap Range(page) = {}
    BY <2>1, <2>2
  <2>4. \A x \in Shown : rank(x) \in Nat
    BY <1>7, <2>0
  <2>5. \A x \in (seen \cup Range(page)) \cap Shown : rank(x) <= f + limit
    BY <1>6, <2>0, <2>1, <2>2, <2>4
  <2>. QED BY <1>4, <2>1, <2>3, <2>5
<1>14. ByCursorNotRepeated'
  <2>0. SUFFICES
            ASSUME by \in {"after", "from", "key"}, ~Unordered
            PROVE  /\ again' = {}
                   /\ reader'.cursor = NoCursor => seen \cup Range(page) = {}
                   /\ \A x \in seen \cup Range(page) : x >= reader'.cursor
    BY <1>3, <1>4 DEF ByCursorNotRepeated
  <2>1. /\ again = {} /\ (cursor = NoCursor => seen = {})
        /\ \A x \in seen : x >= cursor
    BY <2>0 DEF ListInv, ByCursorNotRepeated, cursor
  <2>2. /\ \A x \in Range(page) : x \in Shown /\ ~(rank(x) <= f) /\ rank(x) <= l
        /\ \A x \in Shown : x \in Nat /\ x # NoCursor
    BY <1>1, <1>7, <2>0, ShownIsFinite, ListNumbers DEF NoCursor
  <2>3. \A x \in Range(page) : cursor # NoCursor =>
            cursor >= x /\ (x = cursor => by = "from")
    BY <1>1, <1>6, <1>7, <2>0, <2>2, SkippedByCursor DEF f, cursor, rank
  <2>4. seen \cap Range(page) \subseteq {cursor}
    BY <1>6, <2>1, <2>2, <2>3
  <2>5. again' = {}
    BY <1>4, <2>1, <2>4
  <2>6. CASE page = <<>>
    <3>1. l <= f /\ reader'.cursor = cursor
        BY <1>4, <1>7, <2>0, <2>6
    <3>2. \A x \in Shown : rank(x) \in Nat
        BY <1>7, <2>0
    <3>3. Range(page) = {}
        BY <1>6, <2>2, <3>1, <3>2
    <3>. QED BY <2>1, <2>5, <3>1, <3>3
  <2>7. CASE page # <<>>
    <3>1. PICK last \in Shown :
            reader'.cursor = last /\ rank(last) = l /\ ~(l <= f)
        BY <1>4, <1>7, <2>0, <2>7
    <3>2. \A x \in Shown : rank(x) \in Nat /\ (x >= last <=> rank(x) <= l)
      <4>1. \A y \in Shown : y \in Int
        BY <2>2
      <4>. QED BY <1>1, <1>7, <2>0, <3>1, <4>1, ShownIsFinite, RanksCompare DEF rank
    <3>3. \A x \in Range(page) : x >= last
        BY <2>2, <3>2
    <3>4. last \in Range(page)
        BY <1>6, <1>7, <2>0, <3>1
    <3>5. \A x \in seen : x >= last
      <4>1. cursor # NoCursor => cursor >= last
        BY <2>3, <3>4
      <4>2. \A x \in seen : x \in Nat
        BY <1>1, ListNumbers DEF ListTypes, ListingsTypeOK
      <4>3. cursor \in Nat /\ last \in Nat
        BY <1>6, <2>2
      <4>. QED BY <2>1, <4>1, <4>2, <4>3
    <3>. QED BY <2>2, <2>5, <3>1, <3>3, <3>5
  <2>. QED BY <2>5, <2>6, <2>7
<1>. QED BY <1>1, <1>11, <1>12, <1>13, <1>14 DEF ListInv

LEMMA ListInvIsKept == ListInv /\ [ListingsNext]_listVars => ListInv'
<1> SUFFICES ASSUME ListInv, [ListingsNext]_listVars PROVE ListInv'
    OBVIOUS
<1>1. CASE ReadPage
    BY <1>1, PagesKeep
<1>2. CASE \E owner \in {"client", "other"} : InsertRow(owner)
    BY <1>2, RowsComeKeep
<1>3. CASE \E r \in rows : RemoveRow(r)
    BY <1>3, RowsGoKeep
<1>4. CASE UNCHANGED listVars
  <2>1. /\ UNCHANGED <<following, limit, tied, rows, foreign, made, reader, seen,
                       again, moved>>
        /\ by' = by /\ Shown' = Shown /\ Unordered' = Unordered
        /\ PagesBefore(reader.page)' = PagesBefore(reader.page)
    BY <1>4 DEF listVars, by, Shown, Unordered, PagesBefore
  <2>2. ListTypes'
    BY <2>1 DEF ListInv, ListTypes, ListingsTypeOK
  <2>. QED
    BY <2>1, <2>2
       DEF ListInv, ByNumberNotMissed, ByCursorNotMissed, ByNumberNotRepeated,
           ByCursorNotRepeated
<1>. QED BY <1>1, <1>2, <1>3, <1>4 DEF ListingsNext

LEMMA ListInvHolds == ListingsSpec => []ListInv
<1>. QED BY ListInvHoldsFirst, ListInvIsKept, PTL DEF ListingsSpec

(* A client's place in a list, and what it has seen of it, keep their types
   however its rows change. *)
THEOREM ListingsTypeCorrect == ListingsSpec => []ListingsTypeOK
<1>1. ListInv => ListingsTypeOK
    BY DEF ListInv, ListTypes
<1>. QED BY <1>1, ListInvHolds, PTL

(* PagesHold: for lists of any length and pages of any size, each of the
   code's ways of paging loses and repeats no rows but those it must. *)
THEOREM PagesHeld == ListingsSpec => []PagesHold
<1>1. ListInv => PagesHold
  <2> SUFFICES ASSUME ListInv PROVE PagesHold
    OBVIOUS
  <2>1. by \in {"page", "after", "from", "key", "skip one"}
        /\ following.way.extra \in {0, 1}
    <3>1. following.way \in Way
        BY DEF ListInv, ListTypes, KnownList
    <3>2. by \in {"page", "after", "from", "key", "skip one"}
        BY <3>1 DEF Way, by
    <3>3. following.way.extra \in 0..1
        BY ListNumbers DEF ListInv
    <3>4. following.way.extra \in {0, 1}
        BY <3>3
    <3>. QED BY <3>2, <3>4
  <2>2. RowsAreNotMissed
    BY <2>1 DEF ListInv, ByNumberNotMissed, ByCursorNotMissed, RowsAreNotMissed
  <2>3. RowsAreNotRepeated
    BY <2>1 DEF ListInv, ByNumberNotRepeated, ByCursorNotRepeated,
                RowsAreNotRepeated
  <2>. QED BY <2>2, <2>3 DEF PagesHold
<1>. QED BY <1>1, ListInvHolds, PTL

-----------------------------------------------------------------------------
(* The platform: its parts put together. *)

(* A step of the platform is a step of every part or leaves it alone. *)
LEMMA PlatformSteps ==
    [PlatformNext]_allVars =>
        /\ [AccountsNext]_accountVars /\ [MediaNext]_mediaVars
        /\ [CatalogNext]_catalogVars /\ [SeatsNext]_seatVars
        /\ [PointsNext]_pointVars /\ [ReviewsNext]_reviewVars
        /\ [RoomsNext]_roomVars /\ [ListingsNext]_listVars
        /\ [OnboardingNext]_onboardingVars /\ [EndpointNext]_endpointVars
        /\ UNCHANGED part
  BY DEF PlatformNext, allVars, MarketVars, OuterVars

(* The platform is each of its parts: whatever is proved of a part's
   specification holds in every behaviour of the platform. *)
THEOREM PlatformIsItsParts ==
    PlatformSpec =>
        /\ AccountsSpec /\ MediaSpec /\ CatalogSpec /\ SeatsSpec /\ PointsSpec
        /\ ReviewsSpec /\ RoomsSpec /\ ListingsSpec /\ OnboardingSpec
        /\ EndpointSpec
<1>1. PlatformInit =>
        /\ AccountsInit /\ MediaInit /\ CatalogInit /\ SeatsInit /\ PointsInit
        /\ ReviewsInit /\ RoomsInit /\ ListingsInit /\ OnboardingInit
        /\ EndpointInit
    BY DEF PlatformInit
<1>. QED
    BY <1>1, PlatformSteps, PTL
       DEF PlatformSpec, AccountsSpec, MediaSpec, CatalogSpec, SeatsSpec,
           PointsSpec, ReviewsSpec, RoomsSpec, ListingsSpec, OnboardingSpec,
           EndpointSpec

(* PlatformTypeOK: the state of whichever part moves is well typed. *)
THEOREM PlatformTypes == PlatformSpec => []PlatformTypeOK
<1>1. PlatformSpec => [](part \in Parts)
  <2>1. PlatformInit => part \in Parts
    BY DEF PlatformInit
  <2>2. part \in Parts /\ [PlatformNext]_allVars => (part \in Parts)'
    BY PlatformSteps
  <2>. QED BY <2>1, <2>2, PTL DEF PlatformSpec
<1>2. /\ part \in Parts
      /\ AccountTypeOK /\ MediaTypeOK /\ CatalogTypeOK /\ SeatsTypeOK
      /\ PointsTypeOK /\ ReviewsTypeOK /\ RoomsTypeOK /\ ListingsTypeOK
      /\ OnboardingTypeOK /\ EndpointTypeOK
      => PlatformTypeOK
    BY DEF Parts, PlatformTypeOK
<1>. QED
    BY <1>1, <1>2, PlatformIsItsParts, AccountTypes, MediaTypeCorrect,
       CatalogTypeCorrect, SeatsTypeCorrect, PointsTypeCorrect,
       ReviewsTypeCorrect, RoomsTypeCorrect, ListingsTypeCorrect,
       OnboardingTypeCorrect, EndpointTypeCorrect, PTL
=============================================================================
