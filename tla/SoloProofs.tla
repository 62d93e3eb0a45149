------------------------------ MODULE SoloProofs ------------------------------
(***************************************************************************)
(* Proofs about Solo, for any map, prices, powers and shares of prizes:    *)
(* losses are shared out in proportion, and a state the game reaches needs *)
(* no repair, accounts for all money, and has an artifact for every        *)
(* captured tomb.                                                          *)
(***************************************************************************)
EXTENDS Solo, SumProofs, SequenceTheorems

-----------------------------------------------------------------------------
(* Shares of losses.                                                       *)

\* A strict order of all of S, as a set of pairs.
Orders(B, S) ==
  /\ \A x \in S : <<x, x>> \notin B
  /\ \A x, y, z \in S : <<x, y>> \in B /\ <<y, z>> \in B => <<x, z>> \in B
  /\ \A x, y \in S : x # y => <<x, y>> \in B \/ <<y, x>> \in B

Smaller(B, S, x) == {y \in S : <<y, x>> \in B}
FirstOf(B, S, n) == {x \in S : Cardinality(Smaller(B, S, x)) < n}

\* Of a finite ordered set, exactly n elements have fewer than n before them.
LEMMA FirstOfOrder ==
  ASSUME NEW S, IsFiniteSet(S), NEW B, Orders(B, S), NEW n \in 0..Cardinality(S)
  PROVE  IsFiniteSet(FirstOf(B, S, n)) /\ Cardinality(FirstOf(B, S, n)) = n
<1> DEFINE place == [x \in S |-> Cardinality(Smaller(B, S, x))]
           Places == 0..Cardinality(S) - 1
<1>1. Cardinality(S) \in Nat BY FS_CardinalityType
<1>2. \A x \in S : IsFiniteSet(Smaller(B, S, x)) /\ Cardinality(Smaller(B, S, x)) \in Places
  <2> SUFFICES ASSUME NEW x \in S
               PROVE  IsFiniteSet(Smaller(B, S, x)) /\ Cardinality(Smaller(B, S, x)) \in Places
    OBVIOUS
  <2>1. Smaller(B, S, x) \in SUBSET S /\ x \notin Smaller(B, S, x) BY DEF Smaller, Orders
  <2>2. Smaller(B, S, x) # S BY <2>1
  <2>3. IsFiniteSet(Smaller(B, S, x)) /\ Cardinality(Smaller(B, S, x)) <= Cardinality(S)
        /\ Cardinality(Smaller(B, S, x)) # Cardinality(S)
    BY <2>1, <2>2, FS_Subset
  <2>4. Cardinality(Smaller(B, S, x)) \in Nat BY <2>3, FS_CardinalityType
  <2> QED BY <1>1, <2>3, <2>4
<1>3. \A x, y \in S : <<x, y>> \in B => place[x] < place[y]
  <2> SUFFICES ASSUME NEW x \in S, NEW y \in S, <<x, y>> \in B PROVE place[x] < place[y] OBVIOUS
  <2>1. Smaller(B, S, x) \in SUBSET Smaller(B, S, y)
    BY DEF Smaller, Orders
  <2>2. x \in Smaller(B, S, y) /\ x \notin Smaller(B, S, x) BY DEF Smaller, Orders
  <2>3. Cardinality(Smaller(B, S, x)) <= Cardinality(Smaller(B, S, y))
        /\ Cardinality(Smaller(B, S, x)) # Cardinality(Smaller(B, S, y))
    BY <1>2, <2>1, <2>2, FS_Subset
  <2> QED BY <1>1, <1>2, <2>3
<1>4. place \in [S -> Places] BY <1>2
<1>5. \A x, y \in S : place[x] = place[y] => x = y
  <2> SUFFICES ASSUME NEW x \in S, NEW y \in S, x # y, place[x] = place[y] PROVE FALSE OBVIOUS
  <2>1. place[x] \in Int /\ place[y] \in Int BY <1>1, <1>2
  <2> HIDE DEF place
  <2>2. CASE <<x, y>> \in B BY <1>3, <2>1, <2>2
  <2>3. CASE <<y, x>> \in B BY <1>3, <2>1, <2>3
  <2> QED BY <2>2, <2>3 DEF Orders
<1>6. place \in Injection(S, Places) BY <1>4, <1>5 DEF Injection, IsInjective
<1>7. IsFiniteSet(Places) /\ Cardinality(Places) = Cardinality(S)
  <2>1. 0 \in Int /\ Cardinality(S) - 1 \in Int BY <1>1
  <2> QED BY <1>1, <2>1, FS_Interval
<1>8. place \in Surjection(S, Places)
  <2> HIDE DEF place, Places
  <2> QED BY <1>6, <1>7, FS_Injection
<1>9. FirstOf(B, S, n) = {x \in S : place[x] < n} BY DEF FirstOf
<1> DEFINE F == FirstOf(B, S, n)
           short == [x \in F |-> place[x]]
           Low == 0..n - 1
<1>10. \A i \in Low : \E x \in F : place[x] = i
  <2> SUFFICES ASSUME NEW i \in Low PROVE \E x \in F : place[x] = i OBVIOUS
  <2>1. i \in Places /\ i < n BY <1>1
  <2> HIDE DEF place, Places
  <2>2. PICK x \in S : place[x] = i BY <1>8, <2>1 DEF Surjection
  <2> QED BY <1>9, <2>1, <2>2
<1>11. \A x \in F : x \in S /\ place[x] \in Low
  BY <1>1, <1>2, <1>9
<1> HIDE DEF place, F, Low
<1>12. short \in [F -> Low] /\ \A x \in F : short[x] = place[x] BY <1>11
<1> HIDE DEF short
<1>13. short \in Injection(F, Low)
  <2>1. \A x, y \in F : short[x] = short[y] => x = y BY <1>5, <1>11, <1>12
  <2> QED BY <1>12, <2>1 DEF Injection, IsInjective
<1>14. short \in Surjection(F, Low)
  <2>1. \A i \in Low : \E x \in F : short[x] = i BY <1>10, <1>12
  <2> QED BY <1>12, <2>1 DEF Surjection
<1>15. IsFiniteSet(Low) /\ Cardinality(Low) = n
  BY FS_Interval DEF Low
<1>16. IsFiniteSet(F) /\ Cardinality(F) = n BY <1>13, <1>14, <1>15, FS_Injection
<1> QED BY <1>16 DEF F

\* An order in which every type of K has a place.
Lists(order, K) == \A k \in K : \E i \in DOMAIN order : order[i] = k /\ i \in Nat

LEMMA RankListed ==
  ASSUME NEW K, NEW order, Lists(order, K), DOMAIN order \subseteq Nat, NEW k \in K
  PROVE  Rank(k, order) \in DOMAIN order /\ Rank(k, order) \in Nat /\ order[Rank(k, order)] = k
<1>1. \E i \in DOMAIN order : order[i] = k BY DEF Lists
<1>2. Rank(k, order) \in DOMAIN order /\ order[Rank(k, order)] = k BY <1>1, Zenon DEF Rank
<1> QED BY <1>2

\* The numbers LossesByType divides, and whom it gives what is left over.
Down(u, total) == [k \in DOMAIN u |-> (u[k] * total) \div TotalUnits(u)]
Over(u, total) == [k \in DOMAIN u |-> (u[k] * total) % TotalUnits(u)]
Room(u, total) == {k \in DOMAIN u : Down(u, total)[k] < u[k]}
OverFirst(u, total, order) ==
  {p \in (DOMAIN u) \X (DOMAIN u) :
     \/ Over(u, total)[p[1]] > Over(u, total)[p[2]]
     \/ /\ Over(u, total)[p[1]] = Over(u, total)[p[2]]
        /\ Rank(p[1], order) < Rank(p[2], order)}
Rounded(u, total, order) ==
  FirstOf(OverFirst(u, total, order), Room(u, total), total - TotalUnits(Down(u, total)))

LEMMA LossesUnfolded ==
  ASSUME NEW u, NEW total, NEW order
  PROVE  LossesByType(u, total, order) =
           [k \in DOMAIN u |-> IF k \in Rounded(u, total, order)
                               THEN Down(u, total)[k] + 1 ELSE Down(u, total)[k]]
<1>1. \A k \in Room(u, total) :
        Smaller(OverFirst(u, total, order), Room(u, total), k) =
          {l \in Room(u, total) :
             \/ Over(u, total)[l] > Over(u, total)[k]
             \/ /\ Over(u, total)[l] = Over(u, total)[k]
                /\ Rank(l, order) < Rank(k, order)}
  BY DEF Smaller, OverFirst, Room
<1>2. Rounded(u, total, order) =
        {k \in Room(u, total) :
           Cardinality({l \in Room(u, total) :
             \/ Over(u, total)[l] > Over(u, total)[k]
             \/ /\ Over(u, total)[l] = Over(u, total)[k]
                /\ Rank(l, order) < Rank(k, order)}) < total - TotalUnits(Down(u, total))}
  BY <1>1, Zenon DEF Rounded, FirstOf
<1> QED BY <1>2, Zenon DEF LossesByType, Down, Over, Room

\* Division with remainder.
LEMMA Division ==
  ASSUME NEW n \in Nat, NEW d \in Nat \ {0}
  PROVE  n \div d \in Nat /\ n % d \in 0..d - 1 /\ n = d * (n \div d) + (n % d)
OBVIOUS

\* What LossesProportional says of one battle.
Fair(u, total, losses) ==
  /\ TotalUnits(losses) = total
  /\ \A k \in DOMAIN u : /\ losses[k] \in 0..u[k]
                         /\ losses[k] * TotalUnits(u) - u[k] * total
                              \in -(TotalUnits(u) - 1)..TotalUnits(u) - 1

\* The shares rounded down: what they leave over, and how much of it there is.
LEMMA SharesDown ==
  ASSUME NEW K, IsFiniteSet(K), NEW u \in [K -> Nat], NEW total \in 1..TotalUnits(u)
  PROVE  /\ TotalUnits(u) \in Nat \ {0}
         /\ \A k \in K :
              /\ Down(u, total)[k] \in 0..u[k] /\ Over(u, total)[k] \in 0..TotalUnits(u) - 1
              /\ u[k] * total = TotalUnits(u) * Down(u, total)[k] + Over(u, total)[k]
              /\ Over(u, total)[k] > 0 => Down(u, total)[k] < u[k]
         /\ TotalUnits(Down(u, total)) \in Nat
         /\ total - TotalUnits(Down(u, total))
              \in 0..Cardinality({k \in K : Over(u, total)[k] > 0})
<1> DEFINE free == TotalUnits(u)
           down == Down(u, total)
           over == Over(u, total)
           R == {k \in K : over[k] > 0}
<1>1. free = SumOver(u, K) BY DEF TotalUnits
<1>2. free \in Nat
  <2>1. \A k \in K : u[k] \in Nat OBVIOUS
  <2> QED BY <1>1, <2>1, SumNat
<1>3. free \in Nat \ {0} /\ total \in Nat \ {0} /\ total <= free
  BY <1>2
<1> HIDE DEF free
<1>4. down = [k \in K |-> (u[k] * total) \div free] /\ over = [k \in K |-> (u[k] * total) % free]
  BY DEF Down, Over, free
<1> HIDE DEF down, over
<1>5. ASSUME NEW k \in K
      PROVE  /\ down[k] \in 0..u[k] /\ over[k] \in 0..free - 1
             /\ u[k] * total = free * down[k] + over[k]
             /\ over[k] > 0 => down[k] < u[k]
  <2>1. u[k] \in Nat OBVIOUS
  <2>2. u[k] * total \in Nat BY <1>3, <2>1
  <2>3. /\ down[k] \in Nat /\ over[k] \in 0..free - 1
        /\ u[k] * total = free * down[k] + over[k]
    BY <1>3, <1>4, <2>2, Division
  <2>4. u[k] * total <= free * u[k]
    <3>1. \A a, b, c \in Nat : a <= b => c * a <= b * c OBVIOUS
    <3> QED BY <1>3, <2>1, <3>1
  <2>5. free * down[k] \in Int /\ free * u[k] \in Int BY <1>3, <2>1, <2>3
  <2>6. free * down[k] <= free * u[k] BY <1>3, <2>2, <2>3, <2>4, <2>5
  <2>7. down[k] <= u[k] BY <1>3, <2>1, <2>3, <2>6, Cancel
  <2>8. ASSUME over[k] > 0 PROVE down[k] # u[k]
    <3>1. SUFFICES ASSUME down[k] = u[k] PROVE FALSE OBVIOUS
    <3> QED BY <1>3, <2>2, <2>3, <2>4, <2>5, <2>8, <3>1
  <2> QED BY <2>1, <2>3, <2>7, <2>8
<1>6. TotalUnits(down) = SumOver(down, K) BY <1>4 DEF TotalUnits
<1>7. TotalUnits(down) \in Nat
  <2>1. \A k \in K : down[k] \in Nat BY <1>5
  <2> QED BY <1>6, <2>1, SumNat
<1>8. free * total = free * TotalUnits(down) + SumOver(over, K)
  <2> DEFINE whole == [k \in K |-> total * u[k]]
             part == [k \in K |-> free * down[k]]
  <2>1. \A k \in K : u[k] \in Int /\ whole[k] = total * u[k] OBVIOUS
  <2>2. \A k \in K : down[k] \in Int /\ part[k] = free * down[k] BY <1>5
  <2>3. \A k \in K : part[k] \in Int /\ over[k] \in Int /\ whole[k] = part[k] + over[k]
    BY <1>3, <1>5
  <2> HIDE DEF whole, part
  <2>4. total \in Int /\ free \in Int BY <1>3
  <2>5. SumOver(whole, K) = total * SumOver(u, K) BY <2>1, <2>4, SumScale
  <2>6. SumOver(part, K) = free * SumOver(down, K) BY <2>2, <2>4, SumScale
  <2>7. SumOver(whole, K) = SumOver(part, K) + SumOver(over, K) BY <2>3, SumPlus
  <2> QED BY <1>1, <1>3, <1>6, <2>5, <2>6, <2>7
<1>9. IsFiniteSet(R) /\ Cardinality(R) \in Nat /\ R \in SUBSET K
  BY FS_Subset, FS_CardinalityType
<1>10. SumOver(over, K) \in Nat /\ SumOver(over, K) <= (free - 1) * Cardinality(R)
  <2> DEFINE most == [k \in K |-> free - 1]
  <2>1. \A k \in K : over[k] \in Nat BY <1>3, <1>5
  <2>2. SumOver(over, K) \in Nat BY <2>1, SumNat
  <2>3. \A k \in K : over[k] \in Int BY <2>1
  <2>4. SumOver(over, K) = SumOver(over, R) + SumOver(over, K \ R)
    <3> HIDE DEF R
    <3> QED BY <1>9, <2>3, SumSplit
  <2>5. SumOver(over, K \ R) = 0
    <3>1. IsFiniteSet(K \ R) BY FS_Difference
    <3>2. \A k \in K \ R : over[k] = 0 BY <1>3, <1>5
    <3> HIDE DEF R
    <3> QED BY <3>1, <3>2, SumZero
  <2>6. \A k \in R : over[k] \in Int /\ most[k] \in Int /\ over[k] <= most[k] BY <1>3, <1>5
  <2>7. \A k \in R : most[k] = free - 1 BY <1>9
  <2>8. free - 1 \in Int BY <1>3
  <2> HIDE DEF most, R
  <2>9. SumOver(over, R) <= SumOver(most, R) BY <1>9, <2>6, SumMono
  <2>10. SumOver(most, R) = (free - 1) * Cardinality(R) BY <1>9, <2>7, <2>8, SumConst
  <2>11. \A k \in R : over[k] \in Int BY <2>6
  <2>12. SumOver(over, R) \in Int BY <1>9, <2>11, SumInt
  <2> QED BY <2>2, <2>4, <2>5, <2>9, <2>10, <2>12
<1>11. total - TotalUnits(down) \in 0..Cardinality(R)
  <2>1. \A f \in Nat \ {0} : \A t, d, o, r \in Nat :
          f * t = f * d + o /\ o <= (f - 1) * r => f * d <= f * t /\ f * t <= f * (d + r)
    <3> SUFFICES ASSUME NEW f \in Nat \ {0}, NEW t \in Nat, NEW d \in Nat, NEW o \in Nat, NEW r \in Nat,
                        f * t = f * d + o, o <= (f - 1) * r
                 PROVE  f * d <= f * t /\ f * t <= f * (d + r)
      OBVIOUS
    <3>1. (f - 1) * r <= f * r /\ f * (d + r) = f * d + f * r OBVIOUS
    <3> QED BY <3>1
  <2>2. free * TotalUnits(down) <= free * total
        /\ free * total <= free * (TotalUnits(down) + Cardinality(R))
    <3> HIDE DEF R
    <3> QED BY <1>3, <1>7, <1>8, <1>9, <1>10, <2>1
  <2>3. TotalUnits(down) <= total BY <1>3, <1>7, <2>2, Cancel
  <2>4. total <= TotalUnits(down) + Cardinality(R)
    <3>1. TotalUnits(down) + Cardinality(R) \in Int /\ total \in Int BY <1>3, <1>7, <1>9
    <3> HIDE DEF R
    <3> QED BY <1>3, <2>2, <3>1, Cancel
  <2> QED BY <1>3, <1>7, <1>9, <2>3, <2>4
<1> QED BY <1>3, <1>5, <1>7, <1>11 DEF free, down, over

\* What is left over is spread, one unit each, over types with a remainder.
LEMMA RoundedUp ==
  ASSUME NEW K, IsFiniteSet(K), NEW u \in [K -> Nat], NEW total \in 1..TotalUnits(u),
         NEW order, Lists(order, K), DOMAIN order \subseteq Nat
  PROVE  /\ Rounded(u, total, order) \in SUBSET {k \in K : Over(u, total)[k] > 0}
         /\ Cardinality(Rounded(u, total, order)) = total - TotalUnits(Down(u, total))
<1> DEFINE down == Down(u, total)
           over == Over(u, total)
           room == Room(u, total)
           R == {k \in K : over[k] > 0}
           left == total - TotalUnits(down)
           B == OverFirst(u, total, order)
<1>1. /\ \A k \in K : over[k] \in Nat /\ (over[k] > 0 => down[k] < u[k])
      /\ left \in 0..Cardinality(R)
  <2>1. /\ TotalUnits(u) \in Nat
        /\ \A k \in K : over[k] \in 0..TotalUnits(u) - 1 /\ (over[k] > 0 => down[k] < u[k])
        /\ left \in 0..Cardinality(R)
    BY SharesDown
  <2> HIDE DEF over, down, left, R
  <2> QED BY <2>1
<1>2. \A k \in K : Rank(k, order) \in Nat /\ order[Rank(k, order)] = k
  BY RankListed
<1>3. room \in SUBSET K /\ R \in SUBSET room
  BY <1>1 DEF Room
<1>4. IsFiniteSet(room) /\ IsFiniteSet(R) /\ Cardinality(R) <= Cardinality(room)
      /\ Cardinality(R) \in Nat /\ Cardinality(room) \in Nat
  <2> HIDE DEF room, R
  <2> QED BY <1>3, FS_Subset, FS_CardinalityType
<1>5. left \in 0..Cardinality(room) BY <1>1, <1>4
<1>6. \A k, l \in K : <<k, l>> \in B <=>
        \/ over[k] > over[l]
        \/ over[k] = over[l] /\ Rank(k, order) < Rank(l, order)
  BY DEF OverFirst
<1> HIDE DEF B, over, down
<1>7. Orders(B, room)
  <2> HIDE DEF room
  <2>1. \A k, l \in room : Rank(k, order) = Rank(l, order) => k = l BY <1>2, <1>3
  <2>2. \A k \in room : <<k, k>> \notin B BY <1>1, <1>2, <1>3, <1>6
  <2>3. ASSUME NEW x \in room, NEW y \in room, NEW z \in room, <<x, y>> \in B, <<y, z>> \in B
        PROVE  <<x, z>> \in B
    <3>1. /\ over[x] \in Nat /\ over[y] \in Nat /\ over[z] \in Nat
          /\ Rank(x, order) \in Nat /\ Rank(y, order) \in Nat /\ Rank(z, order) \in Nat
          /\ x \in K /\ y \in K /\ z \in K
      BY <1>1, <1>2, <1>3
    <3> QED BY <1>6, <2>3, <3>1
  <2>4. ASSUME NEW x \in room, NEW y \in room, x # y
        PROVE  <<x, y>> \in B \/ <<y, x>> \in B
    <3>1. /\ over[x] \in Nat /\ over[y] \in Nat /\ Rank(x, order) \in Nat /\ Rank(y, order) \in Nat
          /\ x \in K /\ y \in K /\ Rank(x, order) # Rank(y, order)
      BY <1>1, <1>2, <1>3, <2>1, <2>4
    <3> QED BY <1>6, <3>1
  <2> QED BY <2>2, <2>3, <2>4 DEF Orders
<1>8. Cardinality(FirstOf(B, room, left)) = left
  <2> HIDE DEF room, left
  <2> QED BY <1>4, <1>5, <1>7, FirstOfOrder
<1>9. FirstOf(B, room, left) \in SUBSET R
  <2> SUFFICES ASSUME NEW k \in FirstOf(B, room, left), over[k] = 0 PROVE FALSE
    BY <1>1, <1>3 DEF FirstOf
  <2>1. k \in room /\ Cardinality(Smaller(B, room, k)) < left BY DEF FirstOf
  <2>2. \A l \in R : l \in room /\ <<l, k>> \in B BY <1>1, <1>3, <1>6, <2>1
  <2>3. R \in SUBSET Smaller(B, room, k) BY <2>2 DEF Smaller
  <2>4. Smaller(B, room, k) \in SUBSET room BY DEF Smaller
  <2> HIDE DEF R, room
  <2>5. IsFiniteSet(Smaller(B, room, k)) BY <1>4, <2>4, FS_Subset
  <2>6. Cardinality(R) <= Cardinality(Smaller(B, room, k)) /\ Cardinality(Smaller(B, room, k)) \in Nat
    BY <2>3, <2>5, FS_Subset, FS_CardinalityType
  <2> QED BY <1>1, <1>4, <2>1, <2>6
<1>10. Rounded(u, total, order) = FirstOf(B, room, left) BY DEF Rounded, B, down
<1> QED BY <1>8, <1>9, <1>10 DEF over, down

\* The losses of a battle add up to their total, and no type loses more than it
\* has, nor one unit less or more than its share.
LEMMA LossesFair ==
  ASSUME NEW K, IsFiniteSet(K), NEW u \in [K -> Nat], NEW total \in 1..TotalUnits(u),
         NEW order, Lists(order, K), DOMAIN order \subseteq Nat
  PROVE  /\ LossesByType(u, total, order) \in [K -> Nat]
         /\ Fair(u, total, LossesByType(u, total, order))
<1> DEFINE free == TotalUnits(u)
           down == Down(u, total)
           over == Over(u, total)
           extra == Rounded(u, total, order)
           losses == LossesByType(u, total, order)
<1>1. free \in Nat \ {0} /\ TotalUnits(down) \in Nat
      /\ \A k \in K : /\ down[k] \in 0..u[k] /\ over[k] \in 0..free - 1
                      /\ u[k] * total = free * down[k] + over[k]
                      /\ over[k] > 0 => down[k] < u[k]
  BY SharesDown
<1>2. extra \in SUBSET {k \in K : over[k] > 0} /\ Cardinality(extra) = total - TotalUnits(down)
  BY RoundedUp
<1>3. losses = [k \in K |-> IF k \in extra THEN down[k] + 1 ELSE down[k]]
  BY LossesUnfolded
<1>4. TotalUnits(down) = SumOver(down, K) BY DEF TotalUnits, Down
<1> HIDE DEF free, down, over, extra, losses
<1>5. total \in Nat /\ \A k \in K : /\ u[k] \in Nat /\ down[k] \in Nat /\ over[k] \in Nat
                                    /\ down[k] <= u[k] /\ (over[k] > 0 => down[k] < u[k])
  <2>1. free \in Nat \ {0} /\ \A k \in K : u[k] \in Nat BY <1>1
  <2>2. total \in Nat BY <2>1 DEF free
  <2>3. \A k \in K : /\ down[k] \in 0..u[k] /\ over[k] \in 0..free - 1
                     /\ over[k] > 0 => down[k] < u[k]
    BY <1>1, Zenon
  <2> QED BY <2>1, <2>2, <2>3
<1>6. \A k \in K : losses[k] \in 0..u[k]
  <2> SUFFICES ASSUME NEW k \in K PROVE losses[k] \in 0..u[k] OBVIOUS
  <2>1. CASE k \in extra BY <1>2, <1>3, <1>5, <2>1
  <2>2. CASE k \notin extra BY <1>3, <1>5, <2>2
  <2> QED BY <2>1, <2>2
<1>7. losses \in [K -> Nat] BY <1>3, <1>5, <1>6
<1>8. TotalUnits(losses) = total
  <2> DEFINE one == [k \in K |-> IF k \in extra THEN 1 ELSE 0]
  <2>1. \A k \in K : down[k] \in Int /\ one[k] \in Int /\ losses[k] = down[k] + one[k]
    BY <1>3, <1>5
  <2>2. \A k \in extra : one[k] = 1 BY <1>2
  <2>3. \A k \in K \ extra : one[k] = 0 OBVIOUS
  <2>4. \A k \in K : one[k] \in Int BY <2>1
  <2> HIDE DEF one
  <2>5. SumOver(losses, K) = SumOver(down, K) + SumOver(one, K) BY <2>1, SumPlus
  <2>6. extra \in SUBSET K BY <1>2
  <2>7. SumOver(one, K) = SumOver(one, extra) + SumOver(one, K \ extra) BY <2>4, <2>6, SumSplit
  <2>8. SumOver(one, K \ extra) = 0
    <3>1. IsFiniteSet(K \ extra) BY FS_Difference
    <3> QED BY <2>3, <3>1, SumZero
  <2>9. IsFiniteSet(extra) BY <2>6, FS_Subset
  <2>10. SumOver(one, extra) = 1 * Cardinality(extra) BY <2>2, <2>9, SumConst
  <2>11. DOMAIN losses = K BY <1>7
  <2>12. TotalUnits(losses) = SumOver(losses, K) BY <2>11 DEF TotalUnits
  <2>13. total \in Int /\ Cardinality(extra) \in Nat BY <2>9, FS_CardinalityType
  <2> QED BY <1>1, <1>2, <1>4, <2>5, <2>7, <2>8, <2>10, <2>12, <2>13
<1>9. \A k \in K : losses[k] * free - u[k] * total \in -(free - 1)..free - 1
  <2>1. \A f \in Nat \ {0} : \A d, o, p \in Nat : p = f * d + o /\ o \in 0..f - 1 =>
          /\ d * f - p \in -(f - 1)..f - 1
          /\ o > 0 => (d + 1) * f - p \in -(f - 1)..f - 1
    <3> SUFFICES ASSUME NEW f \in Nat \ {0}, NEW d \in Nat, NEW o \in Nat, NEW p \in Nat,
                        p = f * d + o, o \in 0..f - 1
                 PROVE  /\ d * f - p \in -(f - 1)..f - 1
                        /\ o > 0 => (d + 1) * f - p \in -(f - 1)..f - 1
      OBVIOUS
    <3>1. d * f - p = -o /\ (d + 1) * f - p = f - o OBVIOUS
    <3> QED BY <3>1
  <2> SUFFICES ASSUME NEW k \in K PROVE losses[k] * free - u[k] * total \in -(free - 1)..free - 1
    OBVIOUS
  <2>2. down[k] \in Nat /\ over[k] \in Nat /\ over[k] \in 0..free - 1 /\ u[k] * total \in Nat
        /\ u[k] * total = free * down[k] + over[k]
    <3>1. over[k] \in 0..free - 1 /\ u[k] * total = free * down[k] + over[k] BY <1>1, Zenon
    <3>2. \A a, b \in Nat : a * b \in Nat OBVIOUS
    <3> QED BY <1>5, <3>1, <3>2
  <2>3. /\ down[k] * free - u[k] * total \in -(free - 1)..free - 1
        /\ over[k] > 0 => (down[k] + 1) * free - u[k] * total \in -(free - 1)..free - 1
    BY <1>1, <2>1, <2>2
  <2>4. CASE k \in extra BY <1>2, <1>3, <2>3, <2>4
  <2>5. CASE k \notin extra BY <1>3, <2>3, <2>5
  <2> QED BY <2>4, <2>5
<1> QED BY <1>6, <1>7, <1>8, <1>9 DEF Fair, free, losses

\* Types are finitely many, and both orders list them.
LEMMA TypesListed ==
  /\ IsFiniteSet(UnitTypes)
  /\ Lists(AllUnits, UnitTypes) /\ DOMAIN AllUnits \subseteq Nat
  /\ Lists(UnitOrder, UnitTypes) /\ DOMAIN UnitOrder \subseteq Nat
<1>1. /\ UnitOrder \in Seq(UnitTypes) /\ AllUnits \in Seq(UnitTypes)
      /\ UnitTypes \subseteq {AllUnits[i] : i \in DOMAIN AllUnits}
  BY OrderAssumption
<1>2. /\ DOMAIN UnitOrder = 1..Len(UnitOrder) /\ Len(UnitOrder) \in Nat
      /\ DOMAIN AllUnits = 1..Len(AllUnits) /\ Len(AllUnits) \in Nat
  BY <1>1
<1>3. \A k \in UnitTypes : \E i \in DOMAIN UnitOrder : UnitOrder[i] = k BY DEF UnitTypes
<1>4. UnitOrder \in Surjection(1..Len(UnitOrder), UnitTypes)
  BY <1>1, <1>2, <1>3 DEF Surjection
<1>5. IsFiniteSet(UnitTypes)
  <2>1. IsFiniteSet(1..Len(UnitOrder)) BY <1>2, FS_Interval
  <2> QED BY <1>4, <2>1, FS_Surjection
<1> QED BY <1>1, <1>2, <1>3, <1>5 DEF Lists

\* Losses in proportion to what there is of each type (computeLosses of
\* combat.ts): whatever the army, they add up and nobody falls twice.
THEOREM LossesAreFair == Spec => []LossesProportional
<1>1. LossesProportional
  <2> SUFFICES ASSUME NEW u \in [UnitTypes -> 0..MaxArmy], NEW total \in 1..TotalUnits(u)
               PROVE  LET free == TotalUnits(u)
                          losses == LossesByType(u, total, AllUnits)
                      IN /\ TotalUnits(losses) = total
                         /\ \A k \in UnitTypes :
                              /\ losses[k] \in 0..u[k]
                              /\ losses[k] * free - u[k] * total \in -(free - 1)..free - 1
    BY Zenon DEF LossesProportional
  <2>1. u \in [UnitTypes -> Nat] BY NumbersAssumption
  <2>2. Fair(u, total, LossesByType(u, total, AllUnits)) BY <2>1, LossesFair, TypesListed
  <2>3. DOMAIN u = UnitTypes OBVIOUS
  <2> QED BY <2>2, <2>3, Zenon DEF Fair
<1> QED BY <1>1, PTL

-----------------------------------------------------------------------------
(* What its states have in common.                                         *)

Fields == {"act", "named", "toman", "blocked", "iban", "tx", "inClan", "weight", "memberCoins", "control",
           "owned", "tombs", "migration", "pool", "treasure", "closed"}
ActorFields == {"units", "energy", "camp", "pos", "xp", "arts", "coins", "spent", "bought"}

\* The fields of the State object and of its actors.
Shaped(s) ==
  /\ s = [f \in Fields |-> s[f]]
  /\ s.act = [a \in Actors |-> s.act[a]]
  /\ \A a \in Actors : s.act[a] = [f \in ActorFields |-> s.act[a][f]]

ActorTyped(a) ==
  /\ a.units \in [UnitTypes -> Nat] /\ a.energy \in 0..EnergyMax
  /\ a.coins \in Nat /\ a.spent \in Nat /\ a.bought \in Nat /\ a.xp \in Nat

ActorsTyped ==
  /\ \A a \in Actors : ActorTyped(st.act[a])
  /\ st.act["player"].camp = Camp /\ st.act["player"].pos \in Tiles

Lands == [owner : Actors, guardian : UnitTypes \cup {None}, cost : Nat]
Graves == [at : Tiles, captured : BOOLEAN]
Caravans == [actor : Actors, kind : {"free", "single", "long"}, path : Seq(Tiles), step : Nat, prepaid : Nat]

WayTyped == st.migration # None =>
  /\ st.migration \in Caravans /\ st.migration.step \in 1..Len(st.migration.path)
  /\ st.migration.actor = "player" \/ st.inClan

LandTyped ==
  /\ st.owned \in [Tiles -> Lands \cup {None}]
  /\ st.tombs \in Seq(Graves) /\ Len(st.tombs) <= TombsTotal

\* Before there is a clan, nothing is of the clan.
Sided ==
  /\ st.inClan \in BOOLEAN /\ st.control \in Actors
  /\ ~st.inClan => /\ st.control = "player" /\ st.memberCoins = 0
                   /\ \A t \in Tiles : st.owned[t] # None => st.owned[t].owner = "player"

\* The guardians of an actor on land of o.
GuardsOn(o, id) == {t \in Tiles : o[t] # None /\ o[t].owner = id /\ o[t].guardian # None}

\* Units with an army and units left as guardians were all bought.
Manned == \A id \in Actors :
  TotalUnits(st.act[id].units) + Cardinality(GuardsOn(st.owned, id)) <= st.act[id].bought

Visible(tombs) == {i \in DOMAIN tombs : ~tombs[i].captured}
FewVisible == Cardinality(Visible(st.tombs)) <= Len(FirstTombs)

\* What prizes may have come to so far.
PrizeBound ==
  /\ st.treasure = None => paid = 0 /\ ~st.closed
  /\ ~st.closed => paid <= TreasureValue(st.pool, Share) + ParticipationValue(st.pool, Share)
  /\ paid <= st.pool + Share.floor

Balanced ==
  /\ st.toman \in Nat /\ st.blocked = 0 /\ st.tx \in Int /\ st.pool \in Nat
  /\ st.weight \in Nat /\ st.memberCoins \in Nat /\ st.closed \in BOOLEAN
  /\ st.treasure \in Actors \cup {None} /\ st.iban \in BOOLEAN
  /\ kept \in Nat /\ paid \in Nat
  /\ st.toman = kept + st.tx
  /\ (st.act["player"].coins + st.act["player"].spent - StartCoins) * CoinToman = st.pool
  /\ st.act["clan"].coins + st.act["clan"].spent <= st.memberCoins
  /\ st.memberCoins <= st.weight
  /\ PrizeBound

SoloInv ==
  Shaped(st) /\ ActorsTyped /\ WayTyped /\ LandTyped /\ Sided /\ Manned /\ FewVisible /\ ArtifactsOfTombs /\ Balanced

\* What a prize may be, and that all of them fit into the pool.
LEMMA ValuesTyped ==
  ASSUME NEW n \in Nat
  PROVE  /\ ArtifactValue(n, Share) \in Nat /\ 100 * ArtifactValue(n, Share) <= n * Share.artifact
         /\ ParticipationValue(n, Share) \in Nat
         /\ 100 * ParticipationValue(n, Share) <= n * Share.participation
         /\ TreasureValue(n, Share) \in Nat
         /\ 100 * (TreasureValue(n, Share) - Share.floor) <= n * Share.treasure
<1>1. /\ Share.artifact \in Nat /\ Share.treasure \in Nat
      /\ Share.participation \in Nat /\ Share.floor \in Nat
  BY NumbersAssumption, SoloAssumption
<1>2. ArtifactValue(n, Share) \in Nat /\ 100 * ArtifactValue(n, Share) <= n * Share.artifact
  BY <1>1, ShareTyped DEF ArtifactValue
<1>3. /\ ParticipationValue(n, Share) \in Nat
      /\ 100 * ParticipationValue(n, Share) <= n * Share.participation
  BY <1>1, ShareTyped DEF ParticipationValue
<1>4. /\ TreasureValue(n, Share) \in Nat
      /\ 100 * (TreasureValue(n, Share) - Share.floor) <= n * Share.treasure
  <2> DEFINE m == (n * Share.treasure) \div 100
  <2>1. m \in Nat /\ 100 * m <= n * Share.treasure /\ n * Share.treasure \in Nat
    BY <1>1, ShareTyped
  <2>2. TreasureValue(n, Share) = IF m < Share.floor THEN Share.floor ELSE m
    BY DEF TreasureValue, AtLeast
  <2> HIDE DEF m
  <2> QED BY <1>1, <2>1, <2>2
<1> QED BY <1>2, <1>3, <1>4

LEMMA AllWithinPool ==
  ASSUME NEW n \in Nat, NEW k \in 0..TombsTotal
  PROVE  TreasureValue(n, Share) + ParticipationValue(n, Share) + ArtifactValue(n, Share) * k
           <= n + Share.floor
<1>1. /\ Share.artifact \in Nat /\ Share.participation \in Nat /\ Share.treasure \in Nat
      /\ Share.floor \in Nat /\ TombsTotal \in Nat
      /\ Share.treasure + TombsTotal * Share.artifact + Share.participation <= 100
  BY NumbersAssumption, SoloAssumption
<1> QED BY <1>1, ValuesTyped, SharesWithin

LEMMA PrizesGrow ==
  ASSUME NEW m \in Nat, NEW n \in Nat, m <= n
  PROVE  /\ TreasureValue(m, Share) <= TreasureValue(n, Share)
         /\ ParticipationValue(m, Share) <= ParticipationValue(n, Share)
<1>1. Share.treasure \in Nat /\ Share.participation \in Nat /\ Share.floor \in Nat
  BY NumbersAssumption, SoloAssumption
<1>2. ParticipationValue(m, Share) <= ParticipationValue(n, Share)
  BY <1>1, ShareGrows DEF ParticipationValue
<1>3. (m * Share.treasure) \div 100 <= (n * Share.treasure) \div 100
      /\ (m * Share.treasure) \div 100 \in Int /\ (n * Share.treasure) \div 100 \in Int
  BY <1>1, ShareGrows, ShareTyped
<1>4. TreasureValue(m, Share) <= TreasureValue(n, Share)
  BY <1>1, <1>3 DEF TreasureValue, AtLeast
<1> QED BY <1>2, <1>4


\* Armies and guardians are countable.
LEMMA UnitsTyped == ASSUME NEW u \in [UnitTypes -> Nat] PROVE TotalUnits(u) \in Nat
<1>1. \A k \in UnitTypes : u[k] \in Nat OBVIOUS
<1>2. SumOver(u, UnitTypes) \in Nat BY <1>1, TypesListed, SumNat
<1> QED BY <1>2 DEF TotalUnits

\* n units of type k more.
Shifts(u, w, k, n) ==
  w \in [UnitTypes -> Int] /\ w[k] = u[k] + n /\ \A l \in UnitTypes \ {k} : w[l] = u[l]

LEMMA UnitsChanged ==
  ASSUME NEW u \in [UnitTypes -> Nat], NEW k \in UnitTypes, NEW n \in Int, NEW w, Shifts(u, w, k, n)
  PROVE  TotalUnits(w) = TotalUnits(u) + n
<1>1. \A l \in UnitTypes : u[l] \in Int /\ w[l] \in Int BY DEF Shifts
<1>2. DifferAt(k, UnitTypes, u, w) BY <1>1 DEF DifferAt, Shifts
<1>3. SumOver(w, UnitTypes) = SumOver(u, UnitTypes) + w[k] - u[k]
  <2>1. IsFiniteSet(UnitTypes) BY TypesListed
  <2> QED BY <1>2, <2>1, SumUpdate
<1>4. w[k] = u[k] + n /\ u[k] \in Int BY DEF Shifts
<1>5. SumOver(u, UnitTypes) \in Int BY <1>1, TypesListed, SumInt
<1>6. SumOver(w, UnitTypes) = SumOver(u, UnitTypes) + n BY <1>3, <1>4, <1>5
<1>7. DOMAIN w = UnitTypes BY DEF Shifts
<1> QED BY <1>6, <1>7 DEF TotalUnits

LEMMA GuardsFinite ==
  ASSUME NEW o, NEW id
  PROVE  IsFiniteSet(GuardsOn(o, id)) /\ Cardinality(GuardsOn(o, id)) \in Nat
<1>1. GuardsOn(o, id) \in SUBSET Tiles BY DEF GuardsOn
<1> QED BY <1>1, SoloAssumption, FS_Subset, FS_CardinalityType

\* Whatever leaves land, tombs, artifacts and armies alone keeps what is said
\* about them.
SameLand ==
  /\ st'.owned = st.owned /\ st'.tombs = st.tombs
  /\ \A id \in Actors : /\ st'.act[id].units = st.act[id].units
                        /\ st'.act[id].arts = st.act[id].arts
                        /\ st'.act[id].bought = st.act[id].bought

LEMMA LandKept ==
  ASSUME SoloInv, SameLand
  PROVE  LandTyped' /\ Manned' /\ FewVisible' /\ ArtifactsOfTombs'
<1>1. LandTyped /\ Manned /\ FewVisible /\ ArtifactsOfTombs BY DEF SoloInv
<1>2. LandTyped' BY <1>1 DEF LandTyped, SameLand
<1>3. Manned' BY <1>1 DEF Manned, SameLand
<1>4. FewVisible' BY <1>1 DEF FewVisible, SameLand
<1>5. ArtifactsOfTombs'
  <2>1. st'.act["player"].arts = st.act["player"].arts /\ st'.act["clan"].arts = st.act["clan"].arts
    BY DEF SameLand, Actors
  <2> QED BY <1>1, <2>1 DEF ArtifactsOfTombs, SameLand, Of
<1> QED BY <1>2, <1>3, <1>4, <1>5

\* Whatever leaves all money alone keeps the accounts.
SameMoney ==
  /\ \A f \in {"toman", "blocked", "tx", "pool", "weight", "memberCoins", "closed", "treasure", "iban"} :
       st'[f] = st[f]
  /\ \A id \in Actors : st'.act[id].coins = st.act[id].coins /\ st'.act[id].spent = st.act[id].spent
  /\ kept' = kept /\ paid' = paid

LEMMA MoneyKept == ASSUME SoloInv, SameMoney PROVE Balanced'
<1>1. Balanced BY DEF SoloInv
<1>2. /\ st'.toman = st.toman /\ st'.blocked = st.blocked /\ st'.tx = st.tx /\ st'.pool = st.pool
      /\ st'.weight = st.weight /\ st'.memberCoins = st.memberCoins /\ st'.closed = st.closed
      /\ st'.treasure = st.treasure /\ st'.iban = st.iban
      /\ st'.act["player"].coins = st.act["player"].coins /\ st'.act["player"].spent = st.act["player"].spent
      /\ st'.act["clan"].coins = st.act["clan"].coins /\ st'.act["clan"].spent = st.act["clan"].spent
      /\ kept' = kept /\ paid' = paid
  BY DEF SameMoney, Actors
<1> QED BY <1>1, <1>2 DEF Balanced, PrizeBound

\* The same of the caravan and of who there is.
SameSides == \A f \in {"migration", "inClan", "control", "memberCoins", "owned"} : st'[f] = st[f]

LEMMA SidesKept == ASSUME SoloInv, SameSides PROVE WayTyped' /\ Sided'
<1>1. WayTyped /\ Sided BY DEF SoloInv
<1>2. /\ st'.migration = st.migration /\ st'.inClan = st.inClan /\ st'.control = st.control
      /\ st'.memberCoins = st.memberCoins /\ st'.owned = st.owned
  BY DEF SameSides
<1> QED BY <1>1, <1>2 DEF WayTyped, Sided

SameActors == st'.act = st.act

LEMMA ActorsKept == ASSUME SoloInv, SameActors PROVE ActorsTyped'
BY DEF SoloInv, SameActors, ActorsTyped

-----------------------------------------------------------------------------
(* Money.                                                                  *)

LEMMA RegisterNameKeeps == ASSUME SoloInv, RegisterName PROVE SoloInv'
<1>1. Shaped(st) BY DEF SoloInv
<1>2. Shaped(st') /\ st'.act = st.act /\ \A f \in Fields \ {"named"} : st'[f] = st[f]
  BY <1>1 DEF RegisterName, Shaped, Fields
<1>3. SameActors /\ SameLand BY <1>2 DEF SameActors, SameLand, Fields
<1>4. SameMoney BY <1>2 DEF SameMoney, Fields, RegisterName
<1>5. SameSides BY <1>2 DEF SameSides, Fields
<1> QED BY <1>2, <1>3, <1>4, <1>5, LandKept, MoneyKept, SidesKept, ActorsKept DEF SoloInv

LEMMA DepositKeeps == ASSUME SoloInv, Deposit PROVE SoloInv'
<1>1. Shaped(st) /\ Balanced BY DEF SoloInv
<1>2. PICK n \in Amounts : st' = [st EXCEPT !.toman = @ + n, !.tx = @ + n] /\ UNCHANGED <<kept, paid>>
  BY DEF Deposit
<1>3. /\ Shaped(st') /\ st'.toman = st.toman + n /\ st'.tx = st.tx + n
      /\ \A f \in Fields \ {"toman", "tx"} : st'[f] = st[f]
  BY <1>1, <1>2 DEF Shaped, Fields
<1>4. SameActors /\ SameLand BY <1>3 DEF SameActors, SameLand, Fields
<1>5. SameSides BY <1>3 DEF SameSides, Fields
<1>6. Balanced'
  <2>1. n \in Nat BY NumbersAssumption
  <2>2. \A f \in {"blocked", "pool", "weight", "memberCoins", "closed", "treasure", "iban", "act"} : st'[f] = st[f]
    BY <1>3 DEF Fields
  <2> QED BY <1>1, <1>2, <1>3, <2>1, <2>2 DEF Balanced, PrizeBound
<1> QED BY <1>3, <1>4, <1>5, <1>6, LandKept, SidesKept, ActorsKept DEF SoloInv

LEMMA BuyCoinsKeeps == ASSUME SoloInv, BuyCoins PROVE SoloInv'
<1>1. Shaped(st) /\ Balanced /\ ActorsTyped BY DEF SoloInv
<1>2. PICK n \in Batches :
        /\ ~st.closed /\ n * CoinToman <= st.toman - st.blocked
        /\ st' = [st EXCEPT !.toman = @ - n * CoinToman, !.tx = @ - n * CoinToman,
                            !.act["player"].coins = @ + n, !.pool = @ + n * CoinToman]
        /\ UNCHANGED <<kept, paid>>
  BY DEF BuyCoins
<1>3. n \in Nat /\ CoinToman \in Nat /\ StartCoins \in Nat BY NumbersAssumption
<1> DEFINE c == n * CoinToman
<1>4. c \in Nat BY <1>3
<1>5. c <= st.toman - st.blocked BY <1>2
<1> HIDE DEF c
<1>6. /\ Shaped(st')
      /\ st'.toman = st.toman - c /\ st'.tx = st.tx - c /\ st'.pool = st.pool + c
      /\ \A f \in Fields \ {"toman", "tx", "pool", "act"} : st'[f] = st[f]
      /\ st'.act["player"].coins = st.act["player"].coins + n
      /\ \A f \in ActorFields \ {"coins"} : st'.act["player"][f] = st.act["player"][f]
      /\ st'.act["clan"] = st.act["clan"]
  BY <1>1, <1>2 DEF Shaped, Fields, ActorFields, Actors, c
<1>7. SameLand BY <1>6 DEF SameLand, Fields, ActorFields, Actors
<1>8. SameSides BY <1>6 DEF SameSides, Fields
<1>9. ActorsTyped' BY <1>1, <1>3, <1>6 DEF ActorsTyped, ActorTyped, ActorFields, Actors
<1>10. Balanced'
  <2>1. /\ st'.blocked = st.blocked /\ st'.weight = st.weight /\ st'.memberCoins = st.memberCoins
        /\ st'.closed = st.closed /\ st'.treasure = st.treasure /\ st'.iban = st.iban
        /\ st'.act["player"].spent = st.act["player"].spent
    BY <1>6 DEF Fields, ActorFields
  <2>2. (st'.act["player"].coins + st'.act["player"].spent - StartCoins) * CoinToman = st'.pool
    <3>1. /\ st.act["player"].coins \in Nat /\ st.act["player"].spent \in Nat
          /\ (st.act["player"].coins + st.act["player"].spent - StartCoins) * CoinToman = st.pool
      BY <1>1 DEF ActorsTyped, ActorTyped, Balanced, Actors
    <3>2. \A x, y, z, w \in Int : (x + z + y - w) * CoinToman = (x + y - w) * CoinToman + z * CoinToman
      BY <1>3
    <3> QED BY <1>3, <1>6, <2>1, <3>1, <3>2 DEF c
  <2>3. PrizeBound'
    <3>1. /\ TreasureValue(st.pool, Share) <= TreasureValue(st'.pool, Share)
          /\ ParticipationValue(st.pool, Share) <= ParticipationValue(st'.pool, Share)
      <4>1. st.pool \in Nat /\ st'.pool \in Nat /\ st.pool <= st'.pool
        BY <1>1, <1>4, <1>6 DEF Balanced
      <4> QED BY <4>1, PrizesGrow
    <3>2. /\ st.pool \in Nat /\ st'.pool \in Nat /\ st.pool <= st'.pool /\ Share.floor \in Nat /\ paid \in Nat
      BY <1>1, <1>4, <1>6, NumbersAssumption DEF Balanced
    <3>3. /\ TreasureValue(st.pool, Share) \in Nat /\ TreasureValue(st'.pool, Share) \in Nat
          /\ ParticipationValue(st.pool, Share) \in Nat /\ ParticipationValue(st'.pool, Share) \in Nat
      BY <3>2, ValuesTyped
    <3> QED BY <1>1, <1>2, <2>1, <3>1, <3>2, <3>3 DEF Balanced, PrizeBound
  <2>4. st.toman \in Nat /\ st.blocked = 0 /\ st.tx \in Int /\ st.pool \in Nat BY <1>1 DEF Balanced
  <2>5. st'.toman \in Nat /\ st'.tx \in Int /\ st'.pool \in Nat /\ st'.toman = kept' + st'.tx
    BY <1>1, <1>2, <1>4, <1>5, <1>6, <2>4 DEF Balanced
  <2> QED BY <1>1, <1>2, <1>6, <2>1, <2>2, <2>3, <2>5 DEF Balanced
<1> QED BY <1>6, <1>7, <1>8, <1>9, <1>10, LandKept, SidesKept DEF SoloInv

LEMMA SetIbanKeeps == ASSUME SoloInv, SetIban PROVE SoloInv'
<1>1. Shaped(st) /\ Balanced BY DEF SoloInv
<1>2. /\ Shaped(st') /\ st'.iban = TRUE /\ UNCHANGED <<kept, paid>>
      /\ \A f \in Fields \ {"iban"} : st'[f] = st[f]
  BY <1>1 DEF SetIban, Shaped, Fields
<1>3. SameActors /\ SameLand BY <1>2 DEF SameActors, SameLand, Fields
<1>4. SameSides BY <1>2 DEF SameSides, Fields
<1>5. Balanced'
  <2>1. \A f \in {"toman", "tx", "blocked", "pool", "weight", "memberCoins", "closed", "treasure", "act"} :
          st'[f] = st[f]
    BY <1>2 DEF Fields
  <2> QED BY <1>1, <1>2, <2>1 DEF Balanced, PrizeBound
<1> QED BY <1>2, <1>3, <1>4, <1>5, LandKept, SidesKept, ActorsKept DEF SoloInv

LEMMA WithdrawKeeps == ASSUME SoloInv, Withdraw PROVE SoloInv'
<1>1. Shaped(st) /\ Balanced BY DEF SoloInv
<1>2. PICK n \in Amounts :
        /\ n <= st.toman - st.blocked
        /\ st' = [st EXCEPT !.toman = @ - n, !.tx = @ - n] /\ UNCHANGED <<kept, paid>>
  BY DEF Withdraw
<1>3. /\ Shaped(st') /\ st'.toman = st.toman - n /\ st'.tx = st.tx - n
      /\ \A f \in Fields \ {"toman", "tx"} : st'[f] = st[f]
  BY <1>1, <1>2 DEF Shaped, Fields
<1>4. SameActors /\ SameLand BY <1>3 DEF SameActors, SameLand, Fields
<1>5. SameSides BY <1>3 DEF SameSides, Fields
<1>6. Balanced'
  <2>1. n \in Nat BY NumbersAssumption
  <2>2. \A f \in {"blocked", "pool", "weight", "memberCoins", "closed", "treasure", "iban", "act"} : st'[f] = st[f]
    BY <1>3 DEF Fields
  <2> QED BY <1>1, <1>2, <1>3, <2>1, <2>2 DEF Balanced, PrizeBound
<1> QED BY <1>3, <1>4, <1>5, <1>6, LandKept, SidesKept, ActorsKept DEF SoloInv

-----------------------------------------------------------------------------
(* Units, energy, and the clan's side of things.                           *)

\* Whatever moves coins about: the player's account adds up as before, and the
\* clan's is within what its member gave.
Settled ==
  /\ \A f \in {"toman", "blocked", "tx", "pool", "closed", "treasure", "iban"} : st'[f] = st[f]
  /\ kept' = kept /\ paid' = paid
  /\ \A id \in Actors : st'.act[id].coins \in Int /\ st'.act[id].spent \in Int
  /\ st'.act["player"].coins + st'.act["player"].spent = st.act["player"].coins + st.act["player"].spent
  /\ st'.memberCoins \in Nat /\ st'.weight \in Nat /\ st'.memberCoins <= st'.weight
  /\ st'.act["clan"].coins + st'.act["clan"].spent <= st'.memberCoins

LEMMA SettledKeeps == ASSUME SoloInv, Settled PROVE Balanced'
<1>1. Balanced /\ ActorsTyped BY DEF SoloInv
<1>2. /\ st'.toman = st.toman /\ st'.blocked = st.blocked /\ st'.tx = st.tx /\ st'.pool = st.pool
      /\ st'.closed = st.closed /\ st'.treasure = st.treasure /\ st'.iban = st.iban
      /\ kept' = kept /\ paid' = paid
  BY DEF Settled
<1>3. (st'.act["player"].coins + st'.act["player"].spent - StartCoins) * CoinToman = st'.pool
  <2> DEFINE a == st.act["player"].coins
             b == st.act["player"].spent
             c == st'.act["player"].coins
             d == st'.act["player"].spent
  <2>1. a \in Int /\ b \in Int /\ c \in Int /\ d \in Int /\ StartCoins \in Int
    BY <1>1, NumbersAssumption DEF Settled, ActorsTyped, ActorTyped, Actors
  <2>2. c + d = a + b BY DEF Settled
  <2>3. (a + b - StartCoins) * CoinToman = st.pool BY <1>1 DEF Balanced
  <2> HIDE DEF a, b, c, d
  <2>4. c + d - StartCoins = a + b - StartCoins BY <2>1, <2>2
  <2>5. (c + d - StartCoins) * CoinToman = st'.pool BY <1>2, <2>3, <2>4
  <2> QED BY <2>5 DEF c, d
<1>4. PrizeBound' BY <1>1, <1>2 DEF Balanced, PrizeBound
<1> QED BY <1>1, <1>2, <1>3, <1>4 DEF Balanced, Settled

\* Coins one actor spends.
Spent(id, n) ==
  /\ st'.act[id].coins = st.act[id].coins - n /\ st'.act[id].spent = st.act[id].spent + n
  /\ \A a \in Actors \ {id} : st'.act[a].coins = st.act[a].coins /\ st'.act[a].spent = st.act[a].spent
  /\ \A f \in {"toman", "blocked", "tx", "pool", "weight", "memberCoins", "closed", "treasure", "iban"} :
       st'[f] = st[f]
  /\ kept' = kept /\ paid' = paid

LEMMA SpendingKeeps ==
  ASSUME SoloInv, NEW id \in Actors, NEW n \in Nat, Spent(id, n)
  PROVE  Balanced'
<1>1. Balanced /\ ActorsTyped BY DEF SoloInv
<1>2. \A a \in Actors :
        /\ st'.act[a].coins \in Int /\ st'.act[a].spent \in Int
        /\ st'.act[a].coins + st'.act[a].spent = st.act[a].coins + st.act[a].spent
  BY <1>1 DEF Spent, ActorsTyped, ActorTyped
<1>3. st'.weight = st.weight /\ st'.memberCoins = st.memberCoins BY DEF Spent
<1>4. /\ st'.act["player"].coins + st'.act["player"].spent = st.act["player"].coins + st.act["player"].spent
      /\ st'.act["clan"].coins + st'.act["clan"].spent = st.act["clan"].coins + st.act["clan"].spent
  BY <1>2 DEF Actors
<1>5. /\ st'.memberCoins \in Nat /\ st'.weight \in Nat /\ st'.memberCoins <= st'.weight
      /\ st'.act["clan"].coins + st'.act["clan"].spent <= st'.memberCoins
  BY <1>1, <1>3, <1>4 DEF Balanced
<1>6. \A f \in {"toman", "blocked", "tx", "pool", "closed", "treasure", "iban"} : st'[f] = st[f]
  BY DEF Spent
<1>7. Settled BY <1>2, <1>4, <1>5, <1>6 DEF Settled, Spent
<1> QED BY <1>7, SettledKeeps

LEMMA BuyUnitsKeeps == ASSUME SoloInv, NEW id \in Actors, BuyUnits(id) PROVE SoloInv'
<1>1. Shaped(st) /\ ActorsTyped /\ LandTyped /\ Manned /\ FewVisible /\ ArtifactsOfTombs BY DEF SoloInv
<1>2. PICK k \in UnitTypes, n \in Batches :
        /\ n * Price[k] <= Of(id).coins
        /\ st' = [st EXCEPT !.act[id] = [Paid(Of(id), n * Price[k]) EXCEPT !.units[k] = @ + n, !.bought = @ + n]]
        /\ UNCHANGED <<kept, paid>>
  BY DEF BuyUnits
<1>3. n \in Nat /\ Price[k] \in Nat BY NumbersAssumption
<1> DEFINE c == n * Price[k]
<1>4. c \in Nat BY <1>3
<1>5. c <= st.act[id].coins BY <1>2 DEF Of
<1> HIDE DEF c
<1>6a. Shaped(st')
  BY <1>1, <1>2, ZenonT(30) DEF Shaped, Fields, ActorFields, Paid, Of, c
<1>6. /\ \A f \in Fields \ {"act"} : st'[f] = st[f]
      /\ st'.act[id].units = [st.act[id].units EXCEPT ![k] = @ + n]
      /\ st'.act[id].bought = st.act[id].bought + n
      /\ st'.act[id].coins = st.act[id].coins - c
      /\ st'.act[id].spent = st.act[id].spent + c
      /\ \A f \in ActorFields \ {"coins", "spent", "units", "bought"} : st'.act[id][f] = st.act[id][f]
      /\ \A a \in Actors : a # id => st'.act[a] = st.act[a]
  <2>1. DOMAIN st = Fields /\ DOMAIN st.act = Actors /\ DOMAIN st.act[id] = ActorFields
    BY <1>1 DEF Shaped
  <2> QED BY <1>2, <2>1 DEF Fields, ActorFields, Paid, Of, c
<1>7. Spent(id, c) BY <1>2, <1>6 DEF Spent, Fields
<1>8. SameSides BY <1>6 DEF SameSides, Fields
<1>9. ActorTyped(st.act[id]) /\ \A a \in Actors : ActorTyped(st.act[a]) BY <1>1 DEF ActorsTyped
<1>10. ActorTyped(st'.act[id])
  <2>1. st'.act[id].units \in [UnitTypes -> Nat] BY <1>3, <1>6, <1>9 DEF ActorTyped
  <2>2. st'.act[id].energy = st.act[id].energy /\ st'.act[id].xp = st.act[id].xp BY <1>6 DEF ActorFields
  <2> QED BY <1>3, <1>4, <1>5, <1>6, <1>9, <2>1, <2>2 DEF ActorTyped
<1>11. ActorsTyped'
  <2>1. \A a \in Actors : ActorTyped(st'.act[a]) BY <1>6, <1>9, <1>10
  <2>2. st'.act["player"].camp = st.act["player"].camp /\ st'.act["player"].pos = st.act["player"].pos
    BY <1>6 DEF ActorFields, Actors
  <2> QED BY <1>1, <2>1, <2>2 DEF ActorsTyped
<1>12. st'.owned = st.owned /\ st'.tombs = st.tombs BY <1>6 DEF Fields
<1>13. TotalUnits(st'.act[id].units) = TotalUnits(st.act[id].units) + n
  <2>1. st.act[id].units \in [UnitTypes -> Nat] /\ n \in Int BY <1>3, <1>9 DEF ActorTyped
  <2>2. Shifts(st.act[id].units, st'.act[id].units, k, n) BY <1>3, <1>6, <2>1 DEF Shifts
  <2> QED BY <2>1, <2>2, UnitsChanged
<1>14. Manned' BY <1>1, <1>3, <1>6, <1>9, <1>12, <1>13, UnitsTyped, GuardsFinite DEF Manned, ActorTyped
<1>15. LandTyped' /\ FewVisible' BY <1>1, <1>12 DEF LandTyped, FewVisible
<1>16. ArtifactsOfTombs'
  <2>1. st'.act["player"].arts = st.act["player"].arts /\ st'.act["clan"].arts = st.act["clan"].arts
    BY <1>6 DEF ActorFields, Actors
  <2> QED BY <1>1, <1>12, <2>1 DEF ArtifactsOfTombs, Of
<1> QED BY <1>4, <1>6a, <1>7, <1>8, <1>11, <1>14, <1>15, <1>16, SpendingKeeps, SidesKept DEF SoloInv

LEMMA RestKeeps == ASSUME SoloInv, NEW id \in Actors, Rest(id) PROVE SoloInv'
<1>1. Shaped(st) /\ ActorsTyped BY DEF SoloInv
<1> DEFINE c == (EnergyMax - Of(id).energy) * TotalUnits(Of(id).units) * RestCost
<1>2. /\ c <= st.act[id].coins
      /\ st' = [st EXCEPT !.act[id] = [Paid(Of(id), c) EXCEPT !.energy = EnergyMax]]
      /\ UNCHANGED <<kept, paid>>
  BY DEF Rest, Of
<1>3. ActorTyped(st.act[id]) /\ \A a \in Actors : ActorTyped(st.act[a]) BY <1>1 DEF ActorsTyped
<1>4. c \in Nat
  <2>1. EnergyMax - Of(id).energy \in Nat /\ RestCost \in Nat
    BY <1>3, NumbersAssumption DEF ActorTyped, Of
  <2>2. TotalUnits(Of(id).units) \in Nat BY <1>3, UnitsTyped DEF ActorTyped, Of
  <2>3. \A x, y, z \in Nat : x * y * z \in Nat OBVIOUS
  <2> QED BY <2>1, <2>2, <2>3
<1> HIDE DEF c
<1>5a. Shaped(st') BY <1>1, <1>2 DEF Shaped, Fields, ActorFields, Paid, Of
<1>5. /\ \A f \in Fields \ {"act"} : st'[f] = st[f]
      /\ st'.act[id].energy = EnergyMax
      /\ st'.act[id].coins = st.act[id].coins - c
      /\ st'.act[id].spent = st.act[id].spent + c
      /\ \A f \in ActorFields \ {"coins", "spent", "energy"} : st'.act[id][f] = st.act[id][f]
      /\ \A a \in Actors : a # id => st'.act[a] = st.act[a]
  <2>1. DOMAIN st = Fields /\ DOMAIN st.act = Actors /\ DOMAIN st.act[id] = ActorFields
    BY <1>1 DEF Shaped
  <2> QED BY <1>2, <2>1 DEF Fields, ActorFields, Paid, Of
<1>6. Spent(id, c) BY <1>2, <1>5 DEF Spent, Fields
<1>7. SameSides BY <1>5 DEF SameSides, Fields
<1>8. SameLand BY <1>5 DEF SameLand, Fields, ActorFields
<1>9. ActorTyped(st'.act[id])
  <2>1. /\ st'.act[id].units = st.act[id].units /\ st'.act[id].xp = st.act[id].xp
        /\ st'.act[id].bought = st.act[id].bought
    BY <1>5 DEF ActorFields
  <2>2. EnergyMax \in Nat BY NumbersAssumption
  <2> QED BY <1>2, <1>3, <1>4, <1>5, <2>1, <2>2 DEF ActorTyped
<1>10. ActorsTyped'
  <2>1. \A a \in Actors : ActorTyped(st'.act[a]) BY <1>3, <1>5, <1>9
  <2>2. st'.act["player"].camp = st.act["player"].camp /\ st'.act["player"].pos = st.act["player"].pos
    BY <1>5 DEF ActorFields, Actors
  <2> QED BY <1>1, <2>1, <2>2 DEF ActorsTyped
<1> QED BY <1>4, <1>5a, <1>6, <1>7, <1>8, <1>10, SpendingKeeps, SidesKept, LandKept DEF SoloInv

LEMMA SwitchControlKeeps == ASSUME SoloInv, NEW id \in Actors, SwitchControl(id) PROVE SoloInv'
<1>1. Shaped(st) /\ WayTyped /\ Sided BY DEF SoloInv
<1>2. /\ Shaped(st') /\ st'.act = st.act /\ st'.control = id
      /\ \A f \in Fields \ {"control"} : st'[f] = st[f]
  BY <1>1 DEF SwitchControl, Shaped, Fields
<1>3. SameActors /\ SameLand BY <1>2 DEF SameActors, SameLand, Fields
<1>4. SameMoney BY <1>2 DEF SameMoney, Fields, SwitchControl
<1>5. /\ st'.migration = st.migration /\ st'.inClan = st.inClan /\ st'.memberCoins = st.memberCoins
      /\ st'.owned = st.owned
  BY <1>2 DEF Fields
<1>6. WayTyped' /\ Sided' BY <1>1, <1>2, <1>5 DEF WayTyped, Sided, SwitchControl, Exists
<1> QED BY <1>2, <1>3, <1>4, <1>6, LandKept, MoneyKept, ActorsKept DEF SoloInv

LEMMA CancelMoveKeeps == ASSUME SoloInv, CancelMove PROVE SoloInv'
<1>1. Shaped(st) /\ WayTyped /\ Sided BY DEF SoloInv
<1>2. /\ Shaped(st') /\ st'.act = st.act /\ st'.migration = None
      /\ \A f \in Fields \ {"migration"} : st'[f] = st[f]
  BY <1>1 DEF CancelMove, Shaped, Fields
<1>3. SameActors /\ SameLand BY <1>2 DEF SameActors, SameLand, Fields
<1>4. SameMoney BY <1>2 DEF SameMoney, Fields, CancelMove
<1>5. /\ st'.control = st.control /\ st'.inClan = st.inClan /\ st'.memberCoins = st.memberCoins
      /\ st'.owned = st.owned
  BY <1>2 DEF Fields
<1>6. WayTyped' /\ Sided' BY <1>1, <1>2, <1>5 DEF WayTyped, Sided
<1> QED BY <1>2, <1>3, <1>4, <1>6, LandKept, MoneyKept, ActorsKept DEF SoloInv

\* The fields of st.
LEMMA Domains ==
  ASSUME Shaped(st)
  PROVE  /\ DOMAIN st = Fields /\ DOMAIN st.act = Actors
         /\ DOMAIN st.act["player"] = ActorFields /\ DOMAIN st.act["clan"] = ActorFields
         /\ \A id \in Actors : DOMAIN st.act[id] = ActorFields
BY DEF Shaped, Actors

LEMMA CreateClanKeeps == ASSUME SoloInv, CreateClan PROVE SoloInv'
<1>1. Shaped(st) /\ ActorsTyped /\ Sided /\ WayTyped /\ Balanced /\ LandTyped BY DEF SoloInv
<1> DEFINE c == ClanCreateCost
<1>2. /\ ~st.inClan /\ c <= st.act["player"].coins
      /\ st' = [st EXCEPT !.act["player"] = Paid(Of("player"), c), !.inClan = TRUE,
                          !.weight = Brought, !.act["clan"].xp = Of("player").xp]
      /\ UNCHANGED <<kept, paid>>
  BY DEF CreateClan, Of
<1>3. c \in Nat BY NumbersAssumption
<1> HIDE DEF c
<1>4. Brought \in Nat
  <2> DEFINE T == {t \in Tiles : st.owned[t] # None}
             f == [t \in Tiles |-> st.owned[t].cost]
  <2>1. IsFiniteSet(T) BY SoloAssumption, FS_Subset
  <2>2. \A t \in T : f[t] \in Nat BY <1>1 DEF LandTyped, Lands
  <2> HIDE DEF T, f
  <2>3. SumOver(f, T) \in Nat BY <2>1, <2>2, SumNat
  <2> QED BY <2>3 DEF Brought, f, T
<1>5. Shaped(st') BY <1>1, <1>2, ZenonT(30) DEF Shaped, Fields, ActorFields, Paid, Of, Actors
<1>6. /\ \A f \in Fields \ {"act", "inClan", "weight"} : st'[f] = st[f]
      /\ st'.inClan = TRUE /\ st'.weight = Brought
      /\ st'.act["player"].coins = st.act["player"].coins - c
      /\ st'.act["player"].spent = st.act["player"].spent + c
      /\ \A f \in ActorFields \ {"coins", "spent"} : st'.act["player"][f] = st.act["player"][f]
      /\ st'.act["clan"].xp = st.act["player"].xp
      /\ \A f \in ActorFields \ {"xp"} : st'.act["clan"][f] = st.act["clan"][f]
  BY <1>1, <1>2, Domains DEF Fields, ActorFields, Paid, Of, Actors
<1>7. SameLand BY <1>6 DEF SameLand, Fields, ActorFields, Actors
<1>8. ActorTyped(st.act["player"]) /\ ActorTyped(st.act["clan"]) BY <1>1 DEF ActorsTyped, Actors
<1>9. ActorsTyped'
  <2>1. ActorTyped(st'.act["player"]) BY <1>2, <1>3, <1>6, <1>8 DEF ActorTyped, ActorFields
  <2>2. ActorTyped(st'.act["clan"]) BY <1>6, <1>8 DEF ActorTyped, ActorFields
  <2>3. st'.act["player"].camp = st.act["player"].camp /\ st'.act["player"].pos = st.act["player"].pos
    BY <1>6 DEF ActorFields
  <2> QED BY <1>1, <2>1, <2>2, <2>3 DEF ActorsTyped, Actors
<1>10. /\ st'.memberCoins = st.memberCoins /\ st'.control = st.control /\ st'.owned = st.owned
       /\ st'.migration = st.migration
  BY <1>6 DEF Fields
<1>11. WayTyped' /\ Sided' BY <1>1, <1>6, <1>10 DEF WayTyped, Sided
<1>12. Settled
  <2>1. \A f \in {"toman", "blocked", "tx", "pool", "closed", "treasure", "iban"} : st'[f] = st[f]
    BY <1>6 DEF Fields
  <2>2. st'.act["clan"].coins = st.act["clan"].coins /\ st'.act["clan"].spent = st.act["clan"].spent
    BY <1>6 DEF ActorFields
  <2>3. st.memberCoins = 0 /\ st.act["clan"].coins + st.act["clan"].spent <= st.memberCoins
    BY <1>1, <1>2 DEF Sided, Balanced
  <2> QED BY <1>2, <1>3, <1>4, <1>6, <1>8, <1>10, <2>1, <2>2, <2>3 DEF Settled, ActorTyped, Actors
<1> QED BY <1>5, <1>7, <1>9, <1>11, <1>12, SettledKeeps, LandKept DEF SoloInv

LEMMA ClanDepositKeeps == ASSUME SoloInv, ClanDeposit PROVE SoloInv'
<1>1. Shaped(st) /\ ActorsTyped /\ Sided /\ WayTyped /\ Balanced BY DEF SoloInv
<1>2. PICK n \in Batches :
        /\ st.inClan /\ n <= st.act["player"].coins
        /\ st' = [st EXCEPT !.act["player"] = Paid(Of("player"), n), !.act["clan"].coins = @ + n,
                            !.memberCoins = @ + n, !.weight = @ + n]
        /\ UNCHANGED <<kept, paid>>
  BY DEF ClanDeposit, Of
<1>3. n \in Nat BY NumbersAssumption
<1>4. Shaped(st') BY <1>1, <1>2, ZenonT(30) DEF Shaped, Fields, ActorFields, Paid, Of, Actors
<1>5. /\ \A f \in Fields \ {"act", "memberCoins", "weight"} : st'[f] = st[f]
      /\ st'.memberCoins = st.memberCoins + n /\ st'.weight = st.weight + n
      /\ st'.act["player"].coins = st.act["player"].coins - n
      /\ st'.act["player"].spent = st.act["player"].spent + n
      /\ \A f \in ActorFields \ {"coins", "spent"} : st'.act["player"][f] = st.act["player"][f]
      /\ st'.act["clan"].coins = st.act["clan"].coins + n
      /\ \A f \in ActorFields \ {"coins"} : st'.act["clan"][f] = st.act["clan"][f]
  BY <1>1, <1>2, Domains DEF Fields, ActorFields, Paid, Of, Actors
<1>6. SameLand BY <1>5 DEF SameLand, Fields, ActorFields, Actors
<1>7. ActorTyped(st.act["player"]) /\ ActorTyped(st.act["clan"]) BY <1>1 DEF ActorsTyped, Actors
<1>8. ActorsTyped'
  <2>1. ActorTyped(st'.act["player"]) BY <1>2, <1>3, <1>5, <1>7 DEF ActorTyped, ActorFields
  <2>2. ActorTyped(st'.act["clan"]) BY <1>3, <1>5, <1>7 DEF ActorTyped, ActorFields
  <2>3. st'.act["player"].camp = st.act["player"].camp /\ st'.act["player"].pos = st.act["player"].pos
    BY <1>5 DEF ActorFields
  <2> QED BY <1>1, <2>1, <2>2, <2>3 DEF ActorsTyped, Actors
<1>9. /\ st'.inClan = st.inClan /\ st'.control = st.control /\ st'.owned = st.owned
      /\ st'.migration = st.migration
  BY <1>5 DEF Fields
<1>10. WayTyped' /\ Sided' BY <1>1, <1>2, <1>9 DEF WayTyped, Sided
<1>11. Settled
  <2>1. \A f \in {"toman", "blocked", "tx", "pool", "closed", "treasure", "iban"} : st'[f] = st[f]
    BY <1>5 DEF Fields
  <2>2. st'.act["clan"].spent = st.act["clan"].spent BY <1>5 DEF ActorFields
  <2>3. /\ st.memberCoins \in Nat /\ st.weight \in Nat /\ st.memberCoins <= st.weight
        /\ st.act["clan"].coins + st.act["clan"].spent <= st.memberCoins
    BY <1>1 DEF Balanced
  <2> QED BY <1>2, <1>3, <1>5, <1>7, <2>1, <2>2, <2>3 DEF Settled, ActorTyped, Actors
<1> QED BY <1>4, <1>6, <1>8, <1>10, <1>11, SettledKeeps, LandKept DEF SoloInv

LEMMA SetClanCampKeeps == ASSUME SoloInv, NEW t \in Tiles, SetClanCamp(t) PROVE SoloInv'
<1>1. Shaped(st) /\ ActorsTyped BY DEF SoloInv
<1>2. /\ st' = [st EXCEPT !.act["clan"].camp = t, !.act["clan"].pos = t]
      /\ UNCHANGED <<kept, paid>>
  BY DEF SetClanCamp
<1>3. Shaped(st') BY <1>1, <1>2 DEF Shaped, Fields, ActorFields, Actors
<1>4. /\ \A f \in Fields \ {"act"} : st'[f] = st[f]
      /\ st'.act["player"] = st.act["player"]
      /\ \A f \in ActorFields \ {"camp", "pos"} : st'.act["clan"][f] = st.act["clan"][f]
  BY <1>1, <1>2, Domains DEF Fields, ActorFields, Actors
<1>5. SameLand /\ SameSides BY <1>4 DEF SameLand, SameSides, Fields, ActorFields, Actors
<1>6. SameMoney BY <1>2, <1>4 DEF SameMoney, Fields, ActorFields, Actors
<1>7. ActorsTyped' BY <1>1, <1>4 DEF ActorsTyped, ActorTyped, ActorFields, Actors
<1> QED BY <1>3, <1>5, <1>6, <1>7, MoneyKept, SidesKept, LandKept DEF SoloInv

-----------------------------------------------------------------------------
(* The caravan.                                                            *)

LEMMA TickRestKeeps == ASSUME SoloInv, TickRest PROVE SoloInv'
<1>1. Shaped(st) /\ ActorsTyped BY DEF SoloInv
<1> DEFINE now(a) == IF Migrating(a) \/ ~Exists(a) THEN st.act[a]
                     ELSE [st.act[a] EXCEPT !.energy = AtMost(EnergyMax, @ + EnergyRegen)]
<1>2. /\ st' = [st EXCEPT !.act = [a \in Actors |-> now(a)]]
      /\ UNCHANGED <<kept, paid>>
  BY DEF TickRest, Of
<1>3. \A a \in Actors :
        /\ now(a) = [f \in ActorFields |-> now(a)[f]]
        /\ \A f \in ActorFields \ {"energy"} : now(a)[f] = st.act[a][f]
        /\ now(a).energy = st.act[a].energy \/ now(a).energy = AtMost(EnergyMax, st.act[a].energy + EnergyRegen)
  BY <1>1 DEF Shaped, ActorFields
<1> HIDE DEF now
<1>4. Shaped(st') BY <1>1, <1>2, <1>3 DEF Shaped, Fields
<1>5. (\A f \in Fields \ {"act"} : st'[f] = st[f]) /\ \A a \in Actors : st'.act[a] = now(a)
  BY <1>1, <1>2, Domains DEF Fields
<1>6. SameLand /\ SameSides BY <1>3, <1>5 DEF SameLand, SameSides, Fields, ActorFields
<1>7. SameMoney BY <1>2, <1>3, <1>5 DEF SameMoney, Fields, ActorFields
<1>8. ActorsTyped'
  <2>1. \A a \in Actors : ActorTyped(now(a))
    <3> SUFFICES ASSUME NEW a \in Actors PROVE ActorTyped(now(a)) OBVIOUS
    <3>1. ActorTyped(st.act[a]) BY <1>1 DEF ActorsTyped
    <3>2. now(a).energy \in 0..EnergyMax
      BY <1>3, <3>1, NumbersAssumption DEF ActorTyped, AtMost
    <3> QED BY <1>3, <3>1, <3>2 DEF ActorTyped, ActorFields
  <2>2. now("player").camp = st.act["player"].camp /\ now("player").pos = st.act["player"].pos
    BY <1>3 DEF ActorFields, Actors
  <2> QED BY <1>1, <1>5, <2>1, <2>2 DEF ActorsTyped, Actors
<1> QED BY <1>4, <1>6, <1>7, <1>8, MoneyKept, SidesKept, LandKept DEF SoloInv

\* Where the caravan is about to step, and what is left of its way then.
LEMMA OnTheWay ==
  ASSUME SoloInv, st.migration # None
  PROVE  /\ Here \in Tiles /\ st.migration.actor \in Actors /\ st.migration.prepaid \in Nat
         /\ st.migration.actor = "player" \/ st.inClan
         /\ NextStep(st.migration) # None =>
              /\ NextStep(st.migration) \in Caravans
              /\ NextStep(st.migration).step \in 1..Len(NextStep(st.migration).path)
              /\ NextStep(st.migration).actor = st.migration.actor
<1> DEFINE m == st.migration
<1>1. /\ m \in Caravans /\ m.step \in 1..Len(m.path) /\ (m.actor = "player" \/ st.inClan)
  BY DEF SoloInv, WayTyped
<1> HIDE DEF m
<1>2. m.path \in Seq(Tiles) /\ m.actor \in Actors /\ m.prepaid \in Nat /\ m.step \in Nat
  BY <1>1 DEF Caravans
<1>3. m.path[m.step] \in Tiles BY <1>1, <1>2
<1>4. ASSUME m.step # Len(m.path)
      PROVE  LET n == [m EXCEPT !.step = @ + 1]
             IN  n \in Caravans /\ n.step \in 1..Len(n.path) /\ n.actor = m.actor
  <2> DEFINE n == [m EXCEPT !.step = @ + 1]
  <2>1. n \in Caravans BY <1>1 DEF Caravans
  <2>2. n.step = m.step + 1 /\ n.path = m.path /\ n.actor = m.actor BY <1>1 DEF Caravans
  <2>3. n.step \in 1..Len(n.path) BY <1>1, <1>2, <1>4, <2>2
  <2> QED BY <2>1, <2>2, <2>3
<1> QED BY <1>1, <1>2, <1>3, <1>4 DEF m, NextStep, Here

LEMMA TickOwnKeeps == ASSUME SoloInv, TickOwn PROVE SoloInv'
<1>1. Shaped(st) /\ ActorsTyped /\ Sided BY DEF SoloInv
<1> DEFINE id == st.migration.actor
           h == Here
           n == NextStep(st.migration)
<1>2. /\ st.migration # None
      /\ st' = [st EXCEPT !.act[id].pos = h, !.migration = n]
      /\ UNCHANGED <<kept, paid>>
  BY DEF TickOwn
<1>3. h \in Tiles /\ id \in Actors /\ (id = "player" \/ st.inClan)
      /\ (n # None => n \in Caravans /\ n.step \in 1..Len(n.path) /\ n.actor = id)
  BY <1>2, OnTheWay
<1> HIDE DEF id, h, n
<1>4. Shaped(st') BY <1>1, <1>2, <1>3 DEF Shaped, Fields, ActorFields
<1>5. /\ \A f \in Fields \ {"act", "migration"} : st'[f] = st[f]
      /\ st'.migration = n /\ st'.act[id].pos = h
      /\ \A f \in ActorFields \ {"pos"} : st'.act[id][f] = st.act[id][f]
      /\ \A a \in Actors : a # id => st'.act[a] = st.act[a]
  BY <1>1, <1>2, <1>3, Domains DEF Fields, ActorFields
<1>6. SameLand BY <1>5 DEF SameLand, Fields, ActorFields
<1>7. SameMoney BY <1>2, <1>5 DEF SameMoney, Fields, ActorFields
<1>8. ActorsTyped'
  <2>1. /\ st'.act[id].units = st.act[id].units /\ st'.act[id].energy = st.act[id].energy
        /\ st'.act[id].coins = st.act[id].coins /\ st'.act[id].spent = st.act[id].spent
        /\ st'.act[id].bought = st.act[id].bought /\ st'.act[id].xp = st.act[id].xp
        /\ st'.act[id].camp = st.act[id].camp
    BY <1>5 DEF ActorFields
  <2>2. \A a \in Actors : ActorTyped(st.act[a]) BY <1>1 DEF ActorsTyped
  <2>3. ActorTyped(st'.act[id]) BY <1>3, <2>1, <2>2 DEF ActorTyped
  <2>4. \A a \in Actors : ActorTyped(st'.act[a]) BY <1>5, <2>2, <2>3
  <2>5. st'.act["player"].camp = Camp /\ st'.act["player"].pos \in Tiles
    BY <1>1, <1>3, <1>5, <2>1 DEF ActorsTyped, Actors
  <2> QED BY <2>4, <2>5 DEF ActorsTyped
<1>9. st'.inClan = st.inClan /\ st'.control = st.control /\ st'.memberCoins = st.memberCoins
      /\ st'.owned = st.owned
  BY <1>5 DEF Fields
<1>10. WayTyped' /\ Sided' BY <1>1, <1>3, <1>5, <1>9 DEF WayTyped, Sided
<1> QED BY <1>4, <1>6, <1>7, <1>8, <1>10, MoneyKept, LandKept DEF SoloInv

\* What planMove returns: a way there, and what it costs.
Plans == [kind : {"free", "single", "long"}, path : Seq(Tiles), cost : Nat]

LEMMA RoadsAreWays ==
  ASSUME NEW s \in Roads
  PROVE  s \in Seq(Tiles) /\ Len(s) \in Nat /\ Len(s) >= 1 /\ DOMAIN s = 1..Len(s)
<1>1. PICK n \in 1..MaxPath : s \in [1..n -> Tiles] BY DEF Roads
<1>2. n \in Nat /\ n >= 1 BY NumbersAssumption
<1>3. s \in Seq(Tiles) BY <1>1, <1>2, SeqDef
<1>4. Len(s) \in Nat /\ DOMAIN s = 1..Len(s) BY <1>3
<1>5. Len(s) = n BY <1>1, <1>2, <1>4
<1> QED BY <1>2, <1>3, <1>4, <1>5

LEMMA SupplyTyped ==
  ASSUME NEW t \in Tiles
  PROVE  Supply[TerrainAt(t)] \in Nat /\ Monsters[TerrainAt(t)] \in Nat
<1>1. TerrainAt(t) \in {"tomb"} \cup {Terrain[s] : s \in Tiles} BY DEF TerrainAt
<1> QED BY <1>1, NumbersAssumption

LEMMA LongFactorTyped == ASSUME NEW n \in Nat PROVE LongFactor(n) \in Nat
<1>1. LongMoveStep \in Nat BY NumbersAssumption
<1>2. \A a, b \in Nat : 100 + a * b \in Nat OBVIOUS
<1> QED BY <1>1, <1>2 DEF LongFactor

LEMMA CeilDivTyped == ASSUME NEW n \in Nat PROVE CeilDiv(n, 100) \in Nat
<1>1. -n \in Int OBVIOUS
<1>2. (-n) \div 100 \in Int /\ (-n) \div 100 <= 0 OBVIOUS
<1> QED BY <1>2 DEF CeilDiv

LEMMA NewOnFinite ==
  ASSUME NEW s \in Seq(Tiles)
  PROVE  IsFiniteSet(NewOn(s)) /\ Cardinality(NewOn(s)) \in Nat /\ NewOn(s) \in SUBSET (1..Len(s))
<1>1. Len(s) \in Nat /\ DOMAIN s = 1..Len(s) OBVIOUS
<1>2. NewOn(s) \in SUBSET (1..Len(s)) BY <1>1 DEF NewOn
<1>3. IsFiniteSet(1..Len(s)) BY <1>1, FS_Interval
<1> QED BY <1>2, <1>3, FS_Subset, FS_CardinalityType

LEMMA LongCostTyped == ASSUME NEW s \in Seq(Tiles) PROVE LongCost(s) \in Nat
<1> DEFINE f == [i \in DOMAIN s |-> Supply[TerrainAt(s[i])]]
           x == SumOver(f, NewOn(s))
           y == LongFactor(Cardinality(NewOn(s)))
<1>1. IsFiniteSet(NewOn(s)) /\ Cardinality(NewOn(s)) \in Nat /\ NewOn(s) \in SUBSET (1..Len(s))
  BY NewOnFinite
<1>2. \A i \in NewOn(s) : f[i] \in Nat
  <2> SUFFICES ASSUME NEW i \in NewOn(s) PROVE f[i] \in Nat OBVIOUS
  <2>1. i \in DOMAIN s /\ s[i] \in Tiles BY <1>1
  <2>2. Supply[TerrainAt(s[i])] \in Nat BY <2>1, SupplyTyped
  <2> QED BY <2>1, <2>2
<1> HIDE DEF f
<1>3. x \in Nat BY <1>1, <1>2, SumNat
<1>4. y \in Nat BY <1>1, LongFactorTyped
<1> HIDE DEF x, y
<1>5. x * y \in Nat BY <1>3, <1>4
<1>6. CeilDiv(x * y, 100) \in Nat BY <1>5, CeilDivTyped
<1> QED BY <1>6 DEF LongCost, x, y, f

LEMMA PlansTyped ==
  ASSUME NEW id \in Actors, NEW t \in Tiles,
         NEW plan \in FreePlans(id, t) \cup SinglePlans(id, t) \cup LongPlans(id, t)
  PROVE  plan \in Plans /\ Len(plan.path) \in Nat /\ Len(plan.path) >= 1
<1>1. CASE plan \in FreePlans(id, t)
  <2>1. PICK s \in Roads : plan = Plan("free", s, 0) BY <1>1 DEF FreePlans, Shortest, RoadsTo
  <2> QED BY <2>1, RoadsAreWays DEF Plan, Plans
<1>2. CASE plan \in SinglePlans(id, t)
  <2> DEFINE c == Supply[TerrainAt(t)]
  <2>1. c \in Nat BY SupplyTyped
  <2>2. plan = Plan("single", <<t>>, c) \/ \E s \in Roads : plan = Plan("single", Append(s, t), c)
    BY <1>2 DEF SinglePlans, Shortest, RoadsTo
  <2> HIDE DEF c
  <2>3. CASE plan = Plan("single", <<t>>, c)
    <3>1. <<t>> \in Seq(Tiles) /\ Len(<<t>>) = 1 OBVIOUS
    <3> QED BY <2>1, <2>3, <3>1 DEF Plan, Plans
  <2>4. ASSUME NEW s \in Roads, plan = Plan("single", Append(s, t), c)
        PROVE  plan \in Plans /\ Len(plan.path) \in Nat /\ Len(plan.path) >= 1
    <3>1. s \in Seq(Tiles) /\ Len(s) \in Nat BY RoadsAreWays
    <3>2. Append(s, t) \in Seq(Tiles) /\ Len(Append(s, t)) = Len(s) + 1 BY <3>1
    <3> QED BY <2>1, <2>4, <3>1, <3>2 DEF Plan, Plans
  <2> QED BY <2>2, <2>3, <2>4
<1>3. CASE plan \in LongPlans(id, t)
  <2>1. PICK s \in Roads : plan = Plan("long", s, LongCost(s)) BY <1>3 DEF LongPlans, RoadsTo
  <2>2. s \in Seq(Tiles) /\ LongCost(s) \in Nat BY RoadsAreWays, LongCostTyped
  <2> QED BY <2>1, <2>2, RoadsAreWays DEF Plan, Plans
<1> QED BY <1>1, <1>2, <1>3

LEMMA StartMoveKeeps == ASSUME SoloInv, NEW id \in Actors, NEW t \in Tiles, StartMove(id, t) PROVE SoloInv'
<1>1. Shaped(st) /\ ActorsTyped /\ Sided BY DEF SoloInv
<1>2. PICK plan \in FreePlans(id, t) \cup SinglePlans(id, t) \cup LongPlans(id, t) :
        /\ plan.cost <= Of(id).coins
        /\ LET tired == AtMost(FreeTravelMax, 2 * Len(plan.path))
           IN st' = [st EXCEPT
                !.migration = [actor |-> id, kind |-> plan.kind, path |-> plan.path,
                               step |-> 1, prepaid |-> plan.cost],
                !.act[id] = [Paid(Of(id), plan.cost) EXCEPT
                               !.energy = IF plan.kind = "free" THEN AtLeast(0, @ - tired) ELSE @]]
  BY DEF StartMove
<1>3. UNCHANGED <<kept, paid>> /\ (id = "player" \/ st.inClan) BY DEF StartMove, Exists
<1>4. plan \in Plans /\ Len(plan.path) \in Nat /\ Len(plan.path) >= 1 BY PlansTyped
<1> DEFINE c == plan.cost
           e == IF plan.kind = "free"
                THEN AtLeast(0, st.act[id].energy - AtMost(FreeTravelMax, 2 * Len(plan.path)))
                ELSE st.act[id].energy
           m == [actor |-> id, kind |-> plan.kind, path |-> plan.path, step |-> 1, prepaid |-> plan.cost]
<1>5. c \in Nat /\ c <= st.act[id].coins BY <1>2, <1>4 DEF Plans, Of
<1>6. ActorTyped(st.act[id]) /\ \A a \in Actors : ActorTyped(st.act[a]) BY <1>1 DEF ActorsTyped
<1>7. e \in 0..EnergyMax
  <2> DEFINE f == AtMost(FreeTravelMax, 2 * Len(plan.path))
  <2>1. f \in Nat
    <3>1. FreeTravelMax \in Nat BY NumbersAssumption
    <3>2. \A l \in Nat : 2 * l \in Nat OBVIOUS
    <3>3. 2 * Len(plan.path) \in Nat BY <1>4, <3>2, Zenon
    <3> QED BY <3>1, <3>3 DEF AtMost
  <2>2. st.act[id].energy \in 0..EnergyMax /\ EnergyMax \in Nat BY <1>6, NumbersAssumption DEF ActorTyped
  <2> HIDE DEF f
  <2>3. AtLeast(0, st.act[id].energy - f) \in 0..EnergyMax BY <2>1, <2>2 DEF AtLeast
  <2> QED BY <2>2, <2>3 DEF f
<1>8. st' = [st EXCEPT !.migration = m, !.act[id] = [Paid(st.act[id], c) EXCEPT !.energy = e]]
  <2>1. DOMAIN st.act[id] = ActorFields BY <1>1, Domains
  <2>2. Paid(Of(id), plan.cost).energy = st.act[id].energy BY <2>1 DEF Paid, Of, ActorFields
  <2> QED BY <1>2, <2>2 DEF Of
<1>9. m \in Caravans /\ m.step \in 1..Len(m.path) /\ m.actor = id BY <1>4 DEF Plans, Caravans
<1> HIDE DEF c, e, m
<1>10. Shaped(st') BY <1>1, <1>8 DEF Shaped, Fields, ActorFields, Paid
<1>11. /\ \A f \in Fields \ {"act", "migration"} : st'[f] = st[f]
       /\ st'.migration = m
       /\ st'.act[id].coins = st.act[id].coins - c
       /\ st'.act[id].spent = st.act[id].spent + c
       /\ st'.act[id].energy = e
       /\ \A f \in ActorFields \ {"coins", "spent", "energy"} : st'.act[id][f] = st.act[id][f]
       /\ \A a \in Actors : a # id => st'.act[a] = st.act[a]
  BY <1>1, <1>8, Domains DEF Fields, ActorFields, Paid
<1>12. SameLand BY <1>11 DEF SameLand, Fields, ActorFields
<1>13. Spent(id, c) BY <1>3, <1>11 DEF Spent, Fields
<1>14. ActorTyped(st'.act[id])
  <2>1. /\ st'.act[id].units = st.act[id].units /\ st'.act[id].bought = st.act[id].bought
        /\ st'.act[id].xp = st.act[id].xp
    BY <1>11 DEF ActorFields
  <2> QED BY <1>5, <1>6, <1>7, <1>11, <2>1 DEF ActorTyped
<1>15. ActorsTyped'
  <2>1. \A a \in Actors : ActorTyped(st'.act[a]) BY <1>6, <1>11, <1>14
  <2>2. st'.act["player"].camp = st.act["player"].camp /\ st'.act["player"].pos = st.act["player"].pos
    BY <1>11 DEF ActorFields, Actors
  <2> QED BY <1>1, <2>1, <2>2 DEF ActorsTyped
<1>16. st'.inClan = st.inClan /\ st'.control = st.control /\ st'.memberCoins = st.memberCoins
       /\ st'.owned = st.owned
  BY <1>11 DEF Fields
<1>17. WayTyped' /\ Sided' BY <1>1, <1>3, <1>9, <1>11, <1>16 DEF WayTyped, Sided
<1> QED BY <1>5, <1>10, <1>12, <1>13, <1>15, <1>17, SpendingKeeps, LandKept DEF SoloInv

-----------------------------------------------------------------------------
(* Units that change hands, battles that are lost.                         *)

\* Energy that is mixed by numbers stays between what there was.
LEMMA MixedEnergy ==
  ASSUME NEW b \in Nat, NEW n \in Nat \ {0}, NEW e \in 0..EnergyMax, NEW d \in 0..EnergyMax
  PROVE  (e * b + d * n) \div (b + n) \in 0..EnergyMax
<1>1. EnergyMax \in Nat BY NumbersAssumption
<1> DEFINE x == e * b + d * n
           y == b + n
<1>2. x \in Nat /\ y \in Nat \ {0}
  <2>1. e * b \in Nat /\ d * n \in Nat BY <1>1
  <2> QED BY <2>1
<1>3. x <= EnergyMax * y
  <2>1. e * b <= EnergyMax * b /\ d * n <= EnergyMax * n BY <1>1
  <2>2. EnergyMax * (b + n) = EnergyMax * b + EnergyMax * n BY <1>1
  <2>3. e * b \in Int /\ d * n \in Int /\ EnergyMax * b \in Int /\ EnergyMax * n \in Int BY <1>1
  <2> QED BY <2>1, <2>2, <2>3
<1> HIDE DEF x, y
<1>4. x \div y \in Nat /\ y * (x \div y) <= x BY <1>2, Quotient
<1>5. y * (x \div y) <= y * EnergyMax
  <2>1. y * EnergyMax = EnergyMax * y /\ y * EnergyMax \in Int /\ y * (x \div y) \in Int BY <1>1, <1>2, <1>4
  <2> QED BY <1>2, <1>3, <1>4, <2>1
<1>6. x \div y <= EnergyMax
  <2>1. x \div y \in Int /\ EnergyMax \in Int BY <1>1, <1>4
  <2> QED BY <1>2, <1>5, <2>1, Cancel
<1>7. x \div y \in 0..EnergyMax BY <1>1, <1>4, <1>6
<1> QED BY <1>7 DEF x, y

LEMMA DonateUnitsKeeps == ASSUME SoloInv, DonateUnits PROVE SoloInv'
<1>1. Shaped(st) /\ ActorsTyped /\ Sided /\ WayTyped /\ LandTyped /\ Balanced /\ Manned /\ FewVisible
      /\ ArtifactsOfTombs
  BY DEF SoloInv
<1> DEFINE P == st.act["player"]
           C == st.act["clan"]
<1>2. PICK k \in UnitTypes, n \in Batches :
        /\ st.inClan /\ n <= P.units[k]
        /\ st' = [st EXCEPT
             !.act["player"].units[k] = @ - n,
             !.act["clan"] = [C EXCEPT !.units[k] = @ + n, !.bought = @ + n,
                !.energy = (C.energy * TotalUnits(C.units) + P.energy * n) \div (TotalUnits(C.units) + n)],
             !.memberCoins = @ + n * Price[k], !.weight = @ + n * Price[k]]
        /\ UNCHANGED <<kept, paid>>
  BY ZenonT(30) DEF DonateUnits, Of
<1>3. n \in Nat \ {0} /\ Price[k] \in Nat BY NumbersAssumption
<1>4. ActorTyped(P) /\ ActorTyped(C) BY <1>1 DEF ActorsTyped, Actors
<1> DEFINE c == n * Price[k]
           mixed == (C.energy * TotalUnits(C.units) + P.energy * n) \div (TotalUnits(C.units) + n)
<1>5. c \in Nat BY <1>3
<1>6. mixed \in 0..EnergyMax
  <2>1. TotalUnits(C.units) \in Nat BY <1>4, UnitsTyped DEF ActorTyped
  <2>2. C.energy \in 0..EnergyMax /\ P.energy \in 0..EnergyMax BY <1>4 DEF ActorTyped
  <2> QED BY <1>3, <2>1, <2>2, MixedEnergy
<1> HIDE DEF c, mixed
<1>7. st' = [st EXCEPT
         !.act["player"].units[k] = @ - n,
         !.act["clan"] = [C EXCEPT !.units[k] = @ + n, !.bought = @ + n, !.energy = mixed],
         !.memberCoins = @ + c, !.weight = @ + c]
  BY <1>2 DEF c, mixed
<1>8. /\ DOMAIN st = Fields /\ DOMAIN st.act = Actors /\ DOMAIN P = ActorFields /\ DOMAIN C = ActorFields
  BY <1>1, Domains
<1>9. Shaped(st') BY <1>1, <1>7, ZenonT(30) DEF Shaped, Fields, ActorFields, Actors
<1>10. /\ \A f \in Fields \ {"act", "memberCoins", "weight"} : st'[f] = st[f]
       /\ st'.memberCoins = st.memberCoins + c /\ st'.weight = st.weight + c
  BY <1>7, <1>8 DEF Fields
<1>11. /\ st'.act["player"].units = [P.units EXCEPT ![k] = @ - n]
       /\ \A f \in ActorFields \ {"units"} : st'.act["player"][f] = P[f]
  BY <1>7, <1>8 DEF Fields, ActorFields, Actors
<1>12. /\ st'.act["clan"].units = [C.units EXCEPT ![k] = @ + n]
       /\ st'.act["clan"].bought = C.bought + n /\ st'.act["clan"].energy = mixed
       /\ \A f \in ActorFields \ {"units", "bought", "energy"} : st'.act["clan"][f] = C[f]
  BY <1>7, <1>8 DEF Fields, ActorFields, Actors
<1>13. /\ st'.act["player"].energy = P.energy /\ st'.act["player"].coins = P.coins
       /\ st'.act["player"].spent = P.spent /\ st'.act["player"].bought = P.bought
       /\ st'.act["player"].xp = P.xp /\ st'.act["player"].arts = P.arts
       /\ st'.act["player"].camp = P.camp /\ st'.act["player"].pos = P.pos
  BY <1>11 DEF ActorFields
<1>14. /\ st'.act["clan"].coins = C.coins /\ st'.act["clan"].spent = C.spent
       /\ st'.act["clan"].xp = C.xp /\ st'.act["clan"].arts = C.arts
  BY <1>12 DEF ActorFields
<1>15. st'.act["player"].units \in [UnitTypes -> Nat] /\ st'.act["clan"].units \in [UnitTypes -> Nat]
  <2>1. P.units \in [UnitTypes -> Nat] /\ C.units \in [UnitTypes -> Nat] BY <1>4 DEF ActorTyped
  <2>2. n <= P.units[k] BY <1>2
  <2> HIDE DEF P, C
  <2>3. st'.act["player"].units \in [UnitTypes -> Nat] BY <1>3, <1>11, <2>1, <2>2
  <2>4. st'.act["clan"].units \in [UnitTypes -> Nat] BY <1>3, <1>12, <2>1
  <2> QED BY <2>3, <2>4
<1>16. ActorsTyped'
  <2>1. ActorTyped(st'.act["player"]) BY <1>4, <1>13, <1>15 DEF ActorTyped
  <2>2. ActorTyped(st'.act["clan"]) BY <1>3, <1>4, <1>6, <1>12, <1>14, <1>15 DEF ActorTyped
  <2> QED BY <1>1, <1>13, <2>1, <2>2 DEF ActorsTyped, Actors
<1>17. TotalUnits(st'.act["player"].units) = TotalUnits(P.units) - n
       /\ TotalUnits(st'.act["clan"].units) = TotalUnits(C.units) + n
  <2>1. P.units \in [UnitTypes -> Nat] /\ C.units \in [UnitTypes -> Nat] BY <1>4 DEF ActorTyped
  <2>2. Shifts(P.units, st'.act["player"].units, k, -n) BY <1>3, <1>11, <2>1 DEF Shifts
  <2>3. Shifts(C.units, st'.act["clan"].units, k, n) BY <1>3, <1>12, <2>1 DEF Shifts
  <2>4. TotalUnits(st'.act["player"].units) = TotalUnits(P.units) + (-n)
    <3>1. -n \in Int BY <1>3
    <3> HIDE DEF P
    <3> QED BY <2>1, <2>2, <3>1, UnitsChanged
  <2>5. TotalUnits(st'.act["clan"].units) = TotalUnits(C.units) + n
    <3>1. n \in Int BY <1>3
    <3> HIDE DEF C
    <3> QED BY <2>1, <2>3, <3>1, UnitsChanged
  <2>6. TotalUnits(P.units) \in Nat BY <2>1, UnitsTyped
  <2> QED BY <1>3, <2>4, <2>5, <2>6
<1>18. st'.owned = st.owned /\ st'.tombs = st.tombs /\ st'.inClan = st.inClan /\ st'.control = st.control
       /\ st'.migration = st.migration
  BY <1>10 DEF Fields
<1>19. Manned'
  <2>1. /\ TotalUnits(P.units) + Cardinality(GuardsOn(st.owned, "player")) <= P.bought
        /\ TotalUnits(C.units) + Cardinality(GuardsOn(st.owned, "clan")) <= C.bought
    BY <1>1 DEF Manned, Actors
  <2>2. /\ TotalUnits(P.units) \in Nat /\ TotalUnits(C.units) \in Nat /\ P.bought \in Nat /\ C.bought \in Nat
    BY <1>4, UnitsTyped DEF ActorTyped
  <2>3. /\ Cardinality(GuardsOn(st.owned, "player")) \in Nat /\ Cardinality(GuardsOn(st.owned, "clan")) \in Nat
    BY GuardsFinite
  <2> HIDE DEF P, C
  <2> QED BY <1>3, <1>12, <1>13, <1>17, <1>18, <2>1, <2>2, <2>3 DEF Manned, Actors
<1>20. LandTyped' /\ FewVisible' BY <1>1, <1>18 DEF LandTyped, FewVisible
<1>21. ArtifactsOfTombs' BY <1>1, <1>13, <1>14, <1>18 DEF ArtifactsOfTombs, Of
<1>22. WayTyped' /\ Sided' BY <1>1, <1>2, <1>18 DEF WayTyped, Sided
<1>23. Settled
  <2>1. \A f \in {"toman", "blocked", "tx", "pool", "closed", "treasure", "iban"} : st'[f] = st[f]
    BY <1>10 DEF Fields
  <2>2. /\ st.memberCoins \in Nat /\ st.weight \in Nat /\ st.memberCoins <= st.weight
        /\ C.coins + C.spent <= st.memberCoins
    BY <1>1 DEF Balanced
  <2>3. P.coins \in Nat /\ P.spent \in Nat /\ C.coins \in Nat /\ C.spent \in Nat BY <1>4 DEF ActorTyped
  <2>4. kept' = kept /\ paid' = paid BY <1>2
  <2>5. st'.act["player"].coins + st'.act["player"].spent = st.act["player"].coins + st.act["player"].spent
    BY <1>13
  <2> HIDE DEF P, C
  <2>6. /\ st'.memberCoins \in Nat /\ st'.weight \in Nat /\ st'.memberCoins <= st'.weight
        /\ st'.act["clan"].coins + st'.act["clan"].spent <= st'.memberCoins
    BY <1>5, <1>10, <1>14, <2>2, <2>3
  <2>7. \A id \in Actors : st'.act[id].coins \in Int /\ st'.act[id].spent \in Int
    BY <1>13, <1>14, <2>3 DEF Actors
  <2> QED BY <2>1, <2>4, <2>5, <2>6, <2>7 DEF Settled
<1> QED BY <1>9, <1>16, <1>19, <1>20, <1>21, <1>22, <1>23, SettledKeeps DEF SoloInv

LEMMA LossesTyped ==
  ASSUME NEW u \in [UnitTypes -> Nat], NEW n \in Nat, NEW losses \in LossesOf(u, n, AllUnits)
  PROVE  /\ Left(u, losses) \in [UnitTypes -> Nat]
         /\ TotalUnits(Left(u, losses)) \in Nat /\ TotalUnits(Left(u, losses)) <= TotalUnits(u)
<1>1. \A k \in UnitTypes : losses[k] \in 0..u[k]
  <2>1. CASE n > 0 /\ TotalUnits(u) > 0
    <3>1. PICK total \in 1..TotalUnits(u) : losses = LossesByType(u, total, AllUnits)
      BY <2>1 DEF LossesOf, LossTotals
    <3>2. Fair(u, total, losses) BY <3>1, LossesFair, TypesListed
    <3>3. DOMAIN u = UnitTypes OBVIOUS
    <3> QED BY <3>2, <3>3, Zenon DEF Fair
  <2>2. CASE ~(n > 0 /\ TotalUnits(u) > 0)
    <3>1. losses = [k \in UnitTypes |-> 0] BY <2>2 DEF LossesOf
    <3> QED BY <3>1
  <2> QED BY <2>1, <2>2
<1> DEFINE w == Left(u, losses)
<1>2. w = [k \in UnitTypes |-> u[k] - losses[k]] BY DEF Left
<1> HIDE DEF w
<1>3. \A k \in UnitTypes : u[k] \in Nat /\ w[k] \in Nat /\ w[k] <= u[k] BY <1>1, <1>2
<1>4. w \in [UnitTypes -> Nat] BY <1>2, <1>3
<1>5. TotalUnits(w) \in Nat BY <1>4, UnitsTyped
<1>6. TotalUnits(w) <= TotalUnits(u)
  <2>1. \A k \in UnitTypes : w[k] \in Int /\ u[k] \in Int /\ w[k] <= u[k] BY <1>3
  <2>2. IsFiniteSet(UnitTypes) BY TypesListed
  <2>3. SumOver(w, UnitTypes) <= SumOver(u, UnitTypes) BY <2>1, <2>2, SumMono
  <2>4. DOMAIN w = UnitTypes /\ DOMAIN u = UnitTypes BY <1>4
  <2> QED BY <2>3, <2>4 DEF TotalUnits
<1> QED BY <1>4, <1>5, <1>6 DEF w

\* Whoever stays as guardian is there.
LEMMA GuardianThere ==
  ASSUME NEW u \in [UnitTypes -> Nat], TotalUnits(u) >= 1
  PROVE  CheapestUnit(u, Price, UnitOrder) \in UnitTypes /\ u[CheapestUnit(u, Price, UnitOrder)] >= 1
<1> DEFINE alive == {k \in UnitTypes : u[k] > 0}
           prices == {Price[k] : k \in alive}
<1>1. alive # {}
  <2> SUFFICES ASSUME alive = {} PROVE FALSE OBVIOUS
  <2>1. \A k \in UnitTypes : u[k] = 0 OBVIOUS
  <2>2. IsFiniteSet(UnitTypes) BY TypesListed
  <2>3. SumOver(u, UnitTypes) = 0 BY <2>1, <2>2, SumZero
  <2>4. TotalUnits(u) = 0 BY <2>3 DEF TotalUnits
  <2> QED BY <2>4
<1>2. \A k \in UnitTypes : Price[k] \in Nat /\ Rank(k, UnitOrder) \in Nat
  <2>1. \A k \in UnitTypes : Price[k] \in Nat BY NumbersAssumption
  <2>2. \A k \in UnitTypes : Rank(k, UnitOrder) \in Nat BY RankListed, TypesListed
  <2> QED BY <2>1, <2>2
<1>3. prices \in SUBSET Nat /\ prices # {} BY <1>1, <1>2
<1>4. PICK p \in prices : \A q \in prices : p <= q
  <2> HIDE DEF prices
  <2> QED BY <1>3, LeastNumber
<1> DEFINE cheap == {k \in alive : Price[k] = p}
           ranks == {Rank(k, UnitOrder) : k \in cheap}
<1>5. ranks \in SUBSET Nat /\ ranks # {} BY <1>2, <1>4
<1>6. PICK r \in ranks : \A q \in ranks : r <= q
  <2> HIDE DEF ranks
  <2> QED BY <1>5, LeastNumber
<1>7. PICK g \in cheap : Rank(g, UnitOrder) = r BY <1>6
<1>8. \A l \in UnitTypes : u[l] > 0 =>
        Price[g] < Price[l] \/ (Price[g] = Price[l] /\ Rank(g, UnitOrder) <= Rank(l, UnitOrder))
  <2> SUFFICES ASSUME NEW l \in alive
               PROVE  Price[g] < Price[l] \/ (Price[g] = Price[l] /\ Rank(g, UnitOrder) <= Rank(l, UnitOrder))
    OBVIOUS
  <2>1. Price[g] = p /\ p <= Price[l] /\ Price[l] \in Nat /\ p \in Nat BY <1>2, <1>3, <1>4, <1>7
  <2>2. CASE p < Price[l] BY <2>1, <2>2
  <2>3. CASE p = Price[l]
    <3>1. Rank(l, UnitOrder) \in ranks BY <2>3
    <3> QED BY <1>6, <1>7, <2>1, <2>3, <3>1
  <2> QED BY <2>1, <2>2, <2>3
<1>9. g \in DOMAIN u /\ u[g] > 0 /\ DOMAIN u = UnitTypes BY <1>7
<1>10. \E k \in DOMAIN u :
         /\ u[k] > 0
         /\ \A l \in DOMAIN u : u[l] > 0 =>
              Price[k] < Price[l] \/ (Price[k] = Price[l] /\ Rank(k, UnitOrder) <= Rank(l, UnitOrder))
  BY <1>8, <1>9, Zenon
<1> DEFINE c == CheapestUnit(u, Price, UnitOrder)
<1>11. c \in DOMAIN u /\ u[c] > 0 BY <1>10, Zenon DEF CheapestUnit
<1> HIDE DEF c
<1>12. c \in UnitTypes /\ u[c] >= 1 BY <1>9, <1>11
<1> QED BY <1>12 DEF c

LEMMA TiredTyped ==
  ASSUME NEW id \in Actors, ActorTyped(st.act[id])
  PROVE  Tired(id) \in 0..EnergyMax
<1>1. st.act[id].energy \in 0..EnergyMax /\ EnergyMax \in Nat /\ EnergyPerMove \in Nat
  BY NumbersAssumption DEF ActorTyped
<1> DEFINE e == st.act[id].energy
<1> HIDE DEF e
<1>2. AtLeast(0, e - EnergyPerMove) \in 0..EnergyMax BY <1>1 DEF AtLeast, e
<1> QED BY <1>2 DEF Tired, Of, e

LEMMA TickLoseKeeps == ASSUME SoloInv, TickLose PROVE SoloInv'
<1>1. Shaped(st) /\ ActorsTyped /\ Sided /\ LandTyped /\ Manned /\ FewVisible /\ ArtifactsOfTombs
  BY DEF SoloInv
<1> DEFINE id == st.migration.actor
           A == st.act[id]
<1>2. Here \in Tiles /\ id \in Actors
  <2>1. st.migration # None BY DEF TickLose
  <2> QED BY <2>1, OnTheWay
<1>3. Monsters[TerrainAt(Here)] \in Nat BY <1>2, SupplyTyped
<1>4. PICK losses \in LossesOf(A.units, Monsters[TerrainAt(Here)], AllUnits) :
        st' = [st EXCEPT !.migration = None, !.act[id] =
                 [A EXCEPT !.units = Left(@, losses), !.energy = Tired(id), !.pos = A.camp]]
  BY ZenonT(30) DEF TickLose, Army, Of, MonstersAt
<1>5. UNCHANGED <<kept, paid>> BY DEF TickLose
<1>6. ActorTyped(A) /\ \A a \in Actors : ActorTyped(st.act[a]) BY <1>1, <1>2 DEF ActorsTyped
<1> DEFINE w == Left(A.units, losses)
           e == Tired(id)
<1>7. e \in 0..EnergyMax BY <1>2, <1>6, TiredTyped
<1>8. w \in [UnitTypes -> Nat] /\ TotalUnits(w) \in Nat /\ TotalUnits(w) <= TotalUnits(A.units)
  <2>1. A.units \in [UnitTypes -> Nat] BY <1>6 DEF ActorTyped
  <2> QED BY <1>3, <2>1, LossesTyped
<1>9. DOMAIN A = ActorFields BY <1>1, <1>2, Domains
<1>10. st' = [st EXCEPT !.migration = None, !.act[id] = [A EXCEPT !.units = w, !.energy = e, !.pos = A.camp]]
  BY <1>4
<1> HIDE DEF w, e, id
<1>11. Shaped(st') BY <1>1, <1>2, <1>10 DEF Shaped, Fields, ActorFields
<1>12. /\ \A f \in Fields \ {"act", "migration"} : st'[f] = st[f]
       /\ st'.migration = None
       /\ st'.act[id].units = w /\ st'.act[id].energy = e /\ st'.act[id].pos = A.camp
       /\ \A f \in ActorFields \ {"units", "energy", "pos"} : st'.act[id][f] = A[f]
       /\ \A a \in Actors : a # id => st'.act[a] = st.act[a]
  BY <1>1, <1>2, <1>10, Domains DEF Fields, ActorFields
<1>13. /\ st'.act[id].coins = A.coins /\ st'.act[id].spent = A.spent /\ st'.act[id].bought = A.bought
       /\ st'.act[id].xp = A.xp /\ st'.act[id].camp = A.camp /\ st'.act[id].arts = A.arts
  BY <1>12 DEF ActorFields
<1>14. SameMoney BY <1>5, <1>12, <1>13 DEF SameMoney, Fields
<1>15. ActorsTyped'
  <2>1. ActorTyped(st'.act[id]) BY <1>6, <1>7, <1>8, <1>12, <1>13 DEF ActorTyped
  <2>2. \A a \in Actors : ActorTyped(st'.act[a]) BY <1>6, <1>12, <2>1
  <2>3. st'.act["player"].camp = Camp /\ st'.act["player"].pos \in Tiles
    BY <1>1, <1>12, <1>13, SoloAssumption DEF ActorsTyped, Actors
  <2> QED BY <2>2, <2>3 DEF ActorsTyped
<1>16. /\ st'.inClan = st.inClan /\ st'.control = st.control /\ st'.memberCoins = st.memberCoins
       /\ st'.owned = st.owned /\ st'.tombs = st.tombs
  BY <1>12 DEF Fields
<1>17. WayTyped' /\ Sided' BY <1>1, <1>12, <1>16 DEF WayTyped, Sided
<1>18. LandTyped' /\ FewVisible' BY <1>1, <1>16 DEF LandTyped, FewVisible
<1>19. Manned'
  <2> SUFFICES ASSUME NEW a \in Actors
               PROVE  TotalUnits(st'.act[a].units) + Cardinality(GuardsOn(st.owned, a)) <= st'.act[a].bought
    BY <1>16 DEF Manned
  <2>1. TotalUnits(st.act[a].units) + Cardinality(GuardsOn(st.owned, a)) <= st.act[a].bought
    BY <1>1 DEF Manned
  <2>2. TotalUnits(st.act[a].units) \in Nat /\ st.act[a].bought \in Nat /\ Cardinality(GuardsOn(st.owned, a)) \in Nat
    BY <1>6, UnitsTyped, GuardsFinite DEF ActorTyped
  <2> QED BY <1>8, <1>12, <1>13, <2>1, <2>2
<1>20. ArtifactsOfTombs'
  <2>1. \A a \in Actors : st'.act[a].arts = st.act[a].arts BY <1>12, <1>13
  <2>2. st'.act["player"].arts = st.act["player"].arts /\ st'.act["clan"].arts = st.act["clan"].arts
    BY <2>1 DEF Actors
  <2> QED BY <1>1, <1>16, <2>2 DEF ArtifactsOfTombs, Of
<1> QED BY <1>11, <1>14, <1>15, <1>17, <1>18, <1>19, <1>20, MoneyKept DEF SoloInv

-----------------------------------------------------------------------------
(* A tile is won.                                                          *)

\* The tombs after the one with number i is taken, and where the next one is.
Opened(q, i, next) ==
  LET taken == [q EXCEPT ![i].captured = TRUE]
  IN  IF next = None THEN taken ELSE Append(taken, [at |-> next, captured |-> FALSE])

Robbed(q) == {j \in DOMAIN q : q[j].captured}

LEMMA TombOpened ==
  ASSUME NEW q \in Seq(Graves), NEW i \in Visible(q), NEW next \in Tiles \cup {None}
  PROVE  /\ Opened(q, i, next) \in Seq(Graves)
         /\ Len(Opened(q, i, next)) <= IF next = None THEN Len(q) ELSE Len(q) + 1
         /\ Cardinality(Visible(Opened(q, i, next))) <= Cardinality(Visible(q))
         /\ Robbed(Opened(q, i, next)) = Robbed(q) \cup {i}
         /\ \A j \in Robbed(q) \cup {i} : Opened(q, i, next)[j].at = q[j].at
<1> DEFINE n == Len(q)
           taken == [q EXCEPT ![i].captured = TRUE]
           more == Append(taken, [at |-> next, captured |-> FALSE])
<1>1. n \in Nat /\ DOMAIN q = 1..n /\ i \in 1..n /\ (\A j \in 1..n : q[j] \in Graves)
  BY DEF Visible
<1>2. taken \in Seq(Graves) /\ Len(taken) = n /\ DOMAIN taken = 1..n
  <2>1. [q[i] EXCEPT !.captured = TRUE] \in Graves BY <1>1 DEF Graves
  <2>2. taken \in [1..n -> Graves] BY <1>1, <2>1
  <2>3. taken \in Seq(Graves) BY <1>1, <2>2, SeqDef
  <2> QED BY <1>1, <2>2, <2>3
<1>3. /\ taken[i].captured = TRUE /\ taken[i].at = q[i].at
      /\ \A j \in 1..n : j # i => taken[j] = q[j]
  BY <1>1 DEF Graves
<1>4. IsFiniteSet(Visible(q)) /\ Cardinality(Visible(q)) \in Nat
  <2>1. IsFiniteSet(1..n) /\ Visible(q) \in SUBSET (1..n) BY <1>1, FS_Interval DEF Visible
  <2> QED BY <2>1, FS_Subset, FS_CardinalityType
<1>5. Robbed(taken) = Robbed(q) \cup {i} /\ Visible(taken) = Visible(q) \ {i}
  <2> HIDE DEF taken
  <2> QED BY <1>1, <1>2, <1>3 DEF Robbed, Visible
<1>6. \A j \in Robbed(q) \cup {i} : j \in 1..n /\ taken[j].at = q[j].at
  <2> HIDE DEF taken
  <2> QED BY <1>1, <1>3 DEF Robbed
<1>7. IsFiniteSet(Visible(taken)) /\ Cardinality(Visible(taken)) = Cardinality(Visible(q)) - 1
  <2>1. i \in Visible(q) OBVIOUS
  <2> HIDE DEF taken
  <2> QED BY <1>4, <1>5, <2>1, FS_RemoveElement
<1>8. CASE next = None
  <2>1. Opened(q, i, next) = taken BY <1>8 DEF Opened
  <2>2. Len(taken) <= (IF next = None THEN Len(q) ELSE Len(q) + 1) BY <1>1, <1>2, <1>8
  <2> HIDE DEF taken
  <2>3. Cardinality(Visible(taken)) <= Cardinality(Visible(q)) BY <1>4, <1>7
  <2> QED BY <1>2, <1>5, <1>6, <2>1, <2>2, <2>3
<1>9. CASE next # None
  <2>1. Opened(q, i, next) = more BY <1>9 DEF Opened
  <2>2. [at |-> next, captured |-> FALSE] \in Graves BY <1>9 DEF Graves
  <2> HIDE DEF taken
  <2>3. /\ more \in Seq(Graves) /\ Len(more) = n + 1 /\ DOMAIN more = 1..n + 1
        /\ more[n + 1].captured = FALSE /\ \A j \in 1..n : more[j] = taken[j]
    BY <1>1, <1>2, <2>2
  <2> HIDE DEF more
  <2>4. DOMAIN more = DOMAIN taken \cup {n + 1} /\ n + 1 \notin 1..n
    <3>1. \A k \in Nat : 1..k + 1 = 1..k \cup {k + 1} /\ k + 1 \notin 1..k OBVIOUS
    <3> QED BY <1>1, <1>2, <2>3, <3>1
  <2>5. Robbed(more) = Robbed(taken) BY <1>2, <2>3, <2>4 DEF Robbed
  <2>6. Visible(more) = Visible(taken) \cup {n + 1} BY <1>2, <2>3, <2>4 DEF Visible
  <2>7. Cardinality(Visible(more)) <= Cardinality(Visible(q))
    <3>1. n + 1 \notin Visible(taken) BY <1>2, <2>4 DEF Visible
    <3>2. Cardinality(Visible(taken) \cup {n + 1}) = Cardinality(Visible(taken)) + 1
      BY <1>7, <3>1, FS_AddElement
    <3> QED BY <1>4, <1>7, <2>6, <3>2
  <2>8. \A j \in Robbed(q) \cup {i} : more[j].at = q[j].at BY <1>6, <2>3
  <2>9. Len(more) <= (IF next = None THEN Len(q) ELSE Len(q) + 1) BY <1>1, <1>9, <2>3
  <2> QED BY <1>5, <2>1, <2>3, <2>5, <2>7, <2>8, <2>9
<1> QED BY <1>8, <1>9

\* What a state has become once an army has won a tile, prizes and tombs aside.
Advances(s, id, u, e, h, land, m) ==
  /\ Shaped(s)
  /\ s.owned = [st.owned EXCEPT ![h] = land] /\ s.migration = m
  /\ \A f \in {"inClan", "control", "named", "blocked", "iban", "weight", "memberCoins", "pool", "closed"} :
       s[f] = st[f]
  /\ \A a \in Actors :
       /\ s.act[a].coins = st.act[a].coins /\ s.act[a].spent = st.act[a].spent
       /\ s.act[a].bought = st.act[a].bought /\ s.act[a].camp = st.act[a].camp
       /\ s.act[a].xp \in Nat
  /\ s.act[id].units = u /\ s.act[id].energy = e /\ s.act[id].pos = h
  /\ \A a \in Actors \ {id} :
       s.act[a].units = st.act[a].units /\ s.act[a].energy = st.act[a].energy /\ s.act[a].pos = st.act[a].pos

SameTombs(s) == s.tombs = st.tombs /\ \A a \in Actors : s.act[a].arts = st.act[a].arts

\* A prize of n, if any.
Crowned(s, id, n) ==
  /\ s.toman = st.toman + n /\ s.tx = st.tx + n
  /\ \/ s.treasure = st.treasure /\ n = 0
     \/ st.treasure = None /\ s.treasure = id

CapturedBy(id, u, e, h, x, land, m) ==
  SyncClanXp([st EXCEPT !.act[id] = [Of(id) EXCEPT !.units = u, !.energy = e, !.pos = h, !.xp = @ + x],
                        !.owned[h] = land, !.migration = m])

LEMMA CaptureAdvances ==
  ASSUME SoloInv, NEW id \in Actors, NEW u, NEW e, NEW h, NEW x \in Nat, NEW land, NEW m
  PROVE  /\ Advances(CapturedBy(id, u, e, h, x, land, m), id, u, e, h, land, m)
         /\ SameTombs(CapturedBy(id, u, e, h, x, land, m))
         /\ Crowned(CapturedBy(id, u, e, h, x, land, m), id, 0)
<1> DEFINE A == st.act[id]
           B == [A EXCEPT !.units = u, !.energy = e, !.pos = h, !.xp = @ + x]
           T == [st.act EXCEPT ![id] = B]
           O == [st.owned EXCEPT ![h] = land]
           s == [st EXCEPT !.act = T, !.owned = O, !.migration = m]
           z == IF s.inClan THEN AtLeast(s.act["clan"].xp, s.act["player"].xp) ELSE s.act["clan"].xp
           c == [s EXCEPT !.act["clan"].xp = z]
<1>1. Shaped(st) /\ ActorsTyped /\ st.toman \in Nat /\ st.tx \in Int BY DEF SoloInv, Balanced
<1>2. DOMAIN st = Fields /\ DOMAIN st.act = Actors /\ DOMAIN A = ActorFields BY <1>1, Domains
<1>3. /\ B = [f \in ActorFields |-> B[f]]
      /\ B.units = u /\ B.energy = e /\ B.pos = h /\ B.xp = A.xp + x
      /\ \A f \in ActorFields \ {"units", "energy", "pos", "xp"} : B[f] = A[f]
  BY <1>2 DEF ActorFields
<1>4. CapturedBy(id, u, e, h, x, land, m) = SyncClanXp(s) BY DEF CapturedBy, Of
<1> HIDE DEF B
<1>5. /\ Shaped(s) /\ s.owned = O /\ s.migration = m
      /\ \A f \in Fields \ {"act", "owned", "migration"} : s[f] = st[f]
      /\ s.act[id] = B /\ \A a \in Actors \ {id} : s.act[a] = st.act[a]
  <2>1. T = [a \in Actors |-> T[a]] /\ T[id] = B /\ \A a \in Actors \ {id} : T[a] = st.act[a] BY <1>2
  <2> HIDE DEF T, O
  <2>2. /\ s = [f \in Fields |-> s[f]] /\ s.act = T /\ s.owned = O /\ s.migration = m
        /\ \A f \in Fields \ {"act", "owned", "migration"} : s[f] = st[f]
    BY <1>2 DEF Fields
  <2> HIDE DEF s
  <2> QED BY <1>1, <1>3, <2>1, <2>2 DEF Shaped
<1> HIDE DEF s
<1>6. \A a \in Actors : s.act[a].xp \in Nat
  <2>1. \A a \in Actors : st.act[a].xp \in Nat BY <1>1 DEF ActorsTyped, ActorTyped
  <2> QED BY <1>3, <1>5, <2>1
<1>7. z \in Nat BY <1>6 DEF AtLeast, Actors
<1>8. c = CapturedBy(id, u, e, h, x, land, m)
  <2>1. DOMAIN s = Fields /\ DOMAIN s.act = Actors /\ DOMAIN s.act["clan"] = ActorFields
    BY <1>5 DEF Shaped, Actors
  <2> QED BY <1>4, <2>1 DEF SyncClanXp, Fields, ActorFields, Actors
<1> HIDE DEF z
<1>9. Shaped(c) BY <1>5 DEF Shaped, Fields, ActorFields, Actors
<1>10. /\ \A f \in Fields \ {"act"} : c[f] = s[f]
       /\ c.act["clan"].xp = z /\ c.act["player"] = s.act["player"]
       /\ \A f \in ActorFields \ {"xp"} : c.act["clan"][f] = s.act["clan"][f]
  <2>1. DOMAIN s = Fields /\ DOMAIN s.act = Actors /\ DOMAIN s.act["clan"] = ActorFields
    BY <1>5 DEF Shaped, Actors
  <2> QED BY <2>1 DEF Fields, ActorFields, Actors
<1> HIDE DEF c
<1>11. \A a \in Actors :
         /\ c.act[a].coins = s.act[a].coins /\ c.act[a].spent = s.act[a].spent
         /\ c.act[a].bought = s.act[a].bought /\ c.act[a].camp = s.act[a].camp
         /\ c.act[a].arts = s.act[a].arts /\ c.act[a].units = s.act[a].units
         /\ c.act[a].energy = s.act[a].energy /\ c.act[a].pos = s.act[a].pos
         /\ c.act[a].xp \in Nat
  BY <1>6, <1>7, <1>10 DEF Actors, ActorFields
<1>12. \A a \in Actors :
         /\ s.act[a].coins = st.act[a].coins /\ s.act[a].spent = st.act[a].spent
         /\ s.act[a].bought = st.act[a].bought /\ s.act[a].camp = st.act[a].camp
         /\ s.act[a].arts = st.act[a].arts
  BY <1>3, <1>5 DEF ActorFields
<1>13. Advances(c, id, u, e, h, land, m)
  BY <1>3, <1>5, <1>9, <1>10, <1>11, <1>12 DEF Advances, Fields
<1>14. SameTombs(c) BY <1>5, <1>10, <1>11, <1>12 DEF SameTombs, Fields
<1>15. Crowned(c, id, 0) BY <1>1, <1>5, <1>10 DEF Crowned, Fields
<1> QED BY <1>8, <1>13, <1>14, <1>15

LEMMA PrizeAdvances ==
  ASSUME NEW id \in Actors, NEW u, NEW e, NEW h, NEW land, NEW m, NEW n \in Nat, NEW c,
         st.toman \in Nat, st.tx \in Int, st.treasure = None,
         Advances(c, id, u, e, h, land, m), SameTombs(c), Crowned(c, id, 0)
  PROVE  /\ Advances(Pay([c EXCEPT !.treasure = id], n), id, u, e, h, land, m)
         /\ SameTombs(Pay([c EXCEPT !.treasure = id], n))
         /\ Crowned(Pay([c EXCEPT !.treasure = id], n), id, n)
<1> DEFINE s == [c EXCEPT !.treasure = id, !.toman = @ + n, !.tx = @ + n]
<1>1. Shaped(c) BY DEF Advances
<1>2. DOMAIN c = Fields BY <1>1 DEF Shaped
<1>3. s = Pay([c EXCEPT !.treasure = id], n) BY <1>2 DEF Pay, Fields
<1>4. /\ Shaped(s) /\ s.treasure = id /\ s.toman = c.toman + n /\ s.tx = c.tx + n
      /\ \A f \in Fields \ {"treasure", "toman", "tx"} : s[f] = c[f]
  <2>1. /\ s = [f \in Fields |-> s[f]]
        /\ s.treasure = id /\ s.toman = c.toman + n /\ s.tx = c.tx + n
        /\ \A f \in Fields \ {"treasure", "toman", "tx"} : s[f] = c[f]
    BY <1>2 DEF Fields
  <2> HIDE DEF s
  <2>2. s.act = c.act BY <2>1 DEF Fields
  <2> QED BY <1>1, <2>1, <2>2 DEF Shaped
<1> HIDE DEF s
<1>5. s.act = c.act /\ s.owned = c.owned /\ s.migration = c.migration /\ s.tombs = c.tombs
  BY <1>4 DEF Fields
<1>6. Advances(s, id, u, e, h, land, m) BY <1>4, <1>5 DEF Advances, Fields
<1>7. SameTombs(s) BY <1>5 DEF SameTombs
<1>8. Crowned(s, id, n) BY <1>4 DEF Crowned
<1> QED BY <1>3, <1>6, <1>7, <1>8

\* A tomb is taken: its artifact goes to one of the two.
Robs(s, i) ==
  /\ \E next \in Tiles \cup {None} :
       /\ s.tombs = Opened(st.tombs, i, next)
       /\ next # None => Len(st.tombs) < TombsTotal
  /\ \E heir \in Actors : /\ s.act[heir].arts = st.act[heir].arts \cup {i}
                          /\ \A a \in Actors \ {heir} : s.act[a].arts = st.act[a].arts

LEMMA TombAdvances ==
  ASSUME SoloInv, NEW id \in Actors, NEW u, NEW e, NEW h, NEW land, NEW m, NEW n, NEW c, NEW i,
         NEW heir \in Actors, NEW next \in NextTombs(c), c.tombs = st.tombs,
         Advances(c, id, u, e, h, land, m), SameTombs(c), Crowned(c, id, n)
  PROVE  /\ Advances(TombTaken(c, heir, i, next), id, u, e, h, land, m)
         /\ Robs(TombTaken(c, heir, i, next), i)
         /\ Crowned(TombTaken(c, heir, i, next), id, n)
<1> DEFINE s == [c EXCEPT !.act[heir].arts = @ \cup {i}, !.tombs = Opened(st.tombs, i, next)]
<1>1. Shaped(c) BY DEF Advances
<1>2. DOMAIN c = Fields /\ DOMAIN c.act = Actors /\ DOMAIN c.act[heir] = ActorFields
  BY <1>1 DEF Shaped
<1>3. s = TombTaken(c, heir, i, next) BY <1>2 DEF TombTaken, Opened, Fields
<1>4. /\ Shaped(s) /\ s.tombs = Opened(st.tombs, i, next)
      /\ \A f \in Fields \ {"act", "tombs"} : s[f] = c[f]
      /\ s.act[heir].arts = c.act[heir].arts \cup {i}
      /\ \A f \in ActorFields \ {"arts"} : s.act[heir][f] = c.act[heir][f]
      /\ \A a \in Actors \ {heir} : s.act[a] = c.act[a]
  <2>1. Shaped(s) BY <1>1 DEF Shaped, Fields, ActorFields
  <2> QED BY <1>2, <2>1 DEF Fields, ActorFields
<1> HIDE DEF s
<1>5. /\ s.owned = c.owned /\ s.migration = c.migration /\ s.toman = c.toman /\ s.tx = c.tx
      /\ s.treasure = c.treasure
  BY <1>4 DEF Fields
<1>6. \A a \in Actors :
        /\ s.act[a].coins = c.act[a].coins /\ s.act[a].spent = c.act[a].spent
        /\ s.act[a].bought = c.act[a].bought /\ s.act[a].camp = c.act[a].camp
        /\ s.act[a].units = c.act[a].units /\ s.act[a].energy = c.act[a].energy
        /\ s.act[a].pos = c.act[a].pos /\ s.act[a].xp = c.act[a].xp
  BY <1>4 DEF ActorFields
<1>7. Advances(s, id, u, e, h, land, m) BY <1>4, <1>5, <1>6 DEF Advances, Fields
<1>8. Crowned(s, id, n) BY <1>5 DEF Crowned
<1>9. Robs(s, i)
  <2>1. next \in Tiles \cup {None} /\ (next # None => Len(st.tombs) < TombsTotal)
    <3>1. Len(st.tombs) \in Nat /\ TombsTotal \in Nat BY SoloAssumption DEF SoloInv, LandTyped
    <3> QED BY <3>1, SoloAssumption DEF NextTombs
  <2>2. /\ s.act[heir].arts = st.act[heir].arts \cup {i}
        /\ \A a \in Actors \ {heir} : s.act[a].arts = st.act[a].arts
    BY <1>4 DEF SameTombs
  <2> QED BY <1>4, <2>1, <2>2 DEF Robs
<1> QED BY <1>3, <1>7, <1>8, <1>9

LEMMA PrizeKeeps ==
  ASSUME SoloInv, NEW id \in Actors, NEW u, NEW e, NEW h, NEW land, NEW m, NEW n \in Nat,
         Advances(st', id, u, e, h, land, m), Crowned(st', id, n),
         n <= TreasureValue(st.pool, Share) + ParticipationValue(st.pool, Share),
         paid' = paid + n, kept' = kept
  PROVE  Balanced'
<1>1. Balanced BY DEF SoloInv
<1>2. /\ st'.act["player"].coins = st.act["player"].coins /\ st'.act["player"].spent = st.act["player"].spent
      /\ st'.act["clan"].coins = st.act["clan"].coins /\ st'.act["clan"].spent = st.act["clan"].spent
      /\ st'.blocked = st.blocked /\ st'.iban = st.iban /\ st'.weight = st.weight
      /\ st'.memberCoins = st.memberCoins /\ st'.pool = st.pool /\ st'.closed = st.closed
  BY DEF Advances, Actors
<1>3. /\ st.toman \in Nat /\ st.tx \in Int /\ paid \in Nat /\ st.pool \in Nat /\ kept \in Nat
      /\ st.toman = kept + st.tx /\ PrizeBound
  BY <1>1 DEF Balanced
<1> DEFINE T == TreasureValue(st.pool, Share)
           P == ParticipationValue(st.pool, Share)
<1>4. T \in Nat /\ P \in Nat BY <1>3, ValuesTyped
<1>5. T + P <= st.pool + Share.floor
  <2>1. TombsTotal \in Nat /\ Share.floor \in Nat BY SoloAssumption, NumbersAssumption
  <2>2. 0 \in 0..TombsTotal BY <2>1
  <2>3. ArtifactValue(st.pool, Share) \in Nat BY <1>3, ValuesTyped
  <2>4. T + P + ArtifactValue(st.pool, Share) * 0 <= st.pool + Share.floor BY <1>3, <2>2, AllWithinPool
  <2>5. ArtifactValue(st.pool, Share) * 0 = 0 BY <2>3
  <2> QED BY <1>4, <2>4, <2>5
<1>6. paid' \in Nat /\ PrizeBound'
  <2> HIDE DEF T, P
  <2>1. Share.floor \in Nat BY NumbersAssumption
  <2>2. CASE st'.treasure = st.treasure /\ n = 0
    <3>1. paid' = paid BY <1>3, <2>2
    <3> QED BY <1>2, <1>3, <2>2, <3>1 DEF PrizeBound
  <2>3. CASE st.treasure = None /\ st'.treasure = id
    <3>1. paid = 0 /\ ~st.closed BY <1>3, <2>3 DEF PrizeBound
    <3>2. paid' = n /\ n <= T + P BY <3>1 DEF T, P
    <3>3. paid' <= st'.pool + Share.floor BY <1>2, <1>3, <1>4, <1>5, <2>1, <3>2
    <3>4. st'.treasure # None BY <2>3, OrderAssumption
    <3> QED BY <1>2, <3>2, <3>3, <3>4 DEF PrizeBound, T, P
  <2> QED BY <1>3, <2>2, <2>3 DEF Crowned
<1>7. st'.toman \in Nat /\ st'.tx \in Int /\ st'.toman = kept' + st'.tx BY <1>3 DEF Crowned
<1>8. st'.treasure \in Actors \cup {None} BY <1>1 DEF Crowned, Balanced
<1> QED BY <1>1, <1>2, <1>6, <1>7, <1>8 DEF Balanced

LEMMA GuardianKeeps ==
  ASSUME SoloInv, NEW id \in Actors, NEW h \in Tiles, st.owned[h] = None,
         NEW left \in [UnitTypes -> Nat], NEW g \in UnitTypes, left[g] >= 1,
         TotalUnits(left) <= TotalUnits(st.act[id].units),
         NEW e, NEW land \in Lands, land.owner = id, land.guardian = g, NEW m,
         Advances(st', id, Garrison(left, g), e, h, land, m)
  PROVE  Manned' /\ st'.act[id].units \in [UnitTypes -> Nat]
<1> DEFINE w == Garrison(left, g)
           o == st.owned
           p == st'.owned
<1>1. Manned /\ LandTyped /\ \A a \in Actors : ActorTyped(st.act[a]) BY DEF SoloInv, ActorsTyped
<1>2. w \in [UnitTypes -> Nat] /\ Shifts(left, w, g, -1)
  <2>1. w = [left EXCEPT ![g] = @ - 1] BY DEF Garrison
  <2> HIDE DEF w
  <2>2. w \in [UnitTypes -> Nat] BY <2>1
  <2> QED BY <2>1, <2>2 DEF Shifts
<1>3. TotalUnits(w) = TotalUnits(left) + (-1)
  <2> HIDE DEF w
  <2> QED BY <1>2, UnitsChanged
<1>4. TotalUnits(left) \in Nat /\ TotalUnits(st.act[id].units) \in Nat
  BY <1>1, UnitsTyped DEF ActorTyped
<1>5. st'.act[id].units = w BY DEF Advances
<1>6. p = [o EXCEPT ![h] = land] /\ DOMAIN o = Tiles /\ land # None /\ g # None
  BY <1>1, OrderAssumption DEF LandTyped, Lands, Advances
<1> HIDE DEF w, o, p
<1>7. p[h] = land /\ \A t \in Tiles : t # h => p[t] = o[t] BY <1>6
<1>8. GuardsOn(p, id) = GuardsOn(o, id) \cup {h} /\ h \notin GuardsOn(o, id)
  BY <1>6, <1>7 DEF GuardsOn, o
<1>9. Cardinality(GuardsOn(p, id)) = Cardinality(GuardsOn(o, id)) + 1
  BY <1>8, GuardsFinite, FS_AddElement
<1>10. \A a \in Actors \ {id} : GuardsOn(p, a) = GuardsOn(o, a)
  BY <1>6, <1>7 DEF GuardsOn, o
<1>11. \A a \in Actors : TotalUnits(st'.act[a].units) + Cardinality(GuardsOn(p, a)) <= st'.act[a].bought
  <2> SUFFICES ASSUME NEW a \in Actors
               PROVE  TotalUnits(st'.act[a].units) + Cardinality(GuardsOn(p, a)) <= st'.act[a].bought
    OBVIOUS
  <2>1. TotalUnits(st.act[a].units) + Cardinality(GuardsOn(o, a)) <= st.act[a].bought
    BY <1>1 DEF Manned, o
  <2>2. Cardinality(GuardsOn(o, a)) \in Nat /\ st.act[a].bought \in Nat /\ TotalUnits(st.act[a].units) \in Nat
    BY <1>1, GuardsFinite, UnitsTyped DEF ActorTyped
  <2>3. st'.act[a].bought = st.act[a].bought BY DEF Advances
  <2>4. CASE a = id BY <1>3, <1>4, <1>5, <1>9, <2>1, <2>2, <2>3, <2>4
  <2>5. CASE a # id
    <3>1. st'.act[a].units = st.act[a].units BY <2>5 DEF Advances
    <3> QED BY <1>10, <2>1, <2>3, <2>5, <3>1
  <2> QED BY <2>4, <2>5
<1> QED BY <1>2, <1>5, <1>11 DEF Manned, p

LEMMA GravesTyped ==
  ASSUME NEW q \in Seq(Graves)
  PROVE  /\ Len(q) \in Nat /\ DOMAIN q = 1..Len(q) /\ \A i \in DOMAIN q : q[i].at \in Tiles
         /\ IsFiniteSet(Visible(q)) /\ Cardinality(Visible(q)) \in Nat
<1>1. Len(q) \in Nat /\ DOMAIN q = 1..Len(q) /\ \A i \in 1..Len(q) : q[i] \in Graves OBVIOUS
<1>2. \A i \in DOMAIN q : q[i].at \in Tiles BY <1>1 DEF Graves
<1>3. IsFiniteSet(1..Len(q)) /\ Visible(q) \in SUBSET (1..Len(q)) BY <1>1, FS_Interval DEF Visible
<1> QED BY <1>1, <1>2, <1>3, FS_Subset, FS_CardinalityType

LEMMA TombsKeep ==
  ASSUME SoloInv, NEW h \in Tiles, st.owned[h] = None, NEW land \in Lands,
         st'.owned = [st.owned EXCEPT ![h] = land],
         SameTombs(st') \/ \E i \in TombsAt(st, h) : Robs(st', i)
  PROVE  LandTyped' /\ FewVisible' /\ ArtifactsOfTombs'
<1>1. LandTyped /\ FewVisible /\ ArtifactsOfTombs BY DEF SoloInv
<1>2. /\ st'.owned \in [Tiles -> Lands \cup {None}]
      /\ st'.owned[h] # None /\ \A t \in Tiles : st.owned[t] # None => st'.owned[t] # None
  BY <1>1, OrderAssumption DEF LandTyped, Lands
<1>3. st.tombs \in Seq(Graves) /\ Len(st.tombs) \in Nat /\ TombsTotal \in Nat
  BY <1>1, SoloAssumption DEF LandTyped
<1>4. \A i \in DOMAIN st.tombs : st.tombs[i].at \in Tiles BY <1>3, GravesTyped
<1>5. CASE SameTombs(st')
  <2>1. /\ st'.tombs = st.tombs /\ st'.act["player"].arts = st.act["player"].arts
        /\ st'.act["clan"].arts = st.act["clan"].arts
    BY <1>5 DEF SameTombs, Actors
  <2>2. LandTyped' /\ FewVisible' BY <1>1, <1>2, <2>1 DEF LandTyped, FewVisible
  <2>3. ArtifactsOfTombs' BY <1>1, <1>2, <1>4, <2>1 DEF ArtifactsOfTombs, Of
  <2> QED BY <2>2, <2>3
<1>6. ASSUME NEW i \in TombsAt(st, h), Robs(st', i)
      PROVE  LandTyped' /\ FewVisible' /\ ArtifactsOfTombs'
  <2>1. PICK next \in Tiles \cup {None} :
          st'.tombs = Opened(st.tombs, i, next) /\ (next # None => Len(st.tombs) < TombsTotal)
    BY <1>6 DEF Robs
  <2>2. i \in Visible(st.tombs) /\ st.tombs[i].at = h /\ i \notin Robbed(st.tombs)
    BY DEF TombsAt, Visible, Robbed
  <2>3. /\ st'.tombs \in Seq(Graves)
        /\ Len(st'.tombs) <= IF next = None THEN Len(st.tombs) ELSE Len(st.tombs) + 1
        /\ Cardinality(Visible(st'.tombs)) <= Cardinality(Visible(st.tombs))
        /\ Robbed(st'.tombs) = Robbed(st.tombs) \cup {i}
        /\ \A j \in Robbed(st.tombs) \cup {i} : st'.tombs[j].at = st.tombs[j].at
    <3> DEFINE q == st.tombs
    <3>1. q \in Seq(Graves) /\ i \in Visible(q) BY <1>3, <2>2
    <3> HIDE DEF q
    <3>2. /\ Opened(q, i, next) \in Seq(Graves)
          /\ Len(Opened(q, i, next)) <= IF next = None THEN Len(q) ELSE Len(q) + 1
          /\ Cardinality(Visible(Opened(q, i, next))) <= Cardinality(Visible(q))
          /\ Robbed(Opened(q, i, next)) = Robbed(q) \cup {i}
          /\ \A j \in Robbed(q) \cup {i} : Opened(q, i, next)[j].at = q[j].at
      BY <3>1, TombOpened
    <3> QED BY <2>1, <3>2 DEF q
  <2>4. LandTyped'
    <3>1. Len(st'.tombs) \in Nat BY <2>3
    <3>2. Len(st'.tombs) <= TombsTotal BY <1>1, <1>3, <2>1, <2>3, <3>1 DEF LandTyped
    <3> QED BY <1>2, <2>3, <3>2 DEF LandTyped
  <2>5. FewVisible'
    <3>1. /\ Cardinality(Visible(st.tombs)) \in Nat /\ Cardinality(Visible(st'.tombs)) \in Nat
          /\ Len(FirstTombs) \in Nat BY <1>3, <2>3, GravesTyped, SoloAssumption
    <3> QED BY <1>1, <2>3, <3>1 DEF FewVisible
  <2>6. ArtifactsOfTombs'
    <3>1. PICK heir \in Actors : /\ st'.act[heir].arts = st.act[heir].arts \cup {i}
                                 /\ \A a \in Actors \ {heir} : st'.act[a].arts = st.act[a].arts
      BY <1>6 DEF Robs
    <3>2. /\ st.act["player"].arts \cap st.act["clan"].arts = {}
          /\ st.act["player"].arts \cup st.act["clan"].arts = Robbed(st.tombs)
          /\ \A j \in Robbed(st.tombs) : st.owned[st.tombs[j].at] # None
      BY <1>1 DEF ArtifactsOfTombs, Of, Robbed
    <3>3. /\ st'.act["player"].arts \cap st'.act["clan"].arts = {}
          /\ st'.act["player"].arts \cup st'.act["clan"].arts = Robbed(st'.tombs)
      BY <2>2, <2>3, <3>1, <3>2 DEF Actors
    <3>4. \A j \in Robbed(st'.tombs) : st'.owned[st'.tombs[j].at] # None
      <4> SUFFICES ASSUME NEW j \in Robbed(st'.tombs) PROVE st'.owned[st'.tombs[j].at] # None OBVIOUS
      <4>1. j \in Robbed(st.tombs) \cup {i} /\ st'.tombs[j].at = st.tombs[j].at BY <2>3
      <4>2. CASE j = i BY <1>2, <2>2, <4>1, <4>2
      <4>3. CASE j \in Robbed(st.tombs)
        <5>1. st.owned[st.tombs[j].at] # None BY <3>2, <4>3
        <5>2. st.tombs[j].at \in Tiles BY <1>4, <4>3 DEF Robbed
        <5> QED BY <1>2, <4>1, <5>1, <5>2
      <4> QED BY <4>1, <4>2, <4>3
    <3> QED BY <3>3, <3>4 DEF ArtifactsOfTombs, Of, Robbed
  <2> QED BY <2>4, <2>5, <2>6
<1> QED BY <1>5, <1>6

LEMMA TileCostTyped ==
  ASSUME NEW m \in Caravans, NEW t, Supply[t] \in Nat
  PROVE  TileCost(m, t) \in Nat
<1>1. m.path \in Seq(Tiles) /\ m.prepaid \in Nat BY DEF Caravans
<1>2. LongFactor(Cardinality(NewOn(m.path))) \in Nat BY <1>1, NewOnFinite, LongFactorTyped
<1>3. \A a, b \in Nat : a * b \in Nat OBVIOUS
<1>4. Supply[t] * LongFactor(Cardinality(NewOn(m.path))) \in Nat BY <1>2, <1>3
<1>5. CeilDiv(Supply[t] * LongFactor(Cardinality(NewOn(m.path))), 100) \in Nat BY <1>4, CeilDivTyped
<1> QED BY <1>1, <1>5 DEF TileCost

LEMMA CaptureXpTyped ==
  ASSUME NEW t, NEW n \in Nat
  PROVE  CaptureXp(t, n, Xp) \in Nat
<1>1. Xp.base \in Nat /\ Xp.div \in Nat \ {0} /\ Xp.tomb \in Nat /\ Xp.treasure \in Nat
  BY NumbersAssumption
<1> DEFINE a == 2 * n + Xp.div
           b == 2 * Xp.div
<1>2. a \in Nat /\ b \in Nat \ {0} BY <1>1
<1> HIDE DEF a, b
<1>3. a \div b \in Nat BY <1>2, Quotient
<1>4. Xp.base + a \div b \in Nat BY <1>1, <1>3
<1> QED BY <1>1, <1>4 DEF CaptureXp, a, b

\* What a step that wins a tile does, in all its cases.
LEMMA WinAdvances ==
  ASSUME SoloInv, TickWin
  PROVE  LET id == st.migration.actor IN
         \E left \in [UnitTypes -> Nat], g \in UnitTypes, cost \in Nat, n \in Nat :
           /\ left[g] >= 1 /\ TotalUnits(left) <= TotalUnits(st.act[id].units)
           /\ Advances(st', id, Garrison(left, g), Tired(id), Here,
                       [owner |-> id, guardian |-> g, cost |-> cost], NextStep(st.migration))
           /\ SameTombs(st') \/ \E i \in TombsAt(st, Here) : Robs(st', i)
           /\ Crowned(st', id, n)
           /\ n <= TreasureValue(st.pool, Share) + ParticipationValue(st.pool, Share)
           /\ paid' = paid + n
<1> DEFINE m == st.migration
           id == m.actor
           t == TerrainAt(Here)
           heir == IF st.inClan THEN "clan" ELSE id
           wins == t = "treasure" /\ st.treasure = None
           x == CaptureXp(t, MonstersAt(Here), Xp)
           cost == TileCost(m, t)
<1>1. m # None BY DEF TickWin
<1>2. Here \in Tiles /\ id \in Actors /\ m \in Caravans BY <1>1, OnTheWay DEF SoloInv, WayTyped
<1>3. Supply[t] \in Nat /\ MonstersAt(Here) \in Nat BY <1>2, SupplyTyped DEF MonstersAt
<1>4. x \in Nat BY <1>3, CaptureXpTyped
<1>5. cost \in Nat BY <1>2, <1>3, TileCostTyped
<1>6. heir \in Actors BY <1>2 DEF Actors
<1>7. ActorTyped(st.act[id]) /\ st.toman \in Nat /\ st.tx \in Int /\ st.pool \in Nat
  BY <1>2 DEF SoloInv, ActorsTyped, Balanced
<1> HIDE DEF x, cost, heir, wins
<1>8. PICK losses \in LossesOf(Army(id), MonstersAt(Here), AllUnits) :
        LET left == Left(Army(id), losses)
            g == CheapestUnit(left, Price, UnitOrder)
            c == CapturedBy(id, Garrison(left, g), Tired(id), Here, x,
                            [owner |-> id, guardian |-> g, cost |-> cost], NextStep(m))
            crowned == IF wins THEN Pay([c EXCEPT !.treasure = id], AllPrizes(c, id)) ELSE c
        IN  /\ TotalUnits(left) >= 1
            /\ \/ TombsAt(st, Here) = {} /\ st' = crowned
               \/ \E i \in TombsAt(st, Here), next \in NextTombs(c) :
                    st' = TombTaken(crowned, heir, i, next)
            /\ paid' = paid + IF wins THEN AllPrizes(c, id) ELSE 0
  BY Zenon DEF TickWin, CapturedBy, x, cost, heir, wins
<1> DEFINE left == Left(Army(id), losses)
           g == CheapestUnit(left, Price, UnitOrder)
           u == Garrison(left, g)
           e == Tired(id)
           land == [owner |-> id, guardian |-> g, cost |-> cost]
           c == CapturedBy(id, u, e, Here, x, land, NextStep(m))
           n == IF wins THEN AllPrizes(c, id) ELSE 0
           crowned == IF wins THEN Pay([c EXCEPT !.treasure = id], n) ELSE c
<1>9. left \in [UnitTypes -> Nat] /\ TotalUnits(left) <= TotalUnits(st.act[id].units)
  <2>1. Army(id) \in [UnitTypes -> Nat] /\ Army(id) = st.act[id].units BY <1>7 DEF ActorTyped, Army, Of
  <2> QED BY <1>3, <2>1, LossesTyped
<1>10. g \in UnitTypes /\ left[g] >= 1
  <2>1. TotalUnits(left) >= 1 BY <1>8
  <2> HIDE DEF left
  <2> QED BY <1>9, <2>1, GuardianThere
<1> HIDE DEF left, g, u, e, land
<1>11. Advances(c, id, u, e, Here, land, NextStep(m)) /\ SameTombs(c) /\ Crowned(c, id, 0)
  BY <1>2, <1>4, CaptureAdvances
<1>12. n \in Nat /\ n <= TreasureValue(st.pool, Share) + ParticipationValue(st.pool, Share)
  <2>1. TreasureValue(st.pool, Share) \in Nat /\ ParticipationValue(st.pool, Share) \in Nat
    BY <1>7, ValuesTyped
  <2> QED BY <2>1 DEF AllPrizes, TreasurePrize
<1>13. \/ TombsAt(st, Here) = {} /\ st' = crowned
       \/ \E i \in TombsAt(st, Here), next \in NextTombs(c) : st' = TombTaken(crowned, heir, i, next)
  BY <1>8 DEF left, g, u, e, land
<1>14. paid' = paid + n BY <1>8 DEF left, g, u, e, land
<1> HIDE DEF n, c
<1>15. Advances(crowned, id, u, e, Here, land, NextStep(m)) /\ SameTombs(crowned) /\ Crowned(crowned, id, n)
  <2>1. CASE wins
    <3>1. st.treasure = None BY <2>1 DEF wins
    <3>2. LET s == Pay([c EXCEPT !.treasure = id], n)
          IN  Advances(s, id, u, e, Here, land, NextStep(m)) /\ SameTombs(s) /\ Crowned(s, id, n)
      BY <1>2, <1>7, <1>11, <1>12, <3>1, PrizeAdvances
    <3> QED BY <2>1, <3>2
  <2>2. CASE ~wins
    <3>1. n = 0 BY <2>2 DEF n
    <3> QED BY <1>11, <2>2, <3>1
  <2> QED BY <2>1, <2>2
<1>16. NextTombs(c) \subseteq NextTombs(crowned)
  <2>1. DOMAIN c = Fields BY <1>11 DEF Advances, Shaped
  <2>2. crowned.tombs = c.tombs /\ crowned.owned = c.owned BY <2>1 DEF Pay, Fields
  <2> HIDE DEF crowned
  <2> QED BY <2>2 DEF NextTombs, TombsAt
<1> HIDE DEF crowned
<1>17. /\ Advances(st', id, u, e, Here, land, NextStep(m)) /\ Crowned(st', id, n)
       /\ SameTombs(st') \/ \E i \in TombsAt(st, Here) : Robs(st', i)
  <2>1. CASE st' = crowned BY <1>15, <2>1
  <2>2. ASSUME NEW i \in TombsAt(st, Here), NEW next \in NextTombs(c), st' = TombTaken(crowned, heir, i, next)
        PROVE  /\ Advances(st', id, u, e, Here, land, NextStep(m)) /\ Crowned(st', id, n)
               /\ Robs(st', i)
    <3>1. next \in NextTombs(crowned) /\ crowned.tombs = st.tombs BY <1>15, <1>16 DEF SameTombs
    <3>2. LET s == TombTaken(crowned, heir, i, next)
          IN  Advances(s, id, u, e, Here, land, NextStep(m)) /\ Robs(s, i) /\ Crowned(s, id, n)
      BY <1>2, <1>6, <1>15, <3>1, TombAdvances
    <3> QED BY <2>2, <3>2
  <2> QED BY <1>13, <2>1, <2>2
<1>18. Advances(st', id, Garrison(left, g), Tired(id), Here,
                [owner |-> id, guardian |-> g, cost |-> cost], NextStep(m))
  BY <1>17 DEF u, e, land
<1> QED BY <1>5, <1>9, <1>10, <1>12, <1>14, <1>17, <1>18

LEMMA TickWinKeeps == ASSUME SoloInv, TickWin PROVE SoloInv'
<1> DEFINE id == st.migration.actor
           h == Here
           m == NextStep(st.migration)
<1>1. /\ h \in Tiles /\ id \in Actors /\ (id = "player" \/ st.inClan)
      /\ (m # None => m \in Caravans /\ m.step \in 1..Len(m.path) /\ m.actor = id)
  <2>1. st.migration # None BY DEF TickWin
  <2> QED BY <2>1, OnTheWay
<1>2. st.owned[h] = None
  <2>1. ~IsOwn(h) BY DEF TickWin
  <2> HIDE DEF h
  <2> QED BY <1>1, <2>1 DEF SoloInv, Sided, IsOwn
<1>3. PICK left \in [UnitTypes -> Nat], g \in UnitTypes, cost \in Nat, n \in Nat :
        /\ left[g] >= 1 /\ TotalUnits(left) <= TotalUnits(st.act[id].units)
        /\ Advances(st', id, Garrison(left, g), Tired(id), h,
                    [owner |-> id, guardian |-> g, cost |-> cost], m)
        /\ SameTombs(st') \/ \E i \in TombsAt(st, h) : Robs(st', i)
        /\ Crowned(st', id, n)
        /\ n <= TreasureValue(st.pool, Share) + ParticipationValue(st.pool, Share)
        /\ paid' = paid + n
  BY WinAdvances
<1> DEFINE u == Garrison(left, g)
           e == Tired(id)
           land == [owner |-> id, guardian |-> g, cost |-> cost]
<1>4. land \in Lands /\ land.owner = id /\ land.guardian = g BY <1>1 DEF Lands
<1>5. ActorsTyped /\ WayTyped /\ Sided /\ \A a \in Actors : ActorTyped(st.act[a])
  BY DEF SoloInv, ActorsTyped
<1>6. e \in 0..EnergyMax BY <1>1, <1>5, TiredTyped
<1>7. Advances(st', id, u, e, h, land, m) BY <1>3
<1> HIDE DEF id, h, m, e, land
<1>8. Manned' /\ st'.act[id].units \in [UnitTypes -> Nat] BY <1>1, <1>2, <1>3, <1>4, <1>7, GuardianKeeps
<1>9. LandTyped' /\ FewVisible' /\ ArtifactsOfTombs'
  <2>1. st'.owned = [st.owned EXCEPT ![h] = land] BY <1>7 DEF Advances
  <2> QED BY <1>1, <1>2, <1>3, <1>4, <2>1, TombsKeep
<1> HIDE DEF u
<1>10. Balanced'
  <2>1. kept' = kept BY DEF TickWin
  <2> QED BY <1>1, <1>3, <1>7, <2>1, PrizeKeeps
<1>11. Shaped(st') BY <1>7 DEF Advances
<1>12. ActorsTyped'
  <2>1. /\ \A a \in Actors :
             /\ st'.act[a].coins = st.act[a].coins /\ st'.act[a].spent = st.act[a].spent
             /\ st'.act[a].bought = st.act[a].bought /\ st'.act[a].camp = st.act[a].camp
             /\ st'.act[a].xp \in Nat
        /\ st'.act[id].energy = e /\ st'.act[id].pos = h
        /\ \A a \in Actors \ {id} :
             /\ st'.act[a].units = st.act[a].units /\ st'.act[a].energy = st.act[a].energy
             /\ st'.act[a].pos = st.act[a].pos
    BY <1>7 DEF Advances
  <2>2. ActorTyped(st'.act[id]) BY <1>1, <1>5, <1>6, <1>8, <2>1 DEF ActorTyped
  <2>3. \A a \in Actors \ {id} : ActorTyped(st'.act[a]) BY <1>5, <2>1 DEF ActorTyped
  <2>4. st'.act["player"].camp = Camp /\ st'.act["player"].pos \in Tiles
    BY <1>1, <1>5, <2>1 DEF ActorsTyped, Actors
  <2> QED BY <2>2, <2>3, <2>4 DEF ActorsTyped
<1>13. st'.migration = m /\ st'.inClan = st.inClan /\ st'.control = st.control
       /\ st'.memberCoins = st.memberCoins /\ st'.owned = [st.owned EXCEPT ![h] = land]
  BY <1>7 DEF Advances
<1>14. WayTyped' BY <1>1, <1>13 DEF WayTyped
<1>15. Sided'
  <2>1. DOMAIN st.owned = Tiles BY DEF SoloInv, LandTyped
  <2>2. st'.owned[h] = land /\ \A t \in Tiles \ {h} : st'.owned[t] = st.owned[t] BY <1>1, <1>13, <2>1
  <2> QED BY <1>1, <1>4, <1>5, <1>13, <2>2 DEF Sided
<1> QED BY <1>8, <1>9, <1>10, <1>11, <1>12, <1>14, <1>15 DEF SoloInv

-----------------------------------------------------------------------------
(* The end of a season, and the next one.                                  *)

\* As many artifacts as tombs have been robbed, which are at most all there are.
LEMMA ArtifactsCounted ==
  ASSUME SoloInv
  PROVE  Cardinality(st.act["player"].arts) + Cardinality(st.act["clan"].arts) \in 0..TombsTotal
<1> DEFINE P == st.act["player"].arts
           C == st.act["clan"].arts
           q == st.tombs
<1>1. q \in Seq(Graves) /\ Len(q) <= TombsTotal /\ P \cap C = {} /\ P \cup C = Robbed(q)
  BY DEF SoloInv, LandTyped, ArtifactsOfTombs, Of, Robbed
<1>2. Len(q) \in Nat /\ DOMAIN q = 1..Len(q) BY <1>1
<1>3. IsFiniteSet(1..Len(q)) /\ Cardinality(1..Len(q)) = Len(q) BY <1>2, FS_Interval
<1> HIDE DEF P, C, q
<1>4. P \cup C \in SUBSET (1..Len(q)) BY <1>1, <1>2 DEF Robbed
<1>5. IsFiniteSet(P) /\ IsFiniteSet(C) BY <1>3, <1>4, FS_Subset
<1>6. Cardinality(P \cup C) = Cardinality(P) + Cardinality(C) - Cardinality(P \cap C) BY <1>5, FS_Union
<1>7. Cardinality(P \cap C) = 0 BY <1>1, FS_EmptySet
<1>8. Cardinality(P \cup C) <= Len(q) BY <1>3, <1>4, FS_Subset
<1>9. Cardinality(P) \in Nat /\ Cardinality(C) \in Nat BY <1>5, FS_CardinalityType
<1>10. Cardinality(P) + Cardinality(C) <= Len(q) BY <1>6, <1>7, <1>8, <1>9
<1>11. Cardinality(P) + Cardinality(C) \in 0..TombsTotal BY <1>1, <1>2, <1>9, <1>10, SoloAssumption
<1> QED BY <1>11 DEF P, C

LEMMA TickCloseKeeps == ASSUME SoloInv, TickClose PROVE SoloInv'
<1>1. Shaped(st) /\ ActorsTyped /\ Sided /\ Balanced BY DEF SoloInv
<1> DEFINE k == Cardinality(st.act["player"].arts) + Cardinality(st.act["clan"].arts)
           sales == ArtifactValue(st.pool, Share) * k
           sold == Pay([st EXCEPT !.closed = TRUE, !.migration = None, !.blocked = 0], sales)
<1>2. /\ st.treasure # None /\ ~st.closed
      /\ st' = IF st.iban THEN [sold EXCEPT !.toman = 0, !.tx = @ - sold.toman] ELSE sold
      /\ paid' = paid + sales /\ kept' = kept
  BY DEF TickClose, Of
<1>3. k \in 0..TombsTotal /\ TombsTotal \in Nat BY ArtifactsCounted, SoloAssumption
<1>4. /\ st.pool \in Nat /\ st.toman \in Nat /\ st.tx \in Int /\ kept \in Nat /\ paid \in Nat
      /\ st.toman = kept + st.tx /\ PrizeBound
  BY <1>1 DEF Balanced
<1> DEFINE T == TreasureValue(st.pool, Share)
           P == ParticipationValue(st.pool, Share)
<1>5. T \in Nat /\ P \in Nat /\ ArtifactValue(st.pool, Share) \in Nat BY <1>4, ValuesTyped
<1>6. T + P + sales <= st.pool + Share.floor BY <1>3, <1>4, AllWithinPool
<1>7. sales \in Nat
  <2>1. \A a, b \in Nat : a * b \in Nat OBVIOUS
  <2>2. k \in Nat BY <1>3
  <2> QED BY <1>5, <2>1, <2>2
<1>8. paid' \in Nat /\ paid' <= st.pool + Share.floor
  <2>1. paid <= T + P BY <1>2, <1>4 DEF PrizeBound
  <2>2. Share.floor \in Nat BY NumbersAssumption
  <2> HIDE DEF T, P, sales
  <2> QED BY <1>2, <1>4, <1>5, <1>6, <1>7, <2>1, <2>2
<1> HIDE DEF sales, k
<1>9. Shaped(sold) BY <1>1 DEF Shaped, Fields, Pay
<1>10. /\ sold.toman = st.toman + sales /\ sold.tx = st.tx + sales
       /\ sold.closed = TRUE /\ sold.migration = None /\ sold.blocked = 0
       /\ \A f \in Fields \ {"toman", "tx", "closed", "migration", "blocked"} : sold[f] = st[f]
  BY <1>1, Domains DEF Fields, Pay
<1> HIDE DEF sold
<1>11. /\ Shaped(st') /\ \A f \in Fields \ {"toman", "tx"} : st'[f] = sold[f]
       /\ st'.toman \in Nat /\ st'.tx \in Int /\ st'.toman = kept' + st'.tx
  <2>1. CASE st.iban
    <3>1. st' = [sold EXCEPT !.toman = 0, !.tx = @ - sold.toman] BY <1>2, <2>1
    <3>2. Shaped(st') BY <1>9, <3>1 DEF Shaped, Fields
    <3>3. DOMAIN sold = Fields BY <1>9 DEF Shaped
    <3>4. /\ st'.toman = 0 /\ st'.tx = sold.tx - sold.toman
          /\ \A f \in Fields \ {"toman", "tx"} : st'[f] = sold[f]
      BY <3>1, <3>3 DEF Fields
    <3>5. sold.tx - sold.toman = -kept BY <1>4, <1>7, <1>10
    <3>6. st'.toman \in Nat /\ st'.tx \in Int /\ st'.toman = kept' + st'.tx BY <1>2, <1>4, <3>4, <3>5
    <3> QED BY <3>2, <3>4, <3>6
  <2>2. CASE ~st.iban
    <3>1. st' = sold BY <1>2, <2>2
    <3>2. Shaped(st') BY <1>9, <3>1
    <3>3. st'.toman \in Nat /\ st'.tx \in Int /\ st'.toman = kept' + st'.tx BY <1>2, <1>4, <1>7, <1>10, <3>1
    <3> QED BY <3>1, <3>2, <3>3
  <2> QED BY <2>1, <2>2
<1>12. /\ st'.act = st.act /\ st'.inClan = st.inClan /\ st'.control = st.control /\ st'.owned = st.owned
       /\ st'.tombs = st.tombs /\ st'.iban = st.iban /\ st'.pool = st.pool /\ st'.weight = st.weight
       /\ st'.memberCoins = st.memberCoins /\ st'.treasure = st.treasure
       /\ st'.closed = TRUE /\ st'.migration = None /\ st'.blocked = 0
  BY <1>10, <1>11 DEF Fields
<1>13. SameActors /\ SameLand BY <1>12 DEF SameActors, SameLand
<1>14. WayTyped' /\ Sided' BY <1>1, <1>12 DEF WayTyped, Sided
<1>15. PrizeBound' BY <1>2, <1>8, <1>12 DEF PrizeBound
<1>16. Balanced' BY <1>1, <1>2, <1>8, <1>11, <1>12, <1>15 DEF Balanced
<1> QED BY <1>11, <1>13, <1>14, <1>16, LandKept, ActorsKept DEF SoloInv

\* The state every season begins with.
Fresh == \E n \in Nat, b \in BOOLEAN : st = NewState(n, b) /\ kept = n /\ paid = 0

LEMMA FreshTombs ==
  LET q == [i \in DOMAIN FirstTombs |-> [at |-> FirstTombs[i], captured |-> FALSE]]
  IN  /\ q \in Seq(Graves) /\ Len(q) <= TombsTotal
      /\ Robbed(q) = {} /\ Cardinality(Visible(q)) <= Len(FirstTombs)
<1> DEFINE q == [i \in DOMAIN FirstTombs |-> [at |-> FirstTombs[i], captured |-> FALSE]]
           n == Len(FirstTombs)
<1>1. n \in Nat /\ DOMAIN FirstTombs = 1..n /\ n <= TombsTotal /\ \A i \in 1..n : FirstTombs[i] \in Tiles
  BY SoloAssumption
<1>2. q \in [1..n -> Graves] /\ \A i \in 1..n : q[i].captured = FALSE BY <1>1 DEF Graves
<1> HIDE DEF q
<1>3. q \in Seq(Graves) BY <1>1, <1>2, SeqDef
<1>4. DOMAIN q = 1..n BY <1>2
<1>5. Len(q) = n BY <1>1, <1>3, <1>4
<1>6. Robbed(q) = {} /\ Visible(q) = 1..n BY <1>2, <1>4 DEF Robbed, Visible
<1>7. Cardinality(1..n) = n
  <2> HIDE DEF n
  <2>1. Cardinality(1..n) = IF 1 > n THEN 0 ELSE n - 1 + 1 BY <1>1, FS_Interval
  <2> QED BY <1>1, <2>1
<1> QED BY <1>1, <1>3, <1>5, <1>6, <1>7 DEF q

LEMMA FreshActors ==
  LET u == [k \in UnitTypes |-> 0] IN
  /\ u \in [UnitTypes -> Nat] /\ TotalUnits(u) = 0
<1> DEFINE u == [k \in UnitTypes |-> 0]
<1>1. \A k \in UnitTypes : u[k] = 0 OBVIOUS
<1>2. u \in [UnitTypes -> Nat] /\ DOMAIN u = UnitTypes OBVIOUS
<1> HIDE DEF u
<1>3. IsFiniteSet(UnitTypes) BY TypesListed
<1>4. SumOver(u, UnitTypes) = 0 BY <1>1, <1>3, SumZero
<1> QED BY <1>2, <1>4 DEF TotalUnits, u

LEMMA FreshKeeps == Fresh => SoloInv
<1> SUFFICES ASSUME NEW n \in Nat, NEW b \in BOOLEAN, st = NewState(n, b), kept = n, paid = 0
             PROVE  SoloInv
  BY DEF Fresh
<1> DEFINE A == [a \in Actors |-> IF a = "clan" THEN NewActor
                                  ELSE [NewActor EXCEPT !.camp = Camp, !.pos = Camp, !.coins = StartCoins]]
           O == [t \in Tiles |-> IF t = Camp THEN [owner |-> "player", guardian |-> None, cost |-> 0]
                                 ELSE None]
           q == [i \in DOMAIN FirstTombs |-> [at |-> FirstTombs[i], captured |-> FALSE]]
<1>1. /\ st = [f \in Fields |-> st[f]]
      /\ st.act = A /\ st.owned = O /\ st.tombs = q
      /\ st.toman = n /\ st.iban = b /\ st.blocked = 0 /\ st.tx = 0 /\ st.inClan = FALSE
      /\ st.weight = 0 /\ st.memberCoins = 0 /\ st.control = "player" /\ st.migration = None
      /\ st.pool = 0 /\ st.treasure = None /\ st.closed = FALSE
  BY DEF NewState, Fields
<1>2. /\ A = [a \in Actors |-> A[a]] /\ \A a \in Actors : A[a] = [f \in ActorFields |-> A[a][f]]
      /\ A["player"].camp = Camp /\ A["player"].pos = Camp
      /\ A["player"].coins = StartCoins /\ A["clan"].coins = 0
      /\ \A a \in Actors :
           /\ A[a].units = [k \in UnitTypes |-> 0] /\ A[a].energy = EnergyMax /\ A[a].xp = 0
           /\ A[a].arts = {} /\ A[a].spent = 0 /\ A[a].bought = 0
  BY DEF NewActor, ActorFields, Actors
<1>3. O \in [Tiles -> Lands \cup {None}] /\ \A t \in Tiles : O[t] # None => O[t].owner = "player"
  BY DEF Lands, Actors
<1>4. \A id \in Actors : GuardsOn(O, id) = {} BY DEF GuardsOn
<1> HIDE DEF A, O, q
<1>5. Shaped(st) BY <1>1, <1>2 DEF Shaped
<1>6. \A a \in Actors : st.act[a].units \in [UnitTypes -> Nat] /\ TotalUnits(st.act[a].units) = 0
  BY <1>1, <1>2, FreshActors
<1>7. StartCoins \in Nat /\ EnergyMax \in Nat /\ CoinToman \in Nat /\ Share.floor \in Nat
  BY NumbersAssumption
<1>8. ActorsTyped
  <2>1. \A a \in Actors : ActorTyped(st.act[a]) BY <1>1, <1>2, <1>6, <1>7 DEF ActorTyped, Actors
  <2> QED BY <1>1, <1>2, <2>1, SoloAssumption DEF ActorsTyped
<1>9. WayTyped BY <1>1 DEF WayTyped
<1>10. Sided BY <1>1, <1>3 DEF Sided, Actors
<1>11. /\ q \in Seq(Graves) /\ Len(q) <= TombsTotal
       /\ Robbed(q) = {} /\ Cardinality(Visible(q)) <= Len(FirstTombs)
  BY FreshTombs DEF q
<1>12. LandTyped /\ FewVisible BY <1>1, <1>3, <1>11 DEF LandTyped, FewVisible
<1>13. ArtifactsOfTombs
  <2>1. st.act["player"].arts = {} /\ st.act["clan"].arts = {} BY <1>1, <1>2 DEF Actors
  <2>2. {i \in DOMAIN st.tombs : st.tombs[i].captured} = {} BY <1>1, <1>11 DEF Robbed
  <2> QED BY <2>1, <2>2 DEF ArtifactsOfTombs, Of
<1>14. Manned
  <2> SUFFICES ASSUME NEW a \in Actors
               PROVE  TotalUnits(st.act[a].units) + Cardinality(GuardsOn(st.owned, a)) <= st.act[a].bought
    BY DEF Manned
  <2>1. TotalUnits(st.act[a].units) = 0 /\ st.act[a].bought = 0 BY <1>1, <1>2, <1>6
  <2>2. Cardinality(GuardsOn(st.owned, a)) = 0 BY <1>1, <1>4, FS_EmptySet
  <2> QED BY <2>1, <2>2
<1>15. Balanced
  <2>1. TreasureValue(0, Share) \in Nat /\ ParticipationValue(0, Share) \in Nat BY ValuesTyped
  <2>2. PrizeBound BY <1>1, <1>7, <2>1 DEF PrizeBound
  <2>3. /\ st.act["player"].coins = StartCoins /\ st.act["player"].spent = 0
        /\ st.act["clan"].coins = 0 /\ st.act["clan"].spent = 0
    BY <1>1, <1>2 DEF Actors
  <2>4. (StartCoins + 0 - StartCoins) * CoinToman = 0 BY <1>7
  <2>5. /\ (st.act["player"].coins + st.act["player"].spent - StartCoins) * CoinToman = st.pool
        /\ st.act["clan"].coins + st.act["clan"].spent <= st.memberCoins
    BY <1>1, <2>3, <2>4
  <2>6. st.toman \in Nat /\ st.tx \in Int /\ kept \in Nat /\ st.toman = kept + st.tx BY <1>1
  <2>7. st.closed \in BOOLEAN /\ st.iban \in BOOLEAN /\ st.treasure \in Actors \cup {None} BY <1>1
  <2> QED BY <1>1, <2>2, <2>5, <2>6, <2>7 DEF Balanced
<1> QED BY <1>5, <1>8, <1>9, <1>10, <1>12, <1>13, <1>14, <1>15 DEF SoloInv

LEMMA FreshNext == Fresh' => SoloInv'
BY FreshKeeps, PTL

LEMMA QuitSeasonKeeps == ASSUME SoloInv, QuitSeason PROVE SoloInv'
<1>1. st.toman \in Nat /\ st.iban \in BOOLEAN BY DEF SoloInv, Balanced
<1>2. Fresh' BY <1>1 DEF QuitSeason, Fresh
<1> QED BY <1>2, FreshNext

-----------------------------------------------------------------------------
(* Every state, and what it says.                                          *)

LEMMA TickKeeps == ASSUME SoloInv, Tick PROVE SoloInv'
BY TickRestKeeps, TickOwnKeeps, TickLoseKeeps, TickWinKeeps, TickCloseKeeps DEF Tick

LEMMA NextKeeps == SoloInv /\ [Next]_vars => SoloInv'
<1> SUFFICES ASSUME SoloInv, [Next]_vars PROVE SoloInv' OBVIOUS
<1>1. CASE UNCHANGED vars
  <2>1. st' = st /\ kept' = kept /\ paid' = paid BY <1>1 DEF vars
  <2>2. SameActors /\ SameLand /\ SameSides /\ SameMoney BY <2>1 DEF SameActors, SameLand, SameSides, SameMoney
  <2>3. Shaped(st') BY <2>1 DEF SoloInv
  <2> QED BY <2>2, <2>3, ActorsKept, LandKept, SidesKept, MoneyKept DEF SoloInv
<1>2. CASE RegisterName \/ Deposit \/ BuyCoins \/ SetIban \/ Withdraw
  BY <1>2, RegisterNameKeeps, DepositKeeps, BuyCoinsKeeps, SetIbanKeeps, WithdrawKeeps
<1>3. ASSUME NEW id \in Actors, BuyUnits(id) \/ Rest(id) \/ SwitchControl(id) PROVE SoloInv'
  BY <1>3, BuyUnitsKeeps, RestKeeps, SwitchControlKeeps
<1>4. ASSUME NEW id \in Actors, NEW t \in Tiles, StartMove(id, t) PROVE SoloInv' BY <1>4, StartMoveKeeps
<1>5. CASE CancelMove \/ Tick BY <1>5, CancelMoveKeeps, TickKeeps
<1>6. CASE CreateClan \/ ClanDeposit \/ DonateUnits
  BY <1>6, CreateClanKeeps, ClanDepositKeeps, DonateUnitsKeeps
<1>7. ASSUME NEW t \in Tiles, SetClanCamp(t) PROVE SoloInv' BY <1>7, SetClanCampKeeps
<1>8. CASE QuitSeason BY <1>8, QuitSeasonKeeps
<1> QED BY <1>1, <1>2, <1>3, <1>4, <1>5, <1>6, <1>7, <1>8 DEF Next

\* Whatever is bought, won, lost, given to a clan or given up, in any number of
\* seasons: all parts of the State object of src/rules/state.ts fit together.
THEOREM SoloInvHolds == Spec => []SoloInv
<1>1. Init => Fresh
  <2>1. 0 \in Nat /\ FALSE \in BOOLEAN OBVIOUS
  <2> QED BY <2>1 DEF Init, Fresh
<1>2. Init => SoloInv BY <1>1, FreshKeeps
<1> QED BY <1>2, NextKeeps, PTL DEF Spec

\* Where nothing is too much, nobody is sent away.
LEMMA NothingToCut ==
  ASSUME NEW u \in [UnitTypes -> Nat], NEW n \in Int, n <= 0
  PROVE  [k \in UnitTypes |-> AtLeast(0, u[k] - AtLeast(0, n - SumOver(u, {AllUnits[i] : i \in 1..Rank(k, AllUnits) - 1})))] = u
<1> DEFINE before(k) == SumOver(u, {AllUnits[i] : i \in 1..Rank(k, AllUnits) - 1})
<1>1. \A k \in UnitTypes : before(k) \in Nat
  <2> SUFFICES ASSUME NEW k \in UnitTypes PROVE before(k) \in Nat OBVIOUS
  <2> DEFINE r == Rank(k, AllUnits)
             S == {AllUnits[i] : i \in 1..r - 1}
  <2>1. r \in DOMAIN AllUnits /\ AllUnits \in Seq(UnitTypes) /\ IsFiniteSet(UnitTypes)
    BY RankListed, TypesListed, OrderAssumption
  <2> HIDE DEF r
  <2>2. \A i \in 1..r - 1 : AllUnits[i] \in UnitTypes BY <2>1
  <2>3. S \in SUBSET UnitTypes BY <2>2
  <2> HIDE DEF S
  <2>4. IsFiniteSet(S) /\ \A l \in S : u[l] \in Nat BY <2>1, <2>3, FS_Subset
  <2>5. SumOver(u, S) \in Nat BY <2>4, SumNat
  <2> QED BY <2>5 DEF S, r
<1> HIDE DEF before
<1>2. \A k \in UnitTypes : AtLeast(0, u[k] - AtLeast(0, n - before(k))) = u[k]
  <2> SUFFICES ASSUME NEW k \in UnitTypes PROVE AtLeast(0, u[k] - AtLeast(0, n - before(k))) = u[k] OBVIOUS
  <2>1. AtLeast(0, n - before(k)) = 0 BY <1>1 DEF AtLeast
  <2> QED BY <2>1 DEF AtLeast
<1>3. [k \in UnitTypes |-> AtLeast(0, u[k] - AtLeast(0, n - before(k)))] = u BY <1>2
<1> QED BY <1>3 DEF before

LEMMA Identities ==
  /\ \A n \in Nat : AtLeast(0, n) = n
  /\ \A n \in 0..EnergyMax : AtMost(EnergyMax, AtLeast(0, n)) = n
<1>1. EnergyMax \in Nat BY NumbersAssumption
<1> QED BY <1>1 DEF AtLeast, AtMost

LEMMA NothingRepaired == SoloInv => SanitizeIdle
<1> SUFFICES ASSUME SoloInv PROVE SanitizeIdle OBVIOUS
<1>1. Shaped(st) /\ ActorsTyped /\ LandTyped /\ Manned /\ Balanced /\ \A a \in Actors : ActorTyped(st.act[a])
  BY DEF SoloInv, ActorsTyped
<1> DEFINE Before(k, u) == SumOver(u, {AllUnits[i] : i \in 1..Rank(k, AllUnits) - 1})
           Cut(u, n) == [k \in UnitTypes |-> AtLeast(0, u[k] - AtLeast(0, n - Before(k, u)))]
           Guards(id) == {t \in Tiles : st.owned[t] # None /\ st.owned[t].owner = id
                                          /\ st.owned[t].guardian # None}
           Excess(a, id) == TotalUnits(a.units) + Cardinality(Guards(id)) - a.bought
           Repaired(id) == [st.act[id] EXCEPT !.units = Cut(@, Excess(st.act[id], id)),
                                              !.coins = AtLeast(0, @), !.xp = AtLeast(0, @),
                                              !.energy = AtMost(EnergyMax, AtLeast(0, @))]
           toman == AtLeast(0, st.toman)
           p == Repaired("player")
           camp == IF p.camp \in Tiles /\ Terrain[p.camp] = "safe" THEN p.camp ELSE Camp
           q == [p EXCEPT !.camp = camp, !.pos = IF @ \in Tiles THEN @ ELSE camp]
<1>2. ASSUME NEW id \in Actors PROVE Repaired(id) = st.act[id]
  <2> DEFINE a == st.act[id]
             n == Excess(a, id)
  <2>1. a.units \in [UnitTypes -> Nat] /\ TotalUnits(a.units) \in Nat /\ a.bought \in Nat
        /\ a.coins \in Nat /\ a.xp \in Nat /\ a.energy \in 0..EnergyMax
    BY <1>1, UnitsTyped DEF ActorTyped
  <2>2. Guards(id) = GuardsOn(st.owned, id) BY DEF GuardsOn
  <2>3. Cardinality(Guards(id)) \in Nat BY <2>2, GuardsFinite
  <2>4. TotalUnits(a.units) + Cardinality(Guards(id)) <= a.bought BY <1>1, <2>2 DEF Manned
  <2> HIDE DEF Guards
  <2>5. n \in Int /\ n <= 0 BY <2>1, <2>3, <2>4
  <2> HIDE DEF n
  <2>6. Cut(a.units, n) = a.units BY <2>1, <2>5, NothingToCut
  <2>7. AtLeast(0, a.coins) = a.coins /\ AtLeast(0, a.xp) = a.xp
        /\ AtMost(EnergyMax, AtLeast(0, a.energy)) = a.energy
    BY <2>1, Identities
  <2>8. a = [f \in ActorFields |-> a[f]] BY <1>1 DEF Shaped
  <2> HIDE DEF Cut, a
  <2>9. [a EXCEPT !.units = Cut(@, n), !.coins = AtLeast(0, @), !.xp = AtLeast(0, @),
                  !.energy = AtMost(EnergyMax, AtLeast(0, @))] = a
    BY <2>6, <2>7, <2>8 DEF ActorFields
  <2> QED BY <2>9 DEF a, n
<1>3. Sanitized(st) = [st EXCEPT !.toman = toman, !.pool = AtLeast(0, @),
                                 !.blocked = AtLeast(0, AtMost(toman, @)),
                                 !.act["player"] = q,
                                 !.act["clan"] = IF st.inClan THEN Repaired("clan") ELSE @]
  BY DEF Sanitized
<1> HIDE DEF Repaired
<1>4. p = st.act["player"] /\ Repaired("clan") = st.act["clan"] BY <1>2 DEF Actors
<1>5. toman = st.toman /\ AtLeast(0, st.pool) = st.pool /\ AtLeast(0, AtMost(toman, st.blocked)) = st.blocked
  BY <1>1 DEF Balanced, AtLeast, AtMost
<1>6. q = st.act["player"]
  <2>1. st.act["player"] = [f \in ActorFields |-> st.act["player"][f]] BY <1>1 DEF Shaped, Actors
  <2>2. st.act["player"].camp \in Tiles /\ Terrain[st.act["player"].camp] = "safe" /\ st.act["player"].pos \in Tiles
    BY <1>1, SoloAssumption DEF ActorsTyped
  <2> QED BY <1>4, <2>1, <2>2 DEF ActorFields
<1> HIDE DEF toman, p, camp, q
<1>7. Sanitized(st) = st
  <2>1. st = [f \in Fields |-> st[f]] /\ st.act = [a \in Actors |-> st.act[a]] BY <1>1 DEF Shaped
  <2>2. \/ Sanitized(st) = [st EXCEPT !.toman = st.toman, !.pool = st.pool, !.blocked = st.blocked,
                                     !.act["player"] = st.act["player"], !.act["clan"] = st.act["clan"]]
        \/ Sanitized(st) = [st EXCEPT !.toman = st.toman, !.pool = st.pool, !.blocked = st.blocked,
                                     !.act["player"] = st.act["player"], !.act["clan"] = @]
    BY <1>3, <1>4, <1>5, <1>6
  <2> DEFINE A == st.act
  <2>3. [A EXCEPT !["player"] = A["player"], !["clan"] = A["clan"]] = A
    <3> HIDE DEF A
    <3> QED BY <2>1 DEF A, Actors
  <2>4. [st EXCEPT !.toman = st.toman, !.pool = st.pool, !.blocked = st.blocked, !.act = A] = st
    BY <2>1 DEF Fields
  <2>5. [st EXCEPT !.toman = st.toman, !.pool = st.pool, !.blocked = st.blocked,
                   !.act["player"] = st.act["player"], !.act["clan"] = st.act["clan"]] = st
    BY <2>3, <2>4
  <2>6. [st EXCEPT !.toman = st.toman, !.pool = st.pool, !.blocked = st.blocked,
                   !.act["player"] = st.act["player"], !.act["clan"] = @] = st
    BY <2>3, <2>4
  <2> QED BY <2>2, <2>5, <2>6
<1> QED BY <1>7 DEF SanitizeIdle, SoloInv, FewVisible, Visible

\* A saved game is loaded as it is: sanitize of src/rules/state.ts finds no
\* money, army, energy, camp or number of tombs to repair in any state that
\* the functions of the game lead to.
THEOREM NothingToRepair == Spec => []SanitizeIdle
BY SoloInvHolds, NothingRepaired, PTL

\* In every season each coin and each toman is accounted for, and the prizes
\* are within the pool and the floor of the treasure.
THEOREM AccountsBalance == Spec => []MoneyAccounted
<1>1. SoloInv => MoneyAccounted BY DEF SoloInv, Balanced, PrizeBound, MoneyAccounted, Of
<1> QED BY <1>1, SoloInvHolds, PTL

\* Each captured tomb gave its artifact to one of player and clan, and its
\* tile has an owner.
THEOREM ArtifactsFromTombs == Spec => []ArtifactsOfTombs
<1>1. SoloInv => ArtifactsOfTombs BY DEF SoloInv
<1> QED BY <1>1, SoloInvHolds, PTL

=============================================================================
