---------------------------- MODULE MarketProofs ----------------------------
(***************************************************************************)
(* Proofs about Market: blocked money is that of the open offers, no toman *)
(* appears or vanishes, wallets cover their offers, and the close settles  *)
(* everything.                                                             *)
(***************************************************************************)
EXTENDS Market, SumProofs, SequenceTheorems

-----------------------------------------------------------------------------
(* Types, and what the offers of a player are worth.                       *)

Offers == [art : Ids, bidder : Players, amount : Amounts]
Artifacts == [owner : Players, tomb : Tombs, sold : BOOLEAN]
Withdrawals == [player : Players, amount : Nat, status : {"pending", "paid", "rejected"}]

Typed ==
  /\ toman \in [Players -> Int] /\ blocked \in [Players -> Int] /\ ledger \in [Players -> Int]
  /\ iban \in [Players -> BOOLEAN]
  /\ pool \in Int /\ issued \in Int /\ crashes \in Nat
  /\ art \in [Ids -> {None} \cup Artifacts]
  /\ offers \subseteq Offers /\ IsFiniteSet(offers)
  /\ withdrawals \in Seq(Withdrawals)
  /\ closed \in BOOLEAN

LEMMA OfferParts ==
  ASSUME NEW o \in Offers
  PROVE  o.art \in Ids /\ o.bidder \in Players /\ o.amount \in Nat /\ o.amount > 0
<1>1. o.art \in Ids /\ o.bidder \in Players /\ o.amount \in Amounts
  BY DEF Offers
<1>2. \A n \in Amounts : n \in Nat /\ n > 0
  BY AmountsAssumption
<1> QED BY <1>1, <1>2

\* The sum of the amounts of some offers.
LEMMA TotalNat ==
  ASSUME NEW S \in SUBSET Offers, IsFiniteSet(S)
  PROVE  Total(S) \in Nat
<1>1. \A o \in S : [x \in S |-> x.amount][o] \in Nat
  BY OfferParts
<1> QED BY <1>1, SumNat DEF Total

LEMMA TotalEmpty == Total({}) = 0
BY SumEmpty DEF Total

LEMMA TotalSplit ==
  ASSUME NEW S \in SUBSET Offers, IsFiniteSet(S), NEW T \in SUBSET S
  PROVE  Total(S) = Total(T) + Total(S \ T)
<1> DEFINE f == [x \in S |-> x.amount]
<1>1. \A o \in S : f[o] \in Int
  BY OfferParts
<1>2. SumOver(f, S) = SumOver(f, T) + SumOver(f, S \ T)
  <2> HIDE DEF f
  <2> QED BY <1>1, SumSplit
<1>3. IsFiniteSet(T) /\ IsFiniteSet(S \ T)
  BY FS_Subset
<1>4. ASSUME NEW U \in SUBSET S, IsFiniteSet(U) PROVE Total(U) = SumOver(f, U)
  <2> DEFINE g == [x \in U |-> x.amount]
  <2>1. \A o \in U : f[o] \in Int /\ g[o] = f[o]
    BY <1>1
  <2>2. SumOver(g, U) = SumOver(f, U)
    <3> HIDE DEF f, g
    <3> QED BY <1>4, <2>1, SumAgree
  <2> QED BY <2>2 DEF Total
<1> HIDE DEF f
<1> QED BY <1>2, <1>3, <1>4

LEMMA TotalOne ==
  ASSUME NEW o \in Offers
  PROVE  Total({o}) = o.amount
<1> DEFINE f == [x \in {o} |-> x.amount]
<1>1. IsFiniteSet({}) /\ o \notin {} /\ f[o] = o.amount /\ o.amount \in Int
  BY FS_EmptySet, OfferParts
<1>2. SumOver(f, {} \cup {o}) = f[o] + SumOver(f, {})
  <2>1. \A x \in {} \cup {o} : f[x] \in Int
    BY <1>1
  <2> HIDE DEF f
  <2> QED BY <1>1, <2>1, SumAdd
<1>3. {} \cup {o} = {o} /\ SumOver(f, {}) = 0
  BY SumEmpty
<1>4. Total({o}) = SumOver(f, {o})
  BY DEF Total
<1> HIDE DEF f
<1> QED BY <1>1, <1>2, <1>3, <1>4

\* What a player's open offers are worth once some of them are gone,
LEMMA WorthLeft ==
  ASSUME NEW S \in SUBSET Offers, IsFiniteSet(S), NEW T \in SUBSET S, NEW p \in Players
  PROVE  /\ Total(By(p, S)) \in Nat /\ Total(By(p, T)) \in Nat /\ Total(By(p, S \ T)) \in Nat
         /\ Total(By(p, S)) = Total(By(p, T)) + Total(By(p, S \ T))
<1>1. /\ By(p, T) \in SUBSET By(p, S) /\ By(p, S) \in SUBSET Offers
      /\ By(p, S \ T) = By(p, S) \ By(p, T) /\ By(p, S \ T) \in SUBSET By(p, S)
      /\ By(p, S) \in SUBSET S
  BY DEF By
<1>2. IsFiniteSet(By(p, S))
  BY <1>1, FS_Subset
<1>3. IsFiniteSet(By(p, T)) /\ IsFiniteSet(By(p, S \ T))
  BY <1>1, <1>2, FS_Subset
<1>4. Total(By(p, S)) = Total(By(p, T)) + Total(By(p, S) \ By(p, T))
  BY <1>1, <1>2, TotalSplit
<1>5. Total(By(p, S)) \in Nat /\ Total(By(p, T)) \in Nat /\ Total(By(p, S \ T)) \in Nat
  BY <1>1, <1>2, <1>3, TotalNat
<1> QED BY <1>1, <1>4, <1>5

\* and what one of them is.
LEMMA WorthOne ==
  ASSUME NEW o \in Offers, NEW p \in Players
  PROVE  Total(By(p, {o})) = IF p = o.bidder THEN o.amount ELSE 0
<1>1. CASE p = o.bidder
  <2>1. By(p, {o}) = {o}
    BY <1>1 DEF By
  <2> QED BY <1>1, <2>1, TotalOne
<1>2. CASE p # o.bidder
  <2>1. By(p, {o}) = {}
    BY <1>2 DEF By
  <2> QED BY <1>2, <2>1, TotalEmpty
<1> QED BY <1>1, <1>2

\* The sum of a column of the wallets after one row was changed, or two were.
Shifted(g, f, p, n) == \A x \in Players : g[x] = f[x] + (IF x = p THEN n ELSE 0)

LEMMA SumChanged ==
  ASSUME NEW f \in [Players -> Int], NEW p \in Players, NEW n \in Int, NEW g \in [Players -> Int],
         Shifted(g, f, p, n)
  PROVE  Sum(g) = Sum(f) + n
<1>1. DifferAt(p, Players, f, g)
  BY DEF Shifted, DifferAt
<1>2. IsFiniteSet(Players)
  BY RowsAssumption
<1>3. SumOver(g, Players) = SumOver(f, Players) + g[p] - f[p]
  BY <1>1, <1>2, SumUpdate
<1>4. SumOver(f, Players) \in Int /\ SumOver(g, Players) \in Int
  BY <1>1, <1>2, SumInt DEF DifferAt
<1>5. f[p] \in Int /\ g[p] = f[p] + n
  BY DEF Shifted
<1>6. SumOver(g, Players) = SumOver(f, Players) + n
  BY <1>3, <1>4, <1>5
<1> QED BY <1>6 DEF Sum

LEMMA SumPlayersInt == ASSUME NEW f \in [Players -> Int] PROVE Sum(f) \in Int
<1>1. \A x \in Players : f[x] \in Int
  OBVIOUS
<1> QED BY <1>1, RowsAssumption, SumInt DEF Sum

LEMMA RowsMoved ==
  ASSUME NEW f \in [Players -> Int], NEW p \in Players, NEW q \in Players,
         NEW m \in Int, NEW n \in Int
  PROVE  /\ Moved(f, p, m, q, n) \in [Players -> Int]
         /\ Sum(Moved(f, p, m, q, n)) = Sum(f) - m + n
<1> DEFINE g == Moved(f, p, m, q, n)
           h == [x \in Players |-> f[x] + (IF x = p THEN -m ELSE 0)]
<1>1. h \in [Players -> Int] /\ g \in [Players -> Int]
  BY DEF Moved
<1>2. Shifted(h, f, p, -m) /\ -m \in Int
  BY DEF Shifted
<1>3. Shifted(g, h, q, n)
  BY DEF Moved, Shifted
<1>4. Sum(f) \in Int
  BY SumPlayersInt
<1> HIDE DEF g, h
<1>5. Sum(h) = Sum(f) + (-m)
  BY <1>1, <1>2, SumChanged
<1>6. Sum(g) = Sum(h) + n
  BY <1>1, <1>3, SumChanged
<1>7. Sum(g) = Sum(f) - m + n
  BY <1>4, <1>5, <1>6
<1> QED BY <1>1, <1>7 DEF g

-----------------------------------------------------------------------------
(* Types.                                                                  *)

LEMMA TypedInit == Init => Typed
<1> SUFFICES ASSUME Init PROVE Typed OBVIOUS
<1>1. offers \subseteq Offers /\ IsFiniteSet(offers)
  BY FS_EmptySet DEF Init
<1>2. withdrawals \in Seq(Withdrawals)
  BY DEF Init
<1>3. art \in [Ids -> {None} \cup Artifacts]
  BY DEF Init
<1>4. /\ toman \in [Players -> Int] /\ blocked \in [Players -> Int] /\ ledger \in [Players -> Int]
      /\ iban \in [Players -> BOOLEAN]
  BY DEF Init
<1>5. pool \in Int /\ issued \in Int /\ crashes \in Nat
  BY DEF Init
<1>6. closed \in BOOLEAN
  BY DEF Init
<1> QED BY <1>1, <1>2, <1>3, <1>4, <1>5, <1>6 DEF Typed

\* An artifact with a row has an owner.
LEMMA Owned ==
  ASSUME Typed, NEW i \in Ids, art[i] # None
  PROVE  art[i] \in Artifacts /\ art[i].owner \in Players
<1>1. art[i] \in Artifacts
  BY DEF Typed
<1> QED BY <1>1 DEF Artifacts

LEMMA TotalsInt ==
  ASSUME Typed, NEW T \in SUBSET offers, NEW p \in Players
  PROVE  Total(By(p, T)) \in Nat
<1>1. T \in SUBSET Offers /\ IsFiniteSet(T)
  BY FS_Subset DEF Typed
<1> QED BY <1>1, WorthLeft

LEMMA ReleaseTyped ==
  ASSUME Typed, NEW T \in SUBSET offers, Release(T)
  PROVE  /\ blocked' \in [Players -> Int]
         /\ offers' \subseteq Offers /\ IsFiniteSet(offers')
<1>1. \A p \in Players : Total(By(p, T)) \in Nat
  BY TotalsInt
<1>2. IsFiniteSet(offers \ T)
  BY FS_Subset DEF Typed
<1> QED BY <1>1, <1>2 DEF Release, Typed

\* Rows of withdrawals, one for each of P, each at a place of its own.
Placed(s, P, due) ==
  \E n \in Nat : \E place \in [P -> 1..n] :
    /\ s \in [1..n -> Withdrawals]
    /\ \A p \in P : s[place[p]] = Row(p, due[p])
    /\ \A p, q \in P : place[p] = place[q] => p = q
    /\ {place[p] : p \in P} = 1..n

\* The rows a close adds to the withdrawals are such rows.
LEMMA RowsAdded ==
  ASSUME NEW P \in SUBSET Players, NEW due \in [P -> Nat],
         NEW new, new = {Row(p, due[p]) : p \in P},
         NEW s, s = SetToSeq(new)
  PROVE  Placed(s, P, due)
<1> DEFINE n == Cardinality(new)
           place == [p \in P |-> CHOOSE j \in 1..n : s[j] = Row(p, due[p])]
<1>1. IsFiniteSet(new)
  <2> DEFINE r == [p \in P |-> Row(p, due[p])]
  <2>1. IsFiniteSet(P)
    BY RowsAssumption, FS_Subset
  <2>2. r \in Surjection(P, new)
    BY DEF Surjection
  <2> QED BY <2>1, <2>2, FS_Surjection
<1>2. n \in Nat /\ ExistsBijection(1..n, new)
  BY <1>1, FS_CardinalityType
<1>3. \E f \in [1..n -> new] : IsInjective(f)
  <2> HIDE DEF n
  <2> QED BY <1>2 DEF ExistsBijection, Bijection, Injection, IsInjective
<1>4. s \in [1..n -> new] /\ IsInjective(s)
  BY <1>3 DEF SetToSeq
<1>5. \A r \in new : \E j \in 1..n : s[j] = r
  <2>1. s \in Injection(1..n, new)
    BY <1>4 DEF Injection, IsInjective
  <2>2. Cardinality(1..n) = n
    BY <1>2, FS_Interval
  <2>3. s \in Surjection(1..n, new)
    BY <1>1, <2>1, <2>2, FS_Injection
  <2> QED BY <2>3 DEF Surjection
<1> HIDE DEF n
<1>6. \A p \in P : place[p] \in 1..n /\ s[place[p]] = Row(p, due[p])
  BY <1>5
<1>7. \A p, q \in P : place[p] = place[q] => p = q
  <2>1. \A p \in P : Row(p, due[p]).player = p
    BY DEF Row
  <2> HIDE DEF place
  <2> QED BY <1>6, <2>1
<1>8. {place[p] : p \in P} = 1..n
  <2>1. ASSUME NEW j \in 1..n PROVE \E p \in P : place[p] = j
    <3>1. PICK p \in P : s[j] = Row(p, due[p])
      BY <1>4
    <3>2. place[p] = j
      <4> HIDE DEF place
      <4> QED BY <1>4, <1>6, <3>1, ZenonT(40) DEF IsInjective
    <3> QED BY <3>2
  <2> HIDE DEF place
  <2> QED BY <1>6, <2>1
<1>9. s \in [1..n -> Withdrawals]
  <2>1. \A p \in P : Row(p, due[p]) \in Withdrawals
    BY DEF Row, Withdrawals
  <2> QED BY <1>4, <2>1
<1>10. place \in [P -> 1..n]
  BY <1>6
<1> QED BY <1>2, <1>6, <1>7, <1>8, <1>9, <1>10, ZenonT(40) DEF Placed

\* The rows of withdrawals as a function of their indices.
LEMMA RowOf ==
  ASSUME Typed, NEW i \in 1..Len(withdrawals)
  PROVE  /\ withdrawals[i] \in Withdrawals
         /\ withdrawals[i].player \in Players /\ withdrawals[i].amount \in Nat
<1>1. withdrawals[i] \in Withdrawals
  BY ElementOfSeq DEF Typed
<1> QED BY <1>1 DEF Withdrawals

LEMMA StatusTyped ==
  ASSUME Typed, NEW i \in 1..Len(withdrawals), NEW s \in {"paid", "rejected"},
         withdrawals' = [withdrawals EXCEPT ![i].status = s]
  PROVE  withdrawals' \in Seq(Withdrawals)
<1>1. [withdrawals[i] EXCEPT !.status = s] \in Withdrawals
  BY RowOf DEF Withdrawals
<1>2. withdrawals' = [withdrawals EXCEPT ![i] = [withdrawals[i] EXCEPT !.status = s]]
  BY DEF Typed
<1> QED BY <1>1, <1>2 DEF Typed

\* The close pays wallets out: who is paid, and how much.
Sale(p) == ArtifactValue * Cardinality({i \in Rows : ~art[i].sold /\ art[i].owner = p})
Payees == {p \in Players : iban[p] /\ toman[p] + Sale(p) > 0}
Due == [p \in Payees |-> toman[p] + Sale(p)]
Rest(p) == IF p \in Payees THEN 0 ELSE toman[p] + Sale(p)

LEMMA SaleNat == ASSUME NEW p \in Players PROVE Sale(p) \in Nat
<1> DEFINE S == {i \in Rows : ~art[i].sold /\ art[i].owner = p}
<1>1. IsFiniteSet(Ids) /\ S \in SUBSET Ids
  BY RowsAssumption, FS_CardinalityType, FS_Interval DEF Ids, Rows
<1>2. Cardinality(S) \in Nat
  BY <1>1, FS_Subset, FS_CardinalityType
<1> QED BY <1>2, AmountsAssumption DEF Sale

LEMMA CloseUnfolds ==
  ASSUME CloseSeason
  PROVE  /\ ~closed /\ closed'
         /\ art' = [i \in Ids |-> IF i \in Rows THEN [art[i] EXCEPT !.sold = TRUE] ELSE None]
         /\ Release(offers)
         /\ toman' = [p \in Players |-> Rest(p)]
         /\ ledger' = [p \in Players |-> ledger[p] - toman[p] + Rest(p)]
         /\ withdrawals' = withdrawals \o SetToSeq({Row(p, Due[p]) : p \in Payees})
         /\ issued' = issued + Sum([p \in Players |-> Sale(p)])
         /\ UNCHANGED <<iban, pool, crashes>>
<1>1. {Row(p, Due[p]) : p \in Payees} = {Row(p, toman[p] + Sale(p)) : p \in Payees}
  BY DEF Due
<1> QED BY <1>1, Zenon DEF CloseSeason, Rest, Payees, Sale

LEMMA PayeesTyped ==
  ASSUME Typed
  PROVE  Payees \in SUBSET Players /\ Due \in [Payees -> Nat]
BY SaleNat DEF Payees, Due, Typed

\* v is w followed by n rows, one for each of P.
Follow(v, w, P, due, n, place) ==
  /\ Len(v) = Len(w) + n
  /\ \A i \in 1..Len(w) : v[i] = w[i]
  /\ \A p \in P : v[Len(w) + place[p]] = Row(p, due[p])
  /\ \A p, q \in P : place[p] = place[q] => p = q
  /\ {place[p] : p \in P} = 1..n

LEMMA CloseRows ==
  ASSUME Typed, CloseSeason
  PROVE  /\ withdrawals' \in Seq(Withdrawals)
         /\ \E n \in Nat : \E place \in [Payees -> 1..n] : Follow(withdrawals', withdrawals, Payees, Due, n, place)
<1> DEFINE new == {Row(p, Due[p]) : p \in Payees}
           s == SetToSeq(new)
<1>0. new = {Row(p, Due[p]) : p \in Payees} /\ s = SetToSeq(new)
  OBVIOUS
<1>10. withdrawals' = withdrawals \o s
  BY CloseUnfolds
<1> HIDE DEF new, s
<1>1. Placed(s, Payees, Due)
  BY <1>0, PayeesTyped, RowsAdded
<1>2. PICK n \in Nat : \E place \in [Payees -> 1..n] :
           /\ s \in [1..n -> Withdrawals]
           /\ \A p \in Payees : s[place[p]] = Row(p, Due[p])
           /\ \A p, q \in Payees : place[p] = place[q] => p = q
           /\ {place[p] : p \in Payees} = 1..n
  BY <1>1 DEF Placed
<1>3. PICK place \in [Payees -> 1..n] :
           /\ s \in [1..n -> Withdrawals]
           /\ \A p \in Payees : s[place[p]] = Row(p, Due[p])
           /\ \A p, q \in Payees : place[p] = place[q] => p = q
           /\ {place[p] : p \in Payees} = 1..n
  BY <1>2
<1>4. s \in Seq(Withdrawals) /\ Len(s) = n
  BY <1>3
<1>5. withdrawals \in Seq(Withdrawals) /\ Len(withdrawals) \in Nat
  BY LenProperties DEF Typed
<1>6. Len(withdrawals') = Len(withdrawals) + n /\ withdrawals' \in Seq(Withdrawals)
  BY <1>10, <1>4, <1>5, ConcatProperties
<1>7. \A i \in 1..Len(withdrawals) : withdrawals'[i] = withdrawals[i]
  BY <1>10, <1>4, <1>5
<1>8. \A j \in 1..n : withdrawals'[Len(withdrawals) + j] = s[j]
  BY <1>10, <1>4, <1>5
<1>9. \A p \in Payees : withdrawals'[Len(withdrawals) + place[p]] = Row(p, Due[p])
  BY <1>3, <1>8
<1>11. Follow(withdrawals', withdrawals, Payees, Due, n, place)
  BY <1>3, <1>6, <1>7, <1>9 DEF Follow
<1> QED BY <1>6, <1>11

LEMMA TypedStep == Typed /\ [Next]_vars => Typed'
<1> SUFFICES ASSUME Typed, [Next]_vars PROVE Typed' OBVIOUS
<1> USE AmountsAssumption
<1>1. CASE UNCHANGED vars
  BY <1>1 DEF vars, Typed
<1>2. ASSUME NEW p \in Players, AdminCredit(p) PROVE Typed'
  BY <1>2 DEF AdminCredit, Credit, Typed
<1>3. ASSUME NEW p \in Players, BuyCoins(p) PROVE Typed'
  BY <1>3 DEF BuyCoins, Credit, Typed
<1>4. ASSUME NEW p \in Players, SetIban(p) PROVE Typed'
  BY <1>4 DEF SetIban, Typed
<1>5. ASSUME NEW p \in Players, RequestWithdraw(p) PROVE Typed'
  <2>1. PICK n \in Amounts : RequestWithdraw(p)!(n)
    BY <1>5 DEF RequestWithdraw
  <2>2. Row(p, n) \in Withdrawals
    BY DEF Row, Withdrawals
  <2>3. withdrawals' \in Seq(Withdrawals)
    BY <2>1, <2>2, AppendProperties DEF Typed
  <2> QED BY <2>1, <2>3 DEF Credit, Typed
<1>6. ASSUME NEW p \in Players, QuitSeason(p) PROVE Typed'
  <2>1. By(p, offers) \in SUBSET offers
    BY DEF By
  <2>2. art' \in [Ids -> {None} \cup Artifacts]
    BY <1>6 DEF QuitSeason, Typed
  <2> QED BY <1>6, <2>1, <2>2, ReleaseTyped DEF QuitSeason, Typed
<1>7. ASSUME NEW p \in Players, TornPayment(p) PROVE Typed'
  BY <1>7 DEF TornPayment, Dies, Typed
<1>8. ASSUME NEW i \in 1..Len(withdrawals), PayWithdrawal(i) PROVE Typed'
  <2>1. withdrawals' \in Seq(Withdrawals)
    BY <1>8, StatusTyped DEF PayWithdrawal
  <2> QED BY <1>8, <2>1 DEF PayWithdrawal, Typed
<1>9. ASSUME NEW i \in 1..Len(withdrawals), RejectWithdrawal(i) PROVE Typed'
  <2>1. withdrawals' \in Seq(Withdrawals)
    BY <1>9, StatusTyped DEF RejectWithdrawal
  <2>2. toman' \in [Players -> Int] /\ ledger' \in [Players -> Int]
    BY <1>9, RowOf, SMTT(30) DEF RejectWithdrawal, Credit, Typed
  <2> QED BY <1>9, <2>1, <2>2 DEF RejectWithdrawal, Typed
<1>10. ASSUME NEW i \in 1..Len(withdrawals), TornRejectWithdrawal(i) PROVE Typed'
  <2>1. withdrawals' \in Seq(Withdrawals)
    BY <1>10, StatusTyped DEF TornRejectWithdrawal
  <2> QED BY <1>10, <2>1 DEF TornRejectWithdrawal, Dies, Typed
<1>11. ASSUME NEW p \in Players, NEW t \in Tombs, Capture(p, t) PROVE Typed'
  <2>1. [owner |-> p, tomb |-> t, sold |-> FALSE] \in Artifacts
    BY DEF Artifacts
  <2>2. art' \in [Ids -> {None} \cup Artifacts]
    BY <1>11, <2>1 DEF Capture, Typed
  <2> QED BY <1>11, <2>2 DEF Capture, Typed
<1>12. ASSUME NEW p \in Players, NEW i \in Ids, MakeOffer(p, i) PROVE Typed'
  <2>1. PICK n \in Amounts : MakeOffer(p, i)!(n)
    BY <1>12 DEF MakeOffer
  <2>2. Offer(p, i, n) \in Offers
    BY DEF Offer, Offers
  <2>3. IsFiniteSet(offers') /\ offers' \subseteq Offers
    BY <2>1, <2>2, FS_AddElement DEF Typed
  <2> QED BY <2>1, <2>3 DEF Typed
<1>13. ASSUME NEW p \in Players, NEW i \in Ids, TornMakeOffer(p, i) PROVE Typed'
  BY <1>13 DEF TornMakeOffer, Dies, Typed
<1>14. ASSUME NEW o \in offers, AcceptOffer(o) PROVE Typed'
  <2> DEFINE T == ({r \in offers : r.art = o.art} \ {o}) \cup {o}
  <2>1. T \in SUBSET offers /\ Release(T)
    BY <1>14 DEF AcceptOffer, Release
  <2>2. o \in Offers /\ o.art \in Ids /\ o.bidder \in Players /\ o.amount \in Nat
    BY OfferParts DEF Typed
  <2>3. o.art \in Rows
    BY <1>14 DEF AcceptOffer, Answerable
  <2>4. art[o.art] \in Artifacts /\ art[o.art].owner \in Players
    BY <2>2, <2>3, Owned DEF Rows
  <2>5. art' \in [Ids -> {None} \cup Artifacts]
    <3>1. [art[o.art] EXCEPT !.owner = o.bidder] \in Artifacts
      BY <2>2, <2>4 DEF Artifacts
    <3>2. art' = [art EXCEPT ![o.art] = [art[o.art] EXCEPT !.owner = o.bidder]]
      BY <1>14 DEF AcceptOffer
    <3> QED BY <3>1, <3>2, <2>2 DEF Typed
  <2>6. toman' \in [Players -> Int] /\ ledger' \in [Players -> Int]
    <3>1. toman' = Moved(toman, o.bidder, o.amount, art[o.art].owner, o.amount)
      BY <1>14 DEF AcceptOffer
    <3>2. ledger' = Moved(ledger, o.bidder, o.amount, art[o.art].owner, o.amount)
      BY <1>14 DEF AcceptOffer
    <3>3. o.amount \in Int /\ toman \in [Players -> Int] /\ ledger \in [Players -> Int]
      BY <2>2 DEF Typed
    <3> QED BY <2>2, <2>4, <3>1, <3>2, <3>3, RowsMoved
  <2>7. blocked' \in [Players -> Int] /\ offers' \subseteq Offers /\ IsFiniteSet(offers')
    <3> HIDE DEF T
    <3> QED BY <2>1, ReleaseTyped
  <2> QED BY <1>14, <2>5, <2>6, <2>7 DEF AcceptOffer, Typed
<1>15. ASSUME NEW o \in offers, RejectOffer(o) PROVE Typed'
  BY <1>15, ReleaseTyped DEF RejectOffer, Typed
<1>16. ASSUME NEW o \in offers, DropOffer(o) PROVE Typed'
  BY <1>16, ReleaseTyped DEF DropOffer, Typed
<1>17. ASSUME NEW o \in offers, TornAcceptOffer(o) PROVE Typed'
  <2>1. PICK done \in 1..4 : TornAcceptOffer(o)!(done)
    BY <1>17 DEF TornAcceptOffer
  <2>2. o \in Offers /\ o.art \in Ids /\ o.bidder \in Players /\ o.amount \in Nat
    BY OfferParts DEF Typed
  <2>3. art[o.art] \in Artifacts /\ art[o.art].owner \in Players
    BY <2>1, <2>2, Owned DEF Answerable, Rows
  <2>4. art' \in [Ids -> {None} \cup Artifacts]
    <3>1. [art[o.art] EXCEPT !.owner = o.bidder] \in Artifacts
      BY <2>2, <2>3 DEF Artifacts
    <3>2. art' = art \/ art' = [art EXCEPT ![o.art] = [art[o.art] EXCEPT !.owner = o.bidder]]
      BY <2>1
    <3> QED BY <3>1, <3>2, <2>2 DEF Typed
  <2>5. toman' \in [Players -> Int] /\ blocked' \in [Players -> Int]
    <3>1. PICK paid \in {0, o.amount}, got \in {0, o.amount} :
            /\ blocked' = [blocked EXCEPT ![o.bidder] = @ - paid]
            /\ toman' = Moved(toman, o.bidder, paid, art[o.art].owner, got)
      BY <2>1
    <3>2. paid \in Int /\ got \in Int /\ toman \in [Players -> Int] /\ blocked \in [Players -> Int]
      BY <2>2 DEF Typed
    <3>3. toman' \in [Players -> Int]
      BY <2>2, <2>3, <3>1, <3>2, RowsMoved
    <3>4. blocked' \in [Players -> Int]
      <4>1. \A x \in Players : blocked[x] \in Int /\ blocked[x] - paid \in Int
        BY <3>2
      <4> QED BY <2>2, <3>1, <3>2, <4>1
    <3> QED BY <3>3, <3>4
  <2>6. offers' \subseteq Offers /\ IsFiniteSet(offers') /\ crashes' \in Nat
    BY <2>1, FS_Subset DEF Typed, Dies
  <2> QED BY <2>1, <2>4, <2>5, <2>6 DEF Typed
<1>18. ASSUME NEW o \in offers, TornDropOffer(o) PROVE Typed'
  <2>1. offers' \subseteq Offers /\ IsFiniteSet(offers') /\ crashes' \in Nat
    BY <1>18, FS_Subset DEF Typed, TornDropOffer, Dies
  <2> QED BY <1>18, <2>1 DEF TornDropOffer, Typed
<1>19. CASE CloseSeason
  <2>1. art' \in [Ids -> {None} \cup Artifacts]
    <3>1. \A i \in Rows : [art[i] EXCEPT !.sold = TRUE] \in Artifacts
      <4> SUFFICES ASSUME NEW i \in Rows PROVE [art[i] EXCEPT !.sold = TRUE] \in Artifacts
        OBVIOUS
      <4>1. art[i] \in Artifacts
        BY Owned DEF Rows
      <4> QED BY <4>1 DEF Artifacts
    <3>2. art' = [i \in Ids |-> IF i \in Rows THEN [art[i] EXCEPT !.sold = TRUE] ELSE None]
      BY <1>19, CloseUnfolds
    <3> QED BY <3>1, <3>2
  <2>2. \A p \in Players : Sale(p) \in Int /\ Rest(p) \in Int
    BY SaleNat DEF Rest, Typed
  <2>3. toman' \in [Players -> Int] /\ ledger' \in [Players -> Int]
    BY <1>19, <2>2, CloseUnfolds, SMTT(30) DEF Typed
  <2>4. issued' \in Int
    <3> DEFINE f == [p \in Players |-> Sale(p)]
    <3>1. \A p \in Players : f[p] \in Int
      BY <2>2
    <3>2. Sum(f) \in Int
      <4> HIDE DEF f
      <4> QED BY <3>1, RowsAssumption, SumInt DEF Sum
    <3> QED BY <1>19, <3>2, CloseUnfolds DEF Typed
  <2>5. withdrawals' \in Seq(Withdrawals)
    BY <1>19, CloseRows
  <2>6. blocked' \in [Players -> Int] /\ offers' \subseteq Offers /\ IsFiniteSet(offers')
    BY <1>19, CloseUnfolds, ReleaseTyped
  <2> QED BY <1>19, <2>1, <2>3, <2>4, <2>5, <2>6, CloseUnfolds DEF Typed
<1> QED
  BY <1>1, <1>2, <1>3, <1>4, <1>5, <1>6, <1>7, <1>8, <1>9, <1>10, <1>11, <1>12, <1>13,
     <1>14, <1>15, <1>16, <1>17, <1>18, <1>19 DEF Next

-----------------------------------------------------------------------------
(* What is blocked in a wallet, and the open offers.                       *)

LEMMA WorthNat ==
  ASSUME Typed, NEW p \in Players
  PROVE  Total(By(p, offers)) \in Nat /\ blocked[p] \in Int /\ toman[p] \in Int
BY TotalsInt DEF Typed

\* Some offers are gone.
LEMMA Gone ==
  ASSUME Typed, NEW T \in SUBSET offers, offers' = offers \ T, NEW p \in Players
  PROVE  /\ Total(By(p, offers')) \in Nat /\ Total(By(p, T)) \in Nat
         /\ Total(By(p, offers)) = Total(By(p, T)) + Total(By(p, offers'))
<1>1. offers \in SUBSET Offers /\ IsFiniteSet(offers)
  BY DEF Typed
<1> QED BY <1>1, WorthLeft

\* One offer is gone.
LEMMA OneGone ==
  ASSUME Typed, NEW o \in offers, offers' = offers \ {o}, NEW p \in Players
  PROVE  /\ Total(By(p, offers')) \in Nat
         /\ Total(By(p, offers)) = (IF p = o.bidder THEN o.amount ELSE 0) + Total(By(p, offers'))
<1>1. o \in Offers /\ {o} \in SUBSET offers
  BY DEF Typed
<1>2. Total(By(p, {o})) = IF p = o.bidder THEN o.amount ELSE 0
  BY <1>1, WorthOne
<1> QED BY <1>1, <1>2, Gone

\* One offer was made.
LEMMA OneMore ==
  ASSUME Typed, NEW p \in Players, NEW i \in Ids, NEW n \in Amounts, CanOffer(p, i, n),
         offers' = offers \cup {Offer(p, i, n)}, NEW q \in Players
  PROVE  /\ n \in Nat /\ Total(By(q, offers')) \in Nat
         /\ Total(By(q, offers')) = Total(By(q, offers)) + (IF q = p THEN n ELSE 0)
<1> DEFINE o == Offer(p, i, n)
<1>1. o \in Offers /\ o.bidder = p /\ o.amount = n /\ o.art = i
  BY DEF Offer, Offers
<1>2. o \notin offers
  BY <1>1 DEF CanOffer, By
<1>3. offers' \in SUBSET Offers /\ IsFiniteSet(offers') /\ offers' \ {o} = offers /\ {o} \in SUBSET offers'
  BY <1>1, <1>2, FS_AddElement DEF Typed
<1>4. Total(By(q, {o})) = IF q = p THEN n ELSE 0
  BY <1>1, WorthOne
<1>5. n \in Nat
  BY AmountsAssumption
<1>6. /\ Total(By(q, offers')) \in Nat /\ Total(By(q, offers' \ {o})) \in Nat
      /\ Total(By(q, offers')) = Total(By(q, {o})) + Total(By(q, offers' \ {o}))
  BY <1>3, WorthLeft
<1> HIDE DEF o
<1> QED BY <1>3, <1>4, <1>5, <1>6

\* How the blocked money moves: with the offers, or up when a handler dies.
Tight == \A p \in Players : blocked'[p] - Total(By(p, offers')) = blocked[p] - Total(By(p, offers))
Loose == \A p \in Players : blocked'[p] - Total(By(p, offers')) >= blocked[p] - Total(By(p, offers))

LEMMA BlockedKept ==
  ASSUME Typed, Typed', BlockedMatchesOffers,
         \/ Tight /\ crashes' = crashes
         \/ Loose /\ crashes' = crashes + 1
  PROVE  BlockedMatchesOffers'
<1> SUFFICES ASSUME NEW p \in Players
             PROVE  IF crashes' = 0 THEN blocked'[p] = Total(By(p, offers')) ELSE blocked'[p] >= Total(By(p, offers'))
  BY DEF BlockedMatchesOffers
<1>1. crashes \in Nat
  BY DEF Typed
<1>2. Total(By(p, offers)) \in Nat /\ blocked[p] \in Int
  BY WorthNat
<1>3. Total(By(p, offers')) \in Nat /\ blocked'[p] \in Int
  <2>1. offers' \in SUBSET Offers /\ IsFiniteSet(offers') /\ {} \in SUBSET offers'
    BY DEF Typed
  <2>2. Total(By(p, offers')) \in Nat
    BY <2>1, WorthLeft
  <2> QED BY <2>2 DEF Typed
<1>4. IF crashes = 0 THEN blocked[p] = Total(By(p, offers)) ELSE blocked[p] >= Total(By(p, offers))
  BY DEF BlockedMatchesOffers
<1>5. CASE Tight /\ crashes' = crashes
  BY <1>2, <1>3, <1>4, <1>5 DEF Tight
<1>6. CASE Loose /\ crashes' = crashes + 1
  BY <1>1, <1>2, <1>3, <1>4, <1>6 DEF Loose
<1> QED BY <1>5, <1>6

LEMMA ReleaseTight == ASSUME Typed, NEW T \in SUBSET offers, Release(T) PROVE Tight
<1> SUFFICES ASSUME NEW p \in Players
             PROVE  blocked'[p] - Total(By(p, offers')) = blocked[p] - Total(By(p, offers))
  BY DEF Tight
<1>1. blocked'[p] = blocked[p] - Total(By(p, T)) /\ offers' = offers \ T
  BY DEF Release
<1>2. /\ Total(By(p, offers')) \in Nat /\ Total(By(p, T)) \in Nat
      /\ Total(By(p, offers)) = Total(By(p, T)) + Total(By(p, offers'))
  BY <1>1, Gone
<1>3. blocked[p] \in Int
  BY WorthNat
<1> QED BY <1>1, <1>2, <1>3

\* The blocked money is that of the open offers, or more after a crash, in
\* every step.
LEMMA BlockedStep ==
  ASSUME Typed, Typed', BlockedMatchesOffers, [Next]_vars
  PROVE  BlockedMatchesOffers'
<1>1. SUFFICES ASSUME ~(blocked' = blocked /\ offers' = offers /\ crashes' = crashes)
               PROVE  BlockedMatchesOffers'
  BY DEF BlockedMatchesOffers
<1>2. ASSUME blocked' = blocked, offers' = offers PROVE Loose
  <2>1. \A p \in Players : Total(By(p, offers)) \in Nat /\ blocked[p] \in Int
    BY WorthNat
  <2> QED BY <1>2, <2>1 DEF Loose
<1>3. ASSUME NEW p \in Players, QuitSeason(p) PROVE BlockedMatchesOffers'
  <2>1. By(p, offers) \in SUBSET offers
    BY DEF By
  <2> QED BY <1>3, <2>1, ReleaseTight, BlockedKept DEF QuitSeason
<1>4. ASSUME NEW p \in Players, TornPayment(p) PROVE BlockedMatchesOffers'
  BY <1>2, <1>4, BlockedKept DEF TornPayment, Dies
<1>5. ASSUME NEW i \in 1..Len(withdrawals), TornRejectWithdrawal(i) PROVE BlockedMatchesOffers'
  BY <1>2, <1>5, BlockedKept DEF TornRejectWithdrawal, Dies
<1>6. ASSUME NEW p \in Players, NEW i \in Ids, MakeOffer(p, i) PROVE BlockedMatchesOffers'
  <2>1. PICK n \in Amounts : MakeOffer(p, i)!(n)
    BY <1>6 DEF MakeOffer
  <2>2. Tight
    <3> SUFFICES ASSUME NEW q \in Players
                 PROVE  blocked'[q] - Total(By(q, offers')) = blocked[q] - Total(By(q, offers))
      BY DEF Tight
    <3>1. n \in Nat /\ Total(By(q, offers')) = Total(By(q, offers)) + (IF q = p THEN n ELSE 0)
      BY <2>1, OneMore
    <3>2. blocked'[q] = blocked[q] + (IF q = p THEN n ELSE 0)
      BY <2>1, <3>1, WorthNat DEF Typed
    <3> QED BY <3>1, <3>2, WorthNat
  <2> QED BY <2>1, <2>2, BlockedKept
<1>7. ASSUME NEW p \in Players, NEW i \in Ids, TornMakeOffer(p, i) PROVE BlockedMatchesOffers'
  <2>1. PICK n \in Amounts : TornMakeOffer(p, i)!(n)
    BY <1>7 DEF TornMakeOffer
  <2>2. Loose
    <3> SUFFICES ASSUME NEW q \in Players
                 PROVE  blocked'[q] - Total(By(q, offers')) >= blocked[q] - Total(By(q, offers))
      BY DEF Loose
    <3>1. n \in Nat
      BY AmountsAssumption
    <3>2. blocked'[q] >= blocked[q] /\ blocked'[q] \in Int /\ offers' = offers
      BY <2>1, <3>1, WorthNat DEF Typed
    <3> QED BY <3>2, WorthNat
  <2> QED BY <2>1, <2>2, BlockedKept DEF Dies
<1>8. ASSUME NEW o \in offers, AcceptOffer(o) PROVE BlockedMatchesOffers'
  <2> DEFINE T == ({r \in offers : r.art = o.art} \ {o}) \cup {o}
  <2>1. T \in SUBSET offers /\ Release(T) /\ crashes' = crashes
    BY <1>8 DEF AcceptOffer, Release
  <2> HIDE DEF T
  <2> QED BY <2>1, ReleaseTight, BlockedKept
<1>9. ASSUME NEW o \in offers, RejectOffer(o) \/ DropOffer(o) PROVE BlockedMatchesOffers'
  <2>1. {o} \in SUBSET offers /\ Release({o}) /\ crashes' = crashes
    BY <1>9 DEF RejectOffer, DropOffer
  <2> QED BY <2>1, ReleaseTight, BlockedKept
<1>10. ASSUME NEW o \in offers, TornAcceptOffer(o) PROVE BlockedMatchesOffers'
  <2>1. PICK done \in 1..4 : TornAcceptOffer(o)!(done)
    BY <1>10 DEF TornAcceptOffer
  <2>2. o.bidder \in Players /\ o.amount \in Nat
    BY OfferParts DEF Typed
  <2>3. Loose
    <3> SUFFICES ASSUME NEW p \in Players
                 PROVE  blocked'[p] - Total(By(p, offers')) >= blocked[p] - Total(By(p, offers))
      BY DEF Loose
    <3>1. /\ Total(By(p, offers')) \in Nat
          /\ Total(By(p, offers)) = (IF p = o.bidder THEN o.amount ELSE 0) + Total(By(p, offers'))
      BY <2>1, OneGone
    <3>2. PICK paid \in {0, o.amount} : blocked' = [blocked EXCEPT ![o.bidder] = @ - paid]
      BY <2>1
    <3>3. blocked'[p] = blocked[p] - (IF p = o.bidder THEN paid ELSE 0)
      <4>1. blocked \in [Players -> Int] /\ blocked[p] \in Int
        BY DEF Typed
      <4>2. CASE p = o.bidder
        BY <3>2, <4>1, <4>2
      <4>3. CASE p # o.bidder
        BY <2>2, <3>2, <4>1, <4>3
      <4> QED BY <4>2, <4>3
    <3> QED BY <2>2, <3>1, <3>2, <3>3, WorthNat
  <2> QED BY <2>1, <2>3, BlockedKept DEF Dies
<1>11. ASSUME NEW o \in offers, TornDropOffer(o) PROVE BlockedMatchesOffers'
  <2>1. o.amount \in Nat
    BY OfferParts DEF Typed
  <2>2. Loose
    <3> SUFFICES ASSUME NEW p \in Players
                 PROVE  blocked'[p] - Total(By(p, offers')) >= blocked[p] - Total(By(p, offers))
      BY DEF Loose
    <3>1. /\ Total(By(p, offers')) \in Nat /\ blocked' = blocked
          /\ Total(By(p, offers)) = (IF p = o.bidder THEN o.amount ELSE 0) + Total(By(p, offers'))
      BY <1>11, OneGone DEF TornDropOffer
    <3> QED BY <2>1, <3>1, WorthNat
  <2> QED BY <1>11, <2>2, BlockedKept DEF TornDropOffer, Dies
<1>12. CASE CloseSeason
  BY <1>12, CloseUnfolds, ReleaseTight, BlockedKept
<1>13. CASE UNCHANGED vars
  BY <1>1, <1>13 DEF vars
<1>14. ASSUME \/ \E p \in Players : AdminCredit(p) \/ BuyCoins(p) \/ SetIban(p) \/ RequestWithdraw(p)
              \/ \E i \in 1..Len(withdrawals) : PayWithdrawal(i) \/ RejectWithdrawal(i)
              \/ \E p \in Players, t \in Tombs : Capture(p, t)
       PROVE  FALSE
  BY <1>1, <1>14 DEF AdminCredit, BuyCoins, SetIban, RequestWithdraw, PayWithdrawal, RejectWithdrawal, Capture
<1> QED
  BY <1>3, <1>4, <1>5, <1>6, <1>7, <1>8, <1>9, <1>10, <1>11, <1>12, <1>13, <1>14 DEF Next

-----------------------------------------------------------------------------
(* The close leaves nothing open.                                          *)

LEMMA NothingBlocked ==
  ASSUME Typed, BlockedMatchesOffers, offers = {}, crashes = 0, NEW p \in Players
  PROVE  blocked[p] = 0
<1>1. By(p, offers) = {}
  BY DEF By
<1> QED BY <1>1, TotalEmpty DEF BlockedMatchesOffers

LEMMA SettledStep ==
  ASSUME Typed, Typed', BlockedMatchesOffers, BlockedMatchesOffers', SettledAtClose, [Next]_vars
  PROVE  SettledAtClose'
<1>1. SUFFICES ASSUME closed' PROVE offers' = {} /\ \A i \in Rows' : art'[i].sold
  <2>1. ASSUME offers' = {}, crashes' = 0, NEW p \in Players PROVE blocked'[p] = 0
    <3>1. By(p, offers') = {}
      BY <2>1 DEF By
    <3> QED BY <2>1, <3>1, TotalEmpty DEF BlockedMatchesOffers
  <2> QED BY <2>1 DEF SettledAtClose
<1>2. CASE CloseSeason
  <2>1. art' = [i \in Ids |-> IF i \in Rows THEN [art[i] EXCEPT !.sold = TRUE] ELSE None]
    BY <1>2, CloseUnfolds
  <2>2. offers' = {}
    BY <1>2, CloseUnfolds DEF Release
  <2>3. ASSUME NEW i \in Ids, art'[i] # None PROVE art'[i].sold
    <3>1. i \in Rows /\ art'[i] = [art[i] EXCEPT !.sold = TRUE]
      BY <2>1, <2>3
    <3>2. art[i] \in Artifacts
      BY <3>1, Owned DEF Rows
    <3>3. [art[i] EXCEPT !.sold = TRUE].sold
      BY <3>2 DEF Artifacts
    <3> QED BY <3>1, <3>3
  <2> QED BY <2>2, <2>3 DEF Rows
<1>3. ASSUME ~CloseSeason PROVE closed /\ offers = {} /\ \A i \in Rows : art[i].sold
  <2>1. closed
    BY <1>1, <1>3 DEF Next, vars, AdminCredit, BuyCoins, SetIban, RequestWithdraw, QuitSeason, TornPayment,
       PayWithdrawal, RejectWithdrawal, TornRejectWithdrawal, Capture, MakeOffer, TornMakeOffer, AcceptOffer,
       RejectOffer, DropOffer, TornAcceptOffer, TornDropOffer
  <2> QED BY <2>1 DEF SettledAtClose
<1>4. ASSUME offers' = offers, art' = art, ~CloseSeason PROVE offers' = {} /\ \A i \in Rows' : art'[i].sold
  BY <1>3, <1>4 DEF Rows
<1>5. ASSUME NEW p \in Players, QuitSeason(p), ~CloseSeason PROVE offers' = {} /\ \A i \in Rows' : art'[i].sold
  <2>1. offers' = {}
    BY <1>3, <1>5 DEF QuitSeason, Release
  <2>2. \A i \in Rows' : i \in Rows /\ art'[i] = art[i]
    BY <1>5 DEF QuitSeason, Rows
  <2> QED BY <1>3, <1>5, <2>1, <2>2
<1> QED
  BY <1>1, <1>2, <1>3, <1>4, <1>5
  DEF Next, vars, AdminCredit, BuyCoins, SetIban, RequestWithdraw, TornPayment,
      PayWithdrawal, RejectWithdrawal, TornRejectWithdrawal, Capture, MakeOffer, TornMakeOffer, CanOffer

-----------------------------------------------------------------------------
(* Wallets cover their offers, as long as the admin only gives.            *)

\* While the season is open a wallet covers what is blocked in it; the close
\* may leave money blocked, by a handler that died, in a wallet it paid out.
Covered == \A p \in Players : toman[p] >= 0 /\ (~closed => toman[p] >= blocked[p])

LEMMA BlockedNat ==
  ASSUME Typed, BlockedMatchesOffers, NEW p \in Players
  PROVE  blocked[p] >= 0 /\ blocked[p] \in Int /\ toman[p] \in Int /\ blocked[p] >= Total(By(p, offers))
<1>1. Total(By(p, offers)) \in Nat /\ blocked[p] \in Int /\ toman[p] \in Int
  BY WorthNat
<1>2. IF crashes = 0 THEN blocked[p] = Total(By(p, offers)) ELSE blocked[p] >= Total(By(p, offers))
  BY DEF BlockedMatchesOffers
<1> QED BY <1>1, <1>2

\* With the season open the second half of Covered implies the first.
LEMMA CoveredOpen ==
  ASSUME Typed', BlockedMatchesOffers', \A p \in Players : toman'[p] >= blocked'[p]
  PROVE  Covered'
<1> SUFFICES ASSUME NEW p \in Players PROVE toman'[p] >= 0 /\ toman'[p] >= blocked'[p]
  BY DEF Covered
<1>1. offers' \in SUBSET Offers /\ IsFiniteSet(offers') /\ {} \in SUBSET offers'
  BY DEF Typed
<1>2. Total(By(p, offers')) \in Nat /\ blocked'[p] \in Int /\ toman'[p] \in Int
  BY <1>1, WorthLeft DEF Typed
<1>3. IF crashes' = 0 THEN blocked'[p] = Total(By(p, offers')) ELSE blocked'[p] >= Total(By(p, offers'))
  BY DEF BlockedMatchesOffers
<1>4. toman'[p] >= blocked'[p]
  OBVIOUS
<1> QED BY <1>2, <1>3, <1>4

\* The wallet p changes by n, nothing is blocked or closed.
LEMMA CoveredWallet ==
  ASSUME Typed, BlockedMatchesOffers, Covered, NEW p \in Players, NEW n \in Int,
         n >= 0 \/ -n <= FreeBalance(p),
         toman' = [toman EXCEPT ![p] = @ + n], blocked' = blocked, closed' = closed
  PROVE  Covered'
<1> SUFFICES ASSUME NEW q \in Players
             PROVE  toman'[q] >= 0 /\ (~closed => toman'[q] >= blocked[q])
  BY DEF Covered
<1>1. blocked[q] >= 0 /\ blocked[q] \in Int /\ toman[q] \in Int
  BY BlockedNat
<1>2. toman[q] >= 0 /\ (~closed => toman[q] >= blocked[q])
  BY DEF Covered
<1>3. CASE q = p
  <2>1. toman'[q] = toman[q] + n
    BY <1>3 DEF Typed
  <2>2. n >= 0 \/ -n <= toman[q] - blocked[q]
    BY <1>3 DEF FreeBalance
  <2> QED BY <1>1, <1>2, <2>1, <2>2
<1>4. CASE q # p
  <2>1. toman'[q] = toman[q]
    BY <1>4 DEF Typed
  <2> QED BY <1>2, <2>1
<1> QED BY <1>3, <1>4

\* Some offers go, the wallets stay.
LEMMA CoveredRelease ==
  ASSUME Typed, Covered, NEW T \in SUBSET offers, Release(T), toman' = toman, closed' = closed
  PROVE  Covered'
<1> SUFFICES ASSUME NEW p \in Players
             PROVE  toman[p] >= 0 /\ (~closed => toman[p] >= blocked'[p])
  BY DEF Covered
<1>1. Total(By(p, T)) \in Nat /\ blocked[p] \in Int /\ toman[p] \in Int
  BY TotalsInt, WorthNat
<1>2. blocked'[p] = blocked[p] - Total(By(p, T))
  BY DEF Release
<1>3. toman[p] >= 0 /\ (~closed => toman[p] >= blocked[p])
  BY DEF Covered
<1> QED BY <1>1, <1>2, <1>3

LEMMA CoveredStep ==
  ASSUME issued' >= issued, Typed, Typed', BlockedMatchesOffers, BlockedMatchesOffers',
         SettledAtClose, Covered, [Next]_vars
  PROVE  Covered'
<1>1. \A p \in Players : blocked[p] >= 0 /\ blocked[p] \in Int /\ toman[p] \in Int
  BY BlockedNat
<1>2. ASSUME toman' = toman, blocked' = blocked, closed' = closed PROVE Covered'
  BY <1>2 DEF Covered
<1>3. ASSUME NEW p \in Players, AdminCredit(p) PROVE Covered'
  <2>1. PICK n \in Credits : /\ Credit(p, n) /\ blocked' = blocked /\ closed' = closed
                              /\ issued' = issued + n
    BY <1>3 DEF AdminCredit
  <2>2. n \in Int /\ issued \in Int
    BY AmountsAssumption DEF Typed
  <2>3. n >= 0
    BY <2>1, <2>2
  <2> QED BY <2>1, <2>2, <2>3, CoveredWallet DEF Credit
<1>4. ASSUME NEW p \in Players, BuyCoins(p) \/ RequestWithdraw(p) \/ TornPayment(p) PROVE Covered'
  <2>1. PICK n \in Amounts : /\ n <= FreeBalance(p) /\ blocked' = blocked /\ closed' = closed
                             /\ toman' = [toman EXCEPT ![p] = @ + (-n)]
    <3>1. CASE BuyCoins(p)
      <4>1. PICK n \in Amounts : BuyCoins(p)!(n)
        BY <3>1 DEF BuyCoins
      <4>2. n \in Int /\ FreeBalance(p) \in Int
        BY <1>1, AmountsAssumption DEF FreeBalance
      <4> QED BY <4>1, <4>2 DEF Credit
    <3>2. CASE RequestWithdraw(p)
      BY <3>2 DEF RequestWithdraw, Credit
    <3>3. CASE TornPayment(p)
      <4>1. PICK n \in Amounts : TornPayment(p)!(n)
        BY <3>3 DEF TornPayment
      <4>2. n \in Int /\ toman[p] \in Int /\ toman[p] - n = toman[p] + (-n)
        BY <1>1, AmountsAssumption
      <4> QED BY <4>1, <4>2
    <3> QED BY <1>4, <3>1, <3>2, <3>3
  <2>2. n \in Int /\ -n \in Int /\ -(-n) = n
    BY AmountsAssumption
  <2> QED BY <2>1, <2>2, CoveredWallet
<1>5. ASSUME NEW i \in 1..Len(withdrawals), RejectWithdrawal(i) PROVE Covered'
  <2>1. withdrawals[i].player \in Players /\ withdrawals[i].amount \in Nat
    BY RowOf
  <2>2. withdrawals[i].amount \in Int /\ withdrawals[i].amount >= 0
    BY <2>1
  <2>3. toman' = [toman EXCEPT ![withdrawals[i].player] = @ + withdrawals[i].amount]
    BY <1>5 DEF RejectWithdrawal, Credit
  <2>4. blocked' = blocked /\ closed' = closed
    BY <1>5 DEF RejectWithdrawal
  <2> QED BY <2>1, <2>2, <2>3, <2>4, CoveredWallet
<1>6. ASSUME NEW p \in Players, NEW i \in Ids, MakeOffer(p, i) \/ TornMakeOffer(p, i) PROVE Covered'
  <2>1. PICK n \in Amounts : CanOffer(p, i, n) /\ blocked' = [blocked EXCEPT ![p] = @ + n]
                             /\ toman' = toman
    BY <1>6 DEF MakeOffer, TornMakeOffer
  <2>2. \A q \in Players : toman'[q] >= blocked'[q]
    <3> SUFFICES ASSUME NEW q \in Players PROVE toman[q] >= blocked'[q]
      BY <2>1
    <3>1. blocked'[q] = IF q = p THEN blocked[q] + n ELSE blocked[q]
      BY <2>1 DEF Typed
    <3>2. toman[p] - blocked[p] >= n /\ ~closed
      BY <2>1 DEF CanOffer, FreeBalance
    <3>3. toman[q] >= blocked[q]
      BY <3>2 DEF Covered
    <3>4. n \in Int
      BY AmountsAssumption
    <3> QED BY <1>1, <3>1, <3>2, <3>3, <3>4
  <2> QED BY <2>2, CoveredOpen
<1>7. ASSUME NEW p \in Players, QuitSeason(p) PROVE Covered'
  <2>1. By(p, offers) \in SUBSET offers
    BY DEF By
  <2> QED BY <1>7, <2>1, CoveredRelease DEF QuitSeason
<1>8. ASSUME NEW o \in offers, RejectOffer(o) \/ DropOffer(o) PROVE Covered'
  <2>1. {o} \in SUBSET offers /\ Release({o}) /\ toman' = toman /\ closed' = closed
    BY <1>8 DEF RejectOffer, DropOffer
  <2> QED BY <2>1, CoveredRelease
<1>9. ASSUME NEW o \in offers
      PROVE  /\ ~closed /\ o.bidder \in Players /\ o.amount \in Nat
             /\ \A p \in Players : toman[p] >= blocked[p]
  <2>1. ~closed
    BY DEF SettledAtClose
  <2> QED BY <2>1, OfferParts DEF Covered, Typed
<1>10. ASSUME NEW o \in offers, AcceptOffer(o) PROVE Covered'
  <2> DEFINE T == ({r \in offers : r.art = o.art} \ {o}) \cup {o}
             seller == art[o.art].owner
  <2>1. T \in SUBSET offers /\ o \in T
    OBVIOUS
  <2>2. \A p \in Players : toman'[p] >= blocked'[p]
    <3> SUFFICES ASSUME NEW p \in Players PROVE toman'[p] >= blocked'[p]
      OBVIOUS
    <3>1. blocked'[p] = blocked[p] - Total(By(p, T))
      BY <1>10 DEF AcceptOffer
    <3>2. toman'[p] = toman[p] - (IF p = o.bidder THEN o.amount ELSE 0) + (IF p = seller THEN o.amount ELSE 0)
      BY <1>10 DEF AcceptOffer, Moved
    <3> HIDE DEF T, seller
    <3>3. /\ Total(By(p, T)) \in Nat /\ Total(By(p, {o})) \in Nat /\ Total(By(p, T \ {o})) \in Nat
          /\ Total(By(p, T)) = Total(By(p, {o})) + Total(By(p, T \ {o}))
      <4>1. T \in SUBSET Offers /\ IsFiniteSet(T) /\ {o} \in SUBSET T
        BY <2>1, FS_Subset DEF Typed
      <4> QED BY <4>1, WorthLeft
    <3>4. Total(By(p, {o})) = IF p = o.bidder THEN o.amount ELSE 0
      <4>1. o \in Offers
        BY DEF Typed
      <4> QED BY <4>1, WorthOne
    <3>5. o.amount \in Nat /\ toman[p] >= blocked[p] /\ blocked[p] \in Int /\ toman[p] \in Int
      BY <1>1, <1>9
    <3> QED BY <3>1, <3>2, <3>3, <3>4, <3>5
  <2> QED BY <2>2, CoveredOpen
<1>11. ASSUME NEW o \in offers, TornAcceptOffer(o) PROVE Covered'
  <2>1. PICK paid \in {0, o.amount}, got \in {0, o.amount} :
          /\ blocked' = [blocked EXCEPT ![o.bidder] = @ - paid]
          /\ toman' = Moved(toman, o.bidder, paid, art[o.art].owner, got)
    BY <1>11 DEF TornAcceptOffer
  <2>2. \A p \in Players : toman'[p] >= blocked'[p]
    <3> SUFFICES ASSUME NEW p \in Players PROVE toman'[p] >= blocked'[p]
      OBVIOUS
    <3>1. blocked'[p] = IF p = o.bidder THEN blocked[p] - paid ELSE blocked[p]
      <4>1. blocked \in [Players -> Int]
        BY DEF Typed
      <4> QED BY <2>1, <4>1
    <3>2. toman'[p] = toman[p] - (IF p = o.bidder THEN paid ELSE 0)
                      + (IF p = art[o.art].owner THEN got ELSE 0)
      BY <2>1 DEF Moved
    <3>3. /\ paid \in Nat /\ got \in Nat
          /\ toman[p] >= blocked[p] /\ blocked[p] \in Int /\ toman[p] \in Int
      BY <1>1, <1>9
    <3> QED BY <3>1, <3>2, <3>3
  <2> QED BY <2>2, CoveredOpen
<1>12. CASE CloseSeason
  <2>1. closed' /\ toman' = [p \in Players |-> Rest(p)]
    BY <1>12, CloseUnfolds
  <2>2. \A p \in Players : Rest(p) >= 0
    <3> SUFFICES ASSUME NEW p \in Players PROVE Rest(p) >= 0
      OBVIOUS
    <3>1. Sale(p) \in Nat /\ toman[p] \in Int /\ toman[p] >= 0
      BY <1>1, SaleNat DEF Covered
    <3> QED BY <3>1 DEF Rest
  <2> QED BY <2>1, <2>2 DEF Covered
<1>13. CASE UNCHANGED vars
  BY <1>2, <1>13 DEF vars
<1> QED
  BY <1>2, <1>3, <1>4, <1>5, <1>6, <1>7, <1>8, <1>10, <1>11, <1>12, <1>13
  DEF Next, SetIban, PayWithdrawal, TornRejectWithdrawal, Capture, TornDropOffer

LEMMA CoveredBacks ==
  ASSUME Typed, BlockedMatchesOffers, SettledAtClose, Covered
  PROVE  OffersBacked
<1> SUFFICES ASSUME NEW p \in Players PROVE Total(By(p, offers)) <= toman[p]
  BY DEF OffersBacked
<1>1. /\ blocked[p] \in Int /\ toman[p] \in Int /\ blocked[p] >= Total(By(p, offers))
      /\ Total(By(p, offers)) \in Nat
  BY BlockedNat, WorthNat
<1>2. toman[p] >= 0 /\ (~closed => toman[p] >= blocked[p])
  BY DEF Covered
<1>3. CASE closed
  <2>1. By(p, offers) = {}
    BY <1>3 DEF SettledAtClose, By
  <2> QED BY <1>1, <1>2, <2>1, TotalEmpty
<1>4. CASE ~closed
  BY <1>1, <1>2, <1>4
<1> QED BY <1>3, <1>4

-----------------------------------------------------------------------------
(* Money is conserved.                                                     *)

\* What the rows of w have taken out of the wallets: MoneyConserved's Outside
\* for any sequence of rows.
Out(r) == IF r.status = "rejected" THEN 0 ELSE r.amount
Outs(w) == [i \in 1..Len(w) |-> Out(w[i])]
OutOf(w) == SumOver(Outs(w), 1..Len(w))

LEMMA OutsideIs ==
  ASSUME NEW w \in Seq(Withdrawals), w = withdrawals
  PROVE  Outside = OutOf(w)
<1>1. DOMAIN withdrawals = 1..Len(withdrawals)
  OBVIOUS
<1>2. Taken = Outs(withdrawals)
  BY <1>1 DEF Taken, Outs, Out
<1> QED BY <1>1, <1>2 DEF Outside, OutOf

LEMMA OutsInt ==
  ASSUME NEW w \in Seq(Withdrawals)
  PROVE  /\ Len(w) \in Nat /\ IsFiniteSet(1..Len(w))
         /\ \A i \in 1..Len(w) : w[i] \in Withdrawals /\ Outs(w)[i] \in Nat /\ Outs(w)[i] = Out(w[i])
         /\ OutOf(w) \in Nat
<1>1. Len(w) \in Nat
  BY LenProperties
<1>2. IsFiniteSet(1..Len(w))
  BY <1>1, FS_Interval
<1>3. \A i \in 1..Len(w) : w[i] \in Withdrawals
  BY ElementOfSeq
<1>4. \A i \in 1..Len(w) : Outs(w)[i] \in Nat /\ Outs(w)[i] = Out(w[i])
  BY <1>3 DEF Outs, Out, Withdrawals
<1>5. OutOf(w) \in Nat
  BY <1>2, <1>4, SumNat DEF OutOf
<1> QED BY <1>1, <1>2, <1>3, <1>4, <1>5

\* One more row,
LEMMA OutAppend ==
  ASSUME NEW w \in Seq(Withdrawals), NEW r \in Withdrawals
  PROVE  Append(w, r) \in Seq(Withdrawals) /\ OutOf(Append(w, r)) = OutOf(w) + Out(r)
<1> DEFINE v == Append(w, r)
           k == Len(w) + 1
<1>1. v \in Seq(Withdrawals) /\ Len(v) = k /\ (\A i \in 1..Len(w) : v[i] = w[i]) /\ v[k] = r
  BY AppendProperties
<1> HIDE DEF v
<1>2. Len(w) \in Nat /\ IsFiniteSet(1..Len(w)) /\ OutOf(w) \in Nat
  BY OutsInt
<1>3. 1..Len(v) = (1..Len(w)) \cup {k} /\ k \notin 1..Len(w)
  BY <1>1, <1>2
<1>4. \A i \in (1..Len(w)) \cup {k} : Outs(v)[i] \in Int
  BY <1>1, <1>3, OutsInt
<1>5. SumOver(Outs(v), (1..Len(w)) \cup {k}) = Outs(v)[k] + SumOver(Outs(v), 1..Len(w))
  BY <1>2, <1>3, <1>4, SumAdd
<1>6. SumOver(Outs(v), 1..Len(w)) = SumOver(Outs(w), 1..Len(w))
  <2>1. \A i \in 1..Len(w) : Outs(w)[i] \in Int /\ Outs(v)[i] = Outs(w)[i]
    <3>1. ASSUME NEW i \in 1..Len(w) PROVE Outs(w)[i] \in Int /\ Outs(v)[i] = Outs(w)[i]
      <4>1. i \in 1..Len(v) /\ v[i] = w[i]
        BY <1>1, <1>3
      <4> QED BY <1>1, <4>1, OutsInt
    <3> QED BY <3>1
  <2> QED BY <1>2, <2>1, SumAgree
<1>7. Outs(v)[k] = Out(r) /\ Out(r) \in Nat
  BY <1>1, <1>3, OutsInt
<1>8. OutOf(v) = SumOver(Outs(v), (1..Len(w)) \cup {k})
  BY <1>3 DEF OutOf
<1>9. OutOf(v) = OutOf(w) + Out(r)
  BY <1>2, <1>5, <1>6, <1>7, <1>8 DEF OutOf
<1> QED BY <1>1, <1>9 DEF v

\* one row changed,
LEMMA OutChange ==
  ASSUME NEW w \in Seq(Withdrawals), NEW v \in Seq(Withdrawals), NEW i \in 1..Len(w),
         Len(v) = Len(w), \A j \in 1..Len(w) : j # i => v[j] = w[j]
  PROVE  OutOf(v) = OutOf(w) + Out(v[i]) - Out(w[i])
<1>1. IsFiniteSet(1..Len(w))
  BY OutsInt
<1>2. \A j \in 1..Len(w) : /\ Outs(w)[j] \in Int /\ Outs(w)[j] = Out(w[j])
                           /\ Outs(v)[j] \in Int /\ Outs(v)[j] = Out(v[j])
  BY OutsInt
<1>3. \A j \in 1..Len(w) : Outs(w)[j] \in Int /\ Outs(v)[j] \in Int /\ (j # i => Outs(v)[j] = Outs(w)[j])
  BY <1>2
<1>4. SumOver(Outs(v), 1..Len(w)) = SumOver(Outs(w), 1..Len(w)) + Outs(v)[i] - Outs(w)[i]
  <2> DEFINE f == Outs(w)
             g == Outs(v)
             S == 1..Len(w)
  <2>1. i \in S /\ IsFiniteSet(S)
    BY <1>1
  <2>2. DifferAt(i, S, f, g)
    BY <1>3 DEF DifferAt
  <2> HIDE DEF f, g, S
  <2>3. SumOver(g, S) = SumOver(f, S) + g[i] - f[i]
    BY <2>1, <2>2, SumUpdate
  <2> QED BY <2>3 DEF f, g, S
<1>5. OutOf(v) = SumOver(Outs(v), 1..Len(w)) /\ OutOf(w) = SumOver(Outs(w), 1..Len(w))
  BY DEF OutOf
<1> QED BY <1>2, <1>4, <1>5

\* and one more row for each of P.
LEMMA OutConcat ==
  ASSUME NEW w \in Seq(Withdrawals), NEW v \in Seq(Withdrawals), NEW P, IsFiniteSet(P), NEW due \in [P -> Nat],
         NEW n \in Nat, NEW place \in [P -> 1..n],
         Follow(v, w, P, due, n, place)
  PROVE  OutOf(v) = OutOf(w) + SumOver(due, P)
<1> USE DEF Follow
<1> DEFINE k == Len(w)
           b == [p \in P |-> k + place[p]]
<1>1. k \in Nat /\ IsFiniteSet(1..k) /\ IsFiniteSet(1..Len(v)) /\ OutOf(w) \in Nat
  BY OutsInt
<1>2. 1..k \in SUBSET (1..Len(v))
  BY <1>1
<1>3. SumOver(Outs(v), 1..Len(v)) = SumOver(Outs(v), 1..k) + SumOver(Outs(v), (1..Len(v)) \ (1..k))
  <2>1. \A i \in 1..Len(v) : Outs(v)[i] \in Int
    BY OutsInt
  <2> HIDE DEF k
  <2> QED BY <1>1, <1>2, <2>1, SumSplit
<1>4. SumOver(Outs(v), 1..k) = SumOver(Outs(w), 1..k)
  <2>1. \A i \in 1..k : Outs(w)[i] \in Int /\ Outs(v)[i] = Outs(w)[i]
    <3> SUFFICES ASSUME NEW i \in 1..k PROVE Outs(w)[i] \in Int /\ Outs(v)[i] = Outs(w)[i]
      OBVIOUS
    <3>1. i \in 1..Len(v) /\ v[i] = w[i]
      BY <1>2
    <3> QED BY <3>1, OutsInt
  <2> HIDE DEF k
  <2> QED BY <1>1, <2>1, SumAgree
<1>5. (1..Len(v)) \ (1..k) = {b[p] : p \in P}
  <2>1. \A j \in 1..n : k + j \in (1..Len(v)) \ (1..k)
    BY <1>1
  <2>2. \A i \in (1..Len(v)) \ (1..k) : i - k \in 1..n
    BY <1>1
  <2>3. \A i \in (1..Len(v)) \ (1..k) : \E p \in P : i = b[p]
    <3> SUFFICES ASSUME NEW i \in (1..Len(v)) \ (1..k) PROVE \E p \in P : i = b[p]
      OBVIOUS
    <3>1. PICK p \in P : place[p] = i - k
      BY <2>2
    <3> QED BY <1>1, <3>1
  <2>4. \A p \in P : b[p] \in (1..Len(v)) \ (1..k)
    BY <2>1
  <2> HIDE DEF b, k
  <2> QED BY <2>3, <2>4, SMTT(30)
<1>6. SumOver(Outs(v), {b[p] : p \in P}) = SumOver(due, P)
  <2>1. \A p \in P : due[p] \in Int /\ Outs(v)[b[p]] = due[p]
    <3> SUFFICES ASSUME NEW p \in P PROVE due[p] \in Int /\ Outs(v)[b[p]] = due[p]
      OBVIOUS
    <3>1. b[p] \in 1..Len(v)
      BY <1>1
    <3>2. Outs(v)[b[p]] = Out(v[b[p]])
      <4> HIDE DEF b
      <4> QED BY <3>1, OutsInt
    <3>3. Out(Row(p, due[p])) = due[p]
      BY DEF Out, Row
    <3> QED BY <3>2, <3>3
  <2>2. \A p, q \in P : b[p] = b[q] => p = q
    BY <1>1
  <2> DEFINE g == Outs(v)
  <2>3. Renames(b, P, due, g) /\ Names(b, P) = {b[p] : p \in P}
    BY <2>1, <2>2 DEF Renames, Names
  <2> HIDE DEF b, g
  <2>4. SumOver(g, Names(b, P)) = SumOver(due, P)
    BY <2>3, SumReindex, ZenonT(40)
  <2> QED BY <2>3, <2>4 DEF g
<1>7. OutOf(v) = SumOver(Outs(v), 1..Len(v)) /\ OutOf(w) = SumOver(Outs(w), 1..k)
  BY DEF OutOf
<1>8. SumOver(Outs(v), (1..Len(v)) \ (1..k)) = SumOver(Outs(v), {b[p] : p \in P})
  BY <1>5
<1> HIDE DEF b, k
<1> QED BY <1>3, <1>4, <1>6, <1>7, <1>8

LEMMA HeldIs ==
  ASSUME Typed
  PROVE  /\ Held = Sum(toman) + pool + OutOf(withdrawals)
         /\ Sum(toman) \in Int /\ pool \in Int /\ OutOf(withdrawals) \in Int /\ issued \in Int
<1>1. withdrawals \in Seq(Withdrawals) /\ toman \in [Players -> Int] /\ pool \in Int /\ issued \in Int
  BY DEF Typed
<1>2. Outside = OutOf(withdrawals) /\ OutOf(withdrawals) \in Nat
  BY <1>1, OutsideIs, OutsInt
<1>3. Sum(toman) \in Int
  BY <1>1, SumPlayersInt
<1> QED BY <1>1, <1>2, <1>3 DEF Held

LEMMA HeldIsNext ==
  ASSUME Typed'
  PROVE  /\ Held' = Sum(toman') + pool' + OutOf(withdrawals')
         /\ Sum(toman') \in Int /\ pool' \in Int /\ OutOf(withdrawals') \in Int /\ issued' \in Int
<1>1. withdrawals' \in Seq(Withdrawals) /\ toman' \in [Players -> Int] /\ pool' \in Int /\ issued' \in Int
  BY DEF Typed
<1>2. Outside' = OutOf(withdrawals')
  <2>1. DOMAIN withdrawals' = 1..Len(withdrawals')
    BY <1>1
  <2>2. Taken' = Outs(withdrawals')
    BY <2>1 DEF Taken, Outs, Out
  <2> QED BY <2>1, <2>2 DEF Outside, OutOf
<1>3. Sum(toman') \in Int /\ OutOf(withdrawals') \in Nat
  BY <1>1, SumPlayersInt, OutsInt
<1> QED BY <1>1, <1>2, <1>3 DEF Held

\* What a step may do: keep the money and the rows of transactions that say
\* so, or die and lose some.
Kept == /\ Sum(toman') + pool' + OutOf(withdrawals') - issued' = Sum(toman) + pool + OutOf(withdrawals) - issued
        /\ toman = ledger => toman' = ledger'
        /\ crashes' = crashes
Lost == /\ Sum(toman') + pool' + OutOf(withdrawals') <= Sum(toman) + pool + OutOf(withdrawals)
        /\ issued' = issued /\ crashes' = crashes + 1

LEMMA Conserved ==
  ASSUME Typed, Typed', MoneyConserved, Kept \/ Lost
  PROVE  MoneyConserved'
<1>1. /\ Held = Sum(toman) + pool + OutOf(withdrawals)
      /\ Sum(toman) \in Int /\ pool \in Int /\ OutOf(withdrawals) \in Int /\ issued \in Int
  BY HeldIs
<1>2. /\ Held' = Sum(toman') + pool' + OutOf(withdrawals')
      /\ Sum(toman') \in Int /\ pool' \in Int /\ OutOf(withdrawals') \in Int /\ issued' \in Int
  BY HeldIsNext
<1>3. crashes \in Nat
  BY DEF Typed
<1>4. Held <= issued /\ Held \in Int /\ Held' \in Int
  BY <1>1, <1>2 DEF MoneyConserved
<1>5. CASE Kept
  <2>1. Held' - issued' = Held - issued /\ crashes' = crashes
    BY <1>1, <1>2, <1>5 DEF Kept
  <2>2. CASE crashes = 0
    <3>1. Held = issued /\ toman = ledger
      BY <2>2 DEF MoneyConserved
    <3>2. Held' = issued'
      BY <1>1, <1>2, <1>4, <2>1, <3>1
    <3>3. toman' = ledger'
      BY <1>5, <3>1 DEF Kept
    <3> QED BY <2>1, <2>2, <3>2, <3>3 DEF MoneyConserved
  <2>3. CASE crashes # 0
    <3>1. Held' <= issued'
      BY <1>1, <1>2, <1>4, <2>1
    <3> QED BY <2>1, <2>3, <3>1 DEF MoneyConserved
  <2> QED BY <2>2, <2>3
<1>6. CASE Lost
  <2>1. Held' <= issued' /\ crashes' # 0
    BY <1>1, <1>2, <1>3, <1>4, <1>6 DEF Lost
  <2> QED BY <2>1 DEF MoneyConserved
<1> QED BY <1>5, <1>6

\* creditToman changes the sum by its amount and the transactions likewise.
LEMMA CreditSum ==
  ASSUME Typed, NEW p \in Players, NEW n \in Int, Credit(p, n)
  PROVE  Sum(toman') = Sum(toman) + n /\ (toman = ledger => toman' = ledger')
<1>1. toman \in [Players -> Int] /\ toman' \in [Players -> Int]
  BY DEF Credit, Typed
<1>2. Shifted(toman', toman, p, n)
  BY <1>1 DEF Credit, Shifted
<1>3. Sum(toman') = Sum(toman) + n
  BY <1>1, <1>2, SumChanged
<1>4. toman = ledger => toman' = ledger'
  BY DEF Credit
<1> QED BY <1>3, <1>4

\* The close takes out of the wallets what it adds as rows of withdrawals.
LEMMA CloseKeeps ==
  ASSUME Typed, CloseSeason
  PROVE  Kept
<1> DEFINE sale == [p \in Players |-> Sale(p)]
           out == [p \in Players |-> IF p \in Payees THEN Due[p] ELSE 0]
           all == [p \in Players |-> toman[p] + Sale(p)]
<1>1. /\ toman' = [p \in Players |-> Rest(p)]
      /\ ledger' = [p \in Players |-> ledger[p] - toman[p] + Rest(p)]
      /\ issued' = issued + Sum(sale)
      /\ pool' = pool /\ crashes' = crashes
  BY CloseUnfolds
<1>2. toman \in [Players -> Int] /\ sale \in [Players -> Int]
  BY SaleNat DEF Typed
<1>3. Payees \in SUBSET Players /\ Due \in [Payees -> Nat] /\ IsFiniteSet(Players)
  BY PayeesTyped, RowsAssumption
<1>4. \A p \in Players : toman[p] \in Int /\ sale[p] \in Int /\ all[p] = toman[p] + sale[p]
  BY <1>2
<1>5. \A p \in Players : toman'[p] \in Int /\ out[p] \in Int /\ all[p] = toman'[p] + out[p]
  <2> SUFFICES ASSUME NEW p \in Players
               PROVE  toman'[p] \in Int /\ out[p] \in Int /\ all[p] = toman'[p] + out[p]
    OBVIOUS
  <2>1. toman[p] \in Int /\ Sale(p) \in Int
    BY <1>2, SaleNat
  <2>2. CASE p \in Payees
    BY <1>1, <2>1, <2>2 DEF Rest, Due
  <2>3. CASE p \notin Payees
    BY <1>1, <2>1, <2>3 DEF Rest
  <2> QED BY <2>2, <2>3
<1>6. SumOver(out, Players) = SumOver(out, Payees) + SumOver(out, Players \ Payees)
  <2>1. \A p \in Players : out[p] \in Int
    BY <1>5
  <2> HIDE DEF out
  <2> QED BY <1>3, <2>1, SumSplit
<1>7. SumOver(out, Players \ Payees) = 0
  <2>1. \A p \in Players \ Payees : out[p] = 0
    OBVIOUS
  <2>2. IsFiniteSet(Players \ Payees)
    BY <1>3, FS_Subset
  <2> HIDE DEF out
  <2> QED BY <2>1, <2>2, SumZero
<1>8. SumOver(out, Payees) = SumOver(Due, Payees)
  <2>1. \A p \in Payees : Due[p] \in Int /\ out[p] = Due[p]
    BY <1>3
  <2>2. IsFiniteSet(Payees)
    BY <1>3, FS_Subset
  <2> HIDE DEF out
  <2> QED BY <2>1, <2>2, SumAgree
<1>9. OutOf(withdrawals') = OutOf(withdrawals) + SumOver(Due, Payees)
  <2>0. PICK n \in Nat : \E place \in [Payees -> 1..n] : Follow(withdrawals', withdrawals, Payees, Due, n, place)
    BY CloseRows
  <2>1. PICK place \in [Payees -> 1..n] : Follow(withdrawals', withdrawals, Payees, Due, n, place)
    BY <2>0
  <2>2. withdrawals' \in Seq(Withdrawals)
    BY CloseRows
  <2>3. withdrawals \in Seq(Withdrawals) /\ IsFiniteSet(Payees)
    BY <1>3, FS_Subset DEF Typed
  <2> QED BY <1>3, <2>1, <2>2, <2>3, OutConcat
<1>10. SumOver(all, Players) = SumOver(toman, Players) + SumOver(sale, Players)
  <2> HIDE DEF sale, all
  <2> QED BY <1>3, <1>4, SumPlus
<1>11. SumOver(all, Players) = SumOver(toman', Players) + SumOver(out, Players)
  <2> HIDE DEF out, all
  <2> QED BY <1>3, <1>5, SumPlus
<1>12. /\ SumOver(toman', Players) \in Int /\ SumOver(toman, Players) \in Int
       /\ SumOver(sale, Players) \in Int /\ SumOver(out, Players) \in Int
       /\ SumOver(out, Payees) \in Int
  <2>1. IsFiniteSet(Payees)
    BY <1>3, FS_Subset
  <2> HIDE DEF out, sale
  <2> QED BY <1>3, <1>4, <1>5, <2>1, SumInt
<1>13. toman = ledger => toman' = ledger'
  <2> SUFFICES ASSUME toman = ledger PROVE toman' = ledger'
    OBVIOUS
  <2>1. \A p \in Players : ledger[p] - toman[p] + Rest(p) = Rest(p)
    <3> SUFFICES ASSUME NEW p \in Players PROVE ledger[p] - toman[p] + Rest(p) = Rest(p)
      OBVIOUS
    <3>1. toman[p] \in Int /\ Rest(p) \in Int
      BY <1>2, SaleNat DEF Rest
    <3> QED BY <3>1
  <2> QED BY <1>1, <2>1
<1>14. OutOf(withdrawals) \in Int /\ OutOf(withdrawals') \in Int /\ pool \in Int /\ issued \in Int
  <2>1. withdrawals \in Seq(Withdrawals) /\ withdrawals' \in Seq(Withdrawals)
    BY CloseRows DEF Typed
  <2> QED BY <2>1, OutsInt DEF Typed
<1> HIDE DEF out, all, sale
<1>15. Sum(toman') + pool' + OutOf(withdrawals') - issued' = Sum(toman) + pool + OutOf(withdrawals) - issued
  <2>1. /\ Sum(toman') = SumOver(toman', Players) /\ Sum(toman) = SumOver(toman, Players)
        /\ Sum(sale) = SumOver(sale, Players)
    BY DEF Sum
  <2>2. SumOver(out, Players) = OutOf(withdrawals') - OutOf(withdrawals)
    BY <1>6, <1>7, <1>8, <1>9, <1>12, <1>14
  <2>3. Sum(toman') = Sum(toman) + Sum(sale) - SumOver(out, Players)
    BY <1>10, <1>11, <1>12, <2>1
  <2>4. Sum(toman) \in Int /\ Sum(sale) \in Int /\ SumOver(out, Players) \in Int
    BY <1>12, <2>1
  <2>5. pool' = pool /\ issued' = issued + Sum(sale)
    BY <1>1
  <2> QED BY <1>14, <2>2, <2>3, <2>4, <2>5
<1> QED BY <1>1, <1>13, <1>15 DEF Kept

LEMMA ConservedStep ==
  ASSUME Typed, Typed', MoneyConserved, [Next]_vars
  PROVE  MoneyConserved'
<1>0. /\ Sum(toman) \in Int /\ pool \in Int /\ OutOf(withdrawals) \in Int /\ issued \in Int
      /\ withdrawals \in Seq(Withdrawals) /\ withdrawals' \in Seq(Withdrawals)
      /\ Sum(toman') \in Int /\ OutOf(withdrawals') \in Int
      /\ toman \in [Players -> Int] /\ ledger \in [Players -> Int]
  BY HeldIs, HeldIsNext DEF Typed
<1>1. SUFFICES Kept \/ Lost
  BY Conserved
<1>2. ASSUME toman' = toman, ledger' = ledger, pool' = pool, withdrawals' = withdrawals, issued' = issued,
             crashes' = crashes \/ crashes' = crashes + 1
      PROVE  Kept \/ Lost
  BY <1>0, <1>2 DEF Kept, Lost
<1>3. ASSUME NEW p \in Players, AdminCredit(p) PROVE Kept
  <2>1. PICK n \in Credits : AdminCredit(p)!(n)
    BY <1>3 DEF AdminCredit
  <2>2. n \in Int
    BY AmountsAssumption
  <2>3. Sum(toman') = Sum(toman) + n /\ (toman = ledger => toman' = ledger')
    BY <2>1, <2>2, CreditSum
  <2> QED BY <1>0, <2>1, <2>2, <2>3 DEF Kept
<1>4. ASSUME NEW p \in Players, BuyCoins(p) PROVE Kept
  <2>1. PICK n \in Amounts : BuyCoins(p)!(n)
    BY <1>4 DEF BuyCoins
  <2>2. n \in Int /\ -n \in Int
    BY AmountsAssumption
  <2>3. Sum(toman') = Sum(toman) + (-n) /\ (toman = ledger => toman' = ledger')
    BY <2>1, <2>2, CreditSum
  <2> QED BY <1>0, <2>1, <2>2, <2>3 DEF Kept
<1>5. ASSUME NEW p \in Players, RequestWithdraw(p) PROVE Kept
  <2>1. PICK n \in Amounts : RequestWithdraw(p)!(n)
    BY <1>5 DEF RequestWithdraw
  <2>2. n \in Nat /\ n \in Int /\ -n \in Int
    BY AmountsAssumption
  <2>3. Sum(toman') = Sum(toman) + (-n) /\ (toman = ledger => toman' = ledger')
    BY <2>1, <2>2, CreditSum
  <2>4. Row(p, n) \in Withdrawals /\ Out(Row(p, n)) = n
    BY <2>2 DEF Row, Withdrawals, Out
  <2>5. OutOf(withdrawals') = OutOf(withdrawals) + n
    BY <1>0, <2>1, <2>4, OutAppend
  <2> QED BY <1>0, <2>1, <2>2, <2>3, <2>5, SMTT(30) DEF Kept
<1>6. ASSUME NEW i \in 1..Len(withdrawals), NEW s \in {"paid", "rejected"}, withdrawals[i].status = "pending",
             withdrawals' = [withdrawals EXCEPT ![i].status = s]
      PROVE  /\ withdrawals[i].player \in Players /\ withdrawals[i].amount \in Nat
             /\ OutOf(withdrawals') = OutOf(withdrawals) - (IF s = "rejected" THEN withdrawals[i].amount ELSE 0)
  <2> DEFINE w == withdrawals
             v == withdrawals'
  <2>1. w[i] \in Withdrawals /\ w[i].player \in Players /\ w[i].amount \in Nat
    BY RowOf
  <2>2. v = [w EXCEPT ![i] = [w[i] EXCEPT !.status = s]]
    BY <1>0, <1>6
  <2>3. Len(v) = Len(w) /\ (\A j \in 1..Len(w) : j # i => v[j] = w[j]) /\ v[i] = [w[i] EXCEPT !.status = s]
    BY <1>0, <2>2
  <2>4. Out(v[i]) = (IF s = "rejected" THEN 0 ELSE w[i].amount) /\ Out(w[i]) = w[i].amount
    BY <1>6, <2>1, <2>3 DEF Out, Withdrawals
  <2>5. w \in Seq(Withdrawals) /\ v \in Seq(Withdrawals)
    BY <1>0
  <2> HIDE DEF w, v
  <2>6. OutOf(v) = OutOf(w) + Out(v[i]) - Out(w[i])
    BY <1>6, <2>3, <2>5, OutChange DEF w
  <2>7. OutOf(v) \in Int /\ OutOf(w) \in Int
    BY <1>0 DEF v, w
  <2>8. OutOf(v) = OutOf(w) - (IF s = "rejected" THEN w[i].amount ELSE 0)
    BY <2>1, <2>4, <2>6, <2>7
  <2> QED BY <2>1, <2>8 DEF v, w
<1>7. ASSUME NEW i \in 1..Len(withdrawals), PayWithdrawal(i) PROVE Kept
  <2>1. OutOf(withdrawals') = OutOf(withdrawals)
    <3>1. OutOf(withdrawals') = OutOf(withdrawals) - 0
      BY <1>6, <1>7 DEF PayWithdrawal
    <3> QED BY <1>0, <3>1
  <2> QED BY <1>0, <1>7, <2>1 DEF PayWithdrawal, Kept
<1>8. ASSUME NEW i \in 1..Len(withdrawals), RejectWithdrawal(i) PROVE Kept
  <2> DEFINE n == withdrawals[i].amount
  <2>1. /\ withdrawals[i].player \in Players /\ n \in Nat
        /\ OutOf(withdrawals') = OutOf(withdrawals) - n
    BY <1>6, <1>8 DEF RejectWithdrawal
  <2>2. Sum(toman') = Sum(toman) + n /\ (toman = ledger => toman' = ledger')
    <3>1. n \in Int /\ Credit(withdrawals[i].player, n)
      BY <1>8, <2>1 DEF RejectWithdrawal
    <3> HIDE DEF n
    <3> QED BY <2>1, <3>1, CreditSum
  <2>3. pool' = pool /\ issued' = issued /\ crashes' = crashes
    BY <1>8 DEF RejectWithdrawal
  <2> HIDE DEF n
  <2> QED BY <1>0, <2>1, <2>2, <2>3 DEF Kept
<1>9. ASSUME NEW i \in 1..Len(withdrawals), TornRejectWithdrawal(i) PROVE Lost
  <2>1. withdrawals[i].amount \in Nat /\ OutOf(withdrawals') = OutOf(withdrawals) - withdrawals[i].amount
    BY <1>6, <1>9 DEF TornRejectWithdrawal
  <2>2. toman' = toman /\ pool' = pool /\ issued' = issued /\ crashes' = crashes + 1
    BY <1>9 DEF TornRejectWithdrawal, Dies
  <2> QED BY <1>0, <2>1, <2>2 DEF Lost
<1>10. ASSUME NEW p \in Players, TornPayment(p) PROVE Lost
  <2>1. PICK n \in Amounts : TornPayment(p)!(n)
    BY <1>10 DEF TornPayment
  <2> DEFINE m == -n
  <2>2. n \in Int /\ n >= 0 /\ m \in Int /\ m = -n
    BY AmountsAssumption
  <2>3. toman \in [Players -> Int] /\ toman' \in [Players -> Int] /\ Shifted(toman', toman, p, m)
    BY <1>0, <2>1, <2>2 DEF Shifted
  <2>4. Sum(toman') = Sum(toman) + m
    <3>1. m \in Int
      BY <2>2
    <3> HIDE DEF m
    <3> QED BY <2>3, <3>1, SumChanged
  <2> QED BY <1>0, <2>1, <2>2, <2>4 DEF Lost, Dies
<1>11. ASSUME NEW o \in offers, AcceptOffer(o) PROVE Kept
  <2>1. o.bidder \in Players /\ o.amount \in Int /\ o.art \in Ids
    BY OfferParts DEF Typed
  <2>2. art[o.art].owner \in Players
    BY <1>11, <2>1, Owned DEF AcceptOffer, Answerable, Rows
  <2>3. /\ toman' = Moved(toman, o.bidder, o.amount, art[o.art].owner, o.amount)
        /\ ledger' = Moved(ledger, o.bidder, o.amount, art[o.art].owner, o.amount)
        /\ pool' = pool /\ withdrawals' = withdrawals /\ issued' = issued /\ crashes' = crashes
    BY <1>11 DEF AcceptOffer
  <2>4. Sum(toman') = Sum(toman) - o.amount + o.amount
    <3> DEFINE b == o.bidder
               n == o.amount
               seller == art[o.art].owner
    <3>1. b \in Players /\ seller \in Players /\ n \in Int /\ toman' = Moved(toman, b, n, seller, n)
      BY <2>1, <2>2, <2>3
    <3> HIDE DEF b, n, seller
    <3>2. Sum(Moved(toman, b, n, seller, n)) = Sum(toman) - n + n
      BY <1>0, <3>1, RowsMoved, SMTT(30)
    <3> QED BY <3>1, <3>2 DEF n
  <2>5. Sum(toman') = Sum(toman)
    BY <1>0, <2>1, <2>4
  <2> QED BY <1>0, <2>3, <2>5 DEF Kept
<1>12. ASSUME NEW o \in offers, TornAcceptOffer(o) PROVE Lost
  <2>1. PICK done \in 1..4 : TornAcceptOffer(o)!(done)
    BY <1>12 DEF TornAcceptOffer
  <2>2. o.bidder \in Players /\ o.amount \in Nat /\ o.art \in Ids
    BY OfferParts DEF Typed
  <2>3. art[o.art].owner \in Players
    BY <2>1, <2>2, Owned DEF Answerable, Rows
  <2>4. PICK paid \in {0, o.amount}, got \in {0, o.amount} :
          got <= paid /\ toman' = Moved(toman, o.bidder, paid, art[o.art].owner, got)
    BY <2>1, <2>2
  <2>5. paid \in Int /\ got \in Int
    BY <2>2
  <2>6. Sum(toman') = Sum(toman) - paid + got
    <3> DEFINE b == o.bidder
               seller == art[o.art].owner
    <3>1. b \in Players /\ seller \in Players /\ toman' = Moved(toman, b, paid, seller, got)
      BY <2>2, <2>3, <2>4
    <3> HIDE DEF b, seller
    <3>2. Sum(Moved(toman, b, paid, seller, got)) = Sum(toman) - paid + got
      BY <1>0, <2>5, <3>1, RowsMoved
    <3> QED BY <3>1, <3>2
  <2>7. Sum(toman') <= Sum(toman)
    BY <1>0, <2>4, <2>5, <2>6
  <2>8. pool' = pool /\ withdrawals' = withdrawals /\ issued' = issued /\ crashes' = crashes + 1
    BY <2>1 DEF Dies
  <2> QED BY <1>0, <2>7, <2>8 DEF Lost
<1>13. CASE CloseSeason
  BY <1>13, CloseKeeps
<1>14. CASE UNCHANGED vars
  BY <1>2, <1>14 DEF vars
<1>15. ASSUME \/ \E p \in Players : SetIban(p) \/ QuitSeason(p)
              \/ \E p \in Players, t \in Tombs : Capture(p, t)
              \/ \E p \in Players, i \in Ids : MakeOffer(p, i) \/ TornMakeOffer(p, i)
              \/ \E o \in offers : RejectOffer(o) \/ DropOffer(o) \/ TornDropOffer(o)
       PROVE  Kept \/ Lost
  BY <1>2, <1>15 DEF SetIban, QuitSeason, Capture, MakeOffer, TornMakeOffer, RejectOffer, DropOffer,
     TornDropOffer, Dies
<1> QED
  BY <1>3, <1>4, <1>5, <1>7, <1>8, <1>9, <1>10, <1>11, <1>12, <1>13, <1>14, <1>15 DEF Next

-----------------------------------------------------------------------------
(* The theorems.                                                           *)

\* The inductive invariant: the types, and three properties of which the
\* last does not need the others.
MarketInv == Typed /\ BlockedMatchesOffers /\ SettledAtClose /\ MoneyConserved

LEMMA InitHolds == Init => MarketInv /\ Covered
<1> SUFFICES ASSUME Init PROVE MarketInv /\ Covered
  OBVIOUS
<1>1. Typed
  BY TypedInit
<1>2. BlockedMatchesOffers
  <2>1. \A p \in Players : By(p, offers) = {} /\ blocked[p] = 0
    BY DEF Init, By
  <2>2. crashes = 0
    BY DEF Init
  <2> QED BY <2>1, <2>2, TotalEmpty DEF BlockedMatchesOffers
<1>3. SettledAtClose
  BY DEF Init, SettledAtClose
<1>4. MoneyConserved
  <2>1. \A p \in Players : toman[p] = 0
    BY DEF Init
  <2>2. Sum(toman) = 0
    BY <2>1, RowsAssumption, SumZero DEF Sum
  <2>3. OutOf(withdrawals) = 0
    <3>1. 1..Len(withdrawals) = {}
      BY DEF Init
    <3> QED BY <3>1, SumEmpty DEF OutOf
  <2>4. Held = 0
    <3>1. Held = Sum(toman) + pool + OutOf(withdrawals)
      BY <1>1, HeldIs
    <3> QED BY <2>2, <2>3, <3>1 DEF Init
  <2>5. crashes = 0 /\ issued = 0 /\ toman = ledger
    BY DEF Init
  <2> QED BY <2>4, <2>5 DEF MoneyConserved
<1>5. Covered
  BY DEF Init, Covered
<1> QED BY <1>1, <1>2, <1>3, <1>4, <1>5 DEF MarketInv

LEMMA MarketStep == MarketInv /\ [Next]_vars => MarketInv'
<1> SUFFICES ASSUME MarketInv, [Next]_vars PROVE MarketInv'
  OBVIOUS
<1>1. Typed /\ BlockedMatchesOffers /\ SettledAtClose /\ MoneyConserved
  BY DEF MarketInv
<1>2. Typed'
  BY <1>1, TypedStep
<1>3. BlockedMatchesOffers'
  BY <1>1, <1>2, BlockedStep
<1>4. SettledAtClose'
  BY <1>1, <1>2, <1>3, SettledStep
<1>5. MoneyConserved'
  BY <1>1, <1>2, ConservedStep
<1> QED BY <1>2, <1>3, <1>4, <1>5 DEF MarketInv

\* The invariant holds in every reachable state.
THEOREM MarketInvHolds == Spec => []MarketInv
<1>1. Init => MarketInv
  BY InitHolds
<1> QED BY <1>1, MarketStep, PTL DEF Spec

\* What is blocked in a wallet is the sum of the player's open offers,
\* whatever number of players makes, answers, withdraws and cancels whatever
\* offers, and more only after a crash inside a handler.
THEOREM BlockedIsOffers == Spec => []BlockedMatchesOffers
<1>1. MarketInv => BlockedMatchesOffers
  BY DEF MarketInv
<1> QED BY <1>1, MarketInvHolds, PTL

\* Every toman ever credited is in a wallet, in the pool or withdrawn, and the
\* transactions rows say so; a crash inside a handler loses money, and never
\* makes any.
THEOREM MoneyIsConserved == Spec => []MoneyConserved
<1>1. MarketInv => MoneyConserved
  BY DEF MarketInv
<1> QED BY <1>1, MarketInvHolds, PTL

\* After the close no offer is open, every artifact is sold, and nothing is
\* blocked that no crash has orphaned.
THEOREM CloseSettles == Spec => []SettledAtClose
<1>1. MarketInv => SettledAtClose
  BY DEF MarketInv
<1> QED BY <1>1, MarketInvHolds, PTL

\* Wallets cover the players' offers at first, and no step uncovers one, a crash
\* in a handler or the close included, unless the admin takes money away with it
\* (issued falls): accepting all the offers of a player overdraws no wallet the
\* admin has not debited.
THEOREM OnlyDebitsUncover ==
  Spec => /\ Covered /\ OffersBacked
          /\ [][Covered /\ issued' >= issued => Covered' /\ OffersBacked']_vars
<1>1. Init => Covered /\ OffersBacked
  BY InitHolds, CoveredBacks DEF MarketInv
<1>2. ASSUME MarketInv, MarketInv', [Next]_vars, Covered, issued' >= issued
      PROVE  Covered' /\ OffersBacked'
  <2>1. Covered'
    BY <1>2, CoveredStep DEF MarketInv
  <2>2. (MarketInv /\ Covered => OffersBacked)'
    BY CoveredBacks, PTL DEF MarketInv
  <2> QED BY <1>2, <2>1, <2>2
<1>3. [Next]_vars /\ MarketInv /\ MarketInv'
        => [Covered /\ issued' >= issued => Covered' /\ OffersBacked']_vars
  BY <1>2
<1> QED BY <1>1, <1>3, MarketInvHolds, PTL DEF Spec

=============================================================================
