------------------------------- MODULE Market -------------------------------
(***************************************************************************)
(* Wallets and the market of artifacts: the money handlers of              *)
(* server/src/game/actions.ts and server/src/api/admin.ts, and the offers  *)
(* the engine expires and cancels when it closes the season.               *)
(*                                                                         *)
(* A handler is synchronous, so it is one action.  It is not a transaction *)
(* of the database, however: its statements commit one by one, and the     *)
(* process may die between two of them.  The actions named Torn are those  *)
(* prefixes of a handler.  What the engine does is one transaction.        *)
(*                                                                         *)
(* Artifacts owned by a clan are never offered for and are left out here.  *)
(***************************************************************************)
EXTENDS Sums, SequencesExt

CONSTANTS
  Players,        \* rows of table players, all of the current season
  None,           \* no such row
  Tombs,          \* tombs of the season; each yields one artifact
  ArtifactValue,  \* artifactValue(pool): what an artifact is sold for at the close
  Amounts,        \* bound of the model: amounts of offers, purchases and withdrawals
  Credits,        \* bound of the model: amounts the admin credits
  MaxIssued,      \* bound of the model: toman credited on balance
  MaxWithdrawals, \* bound of the model: withdrawal requests by hand
  MaxCrashes      \* bound of the model: crashes inside a handler

ASSUME AmountsAssumption == /\ Amounts \subseteq Nat \ {0} /\ Credits \subseteq Int \ {0}
                            /\ ArtifactValue \in Nat /\ MaxIssued \in Nat
                            /\ MaxWithdrawals \in Nat /\ MaxCrashes \in Nat
ASSUME RowsAssumption == IsFiniteSet(Players) /\ IsFiniteSet(Tombs) /\ None \notin Players

VARIABLES
  toman,       \* per player: the wallet
  blocked,     \* per player: the part of it blocked for open offers
  ledger,      \* per player: sum of its transactions rows
  iban,        \* per player: an account for payouts is registered
  pool,        \* seasons.pool
  art,         \* artifacts, per row id: owner, tomb and whether sold; None if there is no row
  offers,      \* open offers: artifact id, bidder and amount
  withdrawals, \* withdrawals: player, amount, status
  closed,      \* the season is closed
  issued,      \* toman credited from outside and as prizes so far
  crashes      \* crashes so far

vars == <<toman, blocked, ledger, iban, pool, art, offers, withdrawals, closed, issued, crashes>>

-----------------------------------------------------------------------------
Ids == 1..Cardinality(Tombs)
Rows == {i \in Ids : art[i] # None}
Captured == {art[i].tomb : i \in Rows}

\* INTEGER PRIMARY KEY without AUTOINCREMENT: one more than the largest id.
NextId == IF Rows = {} THEN 1 ELSE Max(Rows) + 1

FreeBalance(p) == toman[p] - blocked[p]
Sum(f) == SumOver(f, Players)
Total(S) == SumOver([o \in S |-> o.amount], S)
By(p, S) == {o \in S : o.bidder = p}

\* Mutant of Release: the offers go, their money stays blocked.
ReleaseKeepsBlocked(S) == offers' = offers \ S /\ UNCHANGED blocked

\* Mutant of Release: the caller unblocks the money once more.
ReleaseTwice(S) ==
  /\ offers' = offers \ S
  /\ blocked' = [p \in Players |-> blocked[p] - 2 * Total(By(p, S))]

\* resolveOffer for every offer of S with a status other than accepted.
Release(S) ==
  /\ offers' = offers \ S
  /\ blocked' = [p \in Players |-> blocked[p] - Total(By(p, S))]

\* creditToman: the wallet and a transactions row.
Credit(p, n) ==
  /\ toman' = [toman EXCEPT ![p] = @ + n]
  /\ ledger' = [ledger EXCEPT ![p] = @ + n]

\* Two updates of a wallet column: from pays, to gets (they may be the same).
Moved(f, from, paid, to, got) ==
  [p \in Players |-> f[p] - (IF p = from THEN paid ELSE 0) + (IF p = to THEN got ELSE 0)]

-----------------------------------------------------------------------------
Init ==
  /\ toman = [p \in Players |-> 0]
  /\ blocked = [p \in Players |-> 0]
  /\ ledger = [p \in Players |-> 0]
  /\ iban = [p \in Players |-> FALSE]
  /\ pool = 0
  /\ art = [i \in Ids |-> None]
  /\ offers = {}
  /\ withdrawals = <<>>
  /\ closed = FALSE
  /\ issued = 0
  /\ crashes = 0

-----------------------------------------------------------------------------
(* The wallet.                                                             *)

\* Bound of the model: how far below zero the admin takes a wallet.
LowestWallet == -1

\* POST /admin/player/:id/credit: any amount but zero, negative ones too.
AdminCredit(p) == \E n \in Credits :
  /\ issued + n \in 0..MaxIssued
  /\ toman[p] + n >= LowestWallet
  /\ Credit(p, n)
  /\ issued' = issued + n
  /\ UNCHANGED <<blocked, iban, pool, art, offers, withdrawals, closed, crashes>>

BuyCoins(p) == \E n \in Amounts :
  /\ ~closed
  /\ FreeBalance(p) >= n
  /\ Credit(p, -n)
  /\ pool' = pool + n
  /\ UNCHANGED <<blocked, iban, art, offers, withdrawals, closed, issued, crashes>>

SetIban(p) ==
  /\ iban' = [iban EXCEPT ![p] = TRUE]
  /\ UNCHANGED <<toman, blocked, ledger, pool, art, offers, withdrawals, closed, issued, crashes>>

Row(p, n) == [player |-> p, amount |-> n, status |-> "pending"]

RequestWithdraw(p) == \E n \in Amounts :
  /\ iban[p]
  /\ n <= FreeBalance(p)
  /\ Len(withdrawals) < MaxWithdrawals
  /\ Credit(p, -n)
  /\ withdrawals' = Append(withdrawals, Row(p, n))
  /\ UNCHANGED <<blocked, iban, pool, art, offers, closed, issued, crashes>>

\* POST /admin/withdrawal/:id, paid.
PayWithdrawal(i) ==
  /\ withdrawals[i].status = "pending"
  /\ withdrawals' = [withdrawals EXCEPT ![i].status = "paid"]
  /\ UNCHANGED <<toman, blocked, ledger, iban, pool, art, offers, closed, issued, crashes>>

\* POST /admin/withdrawal/:id, rejected: the amount goes back.
RejectWithdrawal(i) ==
  /\ withdrawals[i].status = "pending"
  /\ withdrawals' = [withdrawals EXCEPT ![i].status = "rejected"]
  /\ Credit(withdrawals[i].player, withdrawals[i].amount)
  /\ UNCHANGED <<blocked, iban, pool, art, offers, closed, issued, crashes>>

-----------------------------------------------------------------------------
(* Artifacts and offers.                                                   *)

\* The engine: a caravan of p, who is in no clan, takes the tomb t.
Capture(p, t) ==
  /\ ~closed
  /\ t \notin Captured /\ NextId \in Ids
  /\ art' = [art EXCEPT ![NextId] = [owner |-> p, tomb |-> t, sold |-> FALSE]]
  /\ UNCHANGED <<toman, blocked, ledger, iban, pool, offers, withdrawals, closed, issued, crashes>>

Offer(p, i, n) == [art |-> i, bidder |-> p, amount |-> n]

CanOffer(p, i, n) ==
  /\ ~closed
  /\ i \in Rows /\ ~art[i].sold /\ art[i].owner # p
  /\ \A o \in By(p, offers) : o.art # i
  /\ FreeBalance(p) >= n

MakeOffer(p, i) == \E n \in Amounts :
  /\ CanOffer(p, i, n)
  /\ blocked' = [blocked EXCEPT ![p] = @ + n]
  /\ offers' = offers \cup {Offer(p, i, n)}
  /\ UNCHANGED <<toman, ledger, iban, pool, art, withdrawals, closed, issued, crashes>>

\* respondOffer finds the offer through its artifact's row and owner.
Answerable(o) == o.art \in Rows

\* respondOffer with accept, by the owner: resolveOffer pays, hands over, and
\* cancels the other offers for the artifact.
AcceptOffer(o) ==
  LET rivals == {r \in offers : r.art = o.art} \ {o}
      seller == art[o.art].owner
  IN  /\ Answerable(o)
      /\ offers' = offers \ (rivals \cup {o})
      /\ blocked' = [p \in Players |-> blocked[p] - Total(By(p, rivals \cup {o}))]
      /\ toman' = Moved(toman, o.bidder, o.amount, seller, o.amount)
      /\ ledger' = Moved(ledger, o.bidder, o.amount, seller, o.amount)
      /\ art' = [art EXCEPT ![o.art].owner = o.bidder]
      /\ UNCHANGED <<iban, pool, withdrawals, closed, issued, crashes>>

\* respondOffer without accept, by the owner.
RejectOffer(o) ==
  /\ Answerable(o)
  /\ Release({o})
  /\ UNCHANGED <<toman, ledger, iban, pool, art, withdrawals, closed, issued, crashes>>

\* withdrawOffer by the bidder, or expireOffers of the engine.
DropOffer(o) ==
  /\ Release({o})
  /\ UNCHANGED <<toman, ledger, iban, pool, art, withdrawals, closed, issued, crashes>>

\* quitSeason: one's artifacts go, and the offers one has made.
QuitSeason(p) ==
  /\ art' = [i \in Ids |-> IF i \in Rows /\ art[i].owner = p THEN None ELSE art[i]]
  /\ Release(By(p, offers))
  /\ UNCHANGED <<toman, ledger, iban, pool, withdrawals, closed, issued, crashes>>

-----------------------------------------------------------------------------
\* closeSeason: artifacts are sold, offers cancelled, and every wallet with an
\* account is paid out.
CloseSeason ==
  LET owned(p) == {i \in Rows : ~art[i].sold /\ art[i].owner = p}
      sale(p) == ArtifactValue * Cardinality(owned(p))
      payees == {p \in Players : iban[p] /\ toman[p] + sale(p) > 0}
      rest(p) == IF p \in payees THEN 0 ELSE toman[p] + sale(p)
  IN  /\ ~closed
      /\ closed' = TRUE
      /\ art' = [i \in Ids |-> IF i \in Rows THEN [art[i] EXCEPT !.sold = TRUE] ELSE None]
      /\ Release(offers)
      /\ toman' = [p \in Players |-> rest(p)]
      /\ ledger' = [p \in Players |-> ledger[p] - toman[p] + rest(p)]
      /\ withdrawals' = withdrawals \o SetToSeq({Row(p, toman[p] + sale(p)) : p \in payees})
      /\ issued' = issued + Sum([p \in Players |-> sale(p)])
      /\ UNCHANGED <<iban, pool, crashes>>

-----------------------------------------------------------------------------
(* Handlers cut short by a crash: the statements before it have committed. *)

Dies == crashes < MaxCrashes /\ crashes' = crashes + 1

\* The amount is blocked, the offer was not inserted.
TornMakeOffer(p, i) == \E n \in Amounts :
  /\ Dies
  /\ CanOffer(p, i, n)
  /\ blocked' = [blocked EXCEPT ![p] = @ + n]
  /\ UNCHANGED <<toman, ledger, iban, pool, art, offers, withdrawals, closed, issued>>

\* Mutant of TornAcceptOffer: the handler pays the seller before it charges
\* the bidder.
TornAcceptPaysFirst(o) == \E done \in 1..4 :
  LET seller == art[o.art].owner
      paid == IF done >= 3 THEN o.amount ELSE 0
      got == IF done >= 2 THEN o.amount ELSE 0
  IN  /\ Dies
      /\ Answerable(o)
      /\ offers' = offers \ {o}
      /\ blocked' = [blocked EXCEPT ![o.bidder] = @ - paid]
      /\ toman' = Moved(toman, o.bidder, paid, seller, got)
      /\ art' = IF done = 4 THEN [art EXCEPT ![o.art].owner = o.bidder] ELSE art
      /\ UNCHANGED <<ledger, iban, pool, withdrawals, closed, issued>>

\* The offer is accepted; then the bidder has paid; then the seller has the
\* money; then the artifact has changed hands, but the rivals' offers stay.
TornAcceptOffer(o) == \E done \in 1..4 :
  LET seller == art[o.art].owner
      paid == IF done >= 2 THEN o.amount ELSE 0
      got == IF done >= 3 THEN o.amount ELSE 0
  IN  /\ Dies
      /\ Answerable(o)
      /\ offers' = offers \ {o}
      /\ blocked' = [blocked EXCEPT ![o.bidder] = @ - paid]
      /\ toman' = Moved(toman, o.bidder, paid, seller, got)
      /\ art' = IF done = 4 THEN [art EXCEPT ![o.art].owner = o.bidder] ELSE art
      /\ UNCHANGED <<ledger, iban, pool, withdrawals, closed, issued>>

\* Mutant of TornDropOffer: the handler unblocks the money before it closes
\* the offer.
TornDropUnblocksFirst(o) ==
  /\ Dies
  /\ blocked' = [blocked EXCEPT ![o.bidder] = @ - o.amount]
  /\ UNCHANGED <<toman, ledger, iban, pool, art, offers, withdrawals, closed, issued>>

\* The offer is rejected or withdrawn, its amount stays blocked.
TornDropOffer(o) ==
  /\ Dies
  /\ offers' = offers \ {o}
  /\ UNCHANGED <<toman, blocked, ledger, iban, pool, art, withdrawals, closed, issued>>

\* buyCoins or requestWithdraw: paid for, but neither in the pool nor a row
\* of withdrawals.
TornPayment(p) == \E n \in Amounts :
  /\ Dies
  /\ ~closed \/ iban[p]
  /\ n <= FreeBalance(p)
  /\ toman' = [toman EXCEPT ![p] = @ - n]
  /\ UNCHANGED <<blocked, ledger, iban, pool, art, offers, withdrawals, closed, issued>>

\* The withdrawal is rejected, the amount did not come back.
TornRejectWithdrawal(i) ==
  /\ Dies
  /\ withdrawals[i].status = "pending"
  /\ withdrawals' = [withdrawals EXCEPT ![i].status = "rejected"]
  /\ UNCHANGED <<toman, blocked, ledger, iban, pool, art, offers, closed, issued>>

-----------------------------------------------------------------------------
Next ==
  \/ \E p \in Players : AdminCredit(p) \/ BuyCoins(p) \/ SetIban(p) \/ RequestWithdraw(p)
  \/ \E p \in Players : QuitSeason(p) \/ TornPayment(p)
  \/ \E i \in 1..Len(withdrawals) : PayWithdrawal(i) \/ RejectWithdrawal(i) \/ TornRejectWithdrawal(i)
  \/ \E p \in Players, t \in Tombs : Capture(p, t)
  \/ \E p \in Players, i \in Ids : MakeOffer(p, i) \/ TornMakeOffer(p, i)
  \/ \E o \in offers : AcceptOffer(o) \/ RejectOffer(o) \/ DropOffer(o)
  \/ \E o \in offers : TornAcceptOffer(o) \/ TornDropOffer(o)
  \/ CloseSeason

Spec == Init /\ [][Next]_vars

-----------------------------------------------------------------------------
(* Properties.                                                             *)

\* What is blocked in a wallet is exactly the sum of the player's open offers,
\* whoever answers, withdraws, expires or cancels them in whatever order; a
\* crash inside a handler may leave more of it blocked, never less.
BlockedMatchesOffers ==
  \A p \in Players : IF crashes = 0 THEN blocked[p] = Total(By(p, offers)) ELSE blocked[p] >= Total(By(p, offers))

Taken == [i \in DOMAIN withdrawals |->
            IF withdrawals[i].status = "rejected" THEN 0 ELSE withdrawals[i].amount]
Outside == SumOver(Taken, DOMAIN withdrawals)
Held == Sum(toman) + pool + Outside

\* No toman appears or vanishes: what was ever credited is in a wallet, in the
\* pool, or withdrawn, and the transactions rows say so; a crash inside a
\* handler may lose some, but makes none, as every handler takes before it
\* gives.
MoneyConserved ==
  IF crashes = 0 THEN Held = issued /\ toman = ledger ELSE Held <= issued

\* Also after a crash a wallet covers the player's open offers, so accepting
\* them all cannot overdraw it, unless the admin takes money away.
OffersBacked == \A p \in Players : Total(By(p, offers)) <= toman[p]

\* Nothing of the season is left open after the close: no offer, no artifact
\* that was not sold, and no blocked money but what a crash has orphaned.
SettledAtClose ==
  closed => /\ offers = {}
            /\ \A i \in Rows : art[i].sold
            /\ crashes = 0 => \A p \in Players : blocked[p] = 0

=============================================================================
