------------------------------ MODULE Deposit -------------------------------
(***************************************************************************)
(* Charging the wallet: the deposit routes of server/src/api/routes.ts,    *)
(* the admin's answers of server/src/api/admin.ts, and the verification of *)
(* server/src/payments/zarinpal.ts.                                        *)
(*                                                                         *)
(* Verifying awaits the gateway, so other requests run between a           *)
(* callback's look at the row and what it does with the answer.  What      *)
(* follows the await is synchronous, but its statements commit one by one. *)
(***************************************************************************)
EXTENDS Naturals, FiniteSets

CONSTANTS
  Manual,      \* deposits asked for while no merchant is configured
  Online,      \* deposits asked for while one is
  AdminTakes,  \* bound of the model: the deposits the admin looks at
  Callbacks,   \* bound of the model: requests to /wallet/verify in flight at once
  MaxCrashes   \* bound of the model

ASSUME DepositsAssumption == Manual \cap Online = {} /\ AdminTakes \subseteq Manual \cup Online
ASSUME BoundAssumption == MaxCrashes \in Nat /\ IsFiniteSet(Callbacks)

Deposits == Manual \cup Online

VARIABLES
  status,    \* deposits.status; absent before the row is there
  credited,  \* how often the deposit was added to the wallet
  flight,    \* per callback: idle, or the deposit it verifies and the gateway's answer
  paid,      \* at the gateway: the deposits paid for
  approved,  \* history: the deposits an admin approved
  raced,     \* history: those a second request dealt with during an await for them
  crashes    \* crashes so far

vars == <<status, credited, flight, paid, approved, raced, crashes>>

Idle == [deposit |-> "none", answer |-> "none"]
Asked(d) == [deposit |-> d, answer |-> "none"]

Init ==
  /\ status = [d \in Deposits |-> "absent"]
  /\ credited = [d \in Deposits |-> 0]
  /\ flight = [c \in Callbacks |-> Idle]
  /\ paid = {}
  /\ approved = {}
  /\ raced = {}
  /\ crashes = 0

-----------------------------------------------------------------------------
Mark(d, s) == status' = [status EXCEPT ![d] = s]
Credit(d) == credited' = [credited EXCEPT ![d] = @ + 1]
End(c) == flight' = [flight EXCEPT ![c] = Idle]

\* The callbacks under way for d, and a further request that gets to its row.
Under(d) == {c \in Callbacks : flight[c] # Idle /\ flight[c].deposit = d}
Meets(d) == raced' = IF Under(d) = {} THEN raced ELSE raced \cup {d}

\* POST /wallet/deposit.  Until the row is inserted nobody knows the authority.
RequestDeposit(d) ==
  /\ status[d] = "absent"
  /\ Mark(d, "pending")
  /\ UNCHANGED <<credited, flight, paid, approved, raced, crashes>>

\* The player pays on the gateway's page.
PayAtGateway(d) ==
  /\ status[d] # "absent"
  /\ paid' = paid \cup {d}
  /\ UNCHANGED <<status, credited, flight, approved, raced, crashes>>

\* Mutant of CallbackCancelled: the row's status is not looked at.
CallbackCancelledAlways(d) ==
  /\ status[d] # "absent"
  /\ Mark(d, "cancelled")
  /\ Meets(d)
  /\ UNCHANGED <<credited, flight, paid, approved, crashes>>

\* GET /wallet/verify with a Status other than OK.
CallbackCancelled(d) ==
  /\ status[d] = "pending"
  /\ Mark(d, "cancelled")
  /\ Meets(d)
  /\ UNCHANGED <<credited, flight, paid, approved, crashes>>

\* Mutant of CallbackOk: the row's status is not looked at.
CallbackOkAlways(c, d) ==
  /\ flight[c] = Idle
  /\ status[d] # "absent"
  /\ flight' = [flight EXCEPT ![c] = Asked(d)]
  /\ Meets(d)
  /\ UNCHANGED <<status, credited, paid, approved, crashes>>

\* GET /wallet/verify with Status=OK, up to the await of verifyPayment.
CallbackOk(c, d) ==
  /\ flight[c] = Idle
  /\ status[d] = "pending"
  /\ flight' = [flight EXCEPT ![c] = Asked(d)]
  /\ Meets(d)
  /\ UNCHANGED <<status, credited, paid, approved, crashes>>

\* The gateway answers 100, or 101 once it was asked before, for a payment it
\* has; another code for one it has not; and verifyPayment takes a body it
\* cannot read for a refusal.
GatewayAnswers(c) == \E answer \in {"paid", "refused"} :
  /\ flight[c] # Idle /\ flight[c].answer = "none"
  /\ answer = "paid" => flight[c].deposit \in paid
  /\ flight' = [flight EXCEPT ![c].answer = answer]
  /\ UNCHANGED <<status, credited, paid, approved, raced, crashes>>

\* fetch throws: the request ends with an error, the row is left as it is.
GatewayUnreachable(c) ==
  /\ flight[c] # Idle /\ flight[c].answer = "none"
  /\ End(c)
  /\ UNCHANGED <<status, credited, paid, approved, raced, crashes>>

\* Mutant of VerifyPaid: any answer of the gateway will do.
VerifyAnswered(c) ==
  /\ flight[c].answer # "none"
  /\ Mark(flight[c].deposit, "ok")
  /\ Credit(flight[c].deposit)
  /\ End(c)
  /\ UNCHANGED <<paid, approved, raced, crashes>>

\* After the await: the row is not read again.
VerifyPaid(c) ==
  /\ flight[c].answer = "paid"
  /\ Mark(flight[c].deposit, "ok")
  /\ Credit(flight[c].deposit)
  /\ End(c)
  /\ UNCHANGED <<paid, approved, raced, crashes>>

VerifyRefused(c) ==
  /\ flight[c].answer = "refused"
  /\ Mark(flight[c].deposit, "failed")
  /\ End(c)
  /\ UNCHANGED <<credited, paid, approved, raced, crashes>>

\* POST /admin/deposit/:id: any pending row, of either kind.
Approve(d) ==
  /\ d \in AdminTakes /\ status[d] = "pending"
  /\ Mark(d, "ok")
  /\ Credit(d)
  /\ approved' = approved \cup {d}
  /\ Meets(d)
  /\ UNCHANGED <<flight, paid, crashes>>

Reject(d) ==
  /\ d \in AdminTakes /\ status[d] = "pending"
  /\ Mark(d, "rejected")
  /\ Meets(d)
  /\ UNCHANGED <<credited, flight, paid, approved, crashes>>

-----------------------------------------------------------------------------
\* The process dies and restarts: requests in flight are gone, rows stay.
Dies ==
  /\ crashes < MaxCrashes /\ crashes' = crashes + 1
  /\ flight' = [c \in Callbacks |-> Idle]
  /\ UNCHANGED <<credited, paid, raced>>

Crash == Dies /\ UNCHANGED <<status, approved>>

\* It dies between the UPDATE of the row and creditToman.
TornVerify(c) ==
  /\ flight[c].answer = "paid"
  /\ Dies
  /\ Mark(flight[c].deposit, "ok")
  /\ UNCHANGED approved

TornApprove(d) ==
  /\ d \in AdminTakes /\ status[d] = "pending"
  /\ Dies
  /\ Mark(d, "ok")
  /\ approved' = approved \cup {d}

-----------------------------------------------------------------------------
Next ==
  \/ \E d \in Deposits : RequestDeposit(d) \/ Approve(d) \/ Reject(d) \/ TornApprove(d)
  \/ \E d \in Online : PayAtGateway(d) \/ CallbackCancelled(d)
  \/ \E c \in Callbacks, d \in Online : CallbackOk(c, d)
  \/ \E c \in Callbacks : GatewayAnswers(c) \/ GatewayUnreachable(c)
  \/ \E c \in Callbacks : VerifyPaid(c) \/ VerifyRefused(c) \/ TornVerify(c)
  \/ Crash

Spec == Init /\ [][Next]_vars

-----------------------------------------------------------------------------
(* Properties.                                                             *)

Statuses == {"absent", "pending", "ok", "cancelled", "failed", "rejected"}
Flights == {Idle} \cup [deposit : Online, answer : {"none", "paid", "refused"}]

TypeOK ==
  /\ status \in [Deposits -> Statuses]
  /\ credited \in [Deposits -> Nat]
  /\ flight \in [Callbacks -> Flights]
  /\ paid \subseteq Online /\ approved \subseteq Deposits /\ raced \subseteq Deposits
  /\ crashes \in 0..MaxCrashes

\* Whatever callbacks, admin and crashes do in between, the wallet is credited
\* only with money the gateway has or an admin approved.
CreditBacked == \A d \in Deposits : credited[d] > 0 => d \in paid \cup approved

\* A deposit by hand has no callback: the admin's answer is final, and brings
\* its amount to the wallet at most once, and only if it was an approval.
ManualSettledOnce ==
  \A d \in Manual : credited[d] <= IF status[d] = "ok" THEN 1 ELSE 0

\* A deposit is credited at most once.  So the rule book has it; two callbacks
\* past the check of the row before the gateway answers the first break it.
CreditedOnce == \A d \in Deposits : credited[d] <= 1

\* Two requests that overlap are the only way to a second credit: whatever
\* order callbacks, refusals, cancellations, admin and crashes come in, a
\* deposit nobody else dealt with during an await for it is credited once.
CreditedOnceUnlessRaced == \A d \in Deposits \ raced : credited[d] <= 1

\* No credit is taken for a failure: unless two requests overlapped, when the
\* later answer is written over the earlier, a deposit in the wallet has
\* status ok.
CreditShowsUnlessRaced == \A d \in Deposits \ raced : credited[d] > 0 => status[d] = "ok"

=============================================================================
