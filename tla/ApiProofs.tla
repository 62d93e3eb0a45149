------------------------------ MODULE ApiProofs -----------------------------
(***************************************************************************)
(* Proofs about the two parts of server/src/api that wait for somebody     *)
(* else.                                                                   *)
(*                                                                         *)
(* Deposit: what the wallet is credited with is backed; it is credited     *)
(* once, unless two requests for the deposit overlapped, and then at most  *)
(* once for each of them.                                                  *)
(*                                                                         *)
(* Live: over any areas and numbers of fetches, reconnects and events, the *)
(* hub sends what the page shows.                                          *)
(***************************************************************************)
EXTENDS Deposit, Live, FiniteSetTheorems, SequenceTheorems, TLAPS

-----------------------------------------------------------------------------
(* Deposits.                                                               *)

\* An answer "paid" under way is about a deposit the gateway has.
AnswersTrue == \A c \in Callbacks : flight[c].answer = "paid" => flight[c].deposit \in paid

\* The deposit a callback that is under way verifies.
FlightsOnline == \A c \in Callbacks : flight[c] # Idle => flight[c].deposit \in Online

Backed == TypeOK /\ FlightsOnline /\ AnswersTrue /\ CreditBacked

LEMMA TypedFlight ==
  ASSUME TypeOK, NEW c \in Callbacks, flight[c].answer \in {"paid", "refused"}
  PROVE  flight[c] # Idle
<1> QED BY DEF TypeOK, Idle

LEMMA BackedInit == Init => Backed
<1> SUFFICES ASSUME Init PROVE Backed OBVIOUS
<1>1. TypeOK
  BY BoundAssumption DEF Init, TypeOK, Statuses, Flights, Idle
<1> QED BY <1>1 DEF Init, Backed, FlightsOnline, AnswersTrue, CreditBacked, Idle

\* What a step does to the rows and to the requests under way, action by action.
LEMMA BackedStep == Backed /\ [Next]_vars => Backed'
<1> SUFFICES ASSUME Backed, [Next]_vars PROVE Backed' OBVIOUS
<1> USE DEF Backed
<1> USE BoundAssumption, DepositsAssumption
<1>1. CASE UNCHANGED vars
  BY <1>1 DEF vars, TypeOK, FlightsOnline, AnswersTrue, CreditBacked
<1>2. ASSUME NEW d \in Deposits, RequestDeposit(d) PROVE Backed'
  BY <1>2 DEF RequestDeposit, Mark, TypeOK, Statuses, FlightsOnline, AnswersTrue, CreditBacked
<1>3. ASSUME NEW d \in Deposits, Approve(d) PROVE Backed'
  <2>1. TypeOK' /\ FlightsOnline' /\ AnswersTrue'
    BY <1>3 DEF Approve, Mark, Credit, Meets, TypeOK, Statuses, FlightsOnline, AnswersTrue
  <2>2. CreditBacked'
    BY <1>3 DEF Approve, Credit, TypeOK, CreditBacked
  <2> QED BY <2>1, <2>2
<1>4. ASSUME NEW d \in Deposits, Reject(d) PROVE Backed'
  BY <1>4 DEF Reject, Mark, Meets, TypeOK, Statuses, FlightsOnline, AnswersTrue, CreditBacked
<1>5. ASSUME NEW d \in Deposits, TornApprove(d) PROVE Backed'
  <2>1. TypeOK'
    BY <1>5 DEF TornApprove, Dies, Mark, TypeOK, Statuses, Flights
  <2> QED BY <1>5, <2>1 DEF TornApprove, Dies, FlightsOnline, AnswersTrue, CreditBacked, Idle
<1>6. ASSUME NEW d \in Online, PayAtGateway(d) PROVE Backed'
  BY <1>6 DEF PayAtGateway, TypeOK, FlightsOnline, AnswersTrue, CreditBacked
<1>7. ASSUME NEW d \in Online, CallbackCancelled(d) PROVE Backed'
  BY <1>7 DEF CallbackCancelled, Mark, Meets, TypeOK, Deposits, Statuses, FlightsOnline, AnswersTrue, CreditBacked
<1>8. ASSUME NEW c \in Callbacks, NEW d \in Online, CallbackOk(c, d) PROVE Backed'
  <2>1. Asked(d) \in Flights BY DEF Asked, Flights
  <2>2. TypeOK' BY <1>8, <2>1 DEF CallbackOk, Meets, TypeOK, Deposits
  <2> QED BY <1>8, <2>2 DEF CallbackOk, TypeOK, Asked, FlightsOnline, AnswersTrue, CreditBacked
<1>9. ASSUME NEW c \in Callbacks, GatewayAnswers(c) PROVE Backed'
  <2>1. PICK answer \in {"paid", "refused"} :
          /\ flight[c] # Idle
          /\ answer = "paid" => flight[c].deposit \in paid
          /\ flight' = [flight EXCEPT ![c].answer = answer]
          /\ UNCHANGED <<status, credited, paid, approved, raced, crashes>>
    BY <1>9 DEF GatewayAnswers
  <2>2. flight[c] \in [deposit : Online, answer : {"none", "paid", "refused"}]
    BY <2>1 DEF TypeOK, Flights
  <2>3. [flight[c] EXCEPT !.answer = answer] \in [deposit : Online, answer : {"none", "paid", "refused"}]
    BY <2>2
  <2>4. flight' = [flight EXCEPT ![c] = [flight[c] EXCEPT !.answer = answer]]
    BY <2>1, <2>2 DEF TypeOK
  <2>5. TypeOK' BY <2>1, <2>3, <2>4 DEF TypeOK, Flights
  <2>6. FlightsOnline' BY <2>1, <2>2, <2>4 DEF TypeOK, FlightsOnline
  <2>7. AnswersTrue' BY <2>1, <2>2, <2>4 DEF TypeOK, AnswersTrue
  <2> QED BY <2>1, <2>5, <2>6, <2>7 DEF CreditBacked
<1>10. ASSUME NEW c \in Callbacks, GatewayUnreachable(c) PROVE Backed'
  BY <1>10 DEF GatewayUnreachable, End, TypeOK, Flights, FlightsOnline, AnswersTrue, CreditBacked, Idle
<1>11. ASSUME NEW c \in Callbacks, VerifyPaid(c) PROVE Backed'
  <2>1. flight[c].deposit \in Online /\ flight[c].deposit \in paid /\ flight[c].deposit \in Deposits
    BY <1>11, TypedFlight DEF VerifyPaid, FlightsOnline, AnswersTrue, Deposits
  <2>2. TypeOK'
    BY <1>11, <2>1 DEF VerifyPaid, Mark, Credit, End, TypeOK, Statuses, Flights
  <2>3. FlightsOnline' /\ AnswersTrue'
    BY <1>11 DEF VerifyPaid, End, TypeOK, FlightsOnline, AnswersTrue, Idle
  <2>4. CreditBacked'
    BY <1>11, <2>1 DEF VerifyPaid, Credit, TypeOK, CreditBacked
  <2> QED BY <2>2, <2>3, <2>4
<1>12. ASSUME NEW c \in Callbacks, VerifyRefused(c) PROVE Backed'
  <2>1. TypeOK'
    BY <1>12 DEF VerifyRefused, Mark, End, TypeOK, Statuses, Flights
  <2> QED BY <1>12, <2>1 DEF VerifyRefused, End, TypeOK, FlightsOnline, AnswersTrue, CreditBacked, Idle
<1>13. ASSUME NEW c \in Callbacks, TornVerify(c) PROVE Backed'
  <2>1. status' \in [Deposits -> Statuses]
    BY <1>13 DEF TornVerify, Mark, TypeOK, Statuses
  <2>2. flight' \in [Callbacks -> Flights] /\ crashes' \in 0..MaxCrashes
    BY <1>13 DEF TornVerify, Dies, TypeOK, Flights
  <2>3. TypeOK' BY <1>13, <2>1, <2>2 DEF TornVerify, Dies, TypeOK
  <2> QED BY <1>13, <2>3 DEF TornVerify, Dies, FlightsOnline, AnswersTrue, CreditBacked, Idle
<1>14. CASE Crash
  <2>1. TypeOK' BY <1>14 DEF Crash, Dies, TypeOK, Flights
  <2> QED BY <1>14, <2>1 DEF Crash, Dies, FlightsOnline, AnswersTrue, CreditBacked, Idle
<1> QED
  BY <1>1, <1>2, <1>3, <1>4, <1>5, <1>6, <1>7, <1>8, <1>9, <1>10, <1>11, <1>12, <1>13, <1>14 DEF Next

\* Every row, count and request under way keeps its type (routes.ts, admin.ts).
THEOREM TypeCorrect == Spec => []TypeOK
<1>1. Backed => TypeOK BY DEF Backed
<1> QED BY <1>1, BackedInit, BackedStep, PTL DEF Spec

\* For any number of deposits, callbacks in flight and crashes: the wallet is
\* credited only with what the gateway has or an admin approved.
THEOREM CreditsAreBacked == Spec => []CreditBacked
<1>1. Backed => CreditBacked BY DEF Backed
<1> QED BY <1>1, BackedInit, BackedStep, PTL DEF Spec

-----------------------------------------------------------------------------
(* Deposits by hand: the admin's handler is synchronous, and no callback   *)
(* finds the row, so looking at the status is enough.                      *)

ManualOnce == Backed /\ ManualSettledOnce

LEMMA ManualOnceStep == ManualOnce /\ [Next]_vars => ManualSettledOnce'
<1> SUFFICES ASSUME ManualOnce, [Next]_vars, NEW m \in Manual
             PROVE  credited'[m] <= IF status'[m] = "ok" THEN 1 ELSE 0
  BY DEF ManualSettledOnce
<1> USE DEF ManualOnce, Backed
<1>0. m \in Deposits /\ m \notin Online /\ credited[m] \in Nat /\ credited[m] <= IF status[m] = "ok" THEN 1 ELSE 0
  BY DepositsAssumption DEF Deposits, TypeOK, ManualSettledOnce
<1>1. CASE UNCHANGED vars BY <1>0, <1>1 DEF vars
<1>2. ASSUME NEW d \in Deposits, RequestDeposit(d) \/ Reject(d) \/ TornApprove(d)
      PROVE  credited'[m] <= IF status'[m] = "ok" THEN 1 ELSE 0
  BY <1>0, <1>2 DEF RequestDeposit, Reject, TornApprove, Dies, Mark, TypeOK
<1>3. ASSUME NEW d \in Deposits, Approve(d)
      PROVE  credited'[m] <= IF status'[m] = "ok" THEN 1 ELSE 0
  BY <1>0, <1>3 DEF Approve, Mark, Credit, TypeOK
<1>4. ASSUME NEW d \in Online, PayAtGateway(d) \/ CallbackCancelled(d)
      PROVE  credited'[m] <= IF status'[m] = "ok" THEN 1 ELSE 0
  BY <1>0, <1>4 DEF PayAtGateway, CallbackCancelled, Mark, TypeOK
<1>5. ASSUME NEW c \in Callbacks, VerifyPaid(c) \/ VerifyRefused(c) \/ TornVerify(c)
      PROVE  credited'[m] <= IF status'[m] = "ok" THEN 1 ELSE 0
  <2>1. flight[c].deposit \in Online
    BY <1>5, TypedFlight DEF VerifyPaid, VerifyRefused, TornVerify, FlightsOnline
  <2> QED
    BY <1>0, <1>5, <2>1 DEF VerifyPaid, VerifyRefused, TornVerify, Dies, Mark, Credit, TypeOK
<1>6. CASE UNCHANGED <<status, credited>> BY <1>0, <1>6
<1> QED
  BY <1>1, <1>2, <1>3, <1>4, <1>5, <1>6
  DEF Next, CallbackOk, GatewayAnswers, GatewayUnreachable, Crash, Dies

\* A deposit by hand is credited at most once, and only if it was approved,
\* whatever the gateway's callbacks and crashes do meanwhile (admin.ts).
THEOREM ManualDepositsOnce == Spec => []ManualSettledOnce
<1>1. Init => ManualSettledOnce
  BY DEF Init, ManualSettledOnce, Deposits
<1>2. Init => ManualOnce BY <1>1, BackedInit DEF ManualOnce
<1>3. ManualOnce /\ [Next]_vars => ManualOnce'
  BY ManualOnceStep, BackedStep DEF ManualOnce
<1>4. ManualOnce => ManualSettledOnce BY DEF ManualOnce
<1> QED BY <1>2, <1>3, <1>4, PTL DEF Spec

-----------------------------------------------------------------------------
(* A deposit that one request at a time deals with: its row is pending as  *)
(* long as a callback is under way for it, so it becomes ok only once.     *)

Alone(d) ==
  /\ credited[d] <= IF status[d] = "ok" THEN 1 ELSE 0
  /\ \A b, c \in Under(d) : b = c
  /\ Under(d) # {} => status[d] = "pending"

AloneInv == Backed /\ \A d \in Deposits \ raced : Alone(d)

LEMMA AloneKept ==
  ASSUME NEW d, Alone(d), status'[d] = status[d], credited'[d] = credited[d], Under(d)' \subseteq Under(d)
  PROVE  Alone(d)'
BY DEF Alone

LEMMA AloneFree ==
  ASSUME NEW d, Under(d)' = {}, credited'[d] <= IF status'[d] = "ok" THEN 1 ELSE 0
  PROVE  Alone(d)'
BY DEF Alone

\* A callback that ends takes itself away, and nobody else.
LEMMA UnderEnds ==
  ASSUME TypeOK, NEW d, NEW c \in Callbacks, End(c)
  PROVE  Under(d)' = Under(d) \ {c}
BY DEF TypeOK, End, Under

LEMMA AloneStep ==
  ASSUME AloneInv, [Next]_vars, NEW d \in Deposits, d \notin raced'
  PROVE  Alone(d)'
<1> USE DEF AloneInv, Backed
<1>0. TypeOK /\ FlightsOnline /\ credited[d] \in Nat
  BY DEF TypeOK
<1>1. d \notin raced
  BY DEF Next, vars, RequestDeposit, Approve, Reject, TornApprove, PayAtGateway, CallbackCancelled, CallbackOk,
         GatewayAnswers, GatewayUnreachable, VerifyPaid, VerifyRefused, TornVerify, Crash, Dies, Meets
<1>2. Alone(d) BY <1>1
<1>3. ASSUME UNCHANGED <<status, credited>>, flight' = flight \/ flight' = [c \in Callbacks |-> Idle]
      PROVE  Alone(d)'
  <2>1. Under(d)' \subseteq Under(d) BY <1>3 DEF Under
  <2> QED BY <1>2, <1>3, <2>1, AloneKept
<1>4. ASSUME NEW e \in Deposits, RequestDeposit(e) PROVE Alone(d)'
  <2>1. Under(d)' = Under(d) BY <1>4 DEF RequestDeposit, Under
  <2>2. CASE e = d
    <3>1. Under(d) = {} /\ credited[d] <= 0 BY <1>2, <1>4, <2>2 DEF RequestDeposit, Alone
    <3>2. credited'[d] <= 0 BY <1>4, <3>1 DEF RequestDeposit
    <3> QED BY <1>0, <1>4, <2>1, <3>1, <3>2, AloneFree DEF RequestDeposit
  <2>3. CASE e # d BY <1>0, <1>2, <1>4, <2>1, <2>3, AloneKept DEF RequestDeposit, Mark, TypeOK
  <2> QED BY <2>2, <2>3
<1>5. ASSUME NEW e \in Deposits, Approve(e) \/ Reject(e) \/ CallbackCancelled(e) PROVE Alone(d)'
  <2>1. Under(d)' = Under(d) BY <1>5 DEF Approve, Reject, CallbackCancelled, Under
  <2>2. CASE e = d
    <3>1. Under(d) = {} /\ status[d] = "pending"
      BY <1>5, <2>2 DEF Approve, Reject, CallbackCancelled, Meets
    <3>2. credited[d] = 0 BY <1>0, <1>2, <3>1 DEF Alone
    <3>3. credited'[d] <= IF status'[d] = "ok" THEN 1 ELSE 0
      BY <1>0, <1>5, <2>2, <3>2 DEF Approve, Reject, CallbackCancelled, Mark, Credit, TypeOK
    <3> QED BY <2>1, <3>1, <3>3, AloneFree
  <2>3. CASE e # d
    BY <1>0, <1>2, <1>5, <2>1, <2>3, AloneKept DEF Approve, Reject, CallbackCancelled, Mark, Credit, TypeOK
  <2> QED BY <2>2, <2>3
<1>6. ASSUME NEW e \in Deposits, TornApprove(e) PROVE Alone(d)'
  <2>1. Under(d)' = {} BY <1>6 DEF TornApprove, Dies, Under
  <2>2. credited'[d] <= IF status'[d] = "ok" THEN 1 ELSE 0
    BY <1>0, <1>2, <1>6 DEF TornApprove, Dies, Mark, Alone, TypeOK
  <2> QED BY <2>1, <2>2, AloneFree
<1>7. ASSUME NEW c \in Callbacks, NEW e \in Online, CallbackOk(c, e) PROVE Alone(d)'
  <2>1. flight' = [flight EXCEPT ![c] = Asked(e)] /\ UNCHANGED <<status, credited>> /\ status[e] = "pending"
        /\ flight[c] = Idle
    BY <1>7 DEF CallbackOk
  <2>2. CASE e = d
    <3>1. Under(d) = {} BY <1>7, <2>2 DEF CallbackOk, Meets, Deposits
    <3>2. Under(d)' \subseteq {c} BY <1>0, <2>1, <3>1 DEF Under, TypeOK
    <3> QED BY <1>2, <2>1, <2>2, <3>2 DEF Alone
  <2>3. CASE e # d
    <3>1. Under(d)' \subseteq Under(d) BY <1>0, <2>1, <2>3 DEF Under, Asked, TypeOK
    <3> QED BY <1>2, <2>1, <3>1, AloneKept
  <2> QED BY <2>2, <2>3
<1>8. ASSUME NEW c \in Callbacks, GatewayAnswers(c) PROVE Alone(d)'
  <2>1. PICK answer \in {"paid", "refused"} :
          /\ flight[c] # Idle
          /\ flight' = [flight EXCEPT ![c].answer = answer]
          /\ UNCHANGED <<status, credited>>
    BY <1>8 DEF GatewayAnswers
  <2>2. flight[c] \in [deposit : Online, answer : {"none", "paid", "refused"}]
    BY <1>0, <2>1 DEF TypeOK, Flights
  <2>3. \A b \in Callbacks : flight'[b].deposit = flight[b].deposit /\ (b # c => flight'[b] = flight[b])
    BY <1>0, <2>1, <2>2 DEF TypeOK
  <2>4. Under(d)' \subseteq Under(d) BY <2>1, <2>3 DEF Under
  <2> QED BY <1>2, <2>1, <2>4, AloneKept
<1>9. ASSUME NEW c \in Callbacks, VerifyPaid(c) \/ VerifyRefused(c) PROVE Alone(d)'
  <2>1. Under(d)' = Under(d) \ {c} BY <1>0, <1>9, UnderEnds DEF VerifyPaid, VerifyRefused
  <2>2. flight[c] # Idle /\ flight[c].deposit \in Deposits
    BY <1>0, <1>9, TypedFlight DEF VerifyPaid, VerifyRefused, FlightsOnline, Deposits
  <2>3. CASE flight[c].deposit = d
    <3>1. c \in Under(d) BY <2>2, <2>3 DEF Under
    <3>2. Under(d)' = {} BY <1>2, <2>1, <3>1 DEF Alone
    <3>3. credited[d] = 0 BY <1>0, <1>2, <3>1 DEF Alone
    <3>4. credited'[d] <= IF status'[d] = "ok" THEN 1 ELSE 0
      BY <1>0, <1>9, <2>3, <3>3 DEF VerifyPaid, VerifyRefused, Mark, Credit, TypeOK
    <3> QED BY <3>2, <3>4, AloneFree
  <2>4. CASE flight[c].deposit # d
    BY <1>0, <1>2, <1>9, <2>1, <2>2, <2>4, AloneKept DEF VerifyPaid, VerifyRefused, Mark, Credit, TypeOK
  <2> QED BY <2>3, <2>4
<1>10. ASSUME NEW c \in Callbacks, TornVerify(c) PROVE Alone(d)'
  <2>1. Under(d)' = {} BY <1>10 DEF TornVerify, Dies, Under
  <2>2. flight[c] # Idle BY <1>0, <1>10, TypedFlight DEF TornVerify
  <2>3. credited'[d] <= IF status'[d] = "ok" THEN 1 ELSE 0
    BY <1>0, <1>2, <1>10, <2>2 DEF TornVerify, Dies, Mark, Alone, TypeOK
  <2> QED BY <2>1, <2>3, AloneFree
<1>11. ASSUME NEW c \in Callbacks, GatewayUnreachable(c) PROVE Alone(d)'
  <2>1. Under(d)' \subseteq Under(d) BY <1>0, <1>11, UnderEnds DEF GatewayUnreachable
  <2> QED BY <1>2, <1>11, <2>1, AloneKept DEF GatewayUnreachable
<1>12. ASSUME NEW e \in Online, PayAtGateway(e) PROVE Alone(d)'
  BY <1>3, <1>12 DEF PayAtGateway
<1>13. CASE Crash BY <1>3, <1>13 DEF Crash, Dies
<1>14. CASE UNCHANGED vars BY <1>3, <1>14 DEF vars
<1> QED
  BY <1>4, <1>5, <1>6, <1>7, <1>8, <1>9, <1>10, <1>11, <1>12, <1>13, <1>14 DEF Next, Deposits

LEMMA AloneHolds == Spec => []AloneInv
<1>1. Init => AloneInv
  BY BackedInit DEF Init, AloneInv, Alone, Under
<1>2. AloneInv /\ [Next]_vars => AloneInv'
  BY AloneStep, BackedStep DEF AloneInv
<1> QED BY <1>1, <1>2, PTL DEF Spec

\* For any callbacks, admin and crashes: a deposit that no second request dealt
\* with while one awaited the gateway is credited at most once (/wallet/verify
\* of routes.ts, /admin/deposit of admin.ts).
THEOREM OneCreditUnlessRaced == Spec => []CreditedOnceUnlessRaced
<1>1. AloneInv => CreditedOnceUnlessRaced
  BY DEF AloneInv, Backed, Alone, CreditedOnceUnlessRaced, TypeOK
<1> QED BY <1>1, AloneHolds, PTL

\* No late refusal or cancellation is written over the row of such a deposit
\* once it is in the wallet: its status stays ok.
THEOREM CreditStaysUnlessRaced == Spec => []CreditShowsUnlessRaced
<1>1. AloneInv => CreditShowsUnlessRaced
  BY DEF AloneInv, Backed, Alone, CreditShowsUnlessRaced, TypeOK
<1> QED BY <1>1, AloneHolds, PTL

-----------------------------------------------------------------------------
(* Any number of callbacks at a time: what one payment can bring.          *)

\* No callback starts once a row is settled, and each under way brings the
\* amount at most once; the admin may have brought it once besides.
PerCallback ==
  \A d \in Deposits :
    /\ status[d] \in {"absent", "pending"} => credited[d] = 0 /\ d \notin approved
    /\ credited[d] + Cardinality(Under(d)) <= Cardinality(Callbacks) + (IF d \in approved THEN 1 ELSE 0)

LEMMA UnderNat ==
  ASSUME NEW S \in SUBSET Callbacks
  PROVE  /\ IsFiniteSet(S) /\ Cardinality(S) \in Nat /\ Cardinality(Callbacks) \in Nat
         /\ Cardinality(S) <= Cardinality(Callbacks)
         /\ \A T \in SUBSET S : IsFiniteSet(T) /\ Cardinality(T) \in Nat /\ Cardinality(T) <= Cardinality(S)
<1>1. IsFiniteSet(Callbacks) /\ IsFiniteSet(S)
  BY BoundAssumption, FS_Subset
<1> QED BY <1>1, FS_Subset, FS_CardinalityType

\* No credit, no new callback, and no row back to pending.
LEMMA PerKept ==
  ASSUME TypeOK, PerCallback, credited' = credited, approved \subseteq approved',
         \A d \in Deposits : status'[d] \in {"absent", "pending"} =>
           status[d] \in {"absent", "pending"} /\ (d \in approved' => d \in approved),
         \A d \in Deposits : Under(d)' \subseteq Under(d)
  PROVE  PerCallback'
<1> SUFFICES ASSUME NEW d \in Deposits
             PROVE  /\ status'[d] \in {"absent", "pending"} => credited'[d] = 0 /\ d \notin approved'
                    /\ credited'[d] + Cardinality(Under(d)') <= Cardinality(Callbacks) + (IF d \in approved' THEN 1 ELSE 0)
  BY DEF PerCallback
<1>1. Under(d) \in SUBSET Callbacks /\ Under(d)' \in SUBSET Under(d)
  BY DEF Under
<1>2. /\ Cardinality(Under(d)) \in Nat /\ Cardinality(Under(d)') \in Nat /\ Cardinality(Callbacks) \in Nat
      /\ Cardinality(Under(d)') <= Cardinality(Under(d))
  BY <1>1, UnderNat
<1>3. credited[d] \in Nat
  BY DEF TypeOK
<1>4. credited[d] + Cardinality(Under(d)) <= Cardinality(Callbacks) + (IF d \in approved THEN 1 ELSE 0)
  BY DEF PerCallback
<1>5. credited'[d] + Cardinality(Under(d)') <= Cardinality(Callbacks) + (IF d \in approved' THEN 1 ELSE 0)
  BY <1>2, <1>3, <1>4
<1>6. status'[d] \in {"absent", "pending"} => credited'[d] = 0 /\ d \notin approved'
  BY DEF PerCallback
<1> QED BY <1>5, <1>6

LEMMA PerCallbackStep == Backed /\ PerCallback /\ [Next]_vars => PerCallback'
<1> SUFFICES ASSUME Backed, PerCallback, [Next]_vars PROVE PerCallback'
  OBVIOUS
<1>0. TypeOK /\ FlightsOnline
  BY DEF Backed
<1>1. ASSUME UNCHANGED <<status, credited, approved>>, \A d \in Deposits : Under(d)' \subseteq Under(d)
      PROVE  PerCallback'
  BY <1>0, <1>1, PerKept
<1>2. ASSUME flight' = flight \/ flight' = [c \in Callbacks |-> Idle] \/ \E c \in Callbacks : End(c)
      PROVE  \A d \in Deposits : Under(d)' \subseteq Under(d)
  BY <1>0, <1>2 DEF Under, End, TypeOK
<1>3. ASSUME NEW d \in Deposits, NEW s \in {"pending", "cancelled", "rejected"}, status[d] \in {"absent", "pending"},
             Mark(d, s), UNCHANGED <<credited, flight, approved>>
      PROVE  PerCallback'
  <2>1. \A e \in Deposits : status'[e] \in {"absent", "pending"} => status[e] \in {"absent", "pending"}
    BY <1>0, <1>3 DEF Mark, TypeOK
  <2> QED BY <1>0, <1>2, <1>3, <2>1, PerKept
<1>4. ASSUME NEW d \in Deposits, Approve(d) PROVE PerCallback'
  <2> SUFFICES ASSUME NEW e \in Deposits
               PROVE  /\ status'[e] \in {"absent", "pending"} => credited'[e] = 0 /\ e \notin approved'
                      /\ credited'[e] + Cardinality(Under(e)') <= Cardinality(Callbacks) + (IF e \in approved' THEN 1 ELSE 0)
    BY DEF PerCallback
  <2>1. Under(e)' = Under(e) /\ approved' = approved \cup {d} /\ status[d] = "pending"
    BY <1>4 DEF Approve, Under
  <2>2. /\ status'[e] = IF e = d THEN "ok" ELSE status[e]
        /\ credited'[e] = credited[e] + (IF e = d THEN 1 ELSE 0) /\ credited[e] \in Nat
    BY <1>0, <1>4 DEF Approve, Mark, Credit, TypeOK
  <2>3. /\ status[e] \in {"absent", "pending"} => credited[e] = 0 /\ e \notin approved
        /\ credited[e] + Cardinality(Under(e)) <= Cardinality(Callbacks) + (IF e \in approved THEN 1 ELSE 0)
    BY DEF PerCallback
  <2>4. Cardinality(Under(e)) \in Nat /\ Cardinality(Callbacks) \in Nat
    <3>1. Under(e) \in SUBSET Callbacks
      BY DEF Under
    <3> QED BY <3>1, UnderNat
  <2>5. CASE e = d
    <3>1. credited'[e] = credited[e] + 1 /\ e \in approved' /\ e \notin approved /\ status'[e] = "ok"
      BY <2>1, <2>2, <2>3, <2>5
    <3>2. credited'[e] + Cardinality(Under(e)') <= Cardinality(Callbacks) + 1
      BY <2>1, <2>2, <2>3, <2>4, <3>1
    <3> QED BY <3>1, <3>2
  <2>6. CASE e # d
    <3>1. credited'[e] = credited[e] /\ (e \in approved' <=> e \in approved) /\ status'[e] = status[e]
      BY <2>1, <2>2, <2>6
    <3> QED BY <2>1, <2>3, <3>1
  <2> QED BY <2>5, <2>6
<1>5. ASSUME NEW d \in Deposits, TornApprove(d) PROVE PerCallback'
  <2>1. \A e \in Deposits : status'[e] \in {"absent", "pending"} =>
          status[e] \in {"absent", "pending"} /\ (e \in approved' => e \in approved)
    BY <1>0, <1>5 DEF TornApprove, Mark, TypeOK
  <2>2. credited' = credited /\ approved \subseteq approved' /\ flight' = [c \in Callbacks |-> Idle]
    BY <1>5 DEF TornApprove, Dies
  <2> QED BY <1>0, <1>2, <2>1, <2>2, PerKept
<1>6. ASSUME NEW c \in Callbacks, NEW d \in Online, CallbackOk(c, d) PROVE PerCallback'
  <2> SUFFICES ASSUME NEW e \in Deposits
               PROVE  /\ status'[e] \in {"absent", "pending"} => credited'[e] = 0 /\ e \notin approved'
                      /\ credited'[e] + Cardinality(Under(e)') <= Cardinality(Callbacks) + (IF e \in approved' THEN 1 ELSE 0)
    BY DEF PerCallback
  <2>1. UNCHANGED <<status, credited, approved>> /\ status[d] = "pending" /\ flight[c] = Idle
        /\ flight' = [flight EXCEPT ![c] = Asked(d)]
    BY <1>6 DEF CallbackOk
  <2>2. /\ status[e] \in {"absent", "pending"} => credited[e] = 0 /\ e \notin approved
        /\ credited[e] + Cardinality(Under(e)) <= Cardinality(Callbacks) + (IF e \in approved THEN 1 ELSE 0)
        /\ credited[e] \in Nat
    BY <1>0 DEF PerCallback, TypeOK
  <2>3. Under(e) \in SUBSET Callbacks /\ Under(e)' \in SUBSET Callbacks
    BY DEF Under
  <2>4. CASE e = d
    <3>1. Cardinality(Under(e)') \in Nat /\ Cardinality(Under(e)') <= Cardinality(Callbacks) /\ Cardinality(Callbacks) \in Nat
      BY <2>3, UnderNat
    <3> QED BY <2>1, <2>2, <2>4, <3>1
  <2>5. CASE e # d
    <3>1. Under(e)' = Under(e)
      BY <1>0, <2>1, <2>5 DEF Under, Asked, TypeOK
    <3> QED BY <2>1, <2>2, <3>1
  <2> QED BY <2>4, <2>5
<1>7. ASSUME NEW c \in Callbacks, GatewayAnswers(c) PROVE PerCallback'
  <2>1. PICK answer \in {"paid", "refused"} :
          /\ flight[c] # Idle
          /\ flight' = [flight EXCEPT ![c].answer = answer]
          /\ UNCHANGED <<status, credited, approved>>
    BY <1>7 DEF GatewayAnswers
  <2>2. flight[c] \in [deposit : Online, answer : {"none", "paid", "refused"}]
    BY <1>0, <2>1 DEF TypeOK, Flights
  <2>3. \A b \in Callbacks : flight'[b].deposit = flight[b].deposit /\ (b # c => flight'[b] = flight[b])
    BY <1>0, <2>1, <2>2 DEF TypeOK
  <2>4. \A d \in Deposits : Under(d)' \subseteq Under(d)
    BY <2>1, <2>3 DEF Under
  <2> QED BY <1>1, <2>1, <2>4
<1>8. ASSUME NEW c \in Callbacks, VerifyPaid(c) PROVE PerCallback'
  <2> DEFINE d == flight[c].deposit
  <2>1. flight[c] # Idle /\ d \in Deposits
    BY <1>0, <1>8, TypedFlight DEF VerifyPaid, FlightsOnline, Deposits
  <2> SUFFICES ASSUME NEW e \in Deposits
               PROVE  /\ status'[e] \in {"absent", "pending"} => credited'[e] = 0 /\ e \notin approved'
                      /\ credited'[e] + Cardinality(Under(e)') <= Cardinality(Callbacks) + (IF e \in approved' THEN 1 ELSE 0)
    BY DEF PerCallback
  <2>2. /\ status' = [status EXCEPT ![d] = "ok"] /\ credited' = [credited EXCEPT ![d] = @ + 1]
        /\ flight' = [flight EXCEPT ![c] = Idle] /\ approved' = approved
    BY <1>8 DEF VerifyPaid, Mark, Credit, End
  <2>3. /\ status[e] \in {"absent", "pending"} => credited[e] = 0 /\ e \notin approved
        /\ credited[e] + Cardinality(Under(e)) <= Cardinality(Callbacks) + (IF e \in approved THEN 1 ELSE 0)
        /\ credited[e] \in Nat
    BY <1>0 DEF PerCallback, TypeOK
  <2>4. Under(e) \in SUBSET Callbacks /\ IsFiniteSet(Under(e)) /\ Cardinality(Under(e)) \in Nat
        /\ Cardinality(Callbacks) \in Nat
    <3>1. Under(e) \in SUBSET Callbacks
      BY DEF Under
    <3> QED BY <3>1, UnderNat
  <2>5. CASE e = d
    <3>1. c \in Under(e) /\ Under(e)' = Under(e) \ {c}
      BY <1>0, <2>1, <2>2, <2>5 DEF Under, TypeOK
    <3>2. Cardinality(Under(e)') = Cardinality(Under(e)) - 1
      BY <2>4, <3>1, FS_RemoveElement
    <3>3. credited'[e] = credited[e] + 1 /\ status'[e] = "ok"
      BY <1>0, <2>2, <2>5 DEF TypeOK
    <3>4. credited'[e] + Cardinality(Under(e)') = credited[e] + Cardinality(Under(e))
      BY <2>3, <2>4, <3>2, <3>3
    <3> QED BY <2>2, <2>3, <3>3, <3>4
  <2>6. CASE e # d
    <3>1. Under(e)' = Under(e)
      BY <1>0, <2>1, <2>2, <2>6 DEF Under, TypeOK
    <3>2. credited'[e] = credited[e] /\ status'[e] = status[e]
      BY <1>0, <2>2, <2>6 DEF TypeOK
    <3> QED BY <2>2, <2>3, <3>1, <3>2
  <2> QED BY <2>5, <2>6
<1>9. ASSUME NEW c \in Callbacks, VerifyRefused(c) \/ TornVerify(c) PROVE PerCallback'
  <2>1. PICK s \in {"ok", "failed"} : Mark(flight[c].deposit, s)
    BY <1>9 DEF VerifyRefused, TornVerify
  <2>2. \A e \in Deposits : status'[e] \in {"absent", "pending"} => status[e] \in {"absent", "pending"}
    BY <1>0, <2>1 DEF Mark, TypeOK
  <2>3. credited' = credited /\ approved' = approved
        /\ (flight' = [b \in Callbacks |-> Idle] \/ End(c))
    BY <1>9 DEF VerifyRefused, TornVerify, Dies
  <2> QED BY <1>0, <1>2, <2>2, <2>3, PerKept
<1>10. ASSUME NEW c \in Callbacks, GatewayUnreachable(c) PROVE PerCallback'
  BY <1>1, <1>2, <1>10 DEF GatewayUnreachable
<1>11. CASE Crash
  BY <1>1, <1>2, <1>11 DEF Crash, Dies
<1>12. CASE UNCHANGED vars
  BY <1>1, <1>2, <1>12 DEF vars
<1>13. ASSUME NEW d \in Online, PayAtGateway(d) \/ CallbackCancelled(d) PROVE PerCallback'
  BY <1>1, <1>2, <1>3, <1>13 DEF PayAtGateway, CallbackCancelled, Deposits
<1>14. ASSUME NEW d \in Deposits, RequestDeposit(d) \/ Reject(d) PROVE PerCallback'
  BY <1>3, <1>14 DEF RequestDeposit, Reject
<1> QED
  BY <1>4, <1>5, <1>6, <1>7, <1>8, <1>9, <1>10, <1>11, <1>12, <1>13, <1>14 DEF Next

\* Nothing is assumed of callbacks and admin here: whatever interleaves, one
\* deposit reaches the wallet at most as often as callbacks can be under way
\* at a time, and once more if the admin approved it.  A callback repeated
\* later brings nothing, as the row is then no longer pending (routes.ts).
THEOREM CreditsPerCallback ==
  Spec => [](\A d \in Deposits : credited[d] <= Cardinality(Callbacks) + (IF d \in approved THEN 1 ELSE 0))
<1> DEFINE Bounded == \A d \in Deposits : credited[d] <= Cardinality(Callbacks) + (IF d \in approved THEN 1 ELSE 0)
<1>1. Init => PerCallback
  <2> SUFFICES ASSUME Init, NEW d \in Deposits
               PROVE  /\ credited[d] = 0 /\ d \notin approved
                      /\ credited[d] + Cardinality(Under(d)) <= Cardinality(Callbacks) + (IF d \in approved THEN 1 ELSE 0)
    BY DEF PerCallback
  <2>1. credited[d] = 0 /\ d \notin approved /\ Under(d) \in SUBSET Callbacks
    BY DEF Init, Under
  <2>2. Cardinality(Under(d)) \in Nat /\ Cardinality(Callbacks) \in Nat /\ Cardinality(Under(d)) <= Cardinality(Callbacks)
    BY <2>1, UnderNat
  <2> QED BY <2>1, <2>2
<1>2. Backed /\ PerCallback => Bounded
  <2> SUFFICES ASSUME Backed, PerCallback, NEW d \in Deposits
               PROVE  credited[d] <= Cardinality(Callbacks) + (IF d \in approved THEN 1 ELSE 0)
    OBVIOUS
  <2>1. Under(d) \in SUBSET Callbacks
    BY DEF Under
  <2>2. Cardinality(Under(d)) \in Nat /\ Cardinality(Callbacks) \in Nat
    BY <2>1, UnderNat
  <2>3. credited[d] \in Nat
        /\ credited[d] + Cardinality(Under(d)) <= Cardinality(Callbacks) + (IF d \in approved THEN 1 ELSE 0)
    BY DEF Backed, TypeOK, PerCallback
  <2> QED BY <2>2, <2>3
<1> QED BY <1>1, <1>2, BackedInit, BackedStep, PerCallbackStep, PTL DEF Spec

-----------------------------------------------------------------------------
(* The page and the hub.                                                   *)

\* What the hub follows once all that was sent has arrived.
Following == IF up = <<>> THEN hub.region ELSE up[Len(up)]

\* The states of a connection: the server has attached the socket before the
\* browser opens it, and nothing is sent on one that is not open.
Connection ==
  /\ \E S : up \in Seq(S)
  /\ sock \in {"closed", "connecting", "open"}
  /\ sock # "open" => up = <<>>
  /\ sock # "closed" => hub = [player |-> hub.player, region |-> hub.region]
  /\ sock = "connecting" => hub.region = None

Subscribed == Connection /\ (sock = "open" => Following = live)

LEMMA LastIsFollowing ==
  ASSUME Connection PROVE Last(<<hub.region>> \o up) = Following
<1>1. PICK S : up \in Seq(S) BY DEF Connection
<1>2. <<hub.region>> \in Seq({hub.region} \cup S) /\ up \in Seq({hub.region} \cup S) BY <1>1
<1>3. Len(<<hub.region>> \o up) = 1 + Len(up) BY <1>2
<1>4. CASE up = <<>> BY <1>4 DEF Last, Following
<1>5. CASE up # <<>>
  <2>1. Len(up) \in Nat \ {0} BY <1>1, <1>5
  <2>2. (<<hub.region>> \o up)[1 + Len(up)] = up[Len(up)] BY <1>2, <2>1
  <2> QED BY <1>3, <1>5, <2>2 DEF Last, Following
<1> QED BY <1>4, <1>5

\* A message to the server is the last one that counts.
LEMMA AppendFollows ==
  ASSUME NEW s, \E S : s \in Seq(S), NEW v
  PROVE  /\ \E S : Append(s, v) \in Seq(S)
         /\ Append(s, v) # <<>>
         /\ Append(s, v)[Len(Append(s, v))] = v
<1>1. PICK S : s \in Seq(S) OBVIOUS
<1>2. s \in Seq(S \cup {v}) BY <1>1
<1> QED BY <1>2

\* One that has arrived leaves what the hub follows at last as it was.
LEMMA TailFollows ==
  ASSUME NEW s, \E S : s \in Seq(S), s # <<>>
  PROVE  /\ \E S : Tail(s) \in Seq(S)
         /\ s[Len(s)] = IF Tail(s) = <<>> THEN Head(s) ELSE Tail(s)[Len(Tail(s))]
<1>1. PICK S : s \in Seq(S) OBVIOUS
<1>2. Tail(s) \in Seq(S) /\ Len(s) \in Nat \ {0} BY <1>1
<1>3. CASE Len(s) = 1
  <2>1. Len(Tail(s)) = 0 BY <1>1, <1>2, <1>3
  <2>2. Tail(s) = <<>> BY <1>2, <2>1, EmptySeq
  <2>3. Head(s) = s[1] BY <1>1, <1>2
  <2> QED BY <1>2, <1>3, <2>2, <2>3
<1>4. CASE Len(s) # 1
  <2>1. Len(Tail(s)) = Len(s) - 1 /\ Len(Tail(s)) \in Nat \ {0} BY <1>1, <1>2, <1>4
  <2>2. Tail(s)[Len(Tail(s))] = s[Len(s)] BY <1>1, <1>2, <2>1
  <2> QED BY <1>2, <2>1, <2>2
<1> QED BY <1>2, <1>3, <1>4

-----------------------------------------------------------------------------
LEMMA SubscribedInit == PageInit => Subscribed
<1>1. <<>> \in Seq({}) OBVIOUS
<1> QED BY <1>1 DEF PageInit, Subscribed, Connection

\* A step that leaves both ends of the socket and the subscription alone.
LEMMA Elsewhere ==
  ASSUME Subscribed, UNCHANGED <<hub, sock, live, up>> PROVE Subscribed'
BY DEF Subscribed, Connection, Following

LEMMA SocketKeeps ==
  ASSUME Subscribed, Connect \/ Open \/ Drop \/ ServerReceives \/ Reload PROVE Subscribed'
<1>0. <<>> \in Seq({}) OBVIOUS
<1>1. CASE Connect
  <2>1. up = <<>> BY <1>1 DEF Connect, Subscribed, Connection
  <2> QED BY <1>0, <1>1, <2>1 DEF Connect, Subscribed, Connection
<1>2. CASE Open
  <2>1. up = <<>> /\ hub.region = None BY <1>2 DEF Open, Subscribed, Connection
  <2>2. CASE live = None BY <1>0, <1>2, <2>1, <2>2 DEF Open, Subscribed, Connection, Following
  <2>3. CASE live # None
    <3>1. up' = Append(up, live) /\ hub' = hub /\ live' = live /\ sock' = "open" BY <1>2, <2>3 DEF Open
    <3>2. (\E S : up' \in Seq(S)) /\ up' # <<>> /\ up'[Len(up')] = live
      BY <1>0, <2>1, <3>1, AppendFollows
    <3> QED BY <1>2, <3>1, <3>2 DEF Open, Subscribed, Connection, Following
  <2> QED BY <2>2, <2>3
<1>3. CASE Drop BY <1>0, <1>3 DEF Drop, Subscribed, Connection
<1>4. CASE ServerReceives
  <2>1. /\ up # <<>> /\ sock = "open" /\ \E S : up \in Seq(S)
        /\ hub = [player |-> hub.player, region |-> hub.region]
    BY <1>4 DEF ServerReceives, Subscribed, Connection
  <2>2. hub' = [player |-> hub.player, region |-> Head(up)] BY <1>4, <2>1 DEF ServerReceives
  <2>3. up' = Tail(up) /\ UNCHANGED <<sock, live>> BY <1>4 DEF ServerReceives
  <2>4. /\ \E S : up' \in Seq(S)
        /\ up[Len(up)] = IF up' = <<>> THEN Head(up) ELSE up'[Len(up')]
    BY <2>1, <2>3, TailFollows
  <2> QED BY <2>1, <2>2, <2>3, <2>4 DEF Subscribed, Connection, Following
<1>5. CASE Reload BY <1>0, <1>5 DEF Reload, Subscribed, Connection
<1> QED BY <1>1, <1>2, <1>3, <1>4, <1>5

LEMMA RegionKeeps ==
  ASSUME Subscribed, NEW i, AnswerRegion(i) PROVE Subscribed'
<1> DEFINE at == calls["region"][i].at
<1>1. /\ live' = at
      /\ up' = IF live # at /\ sock = "open" THEN Append(up, at) ELSE up
      /\ UNCHANGED <<hub, sock>>
  BY DEF AnswerRegion, RegionAnswer
<1> HIDE DEF at
<1>2. CASE live # at /\ sock = "open"
  <2>1. (\E S : up' \in Seq(S)) /\ up' # <<>> /\ up'[Len(up')] = at
    BY <1>1, <1>2, AppendFollows DEF Subscribed, Connection
  <2> QED BY <1>1, <1>2, <2>1 DEF Subscribed, Connection, Following
<1>3. CASE ~(live # at /\ sock = "open")
  BY <1>1, <1>3 DEF Subscribed, Connection, Following
<1> QED BY <1>2, <1>3

LEMMA SubscribedStep == Subscribed /\ [PageNext]_pageVars => Subscribed'
<1> SUFFICES ASSUME Subscribed, [PageNext]_pageVars PROVE Subscribed' OBVIOUS
<1>1. CASE UNCHANGED pageVars BY <1>1, Elsewhere DEF pageVars
<1>2. CASE StepDue \/ TombTaken \/ NewSeason \/ \E v \in Views : TileTaken(v)
  BY <1>2, Elsewhere DEF StepDue, TombTaken, NewSeason, TileTaken
<1>3. ASSUME NEW k \in Kinds, NEW i \in 1..MaxCalls[k], Serve(k, i) \/ Answer(k, i) \/ Fail(k, i)
      PROVE  Subscribed'
  BY <1>3, Elsewhere DEF Serve, Answer, Fail
<1>4. ASSUME NEW i, ServeAct(i) \/ Refuse(i) PROVE Subscribed'
  BY <1>4, Elsewhere DEF ServeAct, Refuse
<1>5. CASE Receive \/ LoopMe \/ LoopRegion \/ Visible \/ Scroll \/ Act \/ Login
  BY <1>5, Elsewhere DEF Receive, LoopMe, LoopRegion, Visible, Scroll, Act, Login
<1> QED BY <1>1, <1>2, <1>3, <1>4, <1>5, SocketKeeps, RegionKeeps DEF PageNext

\* The subscription of the hub is that of the page, up to what is under way,
\* through any reconnects and answers (Live of net/client.ts, ws.ts).
THEOREM SubscriptionNeverLost == FairSpec => []SubscriptionKept
<1>1. Subscribed => SubscriptionKept BY LastIsFollowing DEF Subscribed, SubscriptionKept
<1> QED BY <1>1, SubscribedInit, SubscribedStep, PTL DEF FairSpec

=============================================================================
