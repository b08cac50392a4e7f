------------------------- MODULE RequestPipelineProofs -------------------------
(***************************************************************************)
(* Theorems about the request pipeline, for any number of concurrent       *)
(* requests, any policy and any setting: it implements the booking flow,   *)
(* so what is proved of the booking flow holds of the application; and it  *)
(* keeps its challenge, its log of refusals and the replies it gives true. *)
(* And it implements the rate limiter.                                     *)
(***************************************************************************)
EXTENDS RequestPipeline, BookingFlowProofs

-----------------------------------------------------------------------------
RequestRows == [ask : Asks, stage : Stages, stamp : Int,
                status : Statuses \cup {Null}, result : Int]

\* A request has its fields, and one that was authenticated and not yet
\* answered names a patron of the table: rows of it are never deleted.
RequestsKnown ==
    /\ requests \in Seq(RequestRows) /\ issued \in Int
    /\ \A n \in DOMAIN requests :
          requests[n].ask.kind \in {"hold", "confirm"}
            /\ requests[n].stage \notin {"arrived", "answered"}
            => requests[n].ask.credential \in patrons

\* One request moves on: its ask stays, and so do the others.
Moved(n, stage) ==
    /\ DOMAIN requests' = DOMAIN requests
    /\ requests' \in Seq(RequestRows)
    /\ \A m \in DOMAIN requests :
          /\ requests'[m].ask = requests[m].ask
          /\ requests'[m].stage = IF m = n THEN stage ELSE requests[m].stage

LEMMA RowReplaced ==
    ASSUME NEW n \in DOMAIN requests, NEW row \in RequestRows,
           requests \in Seq(RequestRows), requests' = [requests EXCEPT ![n] = row],
           row.ask = requests[n].ask
    PROVE  Moved(n, row.stage)
<1>1. requests \in [1..Len(requests) -> RequestRows] /\ Len(requests) \in Nat
  BY LenProperties
<1>2. requests' \in [1..Len(requests) -> RequestRows]
  BY <1>1
<1>3. requests' \in Seq(RequestRows)
  BY <1>1, <1>2, SeqDef
<1>4. QED
  BY <1>1, <1>2, <1>3 DEF Moved

LEMMA MovesToMoved ==
    ASSUME requests \in Seq(RequestRows), NEW n \in DOMAIN requests,
           NEW stage \in Stages, MovesTo(n, stage)
    PROVE  Moved(n, stage)
<1>0. PICK zero \in Int : zero = 0
  OBVIOUS
<1> DEFINE row == [requests[n] EXCEPT !.stage = stage, !.stamp = zero]
<1>1. requests[n] \in RequestRows
  BY LenProperties
<1>2. row \in RequestRows /\ row.ask = requests[n].ask /\ row.stage = stage
  BY <1>1 DEF RequestRows
<1>3. requests' = [requests EXCEPT ![n] = row]
  BY <1>0 DEF MovesTo
<1> HIDE DEF row
<1>4. QED
  BY <1>2, <1>3, RowReplaced

LEMMA AnswersMoved ==
    ASSUME requests \in Seq(RequestRows), NEW n \in DOMAIN requests,
           NEW status \in Statuses, NEW result \in Int, Answers(n, status, result)
    PROVE  Moved(n, "answered")
<1>0. PICK zero \in Int : zero = 0
  OBVIOUS
<1> DEFINE row == [requests[n] EXCEPT !.stage = "answered", !.stamp = zero,
                                      !.status = status, !.result = result]
<1>1. requests[n] \in RequestRows
  BY LenProperties
<1>2. row \in RequestRows /\ row.ask = requests[n].ask /\ row.stage = "answered"
  BY <1>1 DEF RequestRows, Stages
<1>3. requests' = [requests EXCEPT ![n] = row]
  BY <1>0 DEF Answers
<1> HIDE DEF row
<1>4. QED
  BY <1>2, <1>3, RowReplaced

LEMMA ReadClockMoved ==
    ASSUME TypeOK, requests \in Seq(RequestRows), NEW n \in DOMAIN requests, ReadClock(n)
    PROVE  Moved(n, "stamped")
<1> DEFINE row == [requests[n] EXCEPT !.stage = "stamped", !.stamp = now]
<1>1. requests[n] \in RequestRows /\ now \in Int
  BY LenProperties, BoundsAssumption DEF TypeOK
<1>2. row \in RequestRows /\ row.ask = requests[n].ask /\ row.stage = "stamped"
  BY <1>1 DEF RequestRows, Stages
<1>3. requests' = [requests EXCEPT ![n] = row]
  BY DEF ReadClock
<1> HIDE DEF row
<1>4. QED
  BY <1>2, <1>3, RowReplaced

-----------------------------------------------------------------------------
(* RequestsKnown is inductive: one lemma for a request that moves on, then   *)
(* what each step does to the booking flow and to the requests.              *)

Inv == TypeOK /\ RequestsKnown
Booked(n) == requests[n].ask.kind \in {"hold", "confirm"}

LEMMA KnownKept ==
    ASSUME RequestsKnown, NEW n \in DOMAIN requests, NEW stage, Moved(n, stage),
           issued' \in Int, patrons \subseteq patrons',
           Booked(n) /\ stage \notin {"arrived", "answered"}
             => requests[n].ask.credential \in patrons
    PROVE  RequestsKnown'
<1>1. requests' \in Seq(RequestRows) /\ DOMAIN requests' = DOMAIN requests
  BY DEF Moved
<1>2. ASSUME NEW m \in DOMAIN requests',
             requests'[m].ask.kind \in {"hold", "confirm"},
             requests'[m].stage \notin {"arrived", "answered"}
      PROVE  requests'[m].ask.credential \in patrons'
  <2>1. m \in DOMAIN requests /\ requests'[m].ask = requests[m].ask
    BY <1>1 DEF Moved
  <2>2. CASE m = n
    BY <1>2, <2>1, <2>2 DEF Moved, Booked
  <2>3. CASE m # n
    BY <1>2, <2>1, <2>3 DEF Moved, RequestsKnown
  <2>4. QED
    BY <2>2, <2>3
<1>3. QED
  BY <1>1, <1>2 DEF RequestsKnown

LEMMA ArriveKnown ==
    ASSUME RequestsKnown, NEW a \in Asks, Arrive(a)
    PROVE  RequestsKnown'
<1> DEFINE row == Unanswered(a)
<1>1. row \in RequestRows /\ row.stage = "arrived"
  BY DEF Unanswered, RequestRows, Stages
<1>2. requests' = Append(requests, row) /\ patrons' = patrons /\ issued' = issued
  BY DEF Arrive, vars, db, challenge
<1> HIDE DEF row
<1>3. requests \in Seq(RequestRows)
  BY DEF RequestsKnown
<1>4. /\ requests' \in Seq(RequestRows)
      /\ DOMAIN requests' = DOMAIN requests \cup {Len(requests) + 1}
      /\ requests'[Len(requests) + 1] = row
      /\ \A m \in DOMAIN requests : requests'[m] = requests[m]
  BY <1>1, <1>2, <1>3
<1>5. QED
  BY <1>1, <1>2, <1>4 DEF RequestsKnown

\* A token's patron is a row of the table, so the credential is known from
\* then on.
LEMMA AuthenticateKnown ==
    ASSUME Inv, NEW n \in DOMAIN requests, Authenticate(n)
    PROVE  RequestsKnown'
<1>1. Moved(n, "ready")
  BY MovesToMoved DEF Inv, RequestsKnown, Authenticate, Stages
<1>2. patrons' = patrons /\ issued' = issued
  BY DEF Authenticate, vars, db, challenge
<1>3. DOMAIN tokens = patrons
  BY DEF Inv, TypeOK
<1>4. Booked(n) => requests[n].ask.credential \in patrons
  BY <1>3 DEF Authenticate, Authentic, Patron, Kind, Booked
<1>5. QED
  BY <1>1, <1>2, <1>4, KnownKept DEF Inv, RequestsKnown

\* The steps between the two: the request was past authentication before.
LEMMA PastAuthentication ==
    ASSUME Inv, NEW n \in DOMAIN requests, Booked(n),
           requests[n].stage \notin {"arrived", "answered"}
    PROVE  requests[n].ask.credential \in patrons
BY DEF Inv, RequestsKnown, Booked

LEMMA ChallengeAndLimiterKnown ==
    ASSUME Inv, NEW n \in DOMAIN requests,
           \/ IssueChallenge(n) \/ RefuseAuthentication(n) \/ ReadClock(n)
           \/ CountRequest(n) \/ PassGate(n) \/ StopAtGate(n) \/ HandleRefusal(n)
    PROVE  RequestsKnown' /\ UNCHANGED vars
<1> USE DEF Inv
<1>1. UNCHANGED vars /\ patrons' = patrons
  BY DEF IssueChallenge, RefuseAuthentication, ReadClock, CountRequest, PassGate,
         StopAtGate, HandleRefusal, vars, db
<1> SUFFICES RequestsKnown'
  BY <1>1
<1>2. issued' \in Int
  BY DEF RequestsKnown, IssueChallenge, RefuseAuthentication, ReadClock, CountRequest,
         PassGate, StopAtGate, HandleRefusal, challenge,
         Challenge!Issue, Challenge!Spend, Challenge!SpendRefused,
         Challenge!challengeVars
<1>3. ASSUME NEW status \in Statuses, NEW result \in Int, Answers(n, status, result)
      PROVE  RequestsKnown'
  <2>1. Moved(n, "answered")
    BY <1>3, AnswersMoved DEF RequestsKnown
  <2>2. QED
    BY <1>1, <1>2, <2>1, KnownKept
<1>4. ASSUME NEW stage \in Stages, Moved(n, stage),
             requests[n].stage \notin {"arrived", "answered"}
      PROVE  RequestsKnown'
  BY <1>1, <1>2, <1>4, KnownKept, PastAuthentication
<1>5. CASE IssueChallenge(n)
  BY <1>2, <1>3, <1>5 DEF IssueChallenge, Statuses
<1>6. CASE RefuseAuthentication(n)
  BY <1>3, <1>6 DEF RefuseAuthentication, Statuses
<1>7. CASE ReadClock(n)
  <2>1. Moved(n, "stamped") /\ requests[n].stage = "ready"
    BY <1>7, ReadClockMoved DEF RequestsKnown, ReadClock, At
  <2>2. QED
    BY <1>4, <2>1 DEF Stages
<1>8. CASE CountRequest(n)
  <2>1. requests[n].stage = "stamped"
    BY <1>8 DEF CountRequest, At
  <2>2. CASE MovesTo(n, "admitted")
    BY <1>4, <2>1, <2>2, MovesToMoved DEF RequestsKnown, Stages
  <2>3. CASE Answers(n, 429, 0)
    BY <1>3, <2>3 DEF Statuses
  <2>4. QED
    BY <1>8, <2>2, <2>3 DEF CountRequest
<1>9. CASE PassGate(n)
  <2>1. requests[n].stage \in {"admitted", "ready"} /\ MovesTo(n, "gated")
    BY <1>9 DEF PassGate, PastLimiter, At
  <2>2. QED
    BY <1>4, <2>1, MovesToMoved DEF RequestsKnown, Stages
<1>10. CASE StopAtGate(n)
  BY <1>3, <1>10 DEF StopAtGate, Statuses
<1>11. CASE HandleRefusal(n)
  BY <1>3, <1>11 DEF HandleRefusal, Statuses
<1>12. QED
  BY <1>5, <1>6, <1>7, <1>8, <1>9, <1>10, <1>11

\* A granted transaction is the booking flow's, of a patron of the table.
LEMMA GrantBooks ==
    ASSUME Inv, NEW n \in DOMAIN requests, Grant(n)
    PROVE  Next /\ patrons \subseteq patrons' /\ RowId(n) \in Int
<1>1. PastGate(n) /\ requests[n].stage \notin {"arrived", "answered"}
  BY DEF Grant, PastGate, PastLimiter, At
<1>2. requests[n].ask \in Asks
  <2>1. requests[n] \in RequestRows
    BY LenProperties DEF Inv, RequestsKnown
  <2>2. QED
    BY <2>1 DEF RequestRows
<1>3. Booked(n) => Patron(n) \in patrons
  BY <1>1, PastAuthentication DEF Patron
<1>4. CASE Kind(n) = "register" /\ RegisterPatron(Target(n))
  <2>1. Target(n) \in EligibilityRefs \cup {Null}
    BY <1>2, <1>4 DEF Asks, Target, Kind
  <2>2. Cardinality(SelfService) + 1 \in Nat
    BY SelfServiceIdType DEF Inv
  <2>3. patrons \subseteq patrons'
    BY <1>4 DEF RegisterPatron
  <2>4. QED
    BY <1>4, <2>1, <2>2, <2>3 DEF Next, Request, RowId
<1>5. CASE Kind(n) = "hold" /\ PlaceHold(Patron(n), Target(n))
  <2>1. Target(n) \in ShowIds
    BY <1>2, <1>5 DEF Asks, Target, Kind
  <2>2. Patron(n) \in patrons
    BY <1>3, <1>5 DEF Booked, Kind
  <2>3. Len(holds) \in Nat /\ patrons' = patrons
    BY <1>5, LenProperties DEF Inv, TypeOK, PlaceHold
  <2>4. QED
    BY <1>5, <2>1, <2>2, <2>3 DEF Next, Request, RowId
<1>6. CASE Kind(n) = "confirm" /\ ConfirmHold(Patron(n), Target(n))
  <2>1. Patron(n) \in patrons
    BY <1>3, <1>6 DEF Booked, Kind
  <2>2. Len(tickets) \in Nat /\ Len(holds) \in Nat /\ DOMAIN flows = 1..Len(holds)
    BY LenProperties DEF Inv, TypeOK
  <2>3. Target(n) \in 1..(Len(holds) + 1)
    BY <1>6, <2>2 DEF ConfirmHold, ConfirmAdmitted
  <2>4. patrons' = patrons
    BY <1>6 DEF ConfirmHold
  <2>5. QED
    BY <1>6, <2>1, <2>2, <2>3, <2>4 DEF Next, Request, RowId
<1>7. CASE Kind(n) = "read" /\ ReadShow(Target(n))
  <2>1. Target(n) \in ShowIds
    BY <1>7 DEF ReadShow, ShowIds
  <2>2. patrons' = patrons
    BY <1>7 DEF ReadShow
  <2>3. QED
    BY <1>7, <2>1, <2>2 DEF Next, Request, RowId
<1>8. QED
  BY <1>4, <1>5, <1>6, <1>7 DEF Grant

LEMMA GrantKnown ==
    ASSUME Inv, NEW n \in DOMAIN requests, Grant(n)
    PROVE  RequestsKnown'
<1>1. patrons \subseteq patrons' /\ RowId(n) \in Int
  BY GrantBooks
<1>2. issued' \in Int
  BY DEF Grant, challenge, Inv, RequestsKnown
<1>3. PICK status \in Statuses : Answers(n, status, RowId(n))
  BY DEF Grant, Statuses
<1>4. Moved(n, "answered")
  BY <1>1, <1>3, AnswersMoved DEF Inv, RequestsKnown
<1>5. QED
  BY <1>1, <1>2, <1>4, KnownKept DEF Inv

\* A refused one rolls back.
LEMMA RefuseKnown ==
    ASSUME Inv, NEW n \in DOMAIN requests, Refuse(n)
    PROVE  RequestsKnown' /\ UNCHANGED vars
<1>1. UNCHANGED vars
  BY DEF Refuse, RefuseRegistration, RefuseHold, RefuseConfirm, RefuseRead
<1>2. patrons' = patrons /\ issued' \in Int
  BY <1>1 DEF vars, db, Refuse, challenge, Inv, RequestsKnown
<1>3. requests[n].stage \notin {"arrived", "answered"} /\ MovesTo(n, "refused")
  BY DEF Refuse, PastGate, PastLimiter, At
<1>4. Moved(n, "refused")
  BY <1>3, MovesToMoved DEF Inv, RequestsKnown, Stages
<1>5. QED
  BY <1>1, <1>2, <1>3, <1>4, KnownKept, PastAuthentication DEF Inv

-----------------------------------------------------------------------------
(* Every step of the pipeline is a step of the booking flow, or leaves it    *)
(* alone.                                                                    *)

LEMMA InitInv == PipelineInit => Init /\ Inv
<1> SUFFICES ASSUME PipelineInit PROVE Init /\ Inv
  OBVIOUS
<1>1. Init /\ TypeOK
  BY InitType DEF PipelineInit
<1>2. requests = << >> /\ issued = 0
  BY DEF PipelineInit, Challenge!ChallengeInit
<1>3. QED
  BY <1>1, <1>2 DEF Inv, RequestsKnown

LEMMA StepInv ==
    ASSUME Inv, NEW n \in DOMAIN requests, Step(n)
    PROVE  [Next]_vars /\ RequestsKnown'
<1>1. CASE Authenticate(n)
  BY <1>1, AuthenticateKnown DEF Authenticate
<1>2. CASE Grant(n)
  BY <1>2, GrantBooks, GrantKnown
<1>3. CASE Refuse(n)
  BY <1>3, RefuseKnown
<1>4. CASE \/ IssueChallenge(n) \/ RefuseAuthentication(n) \/ ReadClock(n)
           \/ CountRequest(n) \/ PassGate(n) \/ StopAtGate(n) \/ HandleRefusal(n)
  BY <1>4, ChallengeAndLimiterKnown
<1>5. QED
  BY <1>1, <1>2, <1>3, <1>4 DEF Step

LEMMA PipelineStepInv == Inv /\ [PipelineNext]_pipelineVars => [Next]_vars /\ Inv'
<1> SUFFICES ASSUME Inv, [PipelineNext]_pipelineVars PROVE [Next]_vars /\ RequestsKnown'
  BY NextType DEF Inv
<1>1. ASSUME NEW a \in Asks, Arrive(a) PROVE [Next]_vars /\ RequestsKnown'
  BY <1>1, ArriveKnown DEF Arrive, Inv
<1>2. ASSUME NEW n \in DOMAIN requests, Step(n) PROVE [Next]_vars /\ RequestsKnown'
  BY <1>2, StepInv
<1>3. CASE ClockMoves
  <2>1. Next /\ patrons' = patrons
    BY <1>3 DEF ClockMoves, Next, Tick, ClockStepsBack, db
  <2>2. requests' = requests /\ issued' = issued
    BY <1>3 DEF ClockMoves, challenge
  <2>3. QED
    BY <2>1, <2>2 DEF Inv, RequestsKnown
<1>4. CASE UNCHANGED pipelineVars
  BY <1>4 DEF pipelineVars, vars, db, challenge, Inv, RequestsKnown
<1>5. QED
  BY <1>1, <1>2, <1>3, <1>4 DEF PipelineNext

\* The application is the booking flow, seen at its tables: however its
\* requests interleave between the locks, each of its steps is one
\* transaction of the flow or leaves the tables alone (app.py).
THEOREM PipelineImplementsBookingFlow == PipelineSpec => Spec
  BY InitInv, PipelineStepInv, PTL DEF PipelineSpec, Spec

\* So no two requests, however they race, get the same seat ...
THEOREM PipelineSeatsAreExclusive == PipelineSpec => []SeatExclusive
  BY PipelineImplementsBookingFlow, SeatsAreExclusive, PTL

\* ... no reply leaves the tables of the flow in disagreement ...
THEOREM PipelineFlowsAreConsistent == PipelineSpec => []FlowConsistent
  BY PipelineImplementsBookingFlow, FlowsAreConsistent, PTL

\* ... and concurrency buys nobody a seat beyond its entitlement.
THEOREM PipelineEntitlementIsKept ==
    PipelineSpec => [](FlowState => WithinEntitlement)
  BY PipelineImplementsBookingFlow, EntitlementIsKept, PTL

\* Nor does racing for the same reference make an identity cheaper.
THEOREM PipelineIdentitiesAreGranted == PipelineSpec => []IdentitySupply
  BY PipelineImplementsBookingFlow, IdentitiesAreGranted, PTL

\* However requests race, their transactions allocate the seats as promised ...
THEOREM PipelineImplementsAllocation == PipelineSpec => ImplementsAllocation
  BY PipelineImplementsBookingFlow, FlowImplementsAllocation, PTL

\* ... and under the secure policy nobody with entitlement left is refused a seat.
THEOREM PipelineNobodyIsCrowdedOut == PipelineSpec => []NobodyCrowdedOut
  BY PipelineImplementsBookingFlow, NobodyIsCrowdedOut, PTL

-----------------------------------------------------------------------------
(* The requests.  A request without a reply has no status.                   *)

RowsInv ==
    /\ Inv /\ issued \in Nat
    /\ requests \in Seq(Requests) /\ Len(requests) <= MaxRequests
    /\ \A n \in DOMAIN requests : requests[n].stage = "answered" <=> requests[n].status # Null

\* What a step of request n leaves of the requests.
Becomes(n, stage, status, result) ==
    /\ requests' \in Seq(Requests) /\ Len(requests') = Len(requests)
    /\ DOMAIN requests = 1..Len(requests) /\ DOMAIN requests' = DOMAIN requests
    /\ \A m \in DOMAIN requests : m # n => requests'[m] = requests[m]
    /\ requests'[n].ask = requests[n].ask /\ requests'[n].stage = stage
    /\ requests'[n].status = status /\ requests'[n].result = result

Stays(n, stage) == Becomes(n, stage, requests[n].status, requests[n].result)

LEMMA RowBecomes ==
    ASSUME requests \in Seq(Requests), NEW n \in DOMAIN requests, NEW row \in Requests,
           requests' = [requests EXCEPT ![n] = row], row.ask = requests[n].ask
    PROVE  Becomes(n, row.stage, row.status, row.result)
<1>1. /\ requests \in [1..Len(requests) -> Requests] /\ Len(requests) \in Nat
      /\ DOMAIN requests = 1..Len(requests)
  BY LenProperties
<1>2. requests' \in [1..Len(requests) -> Requests]
  BY <1>1
<1>3. requests' \in Seq(Requests) /\ Len(requests') = Len(requests)
  BY <1>1, <1>2, SeqDef, LenProperties
<1>4. QED
  BY <1>1, <1>2, <1>3 DEF Becomes

LEMMA MovesToStays ==
    ASSUME RowsInv, NEW n \in DOMAIN requests, NEW stage \in Stages, MovesTo(n, stage)
    PROVE  Stays(n, stage)
<1>0. PICK zero \in 0..MaxTime : zero = 0
  BY BoundsAssumption
<1> DEFINE row == [requests[n] EXCEPT !.stage = stage, !.stamp = zero]
<1>1. requests[n] \in Requests
  BY LenProperties DEF RowsInv
<1>2. /\ row \in Requests /\ row.ask = requests[n].ask /\ row.stage = stage
      /\ row.status = requests[n].status /\ row.result = requests[n].result
  BY <1>1 DEF Requests
<1>3. requests' = [requests EXCEPT ![n] = row]
  BY <1>0 DEF MovesTo
<1> HIDE DEF row
<1>4. Becomes(n, row.stage, row.status, row.result)
  BY <1>2, <1>3, RowBecomes DEF RowsInv
<1>5. QED
  BY <1>2, <1>4 DEF Stays

LEMMA AnswersBecomes ==
    ASSUME RowsInv, NEW n \in DOMAIN requests,
           NEW status \in Statuses, NEW result \in Nat, Answers(n, status, result)
    PROVE  Becomes(n, "answered", status, result)
<1>0. PICK zero \in 0..MaxTime : zero = 0
  BY BoundsAssumption
<1> DEFINE row == [requests[n] EXCEPT !.stage = "answered", !.stamp = zero,
                                      !.status = status, !.result = result]
<1>1. requests[n] \in Requests
  BY LenProperties DEF RowsInv
<1>2. /\ row \in Requests /\ row.ask = requests[n].ask /\ row.stage = "answered"
      /\ row.status = status /\ row.result = result
  BY <1>1 DEF Requests, Stages
<1>3. requests' = [requests EXCEPT ![n] = row]
  BY <1>0 DEF Answers
<1> HIDE DEF row
<1>4. Becomes(n, row.stage, row.status, row.result)
  BY <1>2, <1>3, RowBecomes DEF RowsInv
<1>5. QED
  BY <1>2, <1>4

LEMMA ReadClockStays ==
    ASSUME RowsInv, NEW n \in DOMAIN requests, ReadClock(n)
    PROVE  Stays(n, "stamped")
<1> DEFINE row == [requests[n] EXCEPT !.stage = "stamped", !.stamp = now]
<1>1. requests[n] \in Requests /\ now \in 0..MaxTime
  BY LenProperties DEF RowsInv, Inv, TypeOK
<1>2. /\ row \in Requests /\ row.ask = requests[n].ask /\ row.stage = "stamped"
      /\ row.status = requests[n].status /\ row.result = requests[n].result
  BY <1>1 DEF Requests, Stages
<1>3. requests' = [requests EXCEPT ![n] = row]
  BY DEF ReadClock
<1> HIDE DEF row
<1>4. Becomes(n, row.stage, row.status, row.result)
  BY <1>2, <1>3, RowBecomes DEF RowsInv
<1>5. QED
  BY <1>2, <1>4 DEF Stays

\* Each step's row, with what the step tells about the request before it.
Outcome(n) ==
    \/ IssueChallenge(n) /\ Becomes(n, "answered", 200, issued') /\ requests[n].stage = "arrived"
    \/ Authenticate(n) /\ Stays(n, "ready") /\ requests[n].stage = "arrived"
    \/ /\ RefuseAuthentication(n) /\ Becomes(n, "answered", 401, 0)
       /\ requests[n].stage = "arrived"
    \/ ReadClock(n) /\ Stays(n, "stamped") /\ requests[n].stage = "ready"
    \/ /\ CountRequest(n) /\ requests[n].stage = "stamped"
       /\ Stays(n, "admitted") \/ Becomes(n, "answered", 429, 0)
    \/ PassGate(n) /\ Stays(n, "gated") /\ requests[n].stage \in {"ready", "admitted"}
    \/ /\ StopAtGate(n) /\ Becomes(n, "answered", 403, 0)
       /\ requests[n].stage \in {"ready", "admitted"}
    \/ /\ Grant(n) /\ requests[n].stage \in {"ready", "admitted", "gated"}
       /\ RowId(n) \in Nat
       /\ Becomes(n, "answered", IF Kind(n) = "read" THEN 200 ELSE 201, RowId(n))
    \/ /\ Refuse(n) /\ Stays(n, "refused")
       /\ requests[n].stage \in {"ready", "admitted", "gated"}
    \/ /\ HandleRefusal(n) /\ Becomes(n, "answered", 409, 0)
       /\ requests[n].stage = "refused"

LEMMA IssueBecomes ==
    ASSUME RowsInv, NEW n \in DOMAIN requests, IssueChallenge(n)
    PROVE  /\ Becomes(n, "answered", 200, issued') /\ requests[n].stage = "arrived"
           /\ Kind(n) = "challenge"
<1>1. issued' \in Nat /\ 200 \in Statuses
  BY DEF RowsInv, IssueChallenge, Challenge!Issue, Statuses
<1>2. Becomes(n, "answered", 200, issued')
  BY <1>1, AnswersBecomes DEF IssueChallenge
<1>3. QED
  BY <1>2 DEF IssueChallenge, At

LEMMA GrantBecomes ==
    ASSUME RowsInv, NEW n \in DOMAIN requests, Grant(n)
    PROVE  /\ requests[n].stage \in {"ready", "admitted", "gated"}
           /\ RowId(n) \in Nat /\ Kind(n) \in {"register", "hold", "confirm", "read"}
           /\ Becomes(n, "answered", IF Kind(n) = "read" THEN 200 ELSE 201, RowId(n))
<1> DEFINE status == IF Kind(n) = "read" THEN 200 ELSE 201
<1>1. RowId(n) \in Nat
  <2>1. Cardinality(SelfService) + 1 \in Nat /\ Len(holds) \in Nat /\ Len(tickets) \in Nat
    BY SelfServiceIdType, LenProperties DEF RowsInv, Inv, TypeOK
  <2>2. QED
    BY <2>1 DEF RowId
<1>2. status \in Statuses /\ Answers(n, status, RowId(n))
  BY DEF Grant, Statuses
<1> HIDE DEF status
<1>3. Becomes(n, "answered", status, RowId(n))
  BY <1>1, <1>2, AnswersBecomes
<1>4. requests[n].stage \in {"ready", "admitted", "gated"}
  BY DEF Grant, PastGate, PastLimiter, At
<1>5. QED
  BY <1>1, <1>3, <1>4 DEF status, Grant

LEMMA StepOutcome ==
    ASSUME RowsInv, NEW n \in DOMAIN requests, Step(n)
    PROVE  Outcome(n) /\ requests[n].status = Null
<1>1. CASE IssueChallenge(n)
  BY <1>1, IssueBecomes DEF Outcome, RowsInv
<1>2. CASE Authenticate(n)
  BY <1>2, MovesToStays DEF Outcome, Authenticate, At, Stages, RowsInv
<1>3. CASE RefuseAuthentication(n)
  <2>1. Becomes(n, "answered", 401, 0)
    BY <1>3, AnswersBecomes DEF RefuseAuthentication, Statuses
  <2>2. QED
    BY <1>3, <2>1 DEF Outcome, RefuseAuthentication, At, RowsInv
<1>4. CASE ReadClock(n)
  BY <1>4, ReadClockStays DEF Outcome, ReadClock, At, RowsInv
<1>5. CASE CountRequest(n)
  <2>1. MovesTo(n, "admitted") \/ Answers(n, 429, 0)
    BY <1>5 DEF CountRequest
  <2>2. Stays(n, "admitted") \/ Becomes(n, "answered", 429, 0)
    BY <2>1, MovesToStays, AnswersBecomes DEF Stages, Statuses
  <2>3. QED
    BY <1>5, <2>2 DEF Outcome, CountRequest, At, RowsInv
<1>6. CASE PassGate(n)
  BY <1>6, MovesToStays DEF Outcome, PassGate, PastLimiter, At, Stages, RowsInv
<1>7. CASE StopAtGate(n)
  <2>1. Becomes(n, "answered", 403, 0)
    BY <1>7, AnswersBecomes DEF StopAtGate, Statuses
  <2>2. QED
    BY <1>7, <2>1 DEF Outcome, StopAtGate, PastLimiter, At, RowsInv
<1>8. CASE Grant(n)
  BY <1>8, GrantBecomes DEF Outcome, RowsInv
<1>9. CASE Refuse(n)
  BY <1>9, MovesToStays DEF Outcome, Refuse, PastGate, PastLimiter, At, Stages, RowsInv
<1>10. CASE HandleRefusal(n)
  <2>1. Becomes(n, "answered", 409, 0)
    BY <1>10, AnswersBecomes DEF HandleRefusal, Statuses
  <2>2. QED
    BY <1>10, <2>1 DEF Outcome, HandleRefusal, At, RowsInv
<1>11. QED
  BY <1>1, <1>2, <1>3, <1>4, <1>5, <1>6, <1>7, <1>8, <1>9, <1>10 DEF Step

LEMMA NullIsNoStatus == Null \notin Statuses /\ Null \notin Nat
  BY PatronsAssumption DEF Statuses

\* A request that arrives is appended, and the log and the tables stay.
Arrived(a) ==
    /\ requests' \in Seq(Requests) /\ Len(requests') = Len(requests) + 1
    /\ Len(requests) \in Nat /\ Len(requests) < MaxRequests
    /\ DOMAIN requests = 1..Len(requests) /\ DOMAIN requests' = 1..(Len(requests) + 1)
    /\ \A m \in DOMAIN requests : requests'[m] = requests[m]
    /\ requests'[Len(requests) + 1] = Unanswered(a)
    /\ UNCHANGED <<vars, challenge, limiter, audit>>

LEMMA ArriveArrived ==
    ASSUME RowsInv, NEW a \in Asks, Arrive(a)
    PROVE  Arrived(a)
<1> DEFINE row == Unanswered(a)
<1>1. row \in Requests
  <2>1. PICK zero \in 0..MaxTime : zero = 0
    BY BoundsAssumption
  <2>2. row = [ask |-> a, stage |-> "arrived", stamp |-> zero, status |-> Null, result |-> 0]
    BY <2>1 DEF Unanswered
  <2>3. QED
    BY <2>2 DEF Requests, Stages
<1>2. requests' = Append(requests, row) /\ requests \in Seq(Requests)
  BY DEF Arrive, RowsInv
<1> HIDE DEF row
<1>3. /\ requests' \in Seq(Requests) /\ Len(requests') = Len(requests) + 1
      /\ \A m \in 1..Len(requests) : requests'[m] = requests[m]
      /\ requests'[Len(requests) + 1] = row
  BY <1>1, <1>2, AppendProperties
<1>4. /\ Len(requests) \in Nat /\ DOMAIN requests = 1..Len(requests)
      /\ DOMAIN requests' = 1..Len(requests')
  BY <1>2, <1>3, LenProperties
<1>5. QED
  BY <1>3, <1>4 DEF Arrived, row, Arrive

\* Nothing of the pipeline's own moves when only the clock does.
Quiet ==
    UNCHANGED <<policy, patrons, holds, flows, tickets, challenge, limiter, requests, audit>>

\* The three shapes of a step.
LEMMA StepShapes ==
    ASSUME RowsInv, [PipelineNext]_pipelineVars
    PROVE  \/ \E a \in Asks : Arrived(a)
           \/ \E n \in DOMAIN requests :
                 Step(n) /\ Outcome(n) /\ requests[n].status = Null
           \/ Quiet
<1>1. CASE \E a \in Asks : Arrive(a)
  BY <1>1, ArriveArrived
<1>2. CASE \E n \in DOMAIN requests : Step(n)
  BY <1>2, StepOutcome
<1>3. CASE ClockMoves \/ UNCHANGED pipelineVars
  BY <1>3 DEF ClockMoves, Tick, ClockStepsBack, pipelineVars, vars, db, Quiet
<1>4. QED
  BY <1>1, <1>2, <1>3 DEF PipelineNext

LEMMA RowsStep == RowsInv /\ [PipelineNext]_pipelineVars => RowsInv'
<1> SUFFICES ASSUME RowsInv, [PipelineNext]_pipelineVars PROVE RowsInv'
  OBVIOUS
<1>1. Inv'
  BY PipelineStepInv DEF RowsInv
<1>2. CASE \E a \in Asks : Arrived(a)
  <2>1. PICK a \in Asks : Arrived(a)
    BY <1>2
  <2>2. issued' \in Nat /\ MaxRequests \in Nat
    BY <2>1, PipelineAssumption DEF Arrived, challenge, RowsInv
  <2>3. \A m \in DOMAIN requests' : m \in DOMAIN requests \/ m = Len(requests) + 1
    BY <2>1 DEF Arrived
  <2>4. QED
    BY <1>1, <2>1, <2>2, <2>3 DEF Arrived, RowsInv, Unanswered
<1>3. ASSUME NEW n \in DOMAIN requests, Step(n), Outcome(n)
      PROVE  RowsInv'
  <2>1. issued' \in Nat
    BY <1>3 DEF RowsInv, Outcome, IssueChallenge, Authenticate, RefuseAuthentication, ReadClock,
                CountRequest, PassGate, StopAtGate, Grant, Refuse, HandleRefusal, challenge,
                Challenge!Issue, Challenge!Spend, Challenge!SpendRefused,
                Challenge!challengeVars
  <2>2. requests[n].status = Null => requests[n].stage # "answered"
    BY DEF RowsInv
  <2>3. requests[n].status = Null
    BY <1>3, StepOutcome
  <2>4. ASSUME NEW stage, NEW status, NEW result, Becomes(n, stage, status, result),
               stage = "answered" <=> status # Null
        PROVE  RowsInv'
    BY <1>1, <2>1, <2>4 DEF RowsInv, Becomes
  <2>5. \E stage, status, result : Becomes(n, stage, status, result)
                                     /\ (stage = "answered" <=> status # Null)
    <3>1. 200 # Null /\ 201 # Null /\ 401 # Null /\ 403 # Null /\ 409 # Null /\ 429 # Null
      BY NullIsNoStatus DEF Statuses
    <3>2. CASE \E stage \in {"ready", "stamped", "admitted", "gated", "refused"} :
                  Stays(n, stage)
      BY <2>3, <3>2 DEF Stays
    <3>3. CASE \E status \in Statuses, result \in Nat : Becomes(n, "answered", status, result)
      BY <3>1, <3>3, NullIsNoStatus
    <3>4. QED
      BY <1>3, <2>1, <3>2, <3>3 DEF Outcome, Statuses
  <2>6. QED
    BY <2>4, <2>5
<1>4. CASE Quiet
  BY <1>1, <1>4 DEF Quiet, challenge, RowsInv
<1>5. QED
  BY <1>2, <1>3, <1>4, StepShapes

LEMMA RowsInvariant == PipelineSpec => []RowsInv
<1>1. PipelineInit => RowsInv
  <2> SUFFICES ASSUME PipelineInit PROVE RowsInv
    OBVIOUS
  <2>1. Inv /\ requests = << >> /\ issued = 0
    BY InitInv DEF PipelineInit, Challenge!ChallengeInit
  <2>2. QED
    BY <2>1, PipelineAssumption DEF RowsInv
<1>2. QED
  BY <1>1, RowsStep, PTL DEF PipelineSpec

-----------------------------------------------------------------------------
(* The replies of one kind: a reply is never taken back, and a step gives at *)
(* most the one it says.                                                     *)

LEMMA AnsweredFinite ==
    ASSUME RowsInv, NEW kind, NEW s
    PROVE  IsFiniteSet(Answered(kind, s)) /\ Cardinality(Answered(kind, s)) \in 0..MaxRequests
<1>1. Len(requests) \in Nat /\ DOMAIN requests = 1..Len(requests) /\ MaxRequests \in Nat
  BY LenProperties, PipelineAssumption DEF RowsInv
<1>2. IsFiniteSet(1..Len(requests)) /\ Cardinality(1..Len(requests)) = Len(requests)
  BY <1>1, IntervalCount
<1> DEFINE S == Answered(kind, s)
<1>3. S \subseteq 1..Len(requests)
  BY <1>1 DEF Answered
<1> HIDE DEF S
<1>4. IsFiniteSet(S) /\ Cardinality(S) <= Len(requests)
  BY <1>2, <1>3, FS_Subset
<1>5. Cardinality(S) \in Nat
  BY <1>4, FS_CardinalityType
<1>6. QED
  BY <1>1, <1>4, <1>5 DEF RowsInv, S

LEMMA AnsweredMoves ==
    ASSUME RowsInv, NEW n \in DOMAIN requests, requests[n].status = Null,
           NEW stage, NEW status, NEW result, Becomes(n, stage, status, result),
           NEW kind, NEW s \in Statuses
    PROVE  /\ n \notin Answered(kind, s)
           /\ Kind(n) = kind /\ status = s
                => Answered(kind, s)' = Answered(kind, s) \cup {n}
           /\ ~(Kind(n) = kind /\ status = s) => Answered(kind, s)' = Answered(kind, s)
           /\ \A m \in Answered(kind, s) : requests'[m] = requests[m]
  BY NullIsNoStatus DEF Answered, Kind, Becomes

LEMMA AnsweredArrives ==
    ASSUME NEW a, Arrived(a), NEW kind, NEW s \in Statuses
    PROVE  /\ Answered(kind, s)' = Answered(kind, s)
           /\ \A m \in Answered(kind, s) : requests'[m] = requests[m]
<1>1. s # Null /\ requests'[Len(requests) + 1].status = Null
  BY NullIsNoStatus DEF Arrived, Unanswered
<1>2. \A m \in DOMAIN requests' : m \in DOMAIN requests \/ m = Len(requests) + 1
  BY DEF Arrived
<1>3. DOMAIN requests \subseteq DOMAIN requests'
  BY DEF Arrived
<1>4. QED
  BY <1>1, <1>2, <1>3 DEF Answered, Kind, Arrived

\* The replies that say a request was granted.
Gives(n, kind, s) ==
    /\ Kind(n) = kind
    /\ \/ IssueChallenge(n) /\ s = 200
       \/ Grant(n) /\ s = IF Kind(n) = "read" THEN 200 ELSE 201

LEMMA GrantedMoves ==
    ASSUME RowsInv, NEW n \in DOMAIN requests, Outcome(n), requests[n].status = Null,
           NEW kind, NEW s \in {200, 201}
    PROVE  /\ \A m \in Answered(kind, s) : requests'[m] = requests[m]
           /\ n \notin Answered(kind, s) /\ requests'[n].ask = requests[n].ask
           /\ ~Gives(n, kind, s) => Answered(kind, s)' = Answered(kind, s)
           /\ Gives(n, kind, s) =>
                /\ Answered(kind, s)' = Answered(kind, s) \cup {n}
                /\ requests'[n].result = IF kind = "challenge" THEN issued' ELSE RowId(n)
<1>1. s \in Statuses /\ s # Null
  BY NullIsNoStatus DEF Statuses
<1>2. ASSUME NEW stage, NEW status, NEW result, Becomes(n, stage, status, result)
      PROVE  /\ n \notin Answered(kind, s) /\ requests'[n].ask = requests[n].ask
             /\ Kind(n) = kind /\ status = s
                  => Answered(kind, s)' = Answered(kind, s) \cup {n}
             /\ ~(Kind(n) = kind /\ status = s) => Answered(kind, s)' = Answered(kind, s)
             /\ \A m \in Answered(kind, s) : requests'[m] = requests[m]
             /\ requests'[n].result = result
  BY <1>1, <1>2, AnsweredMoves DEF Becomes
<1>3. CASE IssueChallenge(n)
  <2>1. Becomes(n, "answered", 200, issued') /\ Kind(n) = "challenge"
    BY <1>3, IssueBecomes
  <2>2. Gives(n, kind, s) <=> Kind(n) = kind /\ 200 = s
    BY <1>3, <2>1, GrantBecomes DEF Gives
  <2>3. Kind(n) = kind => kind = "challenge"
    BY <2>1
  <2>4. QED
    BY <1>2, <2>1, <2>2, <2>3
<1>4. CASE Grant(n)
  <2>1. PICK status : status = IF Kind(n) = "read" THEN 200 ELSE 201
    OBVIOUS
  <2>2. Becomes(n, "answered", status, RowId(n)) /\ Kind(n) # "challenge"
    BY <1>4, <2>1, GrantBecomes
  <2>3. Gives(n, kind, s) <=> Kind(n) = kind /\ status = s
    BY <1>4, <2>1, <2>2 DEF Gives, IssueChallenge
  <2>4. Kind(n) = kind => kind # "challenge"
    BY <2>2
  <2>5. QED
    BY <1>2, <2>2, <2>3, <2>4
<1>5. CASE ~IssueChallenge(n) /\ ~Grant(n)
  <2>1. ~Gives(n, kind, s)
    BY <1>5 DEF Gives
  <2>2. PICK stage, status, result : Becomes(n, stage, status, result) /\ status # s
    <3>1. requests[n].status # s
      BY <1>1
    <3>2. QED
      BY <1>5, <3>1 DEF Outcome, Stays
  <2>3. QED
    BY <1>2, <2>1, <2>2
<1>6. QED
  BY <1>3, <1>4, <1>5

-----------------------------------------------------------------------------
(* The gate.                                                                 *)

Passed == {n \in DOMAIN requests : PassedGate(n)}

\* What OneTokenOneRequest needs to be inductive: a token a request passed
\* with was issued, and is not good any more.
GateInv ==
    /\ \A m, n \in Passed : requests[m].ask.token = requests[n].ask.token => m = n
    /\ \A n \in Passed : requests[n].ask.token \in 1..issued \ unspent
    /\ unspent \subseteq 1..issued
    /\ spent = Cardinality(Passed) /\ issued = Cardinality(unspent) + spent
    /\ {requests[n].result : n \in Answered("challenge", 200)} = 1..issued

LEMMA GateInvSuffices == GateInv => OneTokenOneRequest
  BY DEF GateInv, OneTokenOneRequest, Passed

LEMMA PolicyStays == [Next]_vars => policy' = policy
  BY DEF Next, Request, RegisterPatron, PlaceHold, ConfirmHold, ReadShow, RefuseRegistration,
         RefuseHold, RefuseConfirm, RefuseRead, Tick, ClockStepsBack, vars

LEMMA GateStepsKnown == TypeOK => GateSteps \subseteq {"register"}
  BY PipelineAssumption DEF TypeOK, GateSteps

\* A request is past the gate from PassGate on, and no other step takes one
\* there or back.
LEMMA PassedMoves ==
    ASSUME RowsInv, policy' = policy,
           NEW n \in DOMAIN requests, Outcome(n), requests[n].status = Null
    PROVE  /\ ~PassGate(n) => Passed' = Passed
           /\ PassGate(n) => Passed' = Passed \cup {n} /\ n \notin Passed
           /\ DOMAIN requests' = DOMAIN requests
           /\ \A m \in DOMAIN requests : requests'[m].ask = requests[m].ask
<1>1. GateSteps' = GateSteps /\ GateSteps \subseteq {"register"}
  BY GateStepsKnown DEF RowsInv, Inv, GateSteps
<1>2. 201 # Null /\ 409 # Null /\ Null \notin {201, 409}
  BY NullIsNoStatus DEF Statuses
<1>3. ASSUME NEW stage, NEW status, NEW result, Becomes(n, stage, status, result)
      PROVE  /\ DOMAIN requests' = DOMAIN requests
             /\ \A m \in DOMAIN requests : requests'[m].ask = requests[m].ask
             /\ \A m \in DOMAIN requests : m # n => (PassedGate(m)' <=> PassedGate(m))
             /\ PassedGate(n)' <=> Kind(n) \in GateSteps
                                    /\ (stage \in {"gated", "refused"} \/ status \in {201, 409})
  BY <1>1, <1>3 DEF Becomes, PassedGate, Kind
<1>4. PassedGate(n) <=> Kind(n) \in GateSteps /\ requests[n].stage \in {"gated", "refused"}
  BY <1>2 DEF PassedGate
<1>5. ASSUME NEW stage, NEW status, NEW result, Becomes(n, stage, status, result),
             ~PassGate(n),
             PassedGate(n) <=> Kind(n) \in GateSteps
                                    /\ (stage \in {"gated", "refused"} \/ status \in {201, 409})
      PROVE  /\ Passed' = Passed
             /\ DOMAIN requests' = DOMAIN requests
             /\ \A m \in DOMAIN requests : requests'[m].ask = requests[m].ask
  BY <1>3, <1>5 DEF Passed
<1>6. CASE PassGate(n)
  <2>1. requests[n].stage \in {"ready", "admitted"} /\ Kind(n) \in GateSteps
    BY <1>6 DEF PassGate, PastLimiter, At
  <2>2. Stays(n, "gated")
    BY <1>6, MovesToStays DEF PassGate, Stages
  <2>3. QED
    BY <1>3, <1>4, <1>6, <2>1, <2>2 DEF Passed, Stays
<1>7. CASE ~PassGate(n)
  <2>1. CASE \/ Stays(n, "ready") /\ requests[n].stage = "arrived"
             \/ Stays(n, "stamped") /\ requests[n].stage = "ready"
             \/ Stays(n, "admitted") /\ requests[n].stage = "stamped"
    BY <1>2, <1>4, <1>5, <1>7, <2>1 DEF Stays
  <2>2. CASE \/ Becomes(n, "answered", 401, 0) /\ requests[n].stage = "arrived"
             \/ Becomes(n, "answered", 429, 0) /\ requests[n].stage = "stamped"
             \/ Becomes(n, "answered", 403, 0) /\ requests[n].stage \in {"ready", "admitted"}
    BY <1>4, <1>5, <1>7, <2>2
  <2>3. CASE IssueChallenge(n) /\ Becomes(n, "answered", 200, issued')
    <3>1. Kind(n) \notin GateSteps
      BY <1>1, <2>3 DEF IssueChallenge
    <3>2. QED
      BY <1>4, <1>5, <1>7, <2>3, <3>1
  <2>4. CASE Grant(n) /\ Becomes(n, "answered", IF Kind(n) = "read" THEN 200 ELSE 201, RowId(n))
    <3>1. Kind(n) \in GateSteps => requests[n].stage = "gated" /\ Kind(n) # "read"
      BY <1>1, <2>4 DEF Grant, PastGate, At
    <3>2. PassedGate(n) <=> Kind(n) \in GateSteps
      BY <1>4, <3>1
    <3>3. PICK status : status = (IF Kind(n) = "read" THEN 200 ELSE 201)
      OBVIOUS
    <3>4. Kind(n) \in GateSteps => status = 201
      BY <3>1, <3>3
    <3>5. QED
      BY <1>5, <1>7, <2>4, <3>2, <3>3, <3>4
  <2>5. CASE Refuse(n) /\ Stays(n, "refused")
    <3>1. PassedGate(n) <=> Kind(n) \in GateSteps
      BY <1>4, <2>5 DEF Refuse, PastGate, At
    <3>2. QED
      BY <1>5, <1>7, <2>5, <3>1 DEF Stays
  <2>6. CASE HandleRefusal(n) /\ Becomes(n, "answered", 409, 0) /\ requests[n].stage = "refused"
    BY <1>4, <1>5, <1>7, <2>6
  <2>7. QED
    BY <1>7, <2>1, <2>2, <2>3, <2>4, <2>5, <2>6 DEF Outcome
<1>8. QED
  BY <1>6, <1>7

LEMMA PassedFinite ==
    ASSUME RowsInv
    PROVE  IsFiniteSet(Passed) /\ Cardinality(Passed) \in 0..MaxRequests
<1>1. Len(requests) \in Nat /\ DOMAIN requests = 1..Len(requests) /\ MaxRequests \in Nat
  BY LenProperties, PipelineAssumption DEF RowsInv
<1>2. IsFiniteSet(1..Len(requests)) /\ Cardinality(1..Len(requests)) = Len(requests)
  BY <1>1, IntervalCount
<1>3. Passed \subseteq 1..Len(requests)
  BY <1>1 DEF Passed
<1>4. IsFiniteSet(Passed) /\ Cardinality(Passed) <= Len(requests)
  BY <1>2, <1>3, FS_Subset
<1>5. Cardinality(Passed) \in Nat
  BY <1>4, FS_CardinalityType
<1>6. QED
  BY <1>1, <1>4, <1>5 DEF RowsInv

LEMMA ChallengeMoves ==
    ASSUME NEW n \in DOMAIN requests, Step(n)
    PROVE  /\ IssueChallenge(n) =>
                 /\ unspent' = unspent \cup {issued + 1} /\ issued' = issued + 1
                 /\ spent' = spent
           /\ PassGate(n) =>
                 /\ requests[n].ask.token \in unspent
                 /\ unspent' = unspent \ {requests[n].ask.token}
                 /\ spent' = spent + 1 /\ issued' = issued
           /\ ~IssueChallenge(n) /\ ~PassGate(n) =>
                 unspent' = unspent /\ issued' = issued /\ spent' = spent
  BY DEF Step, IssueChallenge, Authenticate, RefuseAuthentication, ReadClock, CountRequest,
         PassGate, StopAtGate, Grant, Refuse, HandleRefusal, challenge, Challenge!Issue,
         Challenge!NextToken, Challenge!Spend, Challenge!UnspentAfter, Challenge!SpendRefused,
         Challenge!challengeVars

LEMMA TokensFinite ==
    ASSUME RowsInv, GateInv
    PROVE  /\ issued \in Nat /\ spent \in Nat /\ IsFiniteSet(unspent)
           /\ Cardinality(unspent) \in Nat /\ issued + 1 \notin unspent
<1>1. issued \in Nat /\ spent \in Nat
  BY PassedFinite DEF RowsInv, GateInv
<1>2. IsFiniteSet(1..issued) /\ unspent \subseteq 1..issued
  BY <1>1, IntervalCount DEF GateInv
<1>3. IsFiniteSet(unspent)
  BY <1>2, FS_Subset
<1>4. QED
  BY <1>1, <1>2, <1>3, FS_CardinalityType

\* One token more, good; or one good token fewer, and one request past the gate.
LEMMA GateStep ==
    ASSUME RowsInv, GateInv, policy' = policy, NEW n \in DOMAIN requests,
           Step(n), Outcome(n), requests[n].status = Null
    PROVE  GateInv'
<1> DEFINE R == Answered("challenge", 200)
<1>1. /\ \A m \in DOMAIN requests : requests'[m].ask = requests[m].ask
      /\ Passed \subseteq DOMAIN requests /\ DOMAIN requests' = DOMAIN requests
      /\ R \subseteq DOMAIN requests
  BY PassedMoves DEF Passed, Answered
<1>2. /\ issued \in Nat /\ spent \in Nat /\ IsFiniteSet(unspent)
      /\ Cardinality(unspent) \in Nat /\ issued + 1 \notin unspent
  BY TokensFinite
<1>3. CASE IssueChallenge(n)
  <2>1. ~PassGate(n)
    BY <1>3, GateStepsKnown DEF IssueChallenge, PassGate, RowsInv, Inv
  <2>2. /\ Passed' = Passed /\ unspent' = unspent \cup {issued + 1}
        /\ issued' = issued + 1 /\ spent' = spent
    BY <1>3, <2>1, PassedMoves, ChallengeMoves
  <2>3. Cardinality(unspent') = Cardinality(unspent) + 1
    BY <1>2, <2>2, FS_AddElement
  <2>4. 1..issued' = (1..issued) \cup {issued + 1}
    BY <1>2, <2>2
  <2>5. /\ R' = R \cup {n} /\ \A m \in R : requests'[m] = requests[m]
        /\ requests'[n].result = issued + 1
    <3>1. Gives(n, "challenge", 200)
      BY <1>3 DEF Gives, IssueChallenge
    <3>2. QED
      BY <2>2, <3>1, GrantedMoves
  <2>6. {requests'[m].result : m \in R'} = {requests[m].result : m \in R} \cup {issued + 1}
    BY <2>5
  <2>7. {requests'[m].result : m \in R'} = 1..issued'
    BY <2>4, <2>6 DEF GateInv
  <2>8. \A m \in Passed : requests'[m].ask.token = requests[m].ask.token
    BY <1>1
  <2>9. issued' = Cardinality(unspent') + spent'
    BY <1>2, <2>2, <2>3 DEF GateInv
  <2>10. \A m \in Passed' : requests'[m].ask.token \in 1..issued' \ unspent'
    BY <1>2, <2>2, <2>4, <2>8 DEF GateInv
  <2>11. unspent' \subseteq 1..issued'
    BY <2>2, <2>4 DEF GateInv
  <2>12. QED
    BY <2>2, <2>7, <2>8, <2>9, <2>10, <2>11 DEF GateInv
<1>4. CASE ~IssueChallenge(n)
  <2>1. issued' = issued
    BY <1>4, ChallengeMoves
  <2>2. {requests'[m].result : m \in R'} = 1..issued'
    <3>1. ~Gives(n, "challenge", 200)
      BY <1>4, GrantBecomes DEF Gives
    <3>2. R' = R /\ \A m \in R : requests'[m] = requests[m]
      BY <3>1, GrantedMoves
    <3>3. {requests'[m].result : m \in R'} = {requests[m].result : m \in R}
      BY <3>2
    <3>4. QED
      BY <2>1, <3>3 DEF GateInv
  <2>3. CASE PassGate(n)
    <3> DEFINE token == requests[n].ask.token
    <3>1. /\ token \in unspent /\ unspent' = unspent \ {token} /\ spent' = spent + 1
      BY <2>3, ChallengeMoves
    <3>2. Passed' = Passed \cup {n} /\ n \notin Passed
      BY <2>3, PassedMoves
    <3>3. Cardinality(unspent') = Cardinality(unspent) - 1
      BY <1>2, <3>1, FS_RemoveElement
    <3>4. Cardinality(Passed') = Cardinality(Passed) + 1
      BY <3>2, PassedFinite, FS_AddElement
    <3>5. \A m \in Passed : requests'[m].ask.token = requests[m].ask.token
      BY <1>1
    <3>6. requests'[n].ask.token = token
      BY <1>1
    <3>7. \A m \in Passed : requests[m].ask.token \in 1..issued \ unspent
      BY DEF GateInv
    <3>8. token \in 1..issued
      BY <3>1 DEF GateInv
    <3>9. \A m, k \in Passed' : requests'[m].ask.token = requests'[k].ask.token => m = k
      <4>1. \A m \in Passed : requests[m].ask.token # token
        BY <3>1, <3>7
      <4> HIDE DEF token
      <4>2. QED
        BY <3>2, <3>5, <3>6, <4>1 DEF GateInv
    <3>10. \A m \in Passed' : requests'[m].ask.token \in 1..issued' \ unspent'
      BY <2>1, <3>1, <3>2, <3>5, <3>6, <3>7, <3>8
    <3>11. unspent' \subseteq 1..issued'
      BY <2>1, <3>1 DEF GateInv
    <3>12. spent' = Cardinality(Passed') /\ issued' = Cardinality(unspent') + spent'
      BY <1>2, <2>1, <3>1, <3>3, <3>4 DEF GateInv
    <3>13. QED
      BY <2>2, <3>9, <3>10, <3>11, <3>12 DEF GateInv
  <2>4. CASE ~PassGate(n)
    <3>1. Passed' = Passed /\ unspent' = unspent /\ spent' = spent
      BY <1>4, <2>4, PassedMoves, ChallengeMoves
    <3>2. \A m \in Passed : requests'[m].ask.token = requests[m].ask.token
      BY <1>1
    <3>3. QED
      BY <2>1, <2>2, <3>1, <3>2 DEF GateInv
  <2>5. QED
    BY <2>3, <2>4
<1>5. QED
  BY <1>3, <1>4

LEMMA GateInvariant == PipelineSpec => []GateInv
<1>1. PipelineInit => GateInv
  <2> SUFFICES ASSUME PipelineInit PROVE GateInv
    OBVIOUS
  <2>1. requests = << >> /\ unspent = {} /\ issued = 0 /\ spent = 0
    BY DEF PipelineInit, Challenge!ChallengeInit
  <2>2. Passed = {} /\ Answered("challenge", 200) = {}
    BY <2>1 DEF Passed, Answered
  <2>3. Cardinality({}) = 0
    BY FS_EmptySet
  <2>4. 1..issued = {}
    BY <2>1
  <2>5. QED
    BY <2>1, <2>2, <2>3, <2>4 DEF GateInv
<1>2. RowsInv /\ GateInv /\ [PipelineNext]_pipelineVars => GateInv'
  <2> SUFFICES ASSUME RowsInv, GateInv, [PipelineNext]_pipelineVars
               PROVE  GateInv'
    OBVIOUS
  <2>1. policy' = policy
    BY PipelineStepInv, PolicyStays DEF RowsInv
  <2>2. ASSUME NEW a \in Asks, Arrived(a) PROVE GateInv'
    <3>1. unspent' = unspent /\ issued' = issued /\ spent' = spent
      BY <2>2 DEF Arrived, challenge
    <3>2. Passed' = Passed /\ \A m \in Passed : requests'[m] = requests[m]
      <4>1. Null \notin {201, 409}
        BY NullIsNoStatus DEF Statuses
      <4>2. \A m \in DOMAIN requests' :
               \/ m \in DOMAIN requests /\ requests'[m] = requests[m]
               \/ requests'[m].stage = "arrived" /\ requests'[m].status = Null
        BY <2>2 DEF Arrived, Unanswered
      <4>3. \A m \in DOMAIN requests : m \in DOMAIN requests' /\ requests'[m] = requests[m]
        BY <2>2 DEF Arrived
      <4>4. GateSteps' = GateSteps
        BY <2>1 DEF GateSteps
      <4>5. QED
        BY <4>1, <4>2, <4>3, <4>4 DEF Passed, PassedGate, Kind
    <3>3. /\ Answered("challenge", 200)' = Answered("challenge", 200)
          /\ \A m \in Answered("challenge", 200) : requests'[m] = requests[m]
      BY <2>2, AnsweredArrives DEF Statuses
    <3>4. {requests'[m].result : m \in Answered("challenge", 200)'}
            = {requests[m].result : m \in Answered("challenge", 200)}
      BY <3>3
    <3>5. QED
      BY <3>1, <3>2, <3>4 DEF GateInv
  <2>3. CASE Quiet
    <3>1. Passed' = Passed /\ Answered("challenge", 200)' = Answered("challenge", 200)
      BY <2>3 DEF Quiet, Passed, PassedGate, Kind, GateSteps, Answered
    <3>2. QED
      BY <2>3, <3>1 DEF Quiet, challenge, GateInv
  <2>4. QED
    BY <2>1, <2>2, <2>3, GateStep, StepShapes
<1>3. QED
  BY <1>1, <1>2, RowsInvariant, PTL DEF PipelineSpec

\* One challenge passed means one challenge passed: however requests race for
\* a token, one of them at most gets past the gate with it, and the counters
\* of verification.py account for every token ever issued.
THEOREM OneTokenPassesOnce == PipelineSpec => []OneTokenOneRequest
  BY GateInvariant, GateInvSuffices, PTL

-----------------------------------------------------------------------------
(* The log.                                                                  *)

LoggedSteps == {"register", "hold", "confirm"}

\* What OneEventPerRefusal needs to be inductive: no event names a request
\* still to come, and what may be refused is a booking request.
AuditInv ==
    /\ OneEventPerRefusal
    /\ audit \in Seq([request : 1..MaxRequests, step : LoggedSteps])
    /\ \A i \in DOMAIN audit : audit[i].request \in DOMAIN requests
    /\ \A n \in DOMAIN requests :
          requests[n].stage \notin {"arrived", "answered"} => Kind(n) # "challenge"

Events(n) == {i \in DOMAIN audit : audit[i].request = n}

LEMMA AuditMoves ==
    ASSUME NEW n \in DOMAIN requests, Step(n), ~HandleRefusal(n)
    PROVE  audit' = audit
  BY DEF Step, IssueChallenge, Authenticate, RefuseAuthentication, ReadClock, CountRequest,
         PassGate, StopAtGate, Grant, Refuse

\* Any other step leaves its request without a refusal, and booking.
LEMMA UnloggedMoves ==
    ASSUME RowsInv, AuditInv, NEW n \in DOMAIN requests, Outcome(n), ~HandleRefusal(n),
           requests[n].status = Null
    PROVE  /\ DOMAIN requests' = DOMAIN requests
           /\ \A m \in DOMAIN requests : m # n => requests'[m] = requests[m]
           /\ requests'[n].ask = requests[n].ask /\ requests'[n].status # 409
           /\ requests'[n].stage \notin {"arrived", "answered"} => Kind(n) # "challenge"
<1>1. requests[n].stage \notin {"arrived", "answered"} => Kind(n) # "challenge"
  BY DEF AuditInv
<1>2. Null # 409
  BY NullIsNoStatus DEF Statuses
<1>3. CASE Authenticate(n) /\ Stays(n, "ready")
  BY <1>2, <1>3 DEF Authenticate, Stays, Becomes
<1>4. CASE \E stage : Stays(n, stage) /\ requests[n].stage \notin {"arrived", "answered"}
  BY <1>1, <1>2, <1>4 DEF Stays, Becomes
<1>5. CASE \E status, result : Becomes(n, "answered", status, result) /\ status # 409
  BY <1>5 DEF Becomes
<1>6. QED
  <2>1. CASE Grant(n) /\ Becomes(n, "answered", IF Kind(n) = "read" THEN 200 ELSE 201, RowId(n))
    <3>1. (IF Kind(n) = "read" THEN 200 ELSE 201) # 409
      OBVIOUS
    <3>2. QED
      BY <1>5, <2>1, <3>1
  <2>2. QED
    BY <1>3, <1>4, <1>5, <2>1 DEF Outcome

\* The event is the request's first, under its own id and step.
LEMMA RefusalLogged ==
    ASSUME RowsInv, AuditInv, NEW n \in DOMAIN requests, HandleRefusal(n),
           requests[n].status = Null
    PROVE  AuditInv'
<1> DEFINE event == [request |-> n, step |-> RefusedStep(n)]
           Events_ == [request : 1..MaxRequests, step : LoggedSteps]
<1>1. requests[n].stage = "refused" /\ Kind(n) # "challenge"
  BY DEF HandleRefusal, At, AuditInv
<1>2. Kind(n) \in {"register", "hold", "confirm", "read"}
  <2>1. requests[n] \in Requests
    BY LenProperties DEF RowsInv
  <2>2. requests[n].ask \in Asks
    BY <2>1 DEF Requests
  <2>3. QED
    BY <1>1, <2>2 DEF Asks, Kind
<1>3. DOMAIN requests = 1..Len(requests) /\ DOMAIN requests \subseteq 1..MaxRequests
  BY LenProperties, PipelineAssumption DEF RowsInv
<1>4. event \in Events_
  BY <1>2, <1>3 DEF RefusedStep, LoggedSteps
<1>5. audit' = Append(audit, event)
  BY DEF HandleRefusal, CurrentRequestId
<1>6. audit \in Seq(Events_)
  BY DEF AuditInv
<1>7. Becomes(n, "answered", 409, 0)
  BY AnswersBecomes DEF HandleRefusal, Statuses
<1> HIDE DEF event, Events_
<1>8. /\ audit' \in Seq(Events_) /\ Len(audit) \in Nat
      /\ DOMAIN audit = 1..Len(audit) /\ DOMAIN audit' = 1..(Len(audit) + 1)
      /\ \A i \in DOMAIN audit : audit'[i] = audit[i]
      /\ audit'[Len(audit) + 1] = event
  BY <1>4, <1>5, <1>6, AppendProperties, LenProperties
<1>9. /\ DOMAIN audit' = DOMAIN audit \cup {Len(audit) + 1}
      /\ Len(audit) + 1 \notin DOMAIN audit
  BY <1>8
<1>10. DOMAIN requests' = DOMAIN requests
  BY <1>7 DEF Becomes
<1>11. \A m \in DOMAIN requests : RefusedStep(m)' = RefusedStep(m)
  BY <1>7 DEF Becomes, RefusedStep, Kind
<1>12. \A m \in DOMAIN requests : m # n => requests'[m] = requests[m]
  BY <1>7 DEF Becomes
<1>13. event.request = n /\ event.step = RefusedStep(n)
  BY DEF event
<1>14. ASSUME NEW m \in DOMAIN requests'
       PROVE  Cardinality(Events(m)') = IF requests'[m].status = 409 THEN 1 ELSE 0
  <2>1. m \in DOMAIN requests
    BY <1>10
  <2>2. Cardinality(Events(m)) = IF requests[m].status = 409 THEN 1 ELSE 0
    BY <2>1 DEF AuditInv, OneEventPerRefusal, Events
  <2>3. IsFiniteSet(Events(m))
    <3>1. IsFiniteSet(1..Len(audit)) /\ Events(m) \subseteq 1..Len(audit)
      BY <1>8, IntervalCount DEF Events
    <3>2. QED
      BY <3>1, FS_Subset
  <2>4. CASE m = n
    <3>1. Events(m)' = Events(m) \cup {Len(audit) + 1} /\ Len(audit) + 1 \notin Events(m)
      BY <1>8, <1>9, <1>13, <2>4 DEF Events
    <3>2. Cardinality(Events(m)) = 0
      BY <2>2, <2>4, NullIsNoStatus DEF Statuses
    <3>3. requests'[m].status = 409
      BY <1>7, <2>4 DEF Becomes
    <3>4. Cardinality(Events(m)') = Cardinality(Events(m)) + 1
      BY <2>3, <3>1, FS_AddElement
    <3>5. QED
      BY <3>2, <3>3, <3>4
  <2>5. CASE m # n
    <3>1. Events(m)' = Events(m)
      BY <1>8, <1>9, <1>13, <2>5 DEF Events
    <3>2. QED
      BY <1>12, <2>1, <2>2, <2>5, <3>1
  <2>6. QED
    BY <2>4, <2>5
<1>15. ASSUME NEW i \in DOMAIN audit'
       PROVE  \E m \in DOMAIN requests :
                 audit'[i].request = m /\ audit'[i].step = RefusedStep(m)
  <2>1. CASE i \in DOMAIN audit
    <3>1. /\ audit[i].request \in DOMAIN requests
          /\ audit[i].step = RefusedStep(audit[i].request)
      BY <2>1 DEF AuditInv, OneEventPerRefusal
    <3>2. QED
      BY <1>8, <2>1, <3>1
  <2>2. CASE i = Len(audit) + 1
    BY <1>8, <1>13, <2>2
  <2>3. QED
    BY <1>9, <2>1, <2>2
<1>16. OneEventPerRefusal'
  <2>1. \A m \in DOMAIN requests : requests'[m].ask = requests[m].ask
    BY <1>7 DEF Becomes
  <2>2. QED
    BY <1>14, <1>15, <2>1 DEF OneEventPerRefusal, Events, RefusedStep, Kind
<1>17. \A m \in DOMAIN requests' :
          requests'[m].stage \notin {"arrived", "answered"} => Kind(m)' # "challenge"
  BY <1>7, <1>10, <1>12 DEF Becomes, AuditInv, Kind
<1>18. QED
  BY <1>8, <1>10, <1>15, <1>16, <1>17 DEF AuditInv, Events_

LEMMA AuditInvariant == PipelineSpec => []AuditInv
<1>1. PipelineInit => AuditInv
  BY DEF PipelineInit, AuditInv, OneEventPerRefusal
<1>2. RowsInv /\ AuditInv /\ [PipelineNext]_pipelineVars => AuditInv'
  <2> SUFFICES ASSUME RowsInv, AuditInv, [PipelineNext]_pipelineVars
               PROVE  AuditInv'
    OBVIOUS
  <2>1. ASSUME NEW a \in Asks, Arrived(a) PROVE AuditInv'
    <3> DEFINE new == Len(requests) + 1
    <3>1. /\ audit' = audit /\ DOMAIN requests' = DOMAIN requests \cup {new}
          /\ new \notin DOMAIN requests
          /\ \A m \in DOMAIN requests : requests'[m] = requests[m]
          /\ requests'[new].stage = "arrived" /\ requests'[new].status = Null
      BY <2>1 DEF Arrived, Unanswered
    <3> HIDE DEF new
    <3>2. Events(new) = {}
      BY <3>1 DEF AuditInv, Events
    <3>3. Cardinality({}) = 0 /\ Null # 409
      BY FS_EmptySet, NullIsNoStatus DEF Statuses
    <3>4. \A m \in DOMAIN requests' :
             Cardinality(Events(m)) = IF requests'[m].status = 409 THEN 1 ELSE 0
      <4>1. \A m \in DOMAIN requests :
               Cardinality(Events(m)) = IF requests[m].status = 409 THEN 1 ELSE 0
        BY DEF OneEventPerRefusal, AuditInv, Events
      <4>2. Cardinality(Events(new)) = 0 /\ requests'[new].status # 409
        BY <3>1, <3>2, <3>3
      <4>3. QED
        BY <3>1, <4>1, <4>2
    <3>5. \A i \in DOMAIN audit : \E m \in DOMAIN requests :
             audit[i].request = m /\ audit[i].step = RefusedStep(m)
      BY DEF AuditInv, OneEventPerRefusal
    <3>6. OneEventPerRefusal'
      BY <3>1, <3>4, <3>5 DEF OneEventPerRefusal, Events, RefusedStep, Kind
    <3>7. QED
      BY <3>1, <3>6 DEF AuditInv, Kind
  <2>2. ASSUME NEW n \in DOMAIN requests, Step(n), Outcome(n), requests[n].status = Null
        PROVE  AuditInv'
    <3>1. CASE HandleRefusal(n)
      BY <2>2, <3>1, RefusalLogged
    <3>2. CASE ~HandleRefusal(n)
      <4>1. /\ audit' = audit /\ DOMAIN requests' = DOMAIN requests
            /\ \A m \in DOMAIN requests : m # n => requests'[m] = requests[m]
            /\ requests'[n].ask = requests[n].ask /\ requests'[n].status # 409
            /\ requests'[n].stage \notin {"arrived", "answered"} => Kind(n) # "challenge"
        BY <2>2, <3>2, AuditMoves, UnloggedMoves
      <4>2. \A m \in DOMAIN requests : RefusedStep(m)' = RefusedStep(m) /\ Kind(m)' = Kind(m)
        BY <4>1 DEF RefusedStep, Kind
      <4>3. \A m \in DOMAIN requests : requests'[m].status = 409 <=> requests[m].status = 409
        BY <2>2, <4>1, NullIsNoStatus DEF Statuses
      <4>4. OneEventPerRefusal'
        BY <4>1, <4>2, <4>3 DEF OneEventPerRefusal, AuditInv
      <4>5. QED
        BY <4>1, <4>2, <4>4 DEF AuditInv
    <3>3. QED
      BY <3>1, <3>2
  <2>3. CASE Quiet
    BY <2>3 DEF Quiet, AuditInv, OneEventPerRefusal, RefusedStep, Kind
  <2>4. QED
    BY <2>1, <2>2, <2>3, StepShapes
<1>3. QED
  BY <1>1, <1>2, RowsInvariant, PTL DEF PipelineSpec

\* Whatever requests overlap a refusal, it is logged once, under the id the
\* middleware gave the request that was refused (handle_refusal of app.py).
THEOREM EachRefusalLoggedOnce == PipelineSpec => []OneEventPerRefusal
  BY AuditInvariant, PTL DEF AuditInv

-----------------------------------------------------------------------------
(* The replies and the rows they announce.                                   *)

\* As many replies of a kind as rows, and each row announced by one of them.
Replies(kind, count) ==
    /\ {requests[n].result : n \in Answered(kind, 201)} = 1..count
    /\ Cardinality(Answered(kind, 201)) = count

HoldReplies ==
    /\ Replies("hold", Len(holds))
    /\ \A n \in Answered("hold", 201) : holds[requests[n].result].patron = Patron(n)
TicketReplies ==
    /\ Replies("confirm", Len(tickets))
    /\ \A n \in Answered("confirm", 201) :
          LET t == tickets[requests[n].result] IN t.patron = Patron(n) /\ t.hold = Target(n)

\* The ids of self-service patrons are given out in order, whatever the policy;
\* that is what makes the count of them a new id.
PatronReplies ==
    /\ SelfService = 1..Cardinality(SelfService)
    /\ Replies("register", Cardinality(SelfService))

RepliesInv == HoldReplies /\ TicketReplies /\ PatronReplies

LEMMA RepliesInvSuffices == RowsInv /\ RepliesInv => RepliesMatchRows
<1> SUFFICES ASSUME RowsInv, RepliesInv PROVE RepliesMatchRows
  OBVIOUS
<1>1. DOMAIN holds = 1..Len(holds) /\ DOMAIN tickets = 1..Len(tickets)
  BY LenProperties DEF RowsInv, Inv, TypeOK
<1>2. QED
  BY <1>1 DEF RepliesInv, HoldReplies, TicketReplies, PatronReplies, Replies, RepliesMatchRows

SameReplies(kind) ==
    /\ Answered(kind, 201)' = Answered(kind, 201)
    /\ \A m \in Answered(kind, 201) : requests'[m] = requests[m]

LEMMA RepliesSame ==
    ASSUME NEW kind, SameReplies(kind), NEW count, Replies(kind, count)
    PROVE  Replies(kind, count)'
<1>1. {requests'[m].result : m \in Answered(kind, 201)'}
        = {requests[m].result : m \in Answered(kind, 201)}
  BY DEF SameReplies
<1>2. QED
  BY <1>1 DEF Replies, SameReplies

LEMMA RepliesGrow ==
    ASSUME RowsInv, NEW n \in DOMAIN requests, Outcome(n), requests[n].status = Null,
           NEW kind \in {"register", "hold", "confirm"}, Grant(n), Kind(n) = kind,
           NEW count \in Nat, Replies(kind, count), RowId(n) = count + 1
    PROVE  /\ Replies(kind, count + 1)' /\ requests'[n].result = count + 1
           /\ Answered(kind, 201)' = Answered(kind, 201) \cup {n}
           /\ \A m \in Answered(kind, 201) : requests'[m] = requests[m]
           /\ requests'[n].ask = requests[n].ask
<1> DEFINE A == Answered(kind, 201)
<1>1. Gives(n, kind, 201)
  BY DEF Gives
<1>2. /\ A' = A \cup {n} /\ n \notin A /\ requests'[n].result = count + 1
      /\ \A m \in A : requests'[m] = requests[m]
      /\ requests'[n].ask = requests[n].ask
  BY <1>1, GrantedMoves
<1>3. {requests'[m].result : m \in A'} = {requests[m].result : m \in A} \cup {count + 1}
  BY <1>2
<1>4. 1..(count + 1) = (1..count) \cup {count + 1}
  OBVIOUS
<1>5. Cardinality(A') = Cardinality(A) + 1
  BY <1>2, AnsweredFinite, FS_AddElement
<1>6. QED
  BY <1>2, <1>3, <1>4, <1>5 DEF Replies

LEMMA OtherReplies ==
    ASSUME RowsInv, NEW n \in DOMAIN requests, Outcome(n), requests[n].status = Null,
           NEW kind, ~(Grant(n) /\ Kind(n) = kind)
    PROVE  SameReplies(kind)
<1>1. ~Gives(n, kind, 201)
  BY DEF Gives
<1>2. QED
  BY <1>1, GrantedMoves DEF SameReplies

LEMMA SameInterval ==
    ASSUME NEW m \in Nat, NEW n \in Nat, 1..m = 1..n
    PROVE  m = n
<1>1. Cardinality(1..m) = m /\ Cardinality(1..n) = n
  BY IntervalCount
<1>2. QED
  BY <1>1

LEMMA HoldRepliesKept ==
    ASSUME RowsInv, HoldReplies, SameReplies("hold"), Len(holds') = Len(holds),
           \A h \in 1..Len(holds) : holds'[h].patron = holds[h].patron
    PROVE  HoldReplies'
<1>1. PICK count : count = Len(holds)
  OBVIOUS
<1>2. Replies("hold", count)'
  BY <1>1, RepliesSame DEF HoldReplies
<1>3. Replies("hold", Len(holds))'
  BY <1>1, <1>2 DEF Replies
<1>4. \A n \in Answered("hold", 201) : requests[n].result \in 1..Len(holds)
  BY DEF HoldReplies, Replies
<1>5. QED
  BY <1>3, <1>4 DEF HoldReplies, SameReplies, Patron

LEMMA TicketRepliesKept ==
    ASSUME TicketReplies, SameReplies("confirm"), tickets' = tickets
    PROVE  TicketReplies'
<1>1. PICK count : count = Len(tickets)
  OBVIOUS
<1>2. Replies("confirm", count)'
  BY <1>1, RepliesSame DEF TicketReplies
<1>3. Replies("confirm", Len(tickets))'
  BY <1>1, <1>2 DEF Replies
<1>4. QED
  BY <1>3 DEF TicketReplies, SameReplies, Patron, Target

LEMMA PatronRepliesKept ==
    ASSUME PatronReplies, SameReplies("register"), patrons' = patrons
    PROVE  PatronReplies'
<1>1. PICK count : count = Cardinality(SelfService)
  OBVIOUS
<1>2. Replies("register", count)'
  BY <1>1, RepliesSame DEF PatronReplies
<1>3. SelfService' = SelfService
  BY DEF SelfService
<1>4. Replies("register", Cardinality(SelfService))'
  BY <1>1, <1>2, <1>3 DEF Replies
<1>5. QED
  BY <1>3, <1>4 DEF PatronReplies

\* place_hold: the reply carries the row it inserted, which is the caller's.
LEMMA HoldGranted ==
    ASSUME RowsInv, HoldReplies, NEW n \in DOMAIN requests, Outcome(n),
           requests[n].status = Null, Grant(n), Kind(n) = "hold"
    PROVE  HoldReplies' /\ UNCHANGED <<patrons, tickets>>
<1>1. PICK p \in patrons : p = Patron(n)
  <2>1. requests[n].stage \notin {"arrived", "answered"}
    BY GrantBecomes
  <2>2. QED
    BY <2>1, PastAuthentication DEF RowsInv, Booked, Kind, Patron
<1>2. PICK show : show = Target(n)
  OBVIOUS
<1>3. PlaceHold(p, show)
  BY <1>1, <1>2 DEF Grant
<1>4. PlacedRows(p) /\ UNCHANGED <<patrons, tickets>>
  BY <1>3, PlaceHoldRows DEF RowsInv, Inv, PlaceHold
<1>5. PICK count \in Nat : count = Len(holds)
  BY <1>4 DEF PlacedRows
<1>6. Len(holds') = count + 1
  <2>1. TypeOK'
    BY <1>3, PlaceHoldType DEF RowsInv, Inv
  <2>2. DOMAIN holds' = 1..Len(holds') /\ Len(holds') \in Nat
    BY <2>1, LenProperties DEF TypeOK
  <2>3. 1..Len(holds') = 1..(count + 1)
    BY <1>4, <1>5, <2>2 DEF PlacedRows
  <2>4. count + 1 \in Nat
    BY <1>5
  <2>5. QED
    BY <2>2, <2>3, <2>4, SameInterval
<1>7. /\ Replies("hold", count + 1)' /\ requests'[n].result = count + 1
      /\ Answered("hold", 201)' = Answered("hold", 201) \cup {n}
      /\ \A m \in Answered("hold", 201) : requests'[m] = requests[m]
      /\ requests'[n].ask = requests[n].ask
  <2>1. RowId(n) = count + 1
    BY <1>5 DEF RowId
  <2>2. QED
    BY <1>5, <2>1, RepliesGrow DEF HoldReplies
<1>8. Replies("hold", Len(holds))'
  BY <1>6, <1>7 DEF Replies
<1>9. \A h \in 1..count : holds'[h].patron = holds[h].patron
  BY <1>4, <1>5, LapsedRows DEF PlacedRows, LapseKeepsRows, RowsInv, Inv, TypeOK
<1>10. holds'[count + 1].patron = p
  BY <1>4, <1>5 DEF PlacedRows, HoldRow
<1>11. \A m \in Answered("hold", 201) :
          requests[m].result \in 1..count /\ holds[requests[m].result].patron = Patron(m)
  BY <1>5 DEF HoldReplies, Replies
<1>12. \A m \in Answered("hold", 201)' : holds'[requests'[m].result].patron = requests'[m].ask.credential
  BY <1>1, <1>7, <1>9, <1>10, <1>11 DEF Patron
<1>13. QED
  BY <1>4, <1>8, <1>12 DEF HoldReplies, Patron

\* confirm_hold: the reply carries the ticket, which is the caller's for the
\* hold it named.
LEMMA TicketGranted ==
    ASSUME RowsInv, RepliesInv, NEW n \in DOMAIN requests, Outcome(n),
           requests[n].status = Null, Grant(n), Kind(n) = "confirm"
    PROVE  /\ TicketReplies' /\ patrons' = patrons /\ Len(holds') = Len(holds)
           /\ \A h \in 1..Len(holds) : holds'[h].patron = holds[h].patron
<1>1. PICK p \in patrons : p = Patron(n)
  <2>1. requests[n].stage \notin {"arrived", "answered"}
    BY GrantBecomes
  <2>2. QED
    BY <2>1, PastAuthentication DEF RowsInv, Booked, Kind, Patron
<1>2. PICK h : h = Target(n)
  OBVIOUS
<1>3. ConfirmHold(p, h)
  BY <1>1, <1>2 DEF Grant
<1>4. ConfirmedRows(p, h) /\ patrons' = patrons
  BY <1>3, ConfirmHoldRows DEF RowsInv, Inv, ConfirmHold
<1>5. PICK count \in Nat : count = Len(tickets)
  BY <1>4 DEF ConfirmedRows
<1>6. /\ DOMAIN holds = 1..Len(holds) /\ DOMAIN holds' = 1..Len(holds')
      /\ DOMAIN tickets' = 1..Len(tickets') /\ Len(tickets') \in Nat
      /\ Len(holds) \in Nat /\ Len(holds') \in Nat
  <2>1. TypeOK'
    BY <1>3, ConfirmHoldType DEF RowsInv, Inv
  <2>2. QED
    BY <2>1, LenProperties DEF TypeOK, RowsInv, Inv
<1>7. Len(tickets') = count + 1
  <2>1. 1..Len(tickets') = 1..(count + 1)
    BY <1>4, <1>5, <1>6 DEF ConfirmedRows
  <2>2. count + 1 \in Nat
    BY <1>5
  <2>3. QED
    BY <1>6, <2>1, <2>2, SameInterval
<1>8. Len(holds') = Len(holds) /\ \A k \in 1..Len(holds) : holds'[k].patron = holds[k].patron
  <2>1. 1..Len(holds') = 1..Len(holds)
    BY <1>4, <1>6 DEF ConfirmedRows
  <2>2. Len(holds') = Len(holds)
    BY <1>6, <2>1, SameInterval
  <2>3. QED
    BY <1>4, <1>6, <2>2 DEF ConfirmedRows
<1>9. /\ Replies("confirm", count + 1)' /\ requests'[n].result = count + 1
      /\ Answered("confirm", 201)' = Answered("confirm", 201) \cup {n}
      /\ \A m \in Answered("confirm", 201) : requests'[m] = requests[m]
      /\ requests'[n].ask = requests[n].ask
  <2>1. RowId(n) = count + 1
    BY <1>5 DEF RowId
  <2>2. QED
    BY <1>5, <2>1, RepliesGrow DEF RepliesInv, TicketReplies
<1>10. Replies("confirm", Len(tickets))'
  BY <1>7, <1>9 DEF Replies
<1>11. \A t \in 1..count : tickets'[t] = tickets[t]
  BY <1>4, <1>5 DEF ConfirmedRows
<1>12. tickets'[count + 1].patron = p /\ tickets'[count + 1].hold = h
  BY <1>4, <1>5 DEF ConfirmedRows
<1>13. \A m \in Answered("confirm", 201) :
          /\ requests[m].result \in 1..count
          /\ tickets[requests[m].result].patron = requests[m].ask.credential
          /\ tickets[requests[m].result].hold = requests[m].ask.target
  BY <1>5 DEF RepliesInv, TicketReplies, Replies, Patron, Target
<1>14. \A m \in Answered("confirm", 201)' :
          /\ tickets'[requests'[m].result].patron = requests'[m].ask.credential
          /\ tickets'[requests'[m].result].hold = requests'[m].ask.target
  BY <1>1, <1>2, <1>9, <1>11, <1>12, <1>13 DEF Patron, Target
<1>15. QED
  BY <1>4, <1>8, <1>10, <1>14 DEF TicketReplies, Patron, Target

\* register_patron: the reply carries an id nobody had.
LEMMA PatronGranted ==
    ASSUME RowsInv, PatronReplies, NEW n \in DOMAIN requests, Outcome(n),
           requests[n].status = Null, Grant(n), Kind(n) = "register"
    PROVE  PatronReplies' /\ UNCHANGED <<holds, tickets>>
<1>1. PICK count \in Nat : count = Cardinality(SelfService)
  <2>1. Cardinality(SelfService) + 1 \in Nat \ {0} /\ IsFiniteSet(SelfService)
    BY SelfServiceIdType, FS_Subset DEF RowsInv, Inv, TypeOK, SelfService
  <2>2. Cardinality(SelfService) \in Nat
    BY <2>1, FS_CardinalityType
  <2>3. QED
    BY <2>2
<1>2. /\ patrons' = patrons \cup {count + 1} /\ UNCHANGED <<holds, tickets>>
  BY <1>1 DEF Grant, RegisterPatron
<1>3. SelfService' = SelfService \cup {count + 1}
  <2>1. count + 1 \notin FixturePatrons
    BY PatronsAssumption
  <2>2. QED
    BY <1>2, <2>1 DEF SelfService
<1>4. SelfService' = 1..(count + 1)
  <2>1. SelfService = 1..count
    BY <1>1 DEF PatronReplies
  <2>2. QED
    BY <1>3, <2>1
<1>5. Cardinality(SelfService') = count + 1
  BY <1>4, IntervalCount
<1>6. Replies("register", count + 1)'
  <2>1. RowId(n) = count + 1
    BY <1>1 DEF RowId
  <2>2. QED
    BY <1>1, <2>1, RepliesGrow DEF PatronReplies
<1>7. QED
  BY <1>2, <1>4, <1>5, <1>6 DEF PatronReplies, Replies

LEMMA UnbookedMoves ==
    ASSUME NEW n \in DOMAIN requests, Step(n), ~Grant(n)
    PROVE  UNCHANGED <<holds, tickets, patrons>>
  BY DEF Step, IssueChallenge, Authenticate, RefuseAuthentication, ReadClock, CountRequest,
         PassGate, StopAtGate, Refuse, HandleRefusal, vars, db,
         RefuseRegistration, RefuseHold, RefuseConfirm, RefuseRead

LEMMA RepliesStep ==
    ASSUME RowsInv, RepliesInv, NEW n \in DOMAIN requests,
           Step(n), Outcome(n), requests[n].status = Null
    PROVE  RepliesInv'
<1>1. ASSUME NEW kind, ~(Grant(n) /\ Kind(n) = kind) PROVE SameReplies(kind)
  BY <1>1, OtherReplies
<1>2. CASE Grant(n) /\ Kind(n) = "hold"
  <2>1. HoldReplies' /\ UNCHANGED <<patrons, tickets>>
    BY <1>2, HoldGranted DEF RepliesInv
  <2>2. SameReplies("confirm") /\ SameReplies("register")
    BY <1>1, <1>2
  <2>3. QED
    BY <2>1, <2>2, TicketRepliesKept, PatronRepliesKept DEF RepliesInv
<1>3. CASE Grant(n) /\ Kind(n) = "confirm"
  <2>1. /\ TicketReplies' /\ patrons' = patrons /\ Len(holds') = Len(holds)
        /\ \A h \in 1..Len(holds) : holds'[h].patron = holds[h].patron
    BY <1>3, TicketGranted
  <2>2. SameReplies("hold") /\ SameReplies("register")
    BY <1>1, <1>3
  <2>3. QED
    BY <2>1, <2>2, HoldRepliesKept, PatronRepliesKept DEF RepliesInv
<1>4. CASE Grant(n) /\ Kind(n) = "register"
  <2>1. PatronReplies' /\ UNCHANGED <<holds, tickets>>
    BY <1>4, PatronGranted DEF RepliesInv
  <2>2. SameReplies("hold") /\ SameReplies("confirm")
    BY <1>1, <1>4
  <2>3. QED
    BY <2>1, <2>2, HoldRepliesKept, TicketRepliesKept DEF RepliesInv
<1>5. CASE Grant(n) /\ Kind(n) = "read"
  <2>1. holds' = Lapsed /\ UNCHANGED <<patrons, tickets>>
    BY <1>5 DEF Grant, ReadShow
  <2>2. Len(holds') = Len(holds) /\ \A h \in 1..Len(holds) : holds'[h].patron = holds[h].patron
    BY <2>1, LapsedRows DEF LapseKeepsRows, RowsInv, Inv, TypeOK
  <2>3. SameReplies("hold") /\ SameReplies("confirm") /\ SameReplies("register")
    BY <1>1, <1>5
  <2>4. QED
    BY <2>1, <2>2, <2>3, HoldRepliesKept, TicketRepliesKept, PatronRepliesKept DEF RepliesInv
<1>6. CASE ~Grant(n)
  <2>1. UNCHANGED <<holds, tickets, patrons>>
    BY <1>6, UnbookedMoves
  <2>2. SameReplies("hold") /\ SameReplies("confirm") /\ SameReplies("register")
    BY <1>1, <1>6
  <2>3. QED
    BY <2>1, <2>2, HoldRepliesKept, TicketRepliesKept, PatronRepliesKept DEF RepliesInv
<1>7. QED
  BY <1>2, <1>3, <1>4, <1>5, <1>6, GrantBecomes

LEMMA RepliesInvariant == PipelineSpec => []RepliesInv
<1>1. PipelineInit => RepliesInv
  <2> SUFFICES ASSUME PipelineInit PROVE RepliesInv
    OBVIOUS
  <2>1. requests = << >> /\ holds = << >> /\ tickets = << >> /\ SelfService = {}
    BY DEF PipelineInit, Init, SelfService
  <2>2. \A kind : Answered(kind, 201) = {}
    BY <2>1 DEF Answered
  <2>3. Cardinality({}) = 0 /\ 1..0 = {} /\ Len(<< >>) = 0
    BY FS_EmptySet
  <2>4. \A kind : Replies(kind, 0)
    BY <2>2, <2>3 DEF Replies
  <2>5. HoldReplies
    BY <2>1, <2>2, <2>3, <2>4 DEF HoldReplies
  <2>6. TicketReplies
    BY <2>1, <2>2, <2>3, <2>4 DEF TicketReplies
  <2>7. PatronReplies
    BY <2>1, <2>3, <2>4 DEF PatronReplies
  <2>8. QED
    BY <2>5, <2>6, <2>7 DEF RepliesInv
<1>2. RowsInv /\ RepliesInv /\ [PipelineNext]_pipelineVars => RepliesInv'
  <2> SUFFICES ASSUME RowsInv, RepliesInv, [PipelineNext]_pipelineVars
               PROVE  RepliesInv'
    OBVIOUS
  <2>1. ASSUME UNCHANGED <<holds, tickets, patrons>>,
               \A kind \in {"register", "hold", "confirm"} : SameReplies(kind)
        PROVE  RepliesInv'
    BY <2>1, HoldRepliesKept, TicketRepliesKept, PatronRepliesKept DEF RepliesInv
  <2>2. ASSUME NEW a \in Asks, Arrived(a) PROVE RepliesInv'
    <3>1. UNCHANGED <<holds, tickets, patrons>>
      BY <2>2 DEF Arrived, vars, db
    <3>2. \A kind \in {"register", "hold", "confirm"} : SameReplies(kind)
      BY <2>2, AnsweredArrives DEF SameReplies, Statuses
    <3>3. QED
      BY <2>1, <3>1, <3>2
  <2>3. CASE Quiet
    BY <2>1, <2>3 DEF Quiet, SameReplies, Answered, Kind
  <2>4. QED
    BY <2>2, <2>3, RepliesStep, StepShapes
<1>3. QED
  BY <1>1, <1>2, RowsInvariant, PTL DEF PipelineSpec

\* What clients were told is what the tables say, for any number of requests
\* racing between the locks: each 201 carries a row of its own, which is the
\* caller's, and every row was announced to somebody (flow.py, app.py).
THEOREM RepliesAreTheRows == PipelineSpec => []RepliesMatchRows
  BY RowsInvariant, RepliesInvariant, RepliesInvSuffices, PTL

-----------------------------------------------------------------------------
(* Between the read of the clock and the limiter's lock a request is one of    *)
(* the limiter's threads.                                                      *)

\* The requests the limiter has decided about, and those it never sees.
Counted == {n \in DOMAIN requests : requests[n].stage \notin {"arrived", "ready", "stamped"}}

\* No source has been admitted more often than requests were counted, which is
\* why the bound on admissions never stops the limiter.
CountedInv ==
    /\ seen \in [Limiter!Keys -> Seq(0..MaxTime)]
    /\ admitted \in [Limiter!Keys -> Seq(0..MaxTime)]
    /\ \A k \in Limiter!Keys : Len(admitted[k]) <= Cardinality(Counted)

LEMMA PrunedTyped ==
    ASSUME NEW T, NEW k, NEW at, seen[k] \in Seq(T)
    PROVE  Limiter!Pruned(k, at) \in Seq(T)
<1> DEFINE w == seen[k]
           live == {i \in DOMAIN w : ~Limiter!ExpiredStamp(w[i], at)}
           first == CHOOSE i \in live : \A j \in live : i <= j
<1>1. Len(w) \in Nat /\ DOMAIN w = 1..Len(w)
  BY LenProperties
<1>2. CASE live = {}
  BY <1>2 DEF Limiter!Pruned
<1>3. CASE live # {}
  <2>1. live \in SUBSET Nat
    BY <1>1
  <2>2. first \in live
    <3> HIDE DEF live
    <3>1. LowestSeat(live) \in live
      BY <1>3, <2>1, LowestSeatExists
    <3>2. QED
      BY <3>1 DEF LowestSeat
  <2>3. first \in 1..Len(w)
    BY <1>1, <2>2
  <2>4. Limiter!Pruned(k, at) = SubSeq(w, first, Len(w))
    BY <1>3 DEF Limiter!Pruned
  <2> HIDE DEF first, w
  <2>5. \A i \in first..Len(w) : w[i] \in T
    BY <1>1, <2>3, ElementOfSeq DEF w
  <2>6. SubSeq(w, first, Len(w)) \in Seq(T)
    BY <1>1, <2>3, <2>5, SubSeqProperties
  <2>7. QED
    BY <2>4, <2>6
<1>4. QED
  BY <1>2, <1>3

LEMMA CountedFinite ==
    RowsInv => IsFiniteSet(Counted) /\ Cardinality(Counted) \in Nat
<1> SUFFICES ASSUME RowsInv PROVE IsFiniteSet(Counted) /\ Cardinality(Counted) \in Nat
  OBVIOUS
<1>1. Len(requests) \in Nat /\ DOMAIN requests = 1..Len(requests)
  BY LenProperties DEF RowsInv
<1>2. IsFiniteSet(1..Len(requests)) /\ Counted \subseteq 1..Len(requests)
  BY <1>1, IntervalCount DEF Counted
<1>3. QED
  BY <1>2, FS_Subset, FS_CardinalityType

LEMMA CountedGrows ==
    RowsInv /\ RowsInv' /\ Counted \subseteq Counted' =>
        /\ Cardinality(Counted) \in Nat /\ Cardinality(Counted)' \in Nat
        /\ Cardinality(Counted) <= Cardinality(Counted)'
<1> SUFFICES ASSUME RowsInv, RowsInv', Counted \subseteq Counted'
             PROVE  /\ Cardinality(Counted) \in Nat /\ Cardinality(Counted)' \in Nat
                    /\ Cardinality(Counted) <= Cardinality(Counted)'
  OBVIOUS
<1>1. (IsFiniteSet(Counted) /\ Cardinality(Counted) \in Nat)'
  BY CountedFinite, PTL
<1>2. QED
  BY <1>1, CountedFinite, FS_Subset

\* A request that is at the limiter's lock is not among them yet.
LEMMA CountedRoom ==
    ASSUME RowsInv, NEW n \in DOMAIN requests, n \notin Counted
    PROVE  Cardinality(Counted) < MaxRequests
<1>1. Len(requests) \in Nat /\ DOMAIN requests = 1..Len(requests) /\ MaxRequests \in Nat
  BY LenProperties, PipelineAssumption DEF RowsInv
<1>2. IsFiniteSet(1..Len(requests)) /\ Cardinality(1..Len(requests)) = Len(requests)
  BY <1>1, IntervalCount
<1>3. IsFiniteSet(Counted) /\ Cardinality(Counted) \in Nat
  BY CountedFinite
<1>4. Cardinality(Counted \cup {n}) = Cardinality(Counted) + 1
  BY <1>3, FS_AddElement
<1>5. Counted \cup {n} \subseteq 1..Len(requests)
  BY <1>1 DEF Counted
<1>6. Cardinality(Counted \cup {n}) <= Cardinality(1..Len(requests))
  BY <1>2, <1>5, FS_Subset
<1>7. QED
  BY <1>1, <1>2, <1>3, <1>4, <1>6 DEF RowsInv

\* What a counted request leaves: a row typed as before, and one entry more in
\* the history of its source when it was admitted.
LEMMA CountedMoves ==
    ASSUME RowsInv, NEW n \in DOMAIN requests, Outcome(n)
    PROVE  /\ Counted \subseteq Counted'
           /\ CountRequest(n) => n \notin Counted /\ n \in Counted'
<1>1. CASE CountRequest(n)
  <2>1. requests[n].stage = "stamped"
    BY <1>1 DEF CountRequest, At
  <2>2. Stays(n, "admitted") \/ Becomes(n, "answered", 429, 0)
    BY <1>1, MovesToStays, AnswersBecomes DEF CountRequest, Stages, Statuses
  <2>3. QED
    BY <2>1, <2>2 DEF Counted, Stays, Becomes
<1>2. CASE ~CountRequest(n)
  <2>1. \E stage, status, result :
           /\ Becomes(n, stage, status, result)
           /\ \/ requests[n].stage \in {"arrived", "ready", "stamped"}
              \/ stage \notin {"arrived", "ready", "stamped"}
    BY <1>2 DEF Outcome, Stays
  <2>2. QED
    BY <1>2, <2>1 DEF Counted, Becomes
<1>3. QED
  BY <1>1, <1>2

LEMMA SourceKnown ==
    ASSUME RowsInv, NEW n \in DOMAIN requests
    PROVE  /\ requests[n] \in Requests /\ requests[n].stamp \in 0..MaxTime
           /\ requests[n].ask.source \in Sources \cup {Null}
           /\ Limiter!KeyOf(requests[n].ask.source) \in Limiter!Keys
<1>1. requests[n] \in Requests
  BY LenProperties DEF RowsInv
<1>2. requests[n].ask \in Asks /\ requests[n].stamp \in 0..MaxTime
  BY <1>1 DEF Requests
<1>3. requests[n].ask.source \in Sources \cup {Null}
  BY <1>2 DEF Asks
<1>4. QED
  BY <1>1, <1>2, <1>3 DEF Limiter!KeyOf, Limiter!Keys

LEMMA LimiterMoves ==
    ASSUME NEW n \in DOMAIN requests, Step(n), ~CountRequest(n)
    PROVE  seen' = seen /\ admitted' = admitted
  BY DEF Step, IssueChallenge, Authenticate, RefuseAuthentication, ReadClock,
         PassGate, StopAtGate, Grant, Refuse, HandleRefusal, limiter

LEMMA CountRequestCounted ==
    ASSUME RowsInv, CountedInv, NEW n \in DOMAIN requests, CountRequest(n), Outcome(n), RowsInv'
    PROVE  CountedInv'
<1> DEFINE key == Limiter!KeyOf(requests[n].ask.source)
           at == requests[n].stamp
           pruned == Limiter!Pruned(key, at)
<1>1. key \in Limiter!Keys /\ at \in 0..MaxTime
  BY SourceKnown
<1>2. /\ seen' = [seen EXCEPT ![key] = IF Limiter!Allows(key, at) THEN Append(pruned, at)
                                       ELSE pruned]
      /\ \/ admitted' = [admitted EXCEPT ![key] = Append(admitted[key], at)]
         \/ admitted' = admitted
  BY DEF CountRequest, CountedAt
<1>3. seen[key] \in Seq(0..MaxTime) /\ admitted[key] \in Seq(0..MaxTime)
  BY <1>1 DEF CountedInv
<1>4. pruned \in Seq(0..MaxTime)
  BY <1>3, PrunedTyped
<1> HIDE DEF key, at, pruned
<1>5. /\ Append(pruned, at) \in Seq(0..MaxTime) /\ Append(admitted[key], at) \in Seq(0..MaxTime)
      /\ Len(Append(admitted[key], at)) = Len(admitted[key]) + 1
  BY <1>1, <1>3, <1>4, AppendProperties
<1>6. /\ seen' \in [Limiter!Keys -> Seq(0..MaxTime)]
      /\ admitted' \in [Limiter!Keys -> Seq(0..MaxTime)]
      /\ \A k \in Limiter!Keys : Len(admitted'[k]) <= Len(admitted[k]) + 1
  <2>1. \A k \in Limiter!Keys : Len(admitted[k]) \in Nat
    BY LenProperties DEF CountedInv
  <2>2. PICK deque \in Seq(0..MaxTime) : seen' = [seen EXCEPT ![key] = deque]
    BY <1>2, <1>4, <1>5
  <2>3. seen' \in [Limiter!Keys -> Seq(0..MaxTime)]
    BY <1>1, <2>2 DEF CountedInv
  <2>4. PICK log \in Seq(0..MaxTime) : /\ admitted' = [admitted EXCEPT ![key] = log]
                                       /\ Len(log) <= Len(admitted[key]) + 1
    <3>1. Len(admitted[key]) \in Nat
      BY <1>1, <2>1
    <3>2. CASE admitted' = admitted
      <4>1. admitted' = [admitted EXCEPT ![key] = admitted[key]]
        BY <1>1, <3>2 DEF CountedInv
      <4>2. admitted[key] \in Seq(0..MaxTime) /\ Len(admitted[key]) <= Len(admitted[key]) + 1
        BY <1>3, <3>1
      <4>3. QED
        BY <4>1, <4>2
    <3>3. CASE admitted' = [admitted EXCEPT ![key] = Append(admitted[key], at)]
      <4>1. Len(Append(admitted[key], at)) <= Len(admitted[key]) + 1
        BY <1>5, <3>1
      <4>2. QED
        BY <1>5, <3>3, <4>1
    <3>4. QED
      BY <1>2, <3>2, <3>3
  <2>5. admitted' \in [Limiter!Keys -> Seq(0..MaxTime)]
    BY <1>1, <2>4 DEF CountedInv
  <2>6. ASSUME NEW k \in Limiter!Keys PROVE Len(admitted'[k]) <= Len(admitted[k]) + 1
    <3>1. admitted'[k] = IF k = key THEN log ELSE admitted[k]
      BY <1>1, <2>4 DEF CountedInv
    <3>2. QED
      BY <2>1, <2>4, <3>1
  <2>7. QED
    BY <2>3, <2>5, <2>6
<1>7. /\ Cardinality(Counted) + 1 <= Cardinality(Counted)'
      /\ Cardinality(Counted) \in Nat /\ Cardinality(Counted)' \in Nat
  <2>1. Counted \cup {n} \subseteq Counted' /\ n \notin Counted
    BY CountedMoves
  <2>2. Cardinality(Counted \cup {n}) = Cardinality(Counted) + 1
    BY <2>1, CountedFinite, FS_AddElement
  <2>3. (IsFiniteSet(Counted) /\ Cardinality(Counted) \in Nat)'
    BY CountedFinite, PTL
  <2>4. Cardinality(Counted \cup {n}) <= Cardinality(Counted)'
    BY <2>1, <2>3, FS_Subset
  <2>5. QED
    BY <2>2, <2>3, <2>4, CountedFinite
<1>8. \A k \in Limiter!Keys : Len(admitted[k]) \in Nat /\ Len(admitted'[k]) \in Nat
  BY <1>6, LenProperties DEF CountedInv
<1>9. \A k \in Limiter!Keys : Len(admitted'[k]) <= Cardinality(Counted)'
  BY <1>6, <1>7, <1>8 DEF CountedInv
<1>10. QED
  BY <1>6, <1>9 DEF CountedInv, Limiter!Keys

LEMMA CountedInvariant == PipelineSpec => []CountedInv
<1>1. PipelineInit => CountedInv
  <2> SUFFICES ASSUME PipelineInit PROVE CountedInv
    OBVIOUS
  <2>1. /\ \A k \in Limiter!Keys : seen[k] = << >> /\ admitted[k] = << >>
        /\ seen \in [Limiter!Keys -> Seq(0..MaxTime)]
        /\ admitted \in [Limiter!Keys -> Seq(0..MaxTime)]
    BY DEF PipelineInit
  <2>2. RowsInv
    <3>1. Inv /\ requests = << >> /\ issued = 0
      BY InitInv DEF PipelineInit, Challenge!ChallengeInit
    <3>2. QED
      BY <3>1, PipelineAssumption DEF RowsInv
  <2>3. Cardinality(Counted) \in Nat
    BY <2>2, CountedFinite
  <2>4. QED
    BY <2>1, <2>3 DEF CountedInv
<1>2. RowsInv /\ RowsInv' /\ CountedInv /\ [PipelineNext]_pipelineVars => CountedInv'
  <2> SUFFICES ASSUME RowsInv, RowsInv', CountedInv, [PipelineNext]_pipelineVars
               PROVE  CountedInv'
    OBVIOUS
  <2>1. ASSUME seen' = seen, admitted' = admitted, Counted \subseteq Counted'
        PROVE  CountedInv'
    <3>1. \A k \in Limiter!Keys : Len(admitted[k]) \in Nat
      BY LenProperties DEF CountedInv
    <3>2. /\ Cardinality(Counted) \in Nat /\ Cardinality(Counted)' \in Nat
          /\ Cardinality(Counted) <= Cardinality(Counted)'
      BY <2>1, CountedGrows
    <3>3. QED
      BY <2>1, <3>1, <3>2 DEF CountedInv, Limiter!Keys
  <2>2. ASSUME NEW a \in Asks, Arrived(a) PROVE CountedInv'
    BY <2>1, <2>2 DEF Arrived, limiter, Counted
  <2>3. ASSUME NEW n \in DOMAIN requests, Step(n), Outcome(n)
        PROVE  CountedInv'
    <3>1. CASE CountRequest(n)
      BY <2>3, <3>1, CountRequestCounted
    <3>2. CASE ~CountRequest(n)
      BY <2>1, <2>3, <3>2, CountedMoves, LimiterMoves
    <3>3. QED
      BY <3>1, <3>2
  <2>4. CASE Quiet
    BY <2>1, <2>4 DEF Quiet, limiter, Counted
  <2>5. QED
    BY <2>2, <2>3, <2>4, StepShapes
<1>3. QED
  BY <1>1, <1>2, RowsInvariant, PTL DEF PipelineSpec

-----------------------------------------------------------------------------
(* The bounds of the types.                                                  *)

LEMMA SurjectiveImage ==
    ASSUME NEW S, IsFiniteSet(S), NEW T, NEW f \in [S -> T],
           \A t \in T : \E x \in S : f[x] = t
    PROVE  Cardinality(T) <= Cardinality(S)
<1>1. f \in Surjection(S, T)
  BY DEF Surjection
<1>2. QED
  BY <1>1, FS_Surjection

\* As many tokens as replies that carry one, so no more than requests.
LEMMA TokensBounded ==
    ASSUME RowsInv, GateInv
    PROVE  {issued, spent} \subseteq 0..MaxRequests
<1> DEFINE S == Answered("challenge", 200)
           f == [n \in S |-> requests[n].result]
<1>1. {requests[n].result : n \in S} = 1..issued /\ issued \in Nat /\ spent \in 0..MaxRequests
  BY PassedFinite DEF GateInv, RowsInv
<1>2. IsFiniteSet(S) /\ Cardinality(S) \in 0..MaxRequests
  BY AnsweredFinite
<1> HIDE DEF S
<1>3. f \in [S -> 1..issued] /\ \A t \in 1..issued : \E n \in S : f[n] = t
  BY <1>1
<1>4. Cardinality(1..issued) <= Cardinality(S) /\ Cardinality(1..issued) = issued
  BY <1>1, <1>2, <1>3, SurjectiveImage, IntervalCount
<1>5. MaxRequests \in Nat
  BY PipelineAssumption
<1>6. QED
  BY <1>1, <1>2, <1>4, <1>5

\* The pipeline keeps its types, whatever requests it receives: the log names
\* requests that arrived, no counter outruns them, and the limiter's deques
\* hold times the clock has shown.
THEOREM PipelineTypeCorrect == PipelineSpec => []PipelineTypeOK
<1>1. RowsInv /\ GateInv /\ AuditInv /\ CountedInv => PipelineTypeOK
  BY TokensBounded DEF RowsInv, Inv, GateInv, AuditInv, LoggedSteps, CountedInv, PipelineTypeOK
<1>2. QED
  BY <1>1, RowsInvariant, GateInvariant, AuditInvariant, CountedInvariant, PTL

-----------------------------------------------------------------------------
(* Every step of the pipeline is a step of the limiter, or leaves it alone.  *)

\* The thread of a request: what it carries from the clock to the lock.
Slots == [n \in 1..MaxRequests |->
    IF At(n, "stamped")
    THEN [key |-> IF requests[n].ask.source = Null THEN Unlabelled
                  ELSE requests[n].ask.source,
          stamp |-> requests[n].stamp]
    ELSE [key |-> Unlabelled, stamp |-> -1]]

LEMMA LimiterVars == Limiter!vars = <<now, Slots, seen, admitted>>
  BY DEF Limiter!vars, Slots

LEMMA LimiterInit == PipelineInit => Limiter!Init
<1> SUFFICES ASSUME PipelineInit PROVE Limiter!Init
  OBVIOUS
<1>1. now = 0 /\ requests = << >>
  BY DEF PipelineInit, Init
<1>2. \A n \in 1..MaxRequests : ~At(n, "stamped")
  BY <1>1 DEF At
<1>3. QED
  BY <1>1, <1>2 DEF PipelineInit, Limiter!Init, Limiter!Idle

\* Only the request that moves changes its thread.
LEMMA SlotsMove ==
    ASSUME RowsInv, NEW n \in DOMAIN requests, NEW stage, NEW status, NEW result,
           Becomes(n, stage, status, result)
    PROVE  /\ n \in 1..MaxRequests
           /\ requests[n].stage # "stamped" /\ stage # "stamped" => Slots' = Slots
           /\ \A m \in 1..MaxRequests : m # n => Slots'[m] = Slots[m]
<1>1. n \in 1..MaxRequests
  BY LenProperties, PipelineAssumption DEF RowsInv
<1>2. \A m \in 1..MaxRequests : m # n => Slots'[m] = Slots[m]
  BY DEF Becomes, Slots, At
<1>3. ASSUME requests[n].stage # "stamped", stage # "stamped"
      PROVE  Slots' = Slots
  <2>1. Slots'[n] = Slots[n]
    BY <1>1, <1>3 DEF Becomes, Slots, At
  <2>2. \A m \in 1..MaxRequests : Slots'[m] = Slots[m]
    BY <1>2, <2>1
  <2>3. QED
    BY <2>2 DEF Slots
<1>4. QED
  BY <1>1, <1>2, <1>3

LEMMA ReadClockReads ==
    ASSUME RowsInv, NEW n \in DOMAIN requests, ReadClock(n)
    PROVE  Limiter!Next
<1>0. PICK header \in Sources \cup {Null} : header = requests[n].ask.source
  BY SourceKnown
<1>1. Stays(n, "stamped") /\ requests[n].stage = "ready"
  BY ReadClockStays DEF ReadClock, At
<1>2. n \in 1..MaxRequests /\ \A m \in 1..MaxRequests : m # n => Slots'[m] = Slots[m]
  BY <1>1, SlotsMove DEF Stays
<1>3. Slots[n] = Limiter!Idle
  BY <1>1, <1>2 DEF Slots, At, Limiter!Idle
<1>4. Slots'[n] = [key |-> Limiter!KeyOf(header), stamp |-> now]
  <2>1. requests'[n].stage = "stamped" /\ requests'[n].ask = requests[n].ask /\ n \in DOMAIN requests'
    BY <1>1 DEF Stays, Becomes
  <2>2. requests'[n].stamp = now
    <3>1. requests[n] \in Requests /\ requests \in [1..Len(requests) -> Requests]
      BY SourceKnown, LenProperties DEF RowsInv
    <3>2. requests' = [requests EXCEPT ![n] = [requests[n] EXCEPT !.stage = "stamped", !.stamp = now]]
      BY DEF ReadClock
    <3>3. requests'[n] = [requests[n] EXCEPT !.stage = "stamped", !.stamp = now]
      BY <3>1, <3>2
    <3>4. QED
      BY <3>1, <3>3 DEF Requests
  <2>3. QED
    BY <1>0, <1>2, <2>1, <2>2 DEF Slots, At, Limiter!KeyOf
<1>5. Slots' = [Slots EXCEPT ![n] = [key |-> Limiter!KeyOf(header), stamp |-> now]]
  BY <1>2, <1>4 DEF Slots
<1>6. UNCHANGED <<now, seen, admitted>>
  BY DEF ReadClock, vars, limiter
<1>7. Limiter!ReadClock(n, header)
  BY <1>3, <1>5, <1>6 DEF Limiter!ReadClock, Slots
<1>8. QED
  BY <1>2, <1>7 DEF Limiter!Next

LEMMA CountRequestDecides ==
    ASSUME RowsInv, CountedInv, NEW n \in DOMAIN requests, CountRequest(n)
    PROVE  Limiter!Next
<1> DEFINE key == Limiter!KeyOf(requests[n].ask.source)
           at == requests[n].stamp
<1>1. requests[n].stage = "stamped" /\ n \notin Counted
  BY DEF CountRequest, At, Counted
<1>2. Stays(n, "admitted") \/ Becomes(n, "answered", 429, 0)
  BY MovesToStays, AnswersBecomes DEF CountRequest, Stages, Statuses
<1>3. n \in 1..MaxRequests /\ \A m \in 1..MaxRequests : m # n => Slots'[m] = Slots[m]
  BY <1>2, SlotsMove DEF Stays
<1>4. Slots[n] = [key |-> key, stamp |-> at] /\ at \in 0..MaxTime /\ key \in Limiter!Keys
  BY <1>1, <1>3, SourceKnown DEF Slots, At, Limiter!KeyOf
<1>5. Slots[n] # Limiter!Idle
  <2>1. at # -1
    BY <1>4, BoundsAssumption
  <2>2. QED
    BY <1>4, <2>1 DEF Limiter!Idle
<1>6. Slots'[n] = Limiter!Idle
  <2>1. requests'[n].stage # "stamped"
    BY <1>2 DEF Stays, Becomes
  <2>2. QED
    BY <1>3, <2>1 DEF Slots, At, Limiter!Idle
<1>7. Slots' = [Slots EXCEPT ![n] = Limiter!Idle]
  BY <1>3, <1>6 DEF Slots
<1>8. Len(admitted[key]) < MaxRequests
  <2>1. Len(admitted[key]) \in Nat /\ Len(admitted[key]) <= Cardinality(Counted)
    BY <1>4, LenProperties DEF CountedInv
  <2>2. Cardinality(Counted) < MaxRequests /\ Cardinality(Counted) \in Nat
    BY <1>1, CountedRoom, CountedFinite
  <2>3. QED
    BY <2>1, <2>2, PipelineAssumption
<1>9. now' = now
  BY DEF CountRequest, vars
<1>10. Slots[n].key = key /\ Slots[n].stamp = at
  BY <1>4
<1>11. CASE Limiter!Allows(key, at)
  <2>1. /\ seen' = [seen EXCEPT ![key] = Append(Limiter!Pruned(key, at), at)]
        /\ admitted' = [admitted EXCEPT ![key] = Append(@, at)]
    BY <1>11 DEF CountRequest, CountedAt
  <2> HIDE DEF key, at
  <2>2. Limiter!Admit(n)
    BY <1>5, <1>7, <1>8, <1>9, <1>10, <1>11, <2>1 DEF Limiter!Admit, Slots
  <2>3. QED
    BY <1>3, <2>2 DEF Limiter!Next
<1>12. CASE ~Limiter!Allows(key, at)
  <2>1. /\ seen' = [seen EXCEPT ![key] = Limiter!Pruned(key, at)]
        /\ admitted' = admitted
    BY <1>12 DEF CountRequest, CountedAt
  <2> HIDE DEF key, at
  <2>2. Limiter!Refuse(n)
    BY <1>5, <1>7, <1>9, <1>10, <1>12, <2>1 DEF Limiter!Refuse, Slots
  <2>3. QED
    BY <1>3, <2>2 DEF Limiter!Next
<1>13. QED
  BY <1>11, <1>12

LEMMA StepLeavesClock ==
    ASSUME NEW n \in DOMAIN requests, Step(n)
    PROVE  now' = now
  BY DEF Step, IssueChallenge, Authenticate, RefuseAuthentication, ReadClock, CountRequest,
         PassGate, StopAtGate, Grant, Refuse, HandleRefusal, vars, RegisterPatron, PlaceHold,
         ConfirmHold, ReadShow, RefuseRegistration, RefuseHold, RefuseConfirm, RefuseRead

LEMMA LimiterStep ==
    RowsInv /\ CountedInv /\ [PipelineNext]_pipelineVars => [Limiter!Next]_(Limiter!vars)
<1> SUFFICES ASSUME RowsInv, CountedInv, [PipelineNext]_pipelineVars
             PROVE  Limiter!Next \/ UNCHANGED Limiter!vars
  OBVIOUS
<1>1. ASSUME NEW a \in Asks, Arrived(a) PROVE UNCHANGED <<now, Slots, seen, admitted>>
  <2>1. /\ \A m \in DOMAIN requests : m \in DOMAIN requests' /\ requests'[m] = requests[m]
        /\ \A m \in DOMAIN requests' :
              m \notin DOMAIN requests => requests'[m].stage = "arrived"
    BY <1>1 DEF Arrived, Unanswered
  <2>2. \A m \in 1..MaxRequests : Slots'[m] = Slots[m]
    BY <2>1 DEF Slots, At
  <2>3. Slots' = Slots
    BY <2>2 DEF Slots
  <2>4. QED
    BY <1>1, <2>3 DEF Arrived, vars, limiter
<1>2. ASSUME NEW n \in DOMAIN requests, Step(n), Outcome(n)
      PROVE  Limiter!Next \/ UNCHANGED <<now, Slots, seen, admitted>>
  <2>1. CASE ReadClock(n)
    BY <2>1, ReadClockReads
  <2>2. CASE CountRequest(n)
    BY <2>2, CountRequestDecides
  <2>3. CASE ~ReadClock(n) /\ ~CountRequest(n)
    <3>1. \E stage, status, result :
             /\ Becomes(n, stage, status, result)
             /\ requests[n].stage # "stamped" /\ stage # "stamped"
      BY <1>2, <2>3 DEF Outcome, Stays
    <3>2. Slots' = Slots
      BY <3>1, SlotsMove
    <3>3. QED
      BY <1>2, <2>3, <3>2, LimiterMoves, StepLeavesClock
  <2>4. QED
    BY <2>1, <2>2, <2>3
<1>3. CASE ClockMoves
  <2>1. UNCHANGED <<Slots, seen, admitted>>
    BY <1>3 DEF ClockMoves, limiter, Slots, At
  <2>2. Limiter!Tick \/ Limiter!ClockStepsBack
    BY <1>3, <2>1 DEF ClockMoves, Tick, ClockStepsBack, Limiter!Tick, Limiter!ClockStepsBack, Slots
  <2>3. QED
    BY <2>2 DEF Limiter!Next
<1>4. CASE UNCHANGED pipelineVars
  BY <1>4, LimiterVars DEF pipelineVars, vars, limiter, Slots, At, Limiter!vars
<1>5. CASE UNCHANGED <<now, Slots, seen, admitted>>
  BY <1>5 DEF Limiter!vars, Slots
<1>6. CASE \E a \in Asks : Arrive(a)
  BY <1>1, <1>5, <1>6, ArriveArrived
<1>7. CASE \E n \in DOMAIN requests : Step(n)
  BY <1>2, <1>5, <1>7, StepOutcome
<1>8. QED
  BY <1>3, <1>4, <1>6, <1>7 DEF PipelineNext

\* The application is the rate limiter too, seen at its deques: a request that
\* has read the clock is a thread on its way to the limiter's lock, whatever
\* else goes on between the two (enforce_rate_limit of app.py).
THEOREM PipelineImplementsLimiter == PipelineSpec => Limiter!Spec
  BY LimiterInit, LimiterStep, RowsInvariant, CountedInvariant, PTL
     DEF PipelineSpec, Limiter!Spec

\* Composed and interleaved, the booking flow and the limiter still keep the
\* specifications they have by themselves.
THEOREM PipelineKeepsItsParts == PipelineSpec => PartsKeepTheirSpecs
  BY PipelineImplementsBookingFlow, PipelineImplementsLimiter, PTL DEF PartsKeepTheirSpecs
==============================================================================
