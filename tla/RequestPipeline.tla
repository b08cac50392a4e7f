---------------------------- MODULE RequestPipeline ----------------------------
(***************************************************************************)
(* The application of create_app (src/src/flowjack/app.py): what one       *)
(* request goes through, and what several of them interleave.  Middleware  *)
(* gives it an id; a request that names a patron is authenticated in a     *)
(* transaction of its own; then the rate limit, the verification gate and  *)
(* the booking transaction each take a lock of their own, one after the    *)
(* other; a refusal is logged and answered by the exception handler.  The  *)
(* booking flow, the limiter and the challenge are the modules of those    *)
(* names.  Request req-n is requests[n].                                   *)
(***************************************************************************)
EXTENDS BookingFlow

CONSTANTS
    Sources, Unlabelled, Limit, Window,   \* see RateLimiter
    Credentials,     \* the patrons whose demo tokens callers present
    Presented,       \* the verification tokens callers present
    MaxRequests      \* bound: requests received

ASSUME PipelineAssumption ==
    /\ \A p \in Policies : p.verification_gate_steps \subseteq {"register"}
    /\ Credentials \subseteq PatronIds /\ Presented \subseteq Nat
    /\ MaxRequests \in Nat /\ MaxRequests <= MaxHolds /\ MaxRequests <= MaxSelfService

VARIABLES
    unspent, issued, spent,   \* the challenge
    seen, admitted,           \* the limiter
    requests,
    audit                     \* the events written to the log, in order

challenge == <<unspent, issued, spent>>
limiter == <<seen, admitted>>
pipelineVars == <<vars, challenge, limiter, requests, audit>>

-----------------------------------------------------------------------------
(* What a caller may ask.  A credential names the patron of a demo token;  *)
(* one that is not registered yet stands for every token the table lacks.  *)
(* The target is a show, a hold or an eligibility reference.               *)

Asks ==
    [kind : {"register"}, credential : {Null}, source : Sources \cup {Null},
        token : Presented \cup {Null}, target : EligibilityRefs \cup {Null}]
    \cup [kind : {"hold"}, credential : Credentials,
        source : Sources \cup {Null}, token : {Null}, target : ShowIds]
    \cup [kind : {"confirm"}, credential : Credentials,
        source : Sources \cup {Null}, token : {Null}, target : 1..(MaxRequests - 1)]
    \cup [kind : {"read"}, credential : {Null}, source : {Null}, token : {Null},
        target : ShowIds]
    \cup [kind : {"challenge"}, credential : {Null}, source : {Null}, token : {Null},
        target : {Null}]

GateSteps == policy.verification_gate_steps

Stages == {"arrived", "ready", "stamped", "admitted", "gated", "refused", "answered"}
Statuses == {200, 201, 401, 403, 409, 429}
Requests == [ask : Asks, stage : Stages, stamp : 0..MaxTime,
             status : Statuses \cup {Null}, result : Nat]

Unanswered(a) ==
    [ask |-> a, stage |-> "arrived", stamp |-> 0, status |-> Null, result |-> 0]
At(n, stage) == n \in DOMAIN requests /\ requests[n].stage = stage
Kind(n) == requests[n].ask.kind
Patron(n) == requests[n].ask.credential
Target(n) == requests[n].ask.target

Limiter == INSTANCE RateLimiter WITH
    Threads <- 1..MaxRequests,
    MaxAdmitted <- MaxRequests,
    clock <- now,
    request <- [n \in 1..MaxRequests |->
        IF At(n, "stamped")
        THEN [key |-> IF requests[n].ask.source = Null THEN Unlabelled
                      ELSE requests[n].ask.source,
              stamp |-> requests[n].stamp]
        ELSE [key |-> Unlabelled, stamp |-> -1]]
Challenge == INSTANCE Verification

\* The stamp is an argument of the call to allow and gone after it.
MovesTo(n, stage) == requests' = [requests EXCEPT ![n].stage = stage, ![n].stamp = 0]
Answers(n, status, result) ==
    requests' = [requests EXCEPT ![n].stage = "answered", ![n].stamp = 0,
                                 ![n].status = status, ![n].result = result]

-----------------------------------------------------------------------------
PipelineInit ==
    /\ Init /\ Challenge!ChallengeInit
    /\ seen = [k \in Limiter!Keys |-> << >>]
    /\ admitted = [k \in Limiter!Keys |-> << >>]
    /\ requests = << >> /\ audit = << >>

\* assign_request_id
Arrive(a) ==
    /\ Len(requests) < MaxRequests
    /\ requests' = Append(requests, Unanswered(a))
    /\ UNCHANGED <<vars, challenge, limiter, audit>>

\* get_challenge
IssueChallenge(n) ==
    /\ At(n, "arrived") /\ Kind(n) = "challenge"
    /\ Challenge!Issue
    /\ Answers(n, 200, issued')
    /\ UNCHANGED <<vars, limiter, audit>>

\* authenticate: the token is known and has not expired.
Authentic(n) == Patron(n) \in DOMAIN tokens /\ now < tokens[Patron(n)]

\* current_patron, for the endpoints that depend on it; the others go on.
Authenticate(n) ==
    /\ At(n, "arrived") /\ Kind(n) # "challenge"
    /\ Kind(n) \in {"hold", "confirm"} => Authentic(n)
    /\ MovesTo(n, "ready")
    /\ UNCHANGED <<vars, challenge, limiter, audit>>

RefuseAuthentication(n) ==
    /\ At(n, "arrived") /\ Kind(n) \in {"hold", "confirm"} /\ ~Authentic(n)
    /\ Answers(n, 401, 0)
    /\ UNCHANGED <<vars, challenge, limiter, audit>>

\* enforce_rate_limit: the clock is read, then allow takes the limiter's lock.
Limited(n) == policy.per_source_rate_limit /\ Kind(n) # "read"
ReadClock(n) ==
    /\ At(n, "ready") /\ Limited(n)
    /\ requests' = [requests EXCEPT ![n].stage = "stamped", ![n].stamp = now]
    /\ UNCHANGED <<vars, challenge, limiter, audit>>

\* Fault: the clock is read again once the lock is held.
CountedAtLock(n) == now
CountedAt(n) == requests[n].stamp

CountRequest(n) ==
    LET k == Limiter!KeyOf(requests[n].ask.source)
        at == CountedAt(n)
    IN  /\ At(n, "stamped")
        /\ seen' = [seen EXCEPT ![k] = IF Limiter!Allows(k, at)
                                       THEN Append(Limiter!Pruned(k, at), at)
                                       ELSE Limiter!Pruned(k, at)]
        /\ \/ /\ Limiter!Allows(k, at)
              /\ admitted' = [admitted EXCEPT ![k] = Append(@, at)]
              /\ MovesTo(n, "admitted")
           \/ /\ ~Limiter!Allows(k, at)
              /\ Answers(n, 429, 0)
              /\ UNCHANGED admitted
        /\ UNCHANGED <<vars, challenge, audit>>

PastLimiter(n) == At(n, "admitted") \/ (At(n, "ready") /\ ~Limited(n))

\* enforce_verification, for a gated step: the token is spent at once.
PassGate(n) ==
    /\ PastLimiter(n) /\ Kind(n) \in GateSteps
    /\ Challenge!Spend(requests[n].ask.token)
    /\ MovesTo(n, "gated")
    /\ UNCHANGED <<vars, limiter, audit>>

StopAtGate(n) ==
    /\ PastLimiter(n) /\ Kind(n) \in GateSteps
    /\ Challenge!SpendRefused(requests[n].ask.token)
    /\ Answers(n, 403, 0)
    /\ UNCHANGED <<vars, limiter, audit>>

PastGate(n) == At(n, "gated") \/ (PastLimiter(n) /\ Kind(n) \notin GateSteps)

\* The id of the row a granted transaction inserts, which the reply carries.
\* Fault: the count that numbers it is not moved on.
RowIdUncounted(n) ==
    CASE Kind(n) = "register" -> Cardinality(SelfService)
      [] Kind(n) = "hold" -> Len(holds)
      [] Kind(n) = "confirm" -> Len(tickets)
      [] OTHER -> 0
RowId(n) ==
    CASE Kind(n) = "register" -> Cardinality(SelfService) + 1
      [] Kind(n) = "hold" -> Len(holds) + 1
      [] Kind(n) = "confirm" -> Len(tickets) + 1
      [] OTHER -> 0

Grant(n) ==
    /\ PastGate(n)
    /\ \/ Kind(n) = "register" /\ RegisterPatron(Target(n))
       \/ Kind(n) = "hold" /\ PlaceHold(Patron(n), Target(n))
       \/ Kind(n) = "confirm" /\ ConfirmHold(Patron(n), Target(n))
       \/ Kind(n) = "read" /\ ReadShow(Target(n))
    /\ Answers(n, IF Kind(n) = "read" THEN 200 ELSE 201, RowId(n))
    /\ UNCHANGED <<challenge, limiter, audit>>

\* FlowLimitRefusedError leaves the transaction, which rolls back ...
Refuse(n) ==
    /\ PastGate(n)
    /\ \/ Kind(n) = "register" /\ RefuseRegistration(Target(n))
       \/ Kind(n) = "hold" /\ RefuseHold(Patron(n), Target(n))
       \/ Kind(n) = "confirm" /\ RefuseConfirm(Patron(n), Target(n))
       \/ Kind(n) = "read" /\ RefuseRead(Target(n))
    /\ MovesTo(n, "refused")
    /\ UNCHANGED <<challenge, limiter, audit>>

\* ... and reaches handle_refusal, in the context the middleware set up.
\* Fault: the request id is one variable for all of them.
CurrentRequestIdShared(n) == Len(requests)
CurrentRequestId(n) == n

\* step as the raising site names it; a read of an unknown show says "hold".
RefusedStep(n) == IF Kind(n) = "read" THEN "hold" ELSE Kind(n)

HandleRefusal(n) ==
    /\ At(n, "refused")
    /\ audit' = Append(audit, [request |-> CurrentRequestId(n), step |-> RefusedStep(n)])
    /\ Answers(n, 409, 0)
    /\ UNCHANGED <<vars, challenge, limiter>>

Step(n) ==
    \/ IssueChallenge(n) \/ Authenticate(n) \/ RefuseAuthentication(n)
    \/ ReadClock(n) \/ CountRequest(n) \/ PassGate(n) \/ StopAtGate(n)
    \/ Grant(n) \/ Refuse(n) \/ HandleRefusal(n)

ClockMoves == (Tick \/ ClockStepsBack) /\ UNCHANGED <<challenge, limiter, requests, audit>>

PipelineNext ==
    \/ \E a \in Asks : Arrive(a)
    \/ \E n \in DOMAIN requests : Step(n)
    \/ ClockMoves

\* The server goes on working on every request it has received.
PipelineSpec ==
    /\ PipelineInit /\ [][PipelineNext]_pipelineVars
    /\ \A n \in 1..MaxRequests : WF_pipelineVars(n \in DOMAIN requests /\ Step(n))

-----------------------------------------------------------------------------
PipelineTypeOK ==
    /\ TypeOK
    /\ requests \in Seq(Requests)
    /\ audit \in Seq([request : 1..MaxRequests, step : {"register", "hold", "confirm"}])
    /\ unspent \subseteq 1..issued /\ {issued, spent} \subseteq 0..MaxRequests
    /\ seen \in [Limiter!Keys -> Seq(0..MaxTime)]

Answered(kind, status) ==
    {n \in DOMAIN requests : Kind(n) = kind /\ requests[n].status = status}

\* Every refusal is logged once, under the id of the request that was refused
\* and with its step, whatever other requests arrived or were refused meanwhile,
\* and nothing else is: exactly one event for each 409.
OneEventPerRefusal ==
    /\ \A n \in DOMAIN requests :
          Cardinality({i \in DOMAIN audit : audit[i].request = n})
            = IF requests[n].status = 409 THEN 1 ELSE 0
    /\ \A i \in DOMAIN audit : audit[i].step = RefusedStep(audit[i].request)

\* What clients were told is what the tables say: the 201 replies and the rows
\* correspond one to one, each row is the patron's that the reply went to, and
\* a request that was turned away or refused left no row behind.
RepliesMatchRows ==
    /\ {requests[n].result : n \in Answered("hold", 201)} = DOMAIN holds
    /\ Cardinality(Answered("hold", 201)) = Len(holds)
    /\ \A n \in Answered("hold", 201) : holds[requests[n].result].patron = Patron(n)
    /\ {requests[n].result : n \in Answered("confirm", 201)} = DOMAIN tickets
    /\ Cardinality(Answered("confirm", 201)) = Len(tickets)
    /\ \A n \in Answered("confirm", 201) :
          LET t == tickets[requests[n].result] IN t.patron = Patron(n) /\ t.hold = Target(n)
    /\ {requests[n].result : n \in Answered("register", 201)} = SelfService
    /\ Cardinality(Answered("register", 201)) = Cardinality(SelfService)

PassedGate(n) ==
    /\ Kind(n) \in GateSteps
    /\ requests[n].stage \in {"gated", "refused"} \/ requests[n].status \in {201, 409}

\* verification.py: "one challenge passed means one challenge passed".  No two
\* requests get past the gate on one token, however they race, and the counters
\* account for every token: issued to one caller, then spent on one request.
OneTokenOneRequest ==
    /\ \A m, n \in DOMAIN requests :
          PassedGate(m) /\ PassedGate(n) /\ requests[m].ask.token = requests[n].ask.token
            => m = n
    /\ spent = Cardinality({n \in DOMAIN requests : PassedGate(n)})
    /\ issued = Cardinality(unspent) + spent
    /\ {requests[n].result : n \in Answered("challenge", 200)} = 1..issued

\* Put together and interleaved, the parts still do what their own modules say:
\* every step of the pipeline is a step of the booking flow or none, and a step
\* of the rate limiter or none, so what those runs and proofs show holds here.
PartsKeepTheirSpecs == Spec /\ Limiter!Spec

\* No request is left without a reply, whichever way it goes.
EveryRequestAnswered ==
    \A n \in 1..MaxRequests : n \in DOMAIN requests ~> At(n, "answered")
==============================================================================
