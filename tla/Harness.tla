-------------------------------- MODULE Harness --------------------------------
(***************************************************************************)
(* The automation harness (src/src/flowjack/harness): the operator obtains *)
(* identities, runs the booking flow with each of them, in abandon mode    *)
(* round after round; then the genuine patrons run it; then the records    *)
(* are reconciled with the venue's allocation into a ledger.  Each phase   *)
(* fans its items out over a thread pool: items are taken up in order, at  *)
(* most concurrency of them at a time, each rests before every request it  *)
(* issues, and the requests of those in work interleave.  A request is one *)
(* step here, from the rate limit to the reply; RequestPipeline is about   *)
(* the locks inside one.                                                   *)
(***************************************************************************)
EXTENDS BookingFlow, FiniteSetsExt, Bags
INSTANCE BagsExt

CONSTANTS
    Candidates,       \* the references presented, in order; Null for an invented one
    GenuinePatrons,   \* the genuine patrons, in order; each is its own source too
    SourceLabels,     \* OPERATOR_SOURCE_LABELS
    Limit, Window,    \* see RateLimiter
    Targets,          \* what may be run: an application's policy, a HarnessConfig
    MaxIdle           \* bound: how long requests that could be issued are left

Configs ==
    [mode : {"acquire", "abandon"}, operator_identities : Nat,
     operator_seats_per_identity : Nat, genuine_patrons : Nat, genuine_seats_each : Nat,
     concurrency : Nat, pace_seconds : Nat, pass_verification : BOOLEAN,
     source_labels : Seq({SourceLabels[i] : i \in DOMAIN SourceLabels}) \ {<< >>},
     abandon_rounds : Nat, abandon_wait_seconds : Nat]

ASSUME HarnessAssumption ==
    /\ Candidates \in Seq(EligibilityRefs \cup {Null})
    /\ GenuinePatrons \in Seq(FixturePatrons)
    /\ SourceLabels # << >> /\ {Limit, Window} \subseteq Nat \ {0}
    /\ \A t \in Targets : t.policy \in Policies /\ t.config \in Configs

VARIABLES
    config,      \* the run's HarnessConfig
    phase,
    round,       \* holding rounds begun
    identities,  \* what the operator obtained: the source label of each patron
    todo,        \* per item of the phase: the seats left to try, the hold or the
                 \* verification token it has, and when its rest is over
    records,     \* how many requests of each kind were answered how
    ledger,
    challenges,               \* challenges_passed
    unspent, issued, spent,   \* the application's challenge
    seen,                     \* and its limiter
    idle         \* how long requests that could be issued have been left

challenge == <<unspent, issued, spent>>
harness == <<config, phase, round, identities, todo, records, ledger, challenges, idle>>
harnessVars == <<vars, challenge, seen, harness>>

Labels == {SourceLabels[i] : i \in DOMAIN SourceLabels}
Sources == Labels \cup {GenuinePatrons[i] : i \in DOMAIN GenuinePatrons}

Challenge == INSTANCE Verification

\* Its window, as one request at a time sees it.
Limiter == INSTANCE RateLimiter WITH
    Threads <- {}, Unlabelled <- Null, MaxAdmitted <- 0,
    clock <- now, request <- << >>, admitted <- seen

-----------------------------------------------------------------------------
(* Records *)

Statuses == {201, 401, 403, 409, 429}
RecordKinds == [actor : {"operator", "genuine"}, step : Steps, status : Statuses,
                source : Sources]

classify(status) ==
    CASE status = 201 -> "granted"
      [] status = 409 -> "refused_by_flow_limit"
      [] status = 429 -> "refused_by_rate_limit"
      [] status = 403 -> "refused_by_verification"
      [] status = 401 -> "unauthenticated"
Outcomes == {classify(status) : status \in Statuses}

\* A refusal of a limit is not among them; a missing verification token is.
INDIVIDUALLY_INVALID == {"unauthenticated", "refused_by_verification"}

\* How many records there are that satisfy a test.
CountWhere(Test(_)) ==
    MapThenSumSet(LAMBDA k : records[k], {k \in DOMAIN records : Test(k)})
Count(actors, steps, outcomes) ==
    CountWhere(LAMBDA k : k.actor \in actors /\ k.step \in steps
                            /\ classify(k.status) \in outcomes)
CountOutcomes(outcomes) == Count({"operator", "genuine"}, Steps, outcomes)
Granted(actor, step) == Count({actor}, {step}, {"granted"})

\* The request-level validity replay.
replay ==
    LET invalid == CountOutcomes(INDIVIDUALLY_INVALID)
        total == BagCardinality(records)
    IN  [total |-> total, valid |-> total - invalid, invalid |-> invalid]

Actor == IF phase = "genuine" THEN "genuine" ELSE "operator"

-----------------------------------------------------------------------------
(* The ledger *)

\* A patron's row of _holdings, given the holds table.  Fault: unsold holds do
\* not count.
HoldingTicketsOnly(hs, p) == Cardinality(TicketsOf(p))
Holding(hs, p) == Cardinality(HoldsOf(hs, p, "held")) + Cardinality(TicketsOf(p))

Holders(hs) == {p \in patrons : Holding(hs, p) > 0}

build_ledger(hs) ==
    LET seats == [p \in patrons |-> Holding(hs, p)]
        selfService == Holders(hs) \cap SelfService
        others == Holders(hs) \ SelfService
    IN  [seats_held |-> Cardinality({h \in DOMAIN hs : hs[h].state = "held"}),
         seats_confirmed |-> Len(tickets),
         seats_available |-> SeatsAvailable,
         operator_seats |-> MapThenSumSet(LAMBDA p : seats[p], selfService),
         operator_identities |-> Cardinality(selfService),
         genuine_seats |-> MapThenSumSet(LAMBDA p : seats[p], others),
         genuine_identities |-> Cardinality(others),
         demand_served |-> Granted("genuine", "confirm"),
         requests_issued |-> BagCardinality(records),
         status_distribution |->
             [status \in Statuses |-> CountWhere(LAMBDA k : k.status = status)],
         invalid_requests |-> CountOutcomes(INDIVIDUALLY_INVALID),
         rate_limited_requests |-> CountOutcomes({"refused_by_rate_limit"}),
         challenges_passed |-> challenges,
         max_seats_per_identity |-> Max({0} \cup {seats[p] : p \in Holders(hs)}),
         requests_by_source |->
             [l \in Labels |->
                 CountWhere(LAMBDA k : k.actor = "operator" /\ k.source = l)]]

operator_seat_ceiling == RegistrationCap * SeatQuotaDefault
demand_offered == config.genuine_patrons * config.genuine_seats_each

\* Fault: < for <=.
BoundedStrictly(l) == l.operator_seats < operator_seat_ceiling
Bounded(l) == l.operator_seats <= operator_seat_ceiling
verdict(l) ==
    IF Bounded(l) /\ l.demand_served >= demand_offered
    THEN "flow limit held" ELSE "flow limit absent"

-----------------------------------------------------------------------------
(* The thread pool *)

Offered == SubSeq(Candidates, 1, Min({config.operator_identities, Len(Candidates)}))
Public == SubSeq(GenuinePatrons, 1, Min({config.genuine_patrons, Len(GenuinePatrons)}))

Rounds == IF config.mode = "abandon" THEN config.abandon_rounds ELSE 1

\* Fault: <= for <.
OneRoundMoreThanRounds == round <= Rounds
MoreRounds == round < Rounds

Unfinished == {i \in DOMAIN todo : todo[i].left > 0}
Before(i) == Cardinality({j \in Unfinished : j < i})

\* concurrency <= 1 runs the items in a loop.  Fault: one thread too few.
ThreadsOneShort == config.concurrency - 1
Threads == IF config.concurrency <= 1 THEN 1 ELSE config.concurrency

\* What the threads have in work, the first so many of the items not finished,
\* and what the next thread to be free takes up.
InWork == {i \in Unfinished : Before(i) < Threads}
NextInLine(i) == i \in Unfinished /\ Before(i) = Threads

\* The identities are sorted by patron_id.
Identity(i) ==
    CHOOSE p \in DOMAIN identities :
        Cardinality({q \in DOMAIN identities : q < p}) = i - 1
Patron(i) == IF phase = "genuine" THEN Public[i] ELSE Identity(i)

\* source_labels[index % len(source_labels)], for a candidate, and for whatever
\* identity it became; genuine_source_label.
LabelOf(i) == config.source_labels[((i - 1) % Len(config.source_labels)) + 1]
Source(i) ==
    CASE phase = "register" -> LabelOf(i)
      [] phase = "operator" -> identities[Patron(i)]
      [] phase = "genuine" -> Patron(i)

\* Fault: a confirmation is recorded as the hold it confirms.
StepRecordedFirst(step) == IF step = "confirm" THEN "hold" ELSE step
StepRecorded(step) == step
Recorded(i, step, status) ==
    records' = BagAdd(records, [actor |-> Actor, step |-> StepRecorded(step),
                                status |-> status, source |-> Source(i)])

\* rest(pace_seconds), from now, before the next request.
RestUntil == IF config.pace_seconds = 0 THEN 0 ELSE now + config.pace_seconds
Rested(i) == now >= todo[i].at

\* Fault: the first refusal ends the item.
LeftAfterStopping(i, granted) == IF granted THEN todo[i].left - 1 ELSE 0
LeftAfter(i, granted) == todo[i].left - 1

\* One seat, or one identity, has been tried: the thread goes on to the next,
\* or to the next item.
Ends(i, granted) ==
    todo' = [j \in DOMAIN todo |->
        IF j = i
        THEN [left |-> LeftAfter(i, granted), has |-> 0,
              at |-> IF LeftAfter(i, granted) = 0 THEN 0 ELSE RestUntil]
        ELSE IF LeftAfter(i, granted) = 0 /\ NextInLine(j)
        THEN [todo[j] EXCEPT !.at = RestUntil]
        ELSE todo[j]]

\* Fault: no rest before the confirmation.
AwaitsAtOnce(i, has) == todo' = [todo EXCEPT ![i].has = has, ![i].at = 0]
Awaits(i, has) == todo' = [todo EXCEPT ![i].has = has, ![i].at = RestUntil]

Items(count, seats, at) == [i \in 1..count |-> [left |-> seats, has |-> 0, at |-> at]]

-----------------------------------------------------------------------------
(* What the application does with a request before its transaction. *)

Authentic(p) == p \in DOMAIN tokens /\ now < tokens[p]

\* enforce_rate_limit, reading the clock and calling allow.
RateLimited(i) == policy.per_source_rate_limit /\ ~Limiter!Allows(Source(i), now)
Counted(i) ==
    LET window == Limiter!Pruned(Source(i), now)
    IN  seen' = [seen EXCEPT ![Source(i)] =
                    IF ~policy.per_source_rate_limit THEN @
                    ELSE IF RateLimited(i) THEN window ELSE Append(window, now)]

\* enforce_verification, of a registration.
Gated == "register" \in policy.verification_gate_steps

-----------------------------------------------------------------------------
HarnessInit ==
    /\ Init /\ Challenge!ChallengeInit
    /\ \E t \in Targets : policy = t.policy /\ config = t.config
    /\ phase = "register" /\ round = 0 /\ identities = << >>
    /\ todo = Items(Len(Offered), 1, config.pace_seconds)
    /\ records = EmptyBag /\ ledger = Null
    /\ challenges = 0 /\ seen = [s \in Sources |-> << >>] /\ idle = 0

\* _obtain_operator_identities: the challenge is paid first, once a candidate ...
PayChallenge(i) ==
    /\ phase = "register" /\ i \in InWork
    /\ config.pass_verification /\ todo[i].has = 0
    /\ Challenge!Issue /\ challenges' = challenges + 1
    /\ Awaits(i, issued')
    /\ UNCHANGED <<vars, seen, config, phase, round, identities, records, ledger, idle>>

\* ... and after the rest comes the registration.
Register(i) ==
    /\ phase = "register" /\ i \in InWork /\ Rested(i)
    /\ config.pass_verification => todo[i].has # 0
    /\ Counted(i)
    /\ \/ /\ RateLimited(i) /\ Recorded(i, "register", 429) /\ Ends(i, FALSE)
          /\ UNCHANGED <<vars, challenge, identities>>
       \/ /\ ~RateLimited(i) /\ Gated /\ Challenge!SpendRefused(todo[i].has)
          /\ Recorded(i, "register", 403) /\ Ends(i, FALSE)
          /\ UNCHANGED <<vars, identities>>
       \/ /\ ~RateLimited(i)
          /\ \/ Gated /\ Challenge!Spend(todo[i].has)
             \/ ~Gated /\ UNCHANGED challenge
          /\ \/ /\ RegisterPatron(Offered[i])
                /\ identities' = [p \in DOMAIN identities \cup (patrons' \ patrons) |->
                       IF p \in DOMAIN identities THEN identities[p] ELSE Source(i)]
                /\ Recorded(i, "register", 201) /\ Ends(i, TRUE)
             \/ /\ RefuseRegistration(Offered[i])
                /\ Recorded(i, "register", 409) /\ Ends(i, FALSE)
                /\ UNCHANGED identities
    /\ UNCHANGED <<config, phase, round, ledger, challenges, idle>>

\* Fault: the mode is read the wrong way round.
WalksAwayInAcquire == config.mode = "acquire"
WalksAway == config.mode = "abandon"

\* _acquire_seats, up to the answer to the hold.
Hold(i) ==
    /\ phase \in {"operator", "genuine"} /\ i \in InWork /\ Rested(i) /\ todo[i].has = 0
    /\ \/ /\ ~Authentic(Patron(i)) /\ UNCHANGED <<vars, seen>>
          /\ Recorded(i, "hold", 401) /\ Ends(i, FALSE)
       \/ /\ Authentic(Patron(i)) /\ Counted(i) /\ RateLimited(i) /\ UNCHANGED vars
          /\ Recorded(i, "hold", 429) /\ Ends(i, FALSE)
       \/ /\ Authentic(Patron(i)) /\ Counted(i) /\ ~RateLimited(i)
          /\ \E show \in Shows :
             \/ /\ PlaceHold(Patron(i), show) /\ Recorded(i, "hold", 201)
                /\ IF WalksAway THEN Ends(i, TRUE) ELSE Awaits(i, Len(holds'))
             \/ /\ RefuseHold(Patron(i), show)
                /\ Recorded(i, "hold", 409) /\ Ends(i, FALSE)
    /\ UNCHANGED <<challenge, config, phase, round, identities, ledger, challenges, idle>>

\* _acquire_seats, the confirmation of a hold that was granted.
Confirm(i) ==
    /\ phase \in {"operator", "genuine"} /\ i \in InWork /\ Rested(i) /\ todo[i].has # 0
    /\ \/ /\ ~Authentic(Patron(i)) /\ UNCHANGED <<vars, seen>>
          /\ Recorded(i, "confirm", 401)
       \/ /\ Authentic(Patron(i)) /\ Counted(i) /\ RateLimited(i) /\ UNCHANGED vars
          /\ Recorded(i, "confirm", 429)
       \/ /\ Authentic(Patron(i)) /\ Counted(i) /\ ~RateLimited(i)
          /\ \/ ConfirmHold(Patron(i), todo[i].has) /\ Recorded(i, "confirm", 201)
             \/ RefuseConfirm(Patron(i), todo[i].has) /\ Recorded(i, "confirm", 409)
    /\ Ends(i, TRUE)
    /\ UNCHANGED <<challenge, config, phase, round, identities, ledger, challenges, idle>>

\* run_harness: the next round of _run_operator_seats, after a rest unless it
\* is the first ...
BeginRound ==
    /\ phase \in {"register", "operator"} /\ Unfinished = {} /\ MoreRounds
    /\ round' = round + 1 /\ phase' = "operator"
    /\ todo' = Items(Cardinality(DOMAIN identities), config.operator_seats_per_identity,
           IF round > 0 /\ config.abandon_wait_seconds > 0
           THEN now + config.abandon_wait_seconds + config.pace_seconds ELSE RestUntil)
    /\ UNCHANGED <<vars, challenge, seen, config, identities, records, ledger, challenges, idle>>

\* ... then _run_genuine_demand ...
BeginGenuineDemand ==
    /\ phase \in {"register", "operator"} /\ Unfinished = {} /\ ~MoreRounds
    /\ phase' = "genuine"
    /\ todo' = Items(Len(Public), config.genuine_seats_each, RestUntil)
    /\ UNCHANGED <<vars, challenge, seen, config, round, identities, records, ledger,
                   challenges, idle>>

\* ... then the allocation is read, and the ledger built.
Reconcile ==
    /\ phase = "genuine" /\ Unfinished = {}
    /\ \E show \in Shows : ReadShow(show)
    /\ ledger' = build_ledger(Lapsed)
    /\ phase' = "done"
    /\ UNCHANGED <<challenge, seen, config, round, identities, todo, records, challenges, idle>>

\* Time passes at any moment: for free while every item in work rests, and for
\* MaxIdle altogether while there is something to be done.
Busy ==
    \/ Unfinished = {}
    \/ \E i \in InWork :
          Rested(i) \/ (phase = "register" /\ config.pass_verification /\ todo[i].has = 0)
Elapse ==
    /\ phase # "done" /\ Tick
    /\ \/ Busy /\ idle < MaxIdle /\ idle' = idle + 1
       \/ ~Busy /\ UNCHANGED idle
    /\ UNCHANGED <<challenge, seen, config, phase, round, identities, todo, records, ledger,
                   challenges>>

Finished == phase = "done" /\ UNCHANGED harnessVars

HarnessStep ==
    \/ \E i \in DOMAIN todo : PayChallenge(i) \/ Register(i) \/ Hold(i) \/ Confirm(i)
    \/ BeginRound \/ BeginGenuineDemand \/ Reconcile

HarnessNext == HarnessStep \/ Elapse \/ Finished

\* Threads that have a request to issue issue it, and a rest comes to its end.
HarnessSpec ==
    /\ HarnessInit /\ [][HarnessNext]_harnessVars
    /\ WF_harnessVars(HarnessStep) /\ WF_harnessVars(Elapse)

-----------------------------------------------------------------------------
HarnessTypeOK ==
    /\ TypeOK
    /\ config \in Configs
    /\ phase \in {"register", "operator", "genuine", "done"} /\ round \in 0..Rounds
    /\ DOMAIN identities \subseteq SelfService
    /\ \A p \in DOMAIN identities : identities[p] \in Labels
    /\ \A i \in DOMAIN todo :
          todo[i] \in [left : Nat, at : Nat,
                       has : 0..(IF phase = "register" THEN issued ELSE Len(holds))]
    /\ IsABag(records) /\ DOMAIN records \subseteq RecordKinds
    /\ unspent \subseteq 1..issued /\ spent + Cardinality(unspent) = issued
    /\ seen \in [Sources -> Seq(0..MaxTime)]

\* What the harness has on record is what the venue did, whatever the threads
\* interleave: a granted registration, hold or confirmation is one patron, hold
\* or ticket, and genuine confirmations are exactly the tickets of the fixtures.
RecordsMatchVenue ==
    /\ Granted("operator", "register") = Cardinality(SelfService)
    /\ DOMAIN identities = SelfService
    /\ Granted("operator", "hold") + Granted("genuine", "hold") = Len(holds)
    /\ Granted("genuine", "confirm")
         = Cardinality({t \in DOMAIN tickets : tickets[t].patron \in FixturePatrons})
    /\ Granted("operator", "confirm")
         = Cardinality({t \in DOMAIN tickets : tickets[t].patron \in SelfService})

\* The ledger adds up (test_harness.py): the seats it gives to the two actors,
\* summed patron by patron, are those the venue counts row by row, and nobody's
\* demand is called served without a seat.
LedgerReconciles ==
    phase = "done" =>
        /\ ledger.operator_seats + ledger.genuine_seats
             = ledger.seats_held + ledger.seats_confirmed
        /\ ledger.seats_held + ledger.seats_confirmed + ledger.seats_available
             = SeatsAllocated
        /\ ledger.demand_served <= ledger.genuine_seats

\* In acquire mode a hold the harness was granted is not left behind: each is a
\* ticket by the end, or its confirmation came too late and it has lapsed.
HoldsSettled ==
    phase = "done" /\ config.mode = "acquire"
      /\ ledger.invalid_requests + ledger.rate_limited_requests = 0 =>
        /\ ledger.seats_held = 0
        /\ Len(holds) = Len(tickets)
             + Count({"operator", "genuine"}, {"confirm"}, {"refused_by_flow_limit"})

\* No hold placed in this run can have lapsed under the step that relies on it,
\* and no token expired: what a thread adds to its rest stays below the window.
InTime == config.pace_seconds + idle < HoldTTL /\ now < TokenTTL

\* The configured rate is one the limiter admits: every source is one identity's
\* at a time, and Limit requests take it a Window or longer.
Paced ==
    /\ config.pace_seconds * Limit >= Window
    /\ Len(Offered) <= Len(config.source_labels)

\* test_half_fixes.py, "the limit must hold perfectly": a run that keeps to the
\* rate is refused nothing, whatever its threads interleave and however unevenly
\* their requests come, although no thread knows of the window.
PacedIsNeverRefused == Paced => CountOutcomes({"refused_by_rate_limit"}) = 0

\* The ledger's verdict on the secure policy: the operator stays within its
\* ceiling in every mode and at every pace, and as long as no deadline passes
\* under the run every genuine patron is served and the verdict is "held".
SecureVerdict ==
    phase = "done" /\ ~is_vulnerable(policy) =>
        /\ ledger.operator_seats <= operator_seat_ceiling
        /\ config.mode = "acquire" /\ InTime /\ AllocationCoversEntitlements
             /\ config.genuine_seats_each <= SeatQuotaDefault
             => verdict(ledger) = "flow limit held"

-----------------------------------------------------------------------------
(* What a run at concurrency 1 comes to, in acquire mode. *)

SequentialIdentities ==
    IF GovernedIdentitySupply
    THEN Min({RegistrationCap,
              Cardinality(EligibilityRefs \cap {Offered[i] : i \in DOMAIN Offered})})
    ELSE Len(Offered)
SequentialEach(seats) == IF SeatQuota THEN Min({seats, SeatQuotaDefault}) ELSE seats
SequentialOperatorSeats ==
    Min({SeatsAllocated,
         SequentialIdentities * SequentialEach(config.operator_seats_per_identity)})
SequentialGenuineSeats ==
    Min({SeatsAllocated - SequentialOperatorSeats,
         Len(Public) * SequentialEach(config.genuine_seats_each)})
FewestHolders(seats, each) == Min({n \in 0..seats : n * each >= seats})

\* No limit on requests turns one away.
Unhindered ==
    /\ policy.per_source_rate_limit => Paced
    /\ Gated => config.pass_verification

Comparable ==
    /\ phase = "done" /\ config.mode = "acquire" /\ InTime /\ Unhindered
    /\ HouseholdPatron \notin {Public[i] : i \in DOMAIN Public}

\* test_harness.py: "Concurrency shortens the run.  It is not part of the
\* mechanism."  However the threads interleave, these counts come out as at
\* concurrency 1.
CountsAsSequential ==
    Comparable =>
        /\ ledger.operator_seats = SequentialOperatorSeats
        /\ ledger.genuine_seats = SequentialGenuineSeats
        /\ ledger.demand_served = SequentialGenuineSeats
        /\ ledger.requests_issued
             = Len(Offered) + SequentialIdentities * config.operator_seats_per_identity
                 + Len(Public) * config.genuine_seats_each
                 + SequentialOperatorSeats + SequentialGenuineSeats

\* And so does the number of patrons of each kind that the seats went to.
SharesAsSequential ==
    Comparable =>
        /\ ledger.operator_identities
             = FewestHolders(SequentialOperatorSeats,
                             SequentialEach(config.operator_seats_per_identity))
        /\ ledger.genuine_identities
             = FewestHolders(SequentialGenuineSeats,
                             SequentialEach(config.genuine_seats_each))

\* Mode: "What the operator does with the flow."  A genuine patron confirms what
\* it holds, whatever the operator does.
GenuinePatronsConfirm ==
    phase = "done" =>
        Granted("genuine", "hold") = Count({"genuine"}, {"confirm"}, Outcomes)

\* Every run comes to its ledger: the pool works off every item, and every rest
\* ends.
HarnessEnds == <>(phase = "done")
==============================================================================
