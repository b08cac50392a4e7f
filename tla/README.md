# flowjack in TLA+

flowjack is a demonstration of unrestricted access to a sensitive business flow.
A fictional venue puts the seats of one show on sale through an HTTP API. Booking
takes two steps, place a hold and confirm it, and three flow limits protect the
seats: an outcome quota per patron (strategy A), governed registration of new
patrons (strategy B) and a server-side flow state (strategy C). Vulnerable
variants switch some of the three off or replace them by controls that look like
fixes: a rate limit per source, a human-verification gate at the front door.
Paths below are relative to the repository; the code is `src/src/flowjack`.

## Inventory

| Component | State | Operations | What is hard |
|---|---|---|---|
| Booking transactions and flow limits, `flow.py`, `limits.py` | the tables patrons, tokens, eligibility_refs, registrations, holds, flow_states, tickets | `register_patron`, `place_hold`, `confirm_hold`; every one lapses overdue holds first | late confirmations, seats reassigned, quota looked at in one step only, lapses undone by a refusal |
| Database, `db.py` | one connection, one lock, the seeded rows | `transaction` (BEGIN, COMMIT or ROLLBACK), `reset` | what a rollback takes back with it |
| Request pipeline, `app.py`, with `auth.py`, `verification.py`, `audit.py` | request counter, context variable, unspent verification tokens | per request: id, authentication in a transaction of its own, rate limit, gate, flow transaction, reply, audit event | several locks taken one after the other, so requests interleave between them |
| Rate limiter, `ratelimit.py` | a deque of stamps per source | `allow`, `counts` | the clock is read outside the lock |
| Clock, `clock.py` | the time | `now`, `advance` | wall-clock time may step back |
| Policies and settings, `policy.py`, `config.py`; entry points `secure_app.py`, `vulnerable_app.py` | none after start-up | choose the limits in force; refuse to serve a vulnerable policy unacknowledged, or the secure one as a vulnerable one | |
| Automation harness and ledger, `harness/` | records, granted identities, challenges paid | thread pools drive the API at a pace, then the allocation is reconciled into a verdict | counts said to be independent of interleaving; a pace kept by sleeping against a limit that counts arrivals; holds that lapse under the run |
| Comparison and reports, `compare/`, `harness/transcript.py` | one row per target | run the harness against each service, say in words what a row shows | a narrative inferred from the ledger alone |
| HTTP walkthrough, `walkthrough.py` | the answers so far | a fixed script of calls and checks | late checks rely on early holds, in a window of three seconds |
| Schemas, `schemas.py` | none | request and response bodies | |

The endpoints call the transactions of `flow.py`; these call `limits.py` inside the
same transaction. The limiter and the gate act before the transaction and share
nothing with it but the clock. The harness and the walkthrough are HTTP clients of
the application; the comparison runs the harness once per Compose service, and the
services share nothing.

What makes each part correct:

- Booking: a seat is never claimed twice; hold, flow and ticket agree; no patron
  takes more than its entitlement, over time no more than the re-hold allowance
  adds; nobody with entitlement left is crowded out; nothing resolved is undone.
- Registration: an identity costs a reference of its own and there are never more
  than the cap.
- Limiter: never more than the limit in a window, nobody locked out, memory bounded.
- Pipeline: each stage turns a request away without the later ones noticing; one
  audit event per refusal, under the id of the refused request; every request is
  answered, and a client is told what the tables say.
- Harness: its records, its ledger and the venue tell the same story; its counts and
  its verdict depend on the limits and not on the schedule; a run ends.
- Comparison: every vulnerable application is drained although the control it has
  holds perfectly, the secure one never, and the report says of each row what is so.
- Walkthrough: it passes against the secure application and against no other.

## Modules

| Module | Models | Built from |
|---|---|---|
| `Policy` | `policy.py`, `secure_app.py`, `vulnerable_app.py` | |
| `BookingFlow` | `flow.py`, `limits.py`, the tables and the transaction of `db.py`, the two reads of `app.py` | `Policy` |
| `SeatAllocation` | nothing: the abstract promise, seats that are free, held or sold | |
| `BookingFlowAllocation` | the refinement mapping from the tables to the seats | `BookingFlow`, instance of `SeatAllocation` |
| `RateLimiter` | `ratelimit.py`, with the clock reading of `enforce_rate_limit` | |
| `Verification` | `verification.py` | |
| `RequestPipeline` | `create_app` of `app.py`, `auth.py`, `audit.py`, `errors.py` | `BookingFlow`, instances of `RateLimiter` and `Verification` |
| `Harness` | `harness/engine.py`, `records.py`, `ledger.py`, `validity.py`, `fixtures.py` | `BookingFlow`, instances of `RateLimiter` and `Verification` |
| `Comparison` | `harness/scenarios.py`, `compare/engine.py`, what `compare/report.py` and `harness/transcript.py` say of a row, the services of `docker-compose.yml` | `Harness` |
| `Walkthrough` | `walkthrough.py` | `BookingFlow` |
| `BookingFlowProofs` | theorems about the transactions: what the tables keep, the seat allocation, the ceiling, crowding | `BookingFlowAllocation` |
| `RateLimiterProofs` | theorems about the limiter | `RateLimiter`, `CountingProofs` |
| `RequestPipelineProofs` | theorems: the application, the booking flow and the limiter; tokens, events, replies | `RequestPipeline`, `BookingFlowProofs` |
| `HarnessProofs` | theorems: the venue under the harness | `Harness`, `BookingFlowProofs`, `CountingProofs` |
| `LedgerProofs` | theorems: records, ledger, controls, verdict | `Comparison`, `HarnessProofs` |
| `ComparisonProofs` | theorems: counts as in a sequential run, vulnerable applications drained, notes true | `LedgerProofs` |
| `WalkthroughProofs` | theorems: the script and its verdict | `Walkthrough`, `BookingFlowProofs` |
| `CountingProofs` | lemmas: least members, sums over finite sets | |
| `MC*` | the same modules for TLC | |

### BookingFlow

`Database.transaction` takes one lock, begins, and commits or, on any exception,
rolls back; the clock is read under that lock. So a transaction is one action.
`RegisterPatron`, `PlaceHold`, `ConfirmHold` and `ReadShow` are the transactions
that commit; each carries everything the function writes, the lapse of overdue
holds first (`Lapsed` is `expire_due_holds`). `RefuseRegistration`, `RefuseHold`,
`RefuseConfirm` and `RefuseRead` are the same functions leaving by
`FlowLimitRefusedError`: the rollback takes the lapse back too, so they leave
every variable alone. `HoldAdmitted` and `ConfirmAdmitted` gather the early
returns of their function in one condition over the lapsed holds.

Variables are tables. A table whose rows are numbered by `_next_sequence` is a
sequence, and its nth row is the row with that number; `PATRON-SS-n` is the number
n. Each patron has one token, so `tokens` maps the patron to its expiry.
`consumedBy` is the column of that name; a row is consumed when it is not `Null`.
`policy` is the policy the application was created with; nothing changes it, so the
same module is every application, and `Policies` is which of them a run is about. An input is any patron with an accepted token, any show id known
or not, any hold number up to one that does not exist yet, any reference, `Null`
standing for a missing or unknown one.

Left out: display names and row timestamps, which nothing reads; the second and
further shows, as `_seed` writes one; seat ids as strings. Seat n is the nth seat
of the order `ORDER BY seat_id` uses, which is the order of the numbers below a
thousand seats and some other fixed total order above.

### RequestPipeline

`requests[n]` is request `req-n`: what was asked, the stage it has reached, the
clock reading it carries, and the reply. Between two stages the request holds no
lock, so anything may happen there. The stages are the locks in the order the code
takes them:

| Stage reached | By | Code |
|---|---|---|
| arrived | `Arrive` | `assign_request_id` |
| ready | `Authenticate` (or `RefuseAuthentication`, 401) | `current_patron`, a transaction of its own |
| stamped | `ReadClock` | the argument of `limiter.allow`, read before its lock |
| admitted | `CountRequest` (or 429) | `SourceRateLimiter.allow` |
| gated | `PassGate` (or `StopAtGate`, 403) | `enforce_verification`; the token is spent here |
| answered | `Grant` (200 or 201), `IssueChallenge` | the endpoint's transaction, an action of `BookingFlow` |
| refused, answered | `Refuse`, then `HandleRefusal` (409 and the event) | rollback, then `handle_refusal` outside it |

A stage that a policy or a kind of request does not have is passed over by the
guards (`Limited`, `PastLimiter`, `PastGate`). `Verification` shares its variables
with the pipeline; `RateLimiter` is not called but implemented: the pipeline does
the bookkeeping of `allow` itself and `PartsKeepTheirSpecs` checks that what it
does is what `RateLimiter` allows.

### RateLimiter

Threads read the clock (`ReadClock`) and then take the lock (`Admit`, `Refuse`).
`seen` is `_seen`, the deque per source; `admitted` is a history variable, every
admission ever made. `Pruned` drops from the head up to the first live stamp, as
the `popleft` loop does, and not behind it.

### Policy

A policy is a record with the fields of the dataclass and its defaults
(`Unlimited`). An entry point is the set of policies it may serve, empty when it
refuses to start: `create_vulnerable_app(acknowledged, name)`. `Comparison` takes
each row's application from there, so a shape that could not be served would be a
missing row. That a policy has a rate limit is part of it; how large it is, is the
limiter's `Limit` and `Window`.

### Harness

`phase` follows `run_harness`: the operator registers, holds in one round or in
abandon mode several, the genuine patrons follow, and `Reconcile` reads the
allocation and builds the ledger. `config` is the run's `HarnessConfig`, chosen by
`HarnessInit` with the application's policy. `todo` is the work list of the current
`_fan_out`: for each item the seats it still has to try, the hold it waits to confirm
or the verification token it has paid for, and the time its `rest` ends. The pool
takes items up in order, so what its threads have in work is always the first
`Threads` of the unfinished items (`InWork`), and any of those may issue its next
request once it has rested; a pool of one is the loop. `PayChallenge`, `Register`,
`Hold` and `Confirm` are one request each with its answer and its record;
`BeginRound` and `BeginGenuineDemand` are the joins between two pools. `records` is a
bag of what the list of records would hold: actor, step, status and source label. The
ledger and the validity replay are functions of that bag and of the allocation.

A request is one step, and goes through what the application puts before its
transaction in the order of `app.py`: the token, the rate limit (`Limiter` is
`RateLimiter` with its window in `seen`), the gate (`Challenge` is `Verification`),
then a transaction of `BookingFlow`. What happens between the locks inside a
request is `RequestPipeline`'s subject. Time may pass at any moment. While every
item in work rests it passes freely, which is what sleeping is; while some request
could be issued it passes at most `MaxIdle` times in a run (`idle`), which is how
late and how unevenly threads may be scheduled. A client call that raises ends the
run in the code and is left out.

### Comparison

The scenarios are the records of `scenarios.py` over the numbers of the model: "120
seats" is the whole allocation, "60 identities" all candidates, four seats one more
than the quota's, and so on. A row is one behaviour of `Harness`, because
`run_comparison` runs the rows one after the other and `scripts/verify.sh` restarts
the applications before. `Note` is the chain of cases in `_closing` by the case that
words the sentence, `IdentityNote` the last paragraph of the transcript.

### Walkthrough

`Script` is the sequence of calls `run` makes, check by check, each with the answers
its check accepts and, where it uses a hold id, how many calls back that id was told.
One action per kind of call: `Holds`, `Confirms`, `Registers`, `ReadsShow`,
`Unauthenticated`; `Cycles` is the re-hold loop, which sleeps after a hold and leaves
at the first refusal; `LeavesOut` the household's filter on granted holds; `Crash` the
hold id read from an answer that has none. `Concludes` is the verdict. The
application behind it is `BookingFlow` under any combination of the flow limits;
`HeldUp` lets the host be slow between two calls.

## What each run checks

| Run | Properties | What it shows |
|---|---|---|
| `flow` | `TypeOK`, `SeatExclusive`, `FlowConsistent`, `IdentitySupply`, `OperatorWithinCeiling`, `ResolvedIsFinal`, `SoldInTime`, `ImplementsAllocation` | each policy's booking flow, a patron of each of the three kinds: one claim per seat, three tables that agree, identities paid for and bounded, and together they implement the seat allocation on the terms of the policy |
| `secure_abandon` | `WithinEntitlement`, `ReholdBounded`, `NobodyCrowdedOut`, `AvailabilityTruthful` | secure policy, holding and abandoning past the allowance |
| `limiter` | `TypeOK`, `ExactInOrder`, `QuietSourceAdmitted`, `DequeBounded` | what the limiter keeps with stale readings and a clock that steps back |
| `pipeline` | `PipelineTypeOK`, `OneEventPerRefusal`, `RepliesMatchRows`, `OneTokenOneRequest` | three concurrent requests of any kinds, all controls on |
| `pipeline_steps` | `PartsKeepTheirSpecs`, `EveryRequestAnswered` | the composition implements its parts and answers every request |
| `harness` | `HarnessTypeOK`, `RecordsMatchVenue`, `LedgerReconciles`, `HoldsSettled`, `SecureVerdict`, `CountsAsSequential`, `PacedIsNeverRefused`, `VulnerableRowsDrain`, `ControlsHeldPerfectly`, `NotesTruthful`, `HarnessEnds` | the seven rows of the comparison, the scenarios against the secure application, and four runs that a limit or a deadline turns away: records, ledger and venue agree, the counts are those of a sequential run, the secure verdict is earned, every vulnerable row drains with its control intact, the report is true, every run ends |
| `walkthrough` | `WalkTypeOK`, `SecurePasses`, `PassesOnlySecure`, `WalkthroughEnds` | the script against all eight combinations of the flow limits, held up once anywhere |
| `quota_only` | `WithinEntitlement`, violated | see Findings |
| `limiter_claim` | `NeverExceeded`, violated | see Findings |
| `harness_shares` | `SharesAsSequential`, violated | see Findings |
| `harness_mode` | `GenuinePatronsConfirm`, violated | see Findings |
| `harness_notes` | `FreeIdentitiesCostNothing`, violated | see Findings |

### Bounds

- Time. `HoldTTL = 1` in `flow` and `secure_abandon` lets a hold be live, exactly due
  and overdue, and in `secure_abandon`, where the clock goes to 2, a later hold lapse
  after an earlier one did. The clock steps back as well as forward. In the pipeline
  `TokenTTL = 1` and the clock in 0..1, so a token expires between two stages. In
  `limiter` the window is 2 in 0..3, so a stamp can be inside, on the edge of and
  outside a window.
- Patrons. In `flow` the household with its higher entitlement stands for the fixtures,
  next to two self-service patrons against a cap of one, so the cap is reached and,
  without governance, exceeded. `secure_abandon` has an ordinary patron and the
  household and affords five holds, enough for one patron with entitlement 2 and
  allowance 1 to hold, abandon and be stopped while the other still gets its seat.
- Seats. Two in `flow`, which the household alone may claim, so seats run out;
  `secure_abandon` has exactly as many as the patrons may claim, so
  `AllocationCoversEntitlements` holds with nothing to spare.
- `MaxHolds`, `MaxSelfService`, `MaxAdmitted`, `MaxRequests` cap the rows and
  requests of a run and appear in the guards of `PlaceHold`, `RegisterPatron`,
  `Admit` and `Arrive` only. In the pipeline `MaxHolds` and `MaxSelfService` are at
  least `MaxRequests`, so they never bite.
- The pipeline has three requests for its safety properties: two that race and one
  that was there before, such as the challenge that issued the token both present,
  or the hold that both confirm. Two are enough for the refinement and the
  liveness, whose steps involve one request and the state another left.

- The harness has four candidates, of which two references are real against a cap of
  one, four seats, a quota of one, two source labels, two genuine patrons and two
  threads. An identity asks for two seats, or all four. The limiter admits two
  requests in a window of two and the pace is one, the fastest that keeps to the
  rate. `MaxIdle` is two: a thread may be late by a whole window. A hold lives for
  three, so it outlasts a rest and any lateness (`InTime` says when a run may not);
  the `TooSlow` targets rest past the hold window and past half the tokens' life, so
  confirmations come too late and tokens expire. `CountsAsSequential` and
  `VulnerableRowsDrain` speak of runs that are `InTime`, as the shipped settings make
  them. Two threads are enough for two identities, or two genuine patrons, to race
  for a seat, a reference or a window; a third would only be one more of the same,
  as nothing but the seats, the references and the cap is shared.
- `MaxTime` is above what rests and idling come to, so a run never stops for it.
- The walkthrough has the documented quota, household entitlement, allowance and cap,
  since the script's numbers are about them. Twenty seats are more than its calls can
  claim. The hold window is the three seconds of `docker-compose.yml`; one delay of
  one, two, three or sixteen falls within the window, up to its end, or past every
  token. One delay anywhere is enough for each window to close under each check.

### Fairness

`HarnessSpec` has weak fairness on the requests and joins of the run, as the pool's
threads and the main thread go on until they are done, and on `Elapse`: `time.sleep`
returns. `WalkSpec` has weak fairness on the one client's next call, verdict or
awakening. `PipelineSpec` has weak fairness on the steps of each request that has
been received. The server's thread pool keeps running every request it has
started. `threading.Lock` promises no order among those that wait for it, but a
request takes each lock once and the lock's holders always leave it, so with
finitely many requests each gets its turn. Nothing is assumed of the clock or of
callers. No liveness is claimed for `BookingFlow` or `RateLimiter`, which only
react.

## Findings

- `quota_only`. With strategy A alone, `confirm_hold` (`flow.py:199`) looks at
  neither the quota nor the owner of the hold. A patron that already has its
  entitlement confirms a hold that somebody else placed and owns one seat more.
  `policy.py:78-80` says of this policy that the quota "is never violated", and
  `docs/WALKTHROUGH.md:134-135` that it is "checked at every step". Under the secure
  policy the flow state closes this, which is what theorem `EntitlementIsKept` says
  and why it speaks of applications with `FlowState`.
- `limiter_claim`. `enforce_rate_limit` (`app.py:88`) reads the clock before the
  limiter takes its lock. A request counted late prunes and appends at its old time;
  the deque is then out of order and a window can hold more admissions than the
  limit. `ratelimit.py:3-4` says it is "never once exceeded". `ExactInOrder` states
  what does hold: the limiter is exact while requests are counted in the order of
  their readings.

- `harness_shares`. `harness/transcript.py:76-77` tells the reader of any run with
  threads that concurrency "did nothing else" than shorten it and that the same
  counts arrive at concurrency 1; `harness/engine.py:9-10` that nothing depends on
  interleaving. It holds for the shipped pairings of scenario and policy, where a
  quota or a single identity decides, and for the number of seats
  (`CountsAsSequential`, `VulnerableRowsDrain`). With more demand than seats and no
  quota, the threads share out the last seats, so the ledger's `operator_identities`
  is larger with two threads than without.
- `harness_mode`. `_acquire_seats` (`harness/engine.py:337`) serves both actors and
  walks away whenever the mode is abandon, although the mode is "What the operator
  does with the flow" (`harness/engine.py:63`). So no genuine patron confirms in
  abandon mode, the demand served is 0 and the verdict is "flow limit absent" against
  any policy, the secure one included, whose ceiling the operator keeps. Where the
  operator takes every seat, as in the shipped scenario, the two cannot be told
  apart.
- `harness_notes`. `harness/transcript.py:95` infers a free identity supply from two
  seats per identity and more than one identity. The secure baseline satisfies that
  too, so the transcript of the secure run says its quota "was keyed on an identity
  that cost nothing", where each identity cost a single-use reference and the supply
  is capped.

Met while modelling, and not runs of their own: the walkthrough's check that a spent
reference is refused (`walkthrough.py:199-207`) comes after the cap is reached, so an
application with reusable references passes it; its re-hold check
(`walkthrough.py:262-274`) passes whatever the number of cycles, which is why
`SecurePasses` counts them; and `src/README.md:237-238` calls its counts exactly
reproducible, which needs no request to be held up for the three seconds of the
window (`InTime`).

## What is proved

For every value of the constants that the named assumptions allow: any fixture
patrons, references and seats, any settings in the ranges `load_settings` enforces,
any policy, any harness configuration, any bound on time, holds, patrons and
requests. Nothing else is assumed but what the last column says.

The transactions (`BookingFlowProofs`), for `Spec`:

| Theorem | Property | If |
|---|---|---|
| `TypeCorrect` | `TypeOK` | |
| `SeatsAreExclusive` | `SeatExclusive` | |
| `FlowsAreConsistent` | `FlowConsistent` | |
| `EntitlementIsKept` | `WithinEntitlement` | `FlowState` |
| `ReholdsAreBounded` | `ReholdBounded` | |
| `ResolutionIsFinal` | `ResolvedIsFinal`, of steps | |
| `SalesAreInTime` | `SoldInTime`, of steps | |
| `IdentitiesAreGranted` | `IdentitySupply` | |
| `AvailabilityIsTruthful` | `AvailabilityTruthful` | |
| `OperatorStaysWithinCeiling` | `OperatorWithinCeiling` | |
| `NobodyIsCrowdedOut` | `NobodyCrowdedOut` | |
| `FlowImplementsAllocation` | `ImplementsAllocation`: `SeatAllocation` by refinement | |

The limiter (`RateLimiterProofs`), for `RateLimiter`'s `Spec`:

| Theorem | Property |
|---|---|
| `LimiterTypeCorrect` | `TypeOK` |
| `DequesAreBounded` | `DequeBounded` |
| `QuietSourcesAreAdmitted` | `QuietSourceAdmitted` |
| `LimiterIsExact` | `ExactInOrder` |

The application (`RequestPipelineProofs`), for `PipelineSpec`:

| Theorem | Property | If |
|---|---|---|
| `PipelineImplementsBookingFlow` | `Spec`, by the identity on the tables | |
| `PipelineImplementsLimiter` | `Limiter!Spec`, threads being requests | |
| `PipelineKeepsItsParts` | `PartsKeepTheirSpecs`, both of these | |
| `PipelineImplementsAllocation` | `ImplementsAllocation` | |
| `PipelineTypeCorrect` | `PipelineTypeOK` | |
| `PipelineSeatsAreExclusive`, `PipelineFlowsAreConsistent`, `PipelineIdentitiesAreGranted`, `PipelineNobodyIsCrowdedOut` | the same invariants as for `Spec` | |
| `PipelineEntitlementIsKept` | `WithinEntitlement` | `FlowState` |
| `OneTokenPassesOnce` | `OneTokenOneRequest` | |
| `EachRefusalLoggedOnce` | `OneEventPerRefusal` | |
| `RepliesAreTheRows` | `RepliesMatchRows` | |

The harness and the comparison (`HarnessProofs`, `LedgerProofs`, `ComparisonProofs`), for
`HarnessSpec`:

| Theorem | Property | If |
|---|---|---|
| `HarnessImplementsBookingFlow`, `HarnessImplementsAllocation` | `Spec`, `ImplementsAllocation` | |
| `HarnessTypeCorrect` | `HarnessTypeOK` | |
| `HarnessSeatsAreExclusive`, `HarnessReholdsAreBounded`, `HarnessNobodyIsCrowdedOut` | the same invariants as for `Spec` | |
| `HarnessEntitlementIsKept` | `WithinEntitlement` | `FlowState` |
| `HarnessStaysWithinEntitlement` | `WithinEntitlement`, under the quota alone | |
| `RecordsAreTheVenues` | `RecordsMatchVenue` | |
| `LedgersReconcile` | `LedgerReconciles` | |
| `OperatorIsHeldToItsCeiling` | the first half of `SecureVerdict` | |
| `ControlsAreHeld` | `ControlsHeldPerfectly` | `SeatQuotaDefault <= HouseholdEntitlement` |
| `HoldsAreSettled` | `HoldsSettled` | |
| `PacedRunsAreNotRefused` | `PacedIsNeverRefused` | `DistinctSources` |
| `SecureVerdictIsEarned` | `SecureVerdict` | `Servable` |
| `ConcurrencyKeepsTheCounts` | `CountsAsSequential` | `DistinctPatrons`, and `DistinctSources` if there is a rate limit |
| `VulnerableApplicationsDrain` | `VulnerableRowsDrain` | `FixturesServe` |
| `NotesAreTruthful` | `NotesTruthful` | `FixturesServe`, `SharesExceedQuota`, `AllocationCoversEntitlements`, `SeatQuotaDefault <= HouseholdEntitlement` |

The walkthrough (`WalkthroughProofs`), for `WalkSpec`:

| Theorem | Property | If |
|---|---|---|
| `WalkthroughIsTyped` | `WalkTypeOK` | |
| `WalkthroughImplementsAllocation` | `ImplementsAllocation` | |
| `OnlySecurePasses` | `PassesOnlySecure` | |
| `SecureApplicationPasses` | `SecurePasses` | `SeatsAllocated >= 10` |

The hypotheses say what the shipped configuration has and the constants alone do
not. A household is entitled to no less than the quota: the quota is 2 and the
household's entitlement 4. `DistinctSources`: the source labels a run is given differ,
and so do its genuine patrons, each of which is a source of its own. The eight labels
of `fixtures.py` differ, and `GENUINE_PATRON_IDS` lists each patron once. With one label
given twice the theorem is false, as then two identities at a pace each share a
source. `Servable`: there are as many genuine patrons as the configuration asks for,
each listed once, the household is entitled to no less than the quota, and if the
application has a rate limit the run is paced and its sources are distinct. The secure
application has none, so the last part is about other policies that have all three
flow limits. `DistinctPatrons`: the genuine patrons are listed once each; an item is a
patron, and a patron listed twice would count its seats twice. `FixturesServe` is what
`fixtures.py` gives the rows of the comparison: genuine patrons listed once, the
household not among them, distinct source labels, no more labels than candidates and
enough candidates to take all seats at the quota each, labels that share the seats
evenly, a quota above 0, and a pace that keeps to the rate (120 seats, 8 labels of 15
seats, 60 candidates, a quota of 2). `SharesExceedQuota`: a label's share of the seats,
15, is more than the quota. With a smaller venue a run without a quota need not take
more than the quota per identity, and no reader of a ledger could tell the two apart.
`AllocationCoversEntitlements` is what the verdict on the secure row needs.
`SeatsAllocated >= 10`: the script's calls claim up to ten seats at once,
and in a smaller venue it would be refused for want of a seat. The default is 120, and
TLC finds the check failing with nine.

The arguments:

- `SeatExclusive` and `FlowConsistent` are inductive with `TypeOK`, given that
  `LowestSeat` picks a member of `FreeSeats` (`LowestSeatExists`, which needs that a
  non-empty set of naturals has a least element) and that lapsing only shrinks the
  set of held seats.
- `ReholdBounded` is not inductive: nothing in it says that a hold once placed is
  still charged for, so a state that has forgotten some would let more be placed.
  `ChargesKept` is the strengthening: for every patron, holds, tickets and unforgiven
  expiries together (`seats_charged`) stay within the entitlement, and every hold
  ever placed is held, expired or the patron's own ticket. The second part is where
  `FlowState` enters: without it another patron's ticket may come from this
  patron's hold. Adding the two up gives `ReholdBounded`, and dropping the expiries
  from the first gives `WithinEntitlement`. The counting of `limits.py` is done with
  the cardinality theorems of the library, one lemma for each transaction.
- `ResolvedIsFinal` and `SoldInTime` are read off the transactions, given `TypeOK`.
- `IdentitySupply` does not say that the next id is new. `SupplyKept` does: the
  self-service patrons are 1 to the number of registrations, registration i is
  patron i's, and `registrations` and `consumed_by` name each other.
- `AvailabilityTruthful` follows from `SeatExclusive`: the live holds and the tickets
  map one to one to disjoint sets of seats.
- `ImplementsAllocation`: a seat's owner and deadline are read from the tables by a
  choice among the claims on it, which `SeatExclusive` makes unique (`ClaimsAreRead`)
  before and after a lapse (`LapsedClaims`). Every transaction is then one step of
  `SeatAllocation`, and a refusal a stutter. The quota of the abstract step counts
  seats where `limits.py` counts rows, so their numbers are compared through the map
  from rows to seats.
- `OperatorWithinCeiling` and `NobodyCrowdedOut` bound a sum over all patrons without
  taking one. Each patron numbers its claims within its entitlement, which maps the
  claims one to one into the slots patron, number (`SeatSlots`), and there are only so
  many slots: the product of cap and quota for the ceiling. For crowding the seats an
  entitled patron has not taken are a slot nobody else can use, so a seat is left
  (`SeatLeftOver`), as the slots are no more than the seats (`GridWithinAllocation`).
- `DequeBounded` becomes inductive once the deque is known to be a suffix of the
  admissions, entry by entry (`IsSuffix`), and a thread to carry a real stamp
  (`LimiterInv`); pruning drops a prefix and an admission appends to both. That a
  quiet source is admitted follows: every stamp left is one of an old admission.
- `ExactInOrder` needs to know why an admission is no longer in the deque.
  `WindowInv`: one that was pruned, or has `Limit` admissions after it, is a window
  older than a later one. With the admissions in order no window holds more than
  `Limit` of them (`WindowsHoldLimit`) and the deque is exactly the last window's
  (`DequeIsWindow`).
- The pipeline implements the booking flow by the identity on the tables. Its
  invariant is `TypeOK` with `RequestsKnown`: a request past authentication names a
  patron of the table. Without it `PlaceHold` for that patron would be no step of
  `BookingFlow`; it holds because a token is issued with its patron and no patron
  is ever deleted, though the clock may have passed the token's expiry since.
- The pipeline implements the limiter when a request that has read the clock and has
  not been counted is a thread with that reading (`Slots`); requests past the
  limiter have been admitted at most once each, which bounds the deque
  (`CountedInv`). That the exactness of the limiter therefore holds of the
  application is two theorems read together: `LimiterIsExact` about the instance is
  not restated, as tlapm does not cite theorems through INSTANCE.
- `OneTokenOneRequest` needs that a token a request passed with was issued and is
  good no more (`GateInv`), and counts: as many tokens are spent as requests have
  passed. `OneEventPerRefusal` needs that no event names a request still to come
  (`AuditInv`). `RepliesMatchRows` becomes inductive as a numbering (`RepliesInv`):
  the granted holds, tickets and registrations are the replies, one to one and in
  the words of their row, and no transaction changes a row in what its reply said.
- The harness implements the booking flow in the same way as the pipeline. Its
  invariant adds that the items of the register phase are the candidates
  (`ItemsKnown`) and that its identities are the self-service patrons
  (`IdentitiesKnown`); `PoolInv` adds the types of the rest, and that an item waits
  for a hold or a token there is.
- The harness keeps the quota without the flow state because its threads confirm only
  holds of their own: what an item waits for is a hold of the patron the item is for
  (`OwnHolds`), so each ticket is its hold's patron's (`OwnCharges`).
- `RecordsMatchVenue` is inductive after its counts are split by actor (`VenueInv`).
  The records are a bag and `CountOutcomes` a sum over it by a recursive function;
  `CountingProofs` has what such sums need (adding one, splitting, summing by owner),
  each by taking the smallest set at which it fails. `LedgerReconciles` follows at
  the step that builds the ledger.
- `ControlsHeldPerfectly`: the gate has been passed once for each self-service patron
  (`GateInv`), no deque exceeds the limit (`LimitInv`), and only identities and
  genuine patrons own holds or tickets (`HoldersServed`), so each count in the ledger
  is within its owner's entitlement.
- `HoldsSettled`: every hold is a ticket, was refused its confirmation, or is waited
  for by the one item that placed it, and a live one is waited for (`Settled`). At
  the end nothing is waited for (`WorkedOff`), so a live hold there is none.
- `PacedIsNeverRefused`: the labels of the identities differ (`LabelsOwn`), so each
  source has one item at a time. A source's stamps lie a pace apart, and the next
  request of its item comes a pace after the last (`StampsPaced`). `Limit` stamps in
  a window would need more than the window.
- `SecureVerdict`: the operator's half is the ceiling, carried to the ledger. For the
  verdict, only self-service patrons own seats while the operator is at work
  (`OperatorFirst`), and no token of the fixtures expires (`TokensStand`). From then
  on every genuine patron has as many tickets as it has seats ticked off, and at most
  the one hold its item waits for (`Served`): a hold it asks for is granted, because
  nobody is crowded out, and a confirmation comes before the deadline (`OnTime`). At
  the end each has what it wants, and the tickets of distinct patrons add up to the
  demand (`DemandServed`).
- `CountsAsSequential`: that nothing disturbs the run so far (`Unimpeded`, `Steady`)
  holds all along if it holds at the end, so it may be a premise of the invariant. Under
  it (`Grounds`) the live holds are exactly those an item waits to confirm (`Kept`):
  this is what no deadline passing gives. So an item is only ever refused a seat because
  it has all it may have, or because every seat is claimed by items that will confirm,
  and each item has what it is granted of what it tried unless every seat was held once
  (`Fair`, `Full`). At the join of the pool no item waits for anything, so the tickets
  of a phase are the least of demand and seats (`PhaseSold`), the operator's first
  (`OperatorSold`) and then the public's (`PublicSold`). Which candidates become
  identities is settled in the same way by the challenge, the references and the cap
  (`Paid`, `Supplied`, `Identified`). `AllRequested` counts the requests: each item has
  made as many as its ticks say.
- `VulnerableRowsDrain`: against these policies every request is granted or refused by
  the transaction, so the records hold nothing that is invalid (`Welcomed`). Each row of
  the comparison is spelt out (`RowIs`, `ScenarioFields`): its policy, its mode and the
  seats it is after. For the rows that acquire, `CountsAsSequential` gives the seats
  sold, which are all of them (`Sells`). The row that abandons has an argument of its
  own (`Abandoned`): a hold of the round under way stands until the round is over
  (`Fresh`), one of a round before has lapsed when the round's first request comes
  (`Stale`), so each round finds the whole allocation free and the last one takes it
  again, and the public, who come while the holds of the last round stand, find nothing.
- `NotesTruthful`: what the note is worded from, the ledger took from the records and
  the allocation (`Told`). A vulnerable row without a quota divides all seats among its
  candidates in shares greater than the quota (`Lavish`), and its ledger's seats are at
  most its identities times the greatest share (`Divided`), so that share is more than
  the quota and the note is not the quota's (`MoreThanQuota`). A run of one candidate
  pays one challenge at most (`Charged`), and a drained row that is not the abandoning
  one has confirmed a seat (`RowConfirms`). The verdicts behind "held" come from
  `VulnerableRowsDrain` and `SecureVerdict`.
- `PassesOnlySecure`: each flow limit is what one answer of the script takes. One
  patron's third hold is refused although seats are left, a hold good enough for its
  owner is refused to another patron, nobody registers without a reference. `PassInv`
  keeps, from each of these calls on, that the application has the limit if every check
  so far was met. An application without the quota could also refuse the third hold
  because it has two seats or fewer; then it cannot sell the three seats the script
  buys later. It is for any delays of the host.
- The walkthrough implements the seat allocation though not `Spec`: its sleeps and the
  host's delays move the clock by more than a tick (`Waits`). They leave the tables
  alone, so they map to a stutter, and every request is a step of `BookingFlow`
  (`RequestStep`).
- `SecurePasses`: `Scene` says what the tables hold before each call of the script:
  which holds there are, who placed each in which call and whether it is sold by now,
  which references are spent, and what the answers told. Until the re-hold check no
  hold has lapsed, and from then on every hold of that check has. A step of the script
  moves one call on (`SceneStep`): the answers are the documented ones because the
  charges `limits.py` counts from the scene are, the loop makes as many cycles as
  entitlement and allowance grant, and a seat is free because at most ten are claimed.

Only model-checked: `EveryRequestAnswered`, `HarnessEnds` and `WalkthroughEnds`.
Liveness under fairness is out of the prover's reach, as are `ENABLED` and induction
over data; so the sum in `CountOutcomes`, a fold over the records, is reasoned
about by taking the smallest set at which a claim about it
fails. Every invariant and every action property of the passing runs is stated by a
theorem. No module uses a RECURSIVE operator.

## Not modelled

- A restart: the constructor of `Database` drops every table and seeds them again, so
  it is a new behaviour from `Init`.
- `schemas.py`: declarations of request and response bodies without behaviour of their
  own. The tables, details and transcripts the reports print beyond the notes above;
  the command lines and their exit codes, which compare verdicts across rows.
- Reading settings from the environment; waiting for `/healthz`; the text of bodies,
  so the walkthrough's comparisons of refusals by their text are by status only.
- A client call that raises, in the harness or the walkthrough: the run ends there.

## What is left

A model of a restart, should the database ever be kept across one; the tables of the
reports, should a claim be made about them; and the liveness properties, when the prover
can take them.

## Running

`tlc -config flow.cfg MCBookingFlow` and so on, with the module PROJECT.json
names for each configuration; `tlapm M.tla` for each module of proofs:
`BookingFlowProofs`, `CountingProofs`, `RateLimiterProofs`, `RequestPipelineProofs`,
`HarnessProofs`, `LedgerProofs`, `ComparisonProofs` and `WalkthroughProofs`
(`ComparisonProofs` takes some eleven minutes, `LedgerProofs` seven, the others up to three).
