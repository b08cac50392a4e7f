---------------------------- MODULE ComparisonProofs ----------------------------
(***************************************************************************)
(* What the runs of the comparison come to.  First, that concurrency       *)
(* shortens a run and changes none of its counts: however the threads      *)
(* interleave, a run in acquire mode that no deadline and no limit on      *)
(* requests disturbs comes to the seats and the requests of one at a time. *)
(* The threads of a phase share the seats, and each item is given what it  *)
(* asks for until it has its quota or there is no seat left.  Then what    *)
(* follows for each row: every vulnerable application is drained, and the  *)
(* notes the report words of a row are true of it.                         *)
(***************************************************************************)
EXTENDS LedgerProofs

-----------------------------------------------------------------------------
\* The fixtures' user names differ (db.py's patron_id is a key).
DistinctPatrons ==
    \A i, j \in DOMAIN GenuinePatrons : GenuinePatrons[i] = GenuinePatrons[j] => i = j

\* No deadline and no limit on requests is in the run's way.
Unimpeded ==
    /\ InTime
    /\ policy.per_source_rate_limit => PacedRun
    /\ Gated => config.pass_verification

Steady ==
    /\ config.mode = "acquire" /\ Unimpeded
    /\ HouseholdPatron \notin {Public[i] : i \in DOMAIN Public}
    /\ DistinctPatrons

Booking == phase \in {"operator", "genuine"}

\* A run that is unimpeded, or steady, was so all along.
LEMMA UnimpededBefore ==
    ASSUME PoolInv, idle \in Nat, [HarnessNext]_harnessVars, Unimpeded'
    PROVE  Unimpeded
<1>1. /\ idle' \in Nat /\ idle <= idle' /\ now \in Nat /\ now' \in Nat /\ now <= now'
      /\ config' = config /\ policy' = policy
      /\ config.pace_seconds \in Nat /\ HoldTTL \in Nat /\ TokenTTL \in Nat
  BY TimeRuns, PoolBase, PolicyStays, RestType, SettingsAssumption
<1>2. config'.pace_seconds + idle' < HoldTTL /\ now' < TokenTTL
  BY DEF Unimpeded, InTime
<1>3. InTime
  BY <1>1, <1>2 DEF InTime
<1>4. PacedRun' <=> PacedRun
  BY <1>1, PacedRunKept
<1>5. QED
  BY <1>1, <1>3, <1>4 DEF Unimpeded, Gated

LEMMA SteadyBefore ==
    ASSUME PoolInv, idle \in Nat, [HarnessNext]_harnessVars, Steady'
    PROVE  Steady
<1>1. config' = config /\ Public' = Public
  BY PoolBase
<1>2. Unimpeded
  BY UnimpededBefore DEF Steady
<1>3. QED
  BY <1>1, <1>2 DEF Steady

\* No token expires before TokenTTL, whoever it was given to and when.
TokensLast == \A p \in patrons : tokens[p] >= TokenTTL

LEMMA TokensLastStep == TypeOK /\ TokensLast /\ [Next]_vars => TokensLast'
<1> SUFFICES ASSUME TypeOK, TokensLast, [Next]_vars PROVE TokensLast'
  OBVIOUS
<1>1. CASE UNCHANGED <<patrons, tokens>>
  BY <1>1 DEF TokensLast
<1>2. ASSUME NEW ref, RegisterPatron(ref) PROVE TokensLast'
  <2> DEFINE id == Cardinality(SelfService) + 1
  <2>1. /\ patrons' = patrons \cup {id}
        /\ tokens' = [p \in patrons \cup {id} |-> IF p = id THEN now + TokenTTL ELSE tokens[p]]
    BY <1>2 DEF RegisterPatron
  <2> HIDE DEF id
  <2>2. now + TokenTTL >= TokenTTL
    <3>1. now \in Nat /\ TokenTTL \in Nat
      BY BoundsAssumption, SettingsAssumption DEF TypeOK
    <3>2. QED
      BY <3>1
  <2>3. QED
    BY <2>1, <2>2 DEF TokensLast
<1>3. QED
  BY <1>1, <1>2 DEF Next, Request, PlaceHold, RefuseHold, ConfirmHold, RefuseConfirm,
     ReadShow, RefuseRead, RefuseRegistration, Tick, ClockStepsBack, vars, db

\* Nobody is turned away before the transaction.
LEMMA LetIn ==
    ASSUME PoolInv, TokensLast, LabelsOwn, StampsPaced, Unimpeded, Booking,
           [HarnessNext]_harnessVars, NEW i \in DOMAIN todo, Hold(i) \/ Confirm(i)
    PROVE  Patron(i) \in patrons /\ Authentic(Patron(i)) /\ ~RateLimited(i)
<1>1. Patron(i) \in patrons
  <2>1. Patron(i) \in SelfService \/ Patron(i) \in FixturePatrons
    BY PatronKnown DEF Booking
  <2>2. QED
    BY <2>1 DEF SelfService, PoolInv, HarnessInv, TypeOK
<1>2. Authentic(Patron(i))
  <2>1. tokens \in [patrons -> Int] /\ now \in Nat /\ TokenTTL \in Nat
    BY RestType, SettingsAssumption DEF PoolInv, HarnessInv, TypeOK
  <2>2. now < TokenTTL
    BY DEF Unimpeded, InTime
  <2>3. tokens[Patron(i)] >= TokenTTL /\ tokens[Patron(i)] \in Int
    BY <1>1, <2>1 DEF TokensLast
  <2>4. now < tokens[Patron(i)]
    BY <2>1, <2>2, <2>3
  <2>5. QED
    BY <1>1, <2>1, <2>4 DEF Authentic
<1>3. ~RateLimited(i)
  <2>1. CASE policy.per_source_rate_limit
    <3>1. PacedRun
      BY <2>1 DEF Unimpeded
    <3>2. QED
      BY <3>1, StampsRequest
  <2>2. CASE ~policy.per_source_rate_limit
    BY <2>2 DEF RateLimited
  <2>3. QED
    BY <2>1, <2>2
<1>4. QED
  BY <1>1, <1>2, <1>3

\* Every item of a phase is another patron's, and none is the household's.
LEMMA PatronsDiffer ==
    ASSUME PoolInv, Steady, Booking, NEW i \in DOMAIN todo, NEW j \in DOMAIN todo
    PROVE  (Patron(i) = Patron(j) => i = j) /\ SeatEntitlement(Patron(i)) = SeatQuotaDefault
<1>1. CASE phase = "operator"
  <2>1. Patron(i) = i /\ Patron(j) = j /\ Patron(i) \notin FixturePatrons
    BY <1>1, PatronKnown DEF SelfService
  <2>2. QED
    BY <2>1, PatronsAssumption DEF SeatEntitlement
<1>2. CASE phase = "genuine"
  <2>1. i \in DOMAIN Public /\ j \in DOMAIN Public
    BY <1>2, PublicIsPrefix DEF PoolInv, HarnessInv, ItemsOfPhase
  <2>2. /\ i \in DOMAIN GenuinePatrons /\ Public[i] = GenuinePatrons[i]
        /\ j \in DOMAIN GenuinePatrons /\ Public[j] = GenuinePatrons[j]
    BY <2>1, PublicIsPrefix DEF PoolInv, HarnessInv
  <2>3. Patron(i) = Public[i] /\ Patron(j) = Public[j]
    BY <1>2 DEF Patron
  <2>4. Public[i] = Public[j] => i = j
    BY <2>2 DEF Steady, DistinctPatrons
  <2>5. Public[i] # HouseholdPatron
    BY <2>1 DEF Steady
  <2>6. QED
    BY <2>3, <2>4, <2>5 DEF SeatEntitlement
<1>3. QED
  BY <1>1, <1>2 DEF Booking

-----------------------------------------------------------------------------
\* The operator comes first, and in acquire mode once.
Begun ==
    /\ phase = "register" => round = 0 /\ holds = << >> /\ tickets = << >>
    /\ phase = "operator" => round >= 1

LEMMA OneRound ==
    ASSUME PoolInv, Begun, config.mode = "acquire"
    PROVE  /\ BeginRound => phase = "register"
           /\ BeginGenuineDemand => phase = "operator"
<1>1. Rounds = 1 /\ round \in 0..1
  BY DEF Rounds, PoolInv, PhaseKnown
<1>2. BeginRound => round < 1
  BY <1>1 DEF BeginRound, MoreRounds
<1>3. BeginGenuineDemand => ~(round < 1)
  BY <1>1 DEF BeginGenuineDemand, MoreRounds
<1>4. (BeginRound => phase \in {"register", "operator"})
      /\ (BeginGenuineDemand => phase \in {"register", "operator"})
  BY DEF BeginRound, BeginGenuineDemand
<1>5. BeginRound => phase = "register"
  BY <1>1, <1>2, <1>4 DEF Begun
<1>6. BeginGenuineDemand => phase = "operator"
  BY <1>1, <1>3, <1>4 DEF Begun
<1>7. QED
  BY <1>5, <1>6

LEMMA BegunStep == PoolInv /\ Begun /\ [HarnessNext]_harnessVars => Begun'
<1> SUFFICES ASSUME PoolInv, Begun, [HarnessNext]_harnessVars PROVE Begun'
  OBVIOUS
<1>1. ASSUME UNCHANGED <<phase, round, holds, tickets>> PROVE Begun'
  BY <1>1 DEF Begun
<1>2. ASSUME NEW i \in DOMAIN todo, Register(i) PROVE Begun'
  <2>1. UNCHANGED <<phase, round>> /\ (RegisterGranted(i) \/ RegisterRefused(i))
    BY <1>2, RegisterCases
  <2>2. UNCHANGED <<holds, tickets>>
    BY <2>1 DEF RegisterGranted, RegisterPatron, RegisterRefused, vars, db
  <2>3. QED
    BY <1>1, <2>1, <2>2
<1>3. ASSUME NEW i \in DOMAIN todo, Hold(i) \/ Confirm(i) PROVE Begun'
  <2>1. phase \in {"operator", "genuine"} /\ UNCHANGED <<phase, round>>
    BY <1>3, HoldCases, ConfirmCases
  <2>2. QED
    BY <2>1 DEF Begun
<1>4. CASE BeginRound
  <2>1. round \in Nat /\ round' = round + 1 /\ phase' = "operator"
    BY <1>4, RoundsType DEF BeginRound, PoolInv, PhaseKnown, HarnessInv
  <2>2. QED
    BY <2>1 DEF Begun
<1>5. CASE BeginGenuineDemand \/ Reconcile
  BY <1>5 DEF BeginGenuineDemand, Reconcile, Begun
<1>6. CASE \/ \E i \in DOMAIN todo : PayChallenge(i)
           \/ Elapse \/ UNCHANGED harnessVars
  <2>1. UNCHANGED <<phase, round, holds, tickets>>
    BY <1>6 DEF PayChallenge, Elapse, Tick, harnessVars, harness, vars, db
  <2>2. QED
    BY <1>1, <2>1
<1>7. QED
  BY <1>2, <1>3, <1>4, <1>5, <1>6 DEF HarnessNext, HarnessStep, Finished

-----------------------------------------------------------------------------
(* Item by item: what was tried and what came of it. *)

\* What the application grants one patron that asks for so many seats.
Limited(quota, n) == IF quota THEN Min({n, SeatQuotaDefault}) ELSE n

LEMMA LimitedIs ==
    ASSUME NEW quota \in BOOLEAN, NEW n \in Nat
    PROVE  /\ Limited(quota, n) \in Nat /\ Limited(quota, n) <= n
           /\ quota => Limited(quota, n) <= SeatQuotaDefault
           /\ Limited(quota, n) = n \/ (quota /\ Limited(quota, n) = SeatQuotaDefault)
<1>1. SeatQuotaDefault \in Nat
  BY SettingsAssumption
<1>2. /\ Min({n, SeatQuotaDefault}) \in {n, SeatQuotaDefault}
      /\ Min({n, SeatQuotaDefault}) <= n /\ Min({n, SeatQuotaDefault}) <= SeatQuotaDefault
  BY <1>1, MinOfTwo
<1> DEFINE m == Min({n, SeatQuotaDefault})
<1>3. Limited(quota, n) = IF quota THEN m ELSE n
  BY DEF Limited
<1> HIDE DEF m
<1>4. m \in {n, SeatQuotaDefault} /\ m <= n /\ m <= SeatQuotaDefault
  BY <1>2 DEF m
<1>5. QED
  BY <1>1, <1>3, <1>4

LEMMA TriedAndGranted ==
    ASSUME NEW quota \in BOOLEAN, NEW n \in Nat, NEW g \in Nat, g <= Limited(quota, n),
           quota => g < SeatQuotaDefault
    PROVE  /\ g + 1 <= Limited(quota, n + 1)
           /\ g = Limited(quota, n) => g + 1 = Limited(quota, n + 1)
<1> DEFINE a == Limited(quota, n)
           b == Limited(quota, n + 1)
<1>1. /\ a \in Nat /\ a <= n /\ (a = n \/ (quota /\ a = SeatQuotaDefault))
      /\ SeatQuotaDefault \in Nat
  BY LimitedIs, SettingsAssumption
<1>2. b \in Nat /\ b <= n + 1 /\ (b = n + 1 \/ (quota /\ b = SeatQuotaDefault))
  BY n + 1 \in Nat, LimitedIs
<1> HIDE DEF a, b
<1>3. g <= a
  BY DEF a
<1>4. g + 1 <= b /\ (g = a => g + 1 = b)
  BY <1>1, <1>2, <1>3
<1>5. QED
  BY <1>4 DEF a, b

LEMMA TriedAndRefused ==
    ASSUME NEW quota \in BOOLEAN, NEW n \in Nat, NEW g \in Nat, g <= Limited(quota, n)
    PROVE  /\ g <= Limited(quota, n + 1)
           /\ quota /\ SeatQuotaDefault <= g => g = Limited(quota, n + 1)
<1> DEFINE a == Limited(quota, n)
           b == Limited(quota, n + 1)
<1>1. /\ a \in Nat /\ a <= n /\ (quota => a <= SeatQuotaDefault) /\ SeatQuotaDefault \in Nat
  BY LimitedIs, SettingsAssumption
<1>2. /\ b \in Nat /\ (b = n + 1 \/ (quota /\ b = SeatQuotaDefault))
      /\ (quota => b <= SeatQuotaDefault)
  BY n + 1 \in Nat, LimitedIs
<1> HIDE DEF a, b
<1>3. g <= a
  BY DEF a
<1>4. g <= b /\ (quota /\ SeatQuotaDefault <= g => g = b)
  BY <1>1, <1>2, <1>3
<1>5. QED
  BY <1>4 DEF a, b

Each ==
    IF phase = "operator" THEN config.operator_seats_per_identity
    ELSE config.genuine_seats_each
Awaited(i) == IF todo[i].has = 0 THEN 0 ELSE 1
Tried(i) == Each - todo[i].left + Awaited(i)
Sold(i) == SoldTo({Patron(i)})
Got(i) == Sold(i) + Awaited(i)

\* Every seat was held by somebody.
Full == \A s \in Seats : \E h \in DOMAIN holds : holds[h].seat = s

\* An item has what it is granted of what it tried, unless the seats ran out.
Fair(i) ==
    /\ todo[i].left <= Each
    /\ Got(i) <= Limited(SeatQuota, Tried(i))
    /\ Got(i) = Limited(SeatQuota, Tried(i)) \/ Full

\* The live holds are those that are waited for, and the others were confirmed.
Awaiting(h) == \E j \in DOMAIN todo : todo[j].has = h
Kept ==
    \A h \in DOMAIN holds : holds[h].state = IF Awaiting(h) THEN "held" ELSE "confirmed"

Sharing == Booking /\ Steady => Kept /\ \A i \in DOMAIN todo : Fair(i)

LEMMA CountsOfItem ==
    ASSUME PoolInv, NEW i \in DOMAIN todo
    PROVE  /\ todo[i].left \in Nat /\ Each \in Nat /\ Sold(i) \in Nat /\ Got(i) \in Nat
           /\ Awaited(i) \in {0, 1} /\ SeatQuota \in BOOLEAN
           /\ todo[i].left <= Each => Tried(i) \in Nat
<1>1. todo[i].left \in Nat
  BY DEF PoolInv, TodoKnown, ItemRows
<1>2. Each \in Nat
  BY DEF Each, PoolInv, HarnessInv, Configs
<1>3. Sold(i) \in Nat
  BY SoldApart DEF Sold, PoolInv, HarnessInv
<1>4. Awaited(i) \in {0, 1}
  BY DEF Awaited
<1>5. SeatQuota \in BOOLEAN
  BY PolicyAssumption DEF SeatQuota, PoolInv, HarnessInv, TypeOK, AnyPolicy
<1>6. Got(i) \in Nat
  BY <1>3, <1>4 DEF Got
<1>7. todo[i].left <= Each => Tried(i) \in Nat
  BY <1>1, <1>2, <1>4 DEF Tried
<1>8. QED
  BY <1>1, <1>2, <1>3, <1>4, <1>5, <1>6, <1>7

\* No hold lapses under a steady run.
LEMMA KeptInTime ==
    ASSUME PoolInv, OnTime, Steady, Booking, Kept, NEW h \in DOMAIN holds
    PROVE  ~Due(h) /\ Lapsed[h].state = holds[h].state
<1>1. TypeOK /\ LapseKeepsRows /\ now \in Nat /\ config.pace_seconds \in Nat /\ idle \in Nat
      /\ HoldTTL \in Nat
  BY LapsedRows, RestType, SettingsAssumption DEF PoolInv, HarnessInv, TypeOK, OnTime
<1>2. ~Due(h)
  <2>1. CASE Awaiting(h)
    <3>1. PICK i \in DOMAIN todo : todo[i].has = h
      BY <2>1 DEF Awaiting
    <3>2. h # 0
      BY <1>1 DEF LapseKeepsRows
    <3>3. now + HoldTTL <= holds[h].expires + config.pace_seconds + idle
      BY <3>1, <3>2 DEF OnTime, Timely, Booking
    <3>4. config.pace_seconds + idle < HoldTTL
      BY DEF Steady, Unimpeded, InTime
    <3>5. holds[h].expires \in Int
      BY <1>1, ExpiryType
    <3>6. ~(holds[h].expires <= now)
      BY <1>1, <3>3, <3>4, <3>5
    <3>7. QED
      BY <3>6 DEF Due
  <2>2. CASE ~Awaiting(h)
    BY <2>2 DEF Kept, Due
  <2>3. QED
    BY <2>1, <2>2
<1>3. holds[h].state \in {"held", "confirmed"}
  BY DEF Kept
<1>4. QED
  BY <1>1, <1>2, <1>3 DEF LapseKeepsRows

\* A seat that was held once is never without a hold on record.
LEMMA FullStays == ASSUME TypeOK, [Next]_vars, Full PROVE Full'
<1>1. ASSUME NEW s \in Seats PROVE \E h \in DOMAIN holds' : holds'[h].seat = s
  <2>1. PICK h \in DOMAIN holds : holds[h].seat = s
    BY DEF Full
  <2>2. h \in DOMAIN holds' /\ holds'[h].seat = s
    BY <2>1, HoldsStay
  <2>3. QED
    BY <2>2
<1>2. QED
  BY <1>1 DEF Full

LEMMA NoneFree == ASSUME TypeOK, FlowConsistent, FreeSeats(Lapsed) = {} PROVE Full
<1>1. LapseKeepsRows
  BY LapsedRows DEF TypeOK
<1>2. ASSUME NEW s \in Seats PROVE \E h \in DOMAIN holds : holds[h].seat = s
  <2>1. HoldsOn(Lapsed, s, "held") # {} \/ TicketsOn(s) # {}
    BY DEF FreeSeats
  <2>2. ASSUME NEW h \in HoldsOn(Lapsed, s, "held") PROVE h \in DOMAIN holds /\ holds[h].seat = s
    BY <1>1, <2>2 DEF HoldsOn, LapseKeepsRows
  <2>3. ASSUME NEW t \in TicketsOn(s)
        PROVE  tickets[t].hold \in DOMAIN holds /\ holds[tickets[t].hold].seat = s
    BY <2>3 DEF TicketsOn, FlowConsistent
  <2>4. QED
    BY <2>1, <2>2, <2>3
<1>3. QED
  BY <1>2 DEF Full

\* A patron that waits for no hold is charged its tickets.
LEMMA ChargedTheSold ==
    ASSUME PoolInv, OwnHolds, OnTime, Steady, Booking, Kept, NEW i \in DOMAIN todo,
           todo[i].has = 0
    PROVE  SeatsCharged(Lapsed, Patron(i)) = Sold(i)
<1> DEFINE p == Patron(i)
           n == Cardinality(TicketsOf(p))
<1>1. LapseKeepsRows
  BY LapsedRows DEF PoolInv, HarnessInv, TypeOK
<1>2. ASSUME NEW h \in DOMAIN Lapsed, Lapsed[h].patron = p PROVE Lapsed[h].state = "confirmed"
  <2>1. h \in DOMAIN holds /\ holds[h].patron = p /\ h # 0
    BY <1>1, <1>2 DEF LapseKeepsRows
  <2>2. ~Awaiting(h)
    <3> SUFFICES ASSUME NEW j \in DOMAIN todo, todo[j].has = h PROVE FALSE
      BY DEF Awaiting
    <3>1. holds[h].patron = Patron(j)
      BY <2>1 DEF OwnHolds, Booking
    <3>2. j = i
      BY <2>1, <3>1, PatronsDiffer
    <3>3. QED
      BY <2>1, <3>2
  <2>3. QED
    BY <2>1, <2>2, KeptInTime DEF Kept
<1>3. HoldsOf(Lapsed, p, "held") = {} /\ HoldsOf(Lapsed, p, "expired") = {}
  BY <1>2 DEF HoldsOf
<1>4. Sold(i) = n
  BY DEF Sold, SoldTo, TicketsOf
<1>5. n \in Nat /\ ReholdAllowance \in Nat
  BY <1>4, CountsOfItem, SettingsAssumption
<1> HIDE DEF p
<1>6. Cardinality(HoldsOf(Lapsed, p, "held")) = 0 /\ Cardinality(HoldsOf(Lapsed, p, "expired")) = 0
  BY <1>3, FS_EmptySet
<1>7. SeatsCharged(Lapsed, p) = 0 + n + (0 - 0)
  BY <1>5, <1>6 DEF SeatsCharged
<1>8. QED
  BY <1>4, <1>5, <1>7 DEF p
-----------------------------------------------------------------------------
(* The steps of a booking phase. *)

\* An item that nothing happened to has what it had.
LEMMA FairStays ==
    ASSUME UNCHANGED <<phase, config, policy>>, NEW j, Fair(j), Full => Full',
           todo'[j].left = todo[j].left, todo'[j].has = todo[j].has, Sold(j)' = Sold(j)
    PROVE  Fair(j)'
<1>1. Each' = Each /\ (SeatQuota' <=> SeatQuota)
  BY DEF Each, SeatQuota
<1>2. Awaited(j)' = Awaited(j)
  BY DEF Awaited
<1>3. Tried(j)' = Tried(j) /\ Got(j)' = Got(j)
  BY <1>1, <1>2 DEF Tried, Got
<1>4. Limited(SeatQuota, Tried(j))' = Limited(SeatQuota, Tried(j))
  BY <1>1, <1>3 DEF Limited
<1>5. QED
  BY <1>1, <1>3, <1>4 DEF Fair

\* The seats sold to an item's patron, if none is sold to it.
LEMMA SoldStays ==
    ASSUME UNCHANGED <<phase, config, identities, tickets>>, NEW j
    PROVE  Sold(j)' = Sold(j)
<1>1. Patron(j)' = Patron(j)
  BY PatronKept
<1>2. QED
  BY <1>1 DEF Sold, SoldTo

LEMMA HoldShared ==
    ASSUME PoolInv, OwnHolds, TokensLast, LabelsOwn, StampsPaced, OnTime, Steady, Booking, Kept,
           [HarnessNext]_harnessVars, NEW i \in DOMAIN todo, Hold(i), HoldGranted(i),
           \A j \in DOMAIN todo : Fair(j)
    PROVE  Kept' /\ \A j \in DOMAIN todo' : Fair(j)'
<1> DEFINE p == Patron(i)
           n == Len(holds')
<1>1. /\ i \in InWork /\ todo[i].has = 0 /\ TypeOK /\ LapseKeepsRows /\ [Next]_vars
      /\ UNCHANGED <<config, phase, identities>>
  BY HoldCases, LapsedRows, PoolBase DEF PoolInv, HarnessInv, TypeOK
<1>2. p \in patrons
  BY LetIn DEF Steady
<1>3. PICK show \in Shows : PlaceHold(p, show)
  BY DEF HoldGranted
<1>4. Awaits(i, n)
  BY DEF HoldGranted, WalksAway, Steady
<1>5. n \in Nat /\ n \in 0..n
  BY OwnGranted
<1>6. /\ SeatQuota => SeatsCharged(Lapsed, p) < SeatQuotaDefault
      /\ policy' = policy /\ tickets' = tickets
  <2>1. SeatEntitlement(p) = SeatQuotaDefault
    BY PatronsDiffer
  <2>2. HoldAdmitted(Lapsed, p, show) /\ policy' = policy /\ tickets' = tickets
    BY <1>3 DEF PlaceHold
  <2>3. QED
    BY <2>1, <2>2 DEF HoldAdmitted, WithinSeatEntitlement
<1>7. SeatsCharged(Lapsed, p) = Sold(i)
  BY <1>1, ChargedTheSold
<1> HIDE DEF p
<1>8. PlacedRows(p)
  BY <1>1, <1>2, <1>3, PlaceHoldRows
<1>9. /\ DOMAIN holds' = DOMAIN holds \cup {n} /\ n \notin DOMAIN holds
      /\ \A h \in DOMAIN holds : holds'[h] = Lapsed[h]
      /\ holds'[n].state = "held"
  <2>1. holds' \in Seq(HoldRows) /\ Len(holds) \in Nat
    BY <1>8, PoolBase DEF TypeOK, PlacedRows
  <2>2. 1..n = 1..(Len(holds) + 1)
    BY <1>8, <2>1, LenProperties DEF PlacedRows
  <2> HIDE DEF n
  <2>3. Cardinality(1..n) = n /\ Cardinality(1..(Len(holds) + 1)) = Len(holds) + 1
    BY <1>5, <2>1, CardinalityUpTo
  <2>4. n = Len(holds) + 1
    BY <2>2, <2>3
  <2>5. DOMAIN holds = 1..Len(holds)
    BY <1>8 DEF PlacedRows
  <2>6. n \notin 1..Len(holds) /\ 1..(Len(holds) + 1) = 1..Len(holds) \cup {n}
    BY <2>1, <2>4
  <2>7. QED
    BY <1>8, <2>4, <2>5, <2>6 DEF PlacedRows, HoldRow
<1> HIDE DEF n
<1>10. /\ DOMAIN todo' = DOMAIN todo /\ todo'[i].has = n /\ todo'[i].left = todo[i].left
       /\ \A j \in DOMAIN todo : j # i => todo'[j] = todo[j]
  BY <1>1, <1>4, <1>5, AwaitsItems
<1>11. ASSUME NEW h \in DOMAIN holds'
       PROVE  holds'[h].state = IF Awaiting(h)' THEN "held" ELSE "confirmed"
  <2>1. CASE h = n
    BY <1>9, <1>10, <2>1 DEF Awaiting
  <2>2. CASE h # n
    <3>1. h \in DOMAIN holds /\ h # 0
      BY <1>1, <1>9, <2>2 DEF LapseKeepsRows
    <3>2. holds'[h].state = holds[h].state
      BY <1>9, <3>1, KeptInTime
    <3>3. Awaiting(h)' <=> Awaiting(h)
      <4>1. \A j \in DOMAIN todo : todo'[j].has = h <=> todo[j].has = h
        BY <1>1, <1>10, <2>2, <3>1
      <4>2. QED
        BY <1>10, <4>1 DEF Awaiting
    <3>4. QED
      BY <3>1, <3>2, <3>3 DEF Kept
  <2>3. QED
    BY <2>1, <2>2
<1>12. Full => Full'
  BY <1>1, FullStays
<1>13. ASSUME NEW j \in DOMAIN todo, j # i PROVE Fair(j)'
  <2>1. Sold(j)' = Sold(j)
    BY <1>1, <1>6, SoldStays
  <2>2. QED
    BY <1>1, <1>6, <1>10, <1>12, <1>13, <2>1, FairStays
<1>14. Fair(i)'
  <2> DEFINE t == Tried(i)
             g == Got(i)
  <2>1. /\ todo[i].left \in Nat /\ Each \in Nat /\ Sold(i) \in Nat /\ g \in Nat /\ t \in Nat
        /\ SeatQuota \in BOOLEAN /\ todo[i].left <= Each /\ g <= Limited(SeatQuota, t)
        /\ g = Limited(SeatQuota, t) \/ Full
    BY CountsOfItem DEF Fair
  <2>2. g = Sold(i) /\ t = Each - todo[i].left
    BY <1>1, <2>1 DEF Got, Tried, Awaited
  <2>3. SeatQuota => g < SeatQuotaDefault
    BY <1>6, <1>7, <2>2
  <2>4. Each' = Each /\ (SeatQuota' <=> SeatQuota) /\ Sold(i)' = Sold(i)
    BY <1>1, <1>6, SoldStays DEF Each, SeatQuota
  <2>5. Awaited(i)' = 1
    <3>1. n # 0
      BY <1>1, <1>8, <1>9 DEF PlacedRows
    <3>2. QED
      BY <1>10, <3>1 DEF Awaited
  <2>6. Tried(i)' = t + 1 /\ Got(i)' = g + 1
    BY <1>10, <2>1, <2>2, <2>4, <2>5 DEF Tried, Got
  <2>7. Limited(SeatQuota, Tried(i))' = Limited(SeatQuota, t + 1)
    BY <2>4, <2>6 DEF Limited
  <2> HIDE DEF t, g
  <2>8. /\ g + 1 <= Limited(SeatQuota, t + 1)
        /\ g = Limited(SeatQuota, t) => g + 1 = Limited(SeatQuota, t + 1)
    BY <2>1, <2>3, TriedAndGranted
  <2>9. QED
    BY <1>10, <1>12, <2>1, <2>4, <2>6, <2>7, <2>8 DEF Fair
<1>15. QED
  BY <1>10, <1>11, <1>13, <1>14 DEF Kept
LEMMA HoldNotShared ==
    ASSUME PoolInv, OwnHolds, FlowConsistent, TokensLast, LabelsOwn, StampsPaced, OnTime,
           Steady, Booking, Kept, [HarnessNext]_harnessVars, NEW i \in DOMAIN todo, Hold(i),
           ~HoldGranted(i), \A j \in DOMAIN todo : Fair(j)
    PROVE  Kept' /\ \A j \in DOMAIN todo' : Fair(j)'
<1> DEFINE p == Patron(i)
<1>1. /\ i \in InWork /\ todo[i].has = 0 /\ TypeOK
      /\ UNCHANGED <<config, phase, identities, policy, holds, tickets>> /\ Ends(i, FALSE)
  <2>1. /\ i \in InWork /\ todo[i].has = 0 /\ UNCHANGED <<config, phase, identities>>
        /\ HoldRefused(i)
    BY HoldCases
  <2>2. UNCHANGED vars /\ Ends(i, FALSE)
    BY <2>1 DEF HoldRefused
  <2>3. UNCHANGED <<policy, holds, tickets>>
    BY <2>2 DEF vars, db
  <2>4. TypeOK
    BY DEF PoolInv, HarnessInv
  <2>5. QED
    BY <2>1, <2>2, <2>3, <2>4
<1>2. PICK show \in Shows : RefuseHold(p, show)
  BY LetIn, HoldOutcomes DEF Steady
<1>3. (SeatQuota /\ SeatQuotaDefault <= Sold(i)) \/ Full
  <2>1. SeatEntitlement(p) = SeatQuotaDefault /\ SeatsCharged(Lapsed, p) = Sold(i)
    BY <1>1, PatronsDiffer, ChargedTheSold
  <2>2. (SeatQuota /\ ~WithinSeatEntitlement(Lapsed, p)) \/ FreeSeats(Lapsed) = {}
    BY <1>2 DEF RefuseHold, HoldAdmitted
  <2>3. Sold(i) \in Nat /\ SeatQuotaDefault \in Nat
    BY CountsOfItem, SettingsAssumption
  <2>4. ~WithinSeatEntitlement(Lapsed, p) => SeatQuotaDefault <= Sold(i)
    BY <2>1, <2>3 DEF WithinSeatEntitlement
  <2>5. FreeSeats(Lapsed) = {} => Full
    BY <1>1, NoneFree
  <2>6. QED
    BY <2>2, <2>4, <2>5
<1>4. /\ DOMAIN todo' = DOMAIN todo /\ todo'[i].left = todo[i].left - 1 /\ todo'[i].has = 0
      /\ \A j \in DOMAIN todo : j # i => todo'[j].left = todo[j].left /\ todo'[j].has = todo[j].has
      /\ todo[i].left - 1 \in Nat
  BY <1>1, EndsItems
<1>5. Kept'
  <2>1. \A j \in DOMAIN todo : todo'[j].has = todo[j].has
    BY <1>1, <1>4
  <2>2. ASSUME NEW h PROVE Awaiting(h)' <=> Awaiting(h)
    BY <1>4, <2>1 DEF Awaiting
  <2>3. QED
    BY <1>1, <2>2 DEF Kept
<1>6. Full => Full'
  BY <1>1 DEF Full
<1>7. ASSUME NEW j \in DOMAIN todo, j # i PROVE Fair(j)'
  <2>1. Sold(j)' = Sold(j)
    BY <1>1, SoldStays
  <2>2. QED
    BY <1>1, <1>4, <1>6, <1>7, <2>1, FairStays
<1>8. Fair(i)'
  <2> DEFINE t == Tried(i)
             g == Got(i)
  <2>1. /\ todo[i].left \in Nat /\ Each \in Nat /\ Sold(i) \in Nat /\ g \in Nat /\ t \in Nat
        /\ SeatQuota \in BOOLEAN /\ todo[i].left <= Each /\ g <= Limited(SeatQuota, t)
    BY CountsOfItem DEF Fair
  <2>2. g = Sold(i) /\ t = Each - todo[i].left
    BY <1>1, <2>1 DEF Got, Tried, Awaited
  <2>3. Each' = Each /\ (SeatQuota' <=> SeatQuota) /\ Sold(i)' = Sold(i) /\ Awaited(i)' = 0
    BY <1>1, <1>4, SoldStays DEF Each, SeatQuota, Awaited
  <2>4. Tried(i)' = t + 1 /\ Got(i)' = g
    BY <1>4, <2>1, <2>2, <2>3 DEF Tried, Got
  <2>5. Limited(SeatQuota, Tried(i))' = Limited(SeatQuota, t + 1)
    BY <2>3, <2>4 DEF Limited
  <2>6. todo'[i].left <= Each
    BY <1>4, <2>1
  <2> HIDE DEF t
  <2>7. /\ g <= Limited(SeatQuota, t + 1)
        /\ SeatQuota /\ SeatQuotaDefault <= g => g = Limited(SeatQuota, t + 1)
    <3> HIDE DEF g
    <3>1. QED
      BY <2>1, TriedAndRefused
  <2>8. g = Limited(SeatQuota, t + 1) \/ Full
    BY <1>3, <2>2, <2>7
  <2> HIDE DEF g
  <2>9. QED
    BY <1>6, <2>3, <2>4, <2>5, <2>6, <2>7, <2>8 DEF Fair
<1>9. QED
  BY <1>4, <1>5, <1>7, <1>8

LEMMA ConfirmShared ==
    ASSUME PoolInv, OwnHolds, FlowConsistent, TokensLast, LabelsOwn, StampsPaced, OnTime,
           Steady, Booking, Kept, [HarnessNext]_harnessVars, NEW i \in DOMAIN todo, Confirm(i),
           \A j \in DOMAIN todo : Fair(j)
    PROVE  Kept' /\ \A j \in DOMAIN todo' : Fair(j)'
<1> DEFINE p == Patron(i)
           k == todo[i].has
<1>1. /\ i \in InWork /\ k # 0 /\ Ends(i, TRUE) /\ TypeOK /\ LapseKeepsRows /\ [Next]_vars
      /\ UNCHANGED <<config, phase, identities>>
  BY ConfirmCases, LapsedRows, PoolBase DEF PoolInv, HarnessInv, TypeOK
<1>2. p \in patrons /\ Authentic(p) /\ ~RateLimited(i)
  BY LetIn DEF Steady
<1>3. k \in DOMAIN holds /\ holds[k].patron = p
  BY <1>1 DEF OwnHolds, Booking
<1>4. holds[k].state = "held" /\ Lapsed[k].state = "held"
  <2>1. Awaiting(k)
    BY DEF Awaiting
  <2> HIDE DEF k
  <2>2. holds[k].state = "held"
    BY <1>3, <2>1 DEF Kept
  <2>3. Lapsed[k].state = holds[k].state
    BY <1>3, KeptInTime
  <2>4. QED
    BY <2>2, <2>3
<1>5. ConfirmAdmitted(Lapsed, p, k)
  <2> HIDE DEF p, k
  <2>1. k \in DOMAIN flows /\ flows[k] \in FlowRows
    <3>1. k \in DOMAIN flows
      BY <1>1, <1>3, LenProperties DEF TypeOK
    <3>2. QED
      BY <1>1, <3>1, LenProperties, ElementOfSeq DEF TypeOK
  <2>2. flows[k].patron = p /\ (holds[k].state = "confirmed" <=> flows[k].step = "confirmed")
    BY <1>3 DEF FlowConsistent
  <2>3. flows[k].step = "held"
    BY <1>4, <2>1, <2>2 DEF FlowRows
  <2>4. QED
    BY <1>4, <2>1, <2>2, <2>3 DEF ConfirmAdmitted
<1>6. ConfirmHold(p, k)
  <2>1. ~RefuseConfirm(p, k)
    BY <1>5 DEF RefuseConfirm
  <2>2. QED
    BY <1>2, <2>1, ConfirmOutcomes DEF ConfirmGranted
<1>7. ConfirmedRows(p, k) /\ policy' = policy
  <2> HIDE DEF p, k
  <2>1. QED
    BY <1>1, <1>2, <1>6, ConfirmHoldRows DEF ConfirmHold
<1>8. /\ DOMAIN todo' = DOMAIN todo /\ todo'[i].left = todo[i].left - 1 /\ todo'[i].has = 0
      /\ \A j \in DOMAIN todo : j # i => todo'[j].left = todo[j].left /\ todo'[j].has = todo[j].has
      /\ todo[i].left - 1 \in Nat
  BY <1>1, EndsItems
<1>9. \A j \in DOMAIN todo : j # i => todo[j].has # k
  <2>1. ASSUME NEW j \in DOMAIN todo, todo[j].has = k PROVE j = i
    <3>1. holds[k].patron = Patron(j)
      BY <1>1, <2>1 DEF OwnHolds, Booking
    <3>2. QED
      BY <1>3, <3>1, PatronsDiffer
  <2>2. QED
    BY <2>1
<1>10. ASSUME NEW h \in DOMAIN holds'
       PROVE  holds'[h].state = IF Awaiting(h)' THEN "held" ELSE "confirmed"
  <2>1. h \in DOMAIN holds /\ h # 0
        /\ holds'[h].state = IF h = k THEN "confirmed" ELSE Lapsed[h].state
    BY <1>1, <1>7 DEF ConfirmedRows, LapseKeepsRows
  <2>2. Lapsed[h].state = IF Awaiting(h) THEN "held" ELSE "confirmed"
    BY <2>1, KeptInTime DEF Kept
  <2>3. CASE h = k
    <3>1. \A j \in DOMAIN todo : todo'[j].has # k
      BY <1>1, <1>8, <1>9
    <3>2. ~Awaiting(h)'
      BY <1>8, <2>3, <3>1 DEF Awaiting
    <3>3. QED
      BY <2>1, <2>3, <3>2
  <2>4. CASE h # k
    <3>1. \A j \in DOMAIN todo : todo'[j].has = h <=> todo[j].has = h
      BY <1>8, <2>1, <2>4
    <3>2. Awaiting(h)' <=> Awaiting(h)
      BY <1>8, <3>1 DEF Awaiting
    <3>3. QED
      BY <2>1, <2>2, <2>4, <3>2
  <2>5. QED
    BY <2>3, <2>4
<1>11. Full => Full'
  BY <1>1, FullStays
<1>12. ASSUME NEW j \in DOMAIN todo
       PROVE  Sold(j) \in Nat /\ Sold(j)' = Sold(j) + IF j = i THEN 1 ELSE 0
  <2> DEFINE P == {Patron(j)}
  <2>1. p \in P <=> j = i
    BY PatronsDiffer
  <2>2. Sold(j)' = Cardinality({t \in DOMAIN tickets' : tickets'[t].patron \in P})
        /\ Sold(j) = SoldTo(P)
    <3>1. Patron(j)' = Patron(j)
      BY <1>1, PatronKept
    <3>2. QED
      BY <3>1 DEF Sold, SoldTo
  <2> HIDE DEF P, p, k
  <2>3. /\ SoldTo(P) \in Nat
        /\ Cardinality({t \in DOMAIN tickets' : tickets'[t].patron \in P})
             = SoldTo(P) + IF p \in P THEN 1 ELSE 0
    BY <1>1, <1>2, <1>6, SoldOne
  <2>4. QED
    BY <2>1, <2>2, <2>3
<1>13. ASSUME NEW j \in DOMAIN todo, j # i PROVE Fair(j)'
  <2>1. Sold(j)' = Sold(j)
    BY <1>12, <1>13
  <2>2. QED
    BY <1>1, <1>7, <1>8, <1>11, <1>13, <2>1, FairStays
<1>14. Fair(i)'
  <2>1. /\ todo[i].left \in Nat /\ Each \in Nat /\ Sold(i) \in Nat /\ Got(i) \in Nat
        /\ todo[i].left <= Each
    BY CountsOfItem DEF Fair
  <2>2. Each' = Each /\ (SeatQuota' <=> SeatQuota) /\ Sold(i)' = Sold(i) + 1
        /\ Awaited(i)' = 0 /\ Awaited(i) = 1
    BY <1>1, <1>7, <1>8, <1>12 DEF Each, SeatQuota, Awaited
  <2>3. Tried(i)' = Tried(i) /\ Got(i)' = Got(i)
    BY <1>8, <2>1, <2>2 DEF Tried, Got
  <2>4. Limited(SeatQuota, Tried(i))' = Limited(SeatQuota, Tried(i))
    BY <2>2, <2>3 DEF Limited
  <2>5. todo'[i].left <= Each
    BY <1>8, <2>1
  <2>6. QED
    BY <1>11, <2>2, <2>3, <2>4, <2>5 DEF Fair
<1>15. QED
  BY <1>8, <1>10, <1>13, <1>14 DEF Kept
\* An item that nothing was tried of, and whose patron has nothing, is fair.
LEMMA FairAtFirst ==
    ASSUME NEW j, Each' \in Nat, SeatQuota' \in BOOLEAN, todo'[j].left = Each',
           todo'[j].has = 0, Sold(j)' = 0
    PROVE  Fair(j)'
<1>1. Awaited(j)' = 0
  BY DEF Awaited
<1>2. Tried(j)' = 0 /\ Got(j)' = 0
  <2>1. Tried(j)' = Each' - todo'[j].left + Awaited(j)'
    BY DEF Tried
  <2>2. PICK e, t : e = Each' /\ t = Tried(j)'
    OBVIOUS
  <2>3. e \in Nat /\ t = e - e + 0
    BY <1>1, <2>1, <2>2
  <2>4. t = 0
    BY <2>3
  <2>5. Got(j)' = 0
    BY <1>1 DEF Got
  <2>6. QED
    BY <2>2, <2>4, <2>5
<1>3. Limited(SeatQuota', 0) = 0
  <2>1. 0 \in Nat
    OBVIOUS
  <2>2. Limited(SeatQuota', 0) \in Nat /\ Limited(SeatQuota', 0) <= 0
    BY <2>1, LimitedIs
  <2>3. QED
    BY <2>2
<1>4. Limited(SeatQuota, Tried(j))' = 0
  BY <1>2, <1>3 DEF Limited
<1>5. QED
  BY <1>2, <1>4 DEF Fair

LEMMA SharingBegins ==
    ASSUME PoolInv, OperatorFirst, Begun, WorkedOff, Steady, Booking => Kept,
           BeginRound \/ BeginGenuineDemand
    PROVE  Kept' /\ \A j \in DOMAIN todo' : Fair(j)'
<1>1. /\ UNCHANGED <<config, policy, holds, tickets, identities>>
      /\ SeatQuota' \in BOOLEAN /\ Each' \in Nat
  <2>1. UNCHANGED <<config, policy, holds, tickets, identities>>
    BY DEF BeginRound, BeginGenuineDemand, vars, db
  <2>2. Each' \in Nat
    BY <2>1 DEF Each, PoolInv, HarnessInv, Configs
  <2>3. SeatQuota' \in BOOLEAN
    BY <2>1, PolicyAssumption DEF SeatQuota, PoolInv, HarnessInv, TypeOK, AnyPolicy
  <2>4. QED
    BY <2>1, <2>2, <2>3
<1>2. \A j \in DOMAIN todo' : todo'[j].has = 0
  BY ItemsWait
<1>3. CASE BeginRound
  <2>1. holds = << >> /\ tickets = << >> /\ phase' = "operator"
    BY <1>3, OneRound DEF Begun, Steady, BeginRound
  <2>2. Kept'
    BY <1>1, <2>1 DEF Kept
  <2>3. ASSUME NEW j \in DOMAIN todo' PROVE Fair(j)'
    <3>1. todo'[j].left = Each'
      BY <1>1, <1>3, <2>1, <2>3 DEF BeginRound, Items, Each
    <3>2. Sold(j)' = 0
      BY <1>1, <2>1, FS_EmptySet DEF Sold, SoldTo
    <3>3. QED
      BY <1>1, <1>2, <2>3, <3>1, <3>2, FairAtFirst
  <2>4. QED
    BY <2>2, <2>3
<1>4. CASE BeginGenuineDemand
  <2>1. /\ phase = "operator" /\ phase' = "genuine" /\ Unfinished = {}
        /\ todo' = Items(Len(Public), config.genuine_seats_each, RestUntil)
    BY <1>4, OneRound DEF Steady, BeginGenuineDemand
  <2>2. \A h \in DOMAIN holds : holds[h].state = "confirmed"
    <3>1. Waiting = {}
      BY <2>1, NoneWaiting
    <3>2. \A i \in DOMAIN todo : todo[i].has = 0
      BY <2>1, <3>1 DEF Waiting
    <3>3. \A h \in DOMAIN holds : h # 0
      BY LenProperties DEF PoolInv, HarnessInv, TypeOK
    <3>4. \A h \in DOMAIN holds : ~Awaiting(h)
      BY <3>2, <3>3 DEF Awaiting
    <3>5. QED
      BY <2>1, <3>4 DEF Kept, Booking
  <2>3. \A h \in DOMAIN holds : ~Awaiting(h)'
    <3>1. \A h \in DOMAIN holds : h # 0
      BY LenProperties DEF PoolInv, HarnessInv, TypeOK
    <3>2. QED
      BY <1>2, <3>1 DEF Awaiting
  <2>4. Kept'
    BY <1>1, <2>2, <2>3 DEF Kept
  <2>5. DOMAIN todo' = 1..Len(Public)
        /\ \A j \in DOMAIN todo' : todo'[j].left = config.genuine_seats_each
    BY <2>1 DEF Items
  <2>6. Public' = Public /\ DOMAIN Public = 1..Len(Public)
        /\ \A j \in DOMAIN Public : Public[j] \in FixturePatrons
    BY <1>1, PublicIsPrefix DEF PoolInv, HarnessInv, Public
  <2>7. ASSUME NEW j \in DOMAIN todo' PROVE Fair(j)'
    <3>1. todo'[j].left = Each'
      BY <1>1, <2>1, <2>5 DEF Each
    <3>2. Patron(j)' = Public[j] /\ Public[j] \notin SelfService
      BY <2>1, <2>5, <2>6 DEF Patron, SelfService
    <3>3. {t \in DOMAIN tickets : tickets[t].patron \in {Public[j]}} = {}
      BY <2>1, <3>2 DEF OperatorFirst
    <3>4. Sold(j)' = 0
      BY <1>1, <3>2, <3>3, FS_EmptySet DEF Sold, SoldTo
    <3>5. QED
      BY <1>1, <1>2, <2>7, <3>1, <3>4, FairAtFirst
  <2>8. QED
    BY <2>4, <2>7
<1>5. QED
  BY <1>3, <1>4

\* What a proof about a run's bookings rests on, step by step.
Grounds ==
    /\ PoolInv /\ OwnHolds /\ FlowConsistent /\ TokensLast /\ LabelsOwn /\ StampsPaced
    /\ OnTime /\ OperatorFirst /\ Begun /\ WorkedOff

LEMMA SharingStep == Grounds /\ Sharing /\ [HarnessNext]_harnessVars => Sharing'
<1> SUFFICES ASSUME Grounds, Sharing, [HarnessNext]_harnessVars, Booking', Steady'
             PROVE  Kept' /\ \A j \in DOMAIN todo' : Fair(j)'
  BY DEF Sharing
<1>1. PoolInv /\ OwnHolds /\ FlowConsistent /\ TokensLast /\ LabelsOwn /\ StampsPaced
      /\ OnTime /\ OperatorFirst /\ Begun /\ WorkedOff
  BY DEF Grounds
<1>2. Steady /\ policy' = policy
  BY <1>1, SteadyBefore, PoolBase, PolicyStays DEF OnTime
<1>3. Booking => Kept /\ \A j \in DOMAIN todo : Fair(j)
  BY <1>2 DEF Sharing
<1>4. ASSUME NEW i \in DOMAIN todo, Hold(i) PROVE Kept' /\ \A j \in DOMAIN todo' : Fair(j)'
  <2>1. Booking
    BY <1>4, HoldCases DEF Booking
  <2>2. CASE HoldGranted(i)
    BY <1>1, <1>2, <1>3, <1>4, <2>1, <2>2, HoldShared
  <2>3. CASE ~HoldGranted(i)
    BY <1>1, <1>2, <1>3, <1>4, <2>1, <2>3, HoldNotShared
  <2>4. QED
    BY <2>2, <2>3
<1>5. ASSUME NEW i \in DOMAIN todo, Confirm(i) PROVE Kept' /\ \A j \in DOMAIN todo' : Fair(j)'
  <2>1. Booking
    BY <1>5, ConfirmCases DEF Booking
  <2>2. QED
    BY <1>1, <1>2, <1>3, <1>5, <2>1, ConfirmShared
<1>6. CASE BeginRound \/ BeginGenuineDemand
  BY <1>1, <1>2, <1>3, <1>6, SharingBegins
<1>7. CASE Elapse \/ UNCHANGED harnessVars
  <2>1. UNCHANGED <<config, phase, identities, holds, tickets, todo>>
    BY <1>7 DEF Elapse, Tick, db, vars, harness, harnessVars
  <2>2. Kept /\ \A j \in DOMAIN todo : Fair(j)
    BY <1>3, <2>1 DEF Booking
  <2>3. Kept'
    BY <2>1, <2>2 DEF Kept, Awaiting
  <2>4. ASSUME NEW j \in DOMAIN todo PROVE Fair(j)'
    <3>1. Sold(j)' = Sold(j)
      BY <2>1, SoldStays
    <3>2. Full => Full'
      BY <2>1 DEF Full
    <3>3. QED
      BY <1>2, <2>1, <2>2, <2>4, <3>1, <3>2, FairStays
  <2>5. QED
    BY <2>1, <2>3, <2>4
<1>8. CASE Reconcile \/ \E i \in DOMAIN todo : PayChallenge(i) \/ Register(i)
  <2>1. phase' \in {"register", "done"}
    BY <1>8, RegisterCases DEF Reconcile, PayChallenge
  <2>2. QED
    BY <2>1 DEF Booking
<1>9. QED
  BY <1>4, <1>5, <1>6, <1>7, <1>8 DEF HarnessNext, HarnessStep, Finished
-----------------------------------------------------------------------------
(* What a phase comes to. *)

Makes(n, each, total) == total = n * each
AllOf(f, n) == {f[i] : i \in 1..n}

\* Patron by patron: if each has at most so much, all of them have at most as
\* much as there are of them times that, and exactly as much if each has it.
LEMMA SoldEach ==
    ASSUME TypeOK, NEW n \in Nat, NEW each \in Nat, NEW f, DOMAIN f = 1..n,
           \A i, j \in 1..n : f[i] = f[j] => i = j,
           \A i \in 1..n : SoldTo({f[i]}) <= each, NEW total, Makes(n, each, total)
    PROVE  /\ SoldTo(AllOf(f, n)) <= total
           /\ (\A i \in 1..n : SoldTo({f[i]}) = each) => SoldTo(AllOf(f, n)) = total
<1> DEFINE buyers(k) == {f[i] : i \in 1..k}
           alike == \A i \in 1..n : SoldTo({f[i]}) = each
           sum(k) == SoldTo(buyers(k)) <= k * each /\ (alike => SoldTo(buyers(k)) = k * each)
           C == {k \in Nat : k <= n /\ ~sum(k)}
<1>1. C = {}
  <2> SUFFICES ASSUME C # {} PROVE FALSE
    OBVIOUS
  <2>1. PICK k \in C : \A m \in C : k <= m
    <3>1. C \in SUBSET Nat
      OBVIOUS
    <3> HIDE DEF C
    <3>2. QED
      BY <3>1, LeastExists
  <2>2. k \in Nat /\ k <= n /\ ~sum(k)
    OBVIOUS
  <2>3. k # 0
    <3>1. buyers(0) = {}
      OBVIOUS
    <3>2. SoldTo({}) = 0
      BY FS_EmptySet DEF SoldTo
    <3>3. 0 * each = 0
      OBVIOUS
    <3> HIDE DEF buyers, C, alike
    <3>4. SoldTo(buyers(0)) = 0
      BY <3>1, <3>2
    <3>5. sum(0)
      BY <3>3, <3>4 DEF sum
    <3> HIDE DEF sum
    <3>6. QED
      BY <2>2, <3>5
  <2> DEFINE m == k - 1
  <2>4. m \in Nat /\ m <= n /\ k = m + 1 /\ ~(k <= m) /\ k \in 1..n
    BY <2>2, <2>3
  <2>5. sum(m)
    <3>1. m \notin C
      BY <2>1, <2>4
    <3> HIDE DEF sum
    <3>2. QED
      BY <2>4, <3>1
  <2> HIDE DEF m
  <2>6. buyers(k) = buyers(m) \cup {f[k]} /\ buyers(m) \cap {f[k]} = {}
    <3>1. 1..k = (1..m) \cup {k} /\ k \notin 1..m /\ 1..m \subseteq 1..n
      BY <2>4
    <3>2. QED
      BY <2>4, <3>1
  <2>7. SoldTo({f[k]}) <= each /\ (alike => SoldTo({f[k]}) = each)
    BY <2>4
  <2> HIDE DEF buyers, C, alike
  <2>8. /\ SoldTo(buyers(k)) = SoldTo(buyers(m)) + SoldTo({f[k]})
        /\ SoldTo(buyers(m)) \in Nat /\ SoldTo({f[k]}) \in Nat
    BY <2>6, SoldApart
  <2> DEFINE x == m * each
             y == k * each
  <2>9. x \in Nat /\ y = x + each
    <3>1. m \in Nat /\ k = m + 1
      BY <2>4
    <3>2. m * each \in Nat
      BY <3>1
    <3>3. (m + 1) * each = m * each + each
      BY <3>1, OneStepFurther
    <3>4. QED
      BY <3>1, <3>2, <3>3
  <2>10. SoldTo(buyers(m)) <= x /\ (alike => SoldTo(buyers(m)) = x)
    BY <2>5 DEF sum
  <2>11. ~(SoldTo(buyers(k)) <= y /\ (alike => SoldTo(buyers(k)) = y))
    BY <2>2 DEF sum
  <2> HIDE DEF x, y
  <2>12. QED
    BY <2>7, <2>8, <2>9, <2>10, <2>11
<1>2. sum(n)
  <2>1. n \in Nat /\ n <= n
    OBVIOUS
  <2> HIDE DEF sum
  <2>2. QED
    BY <1>1, <2>1
<1>3. total = n * each
  BY DEF Makes
<1>4. QED
  BY <1>2, <1>3 DEF AllOf

\* No more tickets than seats; as many, if every seat is ticketed.
LEMMA TicketSeats ==
    ASSUME TypeOK, SeatExclusive
    PROVE  /\ Len(tickets) \in Nat /\ Len(tickets) <= SeatsAllocated
           /\ (\A s \in Seats : TicketsOn(s) # {}) => Len(tickets) = SeatsAllocated
<1> DEFINE n == Len(tickets)
           f == [t \in 1..n |-> tickets[t].seat]
           T == {tickets[t].seat : t \in 1..n}
<1>1. n \in Nat /\ DOMAIN tickets = 1..n /\ \A t \in 1..n : tickets[t].seat \in Seats
  <2>1. tickets \in Seq(TicketRows)
    BY DEF TypeOK
  <2>2. n \in Nat /\ DOMAIN tickets = 1..n
    BY <2>1, LenProperties
  <2> HIDE DEF n
  <2>3. \A t \in 1..n : tickets[t] \in TicketRows
    BY <2>1, <2>2, LenProperties
  <2>4. QED
    BY <2>2, <2>3 DEF TicketRows
<1>2. \A t, u \in 1..n : tickets[t].seat = tickets[u].seat => t = u
  BY <1>1 DEF SeatExclusive
<1>3. T \subseteq Seats /\ ((\A s \in Seats : TicketsOn(s) # {}) => T = Seats)
  BY <1>1 DEF TicketsOn
<1>4. f \in [1..n -> T] /\ (\A t, u \in 1..n : f[t] = f[u] => t = u)
      /\ \A s \in T : \E t \in 1..n : f[t] = s
  BY <1>2
<1>5. SeatsAllocated \in Nat
  BY SettingsAssumption
<1> HIDE DEF n, f, T
<1>6. IsFiniteSet(1..n) /\ Cardinality(1..n) = n
  BY <1>1, IntervalCount
<1>7. Cardinality(T) = n
  BY <1>4, <1>6, InjectiveImage
<1>8. IsFiniteSet(Seats) /\ Cardinality(Seats) = SeatsAllocated
  BY <1>5, IntervalCount DEF Seats
<1>9. Cardinality(T) <= Cardinality(Seats)
  BY <1>3, <1>8, FS_Subset
<1>10. QED
  BY <1>1, <1>3, <1>7, <1>8, <1>9 DEF n

\* When a phase is worked off each hold is a ticket, and each item has been
\* tried as often as it was to be.
LEMMA WorkedThrough ==
    ASSUME PoolInv, WorkedOff, FlowConsistent, SeatExclusive, Booking, Kept, Unfinished = {}
    PROVE  /\ \A i \in DOMAIN todo : todo[i].left = 0 /\ todo[i].has = 0
           /\ \A h \in DOMAIN holds : holds[h].state = "confirmed"
           /\ Full => Len(tickets) = SeatsAllocated
<1>1. \A i \in DOMAIN todo : todo[i].left = 0 /\ todo[i].has = 0
  <2>1. Waiting = {}
    BY NoneWaiting DEF Booking
  <2>2. ASSUME NEW i \in DOMAIN todo PROVE todo[i].left = 0
    <3>1. todo[i].left \in Nat
      BY DEF PoolInv, TodoKnown, ItemRows
    <3>2. ~(todo[i].left > 0)
      BY DEF Unfinished
    <3>3. QED
      BY <3>1, <3>2
  <2>3. QED
    BY <2>1, <2>2 DEF Waiting, Booking
<1>2. \A h \in DOMAIN holds : holds[h].state = "confirmed"
  <2>1. \A h \in DOMAIN holds : h # 0
    BY LenProperties DEF PoolInv, HarnessInv, TypeOK
  <2>2. \A h \in DOMAIN holds : ~Awaiting(h)
    BY <1>1, <2>1 DEF Awaiting
  <2>3. QED
    BY <2>2 DEF Kept
<1>3. ASSUME Full, NEW s \in Seats PROVE TicketsOn(s) # {}
  <2>1. PICK h \in DOMAIN holds : holds[h].seat = s
    BY <1>3 DEF Full
  <2>2. PICK t \in DOMAIN tickets : tickets[t].hold = h
    BY <1>2 DEF FlowConsistent
  <2>3. tickets[t].seat = s
    BY <2>1, <2>2 DEF FlowConsistent
  <2>4. QED
    BY <2>3 DEF TicketsOn
<1>4. Full => Len(tickets) = SeatsAllocated
  <2>1. Full => \A s \in Seats : TicketsOn(s) # {}
    BY <1>3
  <2>2. QED
    BY <2>1, TicketSeats DEF PoolInv, HarnessInv
<1>5. QED
  BY <1>1, <1>2, <1>4

\* All patrons of the phase together have what each was granted, or every seat
\* was sold.
LEMMA PhaseSold ==
    ASSUME PoolInv, WorkedOff, FlowConsistent, SeatExclusive, Steady, Booking, Kept,
           \A i \in DOMAIN todo : Fair(i), Unfinished = {}, NEW n \in Nat, DOMAIN todo = 1..n
    PROVE  /\ Limited(SeatQuota, Each) \in Nat
           /\ SoldTo({Patron(i) : i \in 1..n}) <= n * Limited(SeatQuota, Each)
           /\ \/ SoldTo({Patron(i) : i \in 1..n}) = n * Limited(SeatQuota, Each)
              \/ Len(tickets) = SeatsAllocated
<1> DEFINE each == Limited(SeatQuota, Each)
           f == [i \in 1..n |-> Patron(i)]
<1>1. TypeOK /\ each \in Nat
  <2>1. TypeOK /\ Each \in Nat
    BY DEF Each, PoolInv, HarnessInv, Configs
  <2>2. SeatQuota \in BOOLEAN
    BY PolicyAssumption DEF SeatQuota, PoolInv, HarnessInv, TypeOK, AnyPolicy
  <2>3. QED
    BY <2>1, <2>2, LimitedIs
<1>2. ASSUME NEW i \in 1..n
      PROVE  Sold(i) <= each /\ (Sold(i) = each \/ Len(tickets) = SeatsAllocated)
  <2>1. todo[i].left = 0 /\ todo[i].has = 0 /\ (Full => Len(tickets) = SeatsAllocated)
    BY WorkedThrough
  <2>2. Sold(i) \in Nat /\ Each \in Nat
    BY CountsOfItem
  <2>3. Tried(i) = Each /\ Got(i) = Sold(i)
    BY <2>1, <2>2 DEF Tried, Got, Awaited
  <2>4. Got(i) <= Limited(SeatQuota, Tried(i))
        /\ (Got(i) = Limited(SeatQuota, Tried(i)) \/ Full)
    BY DEF Fair
  <2>5. QED
    BY <2>1, <2>3, <2>4
<1>3. DOMAIN f = 1..n /\ \A i \in 1..n : f[i] = Patron(i)
  OBVIOUS
<1>4. \A i, j \in 1..n : f[i] = f[j] => i = j
  BY <1>3, PatronsDiffer
<1>5. \A i \in 1..n : SoldTo({f[i]}) = Sold(i)
  BY <1>3 DEF Sold
<1>6. {f[i] : i \in 1..n} = {Patron(i) : i \in 1..n}
  BY <1>3
<1>7. \A i \in 1..n : SoldTo({f[i]}) <= each
  BY <1>2, <1>5
<1>8. PICK e : e = each
  OBVIOUS
<1>9. PICK F : F = f
  OBVIOUS
<1> HIDE DEF each, f
<1>10. PICK P : P = AllOf(F, n)
  OBVIOUS
<1>11. PICK total : Makes(n, e, total) /\ total = n * e
  BY DEF Makes
<1>12. /\ e \in Nat /\ DOMAIN F = 1..n
       /\ \A i, j \in 1..n : F[i] = F[j] => i = j
       /\ \A i \in 1..n : SoldTo({F[i]}) <= e
  BY <1>1, <1>3, <1>4, <1>7, <1>8, <1>9
<1>13. SoldTo(P) <= total /\ ((\A i \in 1..n : SoldTo({F[i]}) = e) => SoldTo(P) = total)
  BY <1>1, <1>10, <1>11, <1>12, SoldEach
<1>14. (\A i \in 1..n : SoldTo({F[i]}) = e) \/ Len(tickets) = SeatsAllocated
  BY <1>2, <1>5, <1>8, <1>9
<1>15. P = {Patron(i) : i \in 1..n}
  BY <1>6, <1>9, <1>10 DEF AllOf
<1>16. QED
  BY <1>1, <1>8, <1>11, <1>13, <1>14, <1>15 DEF each
LEMMA LesserOf ==
    ASSUME NEW a \in Nat, NEW b \in Nat, NEW x \in Nat, x <= a, x <= b, x = a \/ x = b
    PROVE  x = Min({a, b})
<1>1. a \in Int /\ b \in Int
  OBVIOUS
<1> DEFINE m == Min({a, b})
<1>2. m \in {a, b} /\ m <= a /\ m <= b
  BY <1>1, MinOfTwo
<1> HIDE DEF m
<1>3. x = m
  BY <1>2
<1>4. QED
  BY <1>3 DEF m

\* The operator is granted the identities that the references are good for ...
Identified == Unimpeded /\ phase # "register" => Cardinality(SelfService) = SequentialIdentities

\* ... and is sold all its identities are granted, or every seat there is.
OperatorSold ==
    Steady /\ phase \in {"genuine", "done"} => SoldTo(SelfService) = SequentialOperatorSeats

LEMMA OperatorSells ==
    ASSUME Grounds, SeatExclusive, Steady, Sharing, Identified, phase = "operator",
           Unfinished = {}
    PROVE  SoldTo(SelfService) = SequentialOperatorSeats
<1> DEFINE n == Cardinality(SelfService)
           e == Limited(SeatQuota, Each)
           x == n * e
           L == Len(tickets)
<1>1. /\ PoolInv /\ WorkedOff /\ FlowConsistent /\ Booking /\ Kept /\ TypeOK
      /\ \A i \in DOMAIN todo : Fair(i)
  BY DEF Grounds, Booking, Sharing, PoolInv, HarnessInv
<1>2. n \in Nat /\ DOMAIN todo = 1..n /\ SelfService = 1..n
  <2>1. IsFiniteSet(SelfService)
    BY <1>1, FS_Subset DEF TypeOK, SelfService
  <2>2. n \in Nat
    BY <2>1, FS_CardinalityType
  <2>3. QED
    BY <1>1, <2>2 DEF PoolInv, ItemsOfPhase, IdsNumbered
<1>3. SelfService = {Patron(i) : i \in 1..n}
  <2>1. \A i \in 1..n : Patron(i) = i
    BY <1>1, <1>2, PatronKnown
  <2> HIDE DEF n
  <2>2. QED
    BY <1>2, <2>1
<1>4. SoldTo(SelfService) = L
  <2>1. {t \in DOMAIN tickets : tickets[t].patron \in SelfService} = DOMAIN tickets
    BY DEF Grounds, OperatorFirst
  <2>2. DOMAIN tickets = 1..L /\ L \in Nat
    BY <1>1, LenProperties DEF TypeOK
  <2>3. QED
    BY <2>1, <2>2, CardinalityUpTo DEF SoldTo
<1>5. L \in Nat /\ L <= SeatsAllocated /\ SeatsAllocated \in Nat
  BY <1>1, TicketSeats, SettingsAssumption
<1> HIDE DEF n
<1>6. /\ e \in Nat
      /\ SoldTo({Patron(i) : i \in 1..n}) <= x
      /\ SoldTo({Patron(i) : i \in 1..n}) = x \/ L = SeatsAllocated
  BY <1>1, <1>2, PhaseSold
<1>7. e = SequentialEach(config.operator_seats_per_identity) /\ n = SequentialIdentities
  BY DEF Each, SequentialEach, Limited, Identified, Steady, n
<1> HIDE DEF e, L
<1>8. x \in Nat
  BY <1>2, <1>6
<1>9. SequentialOperatorSeats = Min({SeatsAllocated, x})
  BY <1>7 DEF SequentialOperatorSeats
<1> HIDE DEF x
<1>10. L <= x /\ (L = x \/ L = SeatsAllocated)
  BY <1>3, <1>4, <1>6
<1>11. L = Min({SeatsAllocated, x})
  BY <1>5, <1>8, <1>10, LesserOf
<1>12. QED
  BY <1>4, <1>9, <1>11

LEMMA OperatorSoldStep ==
    ASSUME Grounds, SeatExclusive, Sharing, Identified, OperatorSold, [HarnessNext]_harnessVars
    PROVE  OperatorSold'
<1> SUFFICES ASSUME Steady', phase' \in {"genuine", "done"}
             PROVE  SoldTo(SelfService)' = SequentialOperatorSeats'
  BY DEF OperatorSold
<1>1. PoolInv /\ idle \in Nat /\ TypeOK /\ config' = config
  BY PoolBase DEF Grounds, OnTime, PoolInv, HarnessInv
<1>2. Steady /\ policy' = policy
  BY <1>1, SteadyBefore, PoolBase, PolicyStays
<1>3. SequentialOperatorSeats' = SequentialOperatorSeats
  BY <1>1, <1>2
     DEF SequentialOperatorSeats, SequentialIdentities, SequentialEach, SeatQuota,
         GovernedIdentitySupply, Offered
<1>4. ASSUME UNCHANGED <<patrons, tickets>> PROVE SoldTo(SelfService)' = SoldTo(SelfService)
  BY <1>4 DEF SoldTo, SelfService
<1>5. CASE BeginGenuineDemand
  <2>1. phase = "operator" /\ Unfinished = {} /\ UNCHANGED <<patrons, tickets>>
    BY <1>1, <1>2, <1>5, OneRound DEF Grounds, Steady, BeginGenuineDemand, vars, db
  <2>2. SoldTo(SelfService) = SequentialOperatorSeats
    BY <1>2, <2>1, OperatorSells
  <2>3. QED
    BY <1>3, <1>4, <2>1, <2>2
<1>6. CASE phase \in {"genuine", "done"}
  <2>1. SoldTo(SelfService) = SequentialOperatorSeats
    BY <1>2, <1>6 DEF OperatorSold
  <2>2. ASSUME NEW i \in DOMAIN todo, Confirm(i) PROVE SoldTo(SelfService)' = SoldTo(SelfService)
    <3> DEFINE p == Patron(i)
               k == todo[i].has
    <3>1. CASE ConfirmRefused(i)
      BY <1>4, <3>1 DEF ConfirmRefused, vars, db
    <3>2. CASE ConfirmGranted(i)
      <4>1. phase = "genuine"
        BY <1>6, <2>2, ConfirmCases
      <4>2. p \in FixturePatrons /\ ConfirmHold(p, k)
        BY <1>1, <3>2, <4>1, PatronKnown DEF ConfirmGranted
      <4> DEFINE P == SelfService
      <4>3. p \in patrons /\ p \notin P /\ SelfService' = P
        BY <1>1, <4>2 DEF TypeOK, SelfService, ConfirmHold
      <4>4. SoldTo(SelfService)' = Cardinality({t \in DOMAIN tickets' : tickets'[t].patron \in P})
            /\ SoldTo(SelfService) = SoldTo(P)
        BY <4>3 DEF SoldTo
      <4> HIDE DEF P, p, k
      <4>5. /\ SoldTo(P) \in Nat
            /\ Cardinality({t \in DOMAIN tickets' : tickets'[t].patron \in P})
                 = SoldTo(P) + IF p \in P THEN 1 ELSE 0
        BY <1>1, <4>2, <4>3, SoldOne
      <4>6. QED
        BY <4>3, <4>4, <4>5
    <3>3. QED
      BY <2>2, <3>1, <3>2, ConfirmCases
  <2>3. ASSUME NEW i \in DOMAIN todo, Hold(i) PROVE UNCHANGED <<patrons, tickets>>
    <3>1. CASE HoldRefused(i)
      BY <3>1 DEF HoldRefused, vars, db
    <3>2. CASE HoldGranted(i)
      BY <3>2 DEF HoldGranted, PlaceHold
    <3>3. QED
      BY <2>3, <3>1, <3>2, HoldCases
  <2>4. CASE Reconcile \/ Elapse \/ UNCHANGED harnessVars
    <3>1. UNCHANGED <<patrons, tickets>>
      BY <2>4 DEF Reconcile, ReadShow, Elapse, Tick, db, vars, harnessVars
    <3>2. QED
      BY <1>3, <1>4, <2>1, <3>1
  <2>5. CASE \E i \in DOMAIN todo : Hold(i) \/ Confirm(i)
    BY <1>3, <1>4, <2>1, <2>2, <2>3, <2>5
  <2>6. CASE (\E i \in DOMAIN todo : PayChallenge(i) \/ Register(i)) \/ BeginRound
    BY <1>6, <2>6, RegisterCases DEF PayChallenge, BeginRound
  <2>7. QED
    BY <1>5, <2>4, <2>5, <2>6 DEF HarnessNext, HarnessStep, Finished
<1>7. CASE phase \notin {"genuine", "done"}
  <2>1. ASSUME NEW i \in DOMAIN todo,
               PayChallenge(i) \/ Register(i) \/ Hold(i) \/ Confirm(i)
        PROVE  phase' = phase
    BY <2>1, RegisterCases, HoldCases, ConfirmCases DEF PayChallenge
  <2>2. ~BeginRound /\ ~Reconcile /\ ~Elapse /\ ~UNCHANGED harnessVars
    BY <1>7 DEF BeginRound, Reconcile, Elapse, harnessVars, harness
  <2>3. BeginGenuineDemand
    BY <1>7, <2>1, <2>2 DEF HarnessNext, HarnessStep, Finished
  <2>4. QED
    BY <1>5, <2>3
<1>8. QED
  BY <1>6, <1>7

\* The public is sold what the operator left, up to what each of it is granted.
LEMMA PublicSold ==
    ASSUME Grounds, SeatExclusive, Steady, Sharing, OperatorSold, HoldersServed,
           phase = "genuine", Unfinished = {}
    PROVE  /\ SoldTo(FixturePatrons) = SequentialGenuineSeats
           /\ Len(tickets) = SequentialOperatorSeats + SequentialGenuineSeats
           /\ SequentialOperatorSeats \in Nat /\ SequentialGenuineSeats \in Nat
           /\ \A h \in DOMAIN holds : holds[h].state = "confirmed"
<1> DEFINE n == Len(Public)
           e == Limited(SeatQuota, Each)
           x == n * e
           L == Len(tickets)
           S == SoldTo(SelfService)
           G == SoldTo(FixturePatrons)
<1>1. /\ PoolInv /\ WorkedOff /\ FlowConsistent /\ Booking /\ Kept /\ TypeOK
      /\ \A i \in DOMAIN todo : Fair(i)
  BY DEF Grounds, Booking, Sharing, PoolInv, HarnessInv
<1>2. n \in Nat /\ DOMAIN todo = 1..n /\ DOMAIN Public = 1..n
      /\ \A i \in DOMAIN Public : Public[i] \in FixturePatrons
  BY <1>1, PublicIsPrefix DEF PoolInv, HarnessInv, ItemsOfPhase
<1>3. {t \in DOMAIN tickets : tickets[t].patron \in FixturePatrons}
        = {t \in DOMAIN tickets : tickets[t].patron \in Customers}
  <2>1. Customers \subseteq FixturePatrons /\ SelfService \cap FixturePatrons = {}
    BY <1>2 DEF Customers, SelfService
  <2>2. QED
    BY <2>1 DEF HoldersServed
<1>4. Customers = {Patron(i) : i \in 1..n}
  BY <1>2 DEF Customers, Patron
<1>5. G = SoldTo({Patron(i) : i \in 1..n})
  BY <1>3, <1>4 DEF SoldTo
<1>6. S \in Nat /\ G \in Nat /\ L = S + G
  <2>1. S \in Nat /\ G \in Nat
        /\ SoldTo(SelfService \cup FixturePatrons) = S + G
    <3>1. SelfService \cap FixturePatrons = {}
      BY DEF SelfService
    <3>2. QED
      BY <1>1, <3>1, SoldApart
  <2>2. {t \in DOMAIN tickets : tickets[t].patron \in SelfService \cup FixturePatrons}
          = DOMAIN tickets
    <3>1. Customers \subseteq FixturePatrons
      BY <1>2 DEF Customers
    <3>2. QED
      BY <3>1 DEF HoldersServed
  <2>3. DOMAIN tickets = 1..L /\ L \in Nat
    BY <1>1, LenProperties DEF TypeOK
  <2>4. SoldTo(SelfService \cup FixturePatrons) = L
    BY <2>2, <2>3, CardinalityUpTo DEF SoldTo
  <2>5. QED
    BY <2>1, <2>4
<1>7. L \in Nat /\ L <= SeatsAllocated /\ SeatsAllocated \in Nat
  BY <1>1, TicketSeats, SettingsAssumption
<1> HIDE DEF n
<1>8. /\ e \in Nat
      /\ SoldTo({Patron(i) : i \in 1..n}) <= x
      /\ SoldTo({Patron(i) : i \in 1..n}) = x \/ L = SeatsAllocated
  BY <1>1, <1>2, PhaseSold
<1>9. S = SequentialOperatorSeats
  BY DEF OperatorSold
<1>10. e = SequentialEach(config.genuine_seats_each)
  BY DEF Each, SequentialEach, Limited
<1> HIDE DEF e, L, S, G
<1>11. x \in Nat
  BY <1>2, <1>8
<1>12. SequentialGenuineSeats = Min({SeatsAllocated - S, x})
  BY <1>9, <1>10 DEF SequentialGenuineSeats, n
<1> HIDE DEF x
<1>13. G <= x /\ (G = x \/ L = SeatsAllocated)
  BY <1>5, <1>8
<1>14. SeatsAllocated - S \in Nat /\ G <= SeatsAllocated - S
       /\ (G = x \/ G = SeatsAllocated - S)
  BY <1>6, <1>7, <1>13
<1> DEFINE rest == SeatsAllocated - S
<1>15. rest \in Nat /\ G <= rest /\ (G = x \/ G = rest)
  BY <1>14
<1>16. SequentialGenuineSeats = Min({rest, x})
  BY <1>12
<1> HIDE DEF rest
<1>17. G = Min({rest, x})
  BY <1>6, <1>11, <1>13, <1>15, LesserOf
<1>18. \A h \in DOMAIN holds : holds[h].state = "confirmed"
  BY <1>1, WorkedThrough
<1>19. QED
  BY <1>6, <1>9, <1>16, <1>17, <1>18 DEF G, L
-----------------------------------------------------------------------------
(* Every item's seats are tried one by one, and every seat granted is asked  *)
(* for twice: to be held, and to be confirmed.                               *)

LeftOf(items) == Total([i \in DOMAIN items |-> items[i].left], DOMAIN items)

LEMMA LeftSame ==
    ASSUME NEW a, NEW b, DOMAIN b = DOMAIN a, IsFiniteSet(DOMAIN a),
           \A i \in DOMAIN a : b[i].left = a[i].left
    PROVE  LeftOf(b) = LeftOf(a)
<1> DEFINE f == [i \in DOMAIN a |-> a[i].left]
           g == [i \in DOMAIN b |-> b[i].left]
           S == DOMAIN a
<1>1. IsFiniteSet(S) /\ \A i \in S : f[i] = g[i]
  OBVIOUS
<1>2. LeftOf(a) = Total(f, S) /\ LeftOf(b) = Total(g, S)
  BY DEF LeftOf
<1> HIDE DEF f, g, S
<1>3. QED
  BY <1>1, <1>2, TotalSame

LEMMA LeftDrops ==
    ASSUME NEW a, NEW b, DOMAIN b = DOMAIN a, IsFiniteSet(DOMAIN a), NEW i \in DOMAIN a,
           \A j \in DOMAIN a : a[j].left \in Nat, a[i].left - 1 \in Nat,
           b[i].left = a[i].left - 1, \A j \in DOMAIN a : j # i => b[j].left = a[j].left
    PROVE  LeftOf(b) \in Nat /\ LeftOf(a) = LeftOf(b) + 1
<1> DEFINE f == [j \in DOMAIN a |-> a[j].left]
           g == [j \in DOMAIN b |-> b[j].left]
           S == DOMAIN a
           R == S \ {i}
<1>1. /\ IsFiniteSet(S) /\ i \in S /\ IsFiniteSet(R)
      /\ \A j \in R : f[j] = g[j]
      /\ \A j \in S : f[j] \in Nat
      /\ g[i] \in Nat /\ f[i] = g[i] + 1
  BY FS_Subset
<1>2. \A j \in S : g[j] \in Nat
  BY <1>1
<1>3. LeftOf(a) = Total(f, S) /\ LeftOf(b) = Total(g, S)
  BY DEF LeftOf
<1>4. R = S \ {i} /\ \A j \in R : f[j] \in Nat
  BY <1>1
<1> HIDE DEF f, g, S, R
<1>5. Total(f, R) = Total(g, R) /\ Total(f, R) \in Nat
  BY <1>1, <1>4, TotalSame, TotalNat
<1>6. IsFiniteSet(S) /\ i \in S /\ R = S \ {i}
  BY <1>1, <1>4
<1>7. Total(f, S) = f[i] + Total(f, R)
  <2>1. \A j \in S : f[j] \in Nat
    BY <1>1
  <2>2. QED
    BY <1>6, <2>1, TotalAny
<1>8. Total(g, S) = g[i] + Total(g, R)
  BY <1>2, <1>6, TotalAny
<1>9. Total(f, S) \in Nat /\ Total(g, S) \in Nat
  BY <1>1, <1>2, TotalNat
<1>10. QED
  BY <1>1, <1>3, <1>5, <1>7, <1>8, <1>9

LEMMA LeftAlike ==
    ASSUME NEW items, NEW n \in Nat, NEW c \in Nat, DOMAIN items = 1..n,
           \A i \in 1..n : items[i].left = c
    PROVE  LeftOf(items) = n * c
<1> DEFINE f == [i \in DOMAIN items |-> items[i].left]
           C == {k \in Nat : k <= n /\ Total(f, 1..k) # k * c}
<1>1. \A i \in 1..n : f[i] = c
  OBVIOUS
<1>2. LeftOf(items) = Total(f, 1..n)
  BY DEF LeftOf
<1> HIDE DEF f
<1>3. C = {}
  <2> SUFFICES ASSUME C # {} PROVE FALSE
    OBVIOUS
  <2>1. PICK k \in C : \A m \in C : k <= m
    <3>1. C \in SUBSET Nat
      OBVIOUS
    <3> HIDE DEF C
    <3>2. QED
      BY <3>1, LeastExists
  <2>2. k \in Nat /\ k <= n /\ Total(f, 1..k) # k * c
    OBVIOUS
  <2>3. k # 0
    <3>1. 1..0 = {} /\ Total(f, {}) = 0 /\ 0 * c = 0
      BY TotalEmpty
    <3>2. Total(f, 1..0) = 0 * c
      BY <3>1
    <3> HIDE DEF C
    <3>3. QED
      BY <2>2, <3>2
  <2> DEFINE m == k - 1
  <2>4. m \in Nat /\ m <= n /\ k = m + 1 /\ ~(k <= m) /\ k \in 1..n
    BY <2>2, <2>3
  <2>5. Total(f, 1..m) = m * c
    <3>1. m \notin C
      BY <2>1, <2>4
    <3>2. QED
      BY <2>4, <3>1
  <2> HIDE DEF m, C
  <2> DEFINE S == 1..m
  <2>6. 1..k = S \cup {k} /\ k \notin S /\ IsFiniteSet(S) /\ S \subseteq 1..n
    BY <2>4, IntervalCount
  <2>7. f[k] = c /\ \A j \in S \cup {k} : f[j] \in Nat
    BY <1>1, <2>4, <2>6
  <2>8. Total(f, S) = m * c
    BY <2>5
  <2> HIDE DEF S
  <2>9. Total(f, S \cup {k}) = f[k] + Total(f, S)
    BY <2>6, <2>7, TotalAdd
  <2>10. k * c = m * c + c /\ m * c \in Nat
    <3>1. (m + 1) * c = m * c + c
      BY <2>4, OneStepFurther
    <3>2. QED
      BY <2>4, <3>1
  <2>11. Total(f, 1..k) = c + m * c
    BY <2>6, <2>7, <2>8, <2>9
  <2>12. QED
    BY <2>2, <2>10, <2>11
<1>4. n \in Nat /\ n <= n
  OBVIOUS
<1>5. Total(f, 1..n) = n * c
  BY <1>3, <1>4
<1>6. QED
  BY <1>2, <1>5

\* All records count.
AllCount(B) == CountIn(B, Actors, Steps, Outcomes)

LEMMA AllAreCounted == ASSUME PoolInv PROVE BagCardinality(records) = AllCount(records)
<1>1. BagCardinality(records) = Total(records, DOMAIN records)
  BY DEF BagCardinality, Total, Sums, Adds, Choice
<1>2. \A k \in DOMAIN records :
         k.actor \in Actors /\ k.step \in Steps /\ classify(k.status) \in Outcomes
  BY DEF PoolInv, RecordsKnown, RecordKinds, Actors, Outcomes
<1>3. Matching(records, Actors, Steps, Outcomes) = DOMAIN records
  BY <1>2 DEF Matching
<1>4. QED
  BY <1>1, <1>3 DEF AllCount, CountIn

Responds(i, step) ==
    \E status \in Statuses : records' = OneMore(records, Key(Actor, step, status, Source(i)))

LEMMA OneMoreInAll ==
    ASSUME PoolInv, NEW i, NEW step \in Steps, Responds(i, step)
    PROVE  AllCount(records) \in Nat /\ AllCount(records') = AllCount(records) + 1
<1>1. PICK status \in Statuses :
         records' = OneMore(records, Key(Actor, step, status, Source(i)))
  BY DEF Responds
<1> DEFINE k == Key(Actor, step, status, Source(i))
<1>2. /\ records' = OneMore(records, k)
      /\ k.actor \in Actors /\ k.step \in Steps /\ classify(k.status) \in Outcomes
  BY <1>1 DEF Key, Actors, Actor, Outcomes
<1>3. records \in [DOMAIN records -> Nat \ {0}] /\ IsFiniteSet(DOMAIN records)
  BY DEF PoolInv, RecordsKnown
<1> HIDE DEF k
<1>4. QED
  BY <1>2, <1>3, OneMoreCount DEF AllCount

AskedByOperator == Cardinality(SelfService) * config.operator_seats_per_identity
AskedByPublic == Len(Public) * config.genuine_seats_each
Asked ==
    Len(Offered) + (IF phase = "register" THEN 0 ELSE AskedByOperator)
                 + (IF phase \in {"genuine", "done"} THEN AskedByPublic ELSE 0)

AllRequested ==
    config.mode = "acquire" => AllCount(records) + LeftOf(todo) = Len(holds) + Asked

LEMMA AskedType ==
    ASSUME PoolInv
    PROVE  /\ AskedByOperator \in Nat /\ AskedByPublic \in Nat /\ Len(Offered) \in Nat
           /\ Asked \in Nat
<1>1. Cardinality(SelfService) \in Nat
  <2>1. IsFiniteSet(SelfService)
    BY FS_Subset DEF PoolInv, HarnessInv, TypeOK, SelfService
  <2>2. QED
    BY <2>1, FS_CardinalityType
<1>2. Len(Public) \in Nat /\ Len(Offered) \in Nat
  BY PublicIsPrefix, OfferedIsPrefix DEF PoolInv, HarnessInv
<1>3. config.operator_seats_per_identity \in Nat /\ config.genuine_seats_each \in Nat
  BY DEF PoolInv, HarnessInv, Configs
<1>4. AskedByOperator \in Nat
  BY <1>1, <1>3 DEF AskedByOperator
<1>5. AskedByPublic \in Nat
  BY <1>2, <1>3 DEF AskedByPublic
<1> DEFINE m == IF phase = "register" THEN 0 ELSE AskedByOperator
           n == IF phase \in {"genuine", "done"} THEN AskedByPublic ELSE 0
<1>6. m \in Nat /\ n \in Nat /\ Asked = Len(Offered) + m + n
  BY <1>4, <1>5 DEF Asked
<1> HIDE DEF m, n
<1>7. Asked \in Nat
  BY <1>2, <1>6
<1>8. QED
  BY <1>2, <1>4, <1>5, <1>7

LEMMA LeftType ==
    ASSUME PoolInv
    PROVE  /\ IsFiniteSet(DOMAIN todo) /\ \A i \in DOMAIN todo : todo[i].left \in Nat
           /\ LeftOf(todo) \in Nat
<1>1. IsFiniteSet(DOMAIN todo) /\ \A i \in DOMAIN todo : todo[i].left \in Nat
  BY ItemsNumbered, IntervalCount DEF PoolInv, TodoKnown, ItemRows
<1> DEFINE f == [i \in DOMAIN todo |-> todo[i].left]
           S == DOMAIN todo
<1>2. IsFiniteSet(S) /\ \A i \in S : f[i] \in Nat
  BY <1>1
<1>3. LeftOf(todo) = Total(f, S)
  BY DEF LeftOf
<1> HIDE DEF f, S
<1>4. QED
  BY <1>1, <1>2, <1>3, TotalNat
LEMMA AskedStays ==
    ASSUME UNCHANGED <<phase, config>>, phase = "register" \/ patrons' = patrons
    PROVE  Asked' = Asked
<1>1. Public' = Public /\ Offered' = Offered
  BY DEF Public, Offered
<1>2. CASE phase = "register"
  BY <1>1, <1>2 DEF Asked
<1>3. CASE patrons' = patrons
  BY <1>1, <1>3 DEF Asked, AskedByOperator, AskedByPublic, SelfService
<1>4. QED
  BY <1>2, <1>3

LEMMA OneHoldMore ==
    ASSUME PoolInv, [HarnessNext]_harnessVars, NEW i \in DOMAIN todo, Hold(i) \/ Confirm(i)
    PROVE  /\ Len(holds) \in Nat /\ patrons' = patrons
           /\ Len(holds')
                = Len(holds) + IF Hold(i) /\ HoldGranted(i) THEN 1 ELSE 0
<1> DEFINE p == Patron(i)
           k == todo[i].has
           a == Hold(i)
           b == Confirm(i)
           g == HoldGranted(i)
           c == ConfirmGranted(i)
           u == UNCHANGED vars
           n == IF Hold(i) /\ HoldGranted(i) THEN 1 ELSE 0
           Goal == Len(holds) \in Nat /\ patrons' = patrons /\ Len(holds') = Len(holds) + n
<1>1. /\ TypeOK /\ holds' \in Seq(HoldRows) /\ Len(holds) \in Nat /\ Len(holds') \in Nat
      /\ DOMAIN holds = 1..Len(holds) /\ DOMAIN holds' = 1..Len(holds')
  <2>1. holds \in Seq(HoldRows) /\ holds' \in Seq(HoldRows)
    BY PoolBase DEF TypeOK
  <2>2. QED
    BY <2>1, LenProperties DEF PoolInv, HarnessInv
<1>2. CASE Hold(i) /\ HoldGranted(i)
  <2>1. p \in patrons /\ \E show \in Shows : PlaceHold(p, show)
    BY <1>1, <1>2, AuthenticIsPatron DEF HoldGranted
  <2> HIDE DEF p
  <2>2. PICK show \in Shows : PlaceHold(p, show)
    BY <2>1
  <2>3. PlacedRows(p) /\ patrons' = patrons
    BY <1>1, <2>1, <2>2, PlaceHoldRows DEF PlaceHold
  <2>4. 1..Len(holds') = 1..(Len(holds) + 1)
    BY <1>1, <2>3 DEF PlacedRows
  <2>5. Cardinality(1..Len(holds')) = Len(holds')
        /\ Cardinality(1..(Len(holds) + 1)) = Len(holds) + 1
    BY <1>1, CardinalityUpTo
  <2>6. QED
    BY <1>1, <1>2, <2>3, <2>4, <2>5
<1>3. CASE ~Hold(i) /\ Confirm(i) /\ ConfirmGranted(i)
  <2>1. p \in patrons /\ ConfirmHold(p, k)
    BY <1>1, <1>3, AuthenticIsPatron DEF ConfirmGranted
  <2> HIDE DEF p, k
  <2>2. ConfirmedRows(p, k) /\ patrons' = patrons
    BY <1>1, <2>1, ConfirmHoldRows DEF ConfirmHold
  <2>3. 1..Len(holds') = 1..Len(holds)
    BY <1>1, <2>2 DEF ConfirmedRows
  <2>4. Cardinality(1..Len(holds')) = Len(holds') /\ Cardinality(1..Len(holds)) = Len(holds)
    BY <1>1, CardinalityUpTo
  <2>5. n = 0 /\ Len(holds') = Len(holds)
    BY <1>1, <1>3, <2>3, <2>4
  <2>6. Len(holds') = Len(holds) + n
    <3> HIDE DEF n
    <3>1. QED
      BY <1>1, <2>5
  <2>7. QED
    BY <1>1, <2>2, <2>6
<1>4. CASE UNCHANGED vars /\ ~(Hold(i) /\ HoldGranted(i))
  <2>1. patrons' = patrons /\ holds' = holds
    BY <1>4 DEF vars, db
  <2>2. n = 0
    BY <1>4
  <2>3. Len(holds') = Len(holds) + n
    <3> HIDE DEF n
    <3>1. QED
      BY <1>1, <2>1, <2>2
  <2>4. QED
    BY <1>1, <2>1, <2>3
<1>5. Hold(i) => (Hold(i) /\ HoldGranted(i)) \/ UNCHANGED vars
  BY HoldCases DEF HoldRefused
<1>6. Confirm(i) => ConfirmGranted(i) \/ UNCHANGED vars
  BY ConfirmCases DEF ConfirmRefused
<1>7. ~(Hold(i) /\ Confirm(i))
  BY HoldCases, ConfirmCases
<1>8. /\ a /\ g => Goal
      /\ ~a /\ b /\ c => Goal
      /\ u /\ ~(a /\ g) => Goal
      /\ a => (a /\ g) \/ u
      /\ b => c \/ u
      /\ ~(a /\ b) /\ (a \/ b)
  <2>1. a /\ g => Goal
    BY <1>2
  <2>2. ~a /\ b /\ c => Goal
    BY <1>3
  <2>3. u /\ ~(a /\ g) => Goal
    BY <1>4
  <2>4. /\ a => (a /\ g) \/ u
        /\ b => c \/ u
        /\ ~(a /\ b)
    BY <1>5, <1>6, <1>7
  <2>5. a \/ b
    OBVIOUS
  <2> HIDE DEF a, b, g, c, u, Goal
  <2>6. QED
    BY <2>1, <2>2, <2>3, <2>4, <2>5
<1>9. Goal
  <2> HIDE DEF a, b, g, c, u, Goal
  <2>1. QED
    BY <1>8
<1>10. QED
  BY <1>9

\* A request that ends a try: one more on record, one less to try.
LEMMA TryEnds ==
    ASSUME PoolInv, NEW i \in InWork, NEW granted, Ends(i, granted),
           NEW step \in Steps, Responds(i, step)
    PROVE  AllCount(records') + LeftOf(todo') = AllCount(records) + LeftOf(todo)
<1>1. /\ DOMAIN todo' = DOMAIN todo /\ i \in DOMAIN todo /\ todo[i].left - 1 \in Nat
      /\ todo'[i].left = todo[i].left - 1
      /\ \A j \in DOMAIN todo : j # i => todo'[j].left = todo[j].left
  BY EndsItems
<1>2. IsFiniteSet(DOMAIN todo) /\ \A j \in DOMAIN todo : todo[j].left \in Nat
  BY LeftType
<1>3. PICK a, b : a = todo /\ b = todo'
  OBVIOUS
<1>4. LeftOf(b) \in Nat /\ LeftOf(a) = LeftOf(b) + 1
  BY <1>1, <1>2, <1>3, LeftDrops
<1>5. AllCount(records) \in Nat /\ AllCount(records') = AllCount(records) + 1
  BY OneMoreInAll
<1>6. LeftOf(a) = LeftOf(todo) /\ LeftOf(b) = LeftOf(todo')
  BY <1>3
<1>7. QED
  BY <1>4, <1>5, <1>6

\* A phase begins with every seat before it.
LEMMA TriesBegin ==
    ASSUME PoolInv, Begun, config.mode = "acquire", BeginRound \/ BeginGenuineDemand
    PROVE  /\ LeftOf(todo) = 0 /\ LeftOf(todo') \in Nat
           /\ Asked' = Asked + LeftOf(todo')
<1>1. /\ Unfinished = {} /\ UNCHANGED <<config, patrons>>
      /\ (BeginRound => phase = "register" /\ phase' = "operator")
      /\ (BeginGenuineDemand => phase = "operator" /\ phase' = "genuine")
  BY OneRound DEF BeginRound, BeginGenuineDemand, vars, db
<1>2. LeftOf(todo) = 0
  <2>1. PICK n \in Nat : DOMAIN todo = 1..n
    BY ItemsNumbered
  <2>2. \A i \in 1..n : todo[i].left = 0
    <3>1. \A i \in DOMAIN todo : todo[i].left \in Nat /\ ~(todo[i].left > 0)
      BY <1>1, LeftType DEF Unfinished
    <3>2. \A x \in Nat : ~(x > 0) => x = 0
      OBVIOUS
    <3>3. QED
      BY <2>1, <3>1, <3>2
  <2>3. 0 \in Nat /\ n * 0 = 0
    OBVIOUS
  <2>4. LeftOf(todo) = n * 0
    BY <2>1, <2>2, <2>3, LeftAlike
  <2>5. QED
    BY <2>3, <2>4
<1>3. Public' = Public /\ Offered' = Offered /\ SelfService' = SelfService
  BY <1>1 DEF Public, Offered, SelfService
<1>4. /\ Cardinality(SelfService) \in Nat /\ Len(Public) \in Nat /\ Len(Offered) \in Nat
      /\ config.operator_seats_per_identity \in Nat /\ config.genuine_seats_each \in Nat
      /\ DOMAIN identities = SelfService /\ AskedByOperator \in Nat /\ AskedByPublic \in Nat
  <2>1. IsFiniteSet(SelfService)
    BY FS_Subset DEF PoolInv, HarnessInv, TypeOK, SelfService
  <2>2. Cardinality(SelfService) \in Nat
    BY <2>1, FS_CardinalityType
  <2>3. Len(Public) \in Nat /\ Len(Offered) \in Nat
    BY AskedType, PublicIsPrefix DEF PoolInv, HarnessInv
  <2>4. QED
    BY <2>2, <2>3, AskedType DEF PoolInv, HarnessInv, IdentitiesKnown, Configs
<1>5. CASE BeginRound
  <2> DEFINE n == Cardinality(SelfService)
             c == config.operator_seats_per_identity
  <2>1. DOMAIN todo' = 1..n /\ \A i \in 1..n : todo'[i].left = c
    BY <1>4, <1>5 DEF BeginRound, Items
  <2>2. n \in Nat /\ c \in Nat
    BY <1>4
  <2>3. LeftOf(todo') = n * c
    <3>1. PICK b, m, d : b = todo' /\ m = n /\ d = c
      OBVIOUS
    <3> HIDE DEF n, c
    <3>2. m \in Nat /\ d \in Nat /\ DOMAIN b = 1..m /\ \A i \in 1..m : b[i].left = d
      BY <2>1, <2>2, <3>1
    <3>3. LeftOf(b) = m * d
      BY <3>2, LeftAlike
    <3>4. QED
      BY <3>1, <3>3
  <2>4. LeftOf(todo') = AskedByOperator /\ AskedByOperator' = AskedByOperator
    BY <1>1, <1>3, <2>3 DEF AskedByOperator
  <2>5. Asked = Len(Offered) + 0 + 0 /\ Asked' = Len(Offered) + AskedByOperator + 0
    BY <1>1, <1>3, <1>5, <2>4 DEF Asked
  <2>6. QED
    BY <1>2, <1>4, <2>4, <2>5
<1>6. CASE BeginGenuineDemand
  <2> DEFINE n == Len(Public)
             c == config.genuine_seats_each
  <2>1. DOMAIN todo' = 1..n /\ \A i \in 1..n : todo'[i].left = c
    BY <1>6 DEF BeginGenuineDemand, Items
  <2>2. n \in Nat /\ c \in Nat
    BY <1>4
  <2>3. LeftOf(todo') = n * c
    <3>1. PICK b, m, d : b = todo' /\ m = n /\ d = c
      OBVIOUS
    <3> HIDE DEF n, c
    <3>2. m \in Nat /\ d \in Nat /\ DOMAIN b = 1..m /\ \A i \in 1..m : b[i].left = d
      BY <2>1, <2>2, <3>1
    <3>3. LeftOf(b) = m * d
      BY <3>2, LeftAlike
    <3>4. QED
      BY <3>1, <3>3
  <2>4. LeftOf(todo') = AskedByPublic /\ AskedByOperator' = AskedByOperator
        /\ AskedByPublic' = AskedByPublic
    BY <1>1, <1>3, <2>3 DEF AskedByOperator, AskedByPublic
  <2>5. Asked = Len(Offered) + AskedByOperator + 0
        /\ Asked' = Len(Offered) + AskedByOperator + AskedByPublic
    BY <1>1, <1>3, <1>6, <2>4 DEF Asked
  <2>6. QED
    BY <1>2, <1>4, <2>4, <2>5
<1>7. QED
  BY <1>5, <1>6
LEMMA AllCountType == ASSUME PoolInv PROVE AllCount(records) \in Nat
<1>1. records \in [DOMAIN records -> Nat \ {0}] /\ IsFiniteSet(DOMAIN records)
  BY DEF PoolInv, RecordsKnown
<1>2. CountIn(records, Actors, Steps, Outcomes) \in Nat
  BY <1>1, OneMoreCount
<1>3. QED
  BY <1>2 DEF AllCount

\* Waiting takes nothing from what is left to try.
LEMMA LeftAwaits ==
    ASSUME PoolInv, NEW i \in InWork, NEW n \in Nat, NEW h \in 0..n, Awaits(i, h)
    PROVE  LeftOf(todo') = LeftOf(todo)
<1>1. DOMAIN todo' = DOMAIN todo /\ \A j \in DOMAIN todo : todo'[j].left = todo[j].left
  BY AwaitsItems
<1>2. IsFiniteSet(DOMAIN todo)
  BY LeftType
<1>3. PICK a, b : a = todo /\ b = todo'
  OBVIOUS
<1>4. LeftOf(b) = LeftOf(a)
  BY <1>1, <1>2, <1>3, LeftSame
<1>5. QED
  BY <1>3, <1>4

LEMMA RegisterRequested ==
    ASSUME PoolInv, AllRequested, [HarnessNext]_harnessVars, NEW i \in DOMAIN todo,
           PayChallenge(i) \/ Register(i)
    PROVE  AllRequested'
<1>1. UNCHANGED <<phase, config, holds>> /\ phase = "register"
  <2>1. CASE PayChallenge(i)
    BY <2>1 DEF PayChallenge, vars, db
  <2>2. CASE Register(i)
    <3>1. UNCHANGED <<phase, config>> /\ phase = "register"
          /\ (RegisterGranted(i) \/ RegisterRefused(i))
      BY <2>2, RegisterCases
    <3>2. holds' = holds
      BY <3>1 DEF RegisterGranted, RegisterRefused, RegisterPatron, vars, db
    <3>3. QED
      BY <3>1, <3>2
  <2>3. QED
    BY <2>1, <2>2
<1>2. Asked' = Asked
  BY <1>1, AskedStays
<1>3. AllCount(records') + LeftOf(todo') = AllCount(records) + LeftOf(todo)
  <2>1. CASE PayChallenge(i)
    <3>1. i \in InWork /\ issued' = issued + 1 /\ Awaits(i, issued') /\ records' = records
      BY <2>1, IssueKeeps DEF PayChallenge, PoolInv
    <3>2. issued' \in Nat /\ issued' \in 0..issued'
      BY <3>1 DEF PoolInv, ChallengeKnown
    <3>3. LeftOf(todo') = LeftOf(todo)
      BY <3>1, <3>2, LeftAwaits
    <3>4. QED
      BY <3>1, <3>3
  <2>2. CASE Register(i)
    <3>1. i \in InWork /\ "register" \in Steps
      BY <2>2, RegisterCases DEF Steps
    <3>2. Ends(i, TRUE) \/ Ends(i, FALSE)
      BY <2>2, RegisterCases
    <3>3. Responds(i, "register")
      <4>1. CASE RegisterGranted(i)
        BY <4>1 DEF RegisterGranted, Answered, Responds, Statuses
      <4>2. CASE RegisterRefused(i)
        BY <4>2 DEF RegisterRefused, Answered, Responds, Statuses
      <4>3. QED
        BY <2>2, <4>1, <4>2, RegisterCases
    <3>4. QED
      BY <3>1, <3>2, <3>3, TryEnds
  <2>3. QED
    BY <2>1, <2>2
<1>4. QED
  BY <1>1, <1>2, <1>3 DEF AllRequested

LEMMA BookingRequested ==
    ASSUME PoolInv, AllRequested, [HarnessNext]_harnessVars, NEW i \in DOMAIN todo,
           Hold(i) \/ Confirm(i)
    PROVE  AllRequested'
<1> SUFFICES ASSUME config.mode = "acquire"
             PROVE  AllCount(records') + LeftOf(todo') = Len(holds') + Asked'
  BY ConfigKept DEF AllRequested
<1>1. /\ AllCount(records) + LeftOf(todo) = Len(holds) + Asked
      /\ AllCount(records) \in Nat /\ LeftOf(todo) \in Nat /\ Asked \in Nat
  BY AllCountType, LeftType, AskedType DEF AllRequested
<1>2. /\ Len(holds) \in Nat /\ patrons' = patrons
      /\ Len(holds') = Len(holds) + IF Hold(i) /\ HoldGranted(i) THEN 1 ELSE 0
  BY OneHoldMore
<1>3. UNCHANGED <<phase, config>> /\ i \in InWork
  BY HoldCases, ConfirmCases
<1>4. Asked' = Asked
  BY <1>2, <1>3, AskedStays
<1>5. /\ HoldGranted(i) => Responds(i, "hold")
      /\ HoldRefused(i) => Responds(i, "hold")
      /\ ConfirmGranted(i) => Responds(i, "confirm")
      /\ ConfirmRefused(i) => Responds(i, "confirm")
  <2>1. HoldGranted(i) => Responds(i, "hold")
    BY DEF HoldGranted, Answered, Responds, Statuses
  <2>2. HoldRefused(i) => Responds(i, "hold")
    BY DEF HoldRefused, Answered, Responds, Statuses
  <2>3. ConfirmGranted(i) => Responds(i, "confirm")
    BY DEF ConfirmGranted, Answered, Responds, Statuses
  <2>4. ConfirmRefused(i) => Responds(i, "confirm")
    BY DEF ConfirmRefused, Answered, Responds, Statuses
  <2>5. QED
    BY <2>1, <2>2, <2>3, <2>4
<1>6. "hold" \in Steps /\ "confirm" \in Steps
  BY DEF Steps
<1>7. CASE Hold(i) /\ HoldGranted(i)
  <2>1. Awaits(i, Len(holds'))
    BY <1>7 DEF HoldGranted, WalksAway
  <2>2. Len(holds') = Len(holds) + 1 /\ Len(holds') \in Nat /\ Len(holds') \in 0..Len(holds')
    BY <1>2, <1>7
  <2>3. LeftOf(todo') = LeftOf(todo)
    BY <1>3, <2>1, <2>2, LeftAwaits
  <2>4. AllCount(records') = AllCount(records) + 1
    BY <1>5, <1>6, <1>7, OneMoreInAll
  <2>5. QED
    BY <1>1, <1>2, <1>4, <2>2, <2>3, <2>4
<1>8. CASE ~(Hold(i) /\ HoldGranted(i))
  <2>1. Len(holds') = Len(holds)
    BY <1>2, <1>8
  <2>2. AllCount(records') + LeftOf(todo') = AllCount(records) + LeftOf(todo)
    <3>1. CASE Hold(i)
      <4>1. HoldRefused(i)
        BY <1>8, <3>1, HoldCases
      <4>2. Ends(i, FALSE)
        BY <4>1 DEF HoldRefused
      <4>3. QED
        BY <1>3, <1>5, <1>6, <4>1, <4>2, TryEnds
    <3>2. CASE Confirm(i)
      <4>1. Ends(i, TRUE) /\ Responds(i, "confirm")
        BY <1>5, <3>2, ConfirmCases
      <4>2. QED
        BY <1>3, <1>6, <4>1, TryEnds
    <3>3. QED
      BY <3>1, <3>2
  <2>3. QED
    BY <1>1, <1>4, <2>1, <2>2
<1>9. QED
  BY <1>7, <1>8

LEMMA AllRequestedStep ==
    PoolInv /\ Begun /\ AllRequested /\ [HarnessNext]_harnessVars => AllRequested'
<1> SUFFICES ASSUME PoolInv, Begun, AllRequested, [HarnessNext]_harnessVars PROVE AllRequested'
  OBVIOUS
<1>1. CASE BeginRound \/ BeginGenuineDemand
  <2>1. UNCHANGED <<config, holds, records>>
    BY <1>1 DEF BeginRound, BeginGenuineDemand, vars, db
  <2>2. CASE config.mode = "acquire"
    <3>1. LeftOf(todo) = 0 /\ LeftOf(todo') \in Nat /\ Asked' = Asked + LeftOf(todo')
      BY <1>1, <2>2, TriesBegin
    <3>2. /\ AllCount(records) + LeftOf(todo) = Len(holds) + Asked /\ Len(holds) \in Nat
          /\ AllCount(records) \in Nat /\ Asked \in Nat
      BY <2>2, AllCountType, AskedType, PoolBase DEF AllRequested
    <3>3. AllCount(records') + LeftOf(todo') = Len(holds') + Asked'
      BY <2>1, <3>1, <3>2
    <3>4. QED
      BY <3>3 DEF AllRequested
  <2>3. QED
    BY <2>1, <2>2 DEF AllRequested
<1>2. CASE Reconcile
  <2>1. UNCHANGED <<config, patrons, records, todo>> /\ phase = "genuine" /\ phase' = "done"
        /\ holds' = Lapsed
    BY <1>2 DEF Reconcile, ReadShow
  <2>2. Len(holds') = Len(holds)
    BY <2>1, LapsedRows DEF PoolInv, HarnessInv, TypeOK, LapseKeepsRows
  <2>3. Asked' = Asked
    <3>1. Public' = Public /\ Offered' = Offered /\ SelfService' = SelfService
      BY <2>1 DEF Public, Offered, SelfService
    <3>2. QED
      BY <2>1, <3>1 DEF Asked, AskedByOperator, AskedByPublic
  <2>4. QED
    BY <2>1, <2>2, <2>3 DEF AllRequested
<1>3. CASE Elapse \/ UNCHANGED harnessVars
  <2>1. UNCHANGED <<phase, config, patrons, holds, records, todo>>
    BY <1>3 DEF Elapse, Tick, db, vars, harness, harnessVars
  <2>2. QED
    BY <2>1, AskedStays DEF AllRequested
<1>4. QED
  BY <1>1, <1>2, <1>3, RegisterRequested, BookingRequested
  DEF HarnessNext, HarnessStep, Finished

LEMMA InitRequested == HarnessInit => AllRequested
<1> SUFFICES ASSUME HarnessInit PROVE AllRequested
  OBVIOUS
<1>1. PoolInv
  BY InitPool
<1>2. phase = "register" /\ holds = << >> /\ records = EmptyBag
      /\ todo = Items(Len(Offered), 1, config.pace_seconds)
  BY DEF HarnessInit, Init
<1>3. Asked = Len(Offered) /\ Len(Offered) \in Nat /\ Len(holds) = 0
  <2>1. Len(Offered) \in Nat
    BY <1>1, AskedType
  <2>2. QED
    BY <1>2, <2>1 DEF Asked
<1>4. LeftOf(todo) = Len(Offered)
  <2>1. PICK b, n : b = todo /\ n = Len(Offered)
    OBVIOUS
  <2>2. n \in Nat /\ DOMAIN b = 1..n /\ \A i \in 1..n : b[i].left = 1
    BY <1>2, <1>3, <2>1 DEF Items
  <2>3. LeftOf(b) = n * 1
    BY <2>2, LeftAlike
  <2>4. QED
    BY <2>1, <2>2, <2>3
<1>5. AllCount(records) = 0
  <2>1. DOMAIN records = {}
    BY <1>2 DEF EmptyBag, SetToBag
  <2>2. Matching(records, Actors, Steps, Outcomes) = {}
    BY <2>1 DEF Matching
  <2>3. QED
    BY <2>2, TotalEmpty DEF AllCount, CountIn
<1>6. QED
  BY <1>3, <1>4, <1>5 DEF AllRequested
-----------------------------------------------------------------------------
(* The identities the operator obtains. *)

\* Under registration each candidate that paid its challenge has a token of its
\* own that nobody spent.
Paid ==
    phase = "register" =>
        /\ \A i \in DOMAIN todo : todo[i].has # 0 => todo[i].has \in unspent
        /\ \A i, j \in DOMAIN todo : todo[i].has # 0 /\ todo[i].has = todo[j].has => i = j

LEMMA PaidChallenge ==
    ASSUME PoolInv, Paid, NEW i \in DOMAIN todo, PayChallenge(i)
    PROVE  Paid'
<1>1. phase = "register" /\ phase' = phase /\ i \in InWork /\ Awaits(i, issued')
      /\ issued' = issued + 1 /\ unspent' = unspent \cup {issued + 1}
  BY DEF PayChallenge, Challenge!Issue, Challenge!NextToken
<1>2. issued \in Nat /\ \A j \in DOMAIN todo : todo[j].has \in 0..issued
  BY <1>1 DEF PoolInv, ChallengeKnown, TodoKnown, ItemRows, MayHave
<1>3. /\ DOMAIN todo' = DOMAIN todo /\ todo'[i].has = issued + 1
      /\ \A j \in DOMAIN todo : j # i => todo'[j].has = todo[j].has
  BY <1>1, <1>2, AwaitsItems
<1>4. \A j \in DOMAIN todo : todo[j].has # issued + 1
  BY <1>2
<1>5. QED
  BY <1>1, <1>3, <1>4 DEF Paid

LEMMA PaidRegister ==
    ASSUME PoolInv, Paid, NEW i \in DOMAIN todo, Register(i)
    PROVE  Paid'
<1>1. phase = "register" /\ phase' = phase /\ i \in InWork /\ (Ends(i, TRUE) \/ Ends(i, FALSE))
      /\ (Challenge!Spend(todo[i].has) \/ UNCHANGED challenge)
  BY RegisterCases
<1>2. /\ DOMAIN todo' = DOMAIN todo /\ todo'[i].has = 0
      /\ \A j \in DOMAIN todo : j # i => todo'[j].has = todo[j].has
  BY <1>1, EndsItems
<1>3. \A n \in unspent : n # todo[i].has => n \in unspent'
  BY <1>1 DEF Challenge!Spend, Challenge!UnspentAfter, challenge
<1>4. QED
  BY <1>1, <1>2, <1>3 DEF Paid

LEMMA PaidStep == PoolInv /\ Paid /\ [HarnessNext]_harnessVars => Paid'
<1> SUFFICES ASSUME PoolInv, Paid, [HarnessNext]_harnessVars PROVE Paid'
  OBVIOUS
<1>1. ASSUME NEW i \in DOMAIN todo, Hold(i) \/ Confirm(i) PROVE Paid'
  BY <1>1, HoldCases, ConfirmCases DEF Paid
<1>2. CASE BeginRound \/ BeginGenuineDemand \/ Reconcile
  BY <1>2 DEF BeginRound, BeginGenuineDemand, Reconcile, Paid
<1>3. CASE Elapse \/ UNCHANGED harnessVars
  BY <1>3 DEF Elapse, harnessVars, harness, challenge, Paid
<1>4. QED
  BY <1>1, <1>2, <1>3, PaidChallenge, PaidRegister DEF HarnessNext, HarnessStep, Finished

\* So a registration is turned away by the supply of identities or not at all.
LEMMA RegisterDecided ==
    ASSUME PoolInv, Paid, LabelsOwn, StampsPaced, Unimpeded, [HarnessNext]_harnessVars,
           NEW i \in DOMAIN todo, Register(i)
    PROVE  \/ RegisterPatron(Offered[i]) /\ Ends(i, TRUE)
           \/ RefuseRegistration(Offered[i]) /\ Ends(i, FALSE)
<1>1. ~RateLimited(i)
  BY StampsRequest DEF Unimpeded, RateLimited
<1>2. Gated => todo[i].has \in unspent
  BY DEF Register, Unimpeded, Paid
<1>3. ~(Gated /\ Challenge!SpendRefused(todo[i].has))
  BY <1>2 DEF Challenge!SpendRefused
<1>4. QED
  BY <1>1, <1>3 DEF Register

\* While identities are obtained: under governance a candidate that was tried has
\* its reference spent, or the cap was reached, and only what is presented is
\* spent; otherwise everybody that was tried is a patron.
SuppliedGoverned ==
    /\ \A i \in DOMAIN todo :
          todo[i].left = 0 /\ Offered[i] \in EligibilityRefs =>
              consumedBy[Offered[i]] # Null \/ Cardinality(SelfService) >= RegistrationCap
    /\ \A r \in EligibilityRefs :
          consumedBy[r] # Null => \E i \in DOMAIN Offered : Offered[i] = r
Supplied ==
    Unimpeded /\ phase = "register" =>
        IF GovernedIdentitySupply THEN SuppliedGoverned
        ELSE Cardinality(SelfService) + LeftOf(todo) = Len(Offered)

LEMMA SuppliedRegister ==
    ASSUME PoolInv, SupplyKept, Paid, LabelsOwn, StampsPaced, Unimpeded, Supplied,
           [HarnessNext]_harnessVars, NEW i \in DOMAIN todo, Register(i)
    PROVE  IF GovernedIdentitySupply THEN SuppliedGoverned'
           ELSE Cardinality(SelfService)' + LeftOf(todo') = Len(Offered)
<1> DEFINE n == Cardinality(SelfService)
           ref == Offered[i]
<1>1. /\ phase = "register" /\ config' = config /\ i \in InWork /\ TypeOK /\ IdsNumbered
      /\ IF GovernedIdentitySupply THEN SuppliedGoverned ELSE n + LeftOf(todo) = Len(Offered)
  BY RegisterCases DEF PoolInv, HarnessInv, Supplied
<1>2. \/ RegisterPatron(ref) /\ Ends(i, TRUE)
      \/ RefuseRegistration(ref) /\ Ends(i, FALSE)
  BY RegisterDecided
<1>3. /\ DOMAIN todo' = DOMAIN todo /\ todo[i].left - 1 \in Nat
      /\ todo'[i].left = todo[i].left - 1
      /\ \A j \in DOMAIN todo : j # i => todo'[j].left = todo[j].left
  BY <1>1, <1>2, EndsItems
<1>4. LeftOf(todo') \in Nat /\ LeftOf(todo) = LeftOf(todo') + 1
  <2>1. IsFiniteSet(DOMAIN todo) /\ \A j \in DOMAIN todo : todo[j].left \in Nat
    BY LeftType
  <2>2. PICK a, b : a = todo /\ b = todo'
    OBVIOUS
  <2>3. LeftOf(b) \in Nat /\ LeftOf(a) = LeftOf(b) + 1
    BY <1>3, <2>1, <2>2, LeftDrops
  <2>4. QED
    BY <2>2, <2>3
<1>5. n \in Nat
  BY <1>1, FS_Subset, FS_CardinalityType DEF TypeOK, SelfService
<1>6. ASSUME RegisterPatron(ref) PROVE Cardinality(SelfService)' = n + 1
  <2> HIDE DEF ref
  <2>1. QED
    BY <1>1, <1>6, RegisterNumbers
<1>7. CASE ~GovernedIdentitySupply
  <2>1. RegisterPatron(ref)
    BY <1>2, <1>7 DEF RefuseRegistration
  <2>2. Cardinality(SelfService)' = n + 1
    BY <1>6, <2>1
  <2>3. n + LeftOf(todo) = Len(Offered)
    BY <1>1, <1>7
  <2> HIDE DEF n
  <2>4. Cardinality(SelfService)' + LeftOf(todo') = Len(Offered)
    BY <1>4, <1>5, <2>2, <2>3
  <2>5. QED
    BY <1>7, <2>4
<1>8. CASE GovernedIdentitySupply
  <2>1. SuppliedGoverned /\ Offered' = Offered
    BY <1>1, <1>8 DEF Offered
  <2>2. CASE RegisterPatron(ref)
    <3>1. /\ ref \in EligibilityRefs /\ consumedBy' = [consumedBy EXCEPT ![ref] = n + 1]
      BY <1>8, <2>2 DEF RegisterPatron, IdentityGranted, ConsumedAfter
    <3>2. n + 1 # Null /\ consumedBy \in [EligibilityRefs -> PatronIds \cup {Null}]
      BY <1>1, <1>5, PatronsAssumption DEF TypeOK
    <3>3. Cardinality(SelfService)' = n + 1
      BY <1>6, <2>2
    <3> HIDE DEF n
    <3>4. consumedBy'[ref] # Null
          /\ \A r \in EligibilityRefs : r # ref => consumedBy'[r] = consumedBy[r]
      BY <3>1, <3>2
    <3>5. n >= RegistrationCap => n + 1 >= RegistrationCap
      BY <1>5, SettingsAssumption
    <3>6. \A r \in EligibilityRefs : consumedBy[r] # Null => consumedBy'[r] # Null
      BY <3>4
    <3>7. ASSUME NEW j \in DOMAIN todo', todo'[j].left = 0, Offered[j] \in EligibilityRefs
          PROVE  consumedBy'[Offered[j]] # Null \/ Cardinality(SelfService)' >= RegistrationCap
      <4>1. CASE j = i
        BY <3>4, <4>1
      <4>2. CASE j # i
        <5>1. consumedBy[Offered[j]] # Null \/ n >= RegistrationCap
          BY <1>3, <2>1, <3>7, <4>2 DEF SuppliedGoverned, n
        <5>2. QED
          BY <3>3, <3>5, <3>6, <3>7, <5>1
      <4>3. QED
        BY <4>1, <4>2
    <3>8. i \in DOMAIN Offered
      BY <1>1 DEF PoolInv, HarnessInv, ItemsKnown
    <3>9. \A r \in EligibilityRefs : consumedBy'[r] # Null =>
              \E j \in DOMAIN Offered : Offered[j] = r
      BY <2>1, <3>4, <3>8 DEF SuppliedGoverned
    <3>10. SuppliedGoverned'
      BY <2>1, <3>7, <3>9 DEF SuppliedGoverned
    <3>11. QED
      BY <1>8, <3>10
  <2>3. CASE RefuseRegistration(ref)
    <3>1. ~IdentityGranted(ref) /\ UNCHANGED <<consumedBy, patrons>>
      BY <2>3 DEF RefuseRegistration, vars, db
    <3>2. SelfService' = SelfService
      BY <3>1 DEF SelfService
    <3>3. ref \in EligibilityRefs => consumedBy[ref] # Null \/ n >= RegistrationCap
      <4>1. SelfService = 1..Len(registrations) /\ Len(registrations) \in Nat
        BY <1>1, <1>8, LenProperties DEF SupplyKept, TypeOK
      <4>2. n = Len(registrations)
        BY <4>1, CardinalityUpTo
      <4>3. RegistrationCap \in Nat
        BY SettingsAssumption
      <4>4. QED
        BY <3>1, <4>1, <4>2, <4>3 DEF IdentityGranted
    <3>4. ASSUME NEW j \in DOMAIN todo', todo'[j].left = 0, Offered[j] \in EligibilityRefs
          PROVE  consumedBy[Offered[j]] # Null \/ n >= RegistrationCap
      <4>1. CASE j = i
        BY <3>3, <3>4, <4>1
      <4>2. CASE j # i
        BY <1>3, <2>1, <3>4, <4>2 DEF SuppliedGoverned
      <4>3. QED
        BY <4>1, <4>2
    <3>5. SuppliedGoverned'
      BY <2>1, <3>1, <3>2, <3>4 DEF SuppliedGoverned
    <3>6. QED
      BY <1>8, <3>5
  <2>4. QED
    BY <1>2, <2>2, <2>3
<1>9. QED
  BY <1>7, <1>8
\* What is worked off has nothing left.
LEMMA NoneLeft == ASSUME PoolInv, \A i \in DOMAIN todo : todo[i].left = 0 PROVE LeftOf(todo) = 0
<1>1. PICK n \in Nat : DOMAIN todo = 1..n
  BY ItemsNumbered
<1>2. 0 \in Nat /\ n * 0 = 0
  OBVIOUS
<1>3. LeftOf(todo) = n * 0
  BY <1>1, <1>2, LeftAlike
<1>4. QED
  BY <1>2, <1>3

LEMMA SuppliedStep ==
    PoolInv /\ SupplyKept /\ Paid /\ LabelsOwn /\ StampsPaced /\ OnTime /\ Supplied
      /\ [HarnessNext]_harnessVars => Supplied'
<1> SUFFICES ASSUME PoolInv, SupplyKept, Paid, LabelsOwn, StampsPaced, OnTime, Supplied,
                    [HarnessNext]_harnessVars, Unimpeded', phase' = "register"
             PROVE  IF GovernedIdentitySupply' THEN SuppliedGoverned'
                    ELSE Cardinality(SelfService)' + LeftOf(todo') = Len(Offered)'
  BY DEF Supplied
<1>1. Unimpeded /\ policy' = policy /\ config' = config
  BY UnimpededBefore, PoolBase, PolicyStays DEF OnTime
<1>2. Offered' = Offered /\ (GovernedIdentitySupply' <=> GovernedIdentitySupply)
  BY <1>1 DEF Offered, GovernedIdentitySupply
<1>3. ASSUME NEW i \in DOMAIN todo, Register(i)
      PROVE  IF GovernedIdentitySupply' THEN SuppliedGoverned'
             ELSE Cardinality(SelfService)' + LeftOf(todo') = Len(Offered)'
  BY <1>1, <1>2, <1>3, SuppliedRegister
<1>4. ASSUME phase = "register", UNCHANGED <<patrons, consumedBy>>, DOMAIN todo' = DOMAIN todo,
             \A j \in DOMAIN todo : todo'[j].left = todo[j].left, LeftOf(todo') = LeftOf(todo)
      PROVE  IF GovernedIdentitySupply' THEN SuppliedGoverned'
             ELSE Cardinality(SelfService)' + LeftOf(todo') = Len(Offered)'
  <2>1. SelfService' = SelfService
    BY <1>4 DEF SelfService
  <2>2. IF GovernedIdentitySupply THEN SuppliedGoverned
        ELSE Cardinality(SelfService) + LeftOf(todo) = Len(Offered)
    BY <1>1, <1>4 DEF Supplied
  <2>3. CASE GovernedIdentitySupply
    <3>1. SuppliedGoverned'
      BY <1>2, <1>4, <2>1, <2>2, <2>3 DEF SuppliedGoverned
    <3>2. QED
      BY <1>2, <2>3, <3>1
  <2>4. CASE ~GovernedIdentitySupply
    BY <1>2, <1>4, <2>1, <2>2, <2>4
  <2>5. QED
    BY <2>3, <2>4
<1>5. ASSUME NEW i \in DOMAIN todo, PayChallenge(i)
      PROVE  IF GovernedIdentitySupply' THEN SuppliedGoverned'
             ELSE Cardinality(SelfService)' + LeftOf(todo') = Len(Offered)'
  <2>1. phase = "register" /\ i \in InWork /\ Awaits(i, issued') /\ issued' = issued + 1
        /\ UNCHANGED <<patrons, consumedBy>>
    BY <1>5 DEF PayChallenge, Challenge!Issue, vars, db
  <2>2. issued' \in Nat /\ issued' \in 0..issued'
    BY <2>1 DEF PoolInv, ChallengeKnown
  <2>3. LeftOf(todo') = LeftOf(todo)
    BY <2>1, <2>2, LeftAwaits
  <2>4. DOMAIN todo' = DOMAIN todo /\ \A j \in DOMAIN todo : todo'[j].left = todo[j].left
    BY <2>1, <2>2, AwaitsItems
  <2>5. QED
    BY <1>4, <2>1, <2>3, <2>4
<1>6. CASE Elapse \/ UNCHANGED harnessVars
  <2>1. UNCHANGED <<phase, patrons, consumedBy, todo>>
    BY <1>6 DEF Elapse, Tick, db, vars, harness, harnessVars
  <2>2. QED
    BY <1>4, <2>1
<1>7. ~BeginRound /\ ~BeginGenuineDemand /\ ~Reconcile
      /\ \A i \in DOMAIN todo : ~Hold(i) /\ ~Confirm(i)
  BY HoldCases, ConfirmCases DEF BeginRound, BeginGenuineDemand, Reconcile
<1>8. QED
  BY <1>3, <1>5, <1>6, <1>7 DEF HarnessNext, HarnessStep, Finished

LEMMA InitSupplied == HarnessInit => Supplied /\ Paid
<1> SUFFICES ASSUME HarnessInit PROVE Supplied /\ Paid
  OBVIOUS
<1>1. /\ PoolInv /\ phase = "register" /\ SelfService = {} /\ Len(holds) = 0
      /\ consumedBy = [r \in EligibilityRefs |-> Null]
      /\ todo = Items(Len(Offered), 1, config.pace_seconds)
  BY InitPool DEF HarnessInit, Init, SelfService
<1>2. \A i \in DOMAIN todo : todo[i].left = 1 /\ todo[i].has = 0
  BY <1>1 DEF Items
<1>3. SuppliedGoverned
  BY <1>1, <1>2 DEF SuppliedGoverned
<1>4. Cardinality(SelfService) + LeftOf(todo) = Len(Offered)
  <2>1. Len(Offered) \in Nat
    BY <1>1, AskedType
  <2>2. PICK b, n : b = todo /\ n = Len(Offered)
    OBVIOUS
  <2>3. n \in Nat /\ DOMAIN b = 1..n /\ \A i \in 1..n : b[i].left = 1
    BY <1>1, <1>2, <2>1, <2>2 DEF Items
  <2>4. LeftOf(b) = n * 1
    BY <2>3, LeftAlike
  <2>5. Cardinality(SelfService) = 0
    BY <1>1, FS_EmptySet
  <2>6. QED
    BY <2>2, <2>3, <2>4, <2>5
<1>5. QED
  BY <1>2, <1>3, <1>4 DEF Supplied, Paid

\* A reference was spent on each identity that was granted.
LEMMA SpentOnEach ==
    ASSUME TypeOK, SupplyKept, GovernedIdentitySupply
    PROVE  /\ Len(registrations) \in Nat /\ Len(registrations) <= RegistrationCap
           /\ Cardinality(SelfService) = Len(registrations)
           /\ IsFiniteSet({r \in EligibilityRefs : consumedBy[r] # Null})
           /\ Cardinality({r \in EligibilityRefs : consumedBy[r] # Null}) = Len(registrations)
<1> DEFINE n == Len(registrations)
           S == {r \in EligibilityRefs : consumedBy[r] # Null}
           f == [i \in 1..n |-> registrations[i].ref]
<1>1. /\ n \in Nat /\ DOMAIN registrations = 1..n
      /\ \A i \in 1..n : registrations[i] \in RegistrationRows
  BY LenProperties DEF TypeOK
<1>2. SelfService = 1..n /\ n <= RegistrationCap
      /\ (\A i \in 1..n : consumedBy[registrations[i].ref] = i)
      /\ \A r \in S : consumedBy[r] \in 1..n /\ registrations[consumedBy[r]].ref = r
  BY <1>1 DEF SupplyKept
<1>3. Cardinality(1..n) = n /\ IsFiniteSet(1..n)
  BY <1>1, CardinalityUpTo, FS_Interval
<1>4. \A i \in 1..n : registrations[i].ref \in EligibilityRefs /\ i # Null
  BY <1>1, PatronsAssumption DEF RegistrationRows
<1>5. f \in [1..n -> S]
  BY <1>2, <1>4
<1>6. \A x, y \in 1..n : f[x] = f[y] => x = y
  BY <1>2
<1>7. \A r \in S : \E x \in 1..n : f[x] = r
  BY <1>2
<1> HIDE DEF f, S
<1>8. IsFiniteSet(S) /\ Cardinality(S) = Cardinality(1..n)
  BY <1>3, <1>5, <1>6, <1>7, InjectiveImage
<1>9. QED
  BY <1>1, <1>2, <1>3, <1>8 DEF S

LEMMA OfferedRefs ==
    ASSUME config \in Configs
    PROVE  /\ IsFiniteSet(EligibilityRefs \cap {Offered[i] : i \in DOMAIN Offered})
           /\ Cardinality(EligibilityRefs \cap {Offered[i] : i \in DOMAIN Offered}) \in Nat
<1>1. IsFiniteSet(DOMAIN Offered)
  BY OfferedIsPrefix, FS_Interval
<1>2. IsFiniteSet({Offered[i] : i \in DOMAIN Offered})
  <2> DEFINE T == {Offered[i] : i \in DOMAIN Offered}
             f == [i \in DOMAIN Offered |-> Offered[i]]
  <2>1. f \in [DOMAIN Offered -> T] /\ \A t \in T : \E i \in DOMAIN Offered : f[i] = t
    OBVIOUS
  <2> HIDE DEF T, f
  <2>2. f \in Surjection(DOMAIN Offered, T)
    BY <2>1 DEF Surjection
  <2>3. IsFiniteSet(T)
    BY <1>1, <2>2, FS_Surjection
  <2>4. QED
    BY <2>3 DEF T
<1>3. IsFiniteSet(EligibilityRefs \cap {Offered[i] : i \in DOMAIN Offered})
  BY <1>2, FS_Subset
<1>4. QED
  BY <1>3, FS_CardinalityType

\* Once every candidate was tried the operator has the identities that the
\* references and the cap allow, or one for each candidate.
LEMMA AllIdentified ==
    ASSUME PoolInv, SupplyKept, Unimpeded, Supplied, phase = "register", Unfinished = {}
    PROVE  Cardinality(SelfService) = SequentialIdentities
<1>1. /\ TypeOK /\ config \in Configs /\ DOMAIN todo = DOMAIN Offered
      /\ IF GovernedIdentitySupply THEN SuppliedGoverned
         ELSE Cardinality(SelfService) + LeftOf(todo) = Len(Offered)
  BY DEF PoolInv, HarnessInv, ItemsKnown, Supplied
<1>2. \A i \in DOMAIN todo : todo[i].left = 0
  <2>1. \A i \in DOMAIN todo : todo[i].left \in Nat /\ ~(todo[i].left > 0)
    BY LeftType DEF Unfinished
  <2>2. \A x \in Nat : ~(x > 0) => x = 0
    OBVIOUS
  <2>3. QED
    BY <2>1, <2>2
<1>3. CASE ~GovernedIdentitySupply
  <2>1. LeftOf(todo) = 0
    BY <1>2, NoneLeft
  <2>2. Cardinality(SelfService) \in Nat
    BY <1>1, FS_Subset, FS_CardinalityType DEF TypeOK, SelfService
  <2>3. QED
    BY <1>1, <1>3, <2>1, <2>2 DEF SequentialIdentities
<1>4. CASE GovernedIdentitySupply
  <2> DEFINE E == EligibilityRefs \cap {Offered[i] : i \in DOMAIN Offered}
             S == {r \in EligibilityRefs : consumedBy[r] # Null}
             x == Cardinality(SelfService)
             e == Cardinality(E)
  <2>1. IsFiniteSet(E) /\ e \in Nat
    BY <1>1, OfferedRefs
  <2>2. x \in Nat /\ x <= RegistrationCap /\ x = Cardinality(S) /\ IsFiniteSet(S)
    BY <1>1, <1>4, SpentOnEach
  <2>3. SuppliedGoverned
    BY <1>1, <1>4
  <2>4. S \subseteq E
    BY <2>3 DEF SuppliedGoverned
  <2>5. x >= RegistrationCap \/ S = E
    BY <1>1, <1>2, <2>3, <2>4 DEF SuppliedGoverned
  <2>6. SequentialIdentities = Min({RegistrationCap, e}) /\ RegistrationCap \in Nat
    BY <1>4, SettingsAssumption DEF SequentialIdentities
  <2> HIDE DEF E, S, x
  <2>7. x <= e
    BY <2>1, <2>2, <2>4, FS_Subset
  <2> HIDE DEF e
  <2>8. x = RegistrationCap \/ x = e
    <3>1. S = E => x = e
      BY <2>2 DEF e
    <3>2. x >= RegistrationCap => x = RegistrationCap
      BY <2>2, <2>6
    <3>3. QED
      BY <2>5, <3>1, <3>2
  <2>9. x = Min({RegistrationCap, e})
    BY <2>1, <2>2, <2>6, <2>7, <2>8, LesserOf
  <2>10. QED
    BY <2>6, <2>9 DEF x
<1>5. QED
  BY <1>3, <1>4

LEMMA IdentifiedStep ==
    ASSUME Grounds, SupplyKept, Supplied, Identified, [HarnessNext]_harnessVars
    PROVE  Identified'
<1> SUFFICES ASSUME Unimpeded', phase' # "register"
             PROVE  Cardinality(SelfService)' = SequentialIdentities'
  BY DEF Identified
<1>1. PoolInv /\ idle \in Nat /\ config' = config
  BY PoolBase DEF Grounds, OnTime
<1>2. Unimpeded /\ policy' = policy
  BY <1>1, UnimpededBefore, PoolBase, PolicyStays
<1>3. SequentialIdentities' = SequentialIdentities
  BY <1>1, <1>2 DEF SequentialIdentities, GovernedIdentitySupply, Offered
<1>4. ASSUME NEW i \in DOMAIN todo, Hold(i) \/ Confirm(i)
      PROVE  patrons' = patrons /\ phase # "register"
  <2>1. phase # "register"
    BY <1>4, HoldCases, ConfirmCases
  <2>2. patrons' = patrons
    BY <1>1, <1>4, OneHoldMore
  <2>3. QED
    BY <2>1, <2>2
<1>5. ASSUME NEW i \in DOMAIN todo PROVE ~PayChallenge(i) /\ ~Register(i)
  BY RegisterCases DEF PayChallenge
<1>6. /\ BeginRound \/ BeginGenuineDemand \/ Reconcile => patrons' = patrons
      /\ BeginRound \/ BeginGenuineDemand => Unfinished = {}
      /\ Elapse \/ UNCHANGED harnessVars => patrons' = patrons /\ phase' = phase
      /\ Reconcile => phase # "register"
  BY DEF BeginRound, BeginGenuineDemand, Reconcile, ReadShow, Elapse, Tick, vars, db, harness,
         harnessVars
<1>7. /\ patrons' = patrons
      /\ phase # "register" \/ Unfinished = {}
  BY <1>4, <1>5, <1>6 DEF HarnessNext, HarnessStep, Finished
<1>8. Cardinality(SelfService) = SequentialIdentities
  BY <1>1, <1>2, <1>7, AllIdentified DEF Identified
<1>9. QED
  BY <1>3, <1>7, <1>8 DEF SelfService
-----------------------------------------------------------------------------
(* What the ledger comes to. *)

SequentialRequests ==
    Len(Offered) + SequentialIdentities * config.operator_seats_per_identity
        + Len(Public) * config.genuine_seats_each
        + SequentialOperatorSeats + SequentialGenuineSeats

Counts(l, operator, genuine, requests) ==
    /\ l.operator_seats = operator /\ l.genuine_seats = genuine
    /\ l.demand_served = genuine /\ l.requests_issued = requests

\* Each hold was confirmed once.
LEMMA HoldsTicketed ==
    ASSUME TypeOK, FlowConsistent, \A h \in DOMAIN holds : holds[h].state = "confirmed"
    PROVE  Len(holds) = Len(tickets)
<1> DEFINE m == Len(tickets)
           n == Len(holds)
           f == [t \in 1..m |-> tickets[t].hold]
<1>1. m \in Nat /\ n \in Nat /\ DOMAIN tickets = 1..m /\ DOMAIN holds = 1..n
  BY LenProperties DEF TypeOK
<1>2. \A t \in 1..m : tickets[t].hold \in 1..n
  BY <1>1 DEF FlowConsistent
<1>3. \A h \in 1..n : \E t \in 1..m : tickets[t].hold = h
  BY <1>1 DEF FlowConsistent
<1>4. \A t, u \in 1..m : tickets[t].hold = tickets[u].hold => t = u
  BY <1>1 DEF FlowConsistent
<1> HIDE DEF m, n
<1>5. /\ f \in [1..m -> 1..n]
      /\ \A t, u \in 1..m : f[t] = f[u] => t = u
      /\ \A h \in 1..n : \E t \in 1..m : f[t] = h
  BY <1>2, <1>3, <1>4
<1> HIDE DEF f
<1>6. IsFiniteSet(1..m) /\ Cardinality(1..m) = m /\ Cardinality(1..n) = n
  BY <1>1, FS_Interval, CardinalityUpTo
<1>7. Cardinality(1..n) = Cardinality(1..m)
  BY <1>5, <1>6, InjectiveImage
<1>8. QED
  BY <1>6, <1>7 DEF m, n

LEMMA LedgerSequential ==
    ASSUME Grounds, PatronsKnown, VenueInv, SeatExclusive, HoldersServed, Sharing, Identified,
           OperatorSold, AllRequested, Steady, phase = "genuine", Unfinished = {}
    PROVE  Counts(build_ledger(Lapsed), SequentialOperatorSeats, SequentialGenuineSeats,
                  SequentialRequests)
<1> DEFINE l == build_ledger(Lapsed)
           o == SequentialOperatorSeats
           g == SequentialGenuineSeats
           P == Holders(Lapsed) \ SelfService
<1>1. /\ PoolInv /\ WorkedOff /\ FlowConsistent /\ TypeOK /\ Booking
  BY DEF Grounds, PoolInv, HarnessInv, Booking
<1>2. Kept
  BY <1>1 DEF Sharing
<1>3. /\ SoldTo(FixturePatrons) = g /\ SoldTo(SelfService) = o
      /\ Len(tickets) = o + g /\ o \in Nat /\ g \in Nat
      /\ \A h \in DOMAIN holds : holds[h].state = "confirmed"
  BY PublicSold DEF OperatorSold
<1>4. HeldIn(Lapsed) = {}
  BY <1>1, <1>3, LapsedRows DEF HeldIn, LapseKeepsRows, TypeOK
<1>5. Cardinality(HeldIn(Lapsed)) = 0 /\ HeldBy(Lapsed, SelfService) = 0
  <2>1. {h \in HeldIn(Lapsed) : Lapsed[h].patron \in SelfService} = {}
    BY <1>4
  <2>2. QED
    BY <1>4, <2>1, FS_EmptySet DEF HeldBy
<1>6. l.operator_seats = 0 + o
  BY <1>1, <1>3, <1>5, OperatorSeats
<1>7. l.operator_seats = o
  <2> HIDE DEF l, o
  <2>1. QED
    BY <1>3, <1>6
<1>8. l.genuine_seats \in Nat
  <2>1. P \subseteq patrons
    BY <1>1, HoldersAre
  <2>2. l.genuine_seats = HeldBy(Lapsed, P) + SoldTo(P)
        /\ HeldBy(Lapsed, P) \in Nat /\ SoldTo(P) \in Nat
    BY <1>1, <2>1, LedgerSays, LedgerSums
  <2> HIDE DEF l, P
  <2>3. QED
    BY <2>2
<1>9. l.genuine_seats = g
  <2>1. l.operator_seats + l.genuine_seats = l.seats_held + l.seats_confirmed
    BY <1>1, LedgerAdds DEF Adding
  <2>2. l.seats_held = 0 /\ l.seats_confirmed = o + g
    BY <1>3, <1>5, LedgerSays
  <2> HIDE DEF l, o, g
  <2>3. QED
    BY <1>3, <1>7, <1>8, <2>1, <2>2
<1>10. l.demand_served = g
  BY <1>3, LedgerSays, GrantedIsTotal DEF VenueInv
<1>11. l.requests_issued = SequentialRequests
  <2> DEFINE a == Len(Offered)
             b == SequentialIdentities * config.operator_seats_per_identity
             c == Len(Public) * config.genuine_seats_each
  <2>1. l.requests_issued = AllCount(records) /\ AllCount(records) \in Nat
    BY <1>1, AllAreCounted, AllCountType DEF build_ledger
  <2>2. LeftOf(todo) = 0
    BY <1>1, <1>2, WorkedThrough, NoneLeft
  <2>3. Len(holds) = o + g
    BY <1>1, <1>3, HoldsTicketed
  <2>4. Asked = a + b + c /\ a \in Nat /\ b \in Nat /\ c \in Nat
    <3>1. AskedByOperator = b /\ AskedByPublic = c
      BY DEF AskedByOperator, AskedByPublic, Identified, Steady
    <3>2. AskedByOperator \in Nat /\ AskedByPublic \in Nat /\ a \in Nat
      BY <1>1, AskedType
    <3> HIDE DEF a, b, c
    <3>3. Asked = a + AskedByOperator + AskedByPublic
      BY DEF Asked, a
    <3>4. QED
      BY <3>1, <3>2, <3>3
  <2>5. AllCount(records) + LeftOf(todo) = Len(holds) + Asked
    BY DEF AllRequested, Steady
  <2>6. SequentialRequests = a + b + c + o + g
    BY DEF SequentialRequests
  <2> HIDE DEF l, o, g, a, b, c
  <2>7. QED
    BY <1>3, <2>1, <2>2, <2>3, <2>4, <2>5, <2>6
<1>12. QED
  BY <1>7, <1>9, <1>10, <1>11 DEF Counts

CountsOfRun ==
    phase = "done" /\ Steady =>
        Counts(ledger, SequentialOperatorSeats, SequentialGenuineSeats, SequentialRequests)

LEMMA CountsStep ==
    ASSUME Grounds, PatronsKnown, VenueInv, SeatExclusive, HoldersServed, Sharing, Identified,
           OperatorSold, AllRequested, CountsOfRun, [HarnessNext]_harnessVars
    PROVE  CountsOfRun'
<1> SUFFICES ASSUME phase' = "done", Steady'
             PROVE  Counts(ledger', SequentialOperatorSeats', SequentialGenuineSeats',
                           SequentialRequests')
  BY DEF CountsOfRun, Counts
<1>1. PoolInv /\ idle \in Nat /\ config' = config
  BY PoolBase DEF Grounds, OnTime
<1>2. Steady /\ policy' = policy
  BY <1>1, SteadyBefore, PoolBase, PolicyStays
<1>3. /\ Offered' = Offered /\ Public' = Public /\ (SeatQuota' <=> SeatQuota)
      /\ SequentialIdentities' = SequentialIdentities
  BY <1>1, <1>2
     DEF SequentialIdentities, SeatQuota, GovernedIdentitySupply, Offered, Public
<1>4. SequentialOperatorSeats' = SequentialOperatorSeats
  BY <1>1, <1>3 DEF SequentialOperatorSeats, SequentialEach
<1>5. SequentialGenuineSeats' = SequentialGenuineSeats
  BY <1>1, <1>3, <1>4 DEF SequentialGenuineSeats, SequentialEach
<1>6. SequentialRequests' = SequentialRequests
  BY <1>1, <1>3, <1>4, <1>5 DEF SequentialRequests
<1>7. Counts(ledger', SequentialOperatorSeats, SequentialGenuineSeats, SequentialRequests)
  <2>1. CASE phase = "done"
    BY <1>2, <2>1, LedgerStands DEF CountsOfRun
  <2>2. CASE Reconcile /\ ledger' = build_ledger(Lapsed)
    <3>1. phase = "genuine" /\ Unfinished = {}
      BY <2>2 DEF Reconcile
    <3>2. QED
      BY <1>2, <2>2, <3>1, LedgerSequential
  <2>3. QED
    BY <2>1, <2>2, LedgerBuilt
<1>8. QED
  BY <1>4, <1>5, <1>6, <1>7

LEMMA InitSequential ==
    HarnessInit => /\ TokensLast /\ OnTime /\ OperatorFirst /\ Begun /\ WorkedOff
                   /\ HoldersServed /\ Sharing /\ Identified /\ OperatorSold /\ CountsOfRun
<1> SUFFICES ASSUME HarnessInit
             PROVE  /\ TokensLast /\ OnTime /\ OperatorFirst /\ Begun /\ WorkedOff
                    /\ HoldersServed /\ Sharing /\ Identified /\ OperatorSold /\ CountsOfRun
  OBVIOUS
<1>1. /\ phase = "register" /\ round = 0 /\ idle = 0 /\ holds = << >> /\ tickets = << >>
      /\ patrons = FixturePatrons /\ tokens = [p \in FixturePatrons |-> TokenTTL]
  BY DEF HarnessInit, Init
<1>2. TokensLast
  BY <1>1, SettingsAssumption DEF TokensLast
<1>3. OnTime /\ OperatorFirst /\ Begun /\ HoldersServed
  BY <1>1 DEF OnTime, OperatorFirst, Begun, HoldersServed
<1>4. WorkedOff
  BY InitSettled
<1>5. Sharing /\ Identified /\ OperatorSold /\ CountsOfRun
  BY <1>1 DEF Sharing, Booking, Identified, OperatorSold, CountsOfRun
<1>6. QED
  BY <1>2, <1>3, <1>4, <1>5

\* What the run keeps all along, and what it comes to.
LEMMA RunAlwaysKept ==
    HarnessSpec =>
        [](/\ Grounds /\ SeatExclusive /\ PatronsKnown /\ SupplyKept /\ VenueInv /\ Paid
           /\ Supplied /\ Identified /\ CountsOfRun)
<1>1. HarnessSpec => [](SeatExclusive /\ FlowConsistent /\ PatronsKnown /\ SupplyKept)
  BY HarnessImplementsBookingFlow, FlowsAreConsistent, SeatsAreExclusive, PatronsAlwaysKnown,
     SupplyAlwaysKept, PTL
<1>2. HarnessSpec => [](PoolInv /\ OwnHolds /\ VenueInv)
  BY PoolAlwaysKept, OwnAlwaysKept, VenueAlwaysKept, PTL
<1>3. HarnessSpec =>
        [](/\ LabelsOwn /\ StampsPaced /\ TokensLast /\ OnTime /\ OperatorFirst /\ Begun
           /\ WorkedOff /\ HoldersServed /\ AllRequested /\ Paid /\ Supplied)
  <2>1. PoolInv /\ TokensLast /\ [HarnessNext]_harnessVars => TokensLast'
    BY PoolBase, TokensLastStep
  <2>2. QED
    BY <1>1, <1>2, <2>1, InitPaced, InitSequential, InitRequested, InitSupplied, LabelsStep,
       StampsStep, OnTimeStep, OperatorFirstStep, BegunStep, WorkedOffStep, ServedStep,
       AllRequestedStep, PaidStep, SuppliedStep, PTL DEF HarnessSpec
<1>4. HarnessSpec => []Grounds
  <2>1. /\ PoolInv /\ OwnHolds /\ FlowConsistent /\ TokensLast /\ LabelsOwn /\ StampsPaced
        /\ OnTime /\ OperatorFirst /\ Begun /\ WorkedOff
        => Grounds
    BY DEF Grounds
  <2>2. QED
    BY <1>1, <1>2, <1>3, <2>1, PTL
<1>5. HarnessSpec => [](Sharing /\ Identified)
  <2>1. Grounds /\ SupplyKept /\ Supplied /\ Identified /\ [HarnessNext]_harnessVars
          => Identified'
    BY IdentifiedStep
  <2>2. QED
    BY <1>1, <1>3, <1>4, <2>1, InitSequential, SharingStep, PTL DEF HarnessSpec
<1>6. HarnessSpec => []OperatorSold
  <2>1. Grounds /\ SeatExclusive /\ Sharing /\ Identified /\ OperatorSold
          /\ [HarnessNext]_harnessVars => OperatorSold'
    BY OperatorSoldStep
  <2>2. QED
    BY <1>1, <1>4, <1>5, <2>1, InitSequential, PTL DEF HarnessSpec
<1>7. HarnessSpec => []CountsOfRun
  <2>1. Grounds /\ PatronsKnown /\ VenueInv /\ SeatExclusive /\ HoldersServed /\ Sharing
          /\ Identified /\ OperatorSold /\ AllRequested /\ CountsOfRun
          /\ [HarnessNext]_harnessVars => CountsOfRun'
    BY CountsStep
  <2>2. QED
    BY <1>1, <1>2, <1>3, <1>4, <1>5, <1>6, <2>1, InitSequential, PTL DEF HarnessSpec
<1>8. QED
  BY <1>1, <1>2, <1>3, <1>4, <1>5, <1>7, PTL

\* Concurrency shortens the run and is not part of the mechanism
\* (test_harness.py): whatever the threads interleave, a run in acquire mode that
\* no deadline and no limit on requests disturbs comes to the seats, the demand
\* served and the requests that one thread comes to.  The fixtures are the
\* hypothesis: genuine patrons are listed once, and under the rate limit no two
\* patrons share a source (fixtures.py).
THEOREM ConcurrencyKeepsTheCounts ==
    HarnessSpec =>
        [](DistinctPatrons /\ (policy.per_source_rate_limit => DistinctSources)
             => CountsAsSequential)
<1>1. CountsOfRun =>
        (DistinctPatrons /\ (policy.per_source_rate_limit => DistinctSources)
           => CountsAsSequential)
  <2> SUFFICES ASSUME CountsOfRun, DistinctPatrons, Comparable,
                      policy.per_source_rate_limit => DistinctSources
               PROVE  Counts(ledger, SequentialOperatorSeats, SequentialGenuineSeats,
                             SequentialRequests)
    BY DEF CountsAsSequential, Counts, SequentialRequests
  <2>1. phase = "done" /\ Steady
    BY DEF Comparable, Unhindered, Steady, Unimpeded, PacedRun
  <2>2. QED
    BY <2>1 DEF CountsOfRun
<1>2. QED
  BY <1>1, RunAlwaysKept, PTL

-----------------------------------------------------------------------------
(* What an unimpeded run has on record. *)

\* A request is granted, or refused by the flow.
Welcomed == Unimpeded => \A k \in DOMAIN records : k.status \in {201, 409}

LEMMA RegisterWelcomed ==
    ASSUME PoolInv, Paid, LabelsOwn, StampsPaced, Unimpeded, [HarnessNext]_harnessVars,
           NEW i \in DOMAIN todo, Register(i)
    PROVE  Answered(i, "register", {201, 409})
<1>1. ~RateLimited(i)
  BY StampsRequest DEF Unimpeded, RateLimited
<1>2. Gated => todo[i].has \in unspent
  BY DEF Register, Unimpeded, Paid
<1>3. ~(Gated /\ Challenge!SpendRefused(todo[i].has))
  BY <1>2 DEF Challenge!SpendRefused
<1>4. Recorded(i, "register", 201) \/ Recorded(i, "register", 409)
  BY <1>1, <1>3 DEF Register
<1>5. QED
  BY <1>4, RecordedAnswer

LEMMA BookingWelcomed ==
    ASSUME PoolInv, TokensLast, LabelsOwn, StampsPaced, Unimpeded, [HarnessNext]_harnessVars,
           NEW i \in DOMAIN todo, Hold(i) \/ Confirm(i)
    PROVE  \E step \in {"hold", "confirm"} : Answered(i, step, {201, 409})
<1>1. Authentic(Patron(i)) /\ ~RateLimited(i)
  BY LetIn, HoldCases, ConfirmCases DEF Booking
<1>2. CASE Hold(i)
  <2>1. Recorded(i, "hold", 201) \/ Recorded(i, "hold", 409)
    BY <1>1, <1>2 DEF Hold
  <2>2. QED
    BY <2>1, RecordedAnswer
<1>3. CASE Confirm(i)
  <2>1. Recorded(i, "confirm", 201) \/ Recorded(i, "confirm", 409)
    BY <1>1, <1>3 DEF Confirm
  <2>2. QED
    BY <2>1, RecordedAnswer
<1>4. QED
  BY <1>2, <1>3

LEMMA WelcomedStep ==
    ASSUME PoolInv, OnTime, Paid, TokensLast, LabelsOwn, StampsPaced, Welcomed,
           [HarnessNext]_harnessVars
    PROVE  Welcomed'
<1> SUFFICES ASSUME Unimpeded'
             PROVE  \A k \in DOMAIN records' : k.status \in {201, 409}
  BY DEF Welcomed
<1>1. Unimpeded
  BY UnimpededBefore DEF OnTime
<1>2. \A k \in DOMAIN records : k.status \in {201, 409}
  BY <1>1 DEF Welcomed
<1>3. ASSUME NEW i, NEW step, Answered(i, step, {201, 409})
      PROVE  \A k \in DOMAIN records' : k.status \in {201, 409}
  <2>1. PICK status \in {201, 409} :
           records' = OneMore(records, Key(Actor, step, status, Source(i)))
    BY <1>3 DEF Answered
  <2> DEFINE key == Key(Actor, step, status, Source(i))
  <2>2. key.status = status /\ records' = OneMore(records, key)
    BY <2>1 DEF Key
  <2> HIDE DEF key
  <2>3. DOMAIN records' = DOMAIN records \cup {key}
    BY <2>2 DEF OneMore
  <2>4. QED
    BY <1>2, <2>1, <2>2, <2>3
<1>4. CASE \E i \in DOMAIN todo : Register(i)
  BY <1>1, <1>3, <1>4, RegisterWelcomed
<1>5. CASE \E i \in DOMAIN todo : Hold(i) \/ Confirm(i)
  <2>1. PICK i \in DOMAIN todo : Hold(i) \/ Confirm(i)
    BY <1>5
  <2>2. PICK step \in {"hold", "confirm"} : Answered(i, step, {201, 409})
    BY <1>1, <2>1, BookingWelcomed
  <2>3. QED
    BY <1>3, <2>2
<1>6. CASE \/ \E i \in DOMAIN todo : PayChallenge(i)
           \/ BeginRound \/ BeginGenuineDemand \/ Reconcile \/ Elapse \/ UNCHANGED harnessVars
  <2>1. records' = records
    BY <1>6 DEF PayChallenge, BeginRound, BeginGenuineDemand, Reconcile, Elapse, harnessVars,
                harness
  <2>2. QED
    BY <1>2, <2>1
<1>7. QED
  BY <1>4, <1>5, <1>6 DEF HarnessNext, HarnessStep, Finished

\* So nothing was invalid, and nothing was refused by the rate limit.
NoneInvalid ==
    CountOutcomes(INDIVIDUALLY_INVALID) = 0 /\ CountOutcomes({"refused_by_rate_limit"}) = 0

LEMMA WelcomedCounts ==
    ASSUME Welcomed, Unimpeded PROVE NoneInvalid
<1>1. \A k \in DOMAIN records :
         /\ classify(k.status) \notin INDIVIDUALLY_INVALID
         /\ classify(k.status) # "refused_by_rate_limit"
  BY DEF Welcomed, classify, INDIVIDUALLY_INVALID
<1>2. /\ Matching(records, Actors, Steps, INDIVIDUALLY_INVALID) = {}
      /\ Matching(records, Actors, Steps, {"refused_by_rate_limit"}) = {}
  BY <1>1 DEF Matching
<1>3. /\ CountIn(records, Actors, Steps, INDIVIDUALLY_INVALID) = 0
      /\ CountIn(records, Actors, Steps, {"refused_by_rate_limit"}) = 0
  BY <1>2, TotalEmpty DEF CountIn
<1>4. QED
  BY <1>3, CountIsTotal DEF NoneInvalid, CountOutcomes, Actors

-----------------------------------------------------------------------------
(* The rows of the comparison. *)

\* What the fixtures are chosen for (fixtures.py, scenarios.py): each patron and
\* each source label is listed once, the household is not among the genuine
\* patrons, there are candidates enough for every scenario, the sources share
\* the seats out evenly, and the pace keeps to the rate limit.
FixturesServe ==
    /\ SeatQuotaDefault > 0 /\ GenuinePatrons # << >> /\ DistinctPatrons
    /\ HouseholdPatron \notin {GenuinePatrons[i] : i \in DOMAIN GenuinePatrons}
    /\ \A i, j \in DOMAIN SourceLabels : SourceLabels[i] = SourceLabels[j] => i = j
    /\ Len(SourceLabels) <= Len(Candidates)
    /\ Len(SourceLabels) * (SeatsAllocated \div Len(SourceLabels)) = SeatsAllocated
    /\ SeatsAllocated <= Len(Candidates) * SeatQuotaDefault
    /\ Pace * Limit >= Window

LEMMA ServiceOf ==
    ASSUME NEW p
    PROVE  /\ p \in VulnerableApp("") <=> p = VULNERABLE_NONE
           /\ p \in VulnerableApp("per-source-rate-limit")
                <=> p = VULNERABLE_PER_SOURCE_RATE_LIMIT
           /\ p \in VulnerableApp("per-account-quota") <=> p = VULNERABLE_PER_ACCOUNT_QUOTA
           /\ p \in VulnerableApp("front-door-gate") <=> p = VULNERABLE_FRONT_DOOR_GATE
<1>1. /\ VULNERABLE_NONE.name = "no-anti-automation"
      /\ VULNERABLE_PER_SOURCE_RATE_LIMIT.name = "per-source-rate-limit"
      /\ VULNERABLE_PER_ACCOUNT_QUOTA.name = "per-account-quota"
      /\ VULNERABLE_FRONT_DOOR_GATE.name = "front-door-gate"
  BY DEF VULNERABLE_NONE, VULNERABLE_PER_SOURCE_RATE_LIMIT, VULNERABLE_PER_ACCOUNT_QUOTA,
         VULNERABLE_FRONT_DOOR_GATE, Unlimited
<1>2. \A name : VulnerableApp(name) = selected_policy(name)
  BY DEF VulnerableApp, create_vulnerable_app
<1>3. VulnerableApp("") = {VULNERABLE_NONE}
  BY <1>2 DEF selected_policy
<1>4. ASSUME NEW name, name # ""
      PROVE  p \in VulnerableApp(name) <=>
                /\ \/ p = VULNERABLE_NONE \/ p = VULNERABLE_PER_SOURCE_RATE_LIMIT
                   \/ p = VULNERABLE_PER_ACCOUNT_QUOTA \/ p = VULNERABLE_FRONT_DOOR_GATE
                /\ p.name = name
  BY <1>2, <1>4 DEF selected_policy, VULNERABLE_POLICIES
<1>5. /\ p \in VulnerableApp("per-source-rate-limit")
           <=> p = VULNERABLE_PER_SOURCE_RATE_LIMIT
      /\ p \in VulnerableApp("per-account-quota") <=> p = VULNERABLE_PER_ACCOUNT_QUOTA
      /\ p \in VulnerableApp("front-door-gate") <=> p = VULNERABLE_FRONT_DOOR_GATE
  BY <1>1, <1>4
<1>6. QED
  BY <1>3, <1>5

LEMMA RowIs ==
    ASSUME IsRow
    PROVE  \/ policy = SECURE /\ config = SECURE_BASELINE
           \/ policy = VULNERABLE_NONE /\ config \in {NO_ANTI_AUTOMATION, ABANDONED_HOLDS}
           \/ /\ policy = VULNERABLE_PER_SOURCE_RATE_LIMIT
              /\ config \in {PER_SOURCE_RATE_LIMIT, SLOW_AND_SEQUENTIAL}
           \/ policy = VULNERABLE_PER_ACCOUNT_QUOTA /\ config = PER_ACCOUNT_QUOTA
           \/ policy = VULNERABLE_FRONT_DOOR_GATE /\ config = FRONT_DOOR_GATE
<1>1. PICK t \in DEFAULT_TARGETS : policy = t.policy /\ config = t.config
  BY DEF IsRow
<1>2. \A scenario, service, control :
         t \in Row(scenario, service, control) => t.policy \in service /\ t.config = scenario
  BY DEF Row
<1>3. \/ t.policy \in secure_app /\ t.config = SECURE_BASELINE
      \/ t.policy \in VulnerableApp("") /\ t.config = NO_ANTI_AUTOMATION
      \/ t.policy \in VulnerableApp("") /\ t.config = ABANDONED_HOLDS
      \/ /\ t.policy \in VulnerableApp("per-source-rate-limit")
         /\ t.config = PER_SOURCE_RATE_LIMIT
      \/ t.policy \in VulnerableApp("per-account-quota") /\ t.config = PER_ACCOUNT_QUOTA
      \/ t.policy \in VulnerableApp("front-door-gate") /\ t.config = FRONT_DOOR_GATE
      \/ /\ t.policy \in VulnerableApp("per-source-rate-limit")
         /\ t.config = SLOW_AND_SEQUENTIAL
  BY <1>1, <1>2 DEF DEFAULT_TARGETS
<1>4. QED
  BY <1>1, <1>3, ServiceOf DEF secure_app

\* What an application leaves out, row by row.
Bare == ~SeatQuota /\ ~GovernedIdentitySupply /\ ~FlowState

LEMMA PolicyFields ==
    /\ policy = VULNERABLE_NONE => Bare /\ ~policy.per_source_rate_limit /\ ~Gated
    /\ policy = VULNERABLE_PER_SOURCE_RATE_LIMIT =>
          Bare /\ policy.per_source_rate_limit /\ ~Gated
    /\ policy = VULNERABLE_PER_ACCOUNT_QUOTA =>
          /\ SeatQuota /\ ~GovernedIdentitySupply /\ ~FlowState
          /\ ~policy.per_source_rate_limit /\ ~Gated
    /\ policy = VULNERABLE_FRONT_DOOR_GATE => Bare /\ ~policy.per_source_rate_limit /\ Gated
    /\ policy = SECURE => ~is_vulnerable(policy)
<1>1. ASSUME policy = VULNERABLE_NONE PROVE Bare /\ ~policy.per_source_rate_limit /\ ~Gated
  BY <1>1 DEF VULNERABLE_NONE, Unlimited, Bare, SeatQuota, GovernedIdentitySupply, FlowState,
              Gated
<1>2. ASSUME policy = VULNERABLE_PER_SOURCE_RATE_LIMIT
      PROVE  Bare /\ policy.per_source_rate_limit /\ ~Gated
  BY <1>2 DEF VULNERABLE_PER_SOURCE_RATE_LIMIT, Unlimited, Bare, SeatQuota,
              GovernedIdentitySupply, FlowState, Gated
<1>3. ASSUME policy = VULNERABLE_PER_ACCOUNT_QUOTA
      PROVE  /\ SeatQuota /\ ~GovernedIdentitySupply /\ ~FlowState
             /\ ~policy.per_source_rate_limit /\ ~Gated
  BY <1>3 DEF VULNERABLE_PER_ACCOUNT_QUOTA, Unlimited, Bare, SeatQuota,
              GovernedIdentitySupply, FlowState, Gated
<1>4. ASSUME policy = VULNERABLE_FRONT_DOOR_GATE
      PROVE  Bare /\ ~policy.per_source_rate_limit /\ Gated
  BY <1>4 DEF VULNERABLE_FRONT_DOOR_GATE, Unlimited, Bare, SeatQuota,
              GovernedIdentitySupply, FlowState, Gated
<1>5. ASSUME policy = SECURE PROVE ~is_vulnerable(policy)
  BY <1>5 DEF SECURE, Unlimited, is_vulnerable
<1>6. QED
  BY <1>1, <1>2, <1>3, <1>4, <1>5

\* What every scenario keeps of the default, and what each has of its own.
Common(c) ==
    /\ c.genuine_patrons = Len(GenuinePatrons) /\ c.genuine_seats_each = SeatQuotaDefault
    /\ c.source_labels = SourceLabels /\ c.abandon_rounds = 2
Given(c, mode, obtained, each, pace, pass) ==
    /\ Common(c)
    /\ c.mode = mode /\ c.operator_identities = obtained
    /\ c.operator_seats_per_identity = each /\ c.pace_seconds = pace
    /\ c.pass_verification = pass

LEMMA ScenarioFields ==
    /\ Given(SECURE_BASELINE, "acquire", Len(Candidates), SeatQuotaDefault + 1, 0, FALSE)
    /\ Given(NO_ANTI_AUTOMATION, "acquire", 1, SeatsAllocated, 0, FALSE)
    /\ Given(ABANDONED_HOLDS, "abandon", 1, SeatsAllocated, 0, FALSE)
    /\ ABANDONED_HOLDS.abandon_wait_seconds = HoldTTL + 1
    /\ Given(PER_SOURCE_RATE_LIMIT, "acquire", Len(SourceLabels),
             SeatsAllocated \div Len(SourceLabels), Pace, FALSE)
    /\ Given(PER_ACCOUNT_QUOTA, "acquire", Len(Candidates), SeatQuotaDefault, 0, FALSE)
    /\ Given(FRONT_DOOR_GATE, "acquire", 1, SeatsAllocated, 0, TRUE)
    /\ Given(SLOW_AND_SEQUENTIAL, "acquire", 1, SeatsAllocated, Pace, FALSE)
<1>1. Given(SECURE_BASELINE, "acquire", Len(Candidates), SeatQuotaDefault + 1, 0, FALSE)
  BY DEF Common, Given, HarnessConfig, SECURE_BASELINE
<1>2. Given(NO_ANTI_AUTOMATION, "acquire", 1, SeatsAllocated, 0, FALSE)
  BY DEF Common, Given, HarnessConfig, NO_ANTI_AUTOMATION
<1>3. /\ Given(ABANDONED_HOLDS, "abandon", 1, SeatsAllocated, 0, FALSE)
      /\ ABANDONED_HOLDS.abandon_wait_seconds = HoldTTL + 1
  BY DEF Common, Given, HarnessConfig, NO_ANTI_AUTOMATION, ABANDONED_HOLDS
<1>4. Given(PER_SOURCE_RATE_LIMIT, "acquire", Len(SourceLabels),
            SeatsAllocated \div Len(SourceLabels), Pace, FALSE)
  <2> DEFINE each == SeatsAllocated \div Len(SourceLabels)
  <2>1. PER_SOURCE_RATE_LIMIT =
           [HarnessConfig EXCEPT !.operator_identities = Len(SourceLabels),
               !.operator_seats_per_identity = each, !.pace_seconds = Pace]
    BY DEF PER_SOURCE_RATE_LIMIT
  <2> HIDE DEF each
  <2>2. Given(PER_SOURCE_RATE_LIMIT, "acquire", Len(SourceLabels), each, Pace, FALSE)
    BY <2>1 DEF Common, Given, HarnessConfig
  <2>3. QED
    BY <2>2 DEF each
<1>5. Given(PER_ACCOUNT_QUOTA, "acquire", Len(Candidates), SeatQuotaDefault, 0, FALSE)
  BY DEF Common, Given, HarnessConfig, PER_ACCOUNT_QUOTA
<1>6. Given(FRONT_DOOR_GATE, "acquire", 1, SeatsAllocated, 0, TRUE)
  BY DEF Common, Given, HarnessConfig, NO_ANTI_AUTOMATION, FRONT_DOOR_GATE
<1>7. Given(SLOW_AND_SEQUENTIAL, "acquire", 1, SeatsAllocated, Pace, FALSE)
  BY DEF Common, Given, HarnessConfig, NO_ANTI_AUTOMATION, SLOW_AND_SEQUENTIAL
<1>8. QED
  BY <1>1, <1>2, <1>3, <1>4, <1>5, <1>6, <1>7

\* A run as a scenario gives it presents that many candidates and serves every
\* genuine patron.
LEMMA GivenRun ==
    ASSUME config \in Configs, FixturesServe, NEW mode, NEW n \in Nat, NEW each, NEW pace, NEW pass,
           Given(config, mode, n, each, pace, pass), n <= Len(Candidates)
    PROVE  /\ Len(Offered) = n
           /\ HouseholdPatron \notin {Public[i] : i \in DOMAIN Public}
           /\ demand_offered \in Nat /\ demand_offered > 0
<1>1. Candidates \in Seq(EligibilityRefs \cup {Null}) /\ Len(Candidates) \in Nat
      /\ GenuinePatrons \in Seq(FixturePatrons) /\ Len(GenuinePatrons) \in Nat
  BY HarnessAssumption, LenProperties
<1>2. n = Min({n, Len(Candidates)})
  BY <1>1, LesserOf
<1>3. Offered = SubSeq(Candidates, 1, n)
  BY <1>2 DEF Offered, Given
<1>4. Len(Offered) = n
  BY <1>1, <1>3
<1>5. HouseholdPatron \notin {Public[i] : i \in DOMAIN Public}
  BY PublicIsPrefix DEF FixturesServe
<1>6. Len(GenuinePatrons) > 0
  BY <1>1 DEF FixturesServe
<1>7. demand_offered = Len(GenuinePatrons) * SeatQuotaDefault
  BY DEF demand_offered, Given, Common
<1>8. SeatQuotaDefault \in Nat /\ SeatQuotaDefault > 0
  BY SettingsAssumption DEF FixturesServe
<1>9. \A a, b \in Nat : a > 0 /\ b > 0 => a * b \in Nat /\ a * b > 0
  OBVIOUS
<1>10. QED
  BY <1>1, <1>4, <1>5, <1>6, <1>7, <1>8, <1>9

LEMMA TakesAll ==
    ASSUME NEW m \in Nat, NEW x \in Nat, m <= x
    PROVE  Min({m, x}) = m
BY LesserOf

\* What the operator asks for is the whole allocation, whichever the row.
Wanted(n, each) ==
    n \in Nat /\ each \in Nat /\ n <= Len(Candidates)
      /\ n * each \in Nat /\ SeatsAllocated <= n * each

LEMMA RowWants ==
    ASSUME config \in Configs, config.source_labels = SourceLabels, FixturesServe
    PROVE  /\ Wanted(1, SeatsAllocated)
           /\ Wanted(Len(SourceLabels), SeatsAllocated \div Len(SourceLabels))
           /\ Wanted(Len(Candidates), SeatQuotaDefault)
<1> DEFINE n == Len(SourceLabels)
           m == SeatsAllocated
           c == Len(Candidates)
           each == m \div n
<1>1. m \in Nat /\ SeatQuotaDefault \in Nat /\ c \in Nat
  BY SettingsAssumption, HarnessAssumption, LenProperties
<1>2. n \in Nat /\ n >= 1
  <2>1. SourceLabels \in Seq(Labels) /\ SourceLabels # << >>
    BY DEF Configs, Labels
  <2>2. QED
    BY <2>1
<1>3. n <= c /\ n * each = m /\ m <= c * SeatQuotaDefault
  BY DEF FixturesServe
<1>4. \A a \in Nat, b \in Nat : b >= 1 => a \div b \in Nat
  OBVIOUS
<1>5. \A a, b \in Nat : a * b \in Nat /\ 1 * a = a
  OBVIOUS
<1>6. each \in Nat
  BY <1>1, <1>2, <1>4
<1> HIDE DEF n, m, c, each
<1>7. n * each \in Nat /\ c * SeatQuotaDefault \in Nat /\ 1 * m = m
  BY <1>1, <1>2, <1>5, <1>6
<1>8. Wanted(1, m)
  BY <1>1, <1>2, <1>3, <1>7 DEF Wanted, m, c
<1>9. Wanted(n, each)
  BY <1>1, <1>2, <1>3, <1>6, <1>7 DEF Wanted, m, c
<1>10. Wanted(c, SeatQuotaDefault)
  BY <1>1, <1>3, <1>7 DEF Wanted, m, c
<1>11. QED
  BY <1>8, <1>9, <1>10 DEF n, m, c, each

\* Nobody is given less than it asks for, so a run that asks for the whole
\* allocation gets it and leaves nothing to the public.
LEMMA WantedIsSold ==
    ASSUME config \in Configs, FixturesServe, NEW n, NEW each, NEW pace, NEW pass,
           Given(config, "acquire", n, each, pace, pass), Wanted(n, each),
           ~GovernedIdentitySupply, SeatQuota => each <= SeatQuotaDefault
    PROVE  SequentialOperatorSeats = SeatsAllocated /\ SequentialGenuineSeats = 0
<1>1. /\ n \in Nat /\ each \in Nat /\ n <= Len(Candidates)
      /\ n * each \in Nat /\ SeatsAllocated <= n * each /\ SeatsAllocated \in Nat
      /\ SeatQuotaDefault \in Nat
  BY SettingsAssumption DEF Wanted
<1>2. SequentialIdentities = n
  BY <1>1, GivenRun DEF SequentialIdentities
<1>3. config.operator_seats_per_identity = each
  BY DEF Given
<1>4. SequentialEach(each) = each
  <2>1. SeatQuota => Min({each, SeatQuotaDefault}) = each
    BY <1>1, TakesAll
  <2>2. QED
    BY <2>1 DEF SequentialEach
<1>5. SequentialOperatorSeats = Min({SeatsAllocated, n * each})
  BY <1>2, <1>3, <1>4 DEF SequentialOperatorSeats
<1>6. SequentialOperatorSeats = SeatsAllocated
  BY <1>1, <1>5, TakesAll
<1> DEFINE y == Len(Public) * SequentialEach(config.genuine_seats_each)
<1>7. y \in Nat
  <2>1. Len(Public) \in Nat /\ SequentialEach(config.genuine_seats_each) \in Nat
    <3>1. PICK a \in Nat : a = config.genuine_seats_each
      BY DEF Configs
    <3>2. a \in Int /\ SeatQuotaDefault \in Int
      BY <1>1
    <3>3. Min({a, SeatQuotaDefault}) \in {a, SeatQuotaDefault}
      BY <3>2, MinOfTwo
    <3>4. Min({a, SeatQuotaDefault}) \in Nat
      BY <1>1, <3>3
    <3>5. QED
      BY <3>1, <3>4, PublicIsPrefix DEF SequentialEach
  <2>2. \A a, b \in Nat : a * b \in Nat
    OBVIOUS
  <2>3. QED
    BY <2>1, <2>2
<1>8. SequentialGenuineSeats = Min({SeatsAllocated - SeatsAllocated, y})
  BY <1>6 DEF SequentialGenuineSeats
<1>9. SeatsAllocated - SeatsAllocated = 0
  BY <1>1
<1> HIDE DEF y
<1>10. Min({0, y}) = 0
  BY <1>7, TakesAll
<1>11. QED
  BY <1>6, <1>8, <1>9, <1>10

\* A row that sells is one that the theorem on concurrency is about.
Sells ==
    /\ config.mode = "acquire" /\ (Gated => config.pass_verification)
    /\ policy.per_source_rate_limit => PacedRun
    /\ HouseholdPatron \notin {Public[i] : i \in DOMAIN Public}
    /\ SequentialOperatorSeats = SeatsAllocated /\ SequentialGenuineSeats = 0
    /\ demand_offered \in Nat /\ demand_offered > 0

LEMMA RowPaced ==
    ASSUME config \in Configs, FixturesServe, NEW n \in Nat, NEW each, NEW pass,
           Given(config, "acquire", n, each, Pace, pass), n <= Len(SourceLabels),
           n <= Len(Candidates)
    PROVE  PacedRun
<1>1. config.pace_seconds = Pace /\ config.source_labels = SourceLabels
  BY DEF Given, Common
<1>2. Len(Offered) = n
  BY GivenRun
<1>3. Paced
  <2>1. config.pace_seconds * Limit >= Window
    BY <1>1 DEF FixturesServe
  <2>2. QED
    BY <1>1, <1>2, <2>1 DEF Paced
<1>4. DistinctSources
  BY <1>1 DEF DistinctSources, FixturesServe, DistinctPatrons
<1>5. QED
  BY <1>3, <1>4 DEF PacedRun

LEMMA RowSells ==
    ASSUME config \in Configs, FixturesServe, IsRow, is_vulnerable(policy),
           config # ABANDONED_HOLDS
    PROVE  Sells
<1>1. ASSUME NEW n, NEW each, NEW pace, NEW pass,
             Given(config, "acquire", n, each, pace, pass), Wanted(n, each),
             ~GovernedIdentitySupply, SeatQuota => each <= SeatQuotaDefault,
             policy.per_source_rate_limit => PacedRun, Gated => pass
      PROVE  Sells
  <2>1. n \in Nat /\ n <= Len(Candidates)
    BY <1>1 DEF Wanted
  <2>2. SequentialOperatorSeats = SeatsAllocated /\ SequentialGenuineSeats = 0
    BY <1>1, WantedIsSold
  <2>3. /\ HouseholdPatron \notin {Public[i] : i \in DOMAIN Public}
        /\ demand_offered \in Nat /\ demand_offered > 0
    BY <1>1, <2>1, GivenRun
  <2>4. config.mode = "acquire" /\ config.pass_verification = pass
    BY <1>1 DEF Given
  <2>5. QED
    BY <1>1, <2>2, <2>3, <2>4 DEF Sells
<1>2. ASSUME config.source_labels = SourceLabels
      PROVE  /\ Wanted(1, SeatsAllocated)
             /\ Wanted(Len(SourceLabels), SeatsAllocated \div Len(SourceLabels))
             /\ Wanted(Len(Candidates), SeatQuotaDefault)
  BY <1>2, RowWants
<1>3. CASE policy = VULNERABLE_NONE /\ config = NO_ANTI_AUTOMATION
  <2>1. Given(config, "acquire", 1, SeatsAllocated, 0, FALSE)
    BY <1>3, ScenarioFields
  <2>2. Wanted(1, SeatsAllocated)
    BY <1>2, <2>1 DEF Given, Common
  <2>3. ~GovernedIdentitySupply /\ ~SeatQuota /\ ~Gated /\ ~policy.per_source_rate_limit
    BY <1>3, PolicyFields DEF Bare
  <2>4. QED
    BY <1>1, <2>1, <2>2, <2>3
<1>4. CASE policy = VULNERABLE_PER_SOURCE_RATE_LIMIT /\ config = PER_SOURCE_RATE_LIMIT
  <2> DEFINE n == Len(SourceLabels)
             each == SeatsAllocated \div n
  <2>1. Given(config, "acquire", n, each, Pace, FALSE)
    BY <1>4, ScenarioFields
  <2>2. Wanted(n, each) /\ n \in Nat /\ n <= Len(Candidates)
    BY <1>2, <2>1 DEF Given, Common, Wanted
  <2> HIDE DEF each
  <2>3. ~GovernedIdentitySupply /\ ~SeatQuota /\ ~Gated
    BY <1>4, PolicyFields DEF Bare
  <2>4. PacedRun
    <3>1. n <= Len(SourceLabels)
      BY <2>2
    <3> HIDE DEF n
    <3>2. QED
      BY <2>1, <2>2, <3>1, RowPaced
  <2> HIDE DEF n
  <2>5. QED
    BY <1>1, <2>1, <2>2, <2>3, <2>4
<1>5. CASE policy = VULNERABLE_PER_SOURCE_RATE_LIMIT /\ config = SLOW_AND_SEQUENTIAL
  <2>1. Given(config, "acquire", 1, SeatsAllocated, Pace, FALSE)
    BY <1>5, ScenarioFields
  <2>2. Wanted(1, SeatsAllocated) /\ 1 <= Len(SourceLabels)
    <3>1. config.source_labels = SourceLabels
      BY <2>1 DEF Given, Common
    <3>2. SourceLabels \in Seq(Labels) /\ SourceLabels # << >>
      BY <3>1 DEF Configs, Labels
    <3>3. QED
      BY <1>2, <3>1, <3>2
  <2>3. ~GovernedIdentitySupply /\ ~SeatQuota /\ ~Gated
    BY <1>5, PolicyFields DEF Bare
  <2>4. PacedRun
    BY <2>1, <2>2, RowPaced DEF Wanted
  <2>5. QED
    BY <1>1, <2>1, <2>2, <2>3, <2>4
<1>6. CASE policy = VULNERABLE_PER_ACCOUNT_QUOTA /\ config = PER_ACCOUNT_QUOTA
  <2>1. Given(config, "acquire", Len(Candidates), SeatQuotaDefault, 0, FALSE)
    BY <1>6, ScenarioFields
  <2>2. Wanted(Len(Candidates), SeatQuotaDefault)
    BY <1>2, <2>1 DEF Given, Common
  <2>3. ~GovernedIdentitySupply /\ ~Gated /\ ~policy.per_source_rate_limit
    BY <1>6, PolicyFields
  <2>4. SeatQuotaDefault <= SeatQuotaDefault
    BY SettingsAssumption
  <2>5. QED
    BY <1>1, <2>1, <2>2, <2>3, <2>4
<1>7. CASE policy = VULNERABLE_FRONT_DOOR_GATE /\ config = FRONT_DOOR_GATE
  <2>1. Given(config, "acquire", 1, SeatsAllocated, 0, TRUE)
    BY <1>7, ScenarioFields
  <2>2. Wanted(1, SeatsAllocated)
    BY <1>2, <2>1 DEF Given, Common
  <2>3. ~GovernedIdentitySupply /\ ~SeatQuota /\ ~policy.per_source_rate_limit
    BY <1>7, PolicyFields DEF Bare
  <2>4. QED
    BY <1>1, <2>1, <2>2, <2>3
<1>8. ~(policy = SECURE)
  BY PolicyFields
<1>9. QED
  BY <1>3, <1>4, <1>5, <1>6, <1>7, <1>8, RowIs

-----------------------------------------------------------------------------
(* The row that walks away. *)

Abandoning ==
    policy = VULNERABLE_NONE /\ config = ABANDONED_HOLDS /\ FixturesServe /\ InTime

\* The row's run: one identity, as many holds as there are seats, two rounds, the
\* second once the holds of the first have lapsed, no rest, and no limit at all.
LEMMA AbandonedFields ==
    ASSUME PoolInv, Abandoning
    PROVE  /\ Unimpeded /\ ~SeatQuota /\ WalksAway /\ Rounds = 2 /\ RestUntil = 0
           /\ config.operator_seats_per_identity = SeatsAllocated
           /\ config.pace_seconds = 0 /\ config.abandon_wait_seconds = HoldTTL + 1
           /\ (idle \in Nat => idle < HoldTTL) /\ SequentialIdentities = 1
           /\ demand_offered \in Nat /\ demand_offered > 0
<1>1. config \in Configs /\ FixturesServe
  BY DEF PoolInv, HarnessInv, Abandoning
<1>2. /\ Given(config, "abandon", 1, SeatsAllocated, 0, FALSE)
      /\ config.abandon_wait_seconds = HoldTTL + 1
  BY ScenarioFields DEF Abandoning
<1>3. /\ config.mode = "abandon" /\ config.abandon_rounds = 2 /\ config.pace_seconds = 0
      /\ config.operator_seats_per_identity = SeatsAllocated
      /\ config.source_labels = SourceLabels
  BY <1>2 DEF Given, Common
<1>4. ~SeatQuota /\ ~GovernedIdentitySupply /\ ~policy.per_source_rate_limit /\ ~Gated
  BY PolicyFields DEF Bare, Abandoning
<1>5. Unimpeded
  BY <1>4 DEF Unimpeded, Abandoning
<1>6. 1 <= Len(Candidates)
  BY <1>1, <1>3, RowWants DEF Wanted
<1>7. Len(Offered) = 1 /\ demand_offered \in Nat /\ demand_offered > 0
  BY <1>1, <1>2, <1>6, GivenRun
<1>8. SequentialIdentities = 1
  BY <1>4, <1>7 DEF SequentialIdentities
<1>9. config.pace_seconds + idle < HoldTTL
  BY DEF Abandoning, InTime
<1>10. idle \in Nat => idle < HoldTTL
  BY <1>3, <1>9, SettingsAssumption
<1>11. RestUntil = 0 /\ Rounds = 2 /\ WalksAway
  BY <1>3 DEF RestUntil, Rounds, WalksAway
<1>12. QED
  BY <1>2, <1>3, <1>4, <1>5, <1>7, <1>8, <1>10, <1>11

\* How many holds there are from rounds gone by, and how many since.
Gone == IF phase = "operator" /\ round = 1 THEN 0 ELSE SeatsAllocated
Taken ==
    IF phase = "operator" THEN SeatsAllocated - todo[1].left ELSE SeatsAllocated

\* A hold of this round stands; one of a round gone by lapses before the round
\* makes its first.
Fresh(h) ==
    /\ holds[h].state = "held" /\ holds[h].patron \in SelfService
    /\ now + HoldTTL <= holds[h].expires + idle
Stale(h) ==
    holds[h].state = "held" =>
        phase = "operator" /\ Taken = 0 /\ holds[h].expires < todo[1].at

Abandoned ==
    /\ tickets = << >> /\ \A i \in DOMAIN todo : todo[i].has = 0
    /\ phase = "operator" => todo[1].left <= SeatsAllocated
    /\ Len(holds) = Gone + Taken
    /\ \A h \in DOMAIN holds : holds[h].expires <= now + HoldTTL
    /\ \A h \in DOMAIN holds : IF h <= Gone THEN Stale(h) ELSE Fresh(h)
    /\ \A i \in DOMAIN todo : Taken > 0 /\ todo[i].left > 0 => todo[i].at = 0

Walking == Abandoning /\ Booking => Abandoned

LEMMA TakenType ==
    ASSUME PoolInv, Begun, Identified, Abandoning, Booking, Abandoned
    PROVE  /\ SeatsAllocated \in Nat /\ Gone \in Nat /\ Taken \in Nat /\ Taken <= SeatsAllocated
           /\ DOMAIN holds = 1..(Gone + Taken)
           /\ phase = "operator" =>
                 DOMAIN todo = 1..1 /\ 1 \in DOMAIN todo /\ todo[1].left \in Nat
                   /\ round \in {1, 2}
<1>1. SeatsAllocated \in Nat /\ TypeOK /\ Unimpeded /\ SequentialIdentities = 1 /\ Rounds = 2
  BY SettingsAssumption, AbandonedFields DEF PoolInv, HarnessInv
<1>2. ASSUME phase = "operator"
      PROVE  DOMAIN todo = 1..1 /\ 1 \in DOMAIN todo /\ todo[1].left \in Nat /\ round \in {1, 2}
  <2>1. DOMAIN todo = 1..Cardinality(SelfService) /\ Cardinality(SelfService) = 1
    BY <1>1, <1>2 DEF PoolInv, ItemsOfPhase, Identified
  <2>2. 1 \in DOMAIN todo
    BY <2>1
  <2>3. todo[1].left \in Nat
    BY <2>2 DEF PoolInv, TodoKnown, ItemRows
  <2>4. round >= 1 /\ round \in 0..2
    BY <1>1, <1>2 DEF Begun, PoolInv, PhaseKnown
  <2>5. QED
    BY <2>1, <2>2, <2>3, <2>4
<1>3. Taken \in Nat /\ Taken <= SeatsAllocated /\ Gone \in Nat
  BY <1>1, <1>2 DEF Taken, Gone, Abandoned
<1>4. DOMAIN holds = 1..(Gone + Taken)
  BY <1>1, LenProperties DEF Abandoned, TypeOK
<1>5. QED
  BY <1>1, <1>2, <1>3, <1>4

\* Once the holds of rounds gone by are lapsed, the seats left are those the
\* round has not taken.
Rid == \A h \in DOMAIN holds : h <= Gone => Lapsed[h].state # "held"

LEMMA FreshStands ==
    ASSUME TypeOK, idle \in Nat, idle < HoldTTL, NEW h \in DOMAIN holds, Fresh(h)
    PROVE  Lapsed[h].state = "held" /\ Lapsed[h].patron \in SelfService
<1>1. LapseKeepsRows /\ holds[h].expires \in Int /\ now \in Nat /\ HoldTTL \in Nat
  BY LapsedRows, ExpiryType, SettingsAssumption, BoundsAssumption DEF TypeOK
<1>2. ~(holds[h].expires <= now)
  BY <1>1 DEF Fresh
<1>3. QED
  BY <1>1, <1>2 DEF LapseKeepsRows, Due, Fresh

LEMMA LiveHolds ==
    ASSUME PoolInv, OnTime, Begun, Identified, SeatExclusive, Abandoning, Booking, Abandoned, Rid
    PROVE  /\ HeldIn(Lapsed) = (Gone + 1)..(Gone + Taken)
           /\ Cardinality(HeldIn(Lapsed)) = Taken
           /\ \A h \in HeldIn(Lapsed) : Lapsed[h].patron \in SelfService
           /\ SeatsAvailable = SeatsAllocated - Taken
           /\ FreeSeats(Lapsed) = {} <=> Taken = SeatsAllocated
<1> DEFINE g == Gone
           t == Taken
           m == SeatsAllocated
           H == HeldIn(Lapsed)
<1>1. /\ TypeOK /\ LapseKeepsRows /\ idle \in Nat /\ idle < HoldTTL
      /\ m \in Nat /\ g \in Nat /\ t \in Nat /\ t <= m /\ DOMAIN holds = 1..(g + t)
  BY AbandonedFields, TakenType, LapsedRows DEF PoolInv, HarnessInv, TypeOK, OnTime
<1>2. \A h \in DOMAIN holds : ~(h <= g) =>
          Lapsed[h].state = "held" /\ Lapsed[h].patron \in SelfService
  BY <1>1, FreshStands DEF Abandoned
<1>3. \A h \in DOMAIN holds : Lapsed[h].state = "held" <=> ~(h <= g)
  BY <1>2 DEF Rid
<1>4. DOMAIN Lapsed = 1..(g + t)
  BY <1>1 DEF LapseKeepsRows
<1>5. \A h : h \in H <=> h \in 1..(g + t) /\ ~(h <= g)
  BY <1>1, <1>3, <1>4 DEF HeldIn
<1>6. \A h \in H : Lapsed[h].patron \in SelfService
  BY <1>1, <1>2, <1>5
<1> HIDE DEF g, t, m, H
<1>7. \A h : h \in 1..(g + t) /\ ~(h <= g) <=> h \in (g + 1)..(g + t)
  BY <1>1
<1>8. H = (g + 1)..(g + t)
  BY <1>5, <1>7
<1>9. IsFiniteSet((g + 1)..(g + t)) /\ Cardinality((g + 1)..(g + t)) = t
  <2>1. g + 1 \in Int /\ g + t \in Int
    BY <1>1
  <2>2. /\ IsFiniteSet((g + 1)..(g + t))
        /\ Cardinality((g + 1)..(g + t))
             = IF g + 1 > g + t THEN 0 ELSE (g + t) - (g + 1) + 1
    BY <2>1, FS_Interval
  <2>3. QED
    BY <1>1, <2>2
<1>10. Cardinality(H) = t
  BY <1>8, <1>9
<1>11. SeatsAvailable = m - t
  <2>1. SeatsAvailable = m - Cardinality(H) - Len(tickets)
    BY DEF SeatsAvailable, HeldIn, H, m
  <2>2. Len(tickets) = 0
    BY DEF Abandoned
  <2>3. QED
    BY <1>1, <1>10, <2>1, <2>2
<1>12. FreeSeats(Lapsed) = {} <=> t = m
  <2>1. Cardinality(FreeSeats(Lapsed)) = m - t
    BY <1>1, <1>11, SeatsAreCounted DEF AvailabilityTruthful
  <2>2. IsFiniteSet(FreeSeats(Lapsed))
    <3>1. FreeSeats(Lapsed) \subseteq 1..m
      BY DEF FreeSeats, Seats, m
    <3>2. QED
      BY <1>1, <3>1, RowSetsFinite
  <2>3. FreeSeats(Lapsed) = {} <=> m - t = 0
    BY <2>1, <2>2, FS_EmptySet
  <2>4. QED
    BY <1>1, <2>3
<1>13. QED
  BY <1>6, <1>8, <1>10, <1>11, <1>12 DEF g, t, m, H

\* A round begins with nothing taken, and with the holds of the last one as those
\* gone by.
LEMMA FirstRoundBegins ==
    ASSUME PoolInv, Begun, SupplyKept, Supplied, Abandoning, phase = "register", BeginRound
    PROVE  Abandoned'
<1>1. /\ SeatsAllocated \in Nat /\ round = 0 /\ holds = << >> /\ tickets = << >>
      /\ Unimpeded /\ SequentialIdentities = 1 /\ RestUntil = 0
      /\ config.operator_seats_per_identity = SeatsAllocated
      /\ Unfinished = {} /\ DOMAIN identities = SelfService
  BY AbandonedFields, SettingsAssumption
     DEF Begun, BeginRound, PoolInv, HarnessInv, IdentitiesKnown
<1>2. Cardinality(DOMAIN identities) = 1
  BY <1>1, AllIdentified
<1>3. /\ holds' = << >> /\ tickets' = << >> /\ round' = 1 /\ phase' = "operator"
      /\ todo' = Items(1, SeatsAllocated, 0)
  <2>1. round' = 0 + 1 /\ ~(round > 0)
    BY <1>1 DEF BeginRound
  <2>2. todo' = Items(Cardinality(DOMAIN identities), config.operator_seats_per_identity, RestUntil)
    BY <2>1 DEF BeginRound
  <2>3. QED
    BY <1>1, <1>2, <2>1, <2>2 DEF BeginRound, vars, db
<1>4. /\ DOMAIN todo' = 1..1 /\ todo'[1].left = SeatsAllocated
      /\ \A j \in DOMAIN todo' : todo'[j].has = 0 /\ todo'[j].at = 0
  BY <1>3 DEF Items
<1>5. Gone' = 0 /\ Taken' = 0
  BY <1>1, <1>3, <1>4 DEF Gone, Taken
<1>6. Len(holds') = 0 /\ DOMAIN holds' = {}
  BY <1>3
<1>7. QED
  BY <1>1, <1>3, <1>4, <1>5, <1>6 DEF Abandoned

LEMMA NextRoundBegins ==
    ASSUME PoolInv, Begun, OnTime, Identified, Abandoning, Abandoned, phase = "operator", BeginRound
    PROVE  Abandoned'
<1>1. /\ SeatsAllocated \in Nat /\ DOMAIN todo = 1..1 /\ todo[1].left \in Nat
      /\ round \in {1, 2} /\ Rounds = 2 /\ Unfinished = {} /\ MoreRounds
      /\ Taken \in Nat /\ TypeOK /\ DOMAIN holds = 1..(Gone + Taken)
  BY AbandonedFields, TakenType DEF BeginRound, Booking, PoolInv, HarnessInv
<1>2. todo[1].left = 0 /\ round = 1
  <2>1. ~(todo[1].left > 0)
    BY <1>1 DEF Unfinished
  <2>2. QED
    BY <1>1, <2>1 DEF MoreRounds
<1>3. Gone = 0 /\ Taken = SeatsAllocated
  BY <1>1, <1>2 DEF Gone, Taken
<1>4. Cardinality(DOMAIN identities) = 1
  <2>1. Cardinality(SelfService) = 1
    BY AbandonedFields DEF Identified
  <2>2. QED
    BY <2>1 DEF PoolInv, HarnessInv, IdentitiesKnown
<1>5. now \in Nat /\ HoldTTL \in Nat /\ HoldTTL + 1 > 0
  BY RestType, SettingsAssumption
<1>6. /\ UNCHANGED <<holds, tickets, now>> /\ round' = 2 /\ phase' = "operator"
      /\ todo' = Items(1, SeatsAllocated, now + (HoldTTL + 1) + 0)
  <2>1. config.abandon_wait_seconds = HoldTTL + 1 /\ config.pace_seconds = 0
        /\ config.operator_seats_per_identity = SeatsAllocated
    BY AbandonedFields
  <2>2. round > 0 /\ config.abandon_wait_seconds > 0
    BY <1>2, <1>5, <2>1
  <2>3. todo' = Items(Cardinality(DOMAIN identities), config.operator_seats_per_identity,
                      now + config.abandon_wait_seconds + config.pace_seconds)
    BY <2>2 DEF BeginRound
  <2>4. QED
    BY <1>2, <1>4, <2>1, <2>3 DEF BeginRound, vars, db
<1>7. /\ todo'[1].left = SeatsAllocated /\ todo'[1].at = now + (HoldTTL + 1) + 0
      /\ \A j \in DOMAIN todo' : todo'[j].has = 0
  BY <1>6 DEF Items
<1>8. Gone' = SeatsAllocated /\ Taken' = 0
  BY <1>1, <1>6, <1>7 DEF Gone, Taken
<1>9. ASSUME NEW h \in DOMAIN holds PROVE h <= Gone' /\ Stale(h)'
  <2>1. h <= Gone'
    BY <1>1, <1>3, <1>8
  <2>2. holds[h].expires <= now + HoldTTL /\ holds[h].expires \in Int
    BY <1>1, ExpiryType DEF Abandoned
  <2>3. holds[h].expires < now + (HoldTTL + 1) + 0
    BY <1>5, <2>2
  <2>4. QED
    BY <1>6, <1>7, <1>8, <2>1, <2>3 DEF Stale
<1>10. Len(holds) = 0 + SeatsAllocated
  BY <1>3 DEF Abandoned
<1>11. QED
  BY <1>1, <1>5, <1>6, <1>7, <1>8, <1>9, <1>10 DEF Abandoned

LEMMA PublicFindsNothing ==
    ASSUME PoolInv, Begun, OnTime, Identified, Abandoning, Booking => Abandoned, BeginGenuineDemand
    PROVE  Abandoned'
<1>1. Rounds = 2 /\ RestUntil = 0 /\ SeatsAllocated \in Nat /\ phase \in {"register", "operator"}
      /\ Unfinished = {} /\ ~(round < 2)
  BY AbandonedFields, SettingsAssumption DEF BeginGenuineDemand, MoreRounds
<1>2. phase = "operator"
  BY <1>1 DEF Begun
<1>3. Booking /\ Abandoned
  BY <1>2 DEF Booking
<1>4. /\ DOMAIN todo = 1..1 /\ todo[1].left \in Nat /\ round \in {1, 2}
      /\ DOMAIN holds = 1..(Gone + Taken)
  BY <1>2, <1>3, TakenType
<1>5. todo[1].left = 0 /\ round = 2
  <2>1. ~(todo[1].left > 0)
    BY <1>1, <1>4 DEF Unfinished
  <2>2. QED
    BY <1>1, <1>4, <2>1
<1>6. Gone = SeatsAllocated /\ Taken = SeatsAllocated
  BY <1>1, <1>2, <1>5 DEF Gone, Taken
<1>7. /\ UNCHANGED <<holds, tickets, now, patrons, idle>> /\ phase' = "genuine"
      /\ todo' = Items(Len(Public), config.genuine_seats_each, 0)
  BY <1>1 DEF BeginGenuineDemand, vars, db
<1>8. \A j \in DOMAIN todo' : todo'[j].has = 0 /\ todo'[j].at = 0
  BY <1>7 DEF Items
<1>9. Gone' = SeatsAllocated /\ Taken' = SeatsAllocated
  BY <1>7 DEF Gone, Taken
<1>10. ASSUME NEW h \in DOMAIN holds PROVE IF h <= SeatsAllocated THEN Stale(h)' ELSE Fresh(h)'
  <2>1. IF h <= SeatsAllocated THEN Stale(h) ELSE Fresh(h)
    BY <1>3, <1>6 DEF Abandoned
  <2>2. CASE h <= SeatsAllocated
    <3>1. SeatsAllocated # 0
      BY <1>1, <1>4, <1>6, <2>2
    <3>2. holds[h].state # "held"
      BY <1>6, <2>1, <2>2, <3>1 DEF Stale
    <3>3. QED
      BY <1>7, <2>2, <3>2 DEF Stale
  <2>3. CASE ~(h <= SeatsAllocated)
    BY <1>7, <2>1, <2>3 DEF Fresh, SelfService
  <2>4. QED
    BY <2>2, <2>3
<1>11. Len(holds) = SeatsAllocated + SeatsAllocated
  BY <1>3, <1>6 DEF Abandoned
<1>12. QED
  BY <1>3, <1>7, <1>8, <1>9, <1>10, <1>11 DEF Abandoned

\* The hold of an item that is at its turn finds the holds of rounds gone by due.
LEMMA TurnIsRid ==
    ASSUME PoolInv, Begun, Identified, Abandoning, Booking, Abandoned, NEW i \in DOMAIN todo,
           Rested(i)
    PROVE  Rid
<1>1. /\ TypeOK /\ LapseKeepsRows /\ now \in Nat
      /\ phase = "operator" => i = 1 /\ todo[1].at \in Nat
  <2>1. TypeOK /\ LapseKeepsRows /\ now \in Nat
    BY LapsedRows, RestType DEF PoolInv, HarnessInv, TypeOK
  <2>2. phase = "operator" => DOMAIN todo = 1..1
    BY TakenType
  <2>3. todo[i].at \in Nat
    BY DEF PoolInv, TodoKnown, ItemRows
  <2>4. QED
    BY <2>1, <2>2, <2>3
<1>2. ASSUME NEW h \in DOMAIN holds, h <= Gone, Lapsed[h].state = "held" PROVE FALSE
  <2>1. holds[h].state = "held" /\ ~(holds[h].expires <= now)
    BY <1>1, <1>2 DEF LapseKeepsRows, Due
  <2>2. phase = "operator" /\ holds[h].expires < todo[1].at
    BY <1>2, <2>1 DEF Abandoned, Stale
  <2>3. now >= todo[1].at /\ todo[1].at \in Nat
    BY <1>1, <2>2 DEF Rested
  <2>4. holds[h].expires \in Int
    BY <1>1, ExpiryType
  <2>5. QED
    BY <1>1, <2>1, <2>2, <2>3, <2>4
<1>3. QED
  BY <1>2 DEF Rid

LEMMA HoldAbandoned ==
    ASSUME Grounds, SeatExclusive, Identified, Abandoning, Booking, Abandoned,
           [HarnessNext]_harnessVars, NEW i \in DOMAIN todo, Hold(i)
    PROVE  Abandoned'
<1> DEFINE p == Patron(i)
           g == Gone
           t == Taken
           m == SeatsAllocated
<1>1. /\ PoolInv /\ TokensLast /\ LabelsOwn /\ StampsPaced /\ OnTime /\ Begun /\ TypeOK
      /\ LapseKeepsRows /\ idle \in Nat
  BY LapsedRows DEF Grounds, PoolInv, HarnessInv, TypeOK, OnTime
<1>2. /\ i \in InWork /\ Rested(i) /\ UNCHANGED <<config, phase, round, identities, idle>>
      /\ patrons' = patrons
  BY <1>1, HoldCases, OneHoldMore DEF Hold
<1>3. /\ ~SeatQuota /\ WalksAway /\ RestUntil = 0 /\ idle < HoldTTL /\ Unimpeded
  BY <1>1, AbandonedFields
<1>4. /\ m \in Nat /\ g \in Nat /\ t \in Nat /\ t <= m /\ DOMAIN holds = 1..(g + t)
      /\ phase = "operator" => i = 1 /\ todo[1].left \in Nat /\ t = m - todo[1].left
      /\ phase = "genuine" => t = m
      /\ Len(holds) = g + t
  <2>1. phase = "operator" => DOMAIN todo = 1..1 /\ todo[1].left \in Nat
    BY <1>1, TakenType
  <2>2. phase = "operator" => i = 1 /\ todo[1].left \in Nat /\ t = m - todo[1].left
    BY <2>1 DEF Taken
  <2>3. phase = "genuine" => t = m
    BY DEF Taken
  <2>4. QED
    BY <1>1, <2>2, <2>3, TakenType DEF Abandoned
<1>5. Rid
  BY <1>1, <1>2, TurnIsRid
<1>6. FreeSeats(Lapsed) = {} <=> t = m
  BY <1>1, <1>5, LiveHolds
<1>7. p \in patrons /\ Authentic(p) /\ ~RateLimited(i)
  BY <1>1, <1>3, LetIn
<1>8. PICK granted : Ends(i, granted)
  BY <1>3, HoldCases DEF HoldGranted, HoldRefused
<1>9. /\ DOMAIN todo' = DOMAIN todo /\ todo'[i].left = todo[i].left - 1
      /\ todo[i].left - 1 \in Nat /\ todo'[i].has = 0
      /\ \A j \in DOMAIN todo : j # i => todo'[j].left = todo[j].left /\ todo'[j].has = todo[j].has
  BY <1>1, <1>2, <1>8, EndsItems
<1>10. \A j \in DOMAIN todo' : todo'[j].has = 0
  BY <1>9 DEF Abandoned
<1>11. \A j \in DOMAIN todo' : (todo'[j].left > 0 /\ t > 0) \/ j = i =>
          todo'[j].left = 0 \/ todo'[j].at = 0
  <2>1. Rests(i)
    BY <1>1, <1>2, <1>8, EndsRests
  <2>2. \A j \in DOMAIN todo : \/ todo'[j].left = 0
                               \/ /\ todo[j].left > 0
                                  /\ todo'[j].at = 0 \/ (j # i /\ todo'[j].at = todo[j].at)
    BY <1>3, <2>1 DEF Rests
  <2>3. \A j \in DOMAIN todo : t > 0 /\ todo[j].left > 0 => todo[j].at = 0
    BY DEF Abandoned
  <2>4. QED
    BY <1>9, <2>2, <2>3
<1>12. Gone' = g
  BY <1>2 DEF Gone
<1>13. CASE HoldGranted(i)
  <2>1. PICK show \in Shows : PlaceHold(p, show)
    BY <1>13 DEF HoldGranted
  <2>2. FreeSeats(Lapsed) # {} /\ now' = now /\ tickets' = tickets
    BY <2>1 DEF PlaceHold, HoldAdmitted
  <2>3. phase = "operator" /\ i = 1 /\ t < m
    BY <1>4, <1>6, <2>2 DEF Booking
  <2>4. p \in SelfService
    BY <1>1, <2>3, PatronKnown
  <2>5. PlacedRows(p)
    BY <1>1, <1>7, <2>1, PlaceHoldRows
  <2>6. Taken' = t + 1 /\ todo'[1].left <= m
    <3>1. Taken' = m - todo'[1].left
      BY <1>2, <2>3 DEF Taken
    <3> HIDE DEF t, m
    <3>2. QED
      BY <1>4, <1>9, <2>3, <3>1
  <2>7. SelfService' = SelfService
    BY <1>2 DEF SelfService
  <2>8. now \in Nat /\ HoldTTL \in Nat
    BY <1>1, RestType, SettingsAssumption
  <2> HIDE DEF p, g, t, m
  <2>9. Len(holds') = g + t + 1 /\ DOMAIN holds' = 1..(g + t + 1)
    <3>1. DOMAIN holds' = 1..(g + t + 1)
      BY <1>4, <2>5 DEF PlacedRows
    <3>2. holds' \in Seq(HoldRows)
      BY <1>1, PoolBase DEF TypeOK
    <3>3. Len(holds') \in Nat /\ 1..Len(holds') = 1..(g + t + 1)
      BY <3>1, <3>2, LenProperties
    <3>4. Cardinality(1..Len(holds')) = Len(holds')
          /\ Cardinality(1..(g + t + 1)) = g + t + 1
      <4>1. g + t + 1 \in Nat
        BY <1>4
      <4>2. QED
        BY <3>3, <4>1, CardinalityUpTo
    <3>5. QED
      BY <3>1, <3>3, <3>4
  <2>10. ASSUME NEW h \in DOMAIN holds'
         PROVE  /\ holds'[h].expires <= now + HoldTTL
                /\ IF h <= g THEN Stale(h)' ELSE Fresh(h)'
    <3>1. CASE h \in DOMAIN holds
      <4>1. holds'[h].state = Lapsed[h].state /\ holds'[h].patron = holds[h].patron
            /\ holds'[h].expires = holds[h].expires
        BY <1>1, <2>5, <3>1 DEF PlacedRows, LapseKeepsRows
      <4>2. /\ holds[h].expires <= now + HoldTTL
            /\ IF h <= g THEN Stale(h) ELSE Fresh(h)
        BY <3>1 DEF Abandoned, g
      <4>3. CASE h <= g
        BY <3>1, <4>1, <4>2, <4>3, <1>5 DEF Rid, Stale, g
      <4>4. CASE ~(h <= g)
        <5>1. Fresh(h) /\ Lapsed[h].state = "held"
          BY <1>1, <1>3, <3>1, <4>2, <4>4, FreshStands
        <5>2. Fresh(h)'
          BY <1>2, <2>2, <2>7, <4>1, <5>1 DEF Fresh
        <5>3. QED
          BY <4>1, <4>2, <4>4, <5>2
      <4>5. QED
        BY <4>3, <4>4
    <3>2. CASE h \notin DOMAIN holds
      <4>1. h = g + t + 1
        BY <1>4, <2>9, <3>2
      <4>2. ~(h <= g)
        BY <1>4, <4>1
      <4>3. holds'[h] = HoldRow(Lapsed, p)
        BY <1>4, <2>5, <4>1 DEF PlacedRows
      <4>4. /\ holds'[h].expires = now + HoldTTL /\ holds'[h].state = "held"
            /\ holds'[h].patron = p
        BY <4>3 DEF HoldRow
      <4>5. now + HoldTTL <= now + HoldTTL /\ now + HoldTTL <= now + HoldTTL + idle
        BY <1>1, <2>8
      <4>6. Fresh(h)'
        BY <1>2, <2>2, <2>4, <2>7, <4>4, <4>5 DEF Fresh
      <4>7. QED
        BY <4>2, <4>4, <4>5, <4>6
    <3>3. QED
      BY <3>1, <3>2
  <2>11. \A j \in DOMAIN todo' : todo'[j].left > 0 => todo'[j].at = 0
    <3>1. DOMAIN todo = 1..1
      BY <1>1, <2>3, TakenType
    <3>2. ASSUME NEW j \in DOMAIN todo', todo'[j].left > 0 PROVE todo'[j].at = 0
      <4>1. j = i
        BY <1>9, <2>3, <3>1
      <4>2. todo'[j].left # 0
        BY <3>2
      <4>3. QED
        BY <1>11, <4>1, <4>2
    <3>3. QED
      BY <3>2
  <2>12. Len(holds') = Gone' + Taken'
    <3>1. g + t + 1 = g + (t + 1)
      BY <1>4
    <3>2. QED
      BY <1>12, <2>6, <2>9, <3>1
  <2>13. tickets' = << >>
    BY <2>2 DEF Abandoned
  <2>14. QED
    BY <1>10, <1>12, <2>2, <2>6, <2>10, <2>11, <2>12, <2>13 DEF Abandoned, m
<1>14. CASE ~HoldGranted(i)
  <2>1. PICK show \in Shows : RefuseHold(p, show)
    BY <1>7, <1>14, HoldOutcomes
  <2>2. FreeSeats(Lapsed) = {}
    BY <1>3, <2>1 DEF RefuseHold, HoldAdmitted
  <2>3. t = m
    BY <1>6, <2>2
  <2>4. phase = "genuine"
    <3>1. phase = "operator" => todo[1].left - 1 \in Nat /\ todo[1].left \in Nat
      BY <1>4, <1>9
    <3> HIDE DEF t, m
    <3>2. phase # "operator"
      BY <1>4, <2>3, <3>1
    <3>3. QED
      BY <3>2 DEF Booking
  <2>5. UNCHANGED <<holds, tickets, now>>
    <3>1. HoldRefused(i)
      BY <1>14, HoldCases
    <3>2. QED
      BY <3>1 DEF HoldRefused, vars, db
  <2>6. Taken' = t
    BY <1>2, <2>4 DEF Taken
  <2>7. ASSUME NEW h \in DOMAIN holds PROVE IF h <= g THEN Stale(h)' ELSE Fresh(h)'
    <3>1. IF h <= g THEN Stale(h) ELSE Fresh(h)
      BY DEF Abandoned
    <3>2. CASE h <= g
      <4>1. holds[h].state # "held"
        BY <2>4, <3>1, <3>2 DEF Stale
      <4>2. QED
        BY <2>5, <3>2, <4>1 DEF Stale
    <3>3. CASE ~(h <= g)
      BY <1>2, <2>5, <3>1, <3>3 DEF Fresh, SelfService
    <3>4. QED
      BY <3>2, <3>3
  <2>8. \A j \in DOMAIN todo' : t > 0 /\ todo'[j].left > 0 => todo'[j].at = 0
    <3>1. ASSUME NEW j \in DOMAIN todo', t > 0, todo'[j].left > 0 PROVE todo'[j].at = 0
      <4>1. todo'[j].left # 0
        BY <3>1
      <4>2. QED
        BY <1>11, <3>1, <4>1
    <3>2. QED
      BY <3>1
  <2>9. phase' # "operator"
    BY <1>2, <2>4
  <2> HIDE DEF g, t, m
  <2>10. tickets' = << >> /\ Len(holds') = g + t
         /\ \A h \in DOMAIN holds' : holds'[h].expires <= now' + HoldTTL
    BY <1>4, <2>5 DEF Abandoned
  <2>11. QED
    BY <1>10, <1>12, <2>5, <2>6, <2>7, <2>8, <2>9, <2>10 DEF Abandoned
<1>15. QED
  BY <1>13, <1>14

\* As long as an item is not finished there is one in work.
LEMMA SomeWork ==
    ASSUME PoolInv, Unfinished # {}
    PROVE  InWork # {}
<1>1. PICK n \in Nat : DOMAIN todo = 1..n
  BY ItemsNumbered
<1>2. Unfinished \in SUBSET Nat
  <2>1. 1..n \subseteq Nat
    OBVIOUS
  <2>2. QED
    BY <1>1, <2>1 DEF Unfinished
<1>3. PICK i \in Unfinished : \A j \in Unfinished : i <= j
  BY <1>2, LeastExists
<1>4. \A j \in Unfinished : ~(j < i)
  <2>1. i \in Nat /\ \A j \in Unfinished : j \in Nat /\ i <= j
    BY <1>2, <1>3
  <2>2. QED
    BY <2>1
<1>5. Before(i) = 0
  <2>1. {j \in Unfinished : j < i} = {}
    BY <1>4
  <2>2. QED
    BY <2>1, FS_EmptySet DEF Before
<1>6. Threads > 0
  BY DEF Threads, PoolInv, HarnessInv, Configs
<1>7. QED
  BY <1>3, <1>5, <1>6 DEF InWork

LEMMA ElapseAbandoned ==
    ASSUME PoolInv, OnTime, Begun, Identified, Abandoning, Booking, Abandoned, Elapse
    PROVE  Abandoned'
<1>1. /\ UNCHANGED <<config, phase, round, todo, holds, tickets, patrons>> /\ now' = now + 1
      /\ (Busy => idle' = idle + 1) /\ idle \in Nat /\ now \in Nat /\ HoldTTL \in Nat
  BY RestType, SettingsAssumption DEF Elapse, Tick, db, OnTime
<1>2. Gone' = Gone /\ Taken' = Taken /\ SelfService' = SelfService
  BY <1>1 DEF Gone, Taken, SelfService
<1>3. Gone \in Nat /\ Taken \in Nat /\ DOMAIN holds = 1..(Gone + Taken)
  BY TakenType
<1>4. Taken > 0 => Busy
  <2>1. CASE Unfinished = {}
    BY <2>1 DEF Busy
  <2>2. CASE Unfinished # {} /\ Taken > 0
    <3>1. PICK i \in InWork : TRUE
      BY <2>2, SomeWork
    <3>2. i \in DOMAIN todo /\ todo[i].left > 0
      BY DEF InWork, Unfinished
    <3>3. todo[i].at = 0
      BY <2>2, <3>2 DEF Abandoned
    <3>4. Rested(i)
      BY <1>1, <3>3 DEF Rested
    <3>5. QED
      BY <3>4 DEF Busy
  <2>3. QED
    BY <2>1, <2>2
<1>5. ASSUME NEW h \in DOMAIN holds
      PROVE  /\ holds[h].expires <= now' + HoldTTL
             /\ IF h <= Gone THEN Stale(h)' ELSE Fresh(h)'
  <2>1. /\ holds[h].expires <= now + HoldTTL /\ holds[h].expires \in Int
        /\ IF h <= Gone THEN Stale(h) ELSE Fresh(h)
    BY ExpiryType DEF Abandoned, PoolInv, HarnessInv
  <2>2. holds[h].expires <= now' + HoldTTL
    BY <1>1, <2>1
  <2>3. CASE h <= Gone
    BY <1>1, <1>2, <2>1, <2>2, <2>3 DEF Stale
  <2>4. CASE ~(h <= Gone)
    <3>1. Taken > 0
      BY <1>3, <2>4
    <3>2. idle' = idle + 1
      BY <1>1, <1>4, <3>1
    <3>3. now + HoldTTL <= holds[h].expires + idle
      BY <2>1, <2>4 DEF Fresh
    <3>4. now' + HoldTTL <= holds[h].expires + idle'
      BY <1>1, <2>1, <3>2, <3>3
    <3>5. Fresh(h)'
      BY <1>1, <1>2, <2>1, <2>4, <3>4 DEF Fresh
    <3>6. QED
      BY <2>2, <2>4, <3>5
  <2>5. QED
    BY <2>3, <2>4
<1>6. QED
  BY <1>1, <1>2, <1>5 DEF Abandoned

LEMMA AbandoningBefore ==
    ASSUME PoolInv, idle \in Nat, [HarnessNext]_harnessVars, Abandoning'
    PROVE  Abandoning
<1>1. config' = config /\ policy' = policy
  BY PoolBase, PolicyStays
<1>2. policy = VULNERABLE_NONE /\ config = ABANDONED_HOLDS /\ FixturesServe /\ InTime'
  BY <1>1 DEF Abandoning
<1>3. ~policy.per_source_rate_limit /\ ~Gated
  BY <1>2, PolicyFields
<1>4. Unimpeded'
  BY <1>1, <1>2, <1>3 DEF Unimpeded, Gated
<1>5. Unimpeded
  BY <1>4, UnimpededBefore
<1>6. QED
  BY <1>2, <1>5 DEF Abandoning, Unimpeded

LEMMA WalkingStep ==
    ASSUME Grounds, SeatExclusive, SupplyKept, Supplied, Identified, Walking,
           [HarnessNext]_harnessVars
    PROVE  Walking'
<1> SUFFICES ASSUME Abandoning', Booking' PROVE Abandoned'
  BY DEF Walking
<1>1. PoolInv /\ OnTime /\ Begun /\ idle \in Nat
  BY DEF Grounds, OnTime
<1>2. Abandoning
  BY <1>1, AbandoningBefore
<1>3. Booking => Abandoned
  BY <1>2 DEF Walking
<1>4. ASSUME NEW i \in DOMAIN todo, Hold(i) PROVE Abandoned'
  <2>1. Booking
    BY <1>4, HoldCases DEF Booking
  <2>2. QED
    BY <1>2, <1>3, <1>4, <2>1, HoldAbandoned
<1>5. ASSUME NEW i \in DOMAIN todo PROVE ~Confirm(i)
  <2>1. SUFFICES ASSUME Confirm(i) PROVE FALSE
    OBVIOUS
  <2>2. Booking /\ todo[i].has # 0
    BY <2>1, ConfirmCases DEF Booking
  <2>3. QED
    BY <1>3, <2>2 DEF Abandoned
<1>6. CASE BeginRound
  <2>1. CASE phase = "register"
    BY <1>1, <1>2, <1>6, <2>1, FirstRoundBegins
  <2>2. CASE phase = "operator"
    BY <1>1, <1>2, <1>3, <1>6, <2>2, NextRoundBegins DEF Booking
  <2>3. QED
    BY <1>6, <2>1, <2>2 DEF BeginRound
<1>7. CASE BeginGenuineDemand
  BY <1>1, <1>2, <1>3, <1>7, PublicFindsNothing
<1>8. CASE Elapse
  <2>1. phase' = phase
    BY <1>8 DEF Elapse
  <2>2. Booking
    BY <2>1 DEF Booking
  <2>3. QED
    BY <1>1, <1>2, <1>3, <1>8, <2>2, ElapseAbandoned
<1>9. CASE UNCHANGED harnessVars
  <2>1. UNCHANGED <<config, phase, round, todo, holds, tickets, patrons, now, idle>>
    BY <1>9 DEF harnessVars, harness, vars, db
  <2>2. Abandoned
    BY <1>3, <2>1 DEF Booking
  <2>3. QED
    BY <2>1, <2>2 DEF Abandoned, Gone, Taken, Stale, Fresh, SelfService
<1>10. CASE Reconcile \/ \E i \in DOMAIN todo : PayChallenge(i) \/ Register(i)
  <2>1. phase' \in {"register", "done"}
    BY <1>10, RegisterCases DEF Reconcile, PayChallenge
  <2>2. QED
    BY <2>1 DEF Booking
<1>11. QED
  BY <1>4, <1>5, <1>6, <1>7, <1>8, <1>9, <1>10 DEF HarnessNext, HarnessStep, Finished

-----------------------------------------------------------------------------
(* What every row comes to. *)

\* The ledger of the row that walks away: the holds of the last round are all
\* there is, and they are the operator's.
Drained(l) ==
    /\ l.operator_seats = SeatsAllocated /\ l.seats_available = 0
    /\ l.genuine_seats = 0 /\ l.demand_served = 0

LEMMA AbandonedLedger ==
    ASSUME Grounds, PatronsKnown, VenueInv, SeatExclusive, Identified, Abandoning, Abandoned,
           phase = "genuine"
    PROVE  Drained(build_ledger(Lapsed)) /\ build_ledger(Lapsed).seats_confirmed = 0
<1> DEFINE l == build_ledger(Lapsed)
           m == SeatsAllocated
<1>1. /\ PoolInv /\ OnTime /\ Begun /\ Booking /\ TypeOK /\ LapseKeepsRows /\ m \in Nat
  BY LapsedRows, SettingsAssumption DEF Grounds, PoolInv, HarnessInv, TypeOK, Booking
<1>2. Gone = m /\ Taken = m
  BY DEF Gone, Taken
<1>3. Rid
  <2>1. ASSUME NEW h \in DOMAIN holds, h <= Gone PROVE Lapsed[h].state # "held"
    <3>1. holds[h].state # "held"
      BY <2>1 DEF Abandoned, Stale
    <3>2. QED
      BY <1>1, <3>1 DEF LapseKeepsRows
  <2>2. QED
    BY <2>1 DEF Rid
<1>4. /\ Cardinality(HeldIn(Lapsed)) = m /\ SeatsAvailable = m - m
      /\ \A h \in HeldIn(Lapsed) : Lapsed[h].patron \in SelfService
  BY <1>1, <1>2, <1>3, LiveHolds
<1>5. HeldBy(Lapsed, SelfService) = m
  <2>1. {h \in HeldIn(Lapsed) : Lapsed[h].patron \in SelfService} = HeldIn(Lapsed)
    BY <1>4
  <2>2. QED
    BY <1>4, <2>1 DEF HeldBy
<1>6. tickets = << >> /\ Len(tickets) = 0
  BY DEF Abandoned
<1>7. \A P : SoldTo(P) = 0
  <2>1. ASSUME NEW P PROVE SoldTo(P) = 0
    <3>1. {t \in DOMAIN tickets : tickets[t].patron \in P} = {}
      BY <1>6
    <3>2. QED
      BY <3>1, FS_EmptySet DEF SoldTo
  <2>2. QED
    BY <2>1
<1>8. l.operator_seats = m + 0
  BY <1>1, <1>5, <1>7, OperatorSeats
<1>9. l.seats_held = m /\ l.seats_confirmed = 0 /\ l.seats_available = m - m
  BY <1>4, <1>6, LedgerSays
<1>10. l.demand_served = 0
  BY <1>7, LedgerSays, GrantedIsTotal DEF VenueInv
<1>11. l.genuine_seats \in Nat
  <2>1. Holders(Lapsed) \ SelfService \subseteq patrons
    BY <1>1, HoldersAre
  <2>2. l.genuine_seats
          = HeldBy(Lapsed, Holders(Lapsed) \ SelfService) + SoldTo(Holders(Lapsed) \ SelfService)
        /\ HeldBy(Lapsed, Holders(Lapsed) \ SelfService) \in Nat
    BY <1>1, <2>1, LedgerSays, LedgerSums
  <2>3. SoldTo(Holders(Lapsed) \ SelfService) = 0
    BY <1>7
  <2> HIDE DEF l
  <2>4. QED
    BY <2>2, <2>3
<1>12. l.operator_seats + l.genuine_seats = l.seats_held + l.seats_confirmed
  BY <1>1, LedgerAdds DEF Adding
<1>13. l.operator_seats = m /\ l.seats_available = 0 /\ l.genuine_seats = 0
  <2> HIDE DEF l, m
  <2>1. QED
    BY <1>1, <1>8, <1>9, <1>11, <1>12
<1>14. QED
  BY <1>9, <1>10, <1>13 DEF Drained

AbandonedRow == phase = "done" /\ Abandoning => Drained(ledger) /\ ledger.seats_confirmed = 0

LEMMA AbandonedRowStep ==
    ASSUME Grounds, PatronsKnown, VenueInv, SeatExclusive, Identified, Walking, AbandonedRow,
           [HarnessNext]_harnessVars
    PROVE  AbandonedRow'
<1> SUFFICES ASSUME phase' = "done", Abandoning'
             PROVE  Drained(ledger') /\ ledger'.seats_confirmed = 0
  BY DEF AbandonedRow, Drained
<1>1. Abandoning
  BY AbandoningBefore DEF Grounds, OnTime
<1>2. CASE phase = "done"
  BY <1>1, <1>2, LedgerStands DEF AbandonedRow
<1>3. CASE Reconcile /\ ledger' = build_ledger(Lapsed)
  <2>1. phase = "genuine"
    BY <1>3 DEF Reconcile
  <2>2. Abandoned
    BY <1>1, <2>1 DEF Walking, Booking
  <2>3. QED
    BY <1>1, <1>3, <2>1, <2>2, AbandonedLedger
<1>4. QED
  BY <1>2, <1>3, LedgerBuilt

\* What the ledger takes over from the records.
Told ==
    phase = "done" =>
        /\ ledger.invalid_requests = CountIn(records, Actors, Steps, INDIVIDUALLY_INVALID)
        /\ ledger.rate_limited_requests
             = CountIn(records, Actors, Steps, {"refused_by_rate_limit"})
        /\ ledger.requests_issued = AllCount(records)
        /\ ledger.challenges_passed = challenges
        /\ ledger.seats_available \in Int /\ ledger.seats_confirmed \in Nat
        /\ ledger.seats_held \in Nat

LEMMA ToldStep ==
    ASSUME PoolInv, Told, [HarnessNext]_harnessVars PROVE Told'
<1>1. CASE phase = "done"
  <2>1. UNCHANGED <<phase, ledger, records, challenges>>
    BY <1>1, LedgerStands DEF harnessVars, harness
  <2>2. QED
    BY <1>1, <2>1 DEF Told, AllCount
<1>2. CASE Reconcile /\ ledger' = build_ledger(Lapsed)
  <2>1. UNCHANGED <<records, challenges>>
    BY <1>2 DEF Reconcile
  <2>2. /\ build_ledger(Lapsed).invalid_requests = CountOutcomes(INDIVIDUALLY_INVALID)
        /\ build_ledger(Lapsed).rate_limited_requests
             = CountOutcomes({"refused_by_rate_limit"})
        /\ build_ledger(Lapsed).requests_issued = BagCardinality(records)
        /\ build_ledger(Lapsed).challenges_passed = challenges
    BY DEF build_ledger
  <2>3. \A outcomes : CountOutcomes(outcomes) = CountIn(records, Actors, Steps, outcomes)
    BY CountIsTotal DEF CountOutcomes, Actors
  <2>4. BagCardinality(records) = AllCount(records)
    BY AllAreCounted
  <2>5. /\ build_ledger(Lapsed).seats_held \in Nat
        /\ build_ledger(Lapsed).seats_confirmed \in Nat
        /\ build_ledger(Lapsed).seats_available \in Int
    <3>1. TypeOK /\ SeatsAllocated \in Nat /\ Len(tickets) \in Nat
      BY SettingsAssumption, LenProperties DEF PoolInv, HarnessInv, TypeOK
    <3>2. Cardinality(HeldIn(Lapsed)) \in Nat
      <4>1. /\ DOMAIN Lapsed = 1..Len(holds) /\ Len(holds) \in Nat
        BY <3>1, LapsedRows, LenProperties DEF TypeOK, LapseKeepsRows
      <4>2. HeldIn(Lapsed) \subseteq 1..Len(holds)
        BY <4>1 DEF HeldIn
      <4>3. QED
        BY <4>1, <4>2, RowSetsFinite
    <3>3. SeatsAvailable = SeatsAllocated - Cardinality(HeldIn(Lapsed)) - Len(tickets)
      BY DEF SeatsAvailable, HeldIn
    <3>4. QED
      BY <3>1, <3>2, <3>3, LedgerSays
  <2>6. QED
    BY <1>2, <2>1, <2>2, <2>3, <2>4, <2>5 DEF Told, AllCount
<1>3. CASE phase' # "done"
  BY <1>3 DEF Told
<1>4. QED
  BY <1>1, <1>2, <1>3, LedgerBuilt

LEMMA NothingTold ==
    ASSUME Told, Welcomed, Unimpeded, phase = "done"
    PROVE  /\ NoneInvalid /\ ledger.invalid_requests = 0 /\ ledger.rate_limited_requests = 0
<1>1. NoneInvalid
  BY WelcomedCounts
<1>2. \A outcomes : CountOutcomes(outcomes) = CountIn(records, Actors, Steps, outcomes)
  BY CountIsTotal DEF CountOutcomes, Actors
<1>3. QED
  BY <1>1, <1>2 DEF Told, NoneInvalid

LEMMA RowUnimpeded ==
    ASSUME PoolInv, FixturesServe, IsRow, is_vulnerable(policy), InTime
    PROVE  /\ Unimpeded /\ demand_offered \in Nat /\ demand_offered > 0
           /\ config = ABANDONED_HOLDS => Abandoning
           /\ config # ABANDONED_HOLDS => Sells /\ Steady
<1>1. config \in Configs
  BY DEF PoolInv, HarnessInv
<1>2. CASE config = ABANDONED_HOLDS
  <2>1. /\ Given(ABANDONED_HOLDS, "abandon", 1, SeatsAllocated, 0, FALSE)
        /\ Given(SECURE_BASELINE, "acquire", Len(Candidates), SeatQuotaDefault + 1, 0, FALSE)
        /\ Given(PER_SOURCE_RATE_LIMIT, "acquire", Len(SourceLabels),
                 SeatsAllocated \div Len(SourceLabels), Pace, FALSE)
        /\ Given(PER_ACCOUNT_QUOTA, "acquire", Len(Candidates), SeatQuotaDefault, 0, FALSE)
        /\ Given(FRONT_DOOR_GATE, "acquire", 1, SeatsAllocated, 0, TRUE)
        /\ Given(SLOW_AND_SEQUENTIAL, "acquire", 1, SeatsAllocated, Pace, FALSE)
    BY ScenarioFields
  <2>2. /\ ABANDONED_HOLDS.mode = "abandon" /\ SECURE_BASELINE.mode = "acquire"
        /\ PER_SOURCE_RATE_LIMIT.mode = "acquire" /\ PER_ACCOUNT_QUOTA.mode = "acquire"
        /\ FRONT_DOOR_GATE.mode = "acquire" /\ SLOW_AND_SEQUENTIAL.mode = "acquire"
    BY <2>1 DEF Given
  <2>3. policy = VULNERABLE_NONE
    BY <1>2, <2>2, RowIs
  <2>4. Abandoning
    BY <1>2, <2>3 DEF Abandoning
  <2>5. QED
    BY <1>2, <2>4, AbandonedFields
<1>3. CASE config # ABANDONED_HOLDS
  <2>1. Sells
    BY <1>1, <1>3, RowSells
  <2>2. Unimpeded /\ Steady
    BY <2>1 DEF Sells, Unimpeded, Steady, FixturesServe
  <2>3. QED
    BY <1>3, <2>1, <2>2 DEF Sells
<1>4. QED
  BY <1>2, <1>3

LEMMA RowDrains ==
    ASSUME PoolInv, FixturesServe, IsRow, is_vulnerable(policy), InTime, phase = "done",
           LedgerInv, Told, CountsOfRun, AbandonedRow
    PROVE  Drained(ledger) /\ ~secure
<1>1. Drained(ledger)
  <2>1. CASE config = ABANDONED_HOLDS
    BY <2>1, RowUnimpeded DEF AbandonedRow
  <2>2. CASE config # ABANDONED_HOLDS
    <3>1. Sells /\ Steady
      BY <2>2, RowUnimpeded
    <3>2. ledger.operator_seats = SeatsAllocated /\ ledger.genuine_seats = 0
          /\ ledger.demand_served = 0
      BY <3>1 DEF Sells, CountsOfRun, Counts
    <3>3. /\ ledger.operator_seats + ledger.genuine_seats
               = ledger.seats_held + ledger.seats_confirmed
          /\ ledger.seats_held + ledger.seats_confirmed + ledger.seats_available
               = SeatsAllocated
          /\ ledger.seats_available \in Int
      BY DEF LedgerInv, Adding, Told
    <3>4. SeatsAllocated \in Nat
      BY SettingsAssumption
    <3>5. SeatsAllocated + ledger.seats_available = SeatsAllocated
      BY <3>2, <3>3, <3>4
    <3>6. ledger.seats_available = 0
      BY <3>3, <3>4, <3>5
    <3>7. QED
      BY <3>2, <3>6 DEF Drained
  <2>3. QED
    BY <2>1, <2>2
<1>2. ledger.demand_served = 0 /\ demand_offered \in Nat /\ demand_offered > 0
  BY <1>1, RowUnimpeded DEF Drained
<1>3. ~secure
  BY <1>2 DEF secure, verdict
<1>4. QED
  BY <1>1, <1>3

\* What a row's run is known by.
RowRun ==
    PoolInv /\ LedgerInv /\ Welcomed /\ Told /\ CountsOfRun /\ AbandonedRow

LEMMA RowsAlwaysRun == HarnessSpec => []RowRun
<1>1. HarnessSpec =>
        [](PoolInv /\ LabelsOwn /\ StampsPaced /\ TokensLast /\ OnTime /\ Paid)
  <2>1. Grounds => PoolInv /\ LabelsOwn /\ StampsPaced /\ TokensLast /\ OnTime
    BY DEF Grounds
  <2>2. QED
    BY <2>1, RunAlwaysKept, PTL
<1>2. HarnessInit => LedgerInv /\ Welcomed /\ Told /\ Walking /\ AbandonedRow
  <2>1. HarnessInit => phase = "register" /\ records = EmptyBag
    BY DEF HarnessInit
  <2>2. DOMAIN EmptyBag = {}
    BY DEF EmptyBag, SetToBag
  <2>3. QED
    BY <2>1, <2>2 DEF LedgerInv, Welcomed, Told, Walking, Booking, AbandonedRow
<1>3. HarnessSpec => []LedgerInv
  BY <1>1, <1>2, RunAlwaysKept, LedgerStep, PTL DEF HarnessSpec
<1>4. HarnessSpec => []Welcomed
  <2>1. /\ PoolInv /\ OnTime /\ Paid /\ TokensLast /\ LabelsOwn /\ StampsPaced /\ Welcomed
        /\ [HarnessNext]_harnessVars
        => Welcomed'
    BY WelcomedStep
  <2>2. QED
    BY <1>1, <1>2, <2>1, PTL DEF HarnessSpec
<1>5. HarnessSpec => []Told
  <2>1. PoolInv /\ Told /\ [HarnessNext]_harnessVars => Told'
    BY ToldStep
  <2>2. QED
    BY <1>1, <1>2, <2>1, PTL DEF HarnessSpec
<1>6. HarnessSpec => []Walking
  <2>1. /\ Grounds /\ SeatExclusive /\ SupplyKept /\ Supplied /\ Identified /\ Walking
        /\ [HarnessNext]_harnessVars
        => Walking'
    BY WalkingStep
  <2>2. QED
    BY <1>2, <2>1, RunAlwaysKept, PTL DEF HarnessSpec
<1>7. HarnessSpec => []AbandonedRow
  <2>1. /\ Grounds /\ PatronsKnown /\ VenueInv /\ SeatExclusive /\ Identified /\ Walking
        /\ AbandonedRow /\ [HarnessNext]_harnessVars
        => AbandonedRow'
    BY AbandonedRowStep
  <2>2. QED
    BY <1>2, <1>6, <2>1, RunAlwaysKept, PTL DEF HarnessSpec
<1>8. PoolInv /\ LedgerInv /\ Welcomed /\ Told /\ CountsOfRun /\ AbandonedRow => RowRun
  BY DEF RowRun
<1>9. QED
  BY <1>1, <1>3, <1>4, <1>5, <1>7, <1>8, RunAlwaysKept, PTL

\* The ladder of controls (test_half_fixes.py, test_ladder_bottom.py): whatever
\* threads the operator runs on, against each vulnerable application it ends with
\* the whole allocation and the public with nothing, no request of the run having
\* been invalid or declined by the rate limit, and the verdict says so.  The
\* fixtures are the hypothesis, with the settings any for which they are enough.
THEOREM VulnerableApplicationsDrain ==
    HarnessSpec => [](FixturesServe => VulnerableRowsDrain)
<1>1. RowRun => (FixturesServe => VulnerableRowsDrain)
  <2> SUFFICES ASSUME RowRun, FixturesServe, phase = "done", IsRow, is_vulnerable(policy), InTime
               PROVE  /\ Drained(ledger) /\ ~secure
                      /\ ledger.invalid_requests = 0 /\ ledger.rate_limited_requests = 0
    BY DEF VulnerableRowsDrain, Drained
  <2>1. Drained(ledger) /\ ~secure
    BY RowDrains DEF RowRun
  <2>2. ledger.invalid_requests = 0 /\ ledger.rate_limited_requests = 0
    BY RowUnimpeded, NothingTold DEF RowRun
  <2>3. QED
    BY <2>1, <2>2
<1>2. QED
  BY <1>1, RowsAlwaysRun, PTL

-----------------------------------------------------------------------------
(* What the report says of it. *)

\* The ledger's greatest share, and that the operator's patrons have no more each.
Divided(l) ==
    /\ l.operator_identities \in Nat /\ l.operator_identities <= Cardinality(SelfService)
    /\ l.max_seats_per_identity \in Nat
    /\ l.operator_seats <= l.operator_identities * l.max_seats_per_identity

LEMMA LedgerDivides ==
    ASSUME PoolInv, PatronsKnown
    PROVE  Divided(build_ledger(Lapsed))
<1> DEFINE l == build_ledger(Lapsed)
           g == [p \in patrons |-> Holding(Lapsed, p)]
           S == {0} \cup {g[p] : p \in Holders(Lapsed)}
           O == Holders(Lapsed) \cap SelfService
           B == Len(holds) + Len(tickets)
<1>1. /\ l.max_seats_per_identity = Max(S) /\ l.operator_identities = Cardinality(O)
      /\ l.operator_seats = Total(g, O)
  BY LedgerSays DEF build_ledger
<1>2. /\ TypeOK /\ LapseKeepsRows /\ DOMAIN Lapsed = 1..Len(holds) /\ Len(holds) \in Nat
      /\ DOMAIN tickets = 1..Len(tickets) /\ Len(tickets) \in Nat
  BY LapsedRows, LenProperties DEF PoolInv, HarnessInv, TypeOK, LapseKeepsRows
<1>3. Holders(Lapsed) \subseteq patrons /\ IsFiniteSet(patrons)
  BY <1>2, HoldersAre DEF TypeOK
<1>4. ASSUME NEW p \in Holders(Lapsed) PROVE g[p] \in Nat /\ g[p] <= B
  <2>1. \A n \in Nat : \A T \in SUBSET (1..n) : Cardinality(T) \in Nat /\ Cardinality(T) <= n
    <3> TAKE n \in Nat
    <3> TAKE T \in SUBSET (1..n)
    <3>1. IsFiniteSet(1..n) /\ Cardinality(1..n) = n
      BY FS_Interval, CardinalityUpTo
    <3>2. QED
      BY <3>1, FS_Subset, RowSetsFinite
  <2>2. HoldsOf(Lapsed, p, "held") \subseteq 1..Len(holds) /\ TicketsOf(p) \subseteq 1..Len(tickets)
    BY <1>2 DEF HoldsOf, TicketsOf
  <2>3. g[p] = Cardinality(HoldsOf(Lapsed, p, "held")) + Cardinality(TicketsOf(p))
    BY <1>3 DEF Holding
  <2>4. /\ Cardinality(HoldsOf(Lapsed, p, "held")) \in Nat
        /\ Cardinality(HoldsOf(Lapsed, p, "held")) <= Len(holds)
        /\ Cardinality(TicketsOf(p)) \in Nat /\ Cardinality(TicketsOf(p)) <= Len(tickets)
    BY <1>2, <2>1, <2>2
  <2> HIDE DEF g
  <2>5. QED
    BY <1>2, <2>3, <2>4
<1>5. B \in Nat
  BY <1>2
<1> HIDE DEF g, B
<1>6. S \in SUBSET Nat /\ S # {} /\ \A x \in S : x <= B
  BY <1>4, <1>5
<1>7. \A p \in Holders(Lapsed) : g[p] \in S
  OBVIOUS
<1> HIDE DEF S
<1>8. Max(S) \in Nat /\ \A x \in S : x <= Max(S)
  BY <1>5, <1>6, GreatestBounded
<1>9. IsFiniteSet(SelfService) /\ IsFiniteSet(O) /\ Cardinality(O) <= Cardinality(SelfService)
      /\ Cardinality(O) \in Nat
  <2>1. SelfService \subseteq patrons /\ O \subseteq SelfService
    BY DEF SelfService
  <2>2. IsFiniteSet(SelfService)
    BY <1>3, <2>1, FS_Subset
  <2>3. IsFiniteSet(O) /\ Cardinality(O) <= Cardinality(SelfService)
    BY <2>1, <2>2, FS_Subset
  <2>4. QED
    BY <2>2, <2>3, FS_CardinalityType
<1>10. Total(g, O) <= Cardinality(O) * Max(S)
  <2>1. \A p \in O : g[p] \in Nat /\ g[p] <= Max(S)
    BY <1>4, <1>7, <1>8
  <2> HIDE DEF O
  <2>2. QED
    BY <1>8, <1>9, <2>1, TotalWithin
<1> HIDE DEF l, O
<1>11. QED
  BY <1>1, <1>8, <1>9, <1>10 DEF Divided, l

Shared == phase = "done" => Divided(ledger)

LEMMA SharedStep ==
    ASSUME PoolInv, PatronsKnown, Shared, [HarnessNext]_harnessVars PROVE Shared'
<1>1. CASE phase' # "done"
  BY <1>1 DEF Shared
<1>2. CASE phase = "done"
  <2>1. UNCHANGED <<ledger, patrons>>
    BY <1>2, LedgerStands DEF harnessVars, harness, vars, db
  <2>2. QED
    BY <1>2, <2>1 DEF Shared, Divided, SelfService
<1>3. CASE Reconcile /\ ledger' = build_ledger(Lapsed)
  <2>1. patrons' = patrons
    BY <1>3 DEF Reconcile, ReadShow, db
  <2>2. Divided(ledger')
    BY <1>3, LedgerDivides DEF Divided
  <2>3. QED
    BY <2>1, <2>2 DEF Shared, Divided, SelfService
<1>4. QED
  BY <1>1, <1>2, <1>3, LedgerBuilt

\* Challenges are paid only by a run that pays them, and by a run of one
\* candidate once.
Charged ==
    /\ challenges \in Nat /\ (~config.pass_verification => challenges = 0)
    /\ Len(Offered) = 1 =>
          /\ challenges <= 1
          /\ phase = "register" =>
                \A i \in DOMAIN todo :
                    todo[i].left <= 1 /\ (challenges # 0 => todo[i].left = 0 \/ todo[i].has # 0)

LEMMA ChargedStep ==
    ASSUME PoolInv, Charged, [HarnessNext]_harnessVars PROVE Charged'
<1>1. config' = config /\ Offered' = Offered
  BY PoolBase DEF Offered
<1>2. ASSUME NEW i \in DOMAIN todo, PayChallenge(i) PROVE Charged'
  <2>1. /\ phase = "register" /\ phase' = "register" /\ config.pass_verification
        /\ todo[i].has = 0 /\ i \in InWork /\ challenges' = challenges + 1
        /\ issued' = issued + 1 /\ issued \in Nat /\ Awaits(i, issued')
    BY <1>2 DEF PayChallenge, Challenge!Issue, PoolInv, ChallengeKnown
  <2>2. issued' \in Nat /\ issued' \in 0..issued' /\ issued' # 0
    BY <2>1
  <2>3. /\ DOMAIN todo' = DOMAIN todo /\ todo'[i].left = todo[i].left /\ todo'[i].has = issued'
        /\ \A j \in DOMAIN todo : j # i => todo'[j] = todo[j]
    BY <2>1, <2>2, AwaitsItems
  <2>4. challenges \in Nat /\ challenges + 1 \in Nat
    BY DEF Charged
  <2>5. ASSUME Len(Offered) = 1
        PROVE  /\ challenges' <= 1
               /\ \A j \in DOMAIN todo' :
                    todo'[j].left <= 1 /\ (todo'[j].left = 0 \/ todo'[j].has # 0)
    <3>1. DOMAIN todo = 1..1
      BY <2>1, <2>5, OfferedIsPrefix DEF PoolInv, HarnessInv, ItemsKnown
    <3>2. todo[i].left > 0 /\ todo[i].left # 0
      BY <2>1 DEF InWork, Unfinished
    <3>3. challenges = 0 /\ todo[i].left <= 1
      BY <2>1, <2>5, <3>2 DEF Charged
    <3>4. \A j \in DOMAIN todo : j = i
      BY <3>1
    <3>5. QED
      BY <2>1, <2>2, <2>3, <3>3, <3>4
  <2>6. QED
    BY <1>1, <2>1, <2>4, <2>5 DEF Charged
<1>3. ASSUME NEW i \in DOMAIN todo, Register(i) PROVE Charged'
  <2>1. /\ phase = "register" /\ phase' = phase /\ challenges' = challenges /\ i \in InWork
        /\ \E granted : Ends(i, granted)
    BY <1>3, RegisterCases
  <2>2. PICK granted : Ends(i, granted)
    BY <2>1
  <2>3. /\ DOMAIN todo' = DOMAIN todo /\ todo'[i].left = todo[i].left - 1
        /\ todo[i].left - 1 \in Nat /\ todo[i].left \in Nat
        /\ \A j \in DOMAIN todo : j # i =>
               todo'[j].left = todo[j].left /\ todo'[j].has = todo[j].has
    BY <2>1, <2>2, EndsItems DEF PoolInv, TodoKnown, ItemRows
  <2>4. ASSUME Len(Offered) = 1
        PROVE  \A j \in DOMAIN todo' : todo'[j].left <= 1 /\ todo'[j].left = 0
    <3>1. DOMAIN todo = 1..1
      BY <2>1, <2>4, OfferedIsPrefix DEF PoolInv, HarnessInv, ItemsKnown
    <3>2. todo[i].left <= 1
      BY <2>1, <2>4 DEF Charged
    <3>3. todo'[i].left = 0
      BY <2>3, <3>2
    <3>4. \A j \in DOMAIN todo : j = i
      BY <3>1
    <3>5. QED
      BY <2>3, <3>3, <3>4
  <2>5. QED
    BY <1>1, <2>1, <2>4 DEF Charged
<1>4. CASE \E i \in DOMAIN todo : Hold(i) \/ Confirm(i)
  <2>1. challenges' = challenges /\ phase' = phase /\ phase # "register"
    BY <1>4, HoldCases, ConfirmCases
  <2>2. QED
    BY <1>1, <2>1 DEF Charged
<1>5. CASE BeginRound \/ BeginGenuineDemand \/ Reconcile
  <2>1. challenges' = challenges /\ phase' # "register"
    BY <1>5 DEF BeginRound, BeginGenuineDemand, Reconcile
  <2>2. QED
    BY <1>1, <2>1 DEF Charged
<1>6. CASE Elapse \/ UNCHANGED harnessVars
  <2>1. UNCHANGED <<challenges, phase, todo>>
    BY <1>6 DEF Elapse, harnessVars, harness
  <2>2. QED
    BY <1>1, <2>1 DEF Charged
<1>7. QED
  BY <1>2, <1>3, <1>4, <1>5, <1>6 DEF HarnessNext, HarnessStep, Finished

\* Every source label's share of the seats, and so the whole allocation, is more
\* than the quota (scenarios.py).
SharesExceedQuota == SeatsAllocated \div Len(SourceLabels) > SeatQuotaDefault

\* What tells the rows apart.
LEMMA RowShape ==
    ASSUME config \in Configs, FixturesServe, IsRow
    PROVE  /\ is_vulnerable(policy) \/ policy = SECURE
           /\ policy = SECURE =>
                 /\ config.mode = "acquire" /\ ~policy.per_source_rate_limit /\ ~Gated
                 /\ Common(config)
           /\ config.pace_seconds > 0 => policy.per_source_rate_limit
           /\ NegativeControl => config.pace_seconds > 0
           /\ config.pass_verification => Gated /\ Len(Offered) = 1
<1>1. policy = SECURE => ~policy.per_source_rate_limit /\ ~Gated
  BY DEF SECURE, Unlimited, Gated
<1>2. is_vulnerable(policy) \/ policy = SECURE
  BY RowIs DEF is_vulnerable, Unlimited, VULNERABLE_NONE, VULNERABLE_PER_SOURCE_RATE_LIMIT,
               VULNERABLE_PER_ACCOUNT_QUOTA, VULNERABLE_FRONT_DOOR_GATE
<1>3. /\ SECURE_BASELINE.mode = "acquire" /\ SECURE_BASELINE.pace_seconds = 0
      /\ NO_ANTI_AUTOMATION.pace_seconds = 0 /\ ABANDONED_HOLDS.pace_seconds = 0
      /\ PER_ACCOUNT_QUOTA.pace_seconds = 0 /\ FRONT_DOOR_GATE.pace_seconds = 0
      /\ SLOW_AND_SEQUENTIAL.pace_seconds = Pace
  BY ScenarioFields DEF Given
<1>4. /\ ~SECURE_BASELINE.pass_verification /\ ~NO_ANTI_AUTOMATION.pass_verification
      /\ ~ABANDONED_HOLDS.pass_verification /\ ~PER_SOURCE_RATE_LIMIT.pass_verification
      /\ ~PER_ACCOUNT_QUOTA.pass_verification /\ ~SLOW_AND_SEQUENTIAL.pass_verification
  BY ScenarioFields DEF Given
<1>5. /\ policy = VULNERABLE_PER_SOURCE_RATE_LIMIT => policy.per_source_rate_limit
      /\ policy = VULNERABLE_FRONT_DOOR_GATE => Gated
      /\ policy = SECURE =>
            /\ policy # VULNERABLE_NONE /\ policy # VULNERABLE_PER_SOURCE_RATE_LIMIT
            /\ policy # VULNERABLE_PER_ACCOUNT_QUOTA /\ policy # VULNERABLE_FRONT_DOOR_GATE
  <2>1. /\ policy = VULNERABLE_PER_SOURCE_RATE_LIMIT => policy.per_source_rate_limit
        /\ policy = VULNERABLE_FRONT_DOOR_GATE => Gated
    BY PolicyFields
  <2>2. SECURE.flow_state
    BY DEF SECURE, Unlimited
  <2>3. /\ ~VULNERABLE_NONE.flow_state /\ ~VULNERABLE_PER_SOURCE_RATE_LIMIT.flow_state
        /\ ~VULNERABLE_PER_ACCOUNT_QUOTA.flow_state /\ ~VULNERABLE_FRONT_DOOR_GATE.flow_state
    BY DEF VULNERABLE_NONE, VULNERABLE_PER_SOURCE_RATE_LIMIT, VULNERABLE_PER_ACCOUNT_QUOTA,
           VULNERABLE_FRONT_DOOR_GATE, Unlimited
  <2>4. QED
    BY <2>1, <2>2, <2>3
<1>6. policy = SECURE => config = SECURE_BASELINE
  BY <1>5, RowIs
<1>7. Common(SECURE_BASELINE)
  BY ScenarioFields DEF Given
<1>8. config.pace_seconds > 0 => policy.per_source_rate_limit
  <2>1. config.pace_seconds = 0 \/ policy = VULNERABLE_PER_SOURCE_RATE_LIMIT
    BY <1>3, RowIs
  <2>2. QED
    BY <1>5, <2>1
<1>9. NegativeControl => config.pace_seconds > 0
  <2>1. Pace \in Nat /\ Limit \in Nat /\ Window \in Nat /\ Window > 0
    BY ComparisonAssumption, HarnessAssumption
  <2>2. Pace * Limit >= Window
    BY DEF FixturesServe
  <2>3. Pace # 0
    <3>1. 0 * Limit = 0
      BY <2>1
    <3>2. QED
      BY <2>1, <2>2, <3>1
  <2>4. QED
    BY <1>3, <2>1, <2>3 DEF NegativeControl
<1>10. config.pass_verification => Gated /\ Len(Offered) = 1
  <2> SUFFICES ASSUME config.pass_verification PROVE Gated /\ Len(Offered) = 1
    OBVIOUS
  <2>1. policy = VULNERABLE_FRONT_DOOR_GATE /\ config = FRONT_DOOR_GATE
    BY <1>4, RowIs
  <2>2. Given(config, "acquire", 1, SeatsAllocated, 0, TRUE)
    BY <2>1, ScenarioFields
  <2>3. 1 <= Len(Candidates)
    BY <2>2, RowWants DEF Given, Common, Wanted
  <2>4. Len(Offered) = 1
    BY <2>2, <2>3, GivenRun
  <2>5. QED
    BY <1>5, <2>1, <2>4
<1>11. QED
  BY <1>1, <1>2, <1>3, <1>6, <1>7, <1>8, <1>9, <1>10

\* A row without the quota gives each identity more than the quota would.
Lavish ==
    \E n, each \in Nat :
        /\ Len(Offered) = n /\ n > 0 /\ n * each = SeatsAllocated /\ each > SeatQuotaDefault

LEMMA SharesOfSeats ==
    ASSUME config \in Configs, config.source_labels = SourceLabels, FixturesServe,
           SharesExceedQuota
    PROVE  /\ Len(SourceLabels) \in Nat /\ Len(SourceLabels) > 0
           /\ SeatsAllocated \div Len(SourceLabels) \in Nat
           /\ SeatsAllocated \in Nat /\ SeatsAllocated > SeatQuotaDefault
<1> DEFINE n == Len(SourceLabels)
           m == SeatsAllocated
           each == m \div n
<1>1. m \in Nat /\ SeatQuotaDefault \in Nat
  BY SettingsAssumption
<1>2. n \in Nat /\ n >= 1
  <2>1. SourceLabels \in Seq(Labels) /\ SourceLabels # << >>
    BY DEF Configs, Labels
  <2>2. QED
    BY <2>1
<1>3. \A a \in Nat, b \in Nat : b >= 1 => a \div b \in Nat
  OBVIOUS
<1>4. each \in Nat /\ n * each = m /\ each > SeatQuotaDefault
  BY <1>1, <1>2, <1>3 DEF FixturesServe, SharesExceedQuota
<1>5. \A a \in Nat, b \in Nat : b >= 1 => b * a >= a
  OBVIOUS
<1> HIDE DEF n, m, each
<1>6. m >= each
  BY <1>2, <1>4, <1>5
<1>7. m > SeatQuotaDefault
  BY <1>1, <1>4, <1>6
<1>8. QED
  BY <1>1, <1>2, <1>4, <1>7 DEF n, m, each

LEMMA RowLavish ==
    ASSUME config \in Configs, FixturesServe, SharesExceedQuota, IsRow, is_vulnerable(policy),
           config # ABANDONED_HOLDS, ~SeatQuota
    PROVE  Lavish
<1>1. CASE Given(config, "acquire", 1, SeatsAllocated, config.pace_seconds,
                 config.pass_verification)
  <2>1. config.source_labels = SourceLabels
    BY <1>1 DEF Given, Common
  <2>2. SeatsAllocated \in Nat /\ SeatsAllocated > SeatQuotaDefault
    BY <2>1, SharesOfSeats
  <2>3. 1 <= Len(Candidates)
    BY <2>1, RowWants DEF Wanted
  <2>4. Len(Offered) = 1
    BY <1>1, <2>3, GivenRun
  <2>5. 1 * SeatsAllocated = SeatsAllocated
    BY <2>2
  <2>6. QED
    BY <2>2, <2>4, <2>5 DEF Lavish
<1>2. CASE Given(config, "acquire", Len(SourceLabels),
                 SeatsAllocated \div Len(SourceLabels), Pace, FALSE)
  <2> DEFINE n == Len(SourceLabels)
             each == SeatsAllocated \div n
  <2>1. config.source_labels = SourceLabels
    BY <1>2 DEF Given, Common
  <2>2. n \in Nat /\ n > 0 /\ each \in Nat
    BY <2>1, SharesOfSeats
  <2>3. n * each = SeatsAllocated /\ each > SeatQuotaDefault /\ n <= Len(Candidates)
    BY DEF FixturesServe, SharesExceedQuota
  <2> HIDE DEF each
  <2>4. Given(config, "acquire", n, each, Pace, FALSE)
    BY <1>2 DEF each
  <2>5. Len(Offered) = n
    <3> HIDE DEF n
    <3>1. QED
      BY <2>2, <2>3, <2>4, GivenRun
  <2>6. QED
    BY <2>2, <2>3, <2>5 DEF Lavish
<1>3. policy # VULNERABLE_PER_ACCOUNT_QUOTA /\ policy # SECURE
  BY PolicyFields
<1>4. config \in {NO_ANTI_AUTOMATION, PER_SOURCE_RATE_LIMIT, SLOW_AND_SEQUENTIAL, FRONT_DOOR_GATE}
  BY <1>3, RowIs
<1>5. QED
  BY <1>1, <1>2, <1>4, ScenarioFields DEF Given

\* One identity that takes all, or the sources evenly, take more than the quota.
LEMMA MoreThanQuota ==
    ASSUME Lavish, NEW ids \in Nat, NEW most \in Nat, ids <= Len(Offered),
           SeatsAllocated <= ids * most
    PROVE  ~(most <= SeatQuotaDefault)
<1>1. PICK n \in Nat, each \in Nat :
         Len(Offered) = n /\ n > 0 /\ n * each = SeatsAllocated /\ each > SeatQuotaDefault
  BY DEF Lavish
<1>2. SeatQuotaDefault \in Nat
  BY SettingsAssumption
<1> SUFFICES ASSUME most <= SeatQuotaDefault PROVE FALSE
  OBVIOUS
<1>3. most + 1 <= each /\ ids <= n
  BY <1>1, <1>2
<1>4. ids * most <= n * most
  BY <1>1, <1>3, MoreSteps
<1>5. n * (most + 1) = n * most + n
  <2>1. \A a, b \in Nat : a * (b + 1) = a * b + a
    OBVIOUS
  <2>2. QED
    BY <1>1, <2>1
<1>6. n * (most + 1) <= n * each
  <2>1. \A a, b, c \in Nat : b <= c => a * b <= a * c
    OBVIOUS
  <2>2. most + 1 \in Nat
    OBVIOUS
  <2>3. QED
    BY <1>1, <1>3, <2>1, <2>2
<1> DEFINE x == ids * most
           y == n * most
           z == n * each
<1>7. x \in Nat /\ y \in Nat /\ z \in Nat
  <2>1. \A a, b \in Nat : a * b \in Nat
    OBVIOUS
  <2>2. QED
    BY <1>1, <2>1
<1>8. z <= x /\ x <= y /\ y + n <= z
  BY <1>1, <1>4, <1>5, <1>6
<1> HIDE DEF x, y, z
<1>9. QED
  BY <1>1, <1>7, <1>8

\* What a run's notes are known by.
NotesRun == RowRun /\ Shared /\ Charged /\ Identified /\ HoldsSettled /\ (Servable => SecureVerdict)

LEMMA SecureRowHolds ==
    ASSUME NotesRun, FixturesServe, AllocationCoversEntitlements,
           SeatQuotaDefault <= HouseholdEntitlement, phase = "done", IsRow, InTime,
           ~is_vulnerable(policy)
    PROVE  secure /\ Unimpeded
<1>1. config \in Configs
  BY DEF NotesRun, RowRun, PoolInv, HarnessInv
<1>2. /\ config.mode = "acquire" /\ ~policy.per_source_rate_limit /\ ~Gated /\ Common(config)
  BY <1>1, RowShape
<1>3. Unimpeded
  BY <1>2 DEF Unimpeded
<1>4. config.genuine_patrons <= Len(GenuinePatrons) /\ config.genuine_seats_each <= SeatQuotaDefault
  <2>1. Len(GenuinePatrons) \in Nat /\ SeatQuotaDefault \in Nat
    BY HarnessAssumption, SettingsAssumption, LenProperties
  <2>2. QED
    BY <1>2, <2>1 DEF Common
<1>5. Servable
  BY <1>2, <1>4 DEF Servable, FixturesServe, DistinctPatrons
<1>6. verdict(ledger) = "flow limit held"
  BY <1>2, <1>4, <1>5 DEF NotesRun, SecureVerdict
<1>7. QED
  BY <1>3, <1>6 DEF secure

\* The operator of a row that confirms its holds has seats to its name, all of
\* them confirmed.
LEMMA RowConfirms ==
    ASSUME NotesRun, FixturesServe, SharesExceedQuota, phase = "done", IsRow, InTime,
           is_vulnerable(policy), config # ABANDONED_HOLDS
    PROVE  ledger.seats_confirmed # 0
<1>1. PoolInv /\ LedgerInv /\ Told /\ Welcomed /\ config \in Configs
  BY DEF NotesRun, RowRun, PoolInv, HarnessInv
<1>2. Drained(ledger)
  BY <1>1, RowDrains DEF NotesRun, RowRun
<1>3. Sells /\ Unimpeded
  BY <1>1, RowUnimpeded
<1>4. ledger.invalid_requests = 0 /\ ledger.rate_limited_requests = 0
  BY <1>1, <1>3, NothingTold
<1>5. ledger.seats_held = 0
  <2>1. ledger.invalid_requests + ledger.rate_limited_requests = 0
    BY <1>4
  <2>2. QED
    BY <1>3, <2>1 DEF Sells, NotesRun, HoldsSettled
<1>6. config.source_labels = SourceLabels
  <2>1. Common(config)
    BY <1>1, RowIs, ScenarioFields DEF Given
  <2>2. QED
    BY <2>1 DEF Common
<1>7. SeatsAllocated \in Nat /\ SeatQuotaDefault \in Nat /\ SeatsAllocated > SeatQuotaDefault
  BY <1>1, <1>6, SharesOfSeats, SettingsAssumption
<1>8. /\ ledger.operator_seats + ledger.genuine_seats = ledger.seats_held + ledger.seats_confirmed
      /\ ledger.seats_confirmed \in Nat
  BY <1>1 DEF LedgerInv, Adding, Told
<1>9. ledger.operator_seats = SeatsAllocated /\ ledger.genuine_seats = 0
  BY <1>2 DEF Drained
<1>10. QED
  BY <1>5, <1>7, <1>8, <1>9

LEMMA RowQuotaNote ==
    ASSUME NotesRun, FixturesServe, SharesExceedQuota, phase = "done", IsRow, InTime,
           is_vulnerable(policy), config # ABANDONED_HOLDS, QuotaKept(ledger)
    PROVE  SeatQuota /\ ledger.operator_identities > 1
<1> DEFINE ids == ledger.operator_identities
           most == ledger.max_seats_per_identity
<1>1. PoolInv /\ config \in Configs
  BY DEF NotesRun, RowRun, PoolInv, HarnessInv
<1>2. Drained(ledger) /\ Unimpeded
  BY <1>1, RowDrains, RowUnimpeded DEF NotesRun, RowRun
<1>3. /\ ids \in Nat /\ ids <= Cardinality(SelfService) /\ most \in Nat
      /\ SeatsAllocated <= ids * most
  BY <1>2 DEF NotesRun, Shared, Divided, Drained
<1>4. most <= SeatQuotaDefault
  BY DEF QuotaKept
<1>5. ~GovernedIdentitySupply
  <2>1. policy # SECURE
    BY PolicyFields
  <2>2. QED
    BY <2>1, RowIs, PolicyFields DEF Bare
<1>6. Cardinality(SelfService) = Len(Offered)
  BY <1>2, <1>5 DEF NotesRun, Identified, SequentialIdentities
<1> HIDE DEF ids, most
<1>7. SeatQuota
  <2>1. ASSUME ~SeatQuota PROVE FALSE
    <3>1. Lavish
      BY <1>1, <2>1, RowLavish
    <3>2. QED
      BY <1>3, <1>4, <1>6, <3>1, MoreThanQuota
  <2>2. QED
    BY <2>1
<1>8. config.source_labels = SourceLabels
  <2>1. Common(config)
    BY <1>1, RowIs, ScenarioFields DEF Given
  <2>2. QED
    BY <2>1 DEF Common
<1>9. SeatsAllocated \in Nat /\ SeatQuotaDefault \in Nat /\ SeatsAllocated > SeatQuotaDefault
  BY <1>1, <1>8, SharesOfSeats, SettingsAssumption
<1>10. ids > 1
  <2>1. ASSUME ~(ids > 1) PROVE FALSE
    <3>1. ids <= 1
      BY <1>3, <2>1
    <3>2. ids * most <= 1 * most
      BY <1>3, <3>1, MoreSteps
    <3>3. 1 * most = most /\ ids * most \in Nat
      <4>1. \A a, b \in Nat : 1 * a = a /\ a * b \in Nat
        OBVIOUS
      <4>2. QED
        BY <1>3, <4>1
    <3>4. ids * most <= most
      BY <3>2, <3>3
    <3> DEFINE x == ids * most
    <3>5. SeatsAllocated <= x /\ x <= most /\ x \in Nat
      BY <1>3, <3>3, <3>4
    <3> HIDE DEF x
    <3>6. QED
      BY <1>3, <1>4, <1>9, <3>5
  <2>2. QED
    BY <2>1
<1>11. QED
  BY <1>7, <1>10 DEF ids

LEMMA NotesAre ==
    ASSUME NotesRun, FixturesServe, SharesExceedQuota, AllocationCoversEntitlements,
           SeatQuotaDefault <= HouseholdEntitlement
    PROVE  NotesTruthful
<1> SUFFICES ASSUME phase = "done", IsRow, InTime
             PROVE  /\ replay.valid = ledger.requests_issued
                    /\ Note(ledger) = "held" <=> ~is_vulnerable(policy)
                    /\ Note(ledger) = "denied" =>
                          ledger.seats_available = 0 /\ config.mode = "abandon"
                    /\ Note(ledger) = "challenged" => ledger.challenges_passed = 1 /\ Gated
                    /\ Note(ledger) = "quota" => SeatQuota /\ ledger.operator_identities > 1
                    /\ Note(ledger) \in {"paced_under_limit", "stayed_under"} =>
                          policy.per_source_rate_limit
  BY DEF NotesTruthful
<1>1. PoolInv /\ Told /\ Welcomed /\ config \in Configs
  BY DEF NotesRun, RowRun, PoolInv, HarnessInv
<1>2. secure <=> ~is_vulnerable(policy)
  BY <1>1, SecureRowHolds, RowDrains DEF NotesRun, RowRun
<1>3. Unimpeded
  BY <1>1, SecureRowHolds, RowUnimpeded
<1>4. replay.valid = ledger.requests_issued
  <2>1. CountOutcomes(INDIVIDUALLY_INVALID) = 0
    BY <1>3, WelcomedCounts DEF NotesRun, RowRun, NoneInvalid
  <2>2. BagCardinality(records) = AllCount(records) /\ AllCount(records) \in Nat
    BY <1>1, AllAreCounted, AllCountType
  <2>3. replay.valid = BagCardinality(records) - CountOutcomes(INDIVIDUALLY_INVALID)
    BY DEF replay
  <2>4. replay.valid = AllCount(records) - 0
    BY <2>1, <2>2, <2>3
  <2>5. replay.valid = AllCount(records)
    BY <2>2, <2>4
  <2>6. QED
    BY <1>1, <2>5 DEF Told
<1>5. Note(ledger) = "held" <=> ~is_vulnerable(policy)
  BY <1>2 DEF Note
<1>6. ASSUME Note(ledger) = "denied"
      PROVE  ledger.seats_available = 0 /\ config.mode = "abandon"
  <2>1. ~secure /\ ledger.seats_confirmed = 0
    BY <1>6 DEF Note
  <2>2. is_vulnerable(policy)
    BY <1>2, <2>1
  <2>3. Drained(ledger)
    BY <1>1, <2>2, RowDrains DEF NotesRun, RowRun
  <2>4. config = ABANDONED_HOLDS
    BY <2>1, <2>2, RowConfirms
  <2>5. QED
    BY <2>3, <2>4, ScenarioFields DEF Drained, Given
<1>7. ASSUME Note(ledger) = "challenged"
      PROVE  ledger.challenges_passed = 1 /\ Gated
  <2>1. ledger.challenges_passed > 0
    BY <1>7 DEF Note
  <2>2. challenges > 0 /\ challenges \in Nat /\ ledger.challenges_passed = challenges
    BY <1>1, <2>1 DEF Told, NotesRun, Charged
  <2>3. config.pass_verification
    BY <2>2 DEF NotesRun, Charged
  <2>4. Gated /\ challenges <= 1
    BY <1>1, <2>3, RowShape DEF NotesRun, Charged
  <2>5. QED
    BY <2>2, <2>4
<1>8. ASSUME Note(ledger) = "quota"
      PROVE  SeatQuota /\ ledger.operator_identities > 1
  <2>1. ~secure /\ ledger.seats_confirmed # 0 /\ QuotaKept(ledger)
    BY <1>8 DEF Note
  <2>2. is_vulnerable(policy)
    BY <1>2, <2>1
  <2>3. config # ABANDONED_HOLDS
    BY <1>1, <2>1, <2>2, RowUnimpeded DEF NotesRun, RowRun, AbandonedRow
  <2>4. QED
    BY <2>1, <2>2, <2>3, RowQuotaNote
<1>9. ASSUME Note(ledger) \in {"paced_under_limit", "stayed_under"}
      PROVE  policy.per_source_rate_limit
  <2>1. NegativeControl \/ config.pace_seconds > 0
    BY <1>9 DEF Note
  <2>2. QED
    BY <1>1, <2>1, RowShape
<1>10. QED
  BY <1>4, <1>5, <1>6, <1>7, <1>8, <1>9

\* The report says what is so (report.py, _closing): of every row each request
\* was valid, "held" is said of the secure application and of no other, and
\* "denied every seat", "the challenge was passed", "no identity exceeded its
\* quota" and "stayed under the enforced rate limit" of a run against an
\* application with that control and that outcome.  Beside the fixtures, the
\* secure row needs seats enough for everybody's entitlement, and the quota is
\* told from the other rows by a smaller number of seats than theirs.
THEOREM NotesAreTruthful ==
    /\ FixturesServe /\ SharesExceedQuota
    /\ AllocationCoversEntitlements /\ SeatQuotaDefault <= HouseholdEntitlement
    => (HarnessSpec => []NotesTruthful)
<1> SUFFICES ASSUME FixturesServe, SharesExceedQuota, AllocationCoversEntitlements,
                    SeatQuotaDefault <= HouseholdEntitlement
             PROVE  HarnessSpec => []NotesTruthful
  OBVIOUS
<1>1. HarnessInit => Shared /\ Charged
  <2> SUFFICES ASSUME HarnessInit PROVE Shared /\ Charged
    OBVIOUS
  <2>1. phase = "register" /\ challenges = 0 /\ todo = Items(Len(Offered), 1, config.pace_seconds)
    BY DEF HarnessInit
  <2>2. \A i \in DOMAIN todo : todo[i].left <= 1
    BY <2>1 DEF Items
  <2>3. QED
    BY <2>1, <2>2 DEF Shared, Charged
<1>2. HarnessSpec => [](PoolInv /\ PatronsKnown /\ Identified)
  <2>1. Grounds => PoolInv
    BY DEF Grounds
  <2>2. QED
    BY <2>1, RunAlwaysKept, PTL
<1>3. HarnessSpec => [](Shared /\ Charged)
  <2>1. PoolInv /\ PatronsKnown /\ Shared /\ [HarnessNext]_harnessVars => Shared'
    BY SharedStep
  <2>2. PoolInv /\ Charged /\ [HarnessNext]_harnessVars => Charged'
    BY ChargedStep
  <2>3. QED
    BY <1>1, <1>2, <2>1, <2>2, PTL DEF HarnessSpec
<1>4. NotesRun => NotesTruthful
  BY NotesAre
<1>5. RowRun /\ Shared /\ Charged /\ Identified /\ HoldsSettled /\ (Servable => SecureVerdict)
        => NotesRun
  BY DEF NotesRun
<1>6. QED
  BY <1>2, <1>3, <1>4, <1>5, RowsAlwaysRun, HoldsAreSettled, SecureVerdictIsEarned, PTL
================================================================================
