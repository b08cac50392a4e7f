------------------------------ MODULE LedgerProofs ------------------------------
(***************************************************************************)
(* Theorems about what a run of the harness has on record and what its     *)
(* ledger says: the records are the venue's own history, and the ledger    *)
(* adds up, for every configuration, policy and interleaving.              *)
(***************************************************************************)
EXTENDS Comparison, HarnessProofs

-----------------------------------------------------------------------------
(* Counting records. *)

Matching(B, actors, steps, outcomes) ==
    {k \in DOMAIN B : k.actor \in actors /\ k.step \in steps /\ classify(k.status) \in outcomes}
CountIn(B, actors, steps, outcomes) == Total(B, Matching(B, actors, steps, outcomes))
GrantedIn(B, actor, step) == CountIn(B, {actor}, {step}, {"granted"})

LEMMA CountIsTotal ==
    ASSUME NEW actors, NEW steps, NEW outcomes
    PROVE  Count(actors, steps, outcomes) = CountIn(records, actors, steps, outcomes)
BY SumIsTotal
   DEF Count, CountWhere, CountIn, Matching

LEMMA GrantedIsTotal ==
    ASSUME NEW actor, NEW step
    PROVE  Granted(actor, step) = GrantedIn(records, actor, step)
BY CountIsTotal DEF Granted, GrantedIn

\* One more record counts where it matches.
LEMMA OneMoreCount ==
    ASSUME NEW B, B \in [DOMAIN B -> Nat \ {0}], IsFiniteSet(DOMAIN B), NEW x,
           NEW actors, NEW steps, NEW outcomes
    PROVE  /\ CountIn(B, actors, steps, outcomes) \in Nat
           /\ CountIn(OneMore(B, x), actors, steps, outcomes)
                = CountIn(B, actors, steps, outcomes)
                    + IF /\ x.actor \in actors /\ x.step \in steps
                         /\ classify(x.status) \in outcomes
                      THEN 1 ELSE 0
<1> DEFINE C == OneMore(B, x)
           S == Matching(B, actors, steps, outcomes)
           T == Matching(C, actors, steps, outcomes)
           matches == /\ x.actor \in actors /\ x.step \in steps
                      /\ classify(x.status) \in outcomes
<1>1. /\ DOMAIN C = DOMAIN B \cup {x}
      /\ \A k \in DOMAIN B : k # x => C[k] = B[k]
      /\ C[x] = IF x \in DOMAIN B THEN B[x] + 1 ELSE 1
      /\ \A k \in DOMAIN B : B[k] \in Nat
      /\ \A k \in DOMAIN C : C[k] \in Nat
  BY DEF OneMore
<1>2. S \subseteq DOMAIN B /\ IsFiniteSet(S) /\ (x \in S <=> matches /\ x \in DOMAIN B)
  <2>1. S \subseteq DOMAIN B
    BY DEF Matching
  <2>2. IsFiniteSet(S)
    BY <2>1, FS_Subset
  <2>3. QED
    BY <2>1, <2>2 DEF Matching
<1>3. T = IF matches THEN S \cup {x} ELSE S
  BY <1>1 DEF Matching
<1>4. CountIn(B, actors, steps, outcomes) = Total(B, S)
      /\ CountIn(C, actors, steps, outcomes) = Total(C, T)
  BY DEF CountIn
<1> HIDE DEF C, S, T, matches
<1>5. Total(B, S) \in Nat
  BY <1>1, <1>2, TotalNat
<1>6. Total(C, T) = Total(B, S) + IF matches THEN 1 ELSE 0
  <2>1. CASE ~matches
    <3>1. \A k \in S : C[k] = B[k]
      BY <1>1, <1>2, <2>1
    <3>2. Total(C, S) = Total(B, S)
      BY <1>2, <3>1, TotalSame
    <3>3. QED
      BY <1>3, <1>5, <2>1, <3>2
  <2>2. CASE matches /\ x \notin DOMAIN B
    <3>1. x \notin S /\ C[x] = 1 /\ \A k \in S : C[k] = B[k]
      BY <1>1, <1>2, <2>2
    <3>2. Total(C, S) = Total(B, S)
      BY <1>2, <3>1, TotalSame
    <3>3. \A k \in S \cup {x} : C[k] \in Nat
      BY <1>1, <1>2
    <3>4. Total(C, S \cup {x}) = C[x] + Total(C, S)
      BY <1>2, <3>1, <3>3, TotalAdd
    <3>5. QED
      BY <1>3, <1>5, <2>2, <3>1, <3>2, <3>4
  <2>3. CASE matches /\ x \in DOMAIN B
    <3> DEFINE R == S \ {x}
    <3>1. x \in S /\ S \cup {x} = S /\ C[x] = B[x] + 1 /\ B[x] \in Nat
      BY <1>1, <1>2, <2>3
    <3>2. IsFiniteSet(R) /\ \A k \in R : C[k] = B[k]
      BY <1>1, <1>2, FS_Subset
    <3>3. Total(C, R) = Total(B, R)
      <4> HIDE DEF R
      <4>1. QED
        BY <3>2, TotalSame
    <3>4. \A k \in S : B[k] \in Nat /\ C[k] \in Nat
      BY <1>1, <1>2
    <3>5. Total(C, S) = C[x] + Total(C, R) /\ Total(B, S) = B[x] + Total(B, R)
      BY <1>2, <3>1, <3>4, TotalAny
    <3>6. Total(B, R) \in Nat
      <4>1. \A k \in R : B[k] \in Nat
        BY <3>4
      <4> HIDE DEF R
      <4>2. QED
        BY <3>2, <4>1, TotalNat
    <3>7. Total(C, S) = Total(B, S) + 1
      BY <3>1, <3>3, <3>5, <3>6
    <3>8. QED
      BY <1>3, <2>3, <3>1, <3>7
  <2>4. QED
    BY <2>1, <2>2, <2>3
<1>7. QED
  BY <1>4, <1>5, <1>6 DEF C, matches

-----------------------------------------------------------------------------
(* The records are the venue's history. *)

Actors == {"operator", "genuine"}

\* The granted counts, once a request was answered.
LEMMA GrantedOnce ==
    ASSUME PoolInv, NEW i, NEW step, Answered(i, step, {201})
    PROVE  \A actor \in Actors, s \in Steps :
              /\ GrantedIn(records, actor, s) \in Nat
              /\ GrantedIn(records', actor, s)
                   = GrantedIn(records, actor, s) + IF actor = Actor /\ s = step THEN 1 ELSE 0
<1> DEFINE k == Key(Actor, step, 201, Source(i))
<1>1. records' = OneMore(records, k)
  BY DEF Answered
<1>2. k.actor = Actor /\ k.step = step /\ classify(k.status) = "granted"
  BY DEF Key, classify
<1>3. records \in [DOMAIN records -> Nat \ {0}] /\ IsFiniteSet(DOMAIN records)
  BY DEF PoolInv, RecordsKnown
<1> HIDE DEF k
<1>4. QED
  BY <1>1, <1>2, <1>3, OneMoreCount DEF GrantedIn

LEMMA GrantedNone ==
    ASSUME PoolInv, NEW i, NEW step, NEW statuses \in SUBSET {401, 403, 409, 429},
           Answered(i, step, statuses)
    PROVE  \A actor, s : GrantedIn(records', actor, s) = GrantedIn(records, actor, s)
<1>1. PICK status \in statuses :
         records' = OneMore(records, Key(Actor, step, status, Source(i)))
  BY DEF Answered
<1> DEFINE k == Key(Actor, step, status, Source(i))
<1>2. records' = OneMore(records, k) /\ classify(k.status) # "granted"
  BY <1>1 DEF Key, classify
<1>3. records \in [DOMAIN records -> Nat \ {0}] /\ IsFiniteSet(DOMAIN records)
  BY DEF PoolInv, RecordsKnown
<1> HIDE DEF k
<1>4. QED
  BY <1>2, <1>3, OneMoreCount DEF GrantedIn

\* How many tickets went to these patrons.
SoldTo(P) == Cardinality({t \in DOMAIN tickets : tickets[t].patron \in P})

VenueInv ==
    /\ GrantedIn(records, "operator", "register") = Cardinality(SelfService)
    /\ GrantedIn(records, "operator", "hold") + GrantedIn(records, "genuine", "hold")
         = Len(holds)
    /\ GrantedIn(records, "genuine", "confirm") = SoldTo(FixturePatrons)
    /\ GrantedIn(records, "operator", "confirm") = SoldTo(SelfService)

LEMMA VenueInvSuffices == PoolInv /\ VenueInv => RecordsMatchVenue
  BY GrantedIsTotal
     DEF PoolInv, HarnessInv, IdentitiesKnown, VenueInv, SoldTo, RecordsMatchVenue

LEMMA InitVenue == HarnessInit => VenueInv
<1> SUFFICES ASSUME HarnessInit PROVE VenueInv
  OBVIOUS
<1>1. SelfService = {} /\ Len(holds) = 0 /\ DOMAIN tickets = {}
  BY DEF HarnessInit, Init, SelfService
<1>2. DOMAIN records = {}
  BY DEF HarnessInit, EmptyBag, SetToBag
<1>3. \A actor, s : GrantedIn(records, actor, s) = 0
  <2>1. \A actor, s : Matching(records, {actor}, {s}, {"granted"}) = {}
    BY <1>2 DEF Matching
  <2>2. QED
    BY <2>1, TotalEmpty DEF GrantedIn, CountIn
<1>4. SoldTo(FixturePatrons) = 0 /\ SoldTo(SelfService) = 0
  <2>1. \A P : {t \in DOMAIN tickets : tickets[t].patron \in P} = {}
    BY <1>1
  <2>2. QED
    BY <2>1, FS_EmptySet DEF SoldTo
<1>5. QED
  BY <1>1, <1>3, <1>4, FS_EmptySet DEF VenueInv

\* A ticket more for one patron.
LEMMA SoldOne ==
    ASSUME TypeOK, NEW p \in patrons, NEW h, ConfirmHold(p, h), NEW P
    PROVE  /\ SoldTo(P) \in Nat
           /\ Cardinality({t \in DOMAIN tickets' : tickets'[t].patron \in P})
                = SoldTo(P) + IF p \in P THEN 1 ELSE 0
<1> DEFINE n == Len(tickets)
           S == {t \in DOMAIN tickets : tickets[t].patron \in P}
           T == {t \in DOMAIN tickets' : tickets'[t].patron \in P}
<1>1. /\ n \in Nat /\ DOMAIN tickets = 1..n /\ DOMAIN tickets' = 1..(n + 1)
      /\ \A t \in 1..n : tickets'[t] = tickets[t]
      /\ tickets'[n + 1].patron = p
  <2>1. ConfirmedRows(p, h)
    BY ConfirmHoldRows
  <2>2. QED
    BY <2>1 DEF ConfirmedRows
<1>2. S \subseteq 1..n /\ n + 1 \notin S
  BY <1>1
<1>3. T = IF p \in P THEN S \cup {n + 1} ELSE S
  BY <1>1
<1>4. SoldTo(P) = Cardinality(S)
  BY DEF SoldTo
<1> HIDE DEF n, S
<1>5. IsFiniteSet(S) /\ Cardinality(S) \in Nat
  BY <1>1, <1>2, RowSetsFinite
<1>6. p \in P => Cardinality(T) = Cardinality(S) + 1
  BY <1>2, <1>3, <1>5, FS_AddElement
<1>7. p \notin P => Cardinality(T) = Cardinality(S)
  BY <1>3
<1>8. QED
  BY <1>4, <1>5, <1>6, <1>7
\* What the steps that leave the tables alone do, but for what lapses.
LEMMA VenueQuiet ==
    ASSUME VenueInv, UNCHANGED <<patrons, tickets>>, Len(holds') = Len(holds),
           \A actor, s : GrantedIn(records', actor, s) = GrantedIn(records, actor, s)
    PROVE  VenueInv'
<1>1. SelfService' = SelfService /\ \A P : SoldTo(P)' = SoldTo(P)
  BY DEF SelfService, SoldTo
<1>2. /\ SoldTo(FixturePatrons)' = SoldTo(FixturePatrons)
      /\ SoldTo(SelfService)' = SoldTo(SelfService)
  BY <1>1 DEF SoldTo
<1>3. QED
  BY <1>1, <1>2 DEF VenueInv

LEMMA RegisterVenue ==
    ASSUME PoolInv, PatronsKnown, VenueInv, NEW i \in DOMAIN todo, Register(i)
    PROVE  VenueInv'
<1>1. phase = "register" /\ Actor = "operator"
      /\ (RegisterGranted(i) \/ RegisterRefused(i))
  BY RegisterCases DEF Actor
<1>2. CASE RegisterRefused(i)
  <2>1. UNCHANGED <<patrons, tickets>> /\ Len(holds') = Len(holds)
    BY <1>2 DEF RegisterRefused, vars, db
  <2>2. \A actor, s : GrantedIn(records', actor, s) = GrantedIn(records, actor, s)
    BY <1>2, GrantedNone DEF RegisterRefused
  <2>3. QED
    BY <2>1, <2>2, VenueQuiet
<1>3. CASE RegisterGranted(i)
  <2> DEFINE n == Cardinality(SelfService)
             ref == Offered[i]
  <2>1. TypeOK /\ IdsNumbered
    BY DEF PoolInv, HarnessInv
  <2>2. RegisterPatron(ref)
    BY <1>3 DEF RegisterGranted
  <2>3. n \in Nat
    BY <2>1, FS_Subset, FS_CardinalityType DEF TypeOK, SelfService
  <2>4. Cardinality(SelfService)' = n + 1 /\ SelfService' = SelfService \cup {n + 1}
    <3> HIDE DEF ref
    <3>1. QED
      BY <2>1, <2>2, RegisterNumbers
  <2>5. holds' = holds /\ tickets' = tickets
    BY <2>2 DEF RegisterPatron
  <2>6. n + 1 \notin patrons
    <3>1. n + 1 \notin SelfService
      <4>1. SelfService = 1..n
        BY <2>1 DEF IdsNumbered
      <4>2. QED
        BY <2>3, <4>1
    <3>2. n + 1 \notin FixturePatrons
      BY <2>3, PatronsAssumption
    <3>3. QED
      BY <3>1, <3>2 DEF SelfService
  <2>7. SoldTo(SelfService)' = SoldTo(SelfService)
    <3>1. \A t \in DOMAIN tickets : tickets[t].patron # n + 1
      BY <2>6 DEF PatronsKnown
    <3>2. {t \in DOMAIN tickets : tickets[t].patron \in SelfService}
            = {t \in DOMAIN tickets' : tickets'[t].patron \in SelfService'}
      BY <2>4, <2>5, <3>1
    <3>3. QED
      BY <3>2 DEF SoldTo
  <2>8. SoldTo(FixturePatrons)' = SoldTo(FixturePatrons)
    BY <2>5 DEF SoldTo
  <2>9. \A actor \in Actors, s \in Steps :
           /\ GrantedIn(records, actor, s) \in Nat
           /\ GrantedIn(records', actor, s)
                = GrantedIn(records, actor, s)
                    + IF actor = "operator" /\ s = "register" THEN 1 ELSE 0
    BY <1>1, <1>3, GrantedOnce DEF RegisterGranted
  <2> HIDE DEF n
  <2>10. /\ GrantedIn(records', "operator", "register")
              = GrantedIn(records, "operator", "register") + 1
         /\ GrantedIn(records', "operator", "hold") = GrantedIn(records, "operator", "hold")
         /\ GrantedIn(records', "genuine", "hold") = GrantedIn(records, "genuine", "hold")
         /\ GrantedIn(records', "operator", "confirm")
              = GrantedIn(records, "operator", "confirm")
         /\ GrantedIn(records', "genuine", "confirm")
              = GrantedIn(records, "genuine", "confirm")
    BY <2>9 DEF Actors, Steps
  <2>11. QED
    BY <2>4, <2>5, <2>7, <2>8, <2>10 DEF VenueInv, n
<1>4. QED
  BY <1>1, <1>2, <1>3

LEMMA HoldVenue ==
    ASSUME PoolInv, VenueInv, NEW i \in DOMAIN todo, Hold(i)
    PROVE  VenueInv'
<1>1. phase \in {"operator", "genuine"} /\ Actor \in Actors
      /\ (HoldGranted(i) \/ HoldRefused(i))
  BY HoldCases DEF Actor, Actors
<1>2. CASE HoldRefused(i)
  <2>1. UNCHANGED <<patrons, tickets>> /\ Len(holds') = Len(holds)
    BY <1>2 DEF HoldRefused, vars, db
  <2>2. \A actor, s : GrantedIn(records', actor, s) = GrantedIn(records, actor, s)
    BY <1>2, GrantedNone DEF HoldRefused
  <2>3. QED
    BY <2>1, <2>2, VenueQuiet
<1>3. CASE HoldGranted(i)
  <2> DEFINE p == Patron(i)
  <2>1. p \in patrons /\ \E show \in Shows : PlaceHold(p, show)
    BY <1>3, AuthenticIsPatron DEF HoldGranted, PoolInv, HarnessInv
  <2> HIDE DEF p
  <2>2. PICK show \in Shows : PlaceHold(p, show)
    BY <2>1
  <2>3. Len(holds') = Len(holds) + 1 /\ Len(holds) \in Nat
    <3>1. PlacedRows(p)
      BY <2>1, <2>2, PlaceHoldRows DEF PoolInv, HarnessInv
    <3>2. Len(holds') \in Nat /\ DOMAIN holds' = 1..Len(holds')
      BY <2>2, PlaceHoldType, <2>1, LenProperties DEF PoolInv, HarnessInv, TypeOK
    <3>3. QED
      BY <3>1, <3>2 DEF PlacedRows
  <2>4. patrons' = patrons /\ tickets' = tickets
    BY <2>2 DEF PlaceHold
  <2>5. SelfService' = SelfService
    BY <2>4 DEF SelfService
  <2>6. SoldTo(SelfService)' = SoldTo(SelfService)
        /\ SoldTo(FixturePatrons)' = SoldTo(FixturePatrons)
    BY <2>4, <2>5 DEF SoldTo
  <2>7. \A actor \in Actors, s \in Steps :
           /\ GrantedIn(records, actor, s) \in Nat
           /\ GrantedIn(records', actor, s)
                = GrantedIn(records, actor, s) + IF actor = Actor /\ s = "hold" THEN 1 ELSE 0
    BY <1>3, GrantedOnce DEF HoldGranted
  <2>8. /\ GrantedIn(records', "operator", "register")
             = GrantedIn(records, "operator", "register")
        /\ GrantedIn(records', "operator", "confirm")
             = GrantedIn(records, "operator", "confirm")
        /\ GrantedIn(records', "genuine", "confirm")
             = GrantedIn(records, "genuine", "confirm")
    BY <2>7 DEF Actors, Steps
  <2>9. GrantedIn(records', "operator", "hold") + GrantedIn(records', "genuine", "hold")
          = GrantedIn(records, "operator", "hold") + GrantedIn(records, "genuine", "hold") + 1
    BY <1>1, <2>7 DEF Actors, Steps
  <2>10. QED
    BY <2>3, <2>5, <2>6, <2>8, <2>9 DEF VenueInv
<1>4. QED
  BY <1>1, <1>2, <1>3

LEMMA ConfirmVenue ==
    ASSUME PoolInv, VenueInv, NEW i \in DOMAIN todo, Confirm(i)
    PROVE  VenueInv'
<1>1. phase \in {"operator", "genuine"} /\ (ConfirmGranted(i) \/ ConfirmRefused(i))
  BY ConfirmCases
<1>2. CASE ConfirmRefused(i)
  <2>1. UNCHANGED <<patrons, tickets>> /\ Len(holds') = Len(holds)
    BY <1>2 DEF ConfirmRefused, vars, db
  <2>2. \A actor, s : GrantedIn(records', actor, s) = GrantedIn(records, actor, s)
    BY <1>2, GrantedNone DEF ConfirmRefused
  <2>3. QED
    BY <2>1, <2>2, VenueQuiet
<1>3. CASE ConfirmGranted(i)
  <2> DEFINE p == Patron(i)
             h == todo[i].has
  <2>1. p \in patrons /\ ConfirmHold(p, h)
    BY <1>3, AuthenticIsPatron DEF ConfirmGranted, PoolInv, HarnessInv
  <2>2. \/ p \in SelfService /\ p \notin FixturePatrons /\ Actor = "operator"
        \/ p \in FixturePatrons /\ p \notin SelfService /\ Actor = "genuine"
    BY <1>1, PatronKnown DEF Actor, SelfService
  <2> HIDE DEF p, h
  <2>3. Len(holds') = Len(holds)
    <3>1. TypeOK /\ ConfirmedRows(p, h)
      BY <2>1, ConfirmHoldRows DEF PoolInv, HarnessInv
    <3>2. /\ Len(holds') \in Nat /\ DOMAIN holds' = 1..Len(holds')
          /\ Len(holds) \in Nat /\ DOMAIN holds = 1..Len(holds)
      BY <2>1, <3>1, ConfirmHoldType, LenProperties DEF TypeOK
    <3>3. DOMAIN holds' = DOMAIN holds
      BY <3>1 DEF ConfirmedRows
    <3>4. Cardinality(DOMAIN holds') = Len(holds') /\ Cardinality(DOMAIN holds) = Len(holds)
      BY <3>2, CardinalityUpTo
    <3>5. QED
      BY <3>3, <3>4
  <2>4. patrons' = patrons
    BY <2>1 DEF ConfirmHold
  <2>5. SelfService' = SelfService
    BY <2>4 DEF SelfService
  <2>6. /\ SoldTo(SelfService)' = SoldTo(SelfService) + IF p \in SelfService THEN 1 ELSE 0
        /\ SoldTo(FixturePatrons)'
             = SoldTo(FixturePatrons) + IF p \in FixturePatrons THEN 1 ELSE 0
    <3>1. \A P : Cardinality({t \in DOMAIN tickets' : tickets'[t].patron \in P})
                   = SoldTo(P) + IF p \in P THEN 1 ELSE 0
      BY <2>1, SoldOne DEF PoolInv, HarnessInv
    <3>2. /\ SoldTo(SelfService)'
               = Cardinality({t \in DOMAIN tickets' : tickets'[t].patron \in SelfService})
          /\ SoldTo(FixturePatrons)'
               = Cardinality({t \in DOMAIN tickets' : tickets'[t].patron \in FixturePatrons})
      BY <2>5 DEF SoldTo
    <3>3. QED
      BY <3>1, <3>2
  <2>7. \A actor \in Actors, s \in Steps :
           /\ GrantedIn(records, actor, s) \in Nat
           /\ GrantedIn(records', actor, s)
                = GrantedIn(records, actor, s) + IF actor = Actor /\ s = "confirm" THEN 1 ELSE 0
    BY <1>3, GrantedOnce DEF ConfirmGranted
  <2>8. /\ GrantedIn(records', "operator", "register")
             = GrantedIn(records, "operator", "register")
        /\ GrantedIn(records', "operator", "hold") = GrantedIn(records, "operator", "hold")
        /\ GrantedIn(records', "genuine", "hold") = GrantedIn(records, "genuine", "hold")
    BY <2>7 DEF Actors, Steps
  <2>9. /\ GrantedIn(records', "operator", "confirm") = SoldTo(SelfService)'
        /\ GrantedIn(records', "genuine", "confirm") = SoldTo(FixturePatrons)'
    <3>1. /\ GrantedIn(records', "operator", "confirm")
               = SoldTo(SelfService) + IF Actor = "operator" THEN 1 ELSE 0
          /\ GrantedIn(records', "genuine", "confirm")
               = SoldTo(FixturePatrons) + IF Actor = "genuine" THEN 1 ELSE 0
      BY <2>7 DEF Actors, Steps, VenueInv
    <3>2. QED
      BY <2>2, <2>6, <3>1
  <2>10. QED
    BY <2>3, <2>5, <2>8, <2>9 DEF VenueInv
<1>4. QED
  BY <1>1, <1>2, <1>3

LEMMA OtherVenue ==
    ASSUME PoolInv, VenueInv,
           \/ \E i \in DOMAIN todo : PayChallenge(i)
           \/ BeginRound \/ BeginGenuineDemand \/ Reconcile \/ Elapse \/ UNCHANGED harnessVars
    PROVE  VenueInv'
<1>1. UNCHANGED <<patrons, tickets, records>> /\ (holds' = holds \/ holds' = Lapsed)
  BY DEF PayChallenge, BeginRound, BeginGenuineDemand, Reconcile, ReadShow, Elapse, Tick,
         harness, harnessVars, vars, db
<1>2. Len(Lapsed) = Len(holds)
  BY LapsedRows DEF LapseKeepsRows, PoolInv, HarnessInv, TypeOK
<1>3. QED
  BY <1>1, <1>2, VenueQuiet

LEMMA VenueStep ==
    PoolInv /\ PatronsKnown /\ VenueInv /\ [HarnessNext]_harnessVars => VenueInv'
  BY RegisterVenue, HoldVenue, ConfirmVenue, OtherVenue
     DEF HarnessNext, HarnessStep, Finished

\* What the harness has on record is what the venue did, whatever its threads
\* interleave: a granted registration, hold or confirmation is one patron, hold
\* or ticket (engine.py's records against the tables of db.py).
THEOREM RecordsAreTheVenues == HarnessSpec => []RecordsMatchVenue
<1>1. HarnessSpec => []PatronsKnown
  BY HarnessImplementsBookingFlow, PatronsAlwaysKnown, PTL
<1>2. QED
  BY <1>1, PoolAlwaysKept, InitVenue, VenueStep, VenueInvSuffices, PTL DEF HarnessSpec

-----------------------------------------------------------------------------
(* The ledger adds up. *)

HeldIn(hs) == {h \in DOMAIN hs : hs[h].state = "held"}
HeldBy(hs, P) == Cardinality({h \in HeldIn(hs) : hs[h].patron \in P})

\* The ledger's sums, patron by patron, are the venue's counts, row by row.
LEMMA LedgerSums ==
    ASSUME PoolInv, PatronsKnown, NEW P, P \subseteq patrons
    PROVE  /\ Total([p \in patrons |-> Holding(Lapsed, p)], P) = HeldBy(Lapsed, P) + SoldTo(P)
           /\ HeldBy(Lapsed, P) \in Nat /\ SoldTo(P) \in Nat
<1> DEFINE held == [p \in patrons |-> Cardinality(HoldsOf(Lapsed, p, "held"))]
           sold == [p \in patrons |-> Cardinality(TicketsOf(p))]
           both == [p \in patrons |-> Holding(Lapsed, p)]
           H == HeldIn(Lapsed)
           T == DOMAIN tickets
           ho == [h \in H |-> Lapsed[h].patron]
           to == [t \in T |-> tickets[t].patron]
<1>1. IsFiniteSet(P) /\ IsFiniteSet(H) /\ IsFiniteSet(T)
  <2>1. TypeOK /\ LapseKeepsRows
    BY LapsedRows DEF PoolInv, HarnessInv, TypeOK
  <2>2. DOMAIN Lapsed = 1..Len(holds) /\ Len(holds) \in Nat
        /\ T = 1..Len(tickets) /\ Len(tickets) \in Nat
    BY <2>1, LenProperties DEF LapseKeepsRows, TypeOK
  <2>3. H \subseteq 1..Len(holds) /\ T \subseteq 1..Len(tickets)
    BY <2>2 DEF HeldIn
  <2>4. IsFiniteSet(H) /\ IsFiniteSet(T)
    BY <2>2, <2>3, RowSetsFinite
  <2>5. QED
    BY <2>1, <2>4, FS_Subset DEF TypeOK
<1>2. \A p \in P : /\ held[p] = Cardinality({h \in H : ho[h] = p})
                   /\ sold[p] = Cardinality({t \in T : to[t] = p})
  <2> TAKE p \in P
  <2>1. HoldsOf(Lapsed, p, "held") = {h \in H : ho[h] = p}
    BY DEF HoldsOf, HeldIn
  <2>2. TicketsOf(p) = {t \in T : to[t] = p}
    BY DEF TicketsOf
  <2>3. QED
    BY <2>1, <2>2
<1>3. {h \in H : ho[h] \in P} = {h \in H : Lapsed[h].patron \in P}
      /\ {t \in T : to[t] \in P} = {t \in T : tickets[t].patron \in P}
  OBVIOUS
<1>4. \A p \in P : both[p] = held[p] + sold[p]
  BY DEF Holding
<1>5. HeldBy(Lapsed, P) = Cardinality({h \in H : Lapsed[h].patron \in P})
      /\ SoldTo(P) = Cardinality({t \in T : tickets[t].patron \in P})
  BY DEF HeldBy, SoldTo
<1> HIDE DEF held, sold, both, H, T, ho, to
<1>6. Total(held, P) = Cardinality({h \in H : ho[h] \in P})
      /\ Total(sold, P) = Cardinality({t \in T : to[t] \in P})
  <2>1. \A p \in P : /\ held[p] = Cardinality(RowsOf(H, ho, p))
                     /\ sold[p] = Cardinality(RowsOf(T, to, p))
    BY <1>2 DEF RowsOf
  <2>2. QED
    BY <1>1, <2>1, TotalByOwner
<1>7. \A p \in P : held[p] \in Nat /\ sold[p] \in Nat
  BY <1>1, <1>2, FS_Subset, FS_CardinalityType
<1>8. Total(both, P) = Total(held, P) + Total(sold, P)
  BY <1>1, <1>4, <1>7, TotalOfSum
<1>9. Total(held, P) \in Nat /\ Total(sold, P) \in Nat
  BY <1>1, <1>7, TotalNat
<1>10. QED
  BY <1>3, <1>5, <1>6, <1>8, <1>9 DEF both

\* What the ledger of this moment would say.
LEMMA LedgerSays ==
    /\ build_ledger(Lapsed).seats_held = Cardinality(HeldIn(Lapsed))
    /\ build_ledger(Lapsed).seats_confirmed = Len(tickets)
    /\ build_ledger(Lapsed).seats_available = SeatsAvailable
    /\ build_ledger(Lapsed).operator_seats
         = Total([p \in patrons |-> Holding(Lapsed, p)], Holders(Lapsed) \cap SelfService)
    /\ build_ledger(Lapsed).genuine_seats
         = Total([p \in patrons |-> Holding(Lapsed, p)], Holders(Lapsed) \ SelfService)
    /\ build_ledger(Lapsed).demand_served = Granted("genuine", "confirm")
BY SumIsTotal DEF build_ledger, HeldIn
LEMMA HoldersAre ==
    ASSUME PoolInv, PatronsKnown
    PROVE  /\ Holders(Lapsed) \subseteq patrons
           /\ \A h \in HeldIn(Lapsed) : Lapsed[h].patron \in Holders(Lapsed)
           /\ \A t \in DOMAIN tickets : tickets[t].patron \in Holders(Lapsed)
<1>1. TypeOK /\ LapseKeepsRows
  BY LapsedRows DEF PoolInv, HarnessInv, TypeOK
<1>2. /\ \A h \in DOMAIN Lapsed : Lapsed[h].patron \in patrons
      /\ \A t \in DOMAIN tickets : tickets[t].patron \in patrons
  BY <1>1 DEF LapseKeepsRows, PatronsKnown
<1>3. ASSUME NEW p \in patrons
      PROVE  /\ IsFiniteSet(HoldsOf(Lapsed, p, "held")) /\ IsFiniteSet(TicketsOf(p))
             /\ Cardinality(HoldsOf(Lapsed, p, "held")) \in Nat
             /\ Cardinality(TicketsOf(p)) \in Nat
  <2>1. DOMAIN Lapsed = 1..Len(holds) /\ Len(holds) \in Nat
        /\ DOMAIN tickets = 1..Len(tickets) /\ Len(tickets) \in Nat
    BY <1>1, LenProperties DEF LapseKeepsRows, TypeOK
  <2>2. HoldsOf(Lapsed, p, "held") \subseteq 1..Len(holds) /\ TicketsOf(p) \subseteq 1..Len(tickets)
    BY <2>1 DEF HoldsOf, TicketsOf
  <2>3. QED
    BY <2>1, <2>2, RowSetsFinite
<1>4. ASSUME NEW p \in patrons,
             HoldsOf(Lapsed, p, "held") # {} \/ TicketsOf(p) # {}
      PROVE  p \in Holders(Lapsed)
  <2>1. Cardinality(HoldsOf(Lapsed, p, "held")) # 0 \/ Cardinality(TicketsOf(p)) # 0
    BY <1>3, <1>4, FS_EmptySet
  <2>2. Holding(Lapsed, p) > 0
    BY <1>3, <2>1 DEF Holding
  <2>3. QED
    BY <2>2 DEF Holders
<1>5. ASSUME NEW h \in HeldIn(Lapsed) PROVE Lapsed[h].patron \in Holders(Lapsed)
  <2>1. Lapsed[h].patron \in patrons /\ h \in HoldsOf(Lapsed, Lapsed[h].patron, "held")
    BY <1>2 DEF HeldIn, HoldsOf
  <2>2. QED
    BY <1>4, <2>1
<1>6. ASSUME NEW t \in DOMAIN tickets PROVE tickets[t].patron \in Holders(Lapsed)
  <2>1. tickets[t].patron \in patrons /\ t \in TicketsOf(tickets[t].patron)
    BY <1>2 DEF TicketsOf
  <2>2. QED
    BY <1>4, <2>1
<1>7. QED
  BY <1>5, <1>6 DEF Holders

\* So the ledger of this moment adds up.
Adding(l) ==
    /\ l.operator_seats + l.genuine_seats = l.seats_held + l.seats_confirmed
    /\ l.seats_held + l.seats_confirmed + l.seats_available = SeatsAllocated
    /\ l.demand_served <= l.genuine_seats

LEMMA LedgerAdds ==
    ASSUME PoolInv, PatronsKnown, VenueInv
    PROVE  Adding(build_ledger(Lapsed))
<1> DEFINE l == build_ledger(Lapsed)
           g == [p \in patrons |-> Holding(Lapsed, p)]
           H == Holders(Lapsed)
           S == H \cap SelfService
           O == H \ SelfService
           held == Cardinality(HeldIn(Lapsed))
           sold == Len(tickets)
<1>1. H \subseteq patrons /\ S \subseteq patrons /\ O \subseteq patrons
      /\ S \cup O = H /\ S \cap O = {}
  BY HoldersAre
<1>2. held \in Nat /\ sold \in Nat
  <2>1. LapseKeepsRows /\ TypeOK
    BY LapsedRows DEF PoolInv, HarnessInv, TypeOK
  <2>2. DOMAIN Lapsed = 1..Len(holds) /\ Len(holds) \in Nat /\ Len(tickets) \in Nat
        /\ DOMAIN tickets = 1..Len(tickets)
    BY <2>1, LenProperties DEF LapseKeepsRows, TypeOK
  <2>3. HeldIn(Lapsed) \subseteq 1..Len(holds)
    BY <2>2 DEF HeldIn
  <2>4. QED
    BY <2>2, <2>3, RowSetsFinite
<1>3. HeldBy(Lapsed, H) = held /\ SoldTo(H) = sold
  <2>1. {h \in HeldIn(Lapsed) : Lapsed[h].patron \in H} = HeldIn(Lapsed)
        /\ {t \in DOMAIN tickets : tickets[t].patron \in H} = DOMAIN tickets
    BY HoldersAre
  <2>2. Cardinality(DOMAIN tickets) = sold
    BY LenProperties, <1>2, CardinalityUpTo DEF PoolInv, HarnessInv, TypeOK
  <2>3. QED
    BY <2>1, <2>2 DEF HeldBy, SoldTo
<1>4. Total(g, S) + Total(g, O) = held + sold
  <2>1. Total(g, H) = held + sold
    BY <1>1, <1>3, LedgerSums
  <2>2. IsFiniteSet(S) /\ IsFiniteSet(O)
    BY <1>1, FS_Subset DEF PoolInv, HarnessInv, TypeOK
  <2>3. \A p \in patrons : g[p] \in Nat
    <3> TAKE p \in patrons
    <3>1. HoldsOf(Lapsed, p, "held") \subseteq HeldIn(Lapsed)
          /\ TicketsOf(p) \subseteq DOMAIN tickets
      BY DEF HoldsOf, HeldIn, TicketsOf
    <3>2. LapseKeepsRows /\ TypeOK
      BY LapsedRows DEF PoolInv, HarnessInv, TypeOK
    <3>3. DOMAIN Lapsed = 1..Len(holds) /\ Len(holds) \in Nat /\ Len(tickets) \in Nat
          /\ DOMAIN tickets = 1..Len(tickets)
      BY <3>2, LenProperties DEF LapseKeepsRows, TypeOK
    <3>4. HoldsOf(Lapsed, p, "held") \subseteq 1..Len(holds) /\ TicketsOf(p) \subseteq 1..Len(tickets)
      BY <3>3 DEF HoldsOf, TicketsOf
    <3>5. Cardinality(HoldsOf(Lapsed, p, "held")) \in Nat /\ Cardinality(TicketsOf(p)) \in Nat
      BY <3>3, <3>4, RowSetsFinite
    <3>6. QED
      BY <3>5 DEF Holding
  <2> HIDE DEF g
  <2>4. \A p \in S \cup O : g[p] \in Nat
    BY <1>1, <2>3
  <2> HIDE DEF S, O, H
  <2>5. Total(g, S \cup O) = Total(g, S) + Total(g, O)
    BY <1>1, <2>2, <2>4, TotalSplit
  <2>6. QED
    BY <1>1, <2>1, <2>5
<1>5. Granted("genuine", "confirm") <= Total(g, O)
  <2>1. Total(g, O) = HeldBy(Lapsed, O) + SoldTo(O) /\ HeldBy(Lapsed, O) \in Nat
        /\ SoldTo(O) \in Nat
    BY <1>1, LedgerSums
  <2>2. Granted("genuine", "confirm") = SoldTo(FixturePatrons)
    BY GrantedIsTotal DEF VenueInv
  <2>3. SoldTo(FixturePatrons) \in Nat /\ SoldTo(FixturePatrons) <= SoldTo(O)
    <3> DEFINE A == {t \in DOMAIN tickets : tickets[t].patron \in FixturePatrons}
               B == {t \in DOMAIN tickets : tickets[t].patron \in O}
    <3>1. A \subseteq B
      BY HoldersAre DEF SelfService
    <3>2. IsFiniteSet(B)
      <4>1. DOMAIN tickets = 1..Len(tickets) /\ Len(tickets) \in Nat
        BY LenProperties DEF PoolInv, HarnessInv, TypeOK
      <4>2. B \subseteq 1..Len(tickets)
        BY <4>1
      <4> HIDE DEF B
      <4>3. QED
        BY <4>1, <4>2, RowSetsFinite
    <3>3. SoldTo(FixturePatrons) = Cardinality(A) /\ SoldTo(O) = Cardinality(B)
      BY DEF SoldTo
    <3> HIDE DEF A, B
    <3>4. QED
      BY <3>1, <3>2, <3>3, FS_Subset, FS_CardinalityType
  <2>4. QED
    BY <2>1, <2>2, <2>3
<1>6. held + sold + SeatsAvailable = SeatsAllocated
  <2>1. SeatsAvailable = SeatsAllocated - held - sold
    BY DEF SeatsAvailable, HeldIn
  <2>2. SeatsAllocated \in Nat
    BY SettingsAssumption
  <2>3. QED
    BY <1>2, <2>1, <2>2
<1>7. /\ l.seats_held = held /\ l.seats_confirmed = sold /\ l.seats_available = SeatsAvailable
      /\ l.operator_seats = Total(g, S) /\ l.genuine_seats = Total(g, O)
      /\ l.demand_served = Granted("genuine", "confirm")
  BY LedgerSays
<1> HIDE DEF l, held, sold, g, S, O
<1>8. Adding(l)
  BY <1>4, <1>5, <1>6, <1>7 DEF Adding
<1>9. QED
  BY <1>8 DEF l

\* The ledger is built in one step, and stands.
LEMMA LedgerStands ==
    ASSUME [HarnessNext]_harnessVars, phase = "done"
    PROVE  UNCHANGED harnessVars /\ phase' = "done" /\ ledger' = ledger /\ policy' = policy
<1>1. UNCHANGED harnessVars
  BY DEF HarnessNext, HarnessStep, PayChallenge, Register, Hold, Confirm, BeginRound,
         BeginGenuineDemand, Reconcile, Elapse, Finished
<1>2. phase' = phase /\ ledger' = ledger /\ policy' = policy
  BY <1>1 DEF harnessVars, harness, vars
<1>3. QED
  BY <1>1, <1>2

LEMMA LedgerBuilt ==
    ASSUME [HarnessNext]_harnessVars, phase' = "done"
    PROVE  phase = "done" \/ (Reconcile /\ ledger' = build_ledger(Lapsed))
<1>1. ASSUME NEW i \in DOMAIN todo, PayChallenge(i) \/ Register(i) \/ Hold(i) \/ Confirm(i)
      PROVE  phase' = phase
  BY <1>1 DEF PayChallenge, Register, Hold, Confirm
<1>2. CASE BeginRound \/ BeginGenuineDemand \/ Elapse \/ UNCHANGED harnessVars
  BY <1>2 DEF BeginRound, BeginGenuineDemand, Elapse, harness, harnessVars
<1>3. CASE Reconcile
  BY <1>3 DEF Reconcile
<1>4. QED
  BY <1>1, <1>2, <1>3 DEF HarnessNext, HarnessStep, Finished

LedgerInv == phase = "done" => Adding(ledger)

LEMMA LedgerStep ==
    PoolInv /\ PatronsKnown /\ VenueInv /\ LedgerInv /\ [HarnessNext]_harnessVars
        => LedgerInv'
<1> SUFFICES ASSUME PoolInv, PatronsKnown, VenueInv, LedgerInv, [HarnessNext]_harnessVars,
                    phase' = "done"
             PROVE  Adding(ledger')
  BY DEF LedgerInv, Adding
<1>1. CASE phase = "done"
  BY <1>1, LedgerStands DEF LedgerInv
<1>2. CASE Reconcile /\ ledger' = build_ledger(Lapsed)
  BY <1>2, LedgerAdds
<1>3. QED
  BY <1>1, <1>2, LedgerBuilt

LEMMA VenueAlwaysKept == HarnessSpec => []VenueInv
<1>1. HarnessSpec => []PatronsKnown
  BY HarnessImplementsBookingFlow, PatronsAlwaysKnown, PTL
<1>2. QED
  BY <1>1, PoolAlwaysKept, InitVenue, VenueStep, PTL DEF HarnessSpec

\* The ledger adds up (test_harness.py): the seats it gives to the two actors,
\* summed patron by patron, are those the venue counts row by row, and nobody's
\* demand is called served without a seat (ledger.py, build_ledger).
THEOREM LedgersReconcile == HarnessSpec => []LedgerReconciles
<1>1. HarnessSpec => []PatronsKnown
  BY HarnessImplementsBookingFlow, PatronsAlwaysKnown, PTL
<1>2. HarnessInit => LedgerInv
  BY DEF HarnessInit, LedgerInv
<1>3. LedgerInv => LedgerReconciles
  BY DEF LedgerInv, Adding, LedgerReconciles
<1>4. QED
  BY <1>1, <1>2, <1>3, PoolAlwaysKept, VenueAlwaysKept, LedgerStep, PTL DEF HarnessSpec

-----------------------------------------------------------------------------
(* The operator's ceiling. *)

\* The operator's seats in the ledger are its live holds and its tickets.
LEMMA OperatorSeats ==
    ASSUME PoolInv, PatronsKnown
    PROVE  build_ledger(Lapsed).operator_seats
             = HeldBy(Lapsed, SelfService) + SoldTo(SelfService)
<1> DEFINE S == Holders(Lapsed) \cap SelfService
<1>1. S \subseteq patrons
  BY HoldersAre
<1>2. build_ledger(Lapsed).operator_seats = HeldBy(Lapsed, S) + SoldTo(S)
  BY <1>1, LedgerSays, LedgerSums
<1>3. {h \in HeldIn(Lapsed) : Lapsed[h].patron \in S}
        = {h \in HeldIn(Lapsed) : Lapsed[h].patron \in SelfService}
  BY HoldersAre
<1>4. {t \in DOMAIN tickets : tickets[t].patron \in S}
        = {t \in DOMAIN tickets : tickets[t].patron \in SelfService}
  BY HoldersAre
<1>5. QED
  BY <1>2, <1>3, <1>4 DEF HeldBy, SoldTo

OperatorHeld ==
    phase = "done" /\ ~is_vulnerable(policy) => ledger.operator_seats <= operator_seat_ceiling

LEMMA OperatorHeldStep ==
    ASSUME PoolInv, PatronsKnown, OperatorWithinCeiling', OperatorHeld,
           [HarnessNext]_harnessVars
    PROVE  OperatorHeld'
<1> SUFFICES ASSUME phase' = "done", ~is_vulnerable(policy')
             PROVE  ledger'.operator_seats <= RegistrationCap * SeatQuotaDefault
  BY DEF OperatorHeld, operator_seat_ceiling
<1>1. CASE phase = "done"
  BY <1>1, LedgerStands DEF OperatorHeld, operator_seat_ceiling
<1>2. CASE Reconcile /\ ledger' = build_ledger(Lapsed)
  <2>1. /\ holds' = Lapsed /\ tickets' = tickets /\ patrons' = patrons /\ policy' = policy
    BY <1>2 DEF Reconcile, ReadShow
  <2>2. SelfService' = SelfService
    BY <2>1 DEF SelfService
  <2>3. SeatQuota' /\ GovernedIdentitySupply' /\ FlowState'
    BY DEF is_vulnerable, SeatQuota, GovernedIdentitySupply, FlowState
  <2>4. Cardinality({h \in DOMAIN holds' :
                       holds'[h].state = "held" /\ holds'[h].patron \in SelfService'})
          + Cardinality({t \in DOMAIN tickets' : tickets'[t].patron \in SelfService'})
            <= RegistrationCap * SeatQuotaDefault
    BY <2>3 DEF OperatorWithinCeiling
  <2>5. {h \in DOMAIN holds' : holds'[h].state = "held" /\ holds'[h].patron \in SelfService'}
          = {h \in HeldIn(Lapsed) : Lapsed[h].patron \in SelfService}
    BY <2>1, <2>2 DEF HeldIn
  <2>6. HeldBy(Lapsed, SelfService) + SoldTo(SelfService) <= RegistrationCap * SeatQuotaDefault
    BY <2>1, <2>2, <2>4, <2>5 DEF HeldBy, SoldTo
  <2>7. QED
    BY <1>2, <2>6, OperatorSeats
<1>3. QED
  BY <1>1, <1>2, LedgerBuilt

\* Against the secure policy no configuration of the operator gets it past its
\* ceiling: more identities, threads, rounds or sources, or a pace of its own,
\* leave the ledger at the cap times the quota or below
\* (settings.py, operator_seat_ceiling; the first half of SecureVerdict).
THEOREM OperatorIsHeldToItsCeiling == HarnessSpec => []OperatorHeld
<1>1. HarnessSpec => []PatronsKnown
  BY HarnessImplementsBookingFlow, PatronsAlwaysKnown, PTL
<1>2. HarnessSpec => []OperatorWithinCeiling
  BY HarnessImplementsBookingFlow, OperatorStaysWithinCeiling, PTL
<1>3. HarnessInit => OperatorHeld
  BY DEF HarnessInit, OperatorHeld
<1>4. PoolInv /\ PatronsKnown /\ OperatorWithinCeiling' /\ OperatorHeld
        /\ [HarnessNext]_harnessVars => OperatorHeld'
  BY OperatorHeldStep
<1>5. QED
  BY <1>1, <1>2, <1>3, <1>4, PoolAlwaysKept, PTL DEF HarnessSpec

-----------------------------------------------------------------------------
(* The controls hold. *)

\* Under the gate each identity is paid for, and each challenge on record is one
\* that was issued.
GateInv ==
    /\ Gated => Cardinality(SelfService) <= spent
    /\ challenges = issued

\* No source is ever past its limit.
LimitInv ==
    policy.per_source_rate_limit => \A s \in Sources : Len(seen[s]) <= Limit

LEMMA PolicyStays ==
    ASSUME [Next]_vars
    PROVE  policy' = policy
BY DEF Next, Request, RegisterPatron, PlaceHold, ConfirmHold, ReadShow, RefuseRegistration,
       RefuseHold, RefuseConfirm, RefuseRead, Tick, ClockStepsBack, vars

LEMMA GateStep == PoolInv /\ GateInv /\ [HarnessNext]_harnessVars => GateInv'
<1> SUFFICES ASSUME PoolInv, GateInv, [HarnessNext]_harnessVars PROVE GateInv'
  OBVIOUS
<1>1. [Next]_vars
  BY PoolBase
<1>2. policy' = policy
  BY <1>1, PolicyStays
<1>3. Gated' <=> Gated
  BY <1>2 DEF Gated
<1>4. Cardinality(SelfService) \in Nat /\ spent \in Nat /\ issued \in Nat
  BY FS_Subset, FS_CardinalityType
     DEF PoolInv, HarnessInv, TypeOK, SelfService, ChallengeKnown
<1>5. ASSUME UNCHANGED <<patrons, challenge, challenges>> PROVE GateInv'
  BY <1>3, <1>5 DEF GateInv, SelfService, challenge
<1>6. ASSUME NEW i \in DOMAIN todo, PayChallenge(i) PROVE GateInv'
  <2>1. Challenge!Issue /\ challenges' = challenges + 1 /\ patrons' = patrons
    BY <1>6 DEF PayChallenge, vars, db
  <2>2. issued' = issued + 1 /\ spent' = spent
    BY <2>1 DEF Challenge!Issue
  <2>3. QED
    BY <1>3, <2>1, <2>2 DEF GateInv, SelfService
<1>7. ASSUME NEW i \in DOMAIN todo, Register(i) PROVE GateInv'
  <2>1. /\ challenges' = challenges
        /\ Challenge!Spend(todo[i].has) \/ UNCHANGED challenge
        /\ RegisterGranted(i) \/ RegisterRefused(i)
    BY <1>7, RegisterCases
  <2>2. ASSUME Challenge!Spend(todo[i].has) PROVE spent' = spent + 1 /\ issued' = issued
    BY <2>2, SpendKeeps DEF PoolInv
  <2>3. CASE RegisterRefused(i)
    <3>1. patrons' = patrons
      BY <2>3 DEF RegisterRefused, vars, db
    <3>2. spent' \in Nat /\ spent <= spent' /\ issued' = issued
      BY <1>4, <2>1, <2>2 DEF challenge
    <3>3. SelfService' = SelfService
      BY <3>1 DEF SelfService
    <3>4. QED
      BY <1>3, <1>4, <2>1, <3>2, <3>3 DEF GateInv
  <2>4. CASE RegisterGranted(i)
    <3> DEFINE ref == Offered[i]
               n == Cardinality(SelfService)
    <3>1. TypeOK /\ IdsNumbered /\ RegisterPatron(ref)
      BY <2>4 DEF PoolInv, HarnessInv, RegisterGranted
    <3>2. Cardinality(SelfService)' = n + 1
      <4> HIDE DEF ref
      <4>1. QED
        BY <3>1, RegisterNumbers
    <3>3. Gated => spent' = spent + 1
      BY <2>2, <2>4 DEF RegisterGranted
    <3>4. issued' = issued
      BY <2>1, <2>2 DEF challenge
    <3> HIDE DEF n
    <3>5. (Gated => n <= spent) /\ n \in Nat
      BY <1>4 DEF GateInv, n
    <3>6. Gated => n + 1 <= spent'
      BY <1>4, <3>3, <3>5
    <3>7. challenges' = issued'
      BY <2>1, <3>4 DEF GateInv
    <3>8. QED
      BY <1>3, <3>2, <3>6, <3>7 DEF GateInv
  <2>5. QED
    BY <2>1, <2>3, <2>4
<1>8. ASSUME NEW i \in DOMAIN todo, Hold(i) \/ Confirm(i) PROVE GateInv'
  <2>1. UNCHANGED <<challenge, challenges>>
    BY <1>8, HoldCases, ConfirmCases
  <2>2. patrons' = patrons
    BY <1>8, HoldBooks, ConfirmBooks DEF PoolInv
  <2>3. QED
    BY <1>5, <2>1, <2>2
<1>9. CASE BeginRound \/ BeginGenuineDemand \/ Reconcile \/ Elapse \/ UNCHANGED harnessVars
  <2>1. UNCHANGED <<challenge, challenges>>
    BY <1>9 DEF BeginRound, BeginGenuineDemand, Reconcile, Elapse, harness, harnessVars
  <2>2. patrons' = patrons
    BY <1>9, OtherBooks DEF PoolInv
  <2>3. QED
    BY <1>5, <2>1, <2>2
<1>10. QED
  BY <1>6, <1>7, <1>8, <1>9 DEF HarnessNext, HarnessStep, Finished

\* Pruning never lengthens a deque, so an admitted request leaves it within the limit.
LEMMA CountedLimit ==
    ASSUME PoolInv, LimitInv, NEW i \in DOMAIN todo, phase # "done", Counted(i),
           policy.per_source_rate_limit
    PROVE  \A s \in Sources : Len(seen'[s]) <= Limit
<1> DEFINE k == Source(i)
           p == Limiter!Pruned(k, now)
           w == seen[k]
<1>1. k \in Sources /\ seen \in [Sources -> Seq(0..MaxTime)]
  BY SourceKnown DEF PoolInv, SeenKnown
<1>2. w \in Seq(0..MaxTime) /\ Len(w) \in Nat /\ Len(w) <= Limit
  BY <1>1, LenProperties DEF LimitInv
<1>3. Limit \in Nat \ {0}
  BY HarnessAssumption
<1>4. p \in Seq(0..MaxTime) /\ Len(p) \in Nat /\ Len(p) <= Len(w)
  BY <1>2, PrunedStamps
<1>5. seen' = [seen EXCEPT ![k] = IF RateLimited(i) THEN p ELSE Append(p, now)]
  BY DEF Counted
<1>6. RateLimited(i) \/ Len(p) < Limit
  BY DEF RateLimited, Limiter!Allows
<1> HIDE DEF k, w, p
<1>7. Len(Append(p, now)) = Len(p) + 1
  <2>1. now \in 0..MaxTime
    BY DEF PoolInv, HarnessInv, TypeOK
  <2>2. QED
    BY <1>4, <2>1, AppendProperties
<1>8. Len(seen'[k]) <= Limit
  BY <1>1, <1>2, <1>3, <1>4, <1>5, <1>6, <1>7
<1>9. QED
  BY <1>1, <1>5, <1>8 DEF LimitInv

LEMMA LimitStep == PoolInv /\ LimitInv /\ [HarnessNext]_harnessVars => LimitInv'
<1> SUFFICES ASSUME PoolInv, LimitInv, [HarnessNext]_harnessVars PROVE LimitInv'
  OBVIOUS
<1>1. [Next]_vars
  BY PoolBase
<1>2. policy' = policy
  BY <1>1, PolicyStays
<1>3. ASSUME UNCHANGED seen PROVE LimitInv'
  BY <1>2, <1>3 DEF LimitInv
<1>4. ASSUME NEW i \in DOMAIN todo, phase # "done", Counted(i) PROVE LimitInv'
  BY <1>2, <1>4, CountedLimit DEF LimitInv
<1>5. ASSUME NEW i \in DOMAIN todo, PayChallenge(i) PROVE UNCHANGED seen
  BY <1>5 DEF PayChallenge
<1>6. ASSUME NEW i \in DOMAIN todo, Register(i) \/ Hold(i) \/ Confirm(i)
      PROVE  phase # "done" /\ (Counted(i) \/ UNCHANGED seen)
  BY <1>6, RegisterCases, HoldCases, ConfirmCases
<1>7. CASE BeginRound \/ BeginGenuineDemand \/ Reconcile \/ Elapse \/ UNCHANGED harnessVars
  BY <1>3, <1>7 DEF BeginRound, BeginGenuineDemand, Reconcile, Elapse, harnessVars
<1>8. QED
  BY <1>3, <1>4, <1>5, <1>6, <1>7 DEF HarnessNext, HarnessStep, Finished

\* Everybody that has a hold or a ticket is an identity of the operator's or one
\* of the public that was sent.
Customers == {Public[i] : i \in DOMAIN Public}
HoldersServed ==
    /\ \A h \in DOMAIN holds : holds[h].patron \in SelfService \cup Customers
    /\ \A t \in DOMAIN tickets : tickets[t].patron \in SelfService \cup Customers

LEMMA ServedStep == PoolInv /\ HoldersServed /\ [HarnessNext]_harnessVars => HoldersServed'
<1> SUFFICES ASSUME PoolInv, HoldersServed, [HarnessNext]_harnessVars PROVE HoldersServed'
  OBVIOUS
<1>1. TypeOK /\ LapseKeepsRows /\ Customers' = Customers
  BY PoolBase, LapsedRows DEF Customers, TypeOK
<1>2. patrons \subseteq patrons' => SelfService \subseteq SelfService'
  BY DEF SelfService
<1>3. ASSUME NEW i \in DOMAIN todo, phase \in {"operator", "genuine"}
      PROVE  Patron(i) \in SelfService \cup Customers
  BY <1>3, PatronKnown, PublicIsPrefix
     DEF Patron, Customers, ItemsOfPhase, PoolInv, HarnessInv
<1>4. ASSUME patrons \subseteq patrons', UNCHANGED <<holds, tickets>> PROVE HoldersServed'
  BY <1>1, <1>2, <1>4 DEF HoldersServed
<1>5. ASSUME NEW i \in DOMAIN todo, Register(i) PROVE HoldersServed'
  BY <1>4, <1>5, RegisterLeaves
<1>6. ASSUME NEW i \in DOMAIN todo, Hold(i) PROVE HoldersServed'
  <2> DEFINE p == Patron(i)
  <2>1. CASE HoldRefused(i)
    BY <1>4, <2>1 DEF HoldRefused, vars, db
  <2>2. CASE HoldGranted(i)
    <3>1. p \in patrons /\ \E show \in Shows : PlaceHold(p, show)
      BY <1>1, <2>2, AuthenticIsPatron DEF HoldGranted
    <3>2. p \in SelfService \cup Customers
      BY <1>3, <1>6, HoldCases
    <3> HIDE DEF p
    <3>3. PlacedRows(p) /\ UNCHANGED <<patrons, tickets>>
      BY <1>1, <3>1, PlaceHoldRows DEF PlaceHold
    <3>4. /\ DOMAIN holds = 1..Len(holds) /\ DOMAIN holds' = 1..(Len(holds) + 1)
          /\ \A h \in DOMAIN holds : holds'[h].patron = holds[h].patron
          /\ holds'[Len(holds) + 1].patron = p /\ Len(holds) \in Nat
      BY <1>1, <3>3 DEF PlacedRows, LapseKeepsRows, HoldRow
    <3>5. \A h \in DOMAIN holds' : h \in DOMAIN holds \/ h = Len(holds) + 1
      BY <3>4
    <3>6. QED
      BY <1>1, <1>2, <3>2, <3>3, <3>4, <3>5 DEF HoldersServed
  <2>3. QED
    BY <1>6, <2>1, <2>2, HoldCases
<1>7. ASSUME NEW i \in DOMAIN todo, Confirm(i) PROVE HoldersServed'
  <2> DEFINE p == Patron(i)
             k == todo[i].has
  <2>1. CASE ConfirmRefused(i)
    BY <1>4, <2>1 DEF ConfirmRefused, vars, db
  <2>2. CASE ConfirmGranted(i)
    <3>1. p \in patrons /\ ConfirmHold(p, k)
      BY <1>1, <2>2, AuthenticIsPatron DEF ConfirmGranted
    <3>2. p \in SelfService \cup Customers
      BY <1>3, <1>7, ConfirmCases
    <3> HIDE DEF p, k
    <3>3. ConfirmedRows(p, k) /\ patrons' = patrons
      BY <1>1, <3>1, ConfirmHoldRows DEF ConfirmHold
    <3>4. /\ DOMAIN holds' = DOMAIN holds
          /\ \A h \in DOMAIN holds : holds'[h].patron = holds[h].patron
          /\ DOMAIN tickets = 1..Len(tickets) /\ DOMAIN tickets' = 1..(Len(tickets) + 1)
          /\ \A t \in DOMAIN tickets : tickets'[t] = tickets[t]
          /\ tickets'[Len(tickets) + 1].patron = p /\ Len(tickets) \in Nat
      BY <3>3 DEF ConfirmedRows
    <3>5. \A t \in DOMAIN tickets' : t \in DOMAIN tickets \/ t = Len(tickets) + 1
      BY <3>4
    <3>6. QED
      BY <1>1, <1>2, <3>2, <3>3, <3>4, <3>5 DEF HoldersServed
  <2>3. QED
    BY <1>7, <2>1, <2>2, ConfirmCases
<1>8. ASSUME \/ \E i \in DOMAIN todo : PayChallenge(i)
             \/ BeginRound \/ BeginGenuineDemand \/ Elapse \/ UNCHANGED harnessVars
      PROVE  HoldersServed'
  <2>1. UNCHANGED <<patrons, holds, tickets>>
    BY <1>8 DEF PayChallenge, BeginRound, BeginGenuineDemand, Elapse, Tick, harnessVars, vars, db
  <2>2. QED
    BY <1>4, <2>1
<1>9. CASE Reconcile
  <2>1. holds' = Lapsed /\ UNCHANGED <<patrons, tickets>>
    BY <1>9 DEF Reconcile, ReadShow
  <2>2. QED
    BY <1>1, <1>2, <2>1 DEF HoldersServed, LapseKeepsRows
<1>10. QED
  BY <1>5, <1>6, <1>7, <1>8, <1>9 DEF HarnessNext, HarnessStep, Finished

LEMMA GreatestBounded ==
    ASSUME NEW S \in SUBSET Nat, S # {}, NEW B \in Nat, \A x \in S : x <= B
    PROVE  Max(S) \in S /\ Max(S) <= B /\ \A x \in S : x <= Max(S)
<1> DEFINE D == {B - x : x \in S}
<1>1. D \in SUBSET Nat /\ D # {}
  <2>1. \A x \in S : B - x \in Nat
    OBVIOUS
  <2>2. D \subseteq Nat
    BY <2>1
  <2>3. PICK x : x \in S
    OBVIOUS
  <2>4. B - x \in D
    BY <2>3
  <2>5. QED
    BY <2>2, <2>4
<1>2. PICK d \in D : \A e \in D : d <= e
  <2> HIDE DEF D
  <2>1. QED
    BY <1>1, LeastExists
<1>3. PICK x \in S : d = B - x
  BY <1>2
<1>4. \A y \in S : B - x <= B - y
  BY <1>2, <1>3
<1>5. \A y \in S : x >= y
  BY <1>4
<1>6. Max(S) \in S /\ \A y \in S : Max(S) >= y
  BY <1>3, <1>5 DEF Max
<1>7. QED
  BY <1>6

\* The most that anybody may come to hold.
MostEach ==
    IF HouseholdPatron \in Customers THEN HouseholdEntitlement ELSE SeatQuotaDefault

LEMMA LedgerQuota ==
    ASSUME PoolInv, OwnCharges, HoldersServed, SeatQuota,
           SeatQuotaDefault <= HouseholdEntitlement
    PROVE  build_ledger(Lapsed).max_seats_per_identity <= MostEach
<1> DEFINE g == [p \in patrons |-> Holding(Lapsed, p)]
           S == {0} \cup {g[p] : p \in Holders(Lapsed)}
<1>1. build_ledger(Lapsed).max_seats_per_identity = Max(S)
  BY DEF build_ledger
<1>2. MostEach \in Nat
  BY SettingsAssumption DEF MostEach
<1>3. TypeOK /\ LapseKeepsRows
  BY LapsedRows DEF PoolInv, HarnessInv, TypeOK
<1>4. ASSUME NEW p \in Holders(Lapsed)
      PROVE  g[p] \in Nat /\ g[p] <= MostEach
  <2>1. p \in patrons /\ Holding(Lapsed, p) > 0 /\ p \in PatronIds
    BY <1>3 DEF Holders, TypeOK
  <2>2. KeptFor(Held(p), Ticketed(p), Expired(p), Placed(p), SeatEntitlement(p))
    BY <2>1 DEF OwnCharges
  <2>3. PICK d \in 0..Held(p) : Cardinality(HoldsOf(Lapsed, p, "held")) = Held(p) - d
    BY <1>3, LapseCounts
  <2>4. Held(p) \in Nat /\ Ticketed(p) \in Nat /\ Held(p) + Ticketed(p) <= SeatEntitlement(p)
        /\ SeatEntitlement(p) \in Nat
    BY <1>3, <2>2, CountTypes, KeptClaims, EntitlementType
  <2>5. Holding(Lapsed, p) = Held(p) - d + Ticketed(p)
    BY <2>3 DEF Holding, Ticketed
  <2>6. p = HouseholdPatron => p \in Customers
    <3>1. HoldsOf(Lapsed, p, "held") # {} \/ TicketsOf(p) # {}
      BY <2>1, FS_EmptySet DEF Holding
    <3>2. \/ \E h \in DOMAIN Lapsed : Lapsed[h].patron = p
          \/ \E t \in DOMAIN tickets : tickets[t].patron = p
      BY <3>1 DEF HoldsOf, TicketsOf
    <3>3. p \in SelfService \cup Customers
      BY <1>3, <3>2 DEF HoldersServed, LapseKeepsRows
    <3>4. QED
      BY <3>3, PatronsAssumption DEF SelfService
  <2>7. SeatEntitlement(p) <= MostEach
    <3>1. SeatQuotaDefault \in Nat /\ HouseholdEntitlement \in Nat
      BY SettingsAssumption
    <3>2. QED
      BY <2>6, <3>1 DEF SeatEntitlement, MostEach
  <2>8. g[p] = Holding(Lapsed, p)
    BY <2>1
  <2> HIDE DEF g
  <2>9. QED
    BY <1>2, <2>4, <2>5, <2>7, <2>8
<1>5. S \in SUBSET Nat /\ S # {} /\ \A x \in S : x <= MostEach
  <2> HIDE DEF g
  <2>1. QED
    BY <1>2, <1>4
<1> HIDE DEF S
<1>6. QED
  BY <1>1, <1>2, <1>5, GreatestBounded

QuotaInv ==
    phase = "done" /\ SeatQuota => ledger.max_seats_per_identity <= MostEach

LEMMA QuotaLedgerStep ==
    ASSUME PoolInv, OwnCharges, HoldersServed, QuotaInv, [HarnessNext]_harnessVars,
           SeatQuotaDefault <= HouseholdEntitlement
    PROVE  QuotaInv'
<1>1. [Next]_vars /\ Public' = Public
  BY PoolBase
<1>2. (SeatQuota' <=> SeatQuota) /\ MostEach' = MostEach
  BY <1>1, PolicyKept DEF MostEach, Customers
<1>3. CASE phase' # "done"
  BY <1>3 DEF QuotaInv
<1>4. CASE phase = "done"
  BY <1>2, <1>4, LedgerStands DEF QuotaInv
<1>5. CASE Reconcile /\ ledger' = build_ledger(Lapsed)
  <2>1. SeatQuota => build_ledger(Lapsed).max_seats_per_identity <= MostEach
    BY LedgerQuota
  <2>2. QED
    BY <1>2, <1>5, <2>1 DEF QuotaInv
<1>6. QED
  BY <1>3, <1>4, <1>5, LedgerBuilt

\* Each control holds perfectly, for every configuration and interleaving of
\* every row: the gate was passed once for each registration it let through, no
\* source exceeded its limit, and under the quota nobody has more seats than the
\* best entitled of those that came (settings.py gives the household more, as the
\* hypothesis says; test_half_fixes.py, "the limit must hold perfectly").
THEOREM ControlsAreHeld ==
    SeatQuotaDefault <= HouseholdEntitlement => (HarnessSpec => []ControlsHeldPerfectly)
<1> SUFFICES ASSUME SeatQuotaDefault <= HouseholdEntitlement
             PROVE  HarnessSpec => []ControlsHeldPerfectly
  OBVIOUS
<1>1. HarnessInit => GateInv /\ LimitInv /\ HoldersServed /\ QuotaInv
  <2> SUFFICES ASSUME HarnessInit PROVE GateInv /\ LimitInv /\ HoldersServed /\ QuotaInv
    OBVIOUS
  <2>1. SelfService = {} /\ DOMAIN holds = {} /\ DOMAIN tickets = {}
    BY DEF HarnessInit, Init, SelfService
  <2>2. spent = 0 /\ issued = 0 /\ challenges = 0 /\ phase = "register"
        /\ seen = [s \in Sources |-> << >>]
    BY DEF HarnessInit, Challenge!ChallengeInit
  <2>3. Limit \in Nat
    BY HarnessAssumption
  <2>4. QED
    BY <2>1, <2>2, <2>3, FS_EmptySet DEF GateInv, LimitInv, HoldersServed, QuotaInv
<1>2. PoolInv /\ OwnCharges /\ HoldersServed /\ QuotaInv /\ [HarnessNext]_harnessVars
        => QuotaInv'
  BY QuotaLedgerStep
<1>3. PoolInv /\ RecordsMatchVenue /\ GateInv /\ LimitInv /\ QuotaInv
        => ControlsHeldPerfectly
  <2> SUFFICES ASSUME PoolInv, RecordsMatchVenue, GateInv, LimitInv, QuotaInv, phase = "done"
               PROVE  /\ Gated => Granted("operator", "register") <= spent
                      /\ challenges = issued /\ spent <= issued
                      /\ policy.per_source_rate_limit =>
                            \A s \in Sources : Len(seen[s]) <= Limit
                      /\ SeatQuota => ledger.max_seats_per_identity <= MostEach
    BY DEF ControlsHeldPerfectly, MostEach, Customers
  <2>1. Gated => Granted("operator", "register") <= spent
    BY DEF RecordsMatchVenue, GateInv
  <2>2. challenges = issued
    BY DEF GateInv
  <2>3. spent <= issued
    <3>1. issued \in Nat /\ spent \in Nat /\ spent + Cardinality(unspent) = issued
          /\ unspent \subseteq 1..issued
      BY DEF PoolInv, ChallengeKnown
    <3>2. Cardinality(unspent) \in Nat
      BY <3>1, RowSetsFinite
    <3>3. QED
      BY <3>1, <3>2
  <2>4. QED
    BY <2>1, <2>2, <2>3 DEF LimitInv, QuotaInv
<1>4. QED
  BY <1>1, <1>2, <1>3, GateStep, LimitStep, ServedStep, PoolAlwaysKept, ChargesAlwaysKept,
     RecordsAreTheVenues, PTL DEF HarnessSpec

-----------------------------------------------------------------------------
(* No hold is left behind. *)

\* How many requests were turned away before they reached a transaction, and how
\* many confirmations the flow refused.
TurnedAway(B) ==
    CountIn(B, Actors, Steps, INDIVIDUALLY_INVALID)
        + CountIn(B, Actors, Steps, {"refused_by_rate_limit"})
Late(B) == CountIn(B, Actors, {"confirm"}, {"refused_by_flow_limit"})

LEMMA AnswerCounts ==
    ASSUME PoolInv, NEW i, NEW step \in Steps, NEW status \in Statuses,
           records' = OneMore(records, Key(Actor, step, status, Source(i)))
    PROVE  /\ TurnedAway(records) \in Nat /\ Late(records) \in Nat
           /\ TurnedAway(records')
                = TurnedAway(records) + IF status \in {401, 403, 429} THEN 1 ELSE 0
           /\ Late(records')
                = Late(records) + IF step = "confirm" /\ status = 409 THEN 1 ELSE 0
<1> DEFINE k == Key(Actor, step, status, Source(i))
           invalid(B) == CountIn(B, Actors, Steps, INDIVIDUALLY_INVALID)
           limited(B) == CountIn(B, Actors, Steps, {"refused_by_rate_limit"})
           late(B) == CountIn(B, Actors, {"confirm"}, {"refused_by_flow_limit"})
<1>1. k.actor \in Actors /\ k.step = step /\ k.status = status
  BY DEF Key, Actor, Actors
<1>2. records \in [DOMAIN records -> Nat \ {0}] /\ IsFiniteSet(DOMAIN records)
  BY DEF PoolInv, RecordsKnown
<1>3. records' = OneMore(records, k)
  OBVIOUS
<1> HIDE DEF k
<1>4. /\ invalid(records) \in Nat
      /\ invalid(records')
           = invalid(records) + IF classify(status) \in INDIVIDUALLY_INVALID THEN 1 ELSE 0
  BY <1>1, <1>2, <1>3, OneMoreCount
<1>5. /\ limited(records) \in Nat
      /\ limited(records')
           = limited(records) + IF classify(status) = "refused_by_rate_limit" THEN 1 ELSE 0
  BY <1>1, <1>2, <1>3, OneMoreCount
<1>6. /\ late(records) \in Nat
      /\ late(records')
           = late(records)
               + IF step = "confirm" /\ classify(status) = "refused_by_flow_limit"
                 THEN 1 ELSE 0
  BY <1>1, <1>2, <1>3, OneMoreCount
<1>7. /\ classify(status) \in INDIVIDUALLY_INVALID <=> status \in {401, 403}
      /\ classify(status) = "refused_by_rate_limit" <=> status = 429
      /\ classify(status) = "refused_by_flow_limit" <=> status = 409
  BY DEF Statuses, classify, INDIVIDUALLY_INVALID
<1>8. /\ TurnedAway(records) = invalid(records) + limited(records)
      /\ TurnedAway(records') = invalid(records') + limited(records')
      /\ Late(records) = late(records) /\ Late(records') = late(records')
  BY DEF TurnedAway, Late
<1> HIDE DEF invalid, limited, late
<1>9. QED
  BY <1>4, <1>5, <1>6, <1>7, <1>8

\* A refused confirmation was turned away, or the flow refused it.
LEMMA ConfirmRefusals ==
    ASSUME NEW i, Confirm(i)
    PROVE  \/ ConfirmGranted(i)
           \/ /\ UNCHANGED vars
              /\ \/ Answered(i, "confirm", {401, 429})
                 \/ /\ RefuseConfirm(Patron(i), todo[i].has)
                    /\ Answered(i, "confirm", {409})
<1> DEFINE p == Patron(i)
           h == todo[i].has
<1>1. \/ UNCHANGED vars /\ Recorded(i, "confirm", 401)
      \/ UNCHANGED vars /\ Recorded(i, "confirm", 429)
      \/ Authentic(p) /\ ConfirmHold(p, h) /\ Recorded(i, "confirm", 201)
      \/ RefuseConfirm(p, h) /\ Recorded(i, "confirm", 409)
  BY DEF Confirm
<1>2. Authentic(p) /\ ConfirmHold(p, h) /\ Answered(i, "confirm", {201}) => ConfirmGranted(i)
  BY DEF ConfirmGranted
<1>3. /\ Recorded(i, "confirm", 201) => Answered(i, "confirm", {201})
      /\ Recorded(i, "confirm", 401) => Answered(i, "confirm", {401, 429})
      /\ Recorded(i, "confirm", 409) => Answered(i, "confirm", {409})
      /\ Recorded(i, "confirm", 429) => Answered(i, "confirm", {401, 429})
  BY RecordedAnswer
<1>4. RefuseConfirm(p, h) => UNCHANGED vars
  BY DEF RefuseConfirm
<1>5. \/ ConfirmGranted(i)
      \/ UNCHANGED vars /\ Answered(i, "confirm", {401, 429})
      \/ UNCHANGED vars /\ RefuseConfirm(p, h) /\ Answered(i, "confirm", {409})
  <2> HIDE DEF p, h
  <2>1. QED
    BY <1>1, <1>2, <1>3, <1>4
<1>6. QED
  BY <1>5

\* The items that wait for the confirmation of a hold.
Waiting == IF phase = "register" THEN {} ELSE {i \in DOMAIN todo : todo[i].has # 0}

\* An item that is worked off waits for nothing.
WorkedOff == \A i \in DOMAIN todo : todo[i].left = 0 => todo[i].has = 0

\* As long as nothing was turned away every hold is a ticket, was refused its
\* confirmation, or is waited for, and of the live ones each is waited for.
Settled ==
    config.mode = "acquire" /\ TurnedAway(records) = 0 =>
        /\ Len(holds) = Len(tickets) + Late(records) + Cardinality(Waiting)
        /\ \A h \in DOMAIN holds :
              holds[h].state = "held" /\ ~Due(h) => \E i \in Waiting : todo[i].has = h

LEMMA WaitingFinite == ASSUME PoolInv PROVE IsFiniteSet(Waiting) /\ Cardinality(Waiting) \in Nat
<1>1. CASE phase = "register"
  BY <1>1, FS_EmptySet DEF Waiting
<1>2. CASE phase # "register"
  <2>1. PICK n \in Nat : DOMAIN todo = 1..n
    <3>1. Cardinality(SelfService) \in Nat
      BY FS_Subset, FS_CardinalityType DEF PoolInv, HarnessInv, TypeOK, SelfService
    <3>2. Len(Public) \in Nat
      BY PublicIsPrefix DEF PoolInv, HarnessInv
    <3>3. QED
      BY <1>2, <3>1, <3>2 DEF PoolInv, ItemsOfPhase, PhaseKnown
  <2>2. Waiting \in SUBSET (1..n)
    BY <1>2, <2>1 DEF Waiting
  <2>3. QED
    BY <2>2, RowSetsFinite
<1>3. QED
  BY <1>1, <1>2

LEMMA NoneWaiting ==
    ASSUME PoolInv, WorkedOff, phase # "register", Unfinished = {}
    PROVE  Waiting = {}
<1>1. \A i \in DOMAIN todo : todo[i].left \in Nat /\ ~(todo[i].left > 0)
  BY DEF Unfinished, PoolInv, TodoKnown, ItemRows
<1>2. QED
  BY <1>1 DEF WorkedOff, Waiting

LEMMA WorkedOffStep == PoolInv /\ WorkedOff /\ [HarnessNext]_harnessVars => WorkedOff'
<1> SUFFICES ASSUME PoolInv, WorkedOff, [HarnessNext]_harnessVars PROVE WorkedOff'
  OBVIOUS
<1>1. ASSUME NEW i \in InWork, NEW granted, Ends(i, granted) PROVE WorkedOff'
  BY <1>1, EndsItems DEF WorkedOff
<1>2. ASSUME NEW i \in InWork, NEW h \in Nat, Awaits(i, h) PROVE WorkedOff'
  <2>1. h \in 0..h
    OBVIOUS
  <2>2. /\ DOMAIN todo' = DOMAIN todo /\ i \in DOMAIN todo /\ todo'[i].left = todo[i].left
        /\ \A j \in DOMAIN todo : j # i => todo'[j] = todo[j]
    BY <1>2, <2>1, AwaitsItems
  <2>3. todo[i].left > 0
    BY DEF InWork, Unfinished
  <2>4. QED
    BY <2>2, <2>3 DEF WorkedOff
<1>3. ASSUME NEW i \in DOMAIN todo, PayChallenge(i) PROVE WorkedOff'
  <2> DEFINE h == issued'
  <2>1. i \in InWork /\ Challenge!Issue /\ Awaits(i, h)
    BY <1>3 DEF PayChallenge
  <2>2. h \in Nat
    BY <2>1, IssueKeeps DEF PoolInv, ChallengeKnown
  <2> HIDE DEF h
  <2>3. QED
    BY <1>2, <2>1, <2>2
<1>4. ASSUME NEW i \in DOMAIN todo, Register(i) PROVE WorkedOff'
  BY <1>1, <1>4, RegisterCases
<1>5. ASSUME NEW i \in DOMAIN todo, Hold(i) PROVE WorkedOff'
  <2>1. i \in InWork /\ (HoldGranted(i) \/ HoldRefused(i))
    BY <1>5, HoldCases
  <2>2. CASE HoldRefused(i)
    BY <1>1, <2>1, <2>2 DEF HoldRefused
  <2>3. CASE HoldGranted(i)
    <3> DEFINE h == Len(holds')
    <3>1. h \in Nat
      BY PoolBase
    <3>2. Ends(i, TRUE) \/ Awaits(i, h)
      BY <2>3 DEF HoldGranted
    <3> HIDE DEF h
    <3>3. QED
      BY <1>1, <1>2, <2>1, <3>1, <3>2
  <2>4. QED
    BY <2>1, <2>2, <2>3
<1>6. ASSUME NEW i \in DOMAIN todo, Confirm(i) PROVE WorkedOff'
  BY <1>1, <1>6, ConfirmCases
<1>7. CASE BeginRound \/ BeginGenuineDemand
  BY <1>7, ItemsWait DEF WorkedOff
<1>8. CASE Reconcile \/ Elapse \/ UNCHANGED harnessVars
  BY <1>8 DEF Reconcile, Elapse, harness, harnessVars, WorkedOff
<1>9. QED
  BY <1>3, <1>4, <1>5, <1>6, <1>7, <1>8 DEF HarnessNext, HarnessStep, Finished

LEMMA SettledHold ==
    ASSUME PoolInv, Settled, [HarnessNext]_harnessVars, NEW i \in DOMAIN todo, Hold(i)
    PROVE  Settled'
<1>1. /\ phase \in {"operator", "genuine"} /\ i \in InWork /\ todo[i].has = 0
      /\ config' = config /\ phase' = phase /\ (HoldGranted(i) \/ HoldRefused(i))
  BY HoldCases
<1>2. TypeOK /\ LapseKeepsRows
  BY LapsedRows DEF PoolInv, HarnessInv, TypeOK
<1>3. PICK status \in {201, 401, 409, 429} :
         records' = OneMore(records, Key(Actor, "hold", status, Source(i)))
  <2>1. Answered(i, "hold", {201}) \/ Answered(i, "hold", {401, 409, 429})
    BY <1>1 DEF HoldGranted, HoldRefused
  <2>2. QED
    BY <2>1 DEF Answered
<1>4. /\ TurnedAway(records) \in Nat /\ Late(records) \in Nat
      /\ TurnedAway(records') = 0 => TurnedAway(records) = 0
      /\ Late(records') = Late(records)
  <2>1. status \in Statuses /\ "hold" \in Steps
    BY DEF Statuses, Steps
  <2>2. QED
    BY <1>3, <2>1, AnswerCounts
<1> SUFFICES ASSUME config.mode = "acquire", TurnedAway(records) = 0
             PROVE  /\ Len(holds') = Len(tickets') + Late(records') + Cardinality(Waiting')
                    /\ \A h \in DOMAIN holds' :
                          holds'[h].state = "held" /\ ~Due(h)' =>
                              \E j \in Waiting' : todo'[j].has = h
  BY <1>1, <1>4 DEF Settled
<1>5. /\ Len(holds) = Len(tickets) + Late(records) + Cardinality(Waiting)
      /\ \A h \in DOMAIN holds :
            holds[h].state = "held" /\ ~Due(h) => \E j \in Waiting : todo[j].has = h
  BY DEF Settled
<1>6. CASE HoldRefused(i)
  <2>1. UNCHANGED vars /\ Ends(i, FALSE)
    BY <1>6 DEF HoldRefused
  <2>2. /\ DOMAIN todo' = DOMAIN todo
        /\ \A j \in DOMAIN todo : todo'[j].has = todo[j].has
    <3>1. Ends(i, FALSE)
      BY <2>1
    <3>2. PICK granted : Ends(i, granted)
      BY <3>1, Zenon
    <3>3. /\ DOMAIN todo' = DOMAIN todo /\ todo'[i].has = 0
          /\ \A j \in DOMAIN todo : j # i => todo'[j].has = todo[j].has
      BY <1>1, <3>2, EndsItems
    <3>4. QED
      BY <1>1, <3>3
  <2>3. Waiting' = Waiting
    <3>1. /\ Waiting = {j \in DOMAIN todo : todo[j].has # 0}
          /\ Waiting' = {j \in DOMAIN todo' : todo'[j].has # 0}
      BY <1>1 DEF Waiting
    <3>2. QED
      BY <2>2, <3>1
  <2>4. UNCHANGED <<holds, tickets, now>>
    BY <2>1 DEF vars, db
  <2>5. \A h : Due(h)' <=> Due(h)
    BY <2>4 DEF Due
  <2>6. \A j \in Waiting : todo'[j].has = todo[j].has
    BY <2>2 DEF Waiting
  <2>7. QED
    BY <1>4, <1>5, <2>3, <2>4, <2>5, <2>6
<1>7. CASE HoldGranted(i)
  <2> DEFINE p == Patron(i)
             n == Len(holds')
  <2>1. p \in patrons /\ (\E show \in Shows : PlaceHold(p, show))
    BY <1>2, <1>7, AuthenticIsPatron DEF HoldGranted
  <2>2. Awaits(i, n)
    BY <1>7 DEF HoldGranted, WalksAway
  <2>3. n \in Nat /\ n \in 0..n /\ Len(holds) \in Nat /\ DOMAIN holds = 1..Len(holds)
    BY <1>2, PoolBase DEF LapseKeepsRows
  <2> HIDE DEF p
  <2>4. /\ PlacedRows(p) /\ tickets' = tickets /\ now' = now
    BY <1>2, <2>1, PlaceHoldRows DEF PlaceHold
  <2>5. n = Len(holds) + 1
    <3>1. holds' \in Seq(HoldRows)
      BY PoolBase DEF TypeOK
    <3>2. 1..n = 1..(Len(holds) + 1)
      BY <2>4, <3>1, LenProperties DEF PlacedRows
    <3>3. Cardinality(1..n) = n /\ Cardinality(1..(Len(holds) + 1)) = Len(holds) + 1
      BY <2>3, CardinalityUpTo
    <3>4. QED
      BY <3>2, <3>3
  <2>6. /\ DOMAIN holds' = DOMAIN holds \cup {n} /\ n # 0
        /\ \A h \in DOMAIN holds : holds'[h] = Lapsed[h]
    <3> HIDE DEF n
    <3>1. QED
      BY <2>3, <2>4, <2>5 DEF PlacedRows
  <2> HIDE DEF n
  <2>7. /\ DOMAIN todo' = DOMAIN todo /\ todo'[i].has = n
        /\ \A j \in DOMAIN todo : j # i => todo'[j] = todo[j]
    BY <1>1, <2>2, <2>3, AwaitsItems
  <2>8. Waiting' = Waiting \cup {i} /\ i \notin Waiting
        /\ \A j \in Waiting : todo'[j] = todo[j]
    BY <1>1, <2>6, <2>7 DEF Waiting
  <2>9. Cardinality(Waiting') = Cardinality(Waiting) + 1 /\ Cardinality(Waiting) \in Nat
    <3>1. IsFiniteSet(Waiting) /\ Cardinality(Waiting) \in Nat
      BY WaitingFinite
    <3>2. \A S, x : IsFiniteSet(S) /\ x \notin S => Cardinality(S \cup {x}) = Cardinality(S) + 1
      BY FS_AddElement
    <3>3. Cardinality(Waiting \cup {i}) = Cardinality(Waiting) + 1
      BY <2>8, <3>1, <3>2
    <3>4. QED
      BY <2>8, <3>1, <3>3
  <2>10. ASSUME NEW h \in DOMAIN holds', holds'[h].state = "held"
         PROVE  \E j \in Waiting' : todo'[j].has = h
    <3>1. CASE h = n
      BY <2>7, <2>8, <3>1
    <3>2. CASE h \in DOMAIN holds
      <4>1. holds[h].state = "held" /\ ~Due(h)
        BY <1>2, <2>6, <2>10, <3>2 DEF LapseKeepsRows
      <4>2. PICK j \in Waiting : todo[j].has = h
        BY <1>5, <3>2, <4>1
      <4>3. QED
        BY <2>8, <4>2
    <3>3. QED
      BY <2>6, <3>1, <3>2
  <2>11. Len(tickets) \in Nat
    BY <1>2, LenProperties DEF TypeOK
  <2>12. Len(holds') = Len(tickets') + Late(records') + Cardinality(Waiting')
    BY <1>4, <1>5, <2>3, <2>4, <2>5, <2>9, <2>11 DEF n
  <2>13. QED
    BY <2>10, <2>12
<1>8. QED
  BY <1>1, <1>6, <1>7

LEMMA SettledConfirm ==
    ASSUME PoolInv, OwnHolds, FlowConsistent, Settled, [HarnessNext]_harnessVars,
           NEW i \in DOMAIN todo, Confirm(i)
    PROVE  Settled'
<1> DEFINE p == Patron(i)
           h == todo[i].has
<1>1. /\ phase \in {"operator", "genuine"} /\ i \in InWork /\ h # 0
      /\ config' = config /\ phase' = phase
      /\ \E granted : Ends(i, granted)
  BY ConfirmCases
<1>2. TypeOK /\ LapseKeepsRows /\ Len(holds) \in Nat /\ Len(tickets) \in Nat
  BY LapsedRows, LenProperties DEF PoolInv, HarnessInv, TypeOK
<1>3. /\ DOMAIN todo' = DOMAIN todo /\ todo'[i].has = 0
      /\ \A j \in DOMAIN todo : j # i => todo'[j].has = todo[j].has
  <2>1. PICK granted : Ends(i, granted)
    BY <1>1
  <2>2. QED
    BY <1>1, <2>1, EndsItems
<1>4. Waiting' = Waiting \ {i} /\ i \in Waiting
      /\ \A j \in Waiting' : todo'[j].has = todo[j].has
  <2>1. /\ Waiting = {j \in DOMAIN todo : todo[j].has # 0}
        /\ Waiting' = {j \in DOMAIN todo' : todo'[j].has # 0}
    BY <1>1 DEF Waiting
  <2>2. QED
    BY <1>1, <1>3, <2>1
<1>5. Cardinality(Waiting') = Cardinality(Waiting) - 1 /\ Cardinality(Waiting) \in Nat
      /\ Cardinality(Waiting') \in Nat
  <2>1. IsFiniteSet(Waiting) /\ Cardinality(Waiting) \in Nat
    BY WaitingFinite
  <2>2. IsFiniteSet(Waiting \ {i}) /\ Cardinality(Waiting \ {i}) = Cardinality(Waiting) - 1
    BY <1>4, <2>1, FS_RemoveElement
  <2>3. Cardinality(Waiting \ {i}) \in Nat
    BY <2>2, FS_CardinalityType
  <2>4. QED
    BY <1>4, <2>1, <2>2, <2>3
<1>6. h \in DOMAIN holds /\ holds[h].patron = p
  BY <1>1 DEF OwnHolds
<1>7. ASSUME NEW statuses \in SUBSET Statuses, Answered(i, "confirm", statuses)
      PROVE  \E status \in statuses :
                /\ TurnedAway(records) \in Nat /\ Late(records) \in Nat
                /\ TurnedAway(records')
                     = TurnedAway(records) + IF status \in {401, 403, 429} THEN 1 ELSE 0
                /\ Late(records') = Late(records) + IF status = 409 THEN 1 ELSE 0
  <2>1. PICK status \in statuses :
           records' = OneMore(records, Key(Actor, "confirm", status, Source(i)))
    BY <1>7 DEF Answered
  <2>2. status \in Statuses /\ "confirm" \in Steps
    BY DEF Steps
  <2>3. QED
    BY <2>1, <2>2, AnswerCounts
<1>8. {201} \in SUBSET Statuses /\ {401, 429} \in SUBSET Statuses /\ {409} \in SUBSET Statuses
  BY DEF Statuses
<1>9. CASE Answered(i, "confirm", {401, 429})
  <2>1. TurnedAway(records') # 0
    BY <1>7, <1>8, <1>9
  <2>2. QED
    BY <2>1 DEF Settled
<1>10. CASE ConfirmGranted(i)
  <2>1. /\ TurnedAway(records) \in Nat /\ Late(records) \in Nat
        /\ TurnedAway(records') = TurnedAway(records) /\ Late(records') = Late(records)
    <3>1. Answered(i, "confirm", {201})
      BY <1>10 DEF ConfirmGranted
    <3>2. QED
      BY <1>7, <1>8, <3>1
  <2>2. p \in patrons /\ ConfirmHold(p, h)
    BY <1>2, <1>10, AuthenticIsPatron DEF ConfirmGranted
  <2>3. Len(tickets') = Len(tickets) + 1 /\ now' = now
    BY <1>2, <2>2 DEF ConfirmHold, TypeOK
  <2> HIDE DEF p, h
  <2>4. ConfirmedRows(p, h) /\ Len(holds') = Len(holds)
    <3>1. ConfirmedRows(p, h)
      BY <1>2, <2>2, ConfirmHoldRows
    <3>2. holds' \in Seq(HoldRows) /\ Len(holds') \in Nat
      BY PoolBase DEF TypeOK
    <3>3. 1..Len(holds') = 1..Len(holds)
      BY <1>2, <3>1, <3>2, LenProperties DEF ConfirmedRows, LapseKeepsRows
    <3>4. Cardinality(1..Len(holds')) = Len(holds') /\ Cardinality(1..Len(holds)) = Len(holds)
      BY <1>2, <3>2, CardinalityUpTo
    <3>5. QED
      BY <3>1, <3>3, <3>4
  <2>5. ASSUME config.mode = "acquire", TurnedAway(records) = 0,
               NEW k \in DOMAIN holds', holds'[k].state = "held"
        PROVE  \E j \in Waiting' : todo'[j].has = k
    <3>1. k \in DOMAIN holds /\ k # h /\ holds[k].state = "held" /\ ~Due(k)
      BY <1>2, <2>4, <2>5 DEF ConfirmedRows, LapseKeepsRows
    <3>2. PICK j \in Waiting : todo[j].has = k
      BY <2>5, <3>1 DEF Settled
    <3>3. j # i
      BY <3>1, <3>2 DEF h
    <3>4. QED
      BY <1>4, <3>2, <3>3
  <2>6. QED
    BY <1>1, <1>2, <1>5, <2>1, <2>3, <2>4, <2>5 DEF Settled
<1>11. CASE UNCHANGED vars /\ RefuseConfirm(p, h) /\ Answered(i, "confirm", {409})
  <2>1. /\ TurnedAway(records) \in Nat /\ Late(records) \in Nat
        /\ TurnedAway(records') = TurnedAway(records) /\ Late(records') = Late(records) + 1
    BY <1>7, <1>8, <1>11
  <2>2. UNCHANGED <<holds, tickets, now>>
    BY <1>11 DEF vars, db
  <2>3. ~(holds[h].state = "held" /\ ~Due(h))
    <3>1. ~ConfirmAdmitted(Lapsed, p, h)
      BY <1>11 DEF RefuseConfirm
    <3> HIDE DEF p, h
    <3>2. DOMAIN flows = DOMAIN holds
      BY <1>2, LenProperties DEF TypeOK
    <3>3. /\ flows[h].patron = p /\ flows[h].step \in {"held", "confirmed"}
          /\ holds[h].state = "held" => flows[h].step # "confirmed"
      <4>1. flows[h] \in FlowRows
        BY <1>2, <1>6, <3>2, LenProperties, ElementOfSeq DEF TypeOK
      <4>2. flows[h].step \in {"held", "confirmed"}
        BY <4>1 DEF FlowRows
      <4>3. flows[h].patron = holds[h].patron /\ holds[h].patron = p
        BY <1>6 DEF FlowConsistent
      <4>4. holds[h].state = "confirmed" <=> flows[h].step = "confirmed"
        BY <1>6 DEF FlowConsistent
      <4>5. QED
        BY <4>2, <4>3, <4>4
    <3>4. QED
      BY <1>2, <1>6, <3>1, <3>2, <3>3 DEF ConfirmAdmitted, LapseKeepsRows
  <2>4. \A k : Due(k)' <=> Due(k)
    BY <2>2 DEF Due
  <2>5. ASSUME config.mode = "acquire", TurnedAway(records) = 0,
               NEW k \in DOMAIN holds', holds'[k].state = "held", ~Due(k)'
        PROVE  \E j \in Waiting' : todo'[j].has = k
    <3>1. k \in DOMAIN holds /\ holds[k].state = "held" /\ ~Due(k)
      BY <2>2, <2>4, <2>5
    <3>2. PICK j \in Waiting : todo[j].has = k
      BY <2>5, <3>1 DEF Settled
    <3>3. j # i
      BY <2>3, <3>1, <3>2
    <3>4. QED
      BY <1>4, <3>2, <3>3
  <2>6. QED
    BY <1>1, <1>2, <1>5, <2>1, <2>2, <2>5 DEF Settled
<1>12. QED
  BY <1>9, <1>10, <1>11, ConfirmRefusals

\* What leaves the rows alone leaves them settled; time only makes more holds due.
LEMMA SettledQuiet ==
    ASSUME Settled, UNCHANGED <<config, holds, tickets>>, Waiting' = Waiting,
           \A i \in Waiting : todo'[i].has = todo[i].has,
           \A h \in DOMAIN holds : Due(h) => Due(h)',
           TurnedAway(records') = 0 => TurnedAway(records) = 0, Late(records') = Late(records)
    PROVE  Settled'
<1> SUFFICES ASSUME config'.mode = "acquire", TurnedAway(records') = 0
             PROVE  /\ Len(holds') = Len(tickets') + Late(records') + Cardinality(Waiting')
                    /\ \A h \in DOMAIN holds' :
                          holds'[h].state = "held" /\ ~Due(h)' =>
                              \E i \in Waiting' : todo'[i].has = h
  BY DEF Settled
<1>1. config.mode = "acquire" /\ TurnedAway(records) = 0
  OBVIOUS
<1>2. /\ Len(holds) = Len(tickets) + Late(records) + Cardinality(Waiting)
      /\ \A h \in DOMAIN holds :
            holds[h].state = "held" /\ ~Due(h) => \E i \in Waiting : todo[i].has = h
  BY <1>1 DEF Settled
<1>3. Len(holds') = Len(tickets') + Late(records') + Cardinality(Waiting')
  BY <1>2
<1>4. ASSUME NEW h \in DOMAIN holds', holds'[h].state = "held", ~Due(h)'
      PROVE  \E i \in Waiting' : todo'[i].has = h
  <2>1. h \in DOMAIN holds /\ holds[h].state = "held" /\ ~Due(h)
    BY <1>4
  <2>2. PICK i \in Waiting : todo[i].has = h
    BY <1>2, <2>1
  <2>3. QED
    BY <2>2
<1>5. QED
  BY <1>3, <1>4

LEMMA SettledRegister ==
    ASSUME PoolInv, Settled, [HarnessNext]_harnessVars, NEW i \in DOMAIN todo,
           PayChallenge(i) \/ Register(i)
    PROVE  Settled'
<1>1. phase = "register" /\ phase' = phase /\ config' = config
  BY RegisterCases DEF PayChallenge
<1>2. Waiting = {} /\ Waiting' = {}
  BY <1>1 DEF Waiting
<1>3. UNCHANGED <<holds, tickets, now>>
  <2>1. CASE PayChallenge(i)
    BY <2>1 DEF PayChallenge, vars, db
  <2>2. CASE Register(i)
    BY <2>2, RegisterLeaves
  <2>3. QED
    BY <2>1, <2>2
<1>4. \A h \in DOMAIN holds : Due(h) => Due(h)'
  BY <1>3 DEF Due
<1>5. (TurnedAway(records') = 0 => TurnedAway(records) = 0) /\ Late(records') = Late(records)
  <2>1. CASE PayChallenge(i)
    BY <2>1 DEF PayChallenge
  <2>2. CASE Register(i)
    <3>1. Answered(i, "register", {201}) \/ Answered(i, "register", {403, 409, 429})
      BY <2>2, RegisterCases DEF RegisterGranted, RegisterRefused
    <3>2. PICK status \in Statuses :
             records' = OneMore(records, Key(Actor, "register", status, Source(i)))
      BY <3>1 DEF Answered, Statuses
    <3>3. "register" \in Steps
      BY DEF Steps
    <3>4. QED
      BY <3>2, <3>3, AnswerCounts
  <2>3. QED
    BY <2>1, <2>2
<1>6. QED
  BY <1>1, <1>2, <1>3, <1>4, <1>5, SettledQuiet

LEMMA SettledBetween ==
    ASSUME PoolInv, WorkedOff, Settled, BeginRound \/ BeginGenuineDemand
    PROVE  Settled'
<1>1. UNCHANGED <<config, holds, tickets, now, records>> /\ phase # "done" /\ Unfinished = {}
  BY DEF BeginRound, BeginGenuineDemand, vars, db
<1>2. Waiting = {}
  <2>1. CASE phase = "register"
    BY <2>1 DEF Waiting
  <2>2. CASE phase # "register"
    BY <1>1, <2>2, NoneWaiting
  <2>3. QED
    BY <2>1, <2>2
<1>3. Waiting' = {}
  <2>1. \A j \in DOMAIN todo' : todo'[j].has = 0
    BY ItemsWait
  <2>2. QED
    BY <2>1 DEF Waiting
<1>4. \A h \in DOMAIN holds : Due(h) => Due(h)'
  BY <1>1 DEF Due
<1>5. QED
  BY <1>1, <1>2, <1>3, <1>4, SettledQuiet

\* Reading the allocation lapses what is overdue, and then nothing is held.
LEMMA SettledReconcile ==
    ASSUME PoolInv, WorkedOff, Settled, [HarnessNext]_harnessVars, Reconcile
    PROVE  Settled'
<1>1. /\ phase = "genuine" /\ phase' = "done" /\ Unfinished = {}
      /\ UNCHANGED <<config, tickets, todo, records>> /\ holds' = Lapsed
  BY DEF Reconcile, ReadShow
<1>2. Waiting = {} /\ Waiting' = {}
  <2>1. Waiting = {}
    BY <1>1, NoneWaiting
  <2>2. QED
    BY <1>1, <2>1 DEF Waiting
<1>3. LapseKeepsRows
  BY LapsedRows DEF PoolInv, HarnessInv, TypeOK
<1>4. Len(holds') = Len(holds) /\ DOMAIN holds' = DOMAIN holds
      /\ \A h \in DOMAIN holds : holds'[h].state = "held" => holds[h].state = "held" /\ ~Due(h)
  BY <1>1, <1>3 DEF LapseKeepsRows
<1>5. QED
  BY <1>1, <1>2, <1>4 DEF Settled

LEMMA SettledElapse ==
    ASSUME PoolInv, Settled, Elapse \/ UNCHANGED harnessVars
    PROVE  Settled'
<1>1. UNCHANGED <<config, holds, tickets, todo, records, phase>> /\ now' \in {now, now + 1}
  BY DEF Elapse, Tick, db, vars, harness, harnessVars
<1>2. Waiting' = Waiting
  BY <1>1 DEF Waiting
<1>3. ASSUME NEW h \in DOMAIN holds, Due(h) PROVE Due(h)'
  <2>1. TypeOK /\ now \in Int
    BY DEF PoolInv, HarnessInv, TypeOK
  <2>2. holds[h] \in HoldRows
    BY <2>1, LenProperties, ElementOfSeq DEF TypeOK
  <2>3. holds[h].expires \in Int
    BY <2>2 DEF HoldRows
  <2>4. QED
    BY <1>1, <1>3, <2>1, <2>3 DEF Due
<1>4. QED
  BY <1>1, <1>2, <1>3, SettledQuiet

LEMMA SettledStep ==
    PoolInv /\ OwnHolds /\ FlowConsistent /\ WorkedOff /\ Settled /\ [HarnessNext]_harnessVars
        => Settled'
BY SettledRegister, SettledHold, SettledConfirm, SettledBetween, SettledReconcile, SettledElapse
   DEF HarnessNext, HarnessStep, Finished

LEMMA InitSettled == HarnessInit => WorkedOff /\ Settled
<1> SUFFICES ASSUME HarnessInit PROVE WorkedOff /\ Settled
  OBVIOUS
<1>1. \A count, at : \A i \in DOMAIN Items(count, 1, at) : Items(count, 1, at)[i].has = 0
  BY DEF Items
<1>2. PICK count, at : todo = Items(count, 1, at)
  BY DEF HarnessInit
<1>3. WorkedOff
  BY <1>1, <1>2 DEF WorkedOff
<1>4. holds = << >> /\ tickets = << >> /\ phase = "register"
  BY DEF HarnessInit, Init
<1>5. Waiting = {} /\ Cardinality(Waiting) = 0 /\ Len(holds) = 0 /\ Len(tickets) = 0
      /\ DOMAIN holds = {}
  BY <1>4, FS_EmptySet DEF Waiting
<1>6. Late(records) = 0
  <2>1. DOMAIN records = {}
    BY DEF HarnessInit, EmptyBag, SetToBag
  <2>2. Matching(records, Actors, {"confirm"}, {"refused_by_flow_limit"}) = {}
    BY <2>1 DEF Matching
  <2>3. QED
    BY <2>2, TotalEmpty DEF Late, CountIn
<1>7. QED
  BY <1>3, <1>5, <1>6 DEF Settled

\* The books as they are closed.
Closed ==
    phase = "done" =>
        /\ Waiting = {}
        /\ ledger.seats_held = Cardinality(HeldIn(holds)) /\ \A h \in HeldIn(holds) : ~Due(h)
        /\ ledger.invalid_requests + ledger.rate_limited_requests = TurnedAway(records)

LEMMA ClosedStep ==
    ASSUME PoolInv, WorkedOff, Closed, [HarnessNext]_harnessVars PROVE Closed'
<1>1. CASE phase = "done"
  <2>1. UNCHANGED <<phase, todo, holds, now, ledger, records>>
    BY <1>1, LedgerStands DEF harnessVars, harness, vars, db
  <2>2. QED
    BY <1>1, <2>1 DEF Closed, Waiting, Due
<1>2. CASE Reconcile /\ ledger' = build_ledger(Lapsed)
  <2>1. /\ phase = "genuine" /\ phase' = "done" /\ Unfinished = {}
        /\ UNCHANGED <<todo, records, now>> /\ holds' = Lapsed
    BY <1>2 DEF Reconcile, ReadShow
  <2>2. Waiting = {} /\ Waiting' = Waiting
    BY <2>1, NoneWaiting DEF Waiting
  <2>3. ledger'.seats_held = Cardinality(HeldIn(holds'))
    BY <1>2, <2>1, LedgerSays
  <2>4. LapseKeepsRows
    BY LapsedRows DEF PoolInv, HarnessInv, TypeOK
  <2>5. \A h \in HeldIn(holds') : ~Due(h)'
    BY <2>1, <2>4 DEF HeldIn, LapseKeepsRows, Due
  <2>6. ledger'.invalid_requests + ledger'.rate_limited_requests = TurnedAway(records')
    <3>1. /\ build_ledger(Lapsed).invalid_requests = CountOutcomes(INDIVIDUALLY_INVALID)
          /\ build_ledger(Lapsed).rate_limited_requests
               = CountOutcomes({"refused_by_rate_limit"})
      BY DEF build_ledger
    <3>2. \A outcomes : CountOutcomes(outcomes) = CountIn(records, Actors, Steps, outcomes)
      BY CountIsTotal DEF CountOutcomes, Actors
    <3>3. QED
      BY <1>2, <2>1, <3>1, <3>2 DEF TurnedAway
  <2>7. QED
    BY <2>2, <2>3, <2>5, <2>6 DEF Closed
<1>3. CASE phase' # "done"
  BY <1>3 DEF Closed
<1>4. QED
  BY <1>1, <1>2, <1>3, LedgerBuilt

\* In acquire mode a hold the harness was granted is not left behind: as long as
\* no request is turned away before its transaction, at the end each hold is a
\* ticket or was refused its confirmation and has lapsed, and nothing is held.
THEOREM HoldsAreSettled == HarnessSpec => []HoldsSettled
<1>1. HarnessSpec => []FlowConsistent
  BY HarnessImplementsBookingFlow, FlowsAreConsistent, PTL
<1>2. HarnessInit => Closed
  BY DEF HarnessInit, Closed
<1>3. PoolInv /\ Settled /\ Closed => HoldsSettled
  <2> SUFFICES ASSUME PoolInv, Settled, Closed, phase = "done", config.mode = "acquire",
                      ledger.invalid_requests + ledger.rate_limited_requests = 0
               PROVE  /\ ledger.seats_held = 0
                      /\ Len(holds) = Len(tickets)
                           + Count({"operator", "genuine"}, {"confirm"},
                                   {"refused_by_flow_limit"})
    BY DEF HoldsSettled
  <2>1. Waiting = {} /\ TurnedAway(records) = 0
        /\ ledger.seats_held = Cardinality(HeldIn(holds)) /\ \A h \in HeldIn(holds) : ~Due(h)
    BY DEF Closed
  <2>2. /\ Len(holds) = Len(tickets) + Late(records) + Cardinality(Waiting)
        /\ \A h \in DOMAIN holds : ~(holds[h].state = "held" /\ ~Due(h))
    BY <2>1 DEF Settled
  <2>3. HeldIn(holds) = {}
    BY <2>1, <2>2 DEF HeldIn
  <2>4. Late(records)
          = Count({"operator", "genuine"}, {"confirm"}, {"refused_by_flow_limit"})
    BY CountIsTotal DEF Late, Actors
  <2>5. Len(tickets) \in Nat /\ Late(records) \in Nat
    <3>1. Len(tickets) \in Nat
      BY LenProperties DEF PoolInv, HarnessInv, TypeOK
    <3>2. records \in [DOMAIN records -> Nat \ {0}] /\ IsFiniteSet(DOMAIN records)
      BY DEF PoolInv, RecordsKnown
    <3>3. Late(records) \in Nat
      BY <3>2, OneMoreCount DEF Late
    <3>4. QED
      BY <3>1, <3>3
  <2>6. QED
    BY <2>1, <2>2, <2>3, <2>4, <2>5, FS_EmptySet
<1>4. PoolInv /\ WorkedOff /\ Closed /\ [HarnessNext]_harnessVars => Closed'
  BY ClosedStep
<1>5. QED
  BY <1>1, <1>2, <1>3, <1>4, InitSettled, WorkedOffStep, SettledStep, PoolAlwaysKept,
     OwnAlwaysKept, PTL DEF HarnessSpec

-----------------------------------------------------------------------------
(* A run that keeps to the rate is refused nothing. *)

\* Consecutive stamps are d apart, and so any two are as many times d apart as
\* there are steps between them.
Spaced(w, d) == \A a, b \in DOMAIN w : a < b => w[a] + (b - a) * d <= w[b]

LEMMA OneStepFurther == ASSUME NEW n \in Nat, NEW d \in Nat PROVE (n + 1) * d = n * d + d
OBVIOUS

LEMMA MoreSteps == ASSUME NEW m \in Nat, NEW n \in Nat, NEW d \in Nat, m <= n PROVE m * d <= n * d
OBVIOUS

LEMMA OneStopLater ==
    ASSUME NEW x \in Nat, NEW y \in Nat, NEW z \in Nat, NEW d \in Nat, NEW t \in Nat,
           x + y <= z, z + d <= t
    PROVE  x + (y + d) <= t
OBVIOUS

LEMMA SpacedAppend ==
    ASSUME NEW w \in Seq(Nat), NEW d \in Nat, Spaced(w, d),
           NEW t \in Nat, \A a \in DOMAIN w : w[a] + d <= t
    PROVE  Spaced(Append(w, t), d)
<1> DEFINE n == Len(w)
           v == Append(w, t)
<1>1. n \in Nat /\ DOMAIN w = 1..n /\ \A a \in 1..n : w[a] \in Nat
  BY LenProperties, ElementOfSeq
<1>2. DOMAIN v = 1..(n + 1) /\ v[n + 1] = t /\ \A a \in 1..n : v[a] = w[a]
  BY <1>1, AppendProperties, LenProperties
<1> HIDE DEF n, v
<1>3. ASSUME NEW a \in 1..(n + 1), NEW b \in 1..(n + 1), a < b
      PROVE  v[a] + (b - a) * d <= v[b]
  <2>1. a \in 1..n
    BY <1>1, <1>3
  <2>2. CASE b \in 1..n
    BY <1>1, <1>2, <1>3, <2>1, <2>2 DEF Spaced
  <2>3. CASE b = n + 1 /\ a = n
    <3>1. (b - a) * d = d
      <4>1. b - a = 1
        BY <1>1, <2>3
      <4>2. QED
        BY <4>1
    <3>2. v[a] + d <= t
      BY <1>1, <1>2, <2>1
    <3>3. QED
      BY <1>2, <2>3, <3>1, <3>2
  <2>4. CASE b = n + 1 /\ a < n
    <3> DEFINE k == n - a
    <3>1. k \in Nat /\ n \in 1..n /\ b - a = k + 1
      BY <1>1, <2>1, <2>4
    <3>2. w[a] + k * d <= w[n] /\ w[n] + d <= t
      BY <1>1, <2>1, <2>4, <3>1 DEF Spaced
    <3>3. (b - a) * d = k * d + d
      BY <3>1, OneStepFurther
    <3>4. w[a] \in Nat /\ w[n] \in Nat /\ v[a] = w[a] /\ v[b] = t
      BY <1>1, <1>2, <2>1, <2>4, <3>1
    <3> DEFINE kd == k * d
    <3>5. kd \in Nat
      BY <3>1
    <3>6. w[a] + kd <= w[n] /\ w[n] + d <= t
      BY <3>2
    <3>7. (b - a) * d = kd + d
      BY <3>3
    <3> HIDE DEF k, kd
    <3>8. w[a] + (kd + d) <= t
      BY <3>4, <3>5, <3>6, OneStopLater
    <3>9. QED
      BY <3>4, <3>7, <3>8
  <2>5. QED
    BY <1>1, <1>3, <2>1, <2>2, <2>3, <2>4
<1>4. QED
  BY <1>2, <1>3 DEF Spaced, v

LEMMA SpacedSuffix ==
    ASSUME NEW w \in Seq(Nat), NEW d \in Nat, Spaced(w, d), NEW f \in DOMAIN w
    PROVE  /\ SubSeq(w, f, Len(w)) \in Seq(Nat) /\ Spaced(SubSeq(w, f, Len(w)), d)
           /\ SubSeq(w, f, Len(w))[1] = w[f] /\ 1 \in DOMAIN SubSeq(w, f, Len(w))
           /\ \A a \in DOMAIN SubSeq(w, f, Len(w)) :
                 \E b \in DOMAIN w : SubSeq(w, f, Len(w))[a] = w[b]
<1> DEFINE n == Len(w)
           v == SubSeq(w, f, n)
<1>1. n \in Nat /\ DOMAIN w = 1..n /\ f \in 1..n /\ \A a \in 1..n : w[a] \in Nat
  BY LenProperties, ElementOfSeq
<1>2. /\ v \in Seq(Nat) /\ DOMAIN v = 1..(n - f + 1)
      /\ \A a \in 1..(n - f + 1) : v[a] = w[f + a - 1]
  <2>1. \A a \in f..n : w[a] \in Nat
    BY <1>1
  <2> HIDE DEF n
  <2>2. v \in Seq(Nat) /\ Len(v) = n - f + 1 /\ \A a \in 1..Len(v) : v[a] = w[f + a - 1]
    <3>1. f \in Int /\ n \in Int /\ f <= n
      BY <1>1
    <3>2. /\ SubSeq(w, f, n) \in Seq(Nat)
          /\ Len(SubSeq(w, f, n)) = (IF f <= n THEN n - f + 1 ELSE 0)
          /\ \A a \in 1..n - f + 1 : SubSeq(w, f, n)[a] = w[f + a - 1]
      BY <2>1, <3>1, SubSeqProperties
    <3> HIDE DEF v
    <3>3. v = SubSeq(w, f, n)
      BY DEF v
    <3>4. QED
      BY <3>1, <3>2, <3>3
  <2> HIDE DEF v
  <2>3. DOMAIN v = 1..Len(v)
    BY <2>2, LenProperties
  <2>4. QED
    BY <2>2, <2>3
<1> HIDE DEF n, v
<1>3. /\ \A a \in DOMAIN v : f + a - 1 \in DOMAIN w /\ a \in Nat /\ v[a] = w[f + a - 1]
      /\ f \in Nat
  <2>1. f \in Nat /\ \A a \in 1..(n - f + 1) : a \in Nat /\ f + a - 1 \in 1..n
    BY <1>1
  <2>2. QED
    BY <1>1, <1>2, <2>1
<1>4. Spaced(v, d)
  <2> SUFFICES ASSUME NEW a \in DOMAIN v, NEW b \in DOMAIN v, a < b
               PROVE  v[a] + (b - a) * d <= v[b]
    BY DEF Spaced
  <2> DEFINE c == f + a - 1
             e == f + b - 1
  <2>1. c \in DOMAIN w /\ e \in DOMAIN w /\ c < e /\ e - c = b - a /\ v[a] = w[c] /\ v[b] = w[e]
    <3>1. a \in Nat /\ b \in Nat /\ f \in Nat
      BY <1>3
    <3>2. c < e /\ e - c = b - a
      BY <3>1
    <3> HIDE DEF c, e
    <3>3. QED
      BY <1>3, <3>2 DEF c, e
  <2>2. w[c] + (e - c) * d <= w[e]
    BY <2>1 DEF Spaced
  <2>3. QED
    BY <2>1, <2>2
<1>5. 1 \in DOMAIN v /\ v[1] = w[f]
  <2>1. f + 1 - 1 = f /\ 1 \in 1..(n - f + 1)
    BY <1>1
  <2>2. QED
    BY <1>2, <2>1
<1>6. QED
  BY <1>2, <1>3, <1>4, <1>5 DEF v, n

\* What is left of a deque begins with a stamp that is live.
LEMMA PrunedSuffix ==
    ASSUME NEW k, NEW at, seen[k] \in Seq(Nat)
    PROVE  \/ Limiter!Pruned(k, at) = << >>
           \/ \E f \in DOMAIN seen[k] :
                 /\ ~Limiter!ExpiredStamp(seen[k][f], at)
                 /\ Limiter!Pruned(k, at) = SubSeq(seen[k], f, Len(seen[k]))
<1> DEFINE w == seen[k]
           p == Limiter!Pruned(k, at)
           live == {j \in DOMAIN w : ~Limiter!ExpiredStamp(w[j], at)}
           first == CHOOSE j \in live : \A l \in live : j <= l
<1>1. Len(w) \in Nat /\ DOMAIN w = 1..Len(w)
  BY LenProperties
<1>2. CASE live = {}
  BY <1>2 DEF Limiter!Pruned
<1>3. CASE live # {}
  <2>1. p = SubSeq(w, first, Len(w))
    BY <1>3 DEF Limiter!Pruned
  <2>2. \E j \in live : \A l \in live : j <= l
    <3>1. live \in SUBSET Nat
      BY <1>1
    <3> HIDE DEF live
    <3>2. QED
      BY <1>3, <3>1, LeastExists
  <2>3. first \in live
    BY <2>2
  <2> HIDE DEF first
  <2>4. QED
    BY <2>1, <2>3
<1>4. QED
  BY <1>2, <1>3

\* A deque of stamps a pace apart, the last of them a pace ago, has room.
LEMMA SpacedHasRoom ==
    ASSUME NEW k, NEW d \in Nat, seen[k] \in Seq(Nat), Spaced(seen[k], d), now \in Nat,
           \A a \in DOMAIN seen[k] : seen[k][a] + d <= now, d * Limit >= Window
    PROVE  /\ Limiter!Allows(k, now)
           /\ Limiter!Pruned(k, now) \in Seq(Nat) /\ Spaced(Limiter!Pruned(k, now), d)
           /\ \A a \in DOMAIN Limiter!Pruned(k, now) :
                 \E b \in DOMAIN seen[k] : Limiter!Pruned(k, now)[a] = seen[k][b]
<1> DEFINE w == seen[k]
           p == Limiter!Pruned(k, now)
<1>1. Limit \in Nat \ {0} /\ Window \in Nat \ {0}
  BY HarnessAssumption
<1>2. CASE p = << >>
  <2>1. Len(p) = 0 /\ DOMAIN p = {}
    BY <1>2
  <2>2. Limiter!Allows(k, now)
    BY <1>1, <2>1 DEF Limiter!Allows
  <2>3. QED
    BY <1>2, <2>1, <2>2 DEF Spaced
<1>3. ASSUME NEW f \in DOMAIN w, ~Limiter!ExpiredStamp(w[f], now), p = SubSeq(w, f, Len(w))
      PROVE  /\ Len(p) < Limit /\ p \in Seq(Nat) /\ Spaced(p, d)
             /\ \A a \in DOMAIN p : \E b \in DOMAIN w : p[a] = w[b]
  <2>1. /\ p \in Seq(Nat) /\ Spaced(p, d) /\ p[1] = w[f] /\ 1 \in DOMAIN p
        /\ \A a \in DOMAIN p : \E b \in DOMAIN w : p[a] = w[b]
    <3> HIDE DEF w, p
    <3>1. w \in Seq(Nat) /\ Spaced(w, d)
      BY DEF w
    <3>2. QED
      BY <1>3, <3>1, SpacedSuffix
  <2>2. now < p[1] + Window
    <3>1. w[f] \in Nat
      BY <1>3, LenProperties, ElementOfSeq
    <3>2. QED
      BY <1>1, <1>3, <2>1, <3>1 DEF Limiter!ExpiredStamp
  <2>3. \A a \in DOMAIN p : p[a] + d <= now
    BY <2>1
  <2> DEFINE n == Len(p)
  <2> HIDE DEF p
  <2>4. n \in Nat \ {0} /\ DOMAIN p = 1..n /\ \A a \in 1..n : p[a] \in Nat
    <3>1. n \in Nat /\ DOMAIN p = 1..n /\ \A a \in 1..n : p[a] \in Nat
      BY <2>1, LenProperties, ElementOfSeq
    <3>2. QED
      BY <2>1, <3>1
  <2> HIDE DEF n
  <2>5. p[1] + n * d <= now
    <3>1. CASE n = 1
      BY <2>1, <2>3, <2>4, <3>1
    <3>2. CASE n > 1
      <4> DEFINE m == n - 1
      <4>1. m \in Nat /\ n = m + 1 /\ 1 \in DOMAIN p /\ n \in DOMAIN p
        BY <2>4, <3>2
      <4>2. p[1] + m * d <= p[n] /\ p[n] + d <= now
        BY <2>1, <2>3, <3>2, <4>1 DEF Spaced
      <4>3. n * d = m * d + d
        BY <4>1, OneStepFurther
      <4> DEFINE md == m * d
      <4>4. md \in Nat /\ p[1] \in Nat /\ p[n] \in Nat
        BY <2>4, <4>1
      <4> HIDE DEF m, md
      <4>5. QED
        BY <4>2, <4>3, <4>4 DEF md
    <3>3. QED
      BY <2>4, <3>1, <3>2
  <2>6. n < Limit
    <3> SUFFICES ASSUME Limit <= n PROVE FALSE
      BY <1>1, <2>4
    <3>1. Limit * d <= n * d
      BY <1>1, <2>4, MoreSteps
    <3>2. d * Limit = Limit * d
      BY <1>1
    <3> DEFINE x == n * d
               y == Limit * d
    <3>3. x \in Nat /\ y \in Nat /\ p[1] \in Nat
      BY <1>1, <2>1, <2>4
    <3>4. p[1] + x <= now /\ y <= x /\ y >= Window
      BY <2>5, <3>1, <3>2
    <3> HIDE DEF x, y
    <3>5. QED
      BY <1>1, <2>2, <3>3, <3>4
  <2>7. QED
    BY <2>1, <2>6 DEF n
<1>4. QED
  BY <1>2, <1>3, PrunedSuffix DEF Limiter!Allows

-----------------------------------------------------------------------------
\* Nobody shares a source: fixtures.py has eight labels, one for each patron.
DistinctSources ==
    /\ \A i, j \in DOMAIN config.source_labels :
          config.source_labels[i] = config.source_labels[j] => i = j
    /\ \A i, j \in DOMAIN GenuinePatrons : GenuinePatrons[i] = GenuinePatrons[j] => i = j

PacedRun == Paced /\ DistinctSources

\* Each identity has a label of its own, that of the candidate it was.
LabelsOwn ==
    PacedRun =>
        /\ \A p, q \in DOMAIN identities : identities[p] = identities[q] => p = q
        /\ phase = "register" =>
              /\ \A i \in DOMAIN todo : todo[i].left <= 1
              /\ \A p \in DOMAIN identities :
                    \E i \in DOMAIN todo : todo[i].left = 0 /\ identities[p] = LabelOf(i)

LEMMA SmallRemainder == ASSUME NEW m \in Nat, NEW n \in Nat, m < n PROVE m % n = m
OBVIOUS

LEMMA LabelNumbered ==
    ASSUME config \in Configs, PacedRun, NEW i \in DOMAIN Offered, NEW j \in DOMAIN Offered,
           LabelOf(i) = LabelOf(j)
    PROVE  i = j
<1> DEFINE s == config.source_labels
           n == Len(s)
<1>1. s \in Seq(Labels)
  BY DEF Configs, Labels
<1>2. Len(Offered) \in Nat /\ DOMAIN Offered = 1..Len(Offered)
  BY OfferedIsPrefix
<1>3. Len(Offered) <= n
  BY DEF PacedRun, Paced
<1> HIDE DEF s
<1>4. n \in Nat /\ DOMAIN s = 1..n
  BY <1>1, LenProperties
<1> HIDE DEF n
<1>5. ASSUME NEW k \in DOMAIN Offered
      PROVE  k \in DOMAIN s /\ LabelOf(k) = s[k]
  <2>1. k \in 1..n /\ k - 1 \in Nat /\ k - 1 < n
    BY <1>2, <1>3, <1>4
  <2>2. (k - 1) % n = k - 1
    BY <1>4, <2>1, SmallRemainder
  <2>3. LabelOf(k) = s[((k - 1) % n) + 1]
    BY DEF LabelOf, s, n
  <2>4. (k - 1) + 1 = k
    BY <2>1
  <2>5. QED
    BY <1>4, <2>1, <2>2, <2>3, <2>4
<1>6. QED
  BY <1>5 DEF PacedRun, DistinctSources, s

\* So what is in work at a time uses as many sources as there are items.
LEMMA SourcesDistinct ==
    ASSUME PoolInv, LabelsOwn, PacedRun, phase # "done",
           NEW i \in DOMAIN todo, NEW j \in DOMAIN todo, Source(i) = Source(j)
    PROVE  i = j
<1>1. CASE phase = "register"
  <2>1. LabelOf(i) = LabelOf(j) /\ DOMAIN todo = DOMAIN Offered /\ config \in Configs
    BY <1>1 DEF Source, PoolInv, HarnessInv, ItemsKnown
  <2>2. QED
    BY <2>1, LabelNumbered
<1>2. CASE phase = "operator"
  <2>1. Patron(i) = i /\ Patron(j) = j /\ i \in DOMAIN identities /\ j \in DOMAIN identities
    BY <1>2, PatronKnown DEF PoolInv, HarnessInv, IdentitiesKnown
  <2>2. identities[i] = identities[j]
    BY <1>2, <2>1 DEF Source
  <2>3. QED
    BY <2>1, <2>2 DEF LabelsOwn
<1>3. CASE phase = "genuine"
  <2>1. i \in DOMAIN Public /\ j \in DOMAIN Public
    BY <1>3, PublicIsPrefix DEF PoolInv, HarnessInv, ItemsOfPhase
  <2>2. Public[i] = Public[j]
    BY <1>3 DEF Source, Patron
  <2>3. /\ i \in DOMAIN GenuinePatrons /\ j \in DOMAIN GenuinePatrons
        /\ GenuinePatrons[i] = GenuinePatrons[j]
    BY <2>1, <2>2, PublicIsPrefix DEF PoolInv, HarnessInv
  <2>4. QED
    BY <2>3 DEF PacedRun, DistinctSources
<1>4. QED
  BY <1>1, <1>2, <1>3 DEF PoolInv, PhaseKnown

LEMMA PacedRunKept ==
    ASSUME config' = config
    PROVE  (PacedRun' <=> PacedRun) /\ \A i : LabelOf(i)' = LabelOf(i)
BY DEF PacedRun, Paced, DistinctSources, Offered, LabelOf

LEMMA LabelsRegister ==
    ASSUME PoolInv, LabelsOwn, [HarnessNext]_harnessVars, NEW i \in DOMAIN todo, Register(i)
    PROVE  LabelsOwn'
<1>1. /\ phase = "register" /\ phase' = phase /\ i \in InWork /\ config' = config
      /\ \E granted : Ends(i, granted)
      /\ RegisterGranted(i) \/ RegisterRefused(i)
  BY RegisterCases
<1>2. \A j : LabelOf(j)' = LabelOf(j)
  BY <1>1, PacedRunKept
<1> SUFFICES ASSUME PacedRun
             PROVE  /\ \A p, q \in DOMAIN identities' : identities'[p] = identities'[q] => p = q
                    /\ \A j \in DOMAIN todo' : todo'[j].left <= 1
                    /\ \A p \in DOMAIN identities' :
                          \E j \in DOMAIN todo' :
                              todo'[j].left = 0 /\ identities'[p] = LabelOf(j)
  BY <1>1, <1>2, PacedRunKept DEF LabelsOwn
<1>3. /\ \A p, q \in DOMAIN identities : identities[p] = identities[q] => p = q
      /\ \A j \in DOMAIN todo : todo[j].left <= 1
      /\ \A p \in DOMAIN identities :
            \E j \in DOMAIN todo : todo[j].left = 0 /\ identities[p] = LabelOf(j)
  BY <1>1 DEF LabelsOwn
<1>4. /\ DOMAIN todo' = DOMAIN todo /\ i \in DOMAIN todo
      /\ todo[i].left = 1 /\ todo'[i].left = 0
      /\ \A j \in DOMAIN todo : j # i => todo'[j].left = todo[j].left
  <2>1. PICK granted : Ends(i, granted)
    BY <1>1
  <2>2. /\ DOMAIN todo' = DOMAIN todo
        /\ i \in DOMAIN todo /\ todo[i].left - 1 \in Nat
        /\ todo'[i].left = todo[i].left - 1
        /\ \A j \in DOMAIN todo : j # i => todo'[j].left = todo[j].left
    BY <1>1, <2>1, EndsItems
  <2>3. todo[i].left \in Nat /\ todo[i].left <= 1
    BY <1>3, <2>2 DEF PoolInv, TodoKnown, ItemRows
  <2>4. QED
    BY <2>2, <2>3
<1>5. \A j \in DOMAIN todo' : todo'[j].left <= 1
  BY <1>3, <1>4
<1>6. \A p \in DOMAIN identities :
         \E j \in DOMAIN todo : todo'[j].left = 0 /\ identities[p] = LabelOf(j) /\ j # i
  BY <1>3, <1>4
<1>7. CASE identities' = identities
  BY <1>3, <1>4, <1>5, <1>6, <1>7
<1>8. CASE RegisterGranted(i)
  <2> DEFINE ref == Offered[i]
             id == Cardinality(SelfService) + 1
  <2>1. /\ RegisterPatron(ref)
        /\ identities' = [p \in DOMAIN identities \cup (patrons' \ patrons) |->
               IF p \in DOMAIN identities THEN identities[p] ELSE Source(i)]
    BY <1>8 DEF RegisterGranted
  <2>2. patrons' \ patrons \subseteq {id}
    BY <2>1 DEF RegisterPatron
  <2> HIDE DEF ref, id
  <2>3. Source(i) = LabelOf(i)
    BY <1>1 DEF Source
  <2>4. \A p \in DOMAIN identities' :
           \/ p \in DOMAIN identities /\ identities'[p] = identities[p]
           \/ p = id /\ p \notin DOMAIN identities /\ identities'[p] = LabelOf(i)
    BY <2>1, <2>2, <2>3
  <2>5. ASSUME NEW p \in DOMAIN identities PROVE identities[p] # LabelOf(i)
    <3>1. PICK j \in DOMAIN todo : j # i /\ identities[p] = LabelOf(j)
      BY <1>6
    <3>2. DOMAIN todo = DOMAIN Offered /\ config \in Configs
      BY <1>1 DEF PoolInv, HarnessInv, ItemsKnown
    <3>3. QED
      BY <1>4, <3>1, <3>2, LabelNumbered
  <2>6. \A p, q \in DOMAIN identities' : identities'[p] = identities'[q] => p = q
    BY <1>3, <2>4, <2>5
  <2>7. \A p \in DOMAIN identities' :
           \E j \in DOMAIN todo' : todo'[j].left = 0 /\ identities'[p] = LabelOf(j)
    BY <1>4, <1>6, <2>4
  <2>8. QED
    BY <1>5, <2>6, <2>7
<1>9. QED
  BY <1>1, <1>7, <1>8 DEF RegisterRefused

LEMMA LabelsStep == PoolInv /\ LabelsOwn /\ [HarnessNext]_harnessVars => LabelsOwn'
<1> SUFFICES ASSUME PoolInv, LabelsOwn, [HarnessNext]_harnessVars PROVE LabelsOwn'
  OBVIOUS
<1>1. config' = config
  BY PoolBase
<1>2. (PacedRun' <=> PacedRun) /\ \A j : LabelOf(j)' = LabelOf(j)
  BY <1>1, PacedRunKept
<1>3. ASSUME identities' = identities, phase' # "register" PROVE LabelsOwn'
  BY <1>2, <1>3 DEF LabelsOwn
<1>4. ASSUME NEW i \in DOMAIN todo, PayChallenge(i) PROVE LabelsOwn'
  <2> DEFINE h == issued'
  <2>1. i \in InWork /\ Challenge!Issue /\ Awaits(i, h) /\ UNCHANGED <<phase, identities>>
    BY <1>4 DEF PayChallenge
  <2>2. h \in Nat /\ h \in 0..h
    BY <2>1, IssueKeeps DEF PoolInv, ChallengeKnown
  <2> HIDE DEF h
  <2>3. /\ DOMAIN todo' = DOMAIN todo /\ todo'[i].left = todo[i].left
        /\ \A j \in DOMAIN todo : j # i => todo'[j] = todo[j]
    BY <2>1, <2>2, AwaitsItems
  <2>4. \A j \in DOMAIN todo : todo'[j].left = todo[j].left
    BY <2>3
  <2>5. QED
    BY <1>2, <2>1, <2>3, <2>4 DEF LabelsOwn
<1>5. ASSUME NEW i \in DOMAIN todo, Hold(i) \/ Confirm(i) PROVE LabelsOwn'
  <2>1. phase \in {"operator", "genuine"} /\ UNCHANGED <<phase, identities>>
    BY <1>5, HoldCases, ConfirmCases
  <2>2. QED
    BY <1>3, <2>1
<1>6. CASE BeginRound \/ BeginGenuineDemand \/ Reconcile
  BY <1>3, <1>6 DEF BeginRound, BeginGenuineDemand, Reconcile
<1>7. CASE Elapse \/ UNCHANGED harnessVars
  BY <1>2, <1>7 DEF Elapse, harness, harnessVars, LabelsOwn
<1>8. QED
  BY <1>4, <1>5, <1>6, <1>7, LabelsRegister DEF HarnessNext, HarnessStep, Finished

\* What a source has been granted lies a pace apart, and whoever is to use it
\* next rests a pace from the last of it.
StampsPaced ==
    PacedRun =>
        /\ \A s \in Sources :
              /\ Spaced(seen[s], config.pace_seconds)
              /\ \A a \in DOMAIN seen[s] : seen[s][a] <= now
        /\ phase # "done" =>
              \A i \in Unfinished : \A a \in DOMAIN seen[Source(i)] :
                  seen[Source(i)][a] + config.pace_seconds <= todo[i].at

LEMMA PaceType ==
    ASSUME PoolInv, PacedRun
    PROVE  /\ config.pace_seconds \in Nat \ {0} /\ now \in Nat
           /\ config.pace_seconds * Limit >= Window
           /\ RestUntil = now + config.pace_seconds
<1>1. config.pace_seconds \in Nat /\ now \in Nat
  BY RestType
<1>2. Limit \in Nat \ {0} /\ Window \in Nat \ {0}
  BY HarnessAssumption
<1>3. config.pace_seconds * Limit >= Window
  BY DEF PacedRun, Paced
<1>4. config.pace_seconds # 0
  BY <1>2, <1>3
<1>5. QED
  BY <1>1, <1>3, <1>4 DEF RestUntil

LEMMA StampIsTime ==
    ASSUME NEW w \in Seq(0..MaxTime), NEW a \in DOMAIN w
    PROVE  w[a] \in Nat
<1>1. a \in 1..Len(w)
  BY LenProperties
<1>2. w[a] \in 0..MaxTime
  BY <1>1, ElementOfSeq
<1>3. QED
  BY <1>2

LEMMA SeenStamps ==
    ASSUME SeenKnown, NEW s \in Sources
    PROVE  seen[s] \in Seq(Nat)
<1>1. seen[s] \in Seq(0..MaxTime)
  BY DEF SeenKnown
<1>2. Len(seen[s]) \in Nat /\ DOMAIN seen[s] = 1..Len(seen[s])
      /\ \A a \in 1..Len(seen[s]) : seen[s][a] \in 0..MaxTime
  BY <1>1, LenProperties, ElementOfSeq
<1>3. seen[s] = [a \in 1..Len(seen[s]) |-> seen[s][a]]
  BY <1>1, <1>2
<1>4. \A a \in 1..Len(seen[s]) : seen[s][a] \in Nat
  BY <1>2
<1>5. QED
  BY <1>1, <1>2, <1>4, SeqDef

LEMMA CountedSpaced ==
    ASSUME PoolInv, StampsPaced, PacedRun, phase # "done", NEW i \in InWork, Rested(i),
           Counted(i) \/ UNCHANGED seen
    PROVE  /\ ~RateLimited(i)
           /\ \A s \in Sources :
                 /\ Spaced(seen'[s], config.pace_seconds)
                 /\ \A a \in DOMAIN seen'[s] : seen'[s][a] <= now
                 /\ s # Source(i) => seen'[s] = seen[s]
<1> DEFINE d == config.pace_seconds
           k == Source(i)
           p == Limiter!Pruned(k, now)
<1>1. i \in Unfinished /\ i \in DOMAIN todo /\ todo[i].at \in Nat
  <2>1. i \in Unfinished /\ i \in DOMAIN todo
    BY DEF InWork, Unfinished
  <2>2. QED
    BY <2>1 DEF PoolInv, TodoKnown, ItemRows
<1>2. k \in Sources
  BY <1>1, SourceKnown
<1>3. d \in Nat \ {0} /\ now \in Nat /\ d * Limit >= Window
  BY PaceType
<1>4. /\ \A s \in Sources : Spaced(seen[s], d) /\ \A a \in DOMAIN seen[s] : seen[s][a] <= now
      /\ \A a \in DOMAIN seen[k] : seen[k][a] + d <= todo[i].at
  BY <1>1 DEF StampsPaced
<1> HIDE DEF d, k
<1>5. seen[k] \in Seq(Nat) /\ \A a \in DOMAIN seen[k] : seen[k][a] \in Nat
  <2>1. seen[k] \in Seq(Nat)
    BY <1>2, SeenStamps DEF PoolInv
  <2>2. QED
    BY <2>1, LenProperties, ElementOfSeq
<1>6. \A a \in DOMAIN seen[k] : seen[k][a] + d <= now
  <2>1. todo[i].at <= now
    BY <1>1, <1>3 DEF Rested
  <2>2. QED
    BY <1>1, <1>3, <1>4, <1>5, <2>1
<1>7. /\ Limiter!Allows(k, now)
      /\ p \in Seq(Nat) /\ Spaced(p, d)
      /\ \A a \in DOMAIN p : \E b \in DOMAIN seen[k] : p[a] = seen[k][b]
  BY <1>2, <1>3, <1>4, <1>5, <1>6, SpacedHasRoom
<1>8. ~RateLimited(i)
  BY <1>7 DEF RateLimited, k
<1>9. CASE UNCHANGED seen
  BY <1>4, <1>8, <1>9 DEF d
<1>10. CASE Counted(i)
  <2>1. seen' = [seen EXCEPT ![k] = IF ~policy.per_source_rate_limit THEN @
                                    ELSE Append(p, now)]
    BY <1>8, <1>10 DEF Counted, k
  <2>2. DOMAIN seen = Sources
    BY DEF PoolInv, SeenKnown
  <2>3. \A a \in DOMAIN p : p[a] + d <= now /\ p[a] <= now
    BY <1>4, <1>6, <1>7, <1>2
  <2> DEFINE w == Append(p, now)
  <2>4. Spaced(w, d) /\ \A a \in DOMAIN w : w[a] <= now
    <3> HIDE DEF p
    <3>1. Spaced(w, d)
      BY <1>3, <1>7, <2>3, SpacedAppend
    <3>2. /\ DOMAIN w = 1..(Len(p) + 1) /\ w[Len(p) + 1] = now
          /\ DOMAIN p = 1..Len(p) /\ Len(p) \in Nat
          /\ \A a \in 1..Len(p) : w[a] = p[a]
      BY <1>3, <1>7, AppendProperties, LenProperties
    <3>3. QED
      <4> SUFFICES ASSUME NEW a \in DOMAIN w PROVE w[a] <= now
        BY <3>1
      <4> HIDE DEF w
      <4>1. a \in DOMAIN p \/ a = Len(p) + 1
        BY <3>2
      <4>2. QED
        BY <1>3, <2>3, <3>2, <4>1
  <2> HIDE DEF w, p
  <2>5. \A s \in Sources : seen'[s] = seen[s] \/ (s = k /\ seen'[s] = w)
    BY <2>1, <2>2 DEF w
  <2>6. \A s \in Sources : s # k => seen'[s] = seen[s]
    BY <2>1, <2>2
  <2>7. \A s \in Sources :
           Spaced(seen'[s], d) /\ \A a \in DOMAIN seen'[s] : seen'[s][a] <= now
    BY <1>4, <2>4, <2>5
  <2>8. QED
    BY <1>8, <2>6, <2>7 DEF d, k
<1>11. QED
  BY <1>9, <1>10

\* After a request its thread rests, and so does the one that takes up an item.
Rests(i) ==
    /\ DOMAIN todo' = DOMAIN todo /\ i \in DOMAIN todo
    /\ \A j \in DOMAIN todo :
          \/ todo'[j].left = 0
          \/ /\ todo[j].left > 0
             /\ \/ todo'[j].at = RestUntil
                \/ j # i /\ todo'[j].at = todo[j].at

LEMMA EndsRests ==
    ASSUME PoolInv, NEW i \in InWork, NEW granted, Ends(i, granted)
    PROVE  Rests(i)
<1>1. /\ i \in Unfinished /\ i \in DOMAIN todo
      /\ \A j \in DOMAIN todo : todo[j].left \in Nat /\ todo[j] \in [left : Nat, at : Nat, has : {todo[j].has}]
  <2>1. i \in Unfinished /\ i \in DOMAIN todo
    BY DEF InWork, Unfinished
  <2>2. ASSUME NEW j \in DOMAIN todo
        PROVE  todo[j].left \in Nat /\ todo[j] \in [left : Nat, at : Nat, has : {todo[j].has}]
    <3>1. PICK n : todo[j] \in [left : Nat, at : Nat, has : 0..n]
      BY DEF PoolInv, TodoKnown, ItemRows
    <3>2. QED
      BY <3>1
  <2>3. QED
    BY <2>1, <2>2
<1>2. /\ DOMAIN todo' = DOMAIN todo
      /\ \A j \in DOMAIN todo :
           todo'[j] = IF j = i
                      THEN [left |-> todo[i].left - 1, has |-> 0,
                            at |-> IF todo[i].left - 1 = 0 THEN 0 ELSE RestUntil]
                      ELSE IF todo[i].left - 1 = 0 /\ NextInLine(j)
                      THEN [todo[j] EXCEPT !.at = RestUntil]
                      ELSE todo[j]
  BY DEF Ends, LeftAfter
<1>3. todo[i].left > 0
  BY <1>1 DEF Unfinished
<1>4. ASSUME NEW j \in DOMAIN todo
      PROVE  \/ todo'[j].left = 0
             \/ /\ todo[j].left > 0
                /\ \/ todo'[j].at = RestUntil
                   \/ j # i /\ todo'[j].at = todo[j].at
  <2>1. CASE j = i
    <3>1. CASE todo[i].left - 1 = 0
      BY <1>1, <1>2, <2>1, <3>1
    <3>2. CASE todo[i].left - 1 # 0
      BY <1>1, <1>2, <1>3, <2>1, <3>2
    <3>3. QED
      BY <3>1, <3>2
  <2>2. CASE j # i /\ (todo'[j] = todo[j] \/ todo'[j] = [todo[j] EXCEPT !.at = RestUntil])
    <3>1. todo[j].left = 0 \/ todo[j].left > 0
      BY <1>1
    <3>2. todo'[j].left = todo[j].left
      BY <1>1, <2>2
    <3>3. todo'[j].at = RestUntil \/ todo'[j].at = todo[j].at
      BY <1>1, <2>2
    <3>4. QED
      BY <2>2, <3>1, <3>2, <3>3
  <2>3. QED
    BY <1>2, <2>1, <2>2
<1>5. QED
  BY <1>1, <1>2, <1>4 DEF Rests

LEMMA AwaitsRests ==
    ASSUME PoolInv, NEW i \in InWork, NEW h, Awaits(i, h)
    PROVE  Rests(i)
<1>1. i \in Unfinished /\ i \in DOMAIN todo /\ \A j \in DOMAIN todo : todo[j].left \in Nat
  BY DEF InWork, Unfinished, PoolInv, TodoKnown, ItemRows
<1>2. todo[i] = [todo[i] EXCEPT !.left = todo[i].left]
      /\ todo[i] \in [left : Nat, at : Nat, has : {todo[i].has}]
  <2>1. PICK n : todo[i] \in [left : Nat, at : Nat, has : 0..n]
    BY <1>1 DEF PoolInv, TodoKnown, ItemRows
  <2>2. QED
    BY <2>1
<1>3. /\ DOMAIN todo' = DOMAIN todo
      /\ todo'[i] = [[todo[i] EXCEPT !.has = h] EXCEPT !.at = RestUntil]
      /\ \A j \in DOMAIN todo : j # i => todo'[j] = todo[j]
  BY <1>1 DEF Awaits
<1>4. todo'[i].at = RestUntil /\ todo'[i].left = todo[i].left
  BY <1>2, <1>3
<1>5. todo[i].left > 0
  BY <1>1 DEF Unfinished
<1>6. ASSUME NEW j \in DOMAIN todo
      PROVE  \/ todo'[j].left = 0
             \/ /\ todo[j].left > 0
                /\ \/ todo'[j].at = RestUntil
                   \/ j # i /\ todo'[j].at = todo[j].at
  <2>1. todo[j].left = 0 \/ todo[j].left > 0
    BY <1>1
  <2>2. QED
    BY <1>3, <1>4, <1>5, <2>1
<1>7. QED
  BY <1>1, <1>3, <1>6 DEF Rests

\* A request, or a challenge: what the source has been granted moves on, and its
\* thread rests.
LEMMA StampsMove ==
    ASSUME PoolInv, LabelsOwn, StampsPaced, phase # "done", NEW i \in DOMAIN todo, Rests(i),
           UNCHANGED <<config, phase, now>>, \A j \in DOMAIN todo : Source(j)' = Source(j),
           PacedRun => \A s \in Sources :
                 /\ Spaced(seen'[s], config.pace_seconds)
                 /\ \A a \in DOMAIN seen'[s] : seen'[s][a] <= now
                 /\ s # Source(i) => seen'[s] = seen[s],
           SeenKnown'
    PROVE  StampsPaced'
<1> DEFINE d == config.pace_seconds
<1> SUFFICES ASSUME PacedRun
             PROVE  /\ \A s \in Sources :
                          /\ Spaced(seen'[s], d)
                          /\ \A a \in DOMAIN seen'[s] : seen'[s][a] <= now
                    /\ \A j \in Unfinished' : \A a \in DOMAIN seen'[Source(j)'] :
                          seen'[Source(j)'][a] + d <= todo'[j].at
  <2>1. (PacedRun' <=> PacedRun) /\ config' = config /\ now' = now /\ phase' = phase
    BY PacedRunKept
  <2>2. Sources' = Sources
    BY DEF Sources, Labels
  <2>3. QED
    BY <2>1, <2>2 DEF StampsPaced, Spaced
<1>1. ASSUME NEW j \in Unfinished', NEW a \in DOMAIN seen'[Source(j)']
      PROVE  seen'[Source(j)'][a] + d <= todo'[j].at
  <2> DEFINE k == Source(j)
  <2>1. j \in DOMAIN todo /\ todo'[j].left > 0
    BY DEF Unfinished, Rests
  <2>2. Source(j)' = k /\ k \in Sources
    BY <2>1, SourceKnown
  <2>3. /\ todo[j].left > 0
        /\ todo'[j].at = RestUntil \/ (j # i /\ todo'[j].at = todo[j].at)
    BY <2>1 DEF Rests
  <2>4. CASE todo'[j].at = RestUntil
    <3>1. RestUntil = now + d /\ d \in Nat /\ now \in Nat
      BY PaceType
    <3>2. seen'[k][a] <= now
      BY <2>2
    <3>3. seen'[k][a] \in Nat
      <4>1. seen'[k] \in Seq(0..MaxTime)
        BY <2>2 DEF SeenKnown
      <4>2. a \in DOMAIN seen'[k]
        BY <2>2
      <4> HIDE DEF k
      <4>3. QED
        BY <4>1, <4>2, StampIsTime
    <3> HIDE DEF d, k
    <3>4. QED
      BY <2>2, <2>4, <3>1, <3>2, <3>3
  <2>5. CASE j # i /\ todo'[j].at = todo[j].at
    <3>1. Source(j) # Source(i)
      BY <2>1, <2>5, SourcesDistinct
    <3>2. seen'[k] = seen[k]
      BY <2>2, <3>1
    <3>3. j \in Unfinished
      BY <2>1, <2>3 DEF Unfinished
    <3>4. \A b \in DOMAIN seen[k] : seen[k][b] + d <= todo[j].at
      BY <3>3 DEF StampsPaced
    <3> HIDE DEF d, k
    <3>5. QED
      BY <2>2, <2>5, <3>2, <3>4
  <2>6. QED
    BY <2>3, <2>4, <2>5
<1>2. QED
  BY <1>1

\* What a thread asks for is not refused unless the limiter refuses it.
LEMMA RefusedWhenLimited ==
    ASSUME NEW i, Register(i) \/ Hold(i) \/ Confirm(i)
    PROVE  /\ phase # "done" /\ phase' = phase /\ config' = config /\ i \in InWork /\ Rested(i)
           /\ Counted(i) \/ UNCHANGED seen
           /\ RateLimited(i) \/ \E step \in Steps : Answered(i, step, {201, 401, 403, 409})
<1>1. {"register", "hold", "confirm"} \subseteq Steps
  BY DEF Steps
<1>2. CASE Register(i)
  <2>1. /\ phase = "register" /\ i \in InWork /\ Rested(i) /\ Counted(i)
        /\ UNCHANGED <<config, phase>>
    BY <1>2 DEF Register
  <2>2. \/ RateLimited(i)
        \/ \E status \in {201, 403, 409} : Recorded(i, "register", status)
    <3>1. \/ RateLimited(i) \/ Recorded(i, "register", 403)
          \/ Recorded(i, "register", 201) \/ Recorded(i, "register", 409)
      BY <1>2 DEF Register
    <3>2. QED
      BY <3>1
  <2>3. ASSUME NEW status \in {201, 403, 409}, Recorded(i, "register", status)
        PROVE  Answered(i, "register", {201, 401, 403, 409})
    BY <2>3, RecordedAnswer
  <2>4. QED
    BY <1>1, <2>1, <2>2, <2>3
<1>3. CASE Hold(i)
  <2>1. /\ phase # "done" /\ i \in InWork /\ Rested(i)
        /\ Counted(i) \/ UNCHANGED seen
        /\ UNCHANGED <<config, phase>>
    <3>1. Rested(i)
      BY <1>3 DEF Hold
    <3>2. QED
      BY <1>3, <3>1, HoldCases
  <2>2. \/ RateLimited(i)
        \/ \E status \in {201, 401, 409} : Recorded(i, "hold", status)
    <3>1. \/ RateLimited(i) \/ Recorded(i, "hold", 401)
          \/ Recorded(i, "hold", 201) \/ Recorded(i, "hold", 409)
      BY <1>3 DEF Hold
    <3>2. QED
      BY <3>1
  <2>3. ASSUME NEW status \in {201, 401, 409}, Recorded(i, "hold", status)
        PROVE  Answered(i, "hold", {201, 401, 403, 409})
    BY <2>3, RecordedAnswer
  <2>4. QED
    BY <1>1, <2>1, <2>2, <2>3
<1>4. CASE Confirm(i)
  <2>1. /\ phase # "done" /\ i \in InWork /\ Rested(i)
        /\ Counted(i) \/ UNCHANGED seen
        /\ UNCHANGED <<config, phase>>
    <3>1. Rested(i)
      BY <1>4 DEF Confirm
    <3>2. QED
      BY <1>4, <3>1, ConfirmCases
  <2>2. \/ RateLimited(i)
        \/ \E status \in {201, 401, 409} : Recorded(i, "confirm", status)
    <3>1. \/ RateLimited(i) \/ Recorded(i, "confirm", 401)
          \/ Recorded(i, "confirm", 201) \/ Recorded(i, "confirm", 409)
      BY <1>4 DEF Confirm
    <3>2. QED
      BY <3>1
  <2>3. ASSUME NEW status \in {201, 401, 409}, Recorded(i, "confirm", status)
        PROVE  Answered(i, "confirm", {201, 401, 403, 409})
    BY <2>3, RecordedAnswer
  <2>4. QED
    BY <1>1, <2>1, <2>2, <2>3
<1>5. QED
  BY <1>2, <1>3, <1>4

\* The clock stands, the sources stay whose they are, and the thread rests.
LEMMA RequestRests ==
    ASSUME PoolInv, NEW i \in DOMAIN todo, Register(i) \/ Hold(i) \/ Confirm(i)
    PROVE  Rests(i) /\ now' = now /\ \A j \in DOMAIN todo : Source(j)' = Source(j)
<1>1. CASE Register(i)
  <2>1. /\ phase = "register" /\ i \in InWork /\ UNCHANGED <<config, phase>>
        /\ Ends(i, TRUE) \/ Ends(i, FALSE)
    BY <1>1, RegisterCases
  <2>2. Rests(i)
    BY <2>1, EndsRests
  <2>3. now' = now
    BY <1>1, RegisterCases DEF RegisterGranted, RegisterRefused, RegisterPatron, vars
  <2>4. \A j \in DOMAIN todo : Source(j)' = Source(j)
    BY <2>1, PacedRunKept DEF Source
  <2>5. QED
    BY <2>2, <2>3, <2>4
<1>2. ASSUME phase \in {"operator", "genuine"}, UNCHANGED <<config, phase, identities>>
      PROVE  \A j \in DOMAIN todo : Source(j)' = Source(j)
  BY <1>2, PatronKept DEF Source
<1>3. CASE Hold(i)
  <2>1. /\ phase \in {"operator", "genuine"} /\ i \in InWork
        /\ UNCHANGED <<config, phase, identities>>
        /\ HoldGranted(i) \/ HoldRefused(i)
    BY <1>3, HoldCases
  <2>2. Ends(i, TRUE) \/ Ends(i, FALSE) \/ \E h : Awaits(i, h)
    BY <2>1 DEF HoldGranted, HoldRefused
  <2>3. Rests(i)
    BY <2>1, <2>2, EndsRests, AwaitsRests
  <2>4. now' = now
    BY <2>1 DEF HoldGranted, HoldRefused, PlaceHold, vars
  <2>5. QED
    BY <1>2, <2>1, <2>3, <2>4
<1>4. CASE Confirm(i)
  <2>1. /\ phase \in {"operator", "genuine"} /\ i \in InWork
        /\ UNCHANGED <<config, phase, identities>> /\ Ends(i, TRUE)
        /\ ConfirmGranted(i) \/ ConfirmRefused(i)
    BY <1>4, ConfirmCases
  <2>2. Rests(i)
    BY <2>1, EndsRests
  <2>3. now' = now
    BY <2>1 DEF ConfirmGranted, ConfirmRefused, ConfirmHold, vars
  <2>4. QED
    BY <1>2, <2>1, <2>2, <2>3
<1>5. QED
  BY <1>1, <1>3, <1>4

Sourced == phase # "done" => \A i \in DOMAIN todo : Source(i) \in Sources

LEMMA SourcesKnown == PoolInv => Sourced
BY SourceKnown DEF Sourced

LEMMA StampsRequest ==
    ASSUME PoolInv, LabelsOwn, StampsPaced, [HarnessNext]_harnessVars, NEW i \in DOMAIN todo,
           Register(i) \/ Hold(i) \/ Confirm(i)
    PROVE  StampsPaced' /\ (PacedRun => ~RateLimited(i))
<1>1. /\ phase # "done" /\ UNCHANGED <<config, phase, now>> /\ i \in InWork /\ Rested(i)
      /\ Counted(i) \/ UNCHANGED seen
      /\ Rests(i) /\ \A j \in DOMAIN todo : Source(j)' = Source(j)
  BY RefusedWhenLimited, RequestRests
<1>2. PacedRun =>
         /\ ~RateLimited(i)
         /\ \A s \in Sources :
               /\ Spaced(seen'[s], config.pace_seconds)
               /\ \A a \in DOMAIN seen'[s] : seen'[s][a] <= now
               /\ s # Source(i) => seen'[s] = seen[s]
  BY <1>1, CountedSpaced
<1>3. SeenKnown'
  BY PoolStep DEF PoolInv
<1>4. StampsPaced'
  BY <1>1, <1>2, <1>3, StampsMove
<1>5. QED
  BY <1>2, <1>4

LEMMA StampsChallenge ==
    ASSUME PoolInv, LabelsOwn, StampsPaced, [HarnessNext]_harnessVars, NEW i \in DOMAIN todo,
           PayChallenge(i)
    PROVE  StampsPaced'
<1>1. /\ phase = "register" /\ i \in InWork /\ UNCHANGED <<config, phase, now, seen>>
      /\ \E h : Awaits(i, h)
  BY DEF PayChallenge, vars
<1>2. Rests(i)
  BY <1>1, AwaitsRests
<1>3. \A j \in DOMAIN todo : Source(j)' = Source(j)
  BY <1>1, PacedRunKept DEF Source
<1>4. SeenKnown'
  BY PoolStep DEF PoolInv
<1>5. PacedRun =>
         \A s \in Sources :
             /\ Spaced(seen'[s], config.pace_seconds)
             /\ \A a \in DOMAIN seen'[s] : seen'[s][a] <= now
             /\ s # Source(i) => seen'[s] = seen[s]
  BY <1>1 DEF StampsPaced
<1>6. QED
  BY <1>1, <1>2, <1>3, <1>4, <1>5, StampsMove

\* A phase begins with a rest; and time only adds to one.
LEMMA StampsBetween ==
    ASSUME PoolInv, StampsPaced, [HarnessNext]_harnessVars,
           \/ BeginRound \/ BeginGenuineDemand \/ Reconcile \/ Elapse \/ UNCHANGED harnessVars
    PROVE  StampsPaced'
<1>1. seen' = seen /\ config' = config /\ now \in Nat /\ (now' = now \/ now' = now + 1)
  <2>1. seen' = seen
    BY DEF BeginRound, BeginGenuineDemand, Reconcile, Elapse, harnessVars
  <2>2. now' = now \/ now' = now + 1
    BY DEF BeginRound, BeginGenuineDemand, Reconcile, ReadShow, Elapse, Tick, vars, harnessVars
  <2>3. QED
    BY <2>1, <2>2, PoolBase, RestType
<1>2. (PacedRun' <=> PacedRun) /\ Sources' = Sources
  BY <1>1, PacedRunKept DEF Sources, Labels
<1> DEFINE d == config.pace_seconds
<1> SUFFICES ASSUME PacedRun
             PROVE  /\ \A s \in Sources :
                          /\ Spaced(seen[s], d)
                          /\ \A a \in DOMAIN seen[s] : seen[s][a] <= now'
                    /\ phase' # "done" =>
                          \A j \in Unfinished' : \A a \in DOMAIN seen[Source(j)'] :
                              seen[Source(j)'][a] + d <= todo'[j].at
  BY <1>1, <1>2 DEF StampsPaced, Spaced
<1>3. /\ d \in Nat /\ RestUntil = now + d
      /\ \A s \in Sources : \A a \in DOMAIN seen[s] : seen[s][a] \in Nat
  <2>1. \A s \in Sources : seen[s] \in Seq(0..MaxTime)
    BY DEF PoolInv, SeenKnown
  <2>2. QED
    BY <2>1, PaceType, StampIsTime
<1>4. \A s \in Sources : Spaced(seen[s], d) /\ \A a \in DOMAIN seen[s] : seen[s][a] <= now
  BY DEF StampsPaced
<1> HIDE DEF d
<1>5. \A s \in Sources : Spaced(seen[s], d) /\ \A a \in DOMAIN seen[s] : seen[s][a] <= now'
  BY <1>1, <1>3, <1>4
<1>6. CASE BeginRound \/ BeginGenuineDemand
  <2>1. phase' # "done" /\ \A j \in DOMAIN todo' : todo'[j].at >= now + d
    <3>1. config.abandon_wait_seconds \in Nat /\ config.pace_seconds = d
      BY DEF PoolInv, HarnessInv, Configs, d
    <3>2. phase' # "done" /\ \E count, seats, at :
             at >= now + d /\ todo' = Items(count, seats, at)
      <4>1. CASE BeginGenuineDemand
        BY <1>1, <1>3, <4>1 DEF BeginGenuineDemand
      <4>2. CASE BeginRound
        <5> DEFINE rest == IF round > 0 /\ config.abandon_wait_seconds > 0
                           THEN now + config.abandon_wait_seconds + config.pace_seconds
                           ELSE RestUntil
        <5>1. rest >= now + d
          BY <1>1, <1>3, <3>1
        <5>2. phase' # "done" /\ \E count, seats : todo' = Items(count, seats, rest)
          BY <4>2 DEF BeginRound
        <5> HIDE DEF rest
        <5>3. QED
          BY <5>1, <5>2
      <4>3. QED
        BY <1>6, <4>1, <4>2
    <3>3. QED
      BY <3>2 DEF Items
  <2>2. \A j \in DOMAIN todo' : Source(j)' \in Sources
    <3>1. PoolInv'
      BY PoolStep
    <3>2. PoolInv' => Sourced'
      BY SourcesKnown, PTL
    <3>3. QED
      BY <1>2, <2>1, <3>1, <3>2 DEF Sourced
  <2>3. ASSUME NEW j \in Unfinished', NEW a \in DOMAIN seen[Source(j)']
        PROVE  seen[Source(j)'][a] + d <= todo'[j].at
    <3>1. j \in DOMAIN todo' /\ Source(j)' \in Sources
      BY <2>2 DEF Unfinished
    <3> DEFINE x == seen[Source(j)'][a]
               at == todo'[j].at
    <3>2. x \in Nat /\ x <= now /\ at >= now + d /\ at \in Nat
      <4>1. at \in Nat
        <5>1. TodoKnown'
          BY PoolStep DEF PoolInv
        <5>2. QED
          BY <3>1, <5>1 DEF TodoKnown, ItemRows
      <4>2. QED
        BY <1>3, <1>4, <2>1, <3>1, <4>1
    <3> HIDE DEF x, at
    <3>3. x + d <= at
      BY <1>1, <1>3, <3>2
    <3>4. QED
      BY <3>3 DEF x, at
  <2>4. QED
    BY <1>5, <2>3
<1>7. CASE Reconcile
  BY <1>5, <1>7 DEF Reconcile
<1>8. CASE Elapse \/ UNCHANGED harnessVars
  <2>1. UNCHANGED <<todo, phase, identities, config>>
    BY <1>8 DEF Elapse, harnessVars, harness
  <2>2. ASSUME phase # "done" PROVE Unfinished' = Unfinished /\ \A j \in DOMAIN todo : Source(j)' = Source(j)
    BY <2>1, PatronKept, PacedRunKept DEF Unfinished, Source
  <2>3. phase # "done" =>
           \A j \in Unfinished : \A a \in DOMAIN seen[Source(j)] :
               seen[Source(j)][a] + d <= todo[j].at
    BY DEF StampsPaced, d
  <2>4. QED
    BY <1>5, <2>1, <2>2, <2>3 DEF Unfinished
<1>9. QED
  BY <1>6, <1>7, <1>8

LEMMA StampsStep == PoolInv /\ LabelsOwn /\ StampsPaced /\ [HarnessNext]_harnessVars => StampsPaced'
  BY StampsRequest, StampsChallenge, StampsBetween DEF HarnessNext, HarnessStep, Finished

LEMMA InitPaced == HarnessInit => LabelsOwn /\ StampsPaced
<1> SUFFICES ASSUME HarnessInit PROVE LabelsOwn /\ StampsPaced
  OBVIOUS
<1>1. /\ phase = "register" /\ identities = << >>
      /\ todo = Items(Len(Offered), 1, config.pace_seconds)
      /\ seen = [s \in Sources |-> << >>]
  BY DEF HarnessInit
<1>2. PoolInv
  BY InitPool
<1>3. \A i \in DOMAIN todo : todo[i].left = 1
  BY <1>1 DEF Items
<1>4. LabelsOwn
  <2>1. DOMAIN identities = {}
    BY <1>1
  <2>2. QED
    BY <1>1, <1>3, <2>1 DEF LabelsOwn
<1>5. StampsPaced
  <2>1. \A s \in Sources : DOMAIN seen[s] = {}
    BY <1>1
  <2>2. \A i \in Unfinished : Source(i) \in Sources
    BY <1>1, <1>2, SourceKnown DEF Unfinished
  <2>3. QED
    BY <2>1, <2>2 DEF StampsPaced, Spaced
<1>6. QED
  BY <1>4, <1>5

NoneRefused == PacedRun => CountIn(records, Actors, Steps, {"refused_by_rate_limit"}) = 0

LEMMA NoneRefusedRequest ==
    ASSUME PoolInv, LabelsOwn, StampsPaced, NoneRefused, [HarnessNext]_harnessVars,
           NEW i \in DOMAIN todo, Register(i) \/ Hold(i) \/ Confirm(i)
    PROVE  NoneRefused'
<1>1. (PacedRun' <=> PacedRun)
  BY RefusedWhenLimited, PacedRunKept
<1> SUFFICES ASSUME PacedRun
             PROVE  CountIn(records', Actors, Steps, {"refused_by_rate_limit"}) = 0
  BY <1>1 DEF NoneRefused, Actors, Steps
<1>2. \E step \in Steps : Answered(i, step, {201, 401, 403, 409})
  BY StampsRequest, RefusedWhenLimited
<1>3. PICK x : records' = OneMore(records, x) /\ x.status \in {201, 401, 403, 409}
  <2>1. PICK step \in Steps, status \in {201, 401, 403, 409} :
           records' = OneMore(records, Key(Actor, step, status, Source(i)))
    BY <1>2 DEF Answered
  <2>2. Key(Actor, step, status, Source(i)).status = status
    BY DEF Key
  <2>3. QED
    BY <2>1, <2>2
<1>4. classify(x.status) # "refused_by_rate_limit"
  BY <1>3 DEF classify
<1>5. CountIn(OneMore(records, x), Actors, Steps, {"refused_by_rate_limit"})
        = CountIn(records, Actors, Steps, {"refused_by_rate_limit"}) + 0
  <2>1. records \in [DOMAIN records -> Nat \ {0}] /\ IsFiniteSet(DOMAIN records)
    BY DEF PoolInv, RecordsKnown
  <2>2. classify(x.status) \notin {"refused_by_rate_limit"}
    BY <1>4
  <2> HIDE <1>4
  <2>3. QED
    BY <2>1, <2>2, OneMoreCount
<1>6. QED
  BY <1>3, <1>5 DEF NoneRefused

LEMMA NoneRefusedStep ==
    PoolInv /\ LabelsOwn /\ StampsPaced /\ NoneRefused /\ [HarnessNext]_harnessVars => NoneRefused'
<1> SUFFICES ASSUME PoolInv, LabelsOwn, StampsPaced, NoneRefused, [HarnessNext]_harnessVars
             PROVE  NoneRefused'
  OBVIOUS
<1>1. ASSUME records' = records PROVE NoneRefused'
  BY <1>1, PoolBase, PacedRunKept DEF NoneRefused, Actors, Steps
<1>2. CASE \E i \in DOMAIN todo : PayChallenge(i)
  BY <1>1, <1>2 DEF PayChallenge
<1>3. CASE BeginRound \/ BeginGenuineDemand \/ Reconcile \/ Elapse \/ UNCHANGED harnessVars
  BY <1>1, <1>3 DEF BeginRound, BeginGenuineDemand, Reconcile, Elapse, harness, harnessVars
<1>4. QED
  BY <1>2, <1>3, NoneRefusedRequest DEF HarnessNext, HarnessStep, Finished

\* A run that rests long enough between requests, Limit of them over a Window or
\* longer, is refused none of them, whatever its threads interleave,
\* if no two of its patrons share a source (test_half_fixes.py, "the limit must
\* hold perfectly"; fixtures.py's OPERATOR_SOURCE_LABELS are eight).
THEOREM PacedRunsAreNotRefused ==
    HarnessSpec => [](DistinctSources => PacedIsNeverRefused)
<1>1. HarnessInit => NoneRefused
  <2> SUFFICES ASSUME HarnessInit PROVE NoneRefused
    OBVIOUS
  <2>1. DOMAIN records = {}
    BY DEF HarnessInit, EmptyBag, SetToBag
  <2>2. CountIn(records, Actors, Steps, {"refused_by_rate_limit"}) = 0
    <3>1. Matching(records, Actors, Steps, {"refused_by_rate_limit"}) = {}
      BY <2>1 DEF Matching
    <3>2. QED
      BY <3>1, TotalEmpty DEF CountIn
  <2>3. QED
    BY <2>2 DEF NoneRefused
<1>2. NoneRefused => (DistinctSources => PacedIsNeverRefused)
  <2>1. CountOutcomes({"refused_by_rate_limit"})
          = CountIn(records, Actors, Steps, {"refused_by_rate_limit"})
    BY CountIsTotal DEF CountOutcomes, Actors
  <2>2. QED
    BY <2>1 DEF NoneRefused, PacedRun, PacedIsNeverRefused
<1>3. QED
  BY <1>1, <1>2, InitPaced, PoolAlwaysKept, LabelsStep, StampsStep, NoneRefusedStep, PTL
     DEF HarnessSpec

-----------------------------------------------------------------------------
(* The verdict on the secure policy. *)

LEMMA TimeRuns ==
    ASSUME PoolInv, idle \in Nat, [HarnessNext]_harnessVars
    PROVE  /\ idle' \in Nat /\ idle <= idle' /\ now \in Nat /\ now' \in Nat /\ now <= now'
           /\ Elapse \/ UNCHANGED <<idle, now>>
<1>1. now \in Nat
  BY RestType
<1>2. ASSUME NEW i \in DOMAIN todo, Register(i) \/ Hold(i) \/ Confirm(i)
      PROVE  UNCHANGED <<idle, now>>
  BY <1>2, RegisterCases, HoldCases, ConfirmCases, RequestRests
<1>3. ASSUME \/ \E i \in DOMAIN todo : PayChallenge(i)
             \/ BeginRound \/ BeginGenuineDemand \/ Reconcile \/ UNCHANGED harnessVars
      PROVE  UNCHANGED <<idle, now>>
  BY <1>3 DEF PayChallenge, BeginRound, BeginGenuineDemand, Reconcile, ReadShow, harnessVars,
              harness, vars
<1>4. Elapse \/ UNCHANGED <<idle, now>>
  BY <1>2, <1>3 DEF HarnessNext, HarnessStep, Finished
<1>5. Elapse => now' = now + 1 /\ (idle' = idle + 1 \/ idle' = idle)
  BY DEF Elapse, Tick
<1>6. QED
  BY <1>1, <1>4, <1>5

-----------------------------------------------------------------------------
\* The fixtures' tokens are good until TokenTTL, whoever registers.
TokensStand == \A p \in FixturePatrons : p \in patrons /\ tokens[p] = TokenTTL

LEMMA TokensStep == TypeOK /\ TokensStand /\ [Next]_vars => TokensStand'
<1> SUFFICES ASSUME TypeOK, TokensStand, [Next]_vars PROVE TokensStand'
  OBVIOUS
<1>1. CASE UNCHANGED <<patrons, tokens>>
  BY <1>1 DEF TokensStand
<1>2. ASSUME NEW ref, RegisterPatron(ref) PROVE TokensStand'
  <2> DEFINE id == Cardinality(SelfService) + 1
  <2>1. id \in Nat
    BY SelfServiceIdType
  <2>2. /\ patrons' = patrons \cup {id}
        /\ tokens' = [p \in patrons \cup {id} |-> IF p = id THEN now + TokenTTL ELSE tokens[p]]
    BY <1>2 DEF RegisterPatron
  <2>3. id \notin FixturePatrons
    BY <2>1, PatronsAssumption
  <2> HIDE DEF id
  <2>4. QED
    BY <2>2, <2>3 DEF TokensStand
<1>3. QED
  BY <1>1, <1>2 DEF Next, Request, PlaceHold, RefuseHold, ConfirmHold, RefuseConfirm,
     ReadShow, RefuseRead, RefuseRegistration, Tick, ClockStepsBack, vars, db

-----------------------------------------------------------------------------
\* Whoever has been taken up stays in work until it is finished.
LEMMA ThreadsType == ASSUME config \in Configs PROVE Threads \in Nat
BY DEF Threads, Configs

LEMMA ItemsNumbered == ASSUME PoolInv PROVE \E n \in Nat : DOMAIN todo = 1..n
<1>1. CASE phase = "register"
  BY <1>1, OfferedIsPrefix DEF PoolInv, HarnessInv, ItemsKnown
<1>2. CASE phase = "operator"
  <2>1. Cardinality(SelfService) \in Nat
    BY FS_Subset, FS_CardinalityType DEF PoolInv, HarnessInv, TypeOK, SelfService
  <2>2. QED
    BY <1>2, <2>1 DEF PoolInv, ItemsOfPhase
<1>3. CASE phase \in {"genuine", "done"}
  BY <1>3, PublicIsPrefix DEF PoolInv, HarnessInv, ItemsOfPhase
<1>4. QED
  BY <1>1, <1>2, <1>3 DEF PoolInv, PhaseKnown

LEMMA UnfinishedFinite ==
    ASSUME PoolInv, NEW S \in SUBSET DOMAIN todo
    PROVE  IsFiniteSet(S) /\ Cardinality(S) \in Nat
<1>1. PICK n \in Nat : DOMAIN todo = 1..n
  BY ItemsNumbered
<1>2. S \in SUBSET (1..n)
  BY <1>1
<1>3. QED
  BY <1>2, RowSetsFinite

LEMMA WorkGoesOn ==
    ASSUME PoolInv, config' = config, NEW i \in InWork, NEW granted,
           Ends(i, granted), NEW j \in InWork, j # i
    PROVE  j \in InWork' /\ todo'[j] = todo[j]
<1>1. /\ DOMAIN todo' = DOMAIN todo /\ i \in DOMAIN todo
      /\ todo'[i].left = todo[i].left - 1 /\ todo[i].left - 1 \in Nat
      /\ \A k \in DOMAIN todo : k # i => todo'[k].left = todo[k].left
  BY EndsItems
<1>2. j \in Unfinished /\ j \in DOMAIN todo /\ Before(j) < Threads
  BY DEF InWork, Unfinished
<1>3. /\ Unfinished' \subseteq Unfinished /\ Unfinished \subseteq DOMAIN todo
      /\ j \in Unfinished'
  <2>1. todo[i].left > 0
    BY DEF InWork, Unfinished
  <2>2. \A k \in DOMAIN todo : todo'[k].left > 0 => todo[k].left > 0
    BY <1>1, <2>1
  <2>3. todo'[j].left > 0
    BY <1>1, <1>2 DEF Unfinished
  <2>4. QED
    BY <1>1, <1>2, <2>2, <2>3 DEF Unfinished
<1> DEFINE B == {k \in Unfinished : k < j}
           C == {k \in Unfinished' : k < j}
<1>4. B \in SUBSET DOMAIN todo /\ C \subseteq B
  BY <1>3
<1>5. Cardinality(B) < Threads /\ Threads \in Nat /\ Threads' = Threads
  BY <1>2, ThreadsType DEF Before, Threads, PoolInv, HarnessInv
<1>6. Cardinality(C) <= Cardinality(B) /\ Cardinality(B) \in Nat /\ Cardinality(C) \in Nat
  <2>1. IsFiniteSet(B) /\ Cardinality(B) \in Nat
    BY <1>4, UnfinishedFinite
  <2> HIDE DEF B, C
  <2>2. QED
    BY <1>4, <2>1, FS_Subset, FS_CardinalityType
<1>7. j \in InWork'
  <2>1. Cardinality(C) < Threads'
    <3> HIDE DEF B, C
    <3>1. QED
      BY <1>5, <1>6
  <2>2. InWork' = {k \in Unfinished' : Cardinality({l \in Unfinished' : l < k}) < Threads'}
    BY DEF InWork, Before
  <2>3. QED
    BY <1>3, <2>1, <2>2
<1>8. todo'[j] = todo[j]
  <2>1. ~NextInLine(j)
    <3>1. Before(j) \in Nat /\ Before(j) < Threads
      BY <1>2, <1>6 DEF Before
    <3>2. QED
      BY <1>5, <3>1 DEF NextInLine
  <2>2. QED
    BY <1>2, <2>1 DEF Ends
<1>9. QED
  BY <1>7, <1>8

LEMMA WorkAwaits ==
    ASSUME PoolInv, config' = config, NEW i \in InWork, NEW n \in Nat, NEW h \in 0..n,
           Awaits(i, h)
    PROVE  InWork' = InWork
<1>1. /\ DOMAIN todo' = DOMAIN todo /\ i \in DOMAIN todo /\ todo'[i].left = todo[i].left
      /\ \A j \in DOMAIN todo : j # i => todo'[j] = todo[j]
  BY AwaitsItems
<1>2. \A j \in DOMAIN todo : todo'[j].left = todo[j].left
  BY <1>1
<1>3. Unfinished' = Unfinished /\ Threads' = Threads
  BY <1>1, <1>2 DEF Unfinished, Threads
<1>4. QED
  BY <1>3 DEF InWork, Before

-----------------------------------------------------------------------------
\* Who waits for a hold was granted it no longer ago than its rest, and what its
\* thread has added to that.
Timely(i) ==
    /\ i \in InWork /\ todo[i].has \in DOMAIN holds
    /\ todo[i].at + HoldTTL <= holds[todo[i].has].expires + config.pace_seconds
    /\ now + HoldTTL <= holds[todo[i].has].expires + config.pace_seconds + idle

OnTime ==
    /\ idle \in Nat
    /\ phase \in {"operator", "genuine"} =>
          \A i \in DOMAIN todo : todo[i].has # 0 => Timely(i)

LEMMA ExpiryType ==
    ASSUME TypeOK, NEW h \in DOMAIN holds
    PROVE  holds[h].expires \in Int
<1>1. holds[h] \in HoldRows
  BY LenProperties, ElementOfSeq DEF TypeOK
<1>2. QED
  BY <1>1 DEF HoldRows

LEMMA TimelyStays ==
    ASSUME PoolInv, [HarnessNext]_harnessVars, NEW i \in DOMAIN todo, Timely(i),
           i \in InWork', todo'[i] = todo[i], UNCHANGED <<idle, now>>
    PROVE  Timely(i)'
<1>1. /\ TypeOK /\ [Next]_vars /\ config' = config
  BY PoolBase
<1> DEFINE h == todo[i].has
<1>2. h \in DOMAIN holds /\ h \in DOMAIN holds' /\ holds'[h].expires = holds[h].expires
  <2>1. h \in DOMAIN holds
    BY DEF Timely
  <2> HIDE DEF h
  <2>2. QED
    BY <1>1, <2>1, HoldsStay
<1>3. QED
  BY <1>1, <1>2 DEF Timely

LEMMA TimelyGranted ==
    ASSUME PoolInv, [HarnessNext]_harnessVars, idle \in Nat, UNCHANGED <<idle, now>>,
           NEW i \in DOMAIN todo, i \in InWork, HoldGranted(i), Awaits(i, Len(holds'))
    PROVE  Timely(i)'
<1> DEFINE p == Patron(i)
           n == Len(holds')
<1>1. config' = config /\ TypeOK /\ RestUntil \in Nat /\ now \in Nat
      /\ config.pace_seconds \in Nat
  BY PoolBase, RestType
<1>2. n \in Nat /\ n \in 0..n /\ n \in DOMAIN holds'
  BY OwnGranted
<1>3. holds'[n].expires = now + HoldTTL
  <2>1. p \in patrons /\ \E show \in Shows : PlaceHold(p, show)
    BY <1>1, AuthenticIsPatron DEF HoldGranted
  <2> HIDE DEF p
  <2>2. PlacedRows(p)
    BY <1>1, <2>1, PlaceHoldRows
  <2>3. n = Len(holds) + 1
    <3>1. holds' \in Seq(HoldRows)
      BY PoolBase DEF TypeOK
    <3>2. Len(holds) \in Nat /\ 1..n = 1..(Len(holds) + 1)
      BY <2>2, <3>1, LenProperties DEF PlacedRows
    <3> HIDE DEF n
    <3>3. Cardinality(1..n) = n /\ Cardinality(1..(Len(holds) + 1)) = Len(holds) + 1
      BY <1>2, <3>2, CardinalityUpTo
    <3>4. QED
      BY <3>2, <3>3
  <2> HIDE DEF n
  <2>4. QED
    BY <2>2, <2>3 DEF PlacedRows, HoldRow
<1>4. i \in InWork'
  <2>1. Awaits(i, n)
    OBVIOUS
  <2> HIDE DEF n
  <2>2. QED
    BY <1>1, <1>2, <2>1, WorkAwaits
<1>5. todo'[i].has = n /\ todo'[i].at = RestUntil
  <2>1. \E m : todo[i] \in ItemRows(m)
    BY DEF PoolInv, TodoKnown
  <2> HIDE DEF n
  <2>2. todo' = [todo EXCEPT ![i].has = n, ![i].at = RestUntil]
    BY DEF Awaits, n
  <2>3. todo'[i] = [[todo[i] EXCEPT !.has = n] EXCEPT !.at = RestUntil]
    BY <2>2
  <2>4. QED
    BY <2>1, <2>3 DEF ItemRows
<1> HIDE DEF n
<1>6. RestUntil <= now + config.pace_seconds
  BY <1>1 DEF RestUntil
<1>7. HoldTTL \in Nat
  BY SettingsAssumption
<1>8. /\ todo'[i].at + HoldTTL <= holds'[todo'[i].has].expires + config.pace_seconds
      /\ now + HoldTTL <= holds'[todo'[i].has].expires + config.pace_seconds + idle
  BY <1>1, <1>3, <1>5, <1>6, <1>7
<1>9. QED
  BY <1>1, <1>2, <1>4, <1>5, <1>8 DEF Timely

LEMMA TimelyElapse ==
    ASSUME PoolInv, idle \in Nat, NEW i \in DOMAIN todo, Timely(i), phase # "register", Elapse
    PROVE  Timely(i)'
<1>1. /\ UNCHANGED <<config, phase, todo, holds>> /\ now' = now + 1
      /\ \/ idle' = idle + 1
         \/ ~Busy /\ idle' = idle
  BY DEF Elapse, Tick, db
<1>2. i \in InWork' /\ todo[i].has \in DOMAIN holds
  BY <1>1 DEF Timely, InWork, Before, Unfinished, Threads
<1>3. /\ now \in Nat /\ config.pace_seconds \in Nat /\ HoldTTL \in Nat /\ todo[i].at \in Nat
  BY RestType, SettingsAssumption DEF PoolInv, TodoKnown, ItemRows
<1> DEFINE e == holds[todo[i].has].expires
           at == todo[i].at
           pace == config.pace_seconds
<1>4. e \in Int
  BY <1>2, ExpiryType DEF PoolInv, HarnessInv
<1>5. at + HoldTTL <= e + pace /\ now + HoldTTL <= e + pace + idle
  BY DEF Timely
<1>6. ~Busy => now < at
  <2>1. ~Busy => ~Rested(i)
    BY DEF Timely, Busy
  <2>2. QED
    BY <1>3, <2>1 DEF Rested
<1> HIDE DEF e, at, pace
<1>7. now' + HoldTTL <= e + pace + idle'
  <2>1. CASE idle' = idle + 1
    BY <1>1, <1>3, <1>4, <1>5, <2>1 DEF pace
  <2>2. CASE ~Busy /\ idle' = idle
    BY <1>1, <1>3, <1>4, <1>5, <1>6, <2>2 DEF pace, at
  <2>3. QED
    BY <1>1, <2>1, <2>2
<1>8. QED
  BY <1>1, <1>2, <1>5, <1>7 DEF Timely, e, at, pace

LEMMA OnTimeStep == PoolInv /\ OnTime /\ [HarnessNext]_harnessVars => OnTime'
<1> SUFFICES ASSUME PoolInv, OnTime, [HarnessNext]_harnessVars PROVE OnTime'
  OBVIOUS
<1>1. idle \in Nat /\ idle' \in Nat /\ (Elapse \/ UNCHANGED <<idle, now>>) /\ config' = config
  BY TimeRuns, PoolBase DEF OnTime
<1>2. ASSUME phase' \notin {"operator", "genuine"} PROVE OnTime'
  BY <1>1, <1>2 DEF OnTime
<1>3. CASE phase \in {"operator", "genuine"} /\ Elapse
  <2>1. todo' = todo /\ phase' = phase
    BY <1>3 DEF Elapse
  <2>2. QED
    BY <1>1, <1>3, <2>1, TimelyElapse DEF OnTime
<1>4. ASSUME NEW i \in DOMAIN todo, Hold(i) \/ Confirm(i) PROVE OnTime'
  <2>1. /\ i \in InWork /\ UNCHANGED <<phase, idle, now>> /\ phase \in {"operator", "genuine"}
        /\ \/ Ends(i, TRUE) \/ Ends(i, FALSE)
           \/ HoldGranted(i) /\ Awaits(i, Len(holds'))
    <3>1. HoldGranted(i) => Ends(i, TRUE) \/ Awaits(i, Len(holds'))
      BY DEF HoldGranted
    <3>2. HoldRefused(i) => Ends(i, FALSE)
      BY DEF HoldRefused
    <3>3. QED
      BY <1>4, <3>1, <3>2, HoldCases, ConfirmCases, RequestRests
  <2>2. \A j \in DOMAIN todo : todo[j].has # 0 => Timely(j)
    BY <2>1 DEF OnTime
  <2>3. ASSUME NEW granted, Ends(i, granted), NEW j \in DOMAIN todo', todo'[j].has # 0
        PROVE  Timely(j)'
    <3>1. /\ DOMAIN todo' = DOMAIN todo /\ todo'[i].has = 0
          /\ \A k \in DOMAIN todo : k # i => todo'[k].has = todo[k].has
      BY <2>1, <2>3, EndsItems
    <3>2. j # i /\ j \in DOMAIN todo /\ Timely(j) /\ j \in InWork
      BY <2>2, <2>3, <3>1 DEF Timely
    <3>3. j \in InWork' /\ todo'[j] = todo[j]
      BY <1>1, <1>4, <2>1, <2>3, <3>2, WorkGoesOn
    <3>4. QED
      BY <2>1, <3>2, <3>3, TimelyStays
  <2>4. ASSUME HoldGranted(i), Awaits(i, Len(holds')), NEW j \in DOMAIN todo', todo'[j].has # 0
        PROVE  Timely(j)'
    <3> DEFINE n == Len(holds')
    <3>1. n \in Nat /\ n \in 0..n /\ Awaits(i, n)
      BY <2>4, OwnGranted
    <3> HIDE DEF n
    <3>2. /\ DOMAIN todo' = DOMAIN todo /\ InWork' = InWork
          /\ \A k \in DOMAIN todo : k # i => todo'[k] = todo[k]
      BY <1>1, <2>1, <3>1, AwaitsItems, WorkAwaits
    <3>3. CASE j = i
      BY <1>1, <2>1, <2>4, <3>3, TimelyGranted
    <3>4. CASE j # i
      <4>1. todo'[j] = todo[j] /\ j \in DOMAIN todo /\ Timely(j)
        BY <2>2, <2>4, <3>2, <3>4
      <4>2. j \in InWork'
        BY <3>2, <4>1 DEF Timely
      <4>3. QED
        BY <2>1, <4>1, <4>2, TimelyStays
    <3>5. QED
      BY <3>3, <3>4
  <2>5. \A j \in DOMAIN todo' : todo'[j].has # 0 => Timely(j)'
    BY <2>1, <2>3, <2>4
  <2>6. QED
    BY <1>1, <2>5 DEF OnTime
<1>5. CASE BeginRound \/ BeginGenuineDemand
  BY <1>1, <1>5, ItemsWait DEF OnTime
<1>6. CASE UNCHANGED harnessVars
  BY <1>6 DEF harnessVars, harness, vars, db, OnTime, Timely, InWork, Before, Unfinished, Threads
<1>7. ASSUME phase \notin {"operator", "genuine"}, Elapse PROVE OnTime'
  BY <1>2, <1>7 DEF Elapse
<1>8. ASSUME NEW i \in DOMAIN todo, PayChallenge(i) \/ Register(i) PROVE OnTime'
  BY <1>2, <1>8, RegisterCases DEF PayChallenge
<1>9. CASE Reconcile
  BY <1>2, <1>9 DEF Reconcile
<1>10. QED
  BY <1>3, <1>4, <1>5, <1>6, <1>7, <1>8, <1>9 DEF HarnessNext, HarnessStep, Finished

-----------------------------------------------------------------------------
\* Until the genuine demand begins nobody else has a hold or a ticket.
OperatorFirst ==
    phase \in {"register", "operator"} =>
        /\ \A h \in DOMAIN holds : holds[h].patron \in SelfService
        /\ \A t \in DOMAIN tickets : tickets[t].patron \in SelfService

LEMMA OperatorFirstStep == PoolInv /\ OperatorFirst /\ [HarnessNext]_harnessVars => OperatorFirst'
<1> SUFFICES ASSUME PoolInv, OperatorFirst, [HarnessNext]_harnessVars PROVE OperatorFirst'
  OBVIOUS
<1>1. TypeOK /\ LapseKeepsRows
  BY PoolBase, LapsedRows DEF TypeOK
<1>2. patrons \subseteq patrons' => SelfService \subseteq SelfService'
  BY DEF SelfService
<1>3. ASSUME patrons \subseteq patrons', UNCHANGED <<holds, tickets>>,
             phase \in {"register", "operator"} \/ phase' \notin {"register", "operator"}
      PROVE  OperatorFirst'
  BY <1>2, <1>3 DEF OperatorFirst
<1>4. ASSUME NEW i \in DOMAIN todo, Register(i) PROVE OperatorFirst'
  <2>1. phase = "register"
    BY <1>4, RegisterCases
  <2>2. QED
    BY <1>3, <1>4, <2>1, RegisterLeaves
<1>5. ASSUME NEW i \in DOMAIN todo, Hold(i), phase = "operator" PROVE OperatorFirst'
  <2> DEFINE p == Patron(i)
  <2>1. CASE HoldRefused(i)
    BY <1>3, <1>5, <2>1 DEF HoldRefused, vars, db
  <2>2. CASE HoldGranted(i)
    <3>1. p \in patrons /\ \E show \in Shows : PlaceHold(p, show)
      BY <1>1, <2>2, AuthenticIsPatron DEF HoldGranted
    <3>2. p \in SelfService
      BY <1>5, PatronKnown
    <3> HIDE DEF p
    <3>3. PlacedRows(p) /\ UNCHANGED <<patrons, tickets>>
      BY <1>1, <3>1, PlaceHoldRows DEF PlaceHold
    <3>4. /\ DOMAIN holds = 1..Len(holds) /\ DOMAIN holds' = 1..(Len(holds) + 1)
          /\ \A h \in DOMAIN holds : holds'[h].patron = holds[h].patron
          /\ holds'[Len(holds) + 1].patron = p /\ Len(holds) \in Nat
      BY <1>1, <3>3 DEF PlacedRows, LapseKeepsRows, HoldRow
    <3>5. \A h \in DOMAIN holds' : h \in DOMAIN holds \/ h = Len(holds) + 1
      BY <3>4
    <3>6. QED
      BY <1>2, <1>5, <3>2, <3>3, <3>4, <3>5 DEF OperatorFirst
  <2>3. QED
    BY <1>5, <2>1, <2>2, HoldCases
<1>6. ASSUME NEW i \in DOMAIN todo, Confirm(i), phase = "operator" PROVE OperatorFirst'
  <2> DEFINE p == Patron(i)
             k == todo[i].has
  <2>1. CASE ConfirmRefused(i)
    BY <1>3, <1>6, <2>1 DEF ConfirmRefused, vars, db
  <2>2. CASE ConfirmGranted(i)
    <3>1. p \in patrons /\ ConfirmHold(p, k)
      BY <1>1, <2>2, AuthenticIsPatron DEF ConfirmGranted
    <3>2. p \in SelfService
      BY <1>6, PatronKnown
    <3> HIDE DEF p, k
    <3>3. ConfirmedRows(p, k) /\ patrons' = patrons
      BY <1>1, <3>1, ConfirmHoldRows DEF ConfirmHold
    <3>4. /\ DOMAIN holds' = DOMAIN holds
          /\ \A h \in DOMAIN holds : holds'[h].patron = holds[h].patron
          /\ DOMAIN tickets = 1..Len(tickets) /\ DOMAIN tickets' = 1..(Len(tickets) + 1)
          /\ \A t \in DOMAIN tickets : tickets'[t] = tickets[t]
          /\ tickets'[Len(tickets) + 1].patron = p /\ Len(tickets) \in Nat
      BY <3>3 DEF ConfirmedRows
    <3>5. \A t \in DOMAIN tickets' : t \in DOMAIN tickets \/ t = Len(tickets) + 1
      BY <3>4
    <3>6. QED
      BY <1>2, <1>6, <3>2, <3>3, <3>4, <3>5 DEF OperatorFirst
  <2>3. QED
    BY <1>6, <2>1, <2>2, ConfirmCases
<1>7. ASSUME NEW i \in DOMAIN todo, Hold(i) \/ Confirm(i), phase # "operator" PROVE OperatorFirst'
  BY <1>7, HoldCases, ConfirmCases DEF OperatorFirst
<1>8. ASSUME \/ \E i \in DOMAIN todo : PayChallenge(i)
             \/ BeginRound \/ BeginGenuineDemand \/ Elapse \/ UNCHANGED harnessVars
      PROVE  OperatorFirst'
  <2>1. UNCHANGED <<patrons, holds, tickets>>
    BY <1>8 DEF PayChallenge, BeginRound, BeginGenuineDemand, Elapse, Tick, harnessVars, vars, db
  <2>2. phase' \in {"register", "operator"} => phase \in {"register", "operator"}
    BY <1>8 DEF PayChallenge, BeginRound, BeginGenuineDemand, Elapse, harnessVars, harness
  <2>3. QED
    BY <1>3, <2>1, <2>2
<1>9. CASE Reconcile
  BY <1>9 DEF Reconcile, OperatorFirst
<1>10. QED
  BY <1>4, <1>5, <1>6, <1>7, <1>8, <1>9 DEF HarnessNext, HarnessStep, Finished

-----------------------------------------------------------------------------
\* What the genuine patrons can count on: as many of them as the configuration
\* says, each once, none with less than the quota, and no rate limit that the
\* run does not keep to.
Servable ==
    /\ policy.per_source_rate_limit => PacedRun
    /\ config.genuine_patrons <= Len(GenuinePatrons)
    /\ \A i, j \in DOMAIN GenuinePatrons : GenuinePatrons[i] = GenuinePatrons[j] => i = j
    /\ SeatQuotaDefault <= HouseholdEntitlement

Undisturbed ==
    /\ ~is_vulnerable(policy) /\ config.mode = "acquire" /\ InTime
    /\ AllocationCoversEntitlements /\ config.genuine_seats_each <= SeatQuotaDefault
    /\ Servable

LEMMA UndisturbedBefore ==
    ASSUME PoolInv, idle \in Nat, [HarnessNext]_harnessVars, Undisturbed'
    PROVE  Undisturbed
<1>1. /\ idle' \in Nat /\ idle <= idle' /\ now \in Nat /\ now' \in Nat /\ now <= now'
      /\ config' = config /\ policy' = policy /\ config.pace_seconds \in Nat
      /\ HoldTTL \in Nat /\ TokenTTL \in Nat
  BY TimeRuns, PoolBase, PolicyStays, RestType, SettingsAssumption
<1>2. config'.pace_seconds + idle' < HoldTTL /\ now' < TokenTTL
  BY DEF Undisturbed, InTime
<1>3. InTime
  BY <1>1, <1>2 DEF InTime
<1>4. PacedRun' <=> PacedRun
  BY <1>1, PacedRunKept
<1>5. QED
  BY <1>1, <1>3, <1>4 DEF Undisturbed, Servable, AllocationCoversEntitlements

\* What each genuine patron has of what it is to have: its tickets, and at most
\* one hold besides, the one its item waits for.
Has(i) ==
    /\ SoldTo({Public[i]}) + todo[i].left = config.genuine_seats_each
    /\ \A h \in DOMAIN holds :
          holds[h].patron = Public[i] =>
              holds[h].state = IF todo[i].has = h THEN "held" ELSE "confirmed"

Served == Undisturbed /\ phase = "genuine" => \A i \in DOMAIN todo : Has(i)

LEMMA HeldInTime ==
    ASSUME PoolInv, OnTime, Undisturbed, phase = "genuine", NEW i \in DOMAIN todo, Has(i),
           NEW h \in DOMAIN holds, holds[h].patron = Public[i]
    PROVE  ~Due(h) /\ Lapsed[h].state = holds[h].state
<1>1. TypeOK /\ LapseKeepsRows /\ now \in Nat /\ config.pace_seconds \in Nat /\ idle \in Nat
      /\ HoldTTL \in Nat
  BY LapsedRows, RestType, SettingsAssumption DEF PoolInv, HarnessInv, TypeOK, OnTime
<1>2. ~Due(h)
  <2>1. CASE todo[i].has = h
    <3>1. h # 0
      BY <1>1 DEF LapseKeepsRows
    <3>2. now + HoldTTL <= holds[h].expires + config.pace_seconds + idle
      BY <2>1, <3>1 DEF OnTime, Timely
    <3>3. config.pace_seconds + idle < HoldTTL
      BY DEF Undisturbed, InTime
    <3>4. holds[h].expires \in Int
      BY <1>1, ExpiryType
    <3>5. ~(holds[h].expires <= now)
      BY <1>1, <3>2, <3>3, <3>4
    <3>6. QED
      BY <3>5 DEF Due
  <2>2. CASE todo[i].has # h
    BY <2>2 DEF Has, Due
  <2>3. QED
    BY <2>1, <2>2
<1>3. holds[h].state \in {"held", "confirmed"}
  BY DEF Has
<1>4. QED
  BY <1>1, <1>2, <1>3 DEF LapseKeepsRows

LEMMA HoldOutcomes ==
    ASSUME NEW i, Hold(i)
    PROVE  \/ ~Authentic(Patron(i)) \/ RateLimited(i) \/ HoldGranted(i)
           \/ \E show \in Shows : RefuseHold(Patron(i), show)
<1>1. ASSUME NEW show \in Shows, Authentic(Patron(i)), PlaceHold(Patron(i), show),
             Recorded(i, "hold", 201),
             IF WalksAway THEN Ends(i, TRUE) ELSE Awaits(i, Len(holds'))
      PROVE  HoldGranted(i)
  BY <1>1, RecordedAnswer DEF HoldGranted
<1>2. QED
  BY <1>1 DEF Hold

LEMMA ConfirmOutcomes ==
    ASSUME NEW i, Confirm(i)
    PROVE  \/ ~Authentic(Patron(i)) \/ RateLimited(i) \/ ConfirmGranted(i)
           \/ RefuseConfirm(Patron(i), todo[i].has)
<1>1. ASSUME Authentic(Patron(i)), ConfirmHold(Patron(i), todo[i].has),
             Recorded(i, "confirm", 201)
      PROVE  ConfirmGranted(i)
  BY <1>1, RecordedAnswer DEF ConfirmGranted
<1>2. QED
  BY <1>1 DEF Confirm

\* A genuine patron is known by its token, and no rate limit is in its way.
LEMMA LetThrough ==
    ASSUME PoolInv, TokensStand, LabelsOwn, StampsPaced, Undisturbed, phase = "genuine",
           [HarnessNext]_harnessVars, NEW i \in DOMAIN todo, Hold(i) \/ Confirm(i)
    PROVE  Authentic(Patron(i)) /\ ~RateLimited(i)
<1>1. Patron(i) \in FixturePatrons
  BY PatronKnown
<1>2. Authentic(Patron(i))
  <2>1. TypeOK /\ DOMAIN tokens = patrons
    BY DEF PoolInv, HarnessInv, TypeOK
  <2>2. now < TokenTTL
    BY DEF Undisturbed, InTime
  <2>3. QED
    BY <1>1, <2>1, <2>2 DEF TokensStand, Authentic
<1>3. ~RateLimited(i)
  <2>1. CASE policy.per_source_rate_limit
    <3>1. PacedRun
      BY <2>1 DEF Undisturbed, Servable
    <3>2. QED
      BY <3>1, StampsRequest
  <2>2. CASE ~policy.per_source_rate_limit
    BY <2>2 DEF RateLimited
  <2>3. QED
    BY <2>1, <2>2
<1>4. QED
  BY <1>2, <1>3

LEMMA GenuinePatronsDiffer ==
    ASSUME PoolInv, Undisturbed, phase = "genuine", NEW i \in DOMAIN todo, NEW j \in DOMAIN todo
    PROVE  /\ Patron(i) = Public[i] /\ Public[i] \in FixturePatrons
           /\ Public[i] = Public[j] => i = j
<1>1. i \in DOMAIN Public /\ j \in DOMAIN Public
  BY PublicIsPrefix DEF PoolInv, HarnessInv, ItemsOfPhase
<1>2. /\ i \in DOMAIN GenuinePatrons /\ Public[i] = GenuinePatrons[i]
      /\ j \in DOMAIN GenuinePatrons /\ Public[j] = GenuinePatrons[j]
      /\ Public[i] \in FixturePatrons
  BY <1>1, PublicIsPrefix DEF PoolInv, HarnessInv
<1>3. QED
  BY <1>2 DEF Undisturbed, Servable, Patron

\* An item that has a seat left to try and no hold has entitlement left.
LEMMA RoomForMore ==
    ASSUME PoolInv, OnTime, Undisturbed, phase = "genuine", NEW i \in InWork, Has(i),
           todo[i].has = 0
    PROVE  WithinSeatEntitlement(Lapsed, Public[i])
<1> DEFINE p == Public[i]
           n == Cardinality(TicketsOf(p))
<1>1. i \in DOMAIN todo /\ todo[i].left > 0 /\ todo[i].left \in Nat
  <2>1. i \in DOMAIN todo /\ todo[i].left > 0
    BY DEF InWork, Unfinished
  <2>2. QED
    BY <2>1 DEF PoolInv, TodoKnown, ItemRows
<1>2. LapseKeepsRows
  BY LapsedRows DEF PoolInv, HarnessInv, TypeOK
<1>3. ASSUME NEW h \in DOMAIN Lapsed, Lapsed[h].patron = p PROVE Lapsed[h].state = "confirmed"
  <2>1. h \in DOMAIN holds /\ holds[h].patron = p /\ h # 0
    BY <1>2, <1>3 DEF LapseKeepsRows
  <2>2. Lapsed[h].state = holds[h].state
    BY <1>1, <2>1, HeldInTime
  <2>3. QED
    BY <2>1, <2>2 DEF Has
<1>4. HoldsOf(Lapsed, p, "held") = {} /\ HoldsOf(Lapsed, p, "expired") = {}
  BY <1>3 DEF HoldsOf
<1>5. SoldTo({p}) = n
  BY DEF SoldTo, TicketsOf
<1>6. n \in Nat
  <2>1. Len(tickets) \in Nat /\ DOMAIN tickets = 1..Len(tickets)
    BY LenProperties DEF PoolInv, HarnessInv, TypeOK
  <2>2. TicketsOf(p) \in SUBSET (1..Len(tickets))
    BY <2>1 DEF TicketsOf
  <2>3. QED
    BY <2>1, <2>2, RowSetsFinite
<1>7. config.genuine_seats_each \in Nat /\ {SeatQuotaDefault, HouseholdEntitlement} \subseteq Nat
      /\ ReholdAllowance \in Nat
  BY SettingsAssumption DEF PoolInv, HarnessInv, Configs
<1>8. n + todo[i].left = config.genuine_seats_each
  BY <1>5 DEF Has
<1>9. /\ config.genuine_seats_each <= SeatQuotaDefault
      /\ SeatQuotaDefault <= HouseholdEntitlement
  BY DEF Undisturbed, Servable
<1> HIDE DEF p
<1>10. SeatsCharged(Lapsed, p) = n
  <2>1. Cardinality(HoldsOf(Lapsed, p, "held")) = 0
        /\ Cardinality(HoldsOf(Lapsed, p, "expired")) = 0
    BY <1>4, FS_EmptySet
  <2>2. SeatsCharged(Lapsed, p) = 0 + n + (0 - 0)
    BY <1>7, <2>1 DEF SeatsCharged
  <2>3. QED
    BY <1>6, <2>2
<1>11. n < SeatEntitlement(p)
  <2>1. n < config.genuine_seats_each
    BY <1>1, <1>6, <1>7, <1>8
  <2>2. SeatEntitlement(p) \in {SeatQuotaDefault, HouseholdEntitlement}
    BY DEF SeatEntitlement
  <2> HIDE DEF n
  <2>3. QED
    BY <1>6, <1>7, <1>9, <2>1, <2>2
<1>12. QED
  BY <1>10, <1>11 DEF WithinSeatEntitlement, p

LEMMA HoldServed ==
    ASSUME PoolInv, TokensStand, LabelsOwn, StampsPaced, OnTime, NobodyCrowdedOut, Served,
           Undisturbed, phase = "genuine", [HarnessNext]_harnessVars,
           NEW i \in DOMAIN todo, Hold(i)
    PROVE  \A j \in DOMAIN todo' : Has(j)'
<1> DEFINE p == Patron(i)
           n == Len(holds')
<1>1. i \in InWork /\ todo[i].has = 0 /\ config' = config /\ phase' = phase /\ TypeOK
      /\ LapseKeepsRows
  BY HoldCases, LapsedRows DEF PoolInv, HarnessInv, TypeOK
<1>2. \A j \in DOMAIN todo : Has(j)
  BY DEF Served
<1>3. p = Public[i] /\ p \in patrons
  <2>1. p = Public[i] /\ p \in FixturePatrons
    BY GenuinePatronsDiffer
  <2>2. QED
    BY <1>1, <2>1 DEF TypeOK
<1>4. HoldGranted(i)
  <2>1. WithinSeatEntitlement(Lapsed, p)
    BY <1>1, <1>2, <1>3, RoomForMore
  <2>2. SeatQuota /\ GovernedIdentitySupply /\ FlowState /\ AllocationCoversEntitlements
    BY DEF Undisturbed, is_vulnerable, SeatQuota, GovernedIdentitySupply, FlowState
  <2>3. \A show \in Shows : HoldAdmitted(Lapsed, p, show)
    BY <1>3, <2>1, <2>2 DEF NobodyCrowdedOut
  <2>4. QED
    BY <2>3, HoldOutcomes, LetThrough DEF RefuseHold
<1>5. (\E show \in Shows : PlaceHold(p, show)) /\ Awaits(i, n)
  BY <1>4 DEF HoldGranted, WalksAway, Undisturbed
<1>6. n \in Nat /\ n \in 0..n
  BY <1>4, OwnGranted
<1> HIDE DEF p
<1>7. PlacedRows(p) /\ tickets' = tickets
  BY <1>1, <1>3, <1>5, PlaceHoldRows DEF PlaceHold
<1>8. /\ DOMAIN holds' = DOMAIN holds \cup {n} /\ n \notin DOMAIN holds
      /\ \A h \in DOMAIN holds : holds'[h] = Lapsed[h]
      /\ holds'[n].patron = p /\ holds'[n].state = "held"
  <2>1. holds' \in Seq(HoldRows) /\ Len(holds) \in Nat
    BY <1>7, PoolBase DEF TypeOK, PlacedRows
  <2>2. 1..n = 1..(Len(holds) + 1)
    BY <1>7, <2>1, LenProperties DEF PlacedRows
  <2> HIDE DEF n
  <2>3. Cardinality(1..n) = n /\ Cardinality(1..(Len(holds) + 1)) = Len(holds) + 1
    BY <1>6, <2>1, CardinalityUpTo
  <2>4. n = Len(holds) + 1
    BY <2>2, <2>3
  <2>5. DOMAIN holds = 1..Len(holds)
    BY <1>7 DEF PlacedRows
  <2>6. n \notin 1..Len(holds) /\ 1..(Len(holds) + 1) = 1..Len(holds) \cup {n}
    BY <2>1, <2>4
  <2>7. QED
    BY <1>7, <2>4, <2>5, <2>6 DEF PlacedRows, HoldRow
<1> HIDE DEF n
<1>9. /\ DOMAIN todo' = DOMAIN todo /\ todo'[i].has = n /\ todo'[i].left = todo[i].left
      /\ \A j \in DOMAIN todo : j # i => todo'[j] = todo[j]
  BY <1>1, <1>5, <1>6, AwaitsItems
<1>10. ASSUME NEW j \in DOMAIN todo PROVE Has(j)'
  <2>1. SoldTo({Public[j]})' = SoldTo({Public[j]}) /\ Public' = Public
    BY <1>1, <1>7 DEF SoldTo, Public
  <2>2. todo'[j].left = todo[j].left
    BY <1>9
  <2>3. ASSUME NEW h \in DOMAIN holds', holds'[h].patron = Public[j]
        PROVE  holds'[h].state = IF todo'[j].has = h THEN "held" ELSE "confirmed"
    <3>1. CASE h = n
      <4>1. j = i
        BY <1>3, <1>8, <2>3, <3>1, GenuinePatronsDiffer
      <4>2. QED
        BY <1>8, <1>9, <3>1, <4>1
    <3>2. CASE h \in DOMAIN holds
      <4>1. holds[h].patron = Public[j] /\ holds'[h].state = Lapsed[h].state
        BY <1>1, <1>8, <2>3, <3>2 DEF LapseKeepsRows
      <4>2. Lapsed[h].state = holds[h].state
        BY <1>2, <3>2, <4>1, HeldInTime
      <4>3. holds[h].state = IF todo[j].has = h THEN "held" ELSE "confirmed"
        BY <1>2, <3>2, <4>1 DEF Has
      <4>4. h # 0 /\ h # n
        BY <1>1, <1>8, <3>2 DEF LapseKeepsRows
      <4>5. QED
        BY <1>1, <1>9, <4>1, <4>2, <4>3, <4>4
    <3>3. QED
      BY <1>8, <3>1, <3>2
  <2>4. SoldTo({Public[j]}) + todo[j].left = config.genuine_seats_each
    BY <1>2 DEF Has
  <2>5. QED
    BY <1>1, <2>1, <2>2, <2>3, <2>4 DEF Has
<1>11. QED
  BY <1>9, <1>10

LEMMA ConfirmServed ==
    ASSUME PoolInv, OwnHolds, FlowConsistent, TokensStand, LabelsOwn, StampsPaced, OnTime,
           Served, Undisturbed, phase = "genuine", [HarnessNext]_harnessVars,
           NEW i \in DOMAIN todo, Confirm(i)
    PROVE  \A j \in DOMAIN todo' : Has(j)'
<1> DEFINE p == Patron(i)
           k == todo[i].has
<1>1. /\ i \in InWork /\ k # 0 /\ config' = config /\ phase' = phase /\ Ends(i, TRUE)
      /\ TypeOK /\ LapseKeepsRows
  BY ConfirmCases, LapsedRows DEF PoolInv, HarnessInv, TypeOK
<1>2. \A j \in DOMAIN todo : Has(j)
  BY DEF Served
<1>3. p = Public[i] /\ p \in patrons
  <2>1. p = Public[i] /\ p \in FixturePatrons
    BY GenuinePatronsDiffer
  <2>2. QED
    BY <1>1, <2>1 DEF TypeOK
<1>4. k \in DOMAIN holds /\ holds[k].patron = p
  BY <1>1 DEF OwnHolds
<1>5. holds[k].state = "held" /\ Lapsed[k].state = "held"
  <2>1. holds[k].patron = Public[i] => holds[k].state = "held"
    BY <1>2, <1>4 DEF Has
  <2>2. holds[k].patron = Public[i]
    BY <1>3, <1>4
  <2> HIDE DEF k, p
  <2>3. Lapsed[k].state = holds[k].state
    BY <1>2, <1>4, <2>2, HeldInTime
  <2>4. QED
    BY <2>1, <2>2, <2>3
<1>6. ConfirmAdmitted(Lapsed, p, k)
  <2> HIDE DEF p, k
  <2>1. k \in DOMAIN flows /\ flows[k] \in FlowRows
    <3>1. k \in DOMAIN flows
      BY <1>1, <1>4, LenProperties DEF TypeOK
    <3>2. QED
      BY <1>1, <3>1, LenProperties, ElementOfSeq DEF TypeOK
  <2>2. flows[k].patron = p /\ (holds[k].state = "confirmed" <=> flows[k].step = "confirmed")
    BY <1>4 DEF FlowConsistent
  <2>3. flows[k].step = "held"
    BY <1>5, <2>1, <2>2 DEF FlowRows
  <2>4. QED
    BY <1>5, <2>1, <2>2, <2>3 DEF ConfirmAdmitted
<1>7. ConfirmGranted(i)
  <2>1. ~RefuseConfirm(p, k)
    BY <1>6 DEF RefuseConfirm
  <2>2. QED
    BY <2>1, ConfirmOutcomes, LetThrough
<1>8. ConfirmHold(p, k)
  BY <1>7 DEF ConfirmGranted
<1>9. ConfirmedRows(p, k)
  <2> HIDE DEF p, k
  <2>1. QED
    BY <1>1, <1>3, <1>8, ConfirmHoldRows
<1>10. /\ DOMAIN todo' = DOMAIN todo /\ todo'[i].left = todo[i].left - 1 /\ todo'[i].has = 0
       /\ \A j \in DOMAIN todo : j # i => todo'[j].left = todo[j].left /\ todo'[j].has = todo[j].has
       /\ todo[i].left - 1 \in Nat
  BY <1>1, EndsItems
<1>11. ASSUME NEW j \in DOMAIN todo PROVE Has(j)'
  <2>1. Public' = Public
    BY <1>1 DEF Public
  <2>2. p = Public[j] <=> j = i
    BY <1>3, GenuinePatronsDiffer
  <2>3. SoldTo({Public[j]}) \in Nat
        /\ SoldTo({Public[j]})' = SoldTo({Public[j]}) + IF j = i THEN 1 ELSE 0
    <3> DEFINE P == {Public[j]}
    <3>1. p \in P <=> j = i
      BY <2>2
    <3>2. SoldTo({Public[j]})' = Cardinality({t \in DOMAIN tickets' : tickets'[t].patron \in P})
      BY <2>1 DEF SoldTo
    <3> HIDE DEF P, p, k
    <3>3. /\ SoldTo(P) \in Nat
          /\ Cardinality({t \in DOMAIN tickets' : tickets'[t].patron \in P})
               = SoldTo(P) + IF p \in P THEN 1 ELSE 0
      BY <1>1, <1>3, <1>8, SoldOne
    <3>4. QED
      BY <3>1, <3>2, <3>3 DEF P
  <2>4. SoldTo({Public[j]}) + todo[j].left = config.genuine_seats_each
    BY <1>2 DEF Has
  <2>5. SoldTo({Public[j]})' + todo'[j].left = config.genuine_seats_each
    <3>1. CASE j = i
      <4>1. todo[i].left \in Nat
        BY DEF PoolInv, TodoKnown, ItemRows
      <4>2. QED
        BY <1>10, <2>3, <2>4, <3>1, <4>1
    <3>2. CASE j # i
      BY <1>10, <2>3, <2>4, <3>2
    <3>3. QED
      BY <3>1, <3>2
  <2>6. ASSUME NEW h \in DOMAIN holds', holds'[h].patron = Public[j]
        PROVE  holds'[h].state = IF todo'[j].has = h THEN "held" ELSE "confirmed"
    <3>1. h \in DOMAIN holds /\ holds[h].patron = Public[j]
          /\ holds'[h].state = IF h = k THEN "confirmed" ELSE Lapsed[h].state
      BY <1>9, <2>6 DEF ConfirmedRows
    <3>2. Lapsed[h].state = holds[h].state
      BY <1>2, <3>1, HeldInTime
    <3>3. holds[h].state = IF todo[j].has = h THEN "held" ELSE "confirmed"
      BY <1>2, <3>1 DEF Has
    <3>4. h # 0
      BY <1>1, <3>1 DEF LapseKeepsRows
    <3>5. CASE j = i
      BY <1>10, <3>1, <3>2, <3>3, <3>4, <3>5
    <3>6. CASE j # i
      <4>1. h # k
        BY <1>3, <1>4, <2>2, <3>1, <3>6
      <4>2. QED
        BY <1>10, <3>1, <3>2, <3>3, <3>6, <4>1
    <3>7. QED
      BY <3>5, <3>6
  <2>7. QED
    BY <1>1, <2>1, <2>5, <2>6 DEF Has
<1>12. QED
  BY <1>10, <1>11

\* At first each has its seats before it.
LEMMA DemandBegins ==
    ASSUME PoolInv, OperatorFirst, [HarnessNext]_harnessVars, BeginGenuineDemand
    PROVE  \A j \in DOMAIN todo' : Has(j)'
<1>1. /\ phase \in {"register", "operator"}
      /\ todo' = Items(Len(Public), config.genuine_seats_each, RestUntil)
      /\ UNCHANGED <<config, patrons, holds, tickets>>
  BY DEF BeginGenuineDemand, vars, db
<1>2. Public' = Public /\ DOMAIN Public = 1..Len(Public)
      /\ \A j \in DOMAIN Public : Public[j] \in FixturePatrons
  BY PoolBase, PublicIsPrefix DEF PoolInv, HarnessInv
<1>3. config.genuine_seats_each \in Nat
  BY DEF PoolInv, HarnessInv, Configs
<1>4. DOMAIN todo' = 1..Len(Public)
      /\ \A j \in DOMAIN todo' : todo'[j].left = config.genuine_seats_each
  BY <1>1 DEF Items
<1>5. ASSUME NEW j \in DOMAIN todo' PROVE Has(j)'
  <2>1. Public[j] \notin SelfService
    BY <1>2, <1>4 DEF SelfService
  <2>2. {t \in DOMAIN tickets : tickets[t].patron \in {Public[j]}} = {}
        /\ \A h \in DOMAIN holds : holds[h].patron # Public[j]
    BY <1>1, <2>1 DEF OperatorFirst
  <2>3. SoldTo({Public[j]})' = 0
    BY <1>1, <1>2, <2>2, FS_EmptySet DEF SoldTo
  <2>4. QED
    BY <1>1, <1>2, <1>3, <1>4, <2>2, <2>3 DEF Has
<1>6. QED
  BY <1>5

LEMMA ServedKept ==
    PoolInv /\ OwnHolds /\ FlowConsistent /\ TokensStand /\ LabelsOwn /\ StampsPaced /\ OnTime
      /\ OperatorFirst /\ NobodyCrowdedOut /\ Served /\ [HarnessNext]_harnessVars => Served'
<1> SUFFICES ASSUME PoolInv, OwnHolds, FlowConsistent, TokensStand, LabelsOwn, StampsPaced,
                    OnTime, OperatorFirst, NobodyCrowdedOut, Served, [HarnessNext]_harnessVars,
                    Undisturbed', phase' = "genuine"
             PROVE  \A j \in DOMAIN todo' : Has(j)'
  BY DEF Served
<1>1. Undisturbed
  BY UndisturbedBefore DEF OnTime
<1>2. CASE phase = "genuine"
  <2>1. ASSUME NEW i \in DOMAIN todo, Hold(i) \/ Confirm(i)
        PROVE  \A j \in DOMAIN todo' : Has(j)'
    BY <1>1, <1>2, <2>1, HoldServed, ConfirmServed
  <2>2. CASE Elapse \/ UNCHANGED harnessVars
    <3>1. UNCHANGED <<config, holds, tickets, todo>>
      BY <2>2 DEF Elapse, Tick, db, vars, harness, harnessVars
    <3>2. Public' = Public
      BY <3>1 DEF Public
    <3>3. \A j \in DOMAIN todo : Has(j)
      BY <1>1, <1>2 DEF Served
    <3>4. QED
      BY <3>1, <3>2, <3>3 DEF Has, SoldTo
  <2>3. CASE \E i \in DOMAIN todo : PayChallenge(i) \/ Register(i)
    BY <1>2, <2>3, RegisterCases DEF PayChallenge
  <2>4. CASE BeginRound \/ BeginGenuineDemand \/ Reconcile
    BY <1>2, <2>4 DEF BeginRound, BeginGenuineDemand, Reconcile
  <2>5. QED
    BY <2>1, <2>2, <2>3, <2>4 DEF HarnessNext, HarnessStep, Finished
<1>3. CASE phase # "genuine"
  <2>1. BeginGenuineDemand
    <3>1. ASSUME NEW i \in DOMAIN todo,
                 PayChallenge(i) \/ Register(i) \/ Hold(i) \/ Confirm(i)
          PROVE  phase' = phase
      BY <3>1, RegisterCases, HoldCases, ConfirmCases DEF PayChallenge
    <3>2. ~BeginRound /\ ~Reconcile /\ ~Elapse /\ ~UNCHANGED harnessVars
      BY <1>3 DEF BeginRound, Reconcile, Elapse, harnessVars, harness
    <3>3. QED
      BY <1>3, <3>1, <3>2 DEF HarnessNext, HarnessStep, Finished
  <2>2. QED
    BY <2>1, DemandBegins
<1>4. QED
  BY <1>2, <1>3

-----------------------------------------------------------------------------
\* Tickets are counted buyer by buyer.
LEMMA SoldApart ==
    ASSUME TypeOK, NEW P, NEW Q
    PROVE  /\ SoldTo(P) \in Nat /\ SoldTo(Q) \in Nat
           /\ P \cap Q = {} => SoldTo(P \cup Q) = SoldTo(P) + SoldTo(Q)
           /\ P \subseteq Q => SoldTo(P) <= SoldTo(Q)
<1> DEFINE S == {t \in DOMAIN tickets : tickets[t].patron \in P}
           T == {t \in DOMAIN tickets : tickets[t].patron \in Q}
           U == {t \in DOMAIN tickets : tickets[t].patron \in P \cup Q}
<1>1. Len(tickets) \in Nat /\ DOMAIN tickets = 1..Len(tickets)
  BY LenProperties DEF TypeOK
<1>2. S \in SUBSET (1..Len(tickets)) /\ T \in SUBSET (1..Len(tickets))
  BY <1>1
<1>3. U = S \cup T /\ (P \cap Q = {} => S \cap T = {}) /\ (P \subseteq Q => S \subseteq T)
  OBVIOUS
<1>4. SoldTo(P) = Cardinality(S) /\ SoldTo(Q) = Cardinality(T)
      /\ SoldTo(P \cup Q) = Cardinality(U)
  BY DEF SoldTo
<1> HIDE DEF S, T, U
<1>5. IsFiniteSet(S) /\ Cardinality(S) \in Nat /\ IsFiniteSet(T) /\ Cardinality(T) \in Nat
  BY <1>1, <1>2, RowSetsFinite
<1>6. S \cap T = {} => Cardinality(S \cup T) = Cardinality(S) + Cardinality(T)
  BY <1>5, DisjointCount
<1>7. S \subseteq T => Cardinality(S) <= Cardinality(T)
  BY <1>5, FS_Subset
<1>8. QED
  BY <1>3, <1>4, <1>5, <1>6, <1>7

\* If each genuine patron has what it was to have, all of them have as much as
\* there are of them times that.
LEMMA DemandAddsUp ==
    ASSUME PoolInv, Undisturbed, phase = "genuine", NEW each \in Nat,
           \A i \in DOMAIN todo : SoldTo({Public[i]}) = each
    PROVE  SoldTo(FixturePatrons) >= Len(Public) * each
<1> DEFINE n == Len(Public)
           buyers(k) == {Public[i] : i \in 1..k}
           C == {k \in Nat : k <= n /\ SoldTo(buyers(k)) # k * each}
<1>1. TypeOK /\ n \in Nat /\ DOMAIN todo = 1..n
      /\ \A i \in 1..n : Public[i] \in FixturePatrons
  BY PublicIsPrefix DEF PoolInv, HarnessInv, ItemsOfPhase
<1>2. \A i, j \in 1..n : Public[i] = Public[j] => i = j
  BY <1>1, GenuinePatronsDiffer
<1> HIDE DEF n
<1>3. C = {}
  <2> SUFFICES ASSUME C # {} PROVE FALSE
    OBVIOUS
  <2>1. PICK k \in C : \A m \in C : k <= m
    <3>1. C \in SUBSET Nat
      OBVIOUS
    <3> HIDE DEF C
    <3>2. QED
      BY <3>1, LeastExists
  <2>2. k \in Nat /\ k <= n /\ SoldTo(buyers(k)) # k * each
    OBVIOUS
  <2>3. k # 0
    <3>1. buyers(0) = {}
      OBVIOUS
    <3>2. SoldTo({}) = 0
      BY FS_EmptySet DEF SoldTo
    <3>3. 0 * each = 0
      OBVIOUS
    <3> HIDE DEF buyers, C
    <3>4. QED
      BY <2>2, <3>1, <3>2, <3>3
  <2> DEFINE m == k - 1
  <2>4. m \in Nat /\ m <= n /\ k = m + 1 /\ ~(k <= m) /\ k \in 1..n
    BY <1>1, <2>2, <2>3
  <2>5. SoldTo(buyers(m)) = m * each
    <3>1. m \notin C
      BY <2>1, <2>4
    <3>2. QED
      BY <2>4, <3>1
  <2> HIDE DEF m
  <2>6. buyers(k) = buyers(m) \cup {Public[k]} /\ buyers(m) \cap {Public[k]} = {}
    <3>1. 1..k = (1..m) \cup {k} /\ k \notin 1..m /\ 1..m \subseteq 1..n
      BY <1>1, <2>4
    <3>2. QED
      BY <1>2, <2>4, <3>1
  <2>7. SoldTo({Public[k]}) = each
    BY <1>1, <2>4
  <2> HIDE DEF buyers, C
  <2>8. SoldTo(buyers(k)) = SoldTo(buyers(m)) + SoldTo({Public[k]})
    BY <1>1, <2>6, SoldApart
  <2>9. k * each = m * each + each
    BY <2>4, OneStepFurther
  <2>10. QED
    BY <2>2, <2>5, <2>7, <2>8, <2>9
<1>4. SoldTo(buyers(n)) = n * each
  BY <1>1, <1>3
<1>5. buyers(n) \subseteq FixturePatrons
  BY <1>1
<1> HIDE DEF buyers, C
<1>6. SoldTo(buyers(n)) <= SoldTo(FixturePatrons) /\ SoldTo(FixturePatrons) \in Nat
  BY <1>1, <1>5, SoldApart
<1> DEFINE x == n * each
<1>7. x \in Nat
  BY <1>1
<1> HIDE DEF x
<1>8. SoldTo(FixturePatrons) >= x
  BY <1>4, <1>6, <1>7 DEF x
<1>9. QED
  BY <1>8 DEF x, n

DemandServed == phase = "done" /\ Undisturbed => ledger.demand_served >= demand_offered

LEMMA DemandServedStep ==
    ASSUME PoolInv, VenueInv, OnTime, Served, DemandServed, [HarnessNext]_harnessVars
    PROVE  DemandServed'
<1> SUFFICES ASSUME phase' = "done", Undisturbed'
             PROVE  ledger'.demand_served >= demand_offered'
  BY DEF DemandServed
<1>1. Undisturbed /\ demand_offered' = demand_offered
  BY UndisturbedBefore, PoolBase DEF OnTime, demand_offered
<1>2. CASE phase = "done"
  BY <1>1, <1>2, LedgerStands DEF DemandServed
<1>3. CASE Reconcile /\ ledger' = build_ledger(Lapsed)
  <2>1. phase = "genuine" /\ Unfinished = {}
    BY <1>3 DEF Reconcile
  <2>2. ledger'.demand_served = SoldTo(FixturePatrons)
    BY <1>3, LedgerSays, GrantedIsTotal DEF VenueInv
  <2>3. config.genuine_seats_each \in Nat /\ config.genuine_patrons \in Nat
    BY DEF PoolInv, HarnessInv, Configs
  <2>4. ASSUME NEW i \in DOMAIN todo PROVE SoldTo({Public[i]}) = config.genuine_seats_each
    <3>1. todo[i].left = 0
      <4>1. todo[i].left \in Nat /\ ~(todo[i].left > 0)
        BY <2>1 DEF Unfinished, PoolInv, TodoKnown, ItemRows
      <4>2. QED
        BY <4>1
    <3>2. SoldTo({Public[i]}) \in Nat
      BY SoldApart DEF PoolInv, HarnessInv
    <3>3. SoldTo({Public[i]}) + todo[i].left = config.genuine_seats_each
      BY <1>1, <2>1 DEF Served, Has
    <3>4. QED
      BY <3>1, <3>2, <3>3
  <2>5. SoldTo(FixturePatrons) >= Len(Public) * config.genuine_seats_each
    BY <1>1, <2>1, <2>3, <2>4, DemandAddsUp
  <2>6. Len(Public) = config.genuine_patrons
    <3> DEFINE a == config.genuine_patrons
               b == Len(GenuinePatrons)
    <3>1. a \in Nat /\ b \in Nat /\ a <= b /\ GenuinePatrons \in Seq(FixturePatrons)
      BY <1>1, <2>3, HarnessAssumption, LenProperties DEF Undisturbed, Servable
    <3>2. Public = SubSeq(GenuinePatrons, 1, Min({a, b}))
      BY DEF Public
    <3> HIDE DEF a, b
    <3>3. a \in Int /\ b \in Int /\ a <= b
      BY <3>1
    <3>4. Min({a, b}) = a
      <4>1. Min({a, b}) \in {a, b} /\ Min({a, b}) <= a /\ Min({a, b}) <= b
        BY <3>3, MinOfTwo
      <4>2. QED
        BY <3>3, <4>1
    <3>5. Len(SubSeq(GenuinePatrons, 1, a)) = a
      BY <3>1 DEF b
    <3>6. QED
      BY <3>2, <3>4, <3>5 DEF a
  <2>7. QED
    BY <1>1, <2>2, <2>5, <2>6 DEF demand_offered
<1>4. QED
  BY <1>2, <1>3, LedgerBuilt

\* The ledger's verdict on the secure policy is "flow limit held": the operator
\* stays within its ceiling in every mode, and as long as no deadline passes under
\* the run every genuine patron gets the seats it wants, against whatever the
\* operator does before it (engine.py's run_harness, ledger.py's verdict).
THEOREM SecureVerdictIsEarned == HarnessSpec => [](Servable => SecureVerdict)
<1>1. /\ HarnessInit => TokensStand
      /\ HarnessInit => OperatorFirst
      /\ HarnessInit => OnTime
      /\ HarnessInit => Served
      /\ HarnessInit => DemandServed
  <2> SUFFICES ASSUME HarnessInit
               PROVE  TokensStand /\ OperatorFirst /\ OnTime /\ Served /\ DemandServed
    OBVIOUS
  <2>1. /\ phase = "register" /\ idle = 0 /\ holds = << >> /\ tickets = << >>
        /\ patrons = FixturePatrons /\ tokens = [p \in FixturePatrons |-> TokenTTL]
    BY DEF HarnessInit, Init
  <2>2. QED
    BY <2>1 DEF TokensStand, OperatorFirst, OnTime, Served, DemandServed
<1>2. HarnessSpec => []FlowConsistent
  BY HarnessImplementsBookingFlow, FlowsAreConsistent, PTL
<1>3. PoolInv /\ TokensStand /\ [HarnessNext]_harnessVars => TokensStand'
  BY PoolBase, TokensStep
<1>4. PoolInv /\ VenueInv /\ OnTime /\ Served /\ DemandServed /\ [HarnessNext]_harnessVars
        => DemandServed'
  BY DemandServedStep
<1>5. OperatorHeld /\ DemandServed => (Servable => SecureVerdict)
  <2> SUFFICES ASSUME OperatorHeld, DemandServed, Servable, phase = "done",
                      ~is_vulnerable(policy)
               PROVE  /\ ledger.operator_seats <= operator_seat_ceiling
                      /\ config.mode = "acquire" /\ InTime /\ AllocationCoversEntitlements
                           /\ config.genuine_seats_each <= SeatQuotaDefault
                           => verdict(ledger) = "flow limit held"
    BY DEF SecureVerdict
  <2>1. ledger.operator_seats <= operator_seat_ceiling
    BY DEF OperatorHeld
  <2>2. QED
    BY <2>1 DEF DemandServed, Undisturbed, verdict, Bounded
<1>6. QED
  BY <1>1, <1>2, <1>3, <1>4, <1>5, OperatorFirstStep, OnTimeStep, ServedKept, InitPaced,
     LabelsStep, StampsStep, PoolAlwaysKept, OwnAlwaysKept, VenueAlwaysKept,
     HarnessNobodyIsCrowdedOut, OperatorIsHeldToItsCeiling, PTL DEF HarnessSpec
==============================================================================
