----------------------------- MODULE HarnessProofs -----------------------------
(***************************************************************************)
(* The harness is a client of the booking flow like any other: for every   *)
(* configuration and policy, what it does to the venue's tables is a       *)
(* behaviour of the booking flow.                                          *)
(***************************************************************************)
EXTENDS Harness, BookingFlowProofs, CountingProofs

-----------------------------------------------------------------------------
\* While identities are obtained the items are the candidates, in order.
ItemsKnown == phase = "register" => DOMAIN todo = DOMAIN Offered

\* The operator's identities are the self-service patrons.
IdentitiesKnown == DOMAIN identities = SelfService /\ patrons \subseteq PatronIds

HarnessInv == TypeOK /\ config \in Configs /\ ItemsKnown /\ IdentitiesKnown

LEMMA MinOfTwo ==
    ASSUME NEW a \in Int, NEW b \in Int
    PROVE  Min({a, b}) \in {a, b} /\ Min({a, b}) <= a /\ Min({a, b}) <= b
<1> DEFINE S == {a, b}
<1>1. \E x \in S : \A y \in S : x <= y
  OBVIOUS
<1>2. Min(S) \in S /\ \A y \in S : Min(S) <= y
  BY <1>1 DEF Min
<1>3. QED
  BY <1>2

\* Slicing never presents more candidates than there are.
LEMMA OfferedIsPrefix ==
    ASSUME config \in Configs
    PROVE  /\ Len(Offered) \in Nat /\ DOMAIN Offered = 1..Len(Offered)
           /\ \A i \in DOMAIN Offered : Offered[i] \in EligibilityRefs \cup {Null}
<1> DEFINE n == Min({config.operator_identities, Len(Candidates)})
<1>1. Candidates \in Seq(EligibilityRefs \cup {Null}) /\ Len(Candidates) \in Nat
  BY HarnessAssumption, LenProperties
<1>2. config.operator_identities \in Nat
  BY DEF Configs
<1>3. n \in Nat /\ n <= Len(Candidates)
  <2> DEFINE a == config.operator_identities
             b == Len(Candidates)
  <2>1. a \in Nat /\ b \in Nat
    BY <1>1, <1>2
  <2> HIDE DEF a, b
  <2>2. Min({a, b}) \in {a, b} /\ Min({a, b}) <= b
    BY <2>1, MinOfTwo
  <2>3. n = Min({a, b})
    BY DEF a, b
  <2>4. n \in Nat /\ n <= b
    BY <2>1, <2>2, <2>3
  <2>5. QED
    BY <2>4 DEF b
<1> HIDE DEF n
<1>4. Offered = SubSeq(Candidates, 1, n)
  BY DEF Offered, n
<1>5. QED
  BY <1>1, <1>3, <1>4

LEMMA InitHarnessInv == HarnessInit => Init /\ HarnessInv
<1> SUFFICES ASSUME HarnessInit PROVE Init /\ HarnessInv
  OBVIOUS
<1>1. Init /\ TypeOK
  BY InitType DEF HarnessInit
<1>2. config \in Configs
  BY HarnessAssumption DEF HarnessInit
<1>3. ItemsKnown
  BY <1>2, OfferedIsPrefix DEF HarnessInit, Items, ItemsKnown
<1>4. IdentitiesKnown
  BY <1>1 DEF HarnessInit, IdentitiesKnown, Init, SelfService, TypeOK
<1>5. QED
  BY <1>1, <1>2, <1>3, <1>4 DEF HarnessInv

\* An item of the register phase presents a reference or an invented one.
LEMMA CandidatePresented ==
    ASSUME HarnessInv, phase = "register", NEW i \in DOMAIN todo
    PROVE  Offered[i] \in EligibilityRefs \cup {Null}
BY OfferedIsPrefix DEF HarnessInv, ItemsKnown

-----------------------------------------------------------------------------
(* What each step does to the booking flow. *)

LEMMA RegisterBooks ==
    ASSUME HarnessInv, NEW i \in DOMAIN todo, Register(i)
    PROVE  [Next]_vars /\ ItemsKnown' /\ DOMAIN identities' = SelfService'
<1>1. Offered[i] \in EligibilityRefs \cup {Null}
  BY CandidatePresented DEF Register
<1>2. ItemsKnown'
  <2>1. DOMAIN todo' = DOMAIN todo /\ phase' = phase /\ config' = config
    BY DEF Register, Ends
  <2>2. QED
    BY <2>1 DEF HarnessInv, ItemsKnown, Offered
<1>3. CASE /\ RegisterPatron(Offered[i])
           /\ DOMAIN identities' = DOMAIN identities \cup (patrons' \ patrons)
  <2>1. Next
    BY <1>1, <1>3 DEF Next, Request
  <2>2. patrons \subseteq patrons'
    BY <1>3 DEF RegisterPatron
  <2>3. FixturePatrons \subseteq patrons
    BY DEF HarnessInv, TypeOK
  <2>4. DOMAIN identities' = SelfService'
    BY <1>3, <2>2, <2>3 DEF HarnessInv, IdentitiesKnown, SelfService
  <2>5. QED
    BY <1>2, <2>1, <2>4
<1>4. CASE UNCHANGED vars /\ identities' = identities
  <2>1. patrons' = patrons
    BY <1>4 DEF vars, db
  <2>2. QED
    BY <1>2, <1>4, <2>1 DEF HarnessInv, IdentitiesKnown, SelfService
<1>5. QED
  BY <1>3, <1>4 DEF Register, RefuseRegistration

\* A patron whose token was accepted is a row of the table.
LEMMA AuthenticIsPatron ==
    ASSUME TypeOK, NEW p, Authentic(p)
    PROVE  p \in patrons
BY DEF Authentic, TypeOK

LEMMA HoldBooks ==
    ASSUME HarnessInv, NEW i \in DOMAIN todo, Hold(i)
    PROVE  [Next]_vars /\ patrons' = patrons
<1> DEFINE p == Patron(i)
<1>1. \/ Authentic(p) /\ \E show \in Shows : PlaceHold(p, show) \/ RefuseHold(p, show)
      \/ UNCHANGED vars
  BY DEF Hold
<1> HIDE DEF p
<1>2. ASSUME NEW show \in Shows, Authentic(p), PlaceHold(p, show)
      PROVE  [Next]_vars /\ patrons' = patrons
  <2>1. p \in patrons /\ show \in ShowIds
    BY <1>2, AuthenticIsPatron DEF HarnessInv, ShowIds
  <2>2. QED
    BY <1>2, <2>1 DEF Next, Request, PlaceHold
<1>3. ASSUME NEW show \in Shows, RefuseHold(p, show)
      PROVE  [Next]_vars /\ patrons' = patrons
  BY <1>3 DEF RefuseHold, vars, db
<1>4. CASE UNCHANGED vars
  BY <1>4 DEF vars, db
<1>5. QED
  BY <1>1, <1>2, <1>3, <1>4

LEMMA ConfirmBooks ==
    ASSUME HarnessInv, NEW i \in DOMAIN todo, Confirm(i)
    PROVE  [Next]_vars /\ patrons' = patrons
<1> DEFINE p == Patron(i)
           h == todo[i].has
<1>1. \/ Authentic(p) /\ ConfirmHold(p, h)
      \/ RefuseConfirm(p, h)
      \/ UNCHANGED vars
  BY DEF Confirm
<1> HIDE DEF p, h
<1>2. CASE Authentic(p) /\ ConfirmHold(p, h)
  <2>1. p \in patrons
    BY <1>2, AuthenticIsPatron DEF HarnessInv
  <2>2. DOMAIN flows = 1..Len(holds) /\ Len(holds) \in Nat
    BY LenProperties DEF HarnessInv, TypeOK
  <2>3. h \in 1..(Len(holds) + 1)
    BY <1>2, <2>2 DEF ConfirmHold, ConfirmAdmitted
  <2>4. QED
    BY <1>2, <2>1, <2>3 DEF Next, Request, ConfirmHold
<1>3. CASE RefuseConfirm(p, h)
  BY <1>3 DEF RefuseConfirm, vars, db
<1>4. CASE UNCHANGED vars
  BY <1>4 DEF vars, db
<1>5. QED
  BY <1>1, <1>2, <1>3, <1>4

\* The steps between the requests, and the passing of time.
LEMMA OtherBooks ==
    ASSUME HarnessInv,
           \/ BeginRound \/ BeginGenuineDemand \/ Reconcile \/ Elapse \/ UNCHANGED harnessVars
    PROVE  [Next]_vars /\ patrons' = patrons
<1>1. CASE BeginRound
  BY <1>1 DEF BeginRound, vars, db
<1>2. CASE BeginGenuineDemand
  BY <1>2 DEF BeginGenuineDemand, vars, db
<1>3. CASE Reconcile
  <2>1. PICK show \in Shows : ReadShow(show)
    BY <1>3 DEF Reconcile
  <2>2. QED
    BY <2>1 DEF ReadShow, Next, Request, ShowIds
<1>4. CASE Elapse
  BY <1>4 DEF Elapse, Next, Tick, db
<1>5. CASE UNCHANGED harnessVars
  BY <1>5 DEF harnessVars, vars, db
<1>6. QED
  BY <1>1, <1>2, <1>3, <1>4, <1>5

\* The configuration of a run is the one it was given.
LEMMA ConfigKept == [HarnessNext]_harnessVars => config' = config
<1> SUFFICES ASSUME [HarnessNext]_harnessVars PROVE config' = config
  OBVIOUS
<1>1. ASSUME NEW i \in DOMAIN todo, PayChallenge(i) \/ Register(i) \/ Hold(i) \/ Confirm(i)
      PROVE  config' = config
  BY <1>1 DEF PayChallenge, Register, Hold, Confirm
<1>2. CASE BeginRound \/ BeginGenuineDemand \/ Reconcile \/ Elapse \/ UNCHANGED harnessVars
  BY <1>2 DEF BeginRound, BeginGenuineDemand, Reconcile, Elapse, harness, harnessVars
<1>3. QED
  BY <1>1, <1>2 DEF HarnessNext, HarnessStep, Finished

LEMMA HarnessStepInv == HarnessInv /\ [HarnessNext]_harnessVars => [Next]_vars /\ HarnessInv'
<1> SUFFICES ASSUME HarnessInv, [HarnessNext]_harnessVars
             PROVE  [Next]_vars /\ ItemsKnown' /\ DOMAIN identities' = SelfService'
  BY ConfigKept, NextType DEF HarnessInv, IdentitiesKnown, TypeOK
<1>1. ASSUME NEW i \in DOMAIN todo, Register(i)
      PROVE  [Next]_vars /\ ItemsKnown' /\ DOMAIN identities' = SelfService'
  BY <1>1, RegisterBooks
<1>2. ASSUME patrons' = patrons, identities' = identities
      PROVE  DOMAIN identities' = SelfService'
  BY <1>2 DEF HarnessInv, IdentitiesKnown, SelfService
<1>3. ASSUME NEW i \in DOMAIN todo, Hold(i) \/ Confirm(i)
      PROVE  [Next]_vars /\ ItemsKnown' /\ DOMAIN identities' = SelfService'
  <2>1. [Next]_vars /\ patrons' = patrons
    BY <1>3, HoldBooks, ConfirmBooks
  <2>2. identities' = identities /\ phase' = phase /\ phase # "register"
    BY <1>3 DEF Hold, Confirm
  <2>3. QED
    BY <1>2, <2>1, <2>2 DEF ItemsKnown
<1>4. ASSUME NEW i \in DOMAIN todo, PayChallenge(i)
      PROVE  [Next]_vars /\ ItemsKnown' /\ DOMAIN identities' = SelfService'
  <2>1. UNCHANGED vars /\ patrons' = patrons
    BY <1>4 DEF PayChallenge, vars, db
  <2>2. /\ identities' = identities /\ phase' = phase /\ config' = config
        /\ DOMAIN todo' = DOMAIN todo
    BY <1>4 DEF PayChallenge, Awaits
  <2>3. QED
    BY <1>2, <2>1, <2>2 DEF HarnessInv, ItemsKnown, Offered
<1>5. CASE BeginRound \/ BeginGenuineDemand \/ Reconcile \/ Elapse \/ UNCHANGED harnessVars
  <2>1. [Next]_vars /\ patrons' = patrons
    BY <1>5, OtherBooks
  <2>2. identities' = identities
    BY <1>5 DEF BeginRound, BeginGenuineDemand, Reconcile, Elapse, harness, harnessVars
  <2>3. phase' # "register" \/ (phase' = phase /\ todo' = todo /\ config' = config)
    BY <1>5 DEF BeginRound, BeginGenuineDemand, Reconcile, Elapse, harness, harnessVars
  <2>4. QED
    BY <1>2, <2>1, <2>2, <2>3 DEF HarnessInv, ItemsKnown, Offered
<1>6. QED
  BY <1>1, <1>3, <1>4, <1>5 DEF HarnessNext, HarnessStep, Finished

\* Whatever the harness is configured to do, its threads' requests are a
\* behaviour of the booking flow (engine.py drives the endpoints and nothing else).
THEOREM HarnessImplementsBookingFlow == HarnessSpec => Spec
  BY InitHarnessInv, HarnessStepInv, PTL DEF HarnessSpec, Spec

\* So at no volume does it get a seat twice ...
THEOREM HarnessSeatsAreExclusive == HarnessSpec => []SeatExclusive
  BY HarnessImplementsBookingFlow, SeatsAreExclusive, PTL

\* ... nor, with the flow state enforced, a seat beyond an entitlement ...
THEOREM HarnessEntitlementIsKept ==
    HarnessSpec => [](FlowState => WithinEntitlement)
  BY HarnessImplementsBookingFlow, EntitlementIsKept, PTL

\* ... nor, in however many rounds it abandons, more holds than the allowance.
THEOREM HarnessReholdsAreBounded == HarnessSpec => []ReholdBounded
  BY HarnessImplementsBookingFlow, ReholdsAreBounded, PTL

-----------------------------------------------------------------------------
(* The thread pool, the records, the challenge and the limiter. *)

ItemsOfPhase ==
    /\ phase = "operator" => DOMAIN todo = 1..Cardinality(SelfService)
    /\ phase \in {"genuine", "done"} => DOMAIN todo = 1..Len(Public)

PhaseKnown ==
    /\ phase \in {"register", "operator", "genuine", "done"}
    /\ round \in 0..Rounds
LabelsKnown == \A p \in DOMAIN identities : identities[p] \in Labels

\* What an item may have: a token, or a hold.
ItemRows(n) == [left : Nat, at : Nat, has : 0..n]
MayHave == IF phase = "register" THEN issued ELSE Len(holds)
TodoKnown == \A i \in DOMAIN todo : todo[i] \in ItemRows(MayHave)

RecordsKnown ==
    /\ records \in [DOMAIN records -> Nat \ {0}]
    /\ IsFiniteSet(DOMAIN records) /\ DOMAIN records \subseteq RecordKinds

ChallengeKnown ==
    /\ issued \in Nat /\ spent \in Nat
    /\ unspent \subseteq 1..issued /\ spent + Cardinality(unspent) = issued

SeenKnown == seen \in [Sources -> Seq(0..MaxTime)]

PoolInv ==
    /\ HarnessInv /\ IdsNumbered /\ ItemsOfPhase /\ PhaseKnown /\ LabelsKnown /\ TodoKnown
    /\ RecordsKnown /\ ChallengeKnown /\ SeenKnown

LEMMA PoolInvSuffices == PoolInv => HarnessTypeOK
<1> SUFFICES ASSUME PoolInv PROVE HarnessTypeOK
  OBVIOUS
<1>1. IsABag(records)
  BY DEF IsABag, PoolInv, RecordsKnown
<1>2. DOMAIN identities \subseteq SelfService
  BY DEF PoolInv, HarnessInv, IdentitiesKnown
<1>3. \A i \in DOMAIN todo :
         todo[i] \in [left : Nat, at : Nat,
                      has : 0..(IF phase = "register" THEN issued ELSE Len(holds))]
  BY DEF PoolInv, TodoKnown, ItemRows, MayHave
<1>4. QED
  BY <1>1, <1>2, <1>3
     DEF PoolInv, HarnessInv, PhaseKnown, LabelsKnown, RecordsKnown, ChallengeKnown, SeenKnown,
         HarnessTypeOK

LEMMA PublicIsPrefix ==
    ASSUME config \in Configs
    PROVE  /\ Len(Public) \in Nat /\ DOMAIN Public = 1..Len(Public)
           /\ \A i \in DOMAIN Public :
                 /\ Public[i] \in FixturePatrons
                 /\ i \in DOMAIN GenuinePatrons /\ Public[i] = GenuinePatrons[i]
<1> DEFINE n == Min({config.genuine_patrons, Len(GenuinePatrons)})
<1>1. GenuinePatrons \in Seq(FixturePatrons) /\ Len(GenuinePatrons) \in Nat
  BY HarnessAssumption, LenProperties
<1>2. config.genuine_patrons \in Nat
  BY DEF Configs
<1>3. n \in Nat /\ n <= Len(GenuinePatrons)
  <2> DEFINE a == config.genuine_patrons
             b == Len(GenuinePatrons)
  <2>1. a \in Nat /\ b \in Nat
    BY <1>1, <1>2
  <2> HIDE DEF a, b
  <2>2. Min({a, b}) \in {a, b} /\ Min({a, b}) <= b
    BY <2>1, MinOfTwo
  <2>3. n = Min({a, b})
    BY DEF a, b
  <2>4. n \in Nat /\ n <= b
    BY <2>1, <2>2, <2>3
  <2>5. QED
    BY <2>4 DEF b
<1> HIDE DEF n
<1>4. Public = SubSeq(GenuinePatrons, 1, n)
  BY DEF Public, n
<1>5. QED
  BY <1>1, <1>3, <1>4

\* The identities in the order of their patron_id are the ids in order.
LEMMA IdentityNumbered ==
    ASSUME IdentitiesKnown, IdsNumbered, IsFiniteSet(SelfService),
           NEW i \in 1..Cardinality(SelfService)
    PROVE  Identity(i) = i
<1> DEFINE n == Cardinality(SelfService)
<1>1. n \in Nat /\ DOMAIN identities = 1..n
  BY FS_CardinalityType DEF IdentitiesKnown, IdsNumbered
<1> HIDE DEF n
<1>2. ASSUME NEW p \in 1..n
      PROVE  Cardinality({q \in 1..n : q < p}) = p - 1
  <2>1. {q \in 1..n : q < p} = 1..(p - 1) /\ p - 1 \in Nat
    BY <1>1
  <2>2. QED
    BY <2>1, CardinalityUpTo
<1>3. \A p \in 1..n : Cardinality({q \in 1..n : q < p}) = i - 1 <=> p = i
  BY <1>1, <1>2 DEF n
<1>4. Identity(i) = CHOOSE p \in 1..n : Cardinality({q \in 1..n : q < p}) = i - 1
  BY <1>1 DEF Identity
<1>5. i \in 1..n
  BY DEF n
<1>6. QED
  BY <1>3, <1>4, <1>5

LEMMA PatronKnown ==
    ASSUME PoolInv, NEW i \in DOMAIN todo
    PROVE  /\ phase = "operator" => Patron(i) = i /\ i \in SelfService
           /\ phase = "genuine" => Patron(i) \in FixturePatrons /\ Patron(i) \in Sources
<1>1. IsFiniteSet(SelfService)
  BY FS_Subset DEF PoolInv, HarnessInv, TypeOK, SelfService
<1>2. CASE phase = "operator"
  BY <1>1, <1>2, IdentityNumbered DEF PoolInv, HarnessInv, Patron, ItemsOfPhase, IdsNumbered
<1>3. CASE phase = "genuine"
  <2>1. i \in DOMAIN Public
    BY <1>3, PublicIsPrefix DEF PoolInv, HarnessInv, ItemsOfPhase
  <2>2. Public[i] \in FixturePatrons /\ \E j \in DOMAIN GenuinePatrons : Public[i] = GenuinePatrons[j]
    BY <2>1, PublicIsPrefix DEF PoolInv, HarnessInv
  <2>3. QED
    BY <1>3, <2>2 DEF Patron, Sources
<1>4. QED
  BY <1>2, <1>3

LEMMA ItemNumber == ASSUME PoolInv, phase = "register", NEW i \in DOMAIN todo PROVE i \in Nat \ {0}
BY OfferedIsPrefix DEF PoolInv, HarnessInv, ItemsKnown

LEMMA LabelKnown ==
    ASSUME config \in Configs, NEW i \in Nat \ {0}
    PROVE  LabelOf(i) \in Labels
<1> DEFINE s == config.source_labels
<1>1. s \in Seq(Labels) /\ s # << >>
  BY DEF Configs, Labels
<1> HIDE DEF s
<1>2. Len(s) \in Nat \ {0}
  BY <1>1, LenProperties, EmptySeq
<1>3. ((i - 1) % Len(s)) + 1 \in 1..Len(s)
  BY <1>2
<1>4. s[((i - 1) % Len(s)) + 1] \in Labels
  BY <1>1, <1>3, ElementOfSeq
<1>5. QED
  BY <1>4 DEF LabelOf, s

LEMMA SourceKnown ==
    ASSUME PoolInv, NEW i \in DOMAIN todo, phase # "done"
    PROVE  /\ Source(i) \in Sources
           /\ phase \in {"register", "operator"} => Source(i) \in Labels
<1>1. CASE phase = "register"
  BY <1>1, ItemNumber, LabelKnown DEF Source, PoolInv, HarnessInv, Sources
<1>2. CASE phase = "operator"
  BY <1>2, PatronKnown DEF Source, PoolInv, HarnessInv, LabelsKnown, IdentitiesKnown, Sources
<1>3. CASE phase = "genuine"
  BY <1>3, PatronKnown DEF Source
<1>4. QED
  BY <1>1, <1>2, <1>3 DEF PoolInv, PhaseKnown

LEMMA RestType ==
    ASSUME PoolInv
    PROVE  RestUntil \in Nat /\ now \in Nat /\ config.pace_seconds \in Nat
<1>1. now \in Nat /\ config.pace_seconds \in Nat
  BY BoundsAssumption DEF PoolInv, HarnessInv, TypeOK, Configs
<1>2. QED
  BY <1>1 DEF RestUntil

\* What an end leaves of the items.
LEMMA EndsItems ==
    ASSUME PoolInv, NEW i \in InWork, NEW granted, Ends(i, granted)
    PROVE  /\ DOMAIN todo' = DOMAIN todo
           /\ i \in DOMAIN todo /\ todo[i].left - 1 \in Nat
           /\ todo'[i].left = todo[i].left - 1 /\ todo'[i].has = 0
           /\ todo'[i].at \in Nat
           /\ \A j \in DOMAIN todo :
                 j # i => todo'[j].left = todo[j].left /\ todo'[j].has = todo[j].has
           /\ \A j \in DOMAIN todo, n \in Nat :
                 todo[j] \in ItemRows(n) => todo'[j] \in ItemRows(n)
<1>1. i \in DOMAIN todo /\ todo[i].left > 0 /\ todo[i].left \in Nat
  <2>1. i \in DOMAIN todo /\ todo[i].left > 0
    BY DEF InWork, Unfinished
  <2>2. QED
    BY <2>1 DEF PoolInv, TodoKnown, ItemRows
<1>2. RestUntil \in Nat
  BY RestType
<1>3. todo[i].left - 1 \in Nat
  BY <1>1
<1>4. /\ DOMAIN todo' = DOMAIN todo
      /\ \A j \in DOMAIN todo :
           todo'[j] = IF j = i
                      THEN [left |-> todo[i].left - 1, has |-> 0,
                            at |-> IF todo[i].left - 1 = 0 THEN 0 ELSE RestUntil]
                      ELSE IF todo[i].left - 1 = 0 /\ NextInLine(j)
                      THEN [todo[j] EXCEPT !.at = RestUntil]
                      ELSE todo[j]
  BY DEF Ends, LeftAfter
<1>5. \A j \in DOMAIN todo : todo[j] \in [left : Nat, at : Nat, has : {todo[j].has}]
  <2> TAKE j \in DOMAIN todo
  <2>1. PICK n : todo[j] \in [left : Nat, at : Nat, has : 0..n]
    BY DEF PoolInv, TodoKnown, ItemRows
  <2>2. QED
    BY <2>1
<1>6. \A j \in DOMAIN todo :
         j # i => todo'[j].left = todo[j].left /\ todo'[j].has = todo[j].has
  BY <1>4, <1>5
<1>7. \A j \in DOMAIN todo, n \in Nat :
         todo[j] \in ItemRows(n) => todo'[j] \in ItemRows(n)
  <2> SUFFICES ASSUME NEW j \in DOMAIN todo, NEW n \in Nat, todo[j] \in ItemRows(n)
               PROVE  todo'[j] \in ItemRows(n)
    OBVIOUS
  <2>1. CASE j = i
    BY <1>2, <1>3, <1>4, <2>1 DEF ItemRows
  <2>2. CASE j # i
    BY <1>2, <1>4, <2>2 DEF ItemRows
  <2>3. QED
    BY <2>1, <2>2
<1>8. todo'[i].left = todo[i].left - 1 /\ todo'[i].has = 0 /\ todo'[i].at \in Nat
  BY <1>1, <1>2, <1>4
<1>9. QED
  BY <1>1, <1>3, <1>4, <1>6, <1>7, <1>8

LEMMA AwaitsItems ==
    ASSUME PoolInv, NEW i \in InWork, NEW n \in Nat, NEW h \in 0..n, Awaits(i, h)
    PROVE  /\ DOMAIN todo' = DOMAIN todo /\ i \in DOMAIN todo
           /\ todo'[i].left = todo[i].left /\ todo'[i].has = h
           /\ \A j \in DOMAIN todo : j # i => todo'[j] = todo[j]
           /\ \A j \in DOMAIN todo : todo[j] \in ItemRows(n) => todo'[j] \in ItemRows(n)
<1>1. i \in DOMAIN todo
  BY DEF InWork, Unfinished
<1>2. PICK m : todo[i] \in [left : Nat, at : Nat, has : 0..m]
  BY <1>1 DEF PoolInv, TodoKnown, ItemRows
<1> DEFINE row == todo[i]
           next == [row EXCEPT !.has = h, !.at = RestUntil]
<1>3. todo' = [todo EXCEPT ![i] = next]
  BY <1>1 DEF Awaits
<1>4. row = [left |-> row.left, at |-> row.at, has |-> row.has]
  BY <1>2
<1> HIDE DEF row
<1>5. next.left = row.left /\ next.has = h
  BY <1>4
<1>6. ASSUME row \in ItemRows(n) PROVE next \in ItemRows(n)
  BY <1>6, RestType DEF ItemRows
<1> HIDE DEF next
<1>7. todo'[i] = next /\ DOMAIN todo' = DOMAIN todo
      /\ \A j \in DOMAIN todo : j # i => todo'[j] = todo[j]
  BY <1>1, <1>3
<1>8. QED
  BY <1>1, <1>5, <1>6, <1>7 DEF row

\* A pruned deque is what is left at the end of it.
LEMMA PrunedStamps ==
    ASSUME NEW T, NEW k, NEW at, seen[k] \in Seq(T)
    PROVE  /\ Limiter!Pruned(k, at) \in Seq(T)
           /\ Len(Limiter!Pruned(k, at)) \in Nat /\ Len(Limiter!Pruned(k, at)) <= Len(seen[k])
<1> DEFINE w == seen[k]
           p == Limiter!Pruned(k, at)
           live == {j \in DOMAIN w : ~Limiter!ExpiredStamp(w[j], at)}
           first == CHOOSE j \in live : \A l \in live : j <= l
<1>1. w \in Seq(T) /\ Len(w) \in Nat /\ DOMAIN w = 1..Len(w)
  BY LenProperties
<1>2. CASE live = {}
  <2>1. p = << >>
    BY <1>2 DEF Limiter!Pruned
  <2>2. QED
    BY <1>1, <2>1
<1>3. CASE live # {}
  <2>1. p = SubSeq(w, first, Len(w))
    BY <1>3 DEF Limiter!Pruned
  <2>2. \E j \in live : \A l \in live : j <= l
    <3>1. live \in SUBSET Nat
      BY <1>1
    <3> HIDE DEF live
    <3>2. QED
      BY <1>3, <3>1, LeastExists
  <2>3. first \in 1..Len(w)
    BY <1>1, <2>2
  <2> HIDE DEF first, w
  <2>4. \A j \in first..Len(w) : w[j] \in T
    BY <1>1, <2>3, ElementOfSeq
  <2>5. SubSeq(w, first, Len(w)) \in Seq(T) /\ Len(SubSeq(w, first, Len(w))) = Len(w) - first + 1
    BY <1>1, <2>3, <2>4, SubSeqProperties
  <2>6. p \in Seq(T) /\ Len(p) \in Nat /\ Len(p) <= Len(w)
    BY <1>1, <2>1, <2>3, <2>5
  <2>7. QED
    BY <2>6 DEF w
<1>4. QED
  BY <1>2, <1>3

LEMMA CountedSeen ==
    ASSUME seen \in [Sources -> Seq(0..MaxTime)], now \in 0..MaxTime, NEW i,
           Source(i) \in Sources, Counted(i)
    PROVE  seen' \in [Sources -> Seq(0..MaxTime)]
<1> DEFINE T == 0..MaxTime
           k == Source(i)
           p == Limiter!Pruned(k, now)
<1>1. seen[k] \in Seq(T) /\ now \in T
  OBVIOUS
<1> HIDE DEF T
<1>2. p \in Seq(T)
  BY <1>1, PrunedStamps
<1>3. Append(p, now) \in Seq(T)
  BY <1>1, <1>2, AppendProperties
<1>4. seen' = [seen EXCEPT ![k] = IF ~policy.per_source_rate_limit THEN seen[k]
                                  ELSE IF RateLimited(i) THEN p ELSE Append(p, now)]
  BY DEF Counted
<1> HIDE DEF k, p
<1>5. QED
  BY <1>1, <1>2, <1>3, <1>4 DEF k, T

\* A record more of one kind.
OneMore(B, x) ==
    [e \in DOMAIN B \cup {x} |->
        IF e = x THEN (IF x \in DOMAIN B THEN B[x] + 1 ELSE 1) ELSE B[e]]

LEMMA BagGrows == ASSUME NEW B, NEW x PROVE BagAdd(B, x) = OneMore(B, x)
<1>1. CASE x \in DOMAIN B
  <2>1. DOMAIN B \cup {x} = DOMAIN B
    BY <1>1
  <2>2. QED
    BY <1>1, <2>1 DEF BagAdd, OneMore
<1>2. CASE x \notin DOMAIN B
  BY <1>2 DEF BagAdd, OneMore
<1>3. QED
  BY <1>1, <1>2

Key(a, step, status, s) ==
    [actor |-> a, step |-> step, status |-> status, source |-> s]

LEMMA RecordedKey ==
    ASSUME NEW i, NEW step, NEW status, Recorded(i, step, status)
    PROVE  records' = OneMore(records, Key(Actor, step, status, Source(i)))
BY BagGrows DEF Recorded, StepRecorded, Key

\* A request was answered with one of these statuses, and put on record.
Answered(i, step, statuses) ==
    \E status \in statuses :
        records' = OneMore(records, Key(Actor, step, status, Source(i)))

LEMMA RecordedAnswer ==
    ASSUME NEW i, NEW step, NEW statuses, NEW status \in statuses, Recorded(i, step, status)
    PROVE  Answered(i, step, statuses)
BY RecordedKey DEF Answered

LEMMA AnsweredRows ==
    ASSUME PoolInv, phase # "done", NEW i \in DOMAIN todo, NEW step \in Steps,
           NEW statuses \in SUBSET Statuses, Answered(i, step, statuses)
    PROVE  /\ RecordsKnown'
           /\ \A status \in statuses : Key(Actor, step, status, Source(i)) \in RecordKinds
<1> DEFINE K(status) == Key(Actor, step, status, Source(i))
<1>1. \A status \in Statuses : K(status) \in RecordKinds
  BY SourceKnown DEF Key, RecordKinds, Actor
<1>2. PICK status \in statuses : records' = OneMore(records, K(status))
  BY DEF Answered
<1> DEFINE k == K(status)
<1>3. k \in RecordKinds /\ records' = OneMore(records, k)
  BY <1>1, <1>2
<1> HIDE DEF k
<1>4. IsFiniteSet(DOMAIN records \cup {k})
  BY FS_AddElement DEF PoolInv, RecordsKnown
<1>5. DOMAIN records' = DOMAIN records \cup {k}
  BY <1>3 DEF OneMore
<1>6. records' \in [DOMAIN records \cup {k} -> Nat \ {0}]
  BY <1>3 DEF OneMore, PoolInv, RecordsKnown
<1>7. RecordsKnown'
  BY <1>3, <1>4, <1>5, <1>6 DEF PoolInv, RecordsKnown
<1>8. QED
  BY <1>1, <1>7

LEMMA IssueKeeps ==
    ASSUME ChallengeKnown, Challenge!Issue
    PROVE  ChallengeKnown' /\ issued' = issued + 1
<1>1. issued \in Nat /\ spent \in Nat /\ unspent \subseteq 1..issued
  BY DEF ChallengeKnown
<1>2. unspent' = unspent \cup {issued + 1} /\ issued' = issued + 1 /\ spent' = spent
  BY DEF Challenge!Issue, Challenge!NextToken
<1>3. IsFiniteSet(unspent) /\ issued + 1 \notin unspent
  <2>1. IsFiniteSet(unspent)
    BY <1>1, IntervalCount, FS_Subset
  <2>2. issued + 1 \notin 1..issued
    BY <1>1
  <2>3. QED
    BY <1>1, <2>1, <2>2
<1>4. Cardinality(unspent) \in Nat /\ Cardinality(unspent \cup {issued + 1}) = Cardinality(unspent) + 1
  BY <1>3, FS_AddElement, FS_CardinalityType
<1>5. unspent' \subseteq 1..issued'
  BY <1>1, <1>2
<1>6. spent' + Cardinality(unspent') = issued'
  <2>1. spent + Cardinality(unspent) = issued
    BY DEF ChallengeKnown
  <2>2. Cardinality(unspent') = Cardinality(unspent) + 1
    BY <1>2, <1>4
  <2>3. QED
    BY <1>1, <1>2, <1>4, <2>1, <2>2
<1>7. QED
  BY <1>1, <1>2, <1>5, <1>6 DEF ChallengeKnown

LEMMA SpendKeeps ==
    ASSUME ChallengeKnown, NEW token, Challenge!Spend(token)
    PROVE  ChallengeKnown' /\ issued' = issued /\ spent' = spent + 1
<1>1. issued \in Nat /\ spent \in Nat /\ unspent \subseteq 1..issued
  BY DEF ChallengeKnown
<1>2. token \in unspent /\ unspent' = unspent \ {token} /\ issued' = issued /\ spent' = spent + 1
  BY DEF Challenge!Spend, Challenge!UnspentAfter
<1>3. IsFiniteSet(unspent)
  BY <1>1, IntervalCount, FS_Subset
<1>4. Cardinality(unspent) \in Nat /\ Cardinality(unspent \ {token}) = Cardinality(unspent) - 1
  BY <1>2, <1>3, FS_RemoveElement, FS_CardinalityType
<1>6. spent' + Cardinality(unspent') = issued'
  <2>1. spent + Cardinality(unspent) = issued
    BY DEF ChallengeKnown
  <2>2. Cardinality(unspent') = Cardinality(unspent) - 1
    BY <1>2, <1>4
  <2>3. QED
    BY <1>1, <1>2, <1>4, <2>1, <2>2
<1>7. QED
  BY <1>1, <1>2, <1>6 DEF ChallengeKnown

LEMMA HoldsGrow ==
    ASSUME TypeOK, [Next]_vars
    PROVE  Len(holds) \in Nat /\ Len(holds') \in Nat /\ Len(holds) <= Len(holds')
<1>1. Len(holds) \in Nat /\ Len(holds') \in Nat /\ Len(Lapsed) = Len(holds)
      /\ DOMAIN holds = 1..Len(holds) /\ DOMAIN holds' = 1..Len(holds')
  BY NextType, LapsedRows, LenProperties DEF TypeOK, LapseKeepsRows
<1>2. ASSUME NEW p \in patrons, NEW show \in ShowIds, PlaceHold(p, show)
      PROVE  DOMAIN holds \subseteq DOMAIN holds'
  <2>1. PlacedRows(p)
    BY <1>2, PlaceHoldRows
  <2>2. QED
    BY <2>1 DEF PlacedRows
<1>3. ASSUME NEW p \in patrons, NEW h \in 1..(Len(holds) + 1), ConfirmHold(p, h)
      PROVE  DOMAIN holds \subseteq DOMAIN holds'
  BY <1>3, ConfirmHoldRows DEF ConfirmedRows
<1>4. CASE holds' = Lapsed \/ holds' = holds
  BY <1>1, <1>4
<1>5. DOMAIN holds \subseteq DOMAIN holds' \/ Len(holds) <= Len(holds')
  BY <1>2, <1>3, <1>4
     DEF Next, Request, RegisterPatron, ReadShow, RefuseRegistration, RefuseHold, RefuseConfirm, RefuseRead, Tick,
         ClockStepsBack, vars, db
<1>6. QED
  BY <1>1, <1>5

LEMMA RowsWiden ==
    ASSUME NEW m \in Nat, NEW n \in Nat, m <= n
    PROVE  ItemRows(m) \subseteq ItemRows(n)
BY DEF ItemRows

LEMMA ItemsType ==
    ASSUME NEW count \in Nat, NEW seats \in Nat, NEW at \in Nat, NEW n \in Nat
    PROVE  /\ DOMAIN Items(count, seats, at) = 1..count
           /\ \A i \in 1..count : Items(count, seats, at)[i] \in ItemRows(n)
BY DEF Items, ItemRows

LEMMA RoundsType == ASSUME config \in Configs PROVE Rounds \in Nat
BY DEF Configs, Rounds

LEMMA InitPool == HarnessInit => PoolInv
<1> SUFFICES ASSUME HarnessInit PROVE PoolInv
  OBVIOUS
<1>1. HarnessInv /\ Init
  BY InitHarnessInv
<1>2. SelfService = {}
  BY <1>1 DEF Init, SelfService
<1>3. IdsNumbered
  BY <1>2, FS_EmptySet DEF IdsNumbered
<1>4. phase = "register" /\ round = 0 /\ identities = << >> /\ records = EmptyBag
      /\ unspent = {} /\ issued = 0 /\ spent = 0 /\ seen = [s \in Sources |-> << >>]
  BY DEF HarnessInit, Challenge!ChallengeInit
<1>5. ItemsOfPhase /\ PhaseKnown /\ LabelsKnown
  BY <1>1, <1>4, RoundsType DEF ItemsOfPhase, PhaseKnown, LabelsKnown, HarnessInv
<1>6. TodoKnown
  <2>1. todo = Items(Len(Offered), 1, config.pace_seconds) /\ Len(Offered) \in Nat
        /\ config.pace_seconds \in Nat
    BY <1>1, OfferedIsPrefix DEF HarnessInit, HarnessInv, Configs
  <2>2. QED
    BY <1>4, <2>1, ItemsType DEF TodoKnown, MayHave
<1>7. RecordsKnown
  <2>1. DOMAIN records = {} /\ records \in [{} -> Nat \ {0}]
    BY <1>4 DEF EmptyBag, SetToBag
  <2>2. QED
    BY <2>1, FS_EmptySet DEF RecordsKnown
<1>8. ChallengeKnown
  BY <1>4, FS_EmptySet DEF ChallengeKnown
<1>9. SeenKnown
  BY <1>4 DEF SeenKnown
<1>10. QED
  BY <1>1, <1>3, <1>5, <1>6, <1>7, <1>8, <1>9 DEF PoolInv

-----------------------------------------------------------------------------
\* What every step keeps whatever the threads do.
LEMMA PoolBase ==
    ASSUME PoolInv, [HarnessNext]_harnessVars
    PROVE  /\ [Next]_vars /\ HarnessInv' /\ IdsNumbered' /\ TypeOK /\ TypeOK'
           /\ config' = config /\ Public' = Public /\ Rounds' = Rounds
           /\ Len(holds) \in Nat /\ Len(holds') \in Nat /\ Len(holds) <= Len(holds')
<1>1. [Next]_vars /\ HarnessInv'
  BY HarnessStepInv DEF PoolInv
<1>2. TypeOK /\ TypeOK'
  BY <1>1 DEF PoolInv, HarnessInv
<1>3. IdsNumbered'
  BY <1>1, <1>2, NumberedStep DEF PoolInv
<1>4. config' = config
  BY ConfigKept
<1>5. Public' = Public /\ Rounds' = Rounds
  BY <1>4 DEF Public, Rounds
<1>6. QED
  BY <1>1, <1>2, <1>3, <1>4, <1>5, HoldsGrow

LEMMA PayChallengePool ==
    ASSUME PoolInv, [HarnessNext]_harnessVars, NEW i \in DOMAIN todo, PayChallenge(i)
    PROVE  PoolInv'
<1>1. /\ phase = "register" /\ i \in InWork /\ Challenge!Issue /\ Awaits(i, issued')
      /\ UNCHANGED <<vars, seen, config, phase, round, identities, records>>
  BY DEF PayChallenge
<1>2. ChallengeKnown' /\ issued' = issued + 1 /\ issued \in Nat
  BY <1>1, IssueKeeps DEF PoolInv, ChallengeKnown
<1>3. TodoKnown'
  <2> DEFINE n == issued + 1
  <2>1. n \in Nat /\ issued' \in 0..n /\ issued <= n
    BY <1>2
  <2>2. \A j \in DOMAIN todo : todo[j] \in ItemRows(issued)
    BY <1>1 DEF PoolInv, TodoKnown, MayHave
  <2>3. \A j \in DOMAIN todo : todo[j] \in ItemRows(n)
    BY <1>2, <2>1, <2>2, RowsWiden
  <2> DEFINE h == issued'
  <2>4. h \in 0..n /\ Awaits(i, h)
    BY <1>1, <2>1
  <2> HIDE DEF h, n
  <2>5. DOMAIN todo' = DOMAIN todo /\ \A j \in DOMAIN todo : todo[j] \in ItemRows(n) => todo'[j] \in ItemRows(n)
    BY <1>1, <2>1, <2>4, AwaitsItems
  <2>6. MayHave' = n
    BY <1>1, <1>2 DEF MayHave, n
  <2>7. QED
    BY <2>3, <2>5, <2>6 DEF TodoKnown
<1>4. ItemsOfPhase' /\ PhaseKnown' /\ LabelsKnown' /\ RecordsKnown' /\ SeenKnown'
  BY <1>1, PoolBase DEF PoolInv, ItemsOfPhase, PhaseKnown, LabelsKnown, RecordsKnown, SeenKnown
<1>5. QED
  BY <1>2, <1>3, <1>4, PoolBase DEF PoolInv

\* What an answer leaves of the items.
LEMMA EndsTodo ==
    ASSUME PoolInv, NEW i \in InWork, NEW granted, Ends(i, granted),
           MayHave \in Nat, MayHave' \in Nat, MayHave <= MayHave'
    PROVE  TodoKnown' /\ DOMAIN todo' = DOMAIN todo
<1>1. \A j \in DOMAIN todo : todo[j] \in ItemRows(MayHave)
  BY DEF PoolInv, TodoKnown
<1>2. DOMAIN todo' = DOMAIN todo
      /\ \A j \in DOMAIN todo, n \in Nat : todo[j] \in ItemRows(n) => todo'[j] \in ItemRows(n)
  BY EndsItems
<1> DEFINE m == MayHave
           n == MayHave'
<1>3. m \in Nat /\ n \in Nat /\ m <= n /\ \A j \in DOMAIN todo : todo[j] \in ItemRows(m)
  BY <1>1
<1> HIDE DEF m, n
<1>4. \A j \in DOMAIN todo : todo[j] \in ItemRows(n)
  BY <1>3, RowsWiden
<1>5. \A j \in DOMAIN todo' : todo'[j] \in ItemRows(n)
  BY <1>2, <1>3, <1>4
<1>6. QED
  BY <1>2, <1>5 DEF TodoKnown, n

LEMMA CountedKeeps ==
    ASSUME PoolInv, NEW i \in DOMAIN todo, phase # "done", Counted(i)
    PROVE  SeenKnown'
<1>1. seen \in [Sources -> Seq(0..MaxTime)] /\ now \in 0..MaxTime /\ Source(i) \in Sources
  BY SourceKnown DEF PoolInv, SeenKnown, HarnessInv, TypeOK
<1>2. QED
  BY <1>1, CountedSeen DEF SeenKnown

\* What the answers to a registration come to.
RegisterGranted(i) ==
    /\ RegisterPatron(Offered[i])
    /\ identities' = [p \in DOMAIN identities \cup (patrons' \ patrons) |->
           IF p \in DOMAIN identities THEN identities[p] ELSE Source(i)]
    /\ Answered(i, "register", {201})
    /\ Gated => Challenge!Spend(todo[i].has)
RegisterRefused(i) ==
    UNCHANGED <<vars, identities>> /\ Answered(i, "register", {403, 409, 429})

LEMMA RegisterCases ==
    ASSUME NEW i, Register(i)
    PROVE  /\ phase = "register" /\ i \in InWork /\ Counted(i)
           /\ UNCHANGED <<config, phase, round, ledger, challenges, idle>>
           /\ Challenge!Spend(todo[i].has) \/ UNCHANGED challenge
           /\ (RegisterGranted(i) /\ Ends(i, TRUE)) \/ (RegisterRefused(i) /\ Ends(i, FALSE))
<1> DEFINE token == todo[i].has
           spends == Challenge!Spend(token)
           refuses == Challenge!SpendRefused(token)
           registers == RegisterPatron(Offered[i])
           known == identities' = [p \in DOMAIN identities \cup (patrons' \ patrons) |->
                        IF p \in DOMAIN identities THEN identities[p] ELSE Source(i)]
           same == UNCHANGED <<vars, identities>>
           saved == UNCHANGED challenge
           r201 == Recorded(i, "register", 201)
           r403 == Recorded(i, "register", 403)
           r409 == Recorded(i, "register", 409)
           r429 == Recorded(i, "register", 429)
           granted == Answered(i, "register", {201})
           refused == Answered(i, "register", {403, 409, 429})
           goes == Ends(i, TRUE)
           ends == Ends(i, FALSE)
<1>1. /\ phase = "register" /\ i \in InWork /\ Counted(i)
      /\ UNCHANGED <<config, phase, round, ledger, challenges, idle>>
  BY DEF Register
<1>2. refuses => saved
  BY DEF Challenge!SpendRefused, Challenge!challengeVars, challenge
<1>3. \/ r429 /\ ends /\ same /\ saved
      \/ refuses /\ r403 /\ ends /\ same
      \/ (Gated => spends) /\ (spends \/ saved) /\ registers /\ known /\ r201 /\ goes
      \/ (spends \/ saved) /\ r409 /\ ends /\ same
  <2> DEFINE denied == RefuseRegistration(Offered[i])
             unchanged == UNCHANGED <<vars, challenge, identities>>
             identified == UNCHANGED identities
  <2>1. \/ /\ RateLimited(i) /\ r429 /\ ends
           /\ unchanged
        \/ /\ ~RateLimited(i) /\ Gated /\ refuses
           /\ r403 /\ ends
           /\ same
        \/ /\ ~RateLimited(i)
           /\ \/ Gated /\ spends
              \/ ~Gated /\ saved
           /\ \/ /\ registers
                 /\ known
                 /\ r201 /\ goes
              \/ /\ denied
                 /\ r409 /\ ends
                 /\ identified
    BY DEF Register
  <2>2. (unchanged => same /\ saved) /\ (denied /\ identified => same)
    BY DEF RefuseRegistration
  <2> HIDE DEF spends, refuses, registers, known, same, saved, r201, r403, r409, r429,
               goes, ends, denied, unchanged, identified
  <2>3. QED
    BY <2>1, <2>2
<1>4. (r201 => granted) /\ (r403 => refused) /\ (r409 => refused) /\ (r429 => refused)
  BY RecordedAnswer
<1>5. registers /\ known /\ granted /\ (Gated => spends) => RegisterGranted(i)
  BY DEF RegisterGranted
<1>6. same /\ refused => RegisterRefused(i)
  BY DEF RegisterRefused
<1> HIDE DEF spends, refuses, registers, known, same, saved, r201, r403, r409, r429,
             granted, refused, goes, ends
<1>7. (spends \/ saved) /\ ((RegisterGranted(i) /\ goes) \/ (RegisterRefused(i) /\ ends))
  BY <1>2, <1>3, <1>4, <1>5, <1>6
<1>8. QED
  BY <1>1, <1>7 DEF spends, saved, goes, ends

\* A registration leaves the holds, the tickets and the clock alone.
LEMMA RegisterLeaves ==
    ASSUME NEW i, Register(i)
    PROVE  UNCHANGED <<holds, tickets, now>> /\ patrons \subseteq patrons'
<1>1. RegisterGranted(i) \/ RegisterRefused(i)
  BY RegisterCases
<1>2. RegisterGranted(i) => RegisterPatron(Offered[i])
  BY DEF RegisterGranted
<1>3. ASSUME RegisterPatron(Offered[i])
      PROVE  UNCHANGED <<holds, tickets, now>> /\ patrons \subseteq patrons'
  BY <1>3 DEF RegisterPatron
<1>4. RegisterRefused(i) => UNCHANGED <<holds, tickets, now>> /\ patrons \subseteq patrons'
  BY DEF RegisterRefused, vars, db
<1>5. QED
  BY <1>1, <1>2, <1>3, <1>4

LEMMA RegisterPool ==
    ASSUME PoolInv, [HarnessNext]_harnessVars, NEW i \in DOMAIN todo, Register(i)
    PROVE  PoolInv'
<1>1. /\ phase = "register" /\ i \in InWork /\ Counted(i)
      /\ UNCHANGED <<config, phase, round>>
      /\ Challenge!Spend(todo[i].has) \/ UNCHANGED challenge
  BY RegisterCases
<1>2. ChallengeKnown' /\ issued' = issued /\ issued \in Nat
  <2>1. CASE Challenge!Spend(todo[i].has)
    BY <2>1, SpendKeeps DEF PoolInv, ChallengeKnown
  <2>2. CASE UNCHANGED challenge
    BY <2>2 DEF challenge, PoolInv, ChallengeKnown
  <2>3. QED
    BY <1>1, <2>1, <2>2
<1>3. Answered(i, "register", {201}) \/ Answered(i, "register", {403, 409, 429})
  BY RegisterCases DEF RegisterGranted, RegisterRefused
<1>4. RecordsKnown'
  BY <1>1, <1>3, AnsweredRows DEF Steps, Statuses
<1>5. TodoKnown'
  <2>1. Ends(i, TRUE) \/ Ends(i, FALSE)
    BY RegisterCases
  <2>2. MayHave \in Nat /\ MayHave' \in Nat /\ MayHave <= MayHave'
    BY <1>1, <1>2 DEF MayHave
  <2>3. QED
    BY <1>1, <2>1, <2>2, EndsTodo
<1>6. SeenKnown'
  BY <1>1, CountedKeeps
<1>7. LabelsKnown'
  <2>1. Source(i) \in Labels /\ LabelsKnown
    BY <1>1, SourceKnown DEF PoolInv
  <2>2. CASE identities' = [p \in DOMAIN identities \cup (patrons' \ patrons) |->
                 IF p \in DOMAIN identities THEN identities[p] ELSE Source(i)]
    BY <2>1, <2>2 DEF LabelsKnown, Labels
  <2>3. CASE identities' = identities
    BY <2>1, <2>3 DEF LabelsKnown, Labels
  <2>4. QED
    BY RegisterCases, <2>2, <2>3 DEF RegisterGranted, RegisterRefused
<1>8. ItemsOfPhase' /\ PhaseKnown'
  BY <1>1, PoolBase DEF PoolInv, ItemsOfPhase, PhaseKnown
<1>9. QED
  BY <1>2, <1>4, <1>5, <1>6, <1>7, <1>8, PoolBase DEF PoolInv

\* What a request of a booking step does to the pool.
HoldGranted(i) ==
    /\ Authentic(Patron(i)) /\ \E show \in Shows : PlaceHold(Patron(i), show)
    /\ Answered(i, "hold", {201})
    /\ IF WalksAway THEN Ends(i, TRUE) ELSE Awaits(i, Len(holds'))
HoldRefused(i) ==
    UNCHANGED vars /\ Ends(i, FALSE) /\ Answered(i, "hold", {401, 409, 429})

LEMMA HoldCases ==
    ASSUME NEW i, Hold(i)
    PROVE  /\ phase \in {"operator", "genuine"} /\ i \in InWork /\ todo[i].has = 0
           /\ UNCHANGED <<challenge, config, phase, round, identities, ledger, challenges, idle>>
           /\ Counted(i) \/ UNCHANGED seen
           /\ HoldGranted(i) \/ HoldRefused(i)
<1> DEFINE p == Patron(i)
           next == IF WalksAway THEN Ends(i, TRUE) ELSE Awaits(i, Len(holds'))
<1>1. /\ phase \in {"operator", "genuine"} /\ i \in InWork /\ todo[i].has = 0
      /\ UNCHANGED <<challenge, config, phase, round, identities, ledger, challenges, idle>>
  BY DEF Hold
<1>2. \/ UNCHANGED vars /\ UNCHANGED seen /\ Recorded(i, "hold", 401) /\ Ends(i, FALSE)
      \/ Counted(i) /\ UNCHANGED vars /\ Recorded(i, "hold", 429) /\ Ends(i, FALSE)
      \/ /\ Authentic(p) /\ Counted(i)
         /\ \E show \in Shows :
            \/ PlaceHold(p, show) /\ Recorded(i, "hold", 201) /\ next
            \/ RefuseHold(p, show) /\ Recorded(i, "hold", 409) /\ Ends(i, FALSE)
  BY DEF Hold
<1>3. Authentic(p) /\ (\E show \in Shows : PlaceHold(p, show))
        /\ Answered(i, "hold", {201}) /\ next => HoldGranted(i)
  BY DEF HoldGranted
<1>4. UNCHANGED vars /\ Ends(i, FALSE) /\ Answered(i, "hold", {401, 409, 429})
        => HoldRefused(i)
  BY DEF HoldRefused
<1>5. /\ Recorded(i, "hold", 201) => Answered(i, "hold", {201})
      /\ Recorded(i, "hold", 401) => Answered(i, "hold", {401, 409, 429})
      /\ Recorded(i, "hold", 409) => Answered(i, "hold", {401, 409, 429})
      /\ Recorded(i, "hold", 429) => Answered(i, "hold", {401, 409, 429})
  BY RecordedAnswer
<1> HIDE DEF p, next
<1>6. ASSUME NEW show \in Shows, Authentic(p), PlaceHold(p, show), Recorded(i, "hold", 201), next
      PROVE  HoldGranted(i)
  BY <1>3, <1>5, <1>6
<1>7. ASSUME NEW show \in Shows, RefuseHold(p, show), Recorded(i, "hold", 409), Ends(i, FALSE)
      PROVE  HoldRefused(i)
  BY <1>4, <1>5, <1>7 DEF RefuseHold
<1>8. (Counted(i) \/ UNCHANGED seen) /\ (HoldGranted(i) \/ HoldRefused(i))
  <2>1. CASE UNCHANGED vars /\ UNCHANGED seen /\ Recorded(i, "hold", 401) /\ Ends(i, FALSE)
    BY <1>4, <1>5, <2>1
  <2>2. CASE Counted(i) /\ UNCHANGED vars /\ Recorded(i, "hold", 429) /\ Ends(i, FALSE)
    BY <1>4, <1>5, <2>2
  <2>3. CASE /\ Authentic(p) /\ Counted(i)
             /\ \E show \in Shows :
                \/ PlaceHold(p, show) /\ Recorded(i, "hold", 201) /\ next
                \/ RefuseHold(p, show) /\ Recorded(i, "hold", 409) /\ Ends(i, FALSE)
    <3>1. PICK show \in Shows :
             \/ PlaceHold(p, show) /\ Recorded(i, "hold", 201) /\ next
             \/ RefuseHold(p, show) /\ Recorded(i, "hold", 409) /\ Ends(i, FALSE)
      BY <2>3
    <3>2. HoldGranted(i) \/ HoldRefused(i)
      BY <1>6, <1>7, <2>3, <3>1
    <3>3. QED
      BY <2>3, <3>2
  <2>4. QED
    BY <1>2, <2>1, <2>2, <2>3
<1>9. QED
  BY <1>1, <1>8

ConfirmGranted(i) ==
    /\ Authentic(Patron(i)) /\ ConfirmHold(Patron(i), todo[i].has)
    /\ Answered(i, "confirm", {201})
ConfirmRefused(i) == UNCHANGED vars /\ Answered(i, "confirm", {401, 409, 429})

LEMMA ConfirmCases ==
    ASSUME NEW i, Confirm(i)
    PROVE  /\ phase \in {"operator", "genuine"} /\ i \in InWork /\ todo[i].has # 0
           /\ UNCHANGED <<challenge, config, phase, round, identities, ledger, challenges, idle>>
           /\ Counted(i) \/ UNCHANGED seen
           /\ Ends(i, TRUE) /\ (ConfirmGranted(i) \/ ConfirmRefused(i))
<1> DEFINE p == Patron(i)
           h == todo[i].has
<1>1. /\ phase \in {"operator", "genuine"} /\ i \in InWork /\ h # 0 /\ Ends(i, TRUE)
      /\ UNCHANGED <<challenge, config, phase, round, identities, ledger, challenges, idle>>
  BY DEF Confirm
<1>2. \/ UNCHANGED vars /\ UNCHANGED seen /\ Recorded(i, "confirm", 401)
      \/ Counted(i) /\ UNCHANGED vars /\ Recorded(i, "confirm", 429)
      \/ Authentic(p) /\ Counted(i) /\ ConfirmHold(p, h) /\ Recorded(i, "confirm", 201)
      \/ Counted(i) /\ RefuseConfirm(p, h) /\ Recorded(i, "confirm", 409)
  BY DEF Confirm
<1>3. Authentic(p) /\ ConfirmHold(p, h) /\ Answered(i, "confirm", {201}) => ConfirmGranted(i)
  BY DEF ConfirmGranted
<1>4. UNCHANGED vars /\ Answered(i, "confirm", {401, 409, 429}) => ConfirmRefused(i)
  BY DEF ConfirmRefused
<1>5. /\ Recorded(i, "confirm", 201) => Answered(i, "confirm", {201})
      /\ Recorded(i, "confirm", 401) => Answered(i, "confirm", {401, 409, 429})
      /\ Recorded(i, "confirm", 409) => Answered(i, "confirm", {401, 409, 429})
      /\ Recorded(i, "confirm", 429) => Answered(i, "confirm", {401, 409, 429})
  BY RecordedAnswer
<1>6. RefuseConfirm(p, h) => UNCHANGED vars
  BY DEF RefuseConfirm
<1>7. (Counted(i) \/ UNCHANGED seen) /\ (ConfirmGranted(i) \/ ConfirmRefused(i))
  <2> HIDE DEF p, h
  <2>1. QED
    BY <1>2, <1>3, <1>4, <1>5, <1>6
<1>8. QED
  BY <1>1, <1>7

LEMMA BookingPool ==
    ASSUME PoolInv, [HarnessNext]_harnessVars, NEW i \in DOMAIN todo, Hold(i) \/ Confirm(i)
    PROVE  PoolInv'
<1>1. /\ phase \in {"operator", "genuine"} /\ i \in InWork
      /\ UNCHANGED <<challenge, config, phase, round, identities>>
      /\ Counted(i) \/ UNCHANGED seen
  BY HoldCases, ConfirmCases
<1>2. patrons' = patrons
  BY HoldBooks, ConfirmBooks DEF PoolInv
<1>3. \E step \in {"hold", "confirm"} :
         Answered(i, step, {201}) \/ Answered(i, step, {401, 409, 429})
  <2>1. ASSUME Hold(i) PROVE Answered(i, "hold", {201}) \/ Answered(i, "hold", {401, 409, 429})
    <3>1. HoldGranted(i) \/ HoldRefused(i)
      BY <2>1, HoldCases
    <3>2. HoldGranted(i) => Answered(i, "hold", {201})
      BY DEF HoldGranted
    <3>3. HoldRefused(i) => Answered(i, "hold", {401, 409, 429})
      BY DEF HoldRefused
    <3>4. QED
      BY <3>1, <3>2, <3>3
  <2>2. ASSUME Confirm(i)
        PROVE  Answered(i, "confirm", {201}) \/ Answered(i, "confirm", {401, 409, 429})
    <3>1. ConfirmGranted(i) \/ ConfirmRefused(i)
      BY <2>2, ConfirmCases
    <3>2. ConfirmGranted(i) => Answered(i, "confirm", {201})
      BY DEF ConfirmGranted
    <3>3. ConfirmRefused(i) => Answered(i, "confirm", {401, 409, 429})
      BY DEF ConfirmRefused
    <3>4. QED
      BY <3>1, <3>2, <3>3
  <2>3. QED
    BY <2>1, <2>2
<1>4. RecordsKnown'
  BY <1>1, <1>3, AnsweredRows DEF Steps, Statuses
<1>5. MayHave = Len(holds) /\ MayHave' = Len(holds')
  BY <1>1 DEF MayHave
<1>6. TodoKnown' /\ DOMAIN todo' = DOMAIN todo
  <2>1. ASSUME NEW granted, Ends(i, granted) PROVE TodoKnown' /\ DOMAIN todo' = DOMAIN todo
    BY <1>1, <1>5, <2>1, EndsTodo, PoolBase
  <2>2. ASSUME Awaits(i, Len(holds')) PROVE TodoKnown' /\ DOMAIN todo' = DOMAIN todo
    <3> DEFINE n == Len(holds')
               m == Len(holds)
    <3>1. n \in Nat /\ m \in Nat /\ m <= n /\ n \in 0..n
      BY PoolBase
    <3>2. \A j \in DOMAIN todo : todo[j] \in ItemRows(m)
      BY <1>5 DEF PoolInv, TodoKnown
    <3>3. Awaits(i, n)
      BY <2>2
    <3> HIDE DEF n, m
    <3>4. \A j \in DOMAIN todo : todo[j] \in ItemRows(n)
      BY <3>1, <3>2, RowsWiden
    <3>5. DOMAIN todo' = DOMAIN todo /\ \A j \in DOMAIN todo : todo[j] \in ItemRows(n) => todo'[j] \in ItemRows(n)
      BY <1>1, <3>1, <3>3, AwaitsItems
    <3>6. QED
      BY <1>5, <3>4, <3>5 DEF TodoKnown, n
  <2>3. Ends(i, TRUE) \/ Ends(i, FALSE) \/ Awaits(i, Len(holds'))
    BY HoldCases, ConfirmCases DEF HoldGranted, HoldRefused
  <2>4. QED
    BY <2>1, <2>2, <2>3
<1>7. SeenKnown'
  BY <1>1, CountedKeeps DEF PoolInv, SeenKnown
<1>8. ChallengeKnown' /\ LabelsKnown' /\ PhaseKnown'
  BY <1>1, PoolBase DEF PoolInv, ChallengeKnown, challenge, LabelsKnown, PhaseKnown
<1>9. ItemsOfPhase'
  BY <1>1, <1>2, <1>6, PoolBase DEF PoolInv, ItemsOfPhase, SelfService
<1>10. QED
  BY <1>4, <1>6, <1>7, <1>8, <1>9, PoolBase DEF PoolInv

LEMMA BetweenPool ==
    ASSUME PoolInv, [HarnessNext]_harnessVars,
           \/ BeginRound \/ BeginGenuineDemand \/ Reconcile \/ Elapse \/ UNCHANGED harnessVars
    PROVE  PoolInv'
<1>1. /\ patrons' = patrons
      /\ UNCHANGED <<challenge, seen, config, identities, records>>
  BY OtherBooks
     DEF PoolInv, BeginRound, BeginGenuineDemand, Reconcile, Elapse, harness, harnessVars
<1>2. ChallengeKnown' /\ LabelsKnown' /\ RecordsKnown' /\ SeenKnown'
  BY <1>1 DEF PoolInv, ChallengeKnown, challenge, LabelsKnown, RecordsKnown, SeenKnown
<1>3. Cardinality(SelfService) \in Nat /\ SelfService' = SelfService
      /\ Cardinality(DOMAIN identities) = Cardinality(SelfService)
  BY <1>1, FS_Subset, FS_CardinalityType
     DEF PoolInv, HarnessInv, TypeOK, SelfService, IdentitiesKnown
<1>4. /\ RestUntil \in Nat /\ now \in Nat /\ config.pace_seconds \in Nat
      /\ config.abandon_wait_seconds \in Nat /\ config.operator_seats_per_identity \in Nat
      /\ config.genuine_seats_each \in Nat
  BY RestType DEF PoolInv, HarnessInv, Configs
<1>5. CASE BeginRound
  <2> DEFINE at == IF round > 0 /\ config.abandon_wait_seconds > 0
                   THEN now + config.abandon_wait_seconds + config.pace_seconds ELSE RestUntil
             count == Cardinality(SelfService)
             seats == config.operator_seats_per_identity
             n == Len(holds')
  <2>1. at \in Nat /\ n \in Nat /\ count \in Nat /\ seats \in Nat
    BY <1>3, <1>4, PoolBase
  <2>2. todo' = Items(count, seats, at) /\ phase' = "operator" /\ round' = round + 1
        /\ MoreRounds
    BY <1>3, <1>5 DEF BeginRound
  <2>3. MayHave' = n
    BY <2>2 DEF MayHave
  <2> HIDE DEF at, count, seats, n
  <2>4. TodoKnown' /\ DOMAIN todo' = 1..count
    BY <2>1, <2>2, <2>3, ItemsType DEF TodoKnown
  <2>5. ItemsOfPhase'
    BY <1>3, <2>2, <2>4 DEF ItemsOfPhase, count
  <2>6. PhaseKnown'
    <3>1. Rounds \in Nat /\ round \in 0..Rounds /\ Rounds' = Rounds
      BY RoundsType, PoolBase DEF PoolInv, HarnessInv, PhaseKnown
    <3>2. round + 1 \in 0..Rounds
      BY <2>2, <3>1 DEF MoreRounds
    <3>3. QED
      BY <2>2, <3>1, <3>2 DEF PhaseKnown
  <2>7. QED
    BY <1>2, <2>4, <2>5, <2>6, PoolBase DEF PoolInv
<1>6. CASE BeginGenuineDemand
  <2> DEFINE count == Len(Public)
             seats == config.genuine_seats_each
             n == Len(holds')
             at == RestUntil
  <2>1. at \in Nat /\ n \in Nat /\ count \in Nat /\ seats \in Nat
    BY <1>4, PoolBase, PublicIsPrefix DEF PoolInv, HarnessInv
  <2>2. todo' = Items(count, seats, at) /\ phase' = "genuine" /\ round' = round
        /\ Public' = Public
    BY <1>6, PoolBase DEF BeginGenuineDemand
  <2>3. MayHave' = n
    BY <2>2 DEF MayHave
  <2> HIDE DEF at, count, seats, n
  <2>4. TodoKnown' /\ DOMAIN todo' = 1..count
    BY <2>1, <2>2, <2>3, ItemsType DEF TodoKnown
  <2>5. ItemsOfPhase' /\ PhaseKnown'
    BY <2>2, <2>4, PoolBase DEF ItemsOfPhase, count, PoolInv, PhaseKnown
  <2>7. QED
    BY <1>2, <2>4, <2>5, PoolBase DEF PoolInv
<1>7. CASE Reconcile \/ Elapse \/ UNCHANGED harnessVars
  <2>1. /\ todo' = todo /\ round' = round
        /\ phase' = phase \/ (phase = "genuine" /\ phase' = "done")
    BY <1>7 DEF Reconcile, Elapse, harness, harnessVars
  <2>2. ItemsOfPhase' /\ PhaseKnown'
    BY <1>3, <2>1, PoolBase DEF ItemsOfPhase, PoolInv, PhaseKnown
  <2>3. TodoKnown'
    <3> DEFINE m == MayHave
               n == MayHave'
    <3>1. m \in Nat /\ n \in Nat /\ m <= n
      BY <1>1, <2>1, PoolBase DEF MayHave, PoolInv, ChallengeKnown, challenge
    <3>2. \A j \in DOMAIN todo : todo[j] \in ItemRows(m)
      BY DEF PoolInv, TodoKnown
    <3> HIDE DEF m, n
    <3>3. \A j \in DOMAIN todo : todo[j] \in ItemRows(n)
      BY <3>1, <3>2, RowsWiden
    <3>4. QED
      BY <2>1, <3>3 DEF TodoKnown, n
  <2>4. QED
    BY <1>2, <2>2, <2>3, PoolBase DEF PoolInv
<1>8. QED
  BY <1>5, <1>6, <1>7

LEMMA PoolStep == PoolInv /\ [HarnessNext]_harnessVars => PoolInv'
<1> SUFFICES ASSUME PoolInv, [HarnessNext]_harnessVars PROVE PoolInv'
  OBVIOUS
<1>1. QED
  BY PayChallengePool, RegisterPool, BookingPool, BetweenPool
     DEF HarnessNext, HarnessStep, Finished

LEMMA PoolAlwaysKept == HarnessSpec => []PoolInv
  BY InitPool, PoolStep, PTL DEF HarnessSpec

\* Type correctness of the harness: whatever it is configured to do, no thread
\* takes up an item that is not there, waits for a hold or a challenge nobody
\* issued, or records an answer of nobody's (engine.py, run_harness).
THEOREM HarnessTypeCorrect == HarnessSpec => []HarnessTypeOK
  BY PoolAlwaysKept, PoolInvSuffices, PTL

-----------------------------------------------------------------------------
(* A thread confirms its own holds, so the quota stands without the flow     *)
(* state: what breaks strategy A alone is a confirmation of another's hold.  *)

\* An item waits for a hold of its own patron.
OwnHolds ==
    phase \in {"operator", "genuine"} =>
        \A i \in DOMAIN todo :
            todo[i].has # 0 =>
                todo[i].has \in DOMAIN holds /\ holds[todo[i].has].patron = Patron(i)

LEMMA PatronKept ==
    ASSUME UNCHANGED <<identities, config, phase>>, NEW i
    PROVE  Patron(i)' = Patron(i)
BY DEF Patron, Identity, Public

\* What it waits for is not taken from it ...
LEMMA OwnStays ==
    ASSUME PoolInv, OwnHolds, [HarnessNext]_harnessVars, phase \in {"operator", "genuine"},
           NEW i \in DOMAIN todo, todo[i].has # 0
    PROVE  todo[i].has \in DOMAIN holds' /\ holds'[todo[i].has].patron = Patron(i)
<1> DEFINE h == todo[i].has
<1>1. h \in DOMAIN holds /\ holds[h].patron = Patron(i)
  BY DEF OwnHolds
<1>2. TypeOK /\ [Next]_vars
  BY PoolBase
<1> HIDE DEF h
<1>3. h \in DOMAIN holds' /\ holds'[h].patron = holds[h].patron
  BY <1>1, <1>2, HoldsStay
<1>4. QED
  BY <1>1, <1>3 DEF h

\* ... and what it comes to wait for is what was granted to it.
LEMMA OwnGranted ==
    ASSUME PoolInv, NEW i \in DOMAIN todo, HoldGranted(i)
    PROVE  /\ Len(holds') \in DOMAIN holds' /\ holds'[Len(holds')].patron = Patron(i)
           /\ Len(holds') \in Nat
<1> DEFINE p == Patron(i)
<1>1. p \in patrons /\ \E show \in Shows : PlaceHold(p, show)
  BY AuthenticIsPatron DEF HoldGranted, PoolInv, HarnessInv
<1> HIDE DEF p
<1>2. PICK show \in Shows : PlaceHold(p, show)
  BY <1>1
<1>3. PlacedRows(p) /\ holds' \in Seq(HoldRows)
  BY <1>1, <1>2, PlaceHoldRows, PlaceHoldType DEF PoolInv, HarnessInv, TypeOK
<1>4. Len(holds') \in Nat /\ DOMAIN holds' = 1..Len(holds')
  BY <1>3, LenProperties
<1>5. DOMAIN holds' = 1..(Len(holds) + 1) /\ Len(holds) \in Nat
      /\ holds'[Len(holds) + 1].patron = p
  BY <1>3 DEF PlacedRows, HoldRow
<1>6. Len(holds') = Len(holds) + 1
  <2>1. Cardinality(1..Len(holds')) = Len(holds')
        /\ Cardinality(1..(Len(holds) + 1)) = Len(holds) + 1
    BY <1>4, <1>5, CardinalityUpTo
  <2>2. QED
    BY <1>4, <1>5, <2>1
<1>7. QED
  BY <1>4, <1>5, <1>6 DEF p

LEMMA OwnBooking ==
    ASSUME PoolInv, OwnHolds, [HarnessNext]_harnessVars, NEW i \in DOMAIN todo,
           Hold(i) \/ Confirm(i)
    PROVE  OwnHolds'
<1>1. /\ phase \in {"operator", "genuine"} /\ i \in InWork
      /\ UNCHANGED <<config, phase, identities>>
  BY HoldCases, ConfirmCases
<1>2. /\ DOMAIN todo' = DOMAIN todo
      /\ \A j \in DOMAIN todo : j # i => todo'[j].has = todo[j].has
      /\ \/ todo'[i].has = 0
         \/ todo'[i].has \in DOMAIN holds' /\ holds'[todo'[i].has].patron = Patron(i)
  <2>1. ASSUME NEW granted, Ends(i, granted)
        PROVE  /\ DOMAIN todo' = DOMAIN todo /\ todo'[i].has = 0
               /\ \A j \in DOMAIN todo : j # i => todo'[j].has = todo[j].has
    BY <1>1, <2>1, EndsItems
  <2>2. ASSUME HoldGranted(i), Awaits(i, Len(holds'))
        PROVE  /\ DOMAIN todo' = DOMAIN todo
               /\ todo'[i].has \in DOMAIN holds' /\ holds'[todo'[i].has].patron = Patron(i)
               /\ \A j \in DOMAIN todo : j # i => todo'[j].has = todo[j].has
    <3> DEFINE n == Len(holds')
    <3>1. n \in Nat /\ n \in 0..n /\ n \in DOMAIN holds' /\ holds'[n].patron = Patron(i)
      BY <2>2, OwnGranted
    <3>2. Awaits(i, n)
      BY <2>2
    <3> HIDE DEF n
    <3>3. DOMAIN todo' = DOMAIN todo /\ todo'[i].has = n
          /\ \A j \in DOMAIN todo : j # i => todo'[j] = todo[j]
      BY <1>1, <3>1, <3>2, AwaitsItems
    <3>4. QED
      BY <3>1, <3>3
  <2>3. Ends(i, TRUE) \/ Ends(i, FALSE) \/ (HoldGranted(i) /\ Awaits(i, Len(holds')))
    <3>1. HoldGranted(i) => Ends(i, TRUE) \/ Awaits(i, Len(holds'))
      BY DEF HoldGranted
    <3>2. HoldRefused(i) => Ends(i, FALSE)
      BY DEF HoldRefused
    <3>3. QED
      BY <3>1, <3>2, HoldCases, ConfirmCases
  <2>4. QED
    BY <2>1, <2>2, <2>3
<1>3. ASSUME NEW j \in DOMAIN todo, todo'[j].has # 0
      PROVE  todo'[j].has \in DOMAIN holds' /\ holds'[todo'[j].has].patron = Patron(j)'
  <2>1. Patron(j)' = Patron(j)
    BY <1>1, PatronKept
  <2>2. CASE j = i
    BY <1>2, <1>3, <2>1, <2>2
  <2>3. CASE j # i
    <3>1. todo'[j].has = todo[j].has
      BY <1>2, <2>3
    <3>2. todo[j].has \in DOMAIN holds' /\ holds'[todo[j].has].patron = Patron(j)
      BY <1>1, <1>3, <3>1, OwnStays
    <3>3. QED
      BY <2>1, <3>1, <3>2
  <2>4. QED
    BY <2>2, <2>3
<1>4. QED
  BY <1>2, <1>3 DEF OwnHolds

\* A phase begins with items that wait for nothing.
LEMMA ItemsWait ==
    ASSUME BeginRound \/ BeginGenuineDemand
    PROVE  \A j \in DOMAIN todo' : todo'[j].has = 0
<1>1. \A count, seats, at : \A j \in DOMAIN Items(count, seats, at) :
         Items(count, seats, at)[j].has = 0
  BY DEF Items
<1>2. CASE BeginRound
  <2>1. PICK count, seats, at : todo' = Items(count, seats, at)
    BY <1>2 DEF BeginRound
  <2>2. QED
    BY <1>1, <2>1
<1>3. CASE BeginGenuineDemand
  <2>1. PICK count, seats, at : todo' = Items(count, seats, at)
    BY <1>3 DEF BeginGenuineDemand
  <2>2. QED
    BY <1>1, <2>1
<1>4. QED
  BY <1>2, <1>3

LEMMA OwnStep == PoolInv /\ OwnHolds /\ [HarnessNext]_harnessVars => OwnHolds'
<1> SUFFICES ASSUME PoolInv, OwnHolds, [HarnessNext]_harnessVars PROVE OwnHolds'
  OBVIOUS
<1>1. ASSUME NEW i \in DOMAIN todo, PayChallenge(i) \/ Register(i)
      PROVE  OwnHolds'
  BY <1>1 DEF PayChallenge, Register, OwnHolds
<1>2. CASE BeginRound \/ BeginGenuineDemand
  <2>1. \A j \in DOMAIN todo' : todo'[j].has = 0
    BY <1>2, ItemsWait
  <2>2. QED
    BY <2>1 DEF OwnHolds
<1>3. CASE Reconcile
  BY <1>3 DEF Reconcile, OwnHolds
<1>4. CASE Elapse \/ UNCHANGED harnessVars
  <2>1. UNCHANGED <<todo, holds, identities, config, phase>>
    BY <1>4 DEF Elapse, Tick, db, harness, harnessVars, vars
  <2>2. ASSUME NEW i PROVE Patron(i)' = Patron(i)
    BY <2>1, PatronKept
  <2>3. QED
    BY <2>1, <2>2 DEF OwnHolds
<1>5. QED
  BY <1>1, <1>2, <1>3, <1>4, OwnBooking DEF HarnessNext, HarnessStep, Finished

LEMMA OwnAlwaysKept == HarnessSpec => []OwnHolds
<1>1. HarnessInit => OwnHolds
  BY DEF HarnessInit, OwnHolds
<1>2. QED
  BY <1>1, OwnStep, PoolAlwaysKept, PTL DEF HarnessSpec

OwnCharges ==
    SeatQuota =>
        \A p \in PatronIds :
            KeptFor(Held(p), Ticketed(p), Expired(p), Placed(p), SeatEntitlement(p))

LEMMA ChargesBooking ==
    ASSUME PoolInv, OwnHolds, SeatQuota, NEW i \in DOMAIN todo, Hold(i) \/ Confirm(i), NEW q,
           KeptFor(Held(q), Ticketed(q), Expired(q), Placed(q), SeatEntitlement(q))
    PROVE  KeptFor(Held(q), Ticketed(q), Expired(q), Placed(q), SeatEntitlement(q))'
<1> DEFINE p == Patron(i)
           h == todo[i].has
<1>1. TypeOK
  BY DEF PoolInv, HarnessInv
<1>2. CASE HoldGranted(i)
  <2>1. p \in patrons /\ \E show \in Shows : PlaceHold(p, show)
    BY <1>1, <1>2, AuthenticIsPatron DEF HoldGranted
  <2> HIDE DEF p
  <2>2. QED
    BY <1>1, <2>1, PlaceHoldQuota
<1>3. CASE Confirm(i) /\ ConfirmGranted(i)
  <2>1. p \in patrons /\ ConfirmHold(p, h)
    BY <1>1, <1>3, AuthenticIsPatron DEF ConfirmGranted
  <2>2. holds[h].patron = p
    BY <1>3, ConfirmCases DEF OwnHolds
  <2> HIDE DEF p, h
  <2>3. QED
    BY <1>1, <2>1, <2>2, ConfirmHoldQuota
<1>4. CASE UNCHANGED vars
  <2>1. UNCHANGED <<holds, tickets>>
    BY <1>4 DEF vars, db
  <2>2. QED
    BY <2>1, OtherQuota
<1>5. \/ HoldGranted(i) \/ UNCHANGED vars \/ (Confirm(i) /\ ConfirmGranted(i))
  <2>1. Hold(i) => HoldGranted(i) \/ HoldRefused(i)
    BY HoldCases
  <2>2. Confirm(i) => ConfirmGranted(i) \/ ConfirmRefused(i)
    BY ConfirmCases
  <2>3. HoldRefused(i) \/ ConfirmRefused(i) => UNCHANGED vars
    BY DEF HoldRefused, ConfirmRefused
  <2>4. QED
    BY <2>1, <2>2, <2>3
<1>6. QED
  BY <1>2, <1>3, <1>4, <1>5

LEMMA ChargesStep == PoolInv /\ OwnHolds /\ OwnCharges /\ [HarnessNext]_harnessVars => OwnCharges'
<1> SUFFICES ASSUME PoolInv, OwnHolds, OwnCharges, [HarnessNext]_harnessVars
             PROVE  OwnCharges'
  OBVIOUS
<1>a. [Next]_vars
  BY PoolBase
<1> SUFFICES ASSUME SeatQuota, NEW q \in PatronIds
             PROVE  KeptFor(Held(q), Ticketed(q), Expired(q), Placed(q), SeatEntitlement(q))'
  <2>1. SeatQuota' <=> SeatQuota
    BY <1>a, PolicyKept
  <2>2. PatronIds' = PatronIds
    BY DEF PatronIds
  <2>3. QED
    BY <2>1, <2>2 DEF OwnCharges
<1>1. KeptFor(Held(q), Ticketed(q), Expired(q), Placed(q), SeatEntitlement(q))
  BY DEF OwnCharges
<1>2. ASSUME UNCHANGED <<holds, tickets>>
      PROVE  KeptFor(Held(q), Ticketed(q), Expired(q), Placed(q), SeatEntitlement(q))'
  BY <1>1, <1>2, OtherQuota
<1>3. ASSUME NEW i \in DOMAIN todo, PayChallenge(i) PROVE UNCHANGED <<holds, tickets>>
  BY <1>3 DEF PayChallenge, vars, db
<1>4. ASSUME NEW i \in DOMAIN todo, Register(i) PROVE UNCHANGED <<holds, tickets>>
  BY <1>4, RegisterLeaves
<1>5. CASE BeginRound \/ BeginGenuineDemand \/ Elapse \/ UNCHANGED harnessVars
  <2>1. UNCHANGED <<holds, tickets>>
    BY <1>5 DEF BeginRound, BeginGenuineDemand, Elapse, Tick, harnessVars, vars, db
  <2>2. QED
    BY <1>2, <2>1
<1>6. CASE Reconcile
  <2>1. PICK show \in Shows : ReadShow(show)
    BY <1>6 DEF Reconcile
  <2>2. QED
    BY <1>1, <2>1, ReadShowQuota DEF PoolInv, HarnessInv
<1>7. QED
  BY <1>1, <1>2, <1>3, <1>4, <1>5, <1>6, ChargesBooking DEF HarnessNext, HarnessStep, Finished

LEMMA ChargesAlwaysKept == HarnessSpec => []OwnCharges
<1>1. Init => OwnCharges
  <2> SUFFICES ASSUME Init, NEW p \in PatronIds
               PROVE  KeptFor(Held(p), Ticketed(p), Expired(p), Placed(p), SeatEntitlement(p))
    BY DEF OwnCharges
  <2>1. QED
    BY InitCharges
<1>2. QED
  BY <1>1, InitHarnessInv, ChargesStep, PoolAlwaysKept, OwnAlwaysKept, PTL DEF HarnessSpec

\* The quota holds perfectly in every run, strategy C or not: nobody holds and
\* owns more than its entitlement, because no thread of the harness confirms a
\* hold that was not granted to its own patron (engine.py, _acquire_seats).
THEOREM HarnessStaysWithinEntitlement == HarnessSpec => []WithinEntitlement
<1>1. PoolInv /\ OwnCharges => WithinEntitlement
  <2> SUFFICES ASSUME PoolInv, OwnCharges, SeatQuota, NEW p \in patrons
               PROVE  SeatsClaimed(p) <= SeatEntitlement(p)
    BY DEF WithinEntitlement
  <2>1. TypeOK
    BY DEF PoolInv, HarnessInv
  <2>2. KeptFor(Held(p), Ticketed(p), Expired(p), Placed(p), SeatEntitlement(p))
    BY <2>1 DEF OwnCharges, TypeOK
  <2>3. Held(p) + Ticketed(p) <= SeatEntitlement(p)
    BY <2>1, <2>2, KeptClaims
  <2>4. QED
    BY <2>3 DEF SeatsClaimed, Held, Ticketed
<1>2. QED
  BY <1>1, PoolAlwaysKept, ChargesAlwaysKept, PTL

-----------------------------------------------------------------------------
(* What the theorems about the flow say of a run. *)

\* A run is a history of the seats being allocated one by one: no thread sees,
\* or leaves, a seat in two hands.
THEOREM HarnessImplementsAllocation == HarnessSpec => ImplementsAllocation
  BY HarnessImplementsBookingFlow, FlowImplementsAllocation, PTL

\* While the operator drains what it may, a patron with entitlement left is
\* granted the next seat it asks for (the secure policy).
THEOREM HarnessNobodyIsCrowdedOut == HarnessSpec => []NobodyCrowdedOut
  BY HarnessImplementsBookingFlow, NobodyIsCrowdedOut, PTL
==============================================================================
