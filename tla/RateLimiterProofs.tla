---------------------------- MODULE RateLimiterProofs ----------------------------
(***************************************************************************)
(* Theorems about RateLimiter, for any threads, sources, limit and window, *)
(* with stale clock readings and a clock that may step back.               *)
(***************************************************************************)
EXTENDS RateLimiter, CountingProofs, SequenceTheorems

Stamps == 0..MaxTime

\* w is what is left of a when its first n entries are dropped.
IsSuffix(w, a, n) ==
    /\ n \in Nat /\ Len(a) = n + Len(w)
    /\ \A i \in 1..Len(w) : w[i] = a[n + i]

\* What DequeBounded needs to be inductive: the deque is a suffix of the
\* admissions, and the stamp a thread carries is one the clock has shown.
LimiterInv ==
    /\ TypeOK
    /\ \A t \in Threads : request[t] # Idle => request[t].stamp \in Stamps
    /\ \A k \in Keys :
          /\ Len(seen[k]) <= Limit
          /\ \E n \in Nat : IsSuffix(seen[k], admitted[k], n)

-----------------------------------------------------------------------------
(* Lemmas about deques. *)

LEMMA SuffixOfSuffix ==
    ASSUME NEW S, NEW u \in Seq(S), NEW v \in Seq(S), NEW w \in Seq(S),
           NEW m, NEW n, IsSuffix(u, v, m), IsSuffix(v, w, n)
    PROVE  IsSuffix(u, w, n + m)
<1>1. Len(u) \in Nat /\ Len(v) \in Nat /\ Len(w) \in Nat
  BY LenProperties
<1>2. m \in Nat /\ n \in Nat /\ Len(v) = m + Len(u) /\ Len(w) = n + Len(v)
  BY DEF IsSuffix
<1>3. ASSUME NEW i \in 1..Len(u) PROVE u[i] = w[n + m + i]
  <2>1. m + i \in 1..Len(v)
    BY <1>1, <1>2
  <2>2. u[i] = v[m + i] /\ v[m + i] = w[n + (m + i)]
    BY <2>1 DEF IsSuffix
  <2>3. n + (m + i) = n + m + i
    BY <1>1, <1>2
  <2>4. QED
    BY <2>2, <2>3
<1>4. QED
  BY <1>1, <1>2, <1>3 DEF IsSuffix

LEMMA SuffixAppended ==
    ASSUME NEW S, NEW v \in Seq(S), NEW w \in Seq(S), NEW n, NEW x \in S,
           IsSuffix(v, w, n)
    PROVE  IsSuffix(Append(v, x), Append(w, x), n)
<1>1. Len(v) \in Nat /\ Len(w) \in Nat /\ n \in Nat /\ Len(w) = n + Len(v)
  BY LenProperties DEF IsSuffix
<1>2. /\ Len(Append(v, x)) = Len(v) + 1 /\ Append(v, x)[Len(v) + 1] = x
      /\ \A i \in 1..Len(v) : Append(v, x)[i] = v[i]
  BY AppendProperties
<1>3. /\ Len(Append(w, x)) = Len(w) + 1 /\ Append(w, x)[Len(w) + 1] = x
      /\ \A i \in 1..Len(w) : Append(w, x)[i] = w[i]
  BY AppendProperties
<1>4. ASSUME NEW i \in 1..(Len(v) + 1)
      PROVE  Append(v, x)[i] = Append(w, x)[n + i]
  <2>1. CASE i = Len(v) + 1
    BY <1>1, <1>2, <1>3, <2>1
  <2>2. CASE i \in 1..Len(v)
    <3>1. n + i \in 1..Len(w) /\ v[i] = w[n + i]
      BY <1>1, <2>2 DEF IsSuffix
    <3>2. QED
      BY <1>2, <1>3, <2>2, <3>1
  <2>3. QED
    BY <1>1, <2>1, <2>2
<1>5. QED
  BY <1>1, <1>2, <1>3, <1>4 DEF IsSuffix

LEMMA SuffixIsSubSeq ==
    ASSUME NEW S, NEW v \in Seq(S), NEW w \in Seq(S), NEW n, IsSuffix(v, w, n)
    PROVE  n \in 0..Len(w) /\ v = SubSeq(w, n + 1, Len(w))
<1> DEFINE u == SubSeq(w, n + 1, Len(w))
<1>1. Len(v) \in Nat /\ Len(w) \in Nat /\ n \in Nat /\ Len(w) = n + Len(v)
  BY LenProperties DEF IsSuffix
<1>2. \A i \in (n + 1)..Len(w) : w[i] \in S
  BY <1>1, ElementOfSeq
<1>3. /\ u \in Seq(S) /\ Len(u) = IF n + 1 <= Len(w) THEN Len(w) - (n + 1) + 1 ELSE 0
      /\ \A i \in 1..(Len(w) - (n + 1) + 1) : u[i] = w[n + 1 + i - 1]
  BY <1>1, <1>2, SubSeqProperties
<1> HIDE DEF u
<1>4. Len(u) = Len(v) /\ \A i \in 1..Len(v) : u[i] = v[i]
  BY <1>1, <1>3 DEF IsSuffix
<1>5. u = v
  BY <1>3, <1>4, SeqEqual
<1>6. QED
  BY <1>1, <1>5 DEF u

\* The popleft loop leaves a suffix of the deque.
LEMMA PrunedIsSuffix ==
    ASSUME NEW key, NEW at, seen[key] \in Seq(Stamps)
    PROVE  /\ Pruned(key, at) \in Seq(Stamps)
           /\ \E m \in Nat : IsSuffix(Pruned(key, at), seen[key], m)
<1> DEFINE w == seen[key]
           live == {i \in DOMAIN w : ~ExpiredStamp(w[i], at)}
           first == CHOOSE i \in live : \A j \in live : i <= j
<1>1. Len(w) \in Nat /\ DOMAIN w = 1..Len(w)
  BY LenProperties
<1>2. CASE live = {}
  <2>1. Pruned(key, at) = << >>
    BY <1>2 DEF Pruned
  <2>2. IsSuffix(<< >>, w, Len(w)) /\ << >> \in Seq(Stamps)
    BY <1>1 DEF IsSuffix
  <2>3. QED
    BY <1>1, <2>1, <2>2
<1>3. CASE live # {}
  <2>1. first \in 1..Len(w)
    <3>1. live \in SUBSET Nat
      BY <1>1
    <3>2. \E i \in live : \A j \in live : i <= j
      <4> HIDE DEF live
      <4> QED
        BY <1>3, <3>1, LeastExists
    <3>3. first \in live
      BY <3>2
    <3>4. QED
      BY <1>1, <3>3
  <2>2. Pruned(key, at) = SubSeq(w, first, Len(w))
    BY <1>3 DEF Pruned
  <2> HIDE DEF first
  <2>3. \A i \in first..Len(w) : w[i] \in Stamps
    BY <1>1, <2>1, ElementOfSeq
  <2>4. /\ SubSeq(w, first, Len(w)) \in Seq(Stamps)
        /\ Len(SubSeq(w, first, Len(w)))
             = IF first <= Len(w) THEN Len(w) - first + 1 ELSE 0
        /\ \A i \in 1..(Len(w) - first + 1) :
              SubSeq(w, first, Len(w))[i] = w[first + i - 1]
    BY <1>1, <2>1, <2>3, SubSeqProperties
  <2>5. IsSuffix(SubSeq(w, first, Len(w)), w, first - 1)
    BY <1>1, <2>1, <2>4 DEF IsSuffix
  <2>6. first - 1 \in Nat
    BY <1>1, <2>1
  <2>7. QED
    BY <2>2, <2>4, <2>5, <2>6
<1>4. QED
  BY <1>2, <1>3

-----------------------------------------------------------------------------
(* The invariant is inductive. *)

LEMMA InitLimiter == Init => LimiterInv
<1> SUFFICES ASSUME Init PROVE LimiterInv
  OBVIOUS
<1>1. MaxTime \in Nat /\ Limit \in Nat
  BY LimiterAssumption
<1>2. TypeOK
  BY <1>1 DEF Init, TypeOK, Idle, Keys
<1>3. \A t \in Threads : request[t] = Idle
  BY DEF Init
<1>4. ASSUME NEW k \in Keys
      PROVE  Len(seen[k]) <= Limit /\ IsSuffix(seen[k], admitted[k], 0)
  BY <1>1, <1>4 DEF Init, IsSuffix
<1>5. QED
  BY <1>2, <1>3, <1>4 DEF LimiterInv

LEMMA ReadClockLimiter ==
    ASSUME LimiterInv, NEW t \in Threads, NEW header \in Sources \cup {Null},
           ReadClock(t, header)
    PROVE  LimiterInv'
<1> DEFINE row == [key |-> KeyOf(header), stamp |-> clock]
<1>1. row \in [key : Keys, stamp : -1..MaxTime] /\ row.stamp \in Stamps
  BY LimiterAssumption DEF LimiterInv, TypeOK, KeyOf, Keys, Stamps
<1>2. request' = [request EXCEPT ![t] = row] /\ UNCHANGED <<clock, seen, admitted>>
  BY DEF ReadClock
<1> HIDE DEF row
<1>3. TypeOK'
  BY <1>1, <1>2 DEF LimiterInv, TypeOK
<1>4. \A u \in Threads : request'[u] # Idle => request'[u].stamp \in Stamps
  BY <1>1, <1>2 DEF LimiterInv, TypeOK
<1>5. QED
  BY <1>2, <1>3, <1>4 DEF LimiterInv

\* The bookkeeping that Admit and Refuse share.
LEMMA PrunedDeque ==
    ASSUME LimiterInv, NEW t \in Threads, request[t] # Idle
    PROVE  LET k == request[t].key
               w == Pruned(k, request[t].stamp)
           IN  /\ k \in Keys /\ request[t].stamp \in Stamps
               /\ w \in Seq(Stamps) /\ Len(w) \in Nat
               /\ Len(w) <= Limit
               /\ \E n \in Nat : IsSuffix(w, admitted[k], n)
<1> DEFINE k == request[t].key
           w == Pruned(k, request[t].stamp)
<1>1. k \in Keys /\ request[t].stamp \in Stamps
  BY DEF LimiterInv, TypeOK
<1>2. seen[k] \in Seq(Stamps) /\ admitted[k] \in Seq(Stamps)
  BY <1>1 DEF LimiterInv, TypeOK, Stamps
<1>3. w \in Seq(Stamps) /\ \E m \in Nat : IsSuffix(w, seen[k], m)
  BY <1>2, PrunedIsSuffix
<1> HIDE DEF k, w
<1>4. Len(seen[k]) <= Limit /\ \E n \in Nat : IsSuffix(seen[k], admitted[k], n)
  BY <1>1 DEF LimiterInv
<1>5. PICK m \in Nat, n \in Nat : IsSuffix(w, seen[k], m) /\ IsSuffix(seen[k], admitted[k], n)
  BY <1>3, <1>4
<1>6. IsSuffix(w, admitted[k], n + m)
  BY <1>2, <1>3, <1>5, SuffixOfSuffix
<1>7. Len(w) \in Nat /\ Len(w) <= Limit
  <2>1. Len(w) \in Nat /\ Len(seen[k]) \in Nat /\ Len(seen[k]) = m + Len(w)
    BY <1>2, <1>3, <1>5, LenProperties DEF IsSuffix
  <2>2. QED
    BY <2>1, <1>4, LimiterAssumption
<1>8. n + m \in Nat
  OBVIOUS
<1>9. QED
  BY <1>1, <1>3, <1>6, <1>7, <1>8 DEF k, w

\* What is left to show once the new deque of one source is known to be right.
LEMMA CountedLimiter ==
    ASSUME LimiterInv, NEW t \in Threads, NEW k \in Keys,
           NEW v \in Seq(Stamps), NEW w \in Seq(Stamps),
           clock' = clock, request' = [request EXCEPT ![t] = Idle],
           seen' = [seen EXCEPT ![k] = v], admitted' = [admitted EXCEPT ![k] = w],
           Len(v) <= Limit, NEW n \in Nat, IsSuffix(v, w, n)
    PROVE  LimiterInv'
<1>1. TypeOK'
  BY LimiterAssumption DEF LimiterInv, TypeOK, Stamps, Idle, Keys
<1>2. \A u \in Threads : request'[u] # Idle => request'[u].stamp \in Stamps
  BY DEF LimiterInv, TypeOK
<1>3. ASSUME NEW j \in Keys
      PROVE  Len(seen'[j]) <= Limit /\ \E i \in Nat : IsSuffix(seen'[j], admitted'[j], i)
  <2>1. CASE j = k
    BY <2>1 DEF LimiterInv, TypeOK
  <2>2. CASE j # k
    BY <2>2 DEF LimiterInv, TypeOK
  <2>3. QED
    BY <2>1, <2>2
<1>4. QED
  BY <1>1, <1>2, <1>3 DEF LimiterInv

LEMMA AdmitLimiter ==
    ASSUME LimiterInv, NEW t \in Threads, Admit(t)
    PROVE  LimiterInv'
<1> DEFINE k == request[t].key
           at == request[t].stamp
           w == Pruned(k, at)
<1>1. /\ k \in Keys /\ at \in Stamps /\ w \in Seq(Stamps) /\ Len(w) \in Nat
      /\ \E n \in Nat : IsSuffix(w, admitted[k], n)
  BY PrunedDeque DEF Admit
<1>2. /\ Len(w) < Limit
      /\ seen' = [seen EXCEPT ![k] = Append(w, at)]
      /\ admitted' = [admitted EXCEPT ![k] = Append(admitted[k], at)]
      /\ request' = [request EXCEPT ![t] = Idle] /\ clock' = clock
  BY DEF Admit, Allows
<1>3. admitted[k] \in Seq(Stamps)
  BY <1>1 DEF LimiterInv, TypeOK, Stamps
<1> HIDE DEF k, at, w
<1>4. PICK n \in Nat : IsSuffix(w, admitted[k], n)
  BY <1>1
<1>5. IsSuffix(Append(w, at), Append(admitted[k], at), n)
  BY <1>1, <1>3, <1>4, SuffixAppended
<1>6. /\ Append(w, at) \in Seq(Stamps) /\ Append(admitted[k], at) \in Seq(Stamps)
      /\ Len(Append(w, at)) = Len(w) + 1
  BY <1>1, <1>3, AppendProperties
<1>7. Len(Append(w, at)) <= Limit
  BY <1>1, <1>2, <1>6, LimiterAssumption
<1>8. QED
  BY <1>1, <1>2, <1>5, <1>6, <1>7, CountedLimiter

LEMMA RefuseLimiter ==
    ASSUME LimiterInv, NEW t \in Threads, Refuse(t)
    PROVE  LimiterInv'
<1> DEFINE k == request[t].key
           w == Pruned(k, request[t].stamp)
<1>1. /\ k \in Keys /\ w \in Seq(Stamps) /\ Len(w) <= Limit
      /\ \E n \in Nat : IsSuffix(w, admitted[k], n)
  BY PrunedDeque DEF Refuse
<1>2. /\ seen' = [seen EXCEPT ![k] = w]
      /\ request' = [request EXCEPT ![t] = Idle]
      /\ UNCHANGED <<clock, admitted>>
  BY DEF Refuse
<1>3. /\ admitted[k] \in Seq(Stamps)
      /\ admitted' = [admitted EXCEPT ![k] = admitted[k]]
  BY <1>1, <1>2 DEF LimiterInv, TypeOK, Stamps
<1> HIDE DEF k, w
<1>4. QED
  BY <1>1, <1>2, <1>3, CountedLimiter

LEMMA LimiterStep == LimiterInv /\ [Next]_vars => LimiterInv'
<1> SUFFICES ASSUME LimiterInv, [Next]_vars PROVE LimiterInv'
  OBVIOUS
<1>1. ASSUME NEW t \in Threads, NEW header \in Sources \cup {Null}, ReadClock(t, header)
      PROVE  LimiterInv'
  BY <1>1, ReadClockLimiter
<1>2. ASSUME NEW t \in Threads, Admit(t) PROVE LimiterInv'
  BY <1>2, AdmitLimiter
<1>3. ASSUME NEW t \in Threads, Refuse(t) PROVE LimiterInv'
  BY <1>3, RefuseLimiter
<1>4. CASE Tick \/ ClockStepsBack
  <2>1. clock' \in 0..MaxTime /\ UNCHANGED <<request, seen, admitted>>
    BY <1>4, LimiterAssumption DEF LimiterInv, TypeOK, Tick, ClockStepsBack
  <2>2. QED
    BY <2>1 DEF LimiterInv, TypeOK
<1>5. CASE UNCHANGED vars
  BY <1>5 DEF vars, LimiterInv, TypeOK
<1>6. QED
  BY <1>1, <1>2, <1>3, <1>4, <1>5 DEF Next

LEMMA LimiterInvariant == Spec => []LimiterInv
  BY InitLimiter, LimiterStep, PTL DEF Spec

\* Keys are the known sources and the one for the rest; stamps are readings of
\* the clock (SourceRateLimiter of ratelimit.py).
THEOREM LimiterTypeCorrect == Spec => []TypeOK
  BY LimiterInvariant, PTL DEF LimiterInv

\* allow never stores more than Limit stamps for a source, and those it stores
\* are the latest it admitted, in whatever order the clock readings arrive.
THEOREM DequesAreBounded == Spec => []DequeBounded
<1>1. LimiterInv => DequeBounded
  <2> SUFFICES ASSUME LimiterInv, NEW k \in Keys
               PROVE  /\ Len(seen[k]) <= Limit
                      /\ \E n \in 0..Len(admitted[k]) :
                            seen[k] = SubSeq(admitted[k], n + 1, Len(admitted[k]))
    BY DEF DequeBounded
  <2>1. PICK n \in Nat : IsSuffix(seen[k], admitted[k], n)
    BY DEF LimiterInv
  <2>2. seen[k] \in Seq(Stamps) /\ admitted[k] \in Seq(Stamps)
    BY DEF LimiterInv, TypeOK, Stamps
  <2>3. n \in 0..Len(admitted[k]) /\ seen[k] = SubSeq(admitted[k], n + 1, Len(admitted[k]))
    BY <2>1, <2>2, SuffixIsSubSeq
  <2>4. QED
    BY <2>3 DEF LimiterInv
<1>2. QED
  BY <1>1, LimiterInvariant, PTL

\* A source that was quiet for a window is let in again, although allow prunes
\* only from the head and the deque may be out of order.
THEOREM QuietSourcesAreAdmitted == Spec => []QuietSourceAdmitted
<1>1. LimiterInv => QuietSourceAdmitted
  <2> SUFFICES ASSUME LimiterInv, NEW k \in Keys, NEW at \in 0..MaxTime,
                      \A i \in DOMAIN admitted[k] : admitted[k][i] <= at - Window
               PROVE  Allows(k, at)
    BY DEF QuietSourceAdmitted
  <2>1. PICK n \in Nat : IsSuffix(seen[k], admitted[k], n)
    BY DEF LimiterInv
  <2>2. /\ Len(seen[k]) \in Nat /\ DOMAIN seen[k] = 1..Len(seen[k])
        /\ DOMAIN admitted[k] = 1..Len(admitted[k])
    BY LenProperties DEF LimiterInv, TypeOK
  <2>3. \A i \in DOMAIN seen[k] : ExpiredStamp(seen[k][i], at)
    BY <2>1, <2>2 DEF IsSuffix, ExpiredStamp
  <2>4. Pruned(k, at) = << >>
    BY <2>3 DEF Pruned
  <2>5. QED
    BY <2>4, LimiterAssumption DEF Allows
<1>2. QED
  BY <1>1, LimiterInvariant, PTL

-----------------------------------------------------------------------------
(* Exactness.  ExactInOrder is not inductive: it says nothing of the stamps  *)
(* that have left the deque.  What holds whatever the order of the readings  *)
(* is that a stamp leaves only for an admission a full window later, and so   *)
(* that Limit admissions further on there has been such an admission.         *)

Passed(a, i, last) == \E j \in 1..last : a[i] <= a[j] - Window

WindowInv ==
    \A k \in Keys :
        /\ \A i \in 1..(Len(admitted[k]) - Len(seen[k])) :
              Passed(admitted[k], i, Len(admitted[k]))
        /\ \A i \in 1..(Len(admitted[k]) - Limit) : Passed(admitted[k], i, i + Limit)

\* What the popleft loop removes has expired, and it stops at a live stamp.
LEMMA PrunedDrops ==
    ASSUME NEW key, NEW at, seen[key] \in Seq(Stamps)
    PROVE  LET d == Len(seen[key]) - Len(Pruned(key, at))
           IN  /\ d \in 0..Len(seen[key])
               /\ \A i \in 1..d : ExpiredStamp(seen[key][i], at)
               /\ d < Len(seen[key]) => ~ExpiredStamp(seen[key][d + 1], at)
<1> DEFINE w == seen[key]
           live == {i \in DOMAIN w : ~ExpiredStamp(w[i], at)}
           first == CHOOSE i \in live : \A j \in live : i <= j
<1>1. Len(w) \in Nat /\ DOMAIN w = 1..Len(w)
  BY LenProperties
<1>2. CASE live = {}
  <2>1. Pruned(key, at) = << >> /\ \A i \in 1..Len(w) : ExpiredStamp(w[i], at)
    BY <1>1, <1>2 DEF Pruned
  <2>2. Len(Pruned(key, at)) = 0
    BY <2>1
  <2>3. QED
    BY <1>1, <2>1, <2>2
<1>3. CASE live # {}
  <2>1. first \in live /\ \A j \in live : first <= j
    <3>1. live \in SUBSET Nat
      BY <1>1
    <3>2. \E i \in live : \A j \in live : i <= j
      <4> HIDE DEF live
      <4> QED
        BY <1>3, <3>1, LeastExists
    <3>3. QED
      BY <3>2
  <2>2. Pruned(key, at) = SubSeq(w, first, Len(w))
    BY <1>3 DEF Pruned
  <2> HIDE DEF first
  <2>3. first \in 1..Len(w)
    BY <1>1, <2>1
  <2>4. \A i \in first..Len(w) : w[i] \in Stamps
    BY <1>1, <2>3, ElementOfSeq
  <2>5. Len(SubSeq(w, first, Len(w))) = IF first <= Len(w) THEN Len(w) - first + 1 ELSE 0
    BY <1>1, <2>3, <2>4, SubSeqProperties
  <2>6. Len(w) - Len(Pruned(key, at)) = first - 1
    BY <1>1, <2>2, <2>3, <2>5
  <2>7. \A i \in 1..(first - 1) : ExpiredStamp(w[i], at)
    <3>1. ASSUME NEW i \in 1..(first - 1) PROVE ExpiredStamp(w[i], at)
      <4>1. i \in DOMAIN w /\ ~(first <= i)
        BY <1>1, <2>3
      <4>2. i \notin live
        BY <2>1, <4>1
      <4>3. QED
        BY <4>1, <4>2
    <3>2. QED
      BY <3>1
  <2>8. ~ExpiredStamp(w[first], at)
    BY <2>1
  <2>9. first - 1 \in 0..Len(w) /\ first - 1 + 1 = first
    BY <1>1, <2>3
  <2> HIDE DEF w, live
  <2>10. QED
    BY <2>6, <2>7, <2>8, <2>9 DEF w
<1>4. QED
  BY <1>2, <1>3

LEMMA AdmitWindow ==
    ASSUME LimiterInv, WindowInv, NEW t \in Threads, Admit(t)
    PROVE  WindowInv'
<1> DEFINE k == request[t].key
           at == request[t].stamp
           w == Pruned(k, at)
           a == admitted[k]
           n == Len(a)
<1>1. /\ k \in Keys /\ at \in Stamps /\ w \in Seq(Stamps) /\ Len(w) \in Nat
  BY PrunedDeque DEF Admit
<1>2. /\ Len(w) < Limit
      /\ seen' = [seen EXCEPT ![k] = Append(w, at)]
      /\ admitted' = [admitted EXCEPT ![k] = Append(a, at)]
  BY DEF Admit, Allows
<1>3. /\ a \in Seq(Stamps) /\ seen[k] \in Seq(Stamps)
      /\ seen \in [Keys -> Seq(Stamps)] /\ admitted \in [Keys -> Seq(Stamps)]
      /\ n \in Nat /\ Len(seen[k]) \in Nat
  BY <1>1, LenProperties DEF LimiterInv, TypeOK, Stamps
<1>4. \A i \in 1..(Len(seen[k]) - Len(w)) : ExpiredStamp(seen[k][i], at)
  BY <1>3, PrunedDrops
<1>5. PICK d \in Nat : IsSuffix(seen[k], a, d)
  BY <1>1 DEF LimiterInv
<1>6. /\ \A i \in 1..(n - Len(seen[k])) : Passed(a, i, n)
      /\ \A i \in 1..(n - Limit) : Passed(a, i, i + Limit)
  BY <1>1 DEF WindowInv
<1> HIDE DEF k, at, w, a
<1>7. /\ Len(Append(w, at)) = Len(w) + 1 /\ Len(Append(a, at)) = n + 1
      /\ Append(a, at)[n + 1] = at
      /\ \A i \in 1..n : Append(a, at)[i] = a[i]
  BY <1>1, <1>3, AppendProperties
<1>8. ASSUME NEW i \in 1..(n - Len(w)) PROVE Passed(Append(a, at), i, n + 1)
  <2>1. i \in 1..n /\ Append(a, at)[i] = a[i]
    BY <1>1, <1>3, <1>7
  <2>2. CASE i \in 1..(n - Len(seen[k]))
    <3>1. PICK j \in 1..n : a[i] <= a[j] - Window
      BY <1>6, <2>2 DEF Passed
    <3>2. j \in 1..(n + 1) /\ Append(a, at)[j] = a[j]
      BY <1>3, <1>7
    <3>3. QED
      BY <2>1, <3>1, <3>2 DEF Passed
  <2>3. CASE i \notin 1..(n - Len(seen[k]))
    <3>1. n = d + Len(seen[k]) /\ \A x \in 1..Len(seen[k]) : seen[k][x] = a[d + x]
      BY <1>5 DEF IsSuffix
    <3>2. /\ i - d \in 1..(Len(seen[k]) - Len(w)) /\ i - d \in 1..Len(seen[k])
          /\ d + (i - d) = i
      BY <1>1, <1>3, <2>1, <2>3, <3>1
    <3>3. a[i] <= at - Window
      BY <1>4, <3>1, <3>2 DEF ExpiredStamp
    <3>4. n + 1 \in 1..(n + 1)
      BY <1>3
    <3>5. QED
      BY <1>7, <2>1, <3>3, <3>4 DEF Passed
  <2>4. QED
    BY <2>2, <2>3
<1>9. ASSUME NEW i \in 1..(n + 1 - Limit) PROVE Passed(Append(a, at), i, i + Limit)
  <2>1. Limit \in Nat /\ Limit >= 1
    BY LimiterAssumption
  <2>2. CASE i \in 1..(n - Limit)
    <3>1. PICK j \in 1..(i + Limit) : a[i] <= a[j] - Window
      BY <1>6, <2>2 DEF Passed
    <3>2. i \in 1..n /\ j \in 1..n
      BY <1>3, <2>1, <2>2
    <3>3. QED
      BY <1>7, <3>1, <3>2 DEF Passed
  <2>3. CASE i \notin 1..(n - Limit)
    <3>1. i = n + 1 - Limit /\ i \in Int /\ 1 <= i
      <4> HIDE DEF n
      <4>1. n \in Nat
        BY <1>3
      <4>2. QED
        BY <2>1, <2>3, <4>1
    <3>2. i + Limit = n + 1 /\ i \in 1..(n - Len(w))
      BY <1>1, <1>2, <1>3, <2>1, <3>1
    <3>3. QED
      BY <1>8, <3>2
  <2>4. QED
    BY <2>2, <2>3
<1>10. ASSUME NEW j \in Keys
       PROVE  /\ \A i \in 1..(Len(admitted'[j]) - Len(seen'[j])) :
                    Passed(admitted'[j], i, Len(admitted'[j]))
              /\ \A i \in 1..(Len(admitted'[j]) - Limit) : Passed(admitted'[j], i, i + Limit)
  <2>1. CASE j = k
    <3>1. admitted'[j] = Append(a, at) /\ seen'[j] = Append(w, at)
      BY <1>1, <1>2, <1>3, <2>1
    <3>2. Len(admitted'[j]) = n + 1 /\ Len(admitted'[j]) - Len(seen'[j]) = n - Len(w)
      BY <1>1, <1>3, <1>7, <3>1
    <3>3. ASSUME NEW i \in 1..(Len(admitted'[j]) - Len(seen'[j]))
          PROVE  Passed(admitted'[j], i, Len(admitted'[j]))
      <4>1. i \in 1..(n - Len(w))
        BY <3>2
      <4>2. Passed(Append(a, at), i, n + 1)
        BY <1>8, <4>1
      <4>3. QED
        BY <3>1, <3>2, <4>2
    <3>4. ASSUME NEW i \in 1..(Len(admitted'[j]) - Limit)
          PROVE  Passed(admitted'[j], i, i + Limit)
      <4>1. i \in 1..(n + 1 - Limit)
        BY <1>3, <3>2, <3>4, LimiterAssumption
      <4>2. Passed(Append(a, at), i, i + Limit)
        BY <1>9, <4>1
      <4>3. QED
        BY <3>1, <4>2
    <3>5. QED
      BY <3>3, <3>4
  <2>2. CASE j # k
    <3>1. admitted'[j] = admitted[j] /\ seen'[j] = seen[j]
      BY <1>1, <1>2, <1>3, <2>2
    <3>2. QED
      BY <3>1 DEF WindowInv
  <2>3. QED
    BY <2>1, <2>2
<1>11. QED
  BY <1>10 DEF WindowInv, Passed

\* A refusal finds a full deque with nothing in it to prune.
LEMMA RefuseWindow ==
    ASSUME LimiterInv, WindowInv, NEW t \in Threads, Refuse(t)
    PROVE  WindowInv'
<1> DEFINE k == request[t].key
           w == Pruned(k, request[t].stamp)
<1>1. /\ k \in Keys /\ w \in Seq(Stamps) /\ Len(w) \in Nat
      /\ Len(w) >= Limit /\ Limit \in Nat
  BY PrunedDeque, LimiterAssumption DEF Refuse, Allows
<1>2. /\ seen' = [seen EXCEPT ![k] = w] /\ admitted' = admitted
  BY DEF Refuse
<1>3. /\ seen[k] \in Seq(Stamps) /\ seen \in [Keys -> Seq(Stamps)]
      /\ Len(seen[k]) \in Nat /\ Len(seen[k]) <= Limit
  BY <1>1, LenProperties DEF LimiterInv, TypeOK, Stamps
<1>4. Len(seen[k]) - Len(w) \in 0..Len(seen[k])
  BY <1>3, PrunedDrops
<1> HIDE DEF k, w
<1>5. Len(w) = Len(seen[k])
  BY <1>1, <1>3, <1>4
<1>6. \A j \in Keys : Len(seen'[j]) = Len(seen[j])
  BY <1>1, <1>2, <1>3, <1>5
<1>7. QED
  BY <1>2, <1>6 DEF WindowInv, Passed

LEMMA WindowStep == LimiterInv /\ WindowInv /\ [Next]_vars => WindowInv'
<1> SUFFICES ASSUME LimiterInv, WindowInv, [Next]_vars PROVE WindowInv'
  OBVIOUS
<1>1. ASSUME NEW t \in Threads, Admit(t) PROVE WindowInv'
  BY <1>1, AdmitWindow
<1>2. ASSUME NEW t \in Threads, Refuse(t) PROVE WindowInv'
  BY <1>2, RefuseWindow
<1>3. CASE UNCHANGED <<seen, admitted>>
  BY <1>3 DEF WindowInv, Passed
<1>4. QED
  BY <1>1, <1>2, <1>3 DEF Next, ReadClock, Tick, ClockStepsBack, vars

LEMMA InitWindow == Init => WindowInv
<1> SUFFICES ASSUME Init PROVE WindowInv
  OBVIOUS
<1>1. \A k \in Keys : Len(admitted[k]) = 0 /\ Len(seen[k]) = 0
  BY DEF Init
<1>2. Limit \in Nat
  BY LimiterAssumption
<1>3. QED
  BY <1>1, <1>2 DEF WindowInv

LEMMA WindowInvariant == Spec => []WindowInv
  BY InitWindow, WindowStep, LimiterInvariant, PTL DEF Spec

LEMMA RunCount ==
    ASSUME NEW m \in Int, NEW n \in Nat
    PROVE  IsFiniteSet(m..(m + n - 1)) /\ Cardinality(m..(m + n - 1)) = n
<1>1. PICK b \in Int : b = m + n - 1
  OBVIOUS
<1>2. IsFiniteSet(m..b) /\ Cardinality(m..b) = IF m > b THEN 0 ELSE b - m + 1
  BY FS_Interval
<1>3. Cardinality(m..b) = n
  BY <1>1, <1>2
<1>4. QED
  BY <1>1, <1>2, <1>3

\* Requests counted in the order of their stamps, a window later than the first
\* of any Limit + 1 of them there is none of them left.
LEMMA WindowsHoldLimit ==
    ASSUME LimiterInv, WindowInv, NEW k \in Keys, NEW at \in 0..MaxTime, InOrder(k, at),
           NEW upto \in 0..at
    PROVE  Cardinality(AdmittedIn(k, upto)) <= Limit
<1> DEFINE a == admitted[k]
           S == AdmittedIn(k, upto)
<1>1. /\ Limit \in Nat /\ Limit >= 1 /\ Window \in Nat /\ MaxTime \in Nat
      /\ Len(a) \in Nat /\ DOMAIN a = 1..Len(a) /\ \A i \in 1..Len(a) : a[i] \in Nat
  <2>1. Limit \in Nat /\ Limit >= 1 /\ Window \in Nat /\ MaxTime \in Nat
    BY LimiterAssumption
  <2>2. a \in Seq(0..MaxTime)
    BY DEF LimiterInv, TypeOK
  <2> HIDE DEF a
  <2>3. Len(a) \in Nat /\ DOMAIN a = 1..Len(a) /\ \A i \in 1..Len(a) : a[i] \in 0..MaxTime
    BY <2>2, LenProperties, ElementOfSeq
  <2>4. QED
    BY <2>1, <2>3
<1>2. S \subseteq 1..Len(a) /\ \A i \in S : upto - Window < a[i] /\ a[i] <= upto
  BY <1>1 DEF AdmittedIn
<1>3. ASSUME NEW i \in S, NEW j \in S PROVE j < i + Limit
  <2>1. SUFFICES ASSUME i + Limit <= j PROVE FALSE
    BY <1>1, <1>2
  <2>2. i \in 1..(Len(a) - Limit) /\ i + Limit \in 1..Len(a)
    BY <1>1, <1>2, <2>1
  <2>3. PICK x \in 1..(i + Limit) : a[i] <= a[x] - Window
    BY <2>2 DEF WindowInv, Passed
  <2>4. x \in 1..Len(a) /\ j \in 1..Len(a) /\ x <= j
    BY <1>1, <1>2, <2>1, <2>2
  <2>5. a[x] <= a[j]
    BY <1>1, <2>4 DEF InOrder
  <2>6. upto - Window < a[i] /\ a[j] <= upto
    BY <1>2
  <2>7. a[i] \in Nat /\ a[x] \in Nat /\ a[j] \in Nat /\ upto \in Int
    BY <1>1, <1>2, <2>4
  <2> HIDE DEF a
  <2>8. QED
    BY <1>1, <2>3, <2>5, <2>6, <2>7
<1> HIDE DEF S, a
<1>4. CASE S = {}
  BY <1>1, <1>4, FS_EmptySet DEF S
<1>5. CASE S # {}
  <2>1. S \in SUBSET Nat
    BY <1>1, <1>2
  <2>2. PICK m \in S : \A j \in S : m <= j
    BY <1>5, <2>1, LeastExists
  <2>3. m \in Int /\ m + Limit - 1 \in Int
    BY <1>1, <2>1, <2>2
  <2>4. S \subseteq m..(m + Limit - 1)
    BY <1>1, <1>3, <2>1, <2>2, <2>3
  <2>5. IsFiniteSet(m..(m + Limit - 1)) /\ Cardinality(m..(m + Limit - 1)) = Limit
    BY <1>1, <2>3, RunCount
  <2>6. Cardinality(S) <= Limit
    <3>1. PICK I : I = m..(m + Limit - 1)
      OBVIOUS
    <3>2. S \subseteq I /\ IsFiniteSet(I) /\ Cardinality(I) = Limit
      BY <2>4, <2>5, <3>1
    <3>3. Cardinality(S) <= Cardinality(I)
      BY <3>2, FS_Subset
    <3>4. QED
      BY <3>2, <3>3
  <2>7. QED
    BY <2>6 DEF S
<1>6. QED
  BY <1>4, <1>5

\* In order, what is pruned is all that has expired, and all that is in the
\* window is still in the deque.
LEMMA DequeIsWindow ==
    ASSUME LimiterInv, WindowInv, NEW k \in Keys, NEW at \in 0..MaxTime, InOrder(k, at)
    PROVE  /\ Len(Pruned(k, at)) = Cardinality(AdmittedIn(k, at))
           /\ Counts(k, at) = Cardinality(AdmittedIn(k, at))
<1> DEFINE a == admitted[k]
           w == seen[k]
           r == Len(Pruned(k, at))
           d == Len(w) - r
           live == (d + 1)..Len(w)
           late == (Len(a) - r + 1)..Len(a)
<1>1. /\ Window \in Nat /\ MaxTime \in Nat /\ at \in Int
      /\ w \in Seq(Stamps) /\ Len(a) \in Nat /\ Len(w) \in Nat
      /\ DOMAIN a = 1..Len(a) /\ DOMAIN w = 1..Len(w)
      /\ \A i \in 1..Len(a) : a[i] \in Nat
  BY LimiterAssumption, LenProperties DEF LimiterInv, TypeOK, Stamps
<1>2. PICK n \in Nat : Len(a) = n + Len(w) /\ \A i \in 1..Len(w) : w[i] = a[n + i]
  BY DEF LimiterInv, IsSuffix
<1>3. /\ d \in 0..Len(w) /\ \A i \in 1..d : w[i] <= at - Window
      /\ d < Len(w) => ~(w[d + 1] <= at - Window)
  BY <1>1, PrunedDrops DEF ExpiredStamp
<1>4. r \in Nat /\ r = Len(w) - d /\ Len(a) - r = n + d
  <2>1. r \in Nat
    BY <1>1, PrunedIsSuffix, LenProperties
  <2> HIDE DEF r, w, a
  <2>2. QED
    BY <1>1, <1>2, <1>3, <2>1
<1>5. \A i \in 1..n : Passed(a, i, Len(a))
  BY <1>1, <1>2 DEF WindowInv
<1>6. /\ \A i, j \in 1..Len(a) : i <= j => a[i] <= a[j]
      /\ \A i \in 1..Len(a) : a[i] <= at
  <2>1. \A i, j \in 1..Len(a) : i <= j => a[i] <= a[j] /\ a[j] <= at
    BY <1>1 DEF InOrder
  <2> HIDE DEF a
  <2>2. \A i \in 1..Len(a) : i <= i
    BY <1>1
  <2>3. QED
    BY <2>1, <2>2
<1>7. AdmittedIn(k, at) = {i \in 1..Len(a) : at - Window < a[i] /\ a[i] <= at}
  BY <1>1 DEF AdmittedIn
<1>8. Counts(k, at) = Cardinality({i \in 1..Len(w) : w[i] > at - Window})
  BY <1>1 DEF Counts
<1> HIDE DEF a, w, r
<1>9. \A i \in 1..Len(w) : w[i] > at - Window <=> i \in live
  <2> SUFFICES ASSUME NEW i \in 1..Len(w) PROVE w[i] > at - Window <=> i \in live
    OBVIOUS
  <2>1. w[i] = a[n + i] /\ n + i \in 1..Len(a) /\ w[i] \in Int
    BY <1>1, <1>2
  <2>2. CASE i \in 1..d
    BY <1>1, <1>3, <2>1, <2>2
  <2>3. CASE i \notin 1..d
    <3>1. /\ d + 1 \in 1..Len(w) /\ d + 1 <= i /\ n + (d + 1) \in 1..Len(a)
          /\ n + (d + 1) <= n + i
      BY <1>1, <1>2, <1>3, <2>3
    <3>2. w[d + 1] = a[n + (d + 1)] /\ a[n + (d + 1)] <= a[n + i]
      BY <1>2, <1>6, <2>1, <3>1
    <3>3. ~(w[d + 1] <= at - Window) /\ w[d + 1] \in Int
      BY <1>1, <1>3, <3>1, <3>2
    <3>4. w[i] > at - Window
      BY <1>1, <2>1, <3>2, <3>3
    <3>5. QED
      BY <1>3, <2>3, <3>1, <3>4
  <2>4. QED
    BY <2>2, <2>3
<1>10. \A i \in 1..Len(a) : (at - Window < a[i] /\ a[i] <= at) <=> i \in late
  <2> SUFFICES ASSUME NEW i \in 1..Len(a)
               PROVE  (at - Window < a[i] /\ a[i] <= at) <=> i \in late
    OBVIOUS
  <2>1. a[i] \in Int /\ a[i] <= at
    BY <1>1, <1>6
  <2>2. CASE i \in 1..n
    <3>1. PICK j \in 1..Len(a) : a[i] <= a[j] - Window
      BY <1>5, <2>2 DEF Passed
    <3>2. a[j] \in Int /\ a[j] <= at
      BY <1>1, <1>6
    <3>3. ~(at - Window < a[i])
      BY <1>1, <2>1, <3>1, <3>2
    <3>4. i \notin late
      BY <1>3, <1>4, <2>2
    <3>5. QED
      BY <3>3, <3>4
  <2>3. CASE i \notin 1..n
    <3>1. i - n \in 1..Len(w) /\ n + (i - n) = i
      BY <1>1, <1>2, <2>3
    <3>2. w[i - n] = a[i] /\ (w[i - n] > at - Window <=> i - n \in live)
      BY <1>2, <1>9, <3>1
    <3>3. i - n \in live <=> i \in late
      BY <1>1, <1>2, <1>3, <1>4
    <3>4. QED
      BY <1>1, <2>1, <3>2, <3>3
  <2>4. QED
    BY <2>2, <2>3
<1>11. Cardinality(live) = r /\ Cardinality(late) = r
  <2>1. d + 1 \in Int /\ (d + 1) + r - 1 = Len(w)
    BY <1>1, <1>3, <1>4
  <2>2. Len(a) - r + 1 \in Int /\ (Len(a) - r + 1) + r - 1 = Len(a)
    BY <1>1, <1>4
  <2>3. /\ Cardinality((d + 1)..((d + 1) + r - 1)) = r
        /\ Cardinality((Len(a) - r + 1)..((Len(a) - r + 1) + r - 1)) = r
    BY <1>4, <2>1, <2>2, RunCount
  <2>4. QED
    BY <2>1, <2>2, <2>3
<1>12. live \subseteq 1..Len(w) /\ late \subseteq 1..Len(a)
  BY <1>1, <1>2, <1>3, <1>4
<1>13. {i \in 1..Len(w) : w[i] > at - Window} = live
  BY <1>9, <1>12
<1>14. {i \in 1..Len(a) : at - Window < a[i] /\ a[i] <= at} = late
  BY <1>10, <1>12
<1>15. QED
  BY <1>7, <1>8, <1>11, <1>13, <1>14 DEF r

\* The limiter is exact whenever the requests of a source are counted in the
\* order their clocks were read: it never admits more than Limit in a window,
\* refuses nothing that fits, and counts() reports the window (SourceRateLimiter
\* of ratelimit.py).  Refusals and pruning at any other time leave this intact.
THEOREM LimiterIsExact == Spec => []ExactInOrder
<1>1. LimiterInv /\ WindowInv => ExactInOrder
  <2> SUFFICES ASSUME LimiterInv, WindowInv, NEW k \in Keys, NEW at \in 0..MaxTime,
                      InOrder(k, at)
               PROVE  /\ \A upto \in 0..at : Cardinality(AdmittedIn(k, upto)) <= Limit
                      /\ Allows(k, at) <=> Cardinality(AdmittedIn(k, at)) < Limit
                      /\ Counts(k, at) = Cardinality(AdmittedIn(k, at))
    BY DEF ExactInOrder
  <2>1. QED
    BY WindowsHoldLimit, DequeIsWindow DEF Allows
<1>2. QED
  BY <1>1, LimiterInvariant, WindowInvariant, PTL
==============================================================================
