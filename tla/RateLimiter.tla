------------------------------ MODULE RateLimiter ------------------------------
(***************************************************************************)
(* The per-source sliding-window limiter (src/src/flowjack/ratelimit.py)   *)
(* as the worker threads of the application drive it: enforce_rate_limit   *)
(* of app.py reads the clock first and takes the limiter's lock afterwards,*)
(* so the time a request is counted at may be older than the time of a     *)
(* request counted before it.                                              *)
(***************************************************************************)
EXTENDS Integers, Sequences, FiniteSets

CONSTANTS
    Threads,       \* worker threads, one request each at a time
    Sources,       \* values of the X-Demo-Source header
    Null,          \* no such header
    Unlabelled,    \* the key its requests are counted under
    Limit, Window,
    MaxTime,       \* bound: the clock stays in 0..MaxTime
    MaxAdmitted    \* bound: requests admitted per key

ASSUME LimiterAssumption ==
    /\ {Limit, Window} \subseteq Nat \ {0}
    /\ {MaxTime, MaxAdmitted} \subseteq Nat
    /\ Null \notin Sources /\ IsFiniteSet(Threads)

VARIABLES
    clock,
    request,    \* per thread: the request whose time is read, or none
    seen,       \* _seen: per key, the deque of stamps
    admitted    \* history: per key, the stamps of every request admitted

vars == <<clock, request, seen, admitted>>

-----------------------------------------------------------------------------
Keys == Sources \cup {Unlabelled}
Idle == [key |-> Unlabelled, stamp |-> -1]

\* source or "unlabelled".  Fault: a request without the header has no key.
KeyOfUndefaulted(header) == header
KeyOf(header) == IF header = Null THEN Unlabelled ELSE header

\* Faults: a stamp exactly Window old is kept; the whole deque is cleared.
ExpiredStampStrict(stamp, at) == stamp < at - Window
ExpiredStamp(stamp, at) == stamp <= at - Window

\* The deque after the popleft loop: everything before the first live stamp
\* goes, and nothing behind it does.
PrunedAll(key, at) == << >>
Pruned(key, at) ==
    LET w == seen[key]
        live == {i \in DOMAIN w : ~ExpiredStamp(w[i], at)}
    IN  IF live = {} THEN << >>
        ELSE SubSeq(w, CHOOSE i \in live : \A j \in live : i <= j, Len(w))

\* Fault: one request too many.
AllowsOneMore(key, at) == Len(Pruned(key, at)) <= Limit
Allows(key, at) == Len(Pruned(key, at)) < Limit

\* counts: the stamps of the deque inside the window, whatever their order.
Counts(key, at) == Cardinality({i \in DOMAIN seen[key] : seen[key][i] > at - Window})

-----------------------------------------------------------------------------
Init ==
    /\ clock = 0
    /\ request = [t \in Threads |-> Idle]
    /\ seen = [k \in Keys |-> << >>]
    /\ admitted = [k \in Keys |-> << >>]

\* enforce_rate_limit evaluates resolved_clock.now() ...
ReadClock(t, header) ==
    /\ request[t] = Idle
    /\ request' = [request EXCEPT ![t] = [key |-> KeyOf(header), stamp |-> clock]]
    /\ UNCHANGED <<clock, seen, admitted>>

\* ... and then allow runs under the limiter's lock: the request is admitted,
Admit(t) ==
    LET k == request[t].key
        at == request[t].stamp
    IN  /\ request[t] # Idle
        /\ Allows(k, at) /\ Len(admitted[k]) < MaxAdmitted
        /\ seen' = [seen EXCEPT ![k] = Append(Pruned(k, at), at)]
        /\ admitted' = [admitted EXCEPT ![k] = Append(@, at)]
        /\ request' = [request EXCEPT ![t] = Idle]
        /\ UNCHANGED clock

\* or refused, which prunes the deque all the same.
Refuse(t) ==
    LET k == request[t].key
        at == request[t].stamp
    IN  /\ request[t] # Idle
        /\ ~Allows(k, at)
        /\ seen' = [seen EXCEPT ![k] = Pruned(k, at)]
        /\ request' = [request EXCEPT ![t] = Idle]
        /\ UNCHANGED <<clock, admitted>>

\* SystemClock is time.time(), which an adjustment of the host may set back.
ClockStepsBack == clock > 0 /\ clock' = clock - 1 /\ UNCHANGED <<request, seen, admitted>>
Tick == clock < MaxTime /\ clock' = clock + 1 /\ UNCHANGED <<request, seen, admitted>>

Next ==
    \/ \E t \in Threads :
          \/ \E header \in Sources \cup {Null} : ReadClock(t, header)
          \/ Admit(t)
          \/ Refuse(t)
    \/ Tick \/ ClockStepsBack

Spec == Init /\ [][Next]_vars

-----------------------------------------------------------------------------
TypeOK ==
    /\ clock \in 0..MaxTime
    /\ request \in [Threads -> [key : Keys, stamp : -1..MaxTime]]
    /\ seen \in [Keys -> Seq(0..MaxTime)]
    /\ admitted \in [Keys -> Seq(0..MaxTime)]

(* The requests admitted in the window that ends at a time, and whether they
   were admitted in the order of their stamps, none of them later than it. *)
AdmittedIn(k, at) ==
    {i \in DOMAIN admitted[k] : at - Window < admitted[k][i] /\ admitted[k][i] <= at}
InOrder(k, at) ==
    \A i, j \in DOMAIN admitted[k] :
        i <= j => admitted[k][i] <= admitted[k][j] /\ admitted[k][j] <= at

\* ratelimit.py: "a genuinely enforced, correctly implemented rate limit holding
\* perfectly - never once exceeded": no window holds more admissions than Limit.
NeverExceeded == \A k \in Keys, at \in 0..MaxTime : Cardinality(AdmittedIn(k, at)) <= Limit

\* As long as the requests of a source are counted in the order their clocks
\* were read, no window holds more admissions than Limit, the next request is
\* refused exactly when its window is full, and counts() reports that window.
ExactInOrder ==
    \A k \in Keys, at \in 0..MaxTime :
        InOrder(k, at) =>
            /\ \A upto \in 0..at : Cardinality(AdmittedIn(k, upto)) <= Limit
            /\ Allows(k, at) <=> Cardinality(AdmittedIn(k, at)) < Limit
            /\ Counts(k, at) = Cardinality(AdmittedIn(k, at))

\* In whatever order they were counted, a source is never locked out: a request
\* made a full window after the latest admission of its source is admitted.
QuietSourceAdmitted ==
    \A k \in Keys, at \in 0..MaxTime :
        (\A i \in DOMAIN admitted[k] : admitted[k][i] <= at - Window) => Allows(k, at)

\* The deque never outgrows the limit, so its memory is bounded per source, and
\* it holds nothing but the latest admissions.
DequeBounded ==
    \A k \in Keys :
        /\ Len(seen[k]) <= Limit
        /\ \E n \in 0..Len(admitted[k]) :
              seen[k] = SubSeq(admitted[k], n + 1, Len(admitted[k]))
==============================================================================
