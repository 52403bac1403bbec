---------------------------- MODULE OutboxProofs ----------------------------
(***************************************************************************)
(* Type correctness of the outbox, that it keeps the promise of            *)
(* OrderedStream, and that a poison event is handed out a bounded number   *)
(* of times.                                                               *)
(***************************************************************************)
EXTENDS Outbox, FiniteSetTheorems, TLAPS

\* The type invariant, in the parts that actions disturb.
TypeRows ==
    /\ appended \in 0..MaxEvents
    /\ delivered \subseteq Events
    /\ attempts \in [Events -> 0..MaxAttempts]
    /\ lease \in [Events -> Procs \cup {Nobody}]
    /\ live \in [Events -> BOOLEAN] /\ waiting \in [Events -> BOOLEAN]

TypeWorker ==
    /\ running \in [Procs -> BOOLEAN] /\ timer \in [Procs -> BOOLEAN]
    /\ awaited \in [Procs -> BOOLEAN]

TypeFlight ==
    /\ pc \in [Procs -> {"none", "claim", "call", "ack", "fail", "landed"}]
    /\ held \in [Procs -> 0..MaxEvents]

TypeHistory ==
    /\ throws \in 0..MaxThrows
    /\ seen \subseteq Events
    /\ calls \in [Events -> Nat] /\ pardons \in [Events -> Nat]

\* A flight with an event holds one whose predecessors are all acknowledged,
\* and one that reports a delivery reports what was seen.
Holding(p) == pc[p] \in {"call", "ack", "fail"}

FlightIsFirst ==
    \A p \in Procs : Holding(p) => held[p] \in 1..appended /\ 1..(held[p] - 1) \subseteq delivered

AckIsSeen == \A p \in Procs : pc[p] = "ack" => held[p] \in seen

Inv == TypeRows /\ TypeWorker /\ TypeFlight /\ TypeHistory /\ FlightIsFirst /\ AckIsSeen

\* The parts are the type invariant.
LEMMA TypeParts == TypeOK <=> TypeRows /\ TypeWorker /\ TypeFlight /\ TypeHistory
  BY DEF TypeOK, TypeRows, TypeWorker, TypeFlight, TypeHistory

\* Initially no flight holds an event.
LEMMA InitInv == Init => Inv
  BY OutboxAssumption DEF Init, Inv, TypeRows, TypeWorker, TypeFlight, TypeHistory,
       FlightIsFirst, AckIsSeen, Holding, Events

\* The rows move within their domains: only a claim adds an attempt, and only
\* to a row that has one left.
LEMMA RowsStep == Inv /\ [Next]_vars => TypeRows'
  <1> SUFFICES ASSUME Inv, [Next]_vars PROVE TypeRows'
    OBVIOUS
  <1> USE OutboxAssumption DEF Inv, TypeRows, TypeFlight, FlightIsFirst, Holding, Events
  <1>1. ASSUME UNCHANGED table PROVE TypeRows'
    BY <1>1 DEF table
  <1>2. CASE Audit
    BY <1>2 DEF Audit
  <1>3. ASSUME NEW e \in Events, RetryBlocked(e) PROVE TypeRows'
    BY <1>3 DEF RetryBlocked
  <1>4. ASSUME NEW e \in Events, Expire(e) PROVE TypeRows'
    BY <1>4 DEF Expire
  <1>5. ASSUME NEW e \in Events, FallsDue(e) PROVE TypeRows'
    BY <1>5 DEF FallsDue
  <1>6. ASSUME NEW p \in Procs, Claim(p) PROVE TypeRows'
    BY <1>6 DEF Claim, MayTry, Count
  <1>7. ASSUME NEW p \in Procs, Acknowledge(p) PROVE TypeRows'
    <2>1. held[p] \in Events
      BY <1>7 DEF Acknowledge
    <2>2. delivered' \subseteq Events
      BY <1>7, <2>1 DEF Acknowledge
    <2> QED
      BY <1>7, <2>2 DEF Acknowledge
  <1>8. ASSUME NEW p \in Procs, Release(p) PROVE TypeRows'
    BY <1>8 DEF Release
  <1> QED
    BY <1>1, <1>2, <1>3, <1>4, <1>5, <1>6, <1>7, <1>8
    DEF Next, Fly, vars, table, FindsNothing, Deliver, AcknowledgeThrows, LeaseLost, Throw,
        Land, TimerFires, Start, Kick, Stop, Crash

\* The flags of the workers stay flags.
LEMMA WorkerStep == Inv /\ [Next]_vars => TypeWorker'
  <1> SUFFICES ASSUME Inv, [Next]_vars PROVE TypeWorker'
    OBVIOUS
  <1> USE DEF Inv, TypeWorker
  <1>1. ASSUME UNCHANGED worker PROVE TypeWorker'
    BY <1>1 DEF worker
  <1>2. ASSUME NEW p \in Procs, TimerFires(p) PROVE TypeWorker'
    BY <1>2 DEF TimerFires
  <1>3. ASSUME NEW p \in Procs, Land(p) PROVE TypeWorker'
    BY <1>3 DEF Land
  <1>4. ASSUME NEW p \in Procs, Start(p) \/ Kick(p) \/ Stop(p) \/ Crash(p) PROVE TypeWorker'
    BY <1>4 DEF Start, Kick, Stop, Crash, Schedule
  <1> QED
    BY <1>1, <1>2, <1>3, <1>4
    DEF Next, Fly, vars, worker, Audit, RetryBlocked, Expire, FallsDue, Claim, FindsNothing,
        Deliver, Acknowledge, AcknowledgeThrows, Release, LeaseLost, Throw

\* A flight moves between its labels, and holds what it claimed.
LEMMA FlightStep == Inv /\ [Next]_vars => TypeFlight'
  <1> SUFFICES ASSUME Inv, [Next]_vars PROVE TypeFlight'
    OBVIOUS
  <1> USE OutboxAssumption DEF Inv, TypeFlight, Events, GoTo
  <1>1. ASSUME UNCHANGED flight PROVE TypeFlight'
    BY <1>1 DEF flight
  <1>2. ASSUME NEW p \in Procs, Claim(p) PROVE TypeFlight'
    BY <1>2 DEF Claim
  <1>3. ASSUME NEW p \in Procs, FindsNothing(p) \/ LeaseLost(p) \/ Throw(p) PROVE TypeFlight'
    BY <1>3 DEF FindsNothing, LeaseLost, Throw
  <1>4. ASSUME NEW p \in Procs, Deliver(p) \/ AcknowledgeThrows(p) PROVE TypeFlight'
    BY <1>4 DEF Deliver, AcknowledgeThrows
  <1>5. ASSUME NEW p \in Procs, Acknowledge(p) \/ Release(p) PROVE TypeFlight'
    BY <1>5 DEF Acknowledge, Release
  <1>6. ASSUME NEW p \in Procs, TimerFires(p) PROVE TypeFlight'
    BY <1>6 DEF TimerFires, Flush
  <1>7. ASSUME NEW p \in Procs, Land(p) \/ Crash(p) PROVE TypeFlight'
    BY <1>7 DEF Land, Crash
  <1> QED
    BY <1>1, <1>2, <1>3, <1>4, <1>5, <1>6, <1>7
    DEF Next, Fly, vars, flight, Audit, RetryBlocked, Expire, FallsDue, Start, Kick, Stop

\* The histories grow within their domains.
LEMMA HistoryStep == Inv /\ [Next]_vars => TypeHistory'
  <1> SUFFICES ASSUME Inv, [Next]_vars PROVE TypeHistory'
    OBVIOUS
  <1> USE OutboxAssumption DEF Inv, TypeRows, TypeFlight, TypeHistory, FlightIsFirst, Holding, Events
  <1>1. ASSUME UNCHANGED <<throws, history>> PROVE TypeHistory'
    BY <1>1 DEF history
  <1>2. ASSUME NEW e \in Events, RetryBlocked(e) PROVE TypeHistory'
    BY <1>2 DEF RetryBlocked
  <1>3. ASSUME NEW p \in Procs, Deliver(p) PROVE TypeHistory'
    <2>1. held[p] \in Events
      BY <1>3 DEF Deliver
    <2>2. seen' \subseteq Events
      BY <1>3, <2>1 DEF Deliver
    <2>3. calls' = [calls EXCEPT ![held[p]] = @ + 1] /\ UNCHANGED <<throws, pardons>>
      BY <1>3 DEF Deliver
    <2>4. calls' \in [Events -> Nat]
      BY ONLY <2>1, <2>3, TypeHistory DEF TypeHistory
    <2> QED
      BY <2>2, <2>3, <2>4
  <1>4. ASSUME NEW p \in Procs, AcknowledgeThrows(p) \/ Throw(p) PROVE TypeHistory'
    <2>1. throws < MaxThrows /\ throws' = throws + 1 /\ UNCHANGED history
      BY <1>4 DEF AcknowledgeThrows, Throw
    <2>2. throws' \in 0..MaxThrows
      BY <2>1
    <2> QED
      BY <2>1, <2>2 DEF history
  <1> QED
    BY <1>1, <1>2, <1>3, <1>4
    DEF Next, Fly, vars, history, Audit, Expire, FallsDue, Claim, FindsNothing, Acknowledge,
        Release, LeaseLost, Land, TimerFires, Start, Kick, Stop, Crash

\* What a flight holds keeps its place: rows are only added behind it, and
\* nothing takes an acknowledgement back.
LEMMA FirstStep == Inv /\ [Next]_vars => FlightIsFirst'
  <1> SUFFICES ASSUME Inv, [Next]_vars, NEW p \in Procs, Holding(p)'
               PROVE (held[p] \in 1..appended /\ 1..(held[p] - 1) \subseteq delivered)'
    BY DEF FlightIsFirst
  <1>1. /\ appended \in Nat /\ appended' \in Nat
        /\ appended <= appended' /\ delivered \subseteq delivered'
    BY DEF Inv, TypeRows, Next, Fly, vars, table, Audit, RetryBlocked, Expire, FallsDue, Claim,
           FindsNothing, Deliver, Acknowledge, AcknowledgeThrows, Release, LeaseLost, Throw,
           Land, TimerFires, Start, Kick, Stop, Crash
  <1>2. CASE Claim(p)
    <2>1. PICK e \in Events : IsHead(e) /\ held' = [held EXCEPT ![p] = e]
      BY <1>2 DEF Claim
    <2>2. held'[p] = e /\ e \in 1..appended
      BY <2>1 DEF Inv, TypeFlight, IsHead, Pending
    <2>3. ASSUME NEW f \in 1..(e - 1) PROVE f \in delivered
      <3>1. f \in 1..appended /\ ~(e <= f)
        BY <2>2, <1>1
      <3> QED
        BY <2>1, <3>1 DEF IsHead, Pending
    <2> QED
      BY <1>1, <2>2, <2>3
  <1>3. ASSUME ~Claim(p) PROVE Holding(p) /\ held'[p] = held[p]
    BY <1>3 DEF Inv, TypeFlight, Holding, Next, Fly, vars, flight, GoTo, Flush, Audit, RetryBlocked,
           Expire, FallsDue, Claim, FindsNothing, Deliver, Acknowledge, AcknowledgeThrows,
           Release, LeaseLost, Throw, Land, TimerFires, Start, Kick, Stop, Crash
  <1>4. CASE ~Claim(p)
    BY <1>1, <1>3, <1>4 DEF Inv, FlightIsFirst
  <1> QED
    BY <1>2, <1>4

\* Only a delivery that was seen is reported.
LEMMA SeenStep == Inv /\ [Next]_vars => AckIsSeen'
  <1> SUFFICES ASSUME Inv, [Next]_vars, NEW p \in Procs, pc'[p] = "ack"
               PROVE held'[p] \in seen'
    BY DEF AckIsSeen
  <1>1. CASE Deliver(p)
    BY <1>1 DEF Inv, TypeFlight, GoTo, Deliver
  <1>2. ASSUME ~Deliver(p) PROVE pc[p] = "ack" /\ held'[p] = held[p]
    BY <1>2 DEF Inv, TypeFlight, Next, Fly, vars, flight, GoTo, Flush, Audit, RetryBlocked,
           Expire, FallsDue, Claim, FindsNothing, Deliver, Acknowledge, AcknowledgeThrows,
           Release, LeaseLost, Throw, Land, TimerFires, Start, Kick, Stop, Crash
  <1>3. seen \subseteq seen'
    BY DEF Next, Fly, vars, history, Audit, RetryBlocked, Expire, FallsDue, Claim,
           FindsNothing, Deliver, Acknowledge, AcknowledgeThrows, Release, LeaseLost, Throw,
           Land, TimerFires, Start, Kick, Stop, Crash
  <1> QED
    BY <1>1, <1>2, <1>3 DEF Inv, AckIsSeen

\* Every state of every behaviour satisfies the invariant.
LEMMA InvHolds == Spec => []Inv
  <1>1. Inv /\ [Next]_vars => Inv'
    BY RowsStep, WorkerStep, FlightStep, HistoryStep, FirstStep, SeenStep DEF Inv
  <1> QED
    BY InitInv, <1>1, PTL DEF Spec

\* Every variable keeps its domain; in particular no row is tried more often
\* than its attempts allow (the guard of deliverNext).
THEOREM OutboxTypes == Spec => []TypeOK
  <1>1. Inv => TypeOK
    BY TypeParts DEF Inv
  <1> QED
    BY InvHolds, <1>1, PTL

\* The outbox keeps the promise of the abstract stream: first sightings in
\* order, and no acknowledgement of what was not seen, for any number of
\* processes, rows and attempts.
THEOREM OutboxIsOrdered == Spec => Ordered
  <1>1. Init => Stream!Init
    BY DEF Init, Stream!Init
  <1>2. ASSUME Inv, [Next]_vars PROVE [Stream!Next]_(Stream!vars)
    <2> USE DEF Stream!vars
    <2>1. ASSUME UNCHANGED <<appended, seen, delivered>> PROVE [Stream!Next]_(Stream!vars)
      BY <2>1
    <2>2. ASSUME Audit \/ \E e \in Events : RetryBlocked(e) PROVE Stream!Append
      BY <2>2 DEF Audit, RetryBlocked, history, Stream!Append
    <2>3. ASSUME NEW p \in Procs, Deliver(p)
          PROVE \/ UNCHANGED <<appended, seen, delivered>>
                \/ held[p] \in 1..MaxEvents /\ Stream!See(held[p])
      <3>1. held[p] \in 1..appended /\ 1..(held[p] - 1) \subseteq delivered
        BY <1>2, <2>3 DEF Inv, FlightIsFirst, Holding, Deliver
      <3>2. held[p] \in 1..MaxEvents
        BY <1>2, <3>1, OutboxAssumption DEF Inv, TypeRows
      <3> QED
        BY <2>3, <3>1, <3>2 DEF Deliver, table, Stream!See, Stream!OnlyAfter
    <2>4. ASSUME NEW p \in Procs, Acknowledge(p)
          PROVE held[p] \in 1..MaxEvents /\ Stream!Acknowledge(held[p])
      <3>1. held[p] \in 1..appended /\ 1..(held[p] - 1) \subseteq delivered
        BY <1>2, <2>4 DEF Inv, FlightIsFirst, Holding, Acknowledge
      <3>2. held[p] \in 1..MaxEvents
        BY <1>2, <3>1, OutboxAssumption DEF Inv, TypeRows
      <3>3. held[p] \in seen
        BY <1>2, <2>4 DEF Inv, AckIsSeen, Acknowledge
      <3> QED
        BY <2>4, <3>1, <3>2, <3>3
        DEF Acknowledge, history, Stream!Acknowledge, Stream!OnlyAfter
    <2> QED
      BY <1>2, <2>1, <2>2, <2>3, <2>4
      DEF Stream!Next, Next, Fly, vars, table, history, Expire, FallsDue, Claim,
          FindsNothing, AcknowledgeThrows, Release, LeaseLost, Throw, Land, TimerFires,
          Start, Kick, Stop, Crash
  <1> QED
    BY InvHolds, <1>1, <1>2, PTL DEF Spec, Ordered, Stream!Spec

\* The calls that are being made with an event.
InCall(e) == {p \in Procs : pc[p] = "call" /\ held[p] = e}

\* The calls made and being made with an event are counted as attempts, those
\* of earlier pardons at most MaxAttempts each. This is inductive, and
\* PoisonIsBounded is not: it does not know what is being made.
Budget ==
    \A e \in Events :
        calls[e] + Cardinality(InCall(e)) <= attempts[e] + MaxAttempts * pardons[e]

\* The calls that are being made are finitely many.
LEMMA InCallFinite == ASSUME NEW e PROVE IsFiniteSet(InCall(e)) /\ Cardinality(InCall(e)) \in Nat
  <1>1. InCall(e) \subseteq Procs
    BY DEF InCall
  <1>2. IsFiniteSet(InCall(e))
    BY <1>1, FS_Subset, OutboxAssumption
  <1> QED
    BY <1>2, FS_CardinalityType

\* One pardon more allows MaxAttempts attempts more.
LEMMA Allowance ==
    ASSUME NEW k \in Nat
    PROVE  MaxAttempts * k \in Nat /\ MaxAttempts * (k + 1) = MaxAttempts * k + MaxAttempts
  BY OutboxAssumption

\* No step makes a call that is not paid for.
LEMMA BudgetStep == Inv /\ Inv' /\ Budget /\ [Next]_vars => Budget'
  <1> SUFFICES ASSUME Inv, Inv', Budget, [Next]_vars, NEW e \in Events
               PROVE (calls[e] + Cardinality(InCall(e)) <= attempts[e] + MaxAttempts * pardons[e])'
    BY DEF Budget
  <1> DEFINE n == Cardinality(InCall(e))
             m == MaxAttempts * pardons[e]
  <1>1. /\ IsFiniteSet(InCall(e)) /\ n \in Nat
        /\ IsFiniteSet(InCall(e)') /\ n' \in Nat
    <2>1. InCall(e)' \subseteq Procs
      BY DEF InCall
    <2>2. IsFiniteSet(InCall(e)')
      BY <2>1, FS_Subset, OutboxAssumption
    <2> QED
      BY <2>2, InCallFinite, FS_CardinalityType
  <1>2. /\ calls[e] \in Nat /\ attempts[e] \in Nat /\ attempts[e] <= MaxAttempts
        /\ pardons[e] \in Nat /\ m \in Nat
    BY Allowance, OutboxAssumption DEF Inv, TypeRows, TypeHistory
  <1>3. calls[e] + n <= attempts[e] + m
    BY DEF Budget
  <1>4. ASSUME InCall(e)' \subseteq InCall(e), UNCHANGED <<calls, pardons, attempts>>
        PROVE calls'[e] + n' <= attempts'[e] + m'
    <2>1. n' <= n
      BY <1>1, <1>4, FS_Subset
    <2>2. calls'[e] = calls[e] /\ attempts'[e] = attempts[e] /\ m' = m
      BY <1>4
    <2> HIDE DEF n, m
    <2> QED
      BY <1>1, <1>2, <1>3, <2>1, <2>2
  <1>5. ASSUME NEW p \in Procs, Claim(p) PROVE calls'[e] + n' <= attempts'[e] + m'
    <2>1. PICK f \in Events : Count(f) /\ held' = [held EXCEPT ![p] = f]
      BY <1>5 DEF Claim
    <2>2. /\ calls' = calls /\ pardons' = pardons
          /\ pc[p] = "claim" /\ pc' = [pc EXCEPT ![p] = "call"]
      BY <1>5 DEF Claim, history, GoTo
    <2>3. CASE f = e
      <3>1. InCall(e)' = InCall(e) \cup {p}
        BY <2>1, <2>2, <2>3 DEF InCall, Inv, TypeFlight
      <3>2. n' <= n + 1
        BY <1>1, <3>1, FS_AddElement
      <3>3. attempts'[e] = attempts[e] + 1 /\ calls'[e] = calls[e] /\ m' = m
        BY <2>1, <2>2, <2>3 DEF Count, Inv, TypeRows
      <3> HIDE DEF n, m
      <3> QED
        BY <1>1, <1>2, <1>3, <3>2, <3>3
    <2>4. CASE f # e
      <3>1. InCall(e)' = InCall(e)
        BY <2>1, <2>2, <2>4 DEF InCall, Inv, TypeFlight
      <3>2. attempts'[e] = attempts[e] /\ calls'[e] = calls[e] /\ m' = m
        BY <2>1, <2>2, <2>4 DEF Count, Inv, TypeRows
      <3>3. n' = n
        BY <3>1
      <3> HIDE DEF n, m
      <3> QED
        BY <1>3, <3>2, <3>3
    <2> QED
      BY <2>3, <2>4
  <1>6. ASSUME NEW p \in Procs, Deliver(p) PROVE calls'[e] + n' <= attempts'[e] + m'
    <2>1. /\ calls' = [calls EXCEPT ![held[p]] = @ + 1] /\ held' = held /\ pc[p] = "call"
          /\ attempts' = attempts /\ pardons' = pardons
          /\ pc' = [pc EXCEPT ![p] = "ack"] \/ pc' = [pc EXCEPT ![p] = "fail"]
      BY <1>6 DEF Deliver, table, GoTo
    <2>2. InCall(e)' = InCall(e) \ {p}
      BY <2>1 DEF InCall, Inv, TypeFlight
    <2>3. CASE held[p] = e
      <3>1. p \in InCall(e)
        BY <2>1, <2>3 DEF InCall
      <3>2. n' = n - 1
        BY <1>1, <2>2, <3>1, FS_RemoveElement
      <3>3. calls'[e] = calls[e] + 1 /\ attempts'[e] = attempts[e] /\ m' = m
        BY <2>1, <2>3 DEF Inv, TypeHistory
      <3> HIDE DEF n, m
      <3> QED
        BY <1>1, <1>2, <1>3, <3>2, <3>3
    <2>4. CASE held[p] # e
      <3>1. n' = n
        BY <2>1, <2>2, <2>4 DEF InCall
      <3>2. calls'[e] = calls[e] /\ attempts'[e] = attempts[e] /\ m' = m
        BY <2>1, <2>4 DEF Inv, TypeHistory
      <3> HIDE DEF n, m
      <3> QED
        BY <1>3, <3>1, <3>2
    <2> QED
      BY <2>3, <2>4
  <1>7. ASSUME NEW f \in Events, RetryBlocked(f) PROVE calls'[e] + n' <= attempts'[e] + m'
    <2>1. /\ attempts' = [attempts EXCEPT ![f] = 0] /\ pardons' = [pardons EXCEPT ![f] = @ + 1]
          /\ calls' = calls /\ pc' = pc /\ held' = held
      BY <1>7 DEF RetryBlocked, flight
    <2>2. n' = n /\ calls'[e] = calls[e]
      BY <2>1 DEF InCall
    <2>3. CASE f = e
      <3>1. attempts'[e] = 0 /\ m' = m + MaxAttempts
        BY <1>2, <2>1, <2>3, Allowance DEF Inv, TypeRows, TypeHistory
      <3> HIDE DEF n, m
      <3> QED
        BY <1>1, <1>2, <1>3, <2>2, <3>1, OutboxAssumption
    <2>4. CASE f # e
      <3>1. attempts'[e] = attempts[e] /\ m' = m
        BY <2>1, <2>4 DEF Inv, TypeRows, TypeHistory
      <3> HIDE DEF n, m
      <3> QED
        BY <1>3, <2>2, <3>1
    <2> QED
      BY <2>3, <2>4
  <1>8. \/ \E p \in Procs : Claim(p) \/ Deliver(p)
        \/ \E f \in Events : RetryBlocked(f)
        \/ InCall(e)' \subseteq InCall(e) /\ UNCHANGED <<calls, pardons, attempts>>
    <2>1. ASSUME ~\E p \in Procs : Claim(p) \/ Deliver(p), ~\E f \in Events : RetryBlocked(f)
          PROVE /\ UNCHANGED <<calls, pardons, attempts>>
                /\ \A p \in Procs : pc'[p] = "call" => pc[p] = "call" /\ held'[p] = held[p]
      BY <2>1 DEF Inv, TypeFlight, Next, Fly, vars, table, flight, history, GoTo, Flush, Audit,
             Expire, FallsDue, FindsNothing, Acknowledge, AcknowledgeThrows, Release, LeaseLost,
             Throw, Land, TimerFires, Start, Kick, Stop, Crash
    <2> QED
      BY <2>1 DEF InCall
  <1> QED
    BY <1>4, <1>5, <1>6, <1>7, <1>8

\* An event is handed to the consumer at most MaxAttempts times for each
\* decision of an operator, however processes die with it (deliverNext counts
\* an attempt when it claims).
THEOREM PoisonStops == Spec => []PoisonIsBounded
  <1>1. Init => Budget
    <2> SUFFICES ASSUME Init, NEW e \in Events
                 PROVE calls[e] + Cardinality(InCall(e)) <= attempts[e] + MaxAttempts * pardons[e]
      BY DEF Budget
    <2>1. InCall(e) = {}
      BY DEF Init, InCall
    <2>2. calls[e] = 0 /\ attempts[e] = 0 /\ pardons[e] = 0
      BY DEF Init
    <2> QED
      BY <2>1, <2>2, FS_EmptySet, OutboxAssumption
  <1>2. Budget /\ Inv /\ Inv' /\ [Next]_vars => Budget'
    BY BudgetStep
  <1>3. Budget /\ Inv => PoisonIsBounded
    <2> SUFFICES ASSUME Budget, Inv, NEW e \in Events
                 PROVE calls[e] <= MaxAttempts * (pardons[e] + 1)
      BY DEF PoisonIsBounded
    <2>1. calls[e] \in Nat /\ attempts[e] \in 0..MaxAttempts /\ pardons[e] \in Nat
      BY DEF Inv, TypeRows, TypeHistory
    <2>2. Cardinality(InCall(e)) \in Nat
      BY InCallFinite
    <2>3. calls[e] + Cardinality(InCall(e)) <= attempts[e] + MaxAttempts * pardons[e]
      BY DEF Budget
    <2> DEFINE m == MaxAttempts * pardons[e]
    <2>4. m \in Nat /\ MaxAttempts * (pardons[e] + 1) = m + MaxAttempts
      BY <2>1, Allowance
    <2>5. calls[e] + Cardinality(InCall(e)) <= attempts[e] + m
      BY <2>3
    <2> HIDE DEF m
    <2> QED
      BY <2>1, <2>2, <2>4, <2>5, OutboxAssumption
  <1> QED
    BY InvHolds, <1>1, <1>2, <1>3, PTL DEF Spec

-----------------------------------------------------------------------------
(* The worker stays awake: the safety half of Progress.                    *)

\* A flight is under way exactly while somebody awaits it. Without this the
\* next claim is not inductive: a flight nobody awaits would land unnoticed.
FlightIsAwaited == \A p \in Procs : awaited[p] <=> pc[p] # "none"

\* A running worker has its timer set, or a flight that will set it again.
WorkerIsAwake == \A p \in Procs : running[p] => timer[p] \/ pc[p] # "none"

\* Between start and stop a worker is never left without its timer and
\* without a flight, whatever flights throw, kicks overtake, stops and starts
\* meet a flight, and crashes cut (runScheduled, authorityOutbox.ts 181-205).
THEOREM TheWorkerStaysAwake == Spec => [](FlightIsAwaited /\ WorkerIsAwake)
  <1>1. Init => FlightIsAwaited /\ WorkerIsAwake
    BY DEF Init, FlightIsAwaited, WorkerIsAwake
  <1>2. ASSUME Inv, FlightIsAwaited, WorkerIsAwake, [Next]_vars
        PROVE  FlightIsAwaited' /\ WorkerIsAwake'
    <2> SUFFICES ASSUME NEW p \in Procs
                 PROVE  /\ awaited'[p] <=> pc'[p] # "none"
                        /\ running'[p] => timer'[p] \/ pc'[p] # "none"
      BY DEF FlightIsAwaited, WorkerIsAwake
    <2> USE <1>2 DEF Inv, TypeWorker, TypeFlight
    <2>1. (awaited[p] <=> pc[p] # "none") /\ (running[p] => timer[p] \/ pc[p] # "none")
      BY DEF FlightIsAwaited, WorkerIsAwake
    <2>2. CASE UNCHANGED <<worker, pc>>
      BY <2>1, <2>2 DEF worker
    <2>3. ASSUME NEW q \in Procs, Start(q) \/ Kick(q) \/ Stop(q) \/ Crash(q)
          PROVE  /\ awaited'[p] <=> pc'[p] # "none"
                 /\ running'[p] => timer'[p] \/ pc'[p] # "none"
      BY <2>1, <2>3 DEF Start, Kick, Stop, Crash, Schedule, GoTo, flight
    <2>4. ASSUME NEW q \in Procs, TimerFires(q) \/ Land(q)
          PROVE  /\ awaited'[p] <=> pc'[p] # "none"
                 /\ running'[p] => timer'[p] \/ pc'[p] # "none"
      BY <2>1, <2>4 DEF TimerFires, Flush, Land, GoTo
    <2>5. ASSUME NEW q \in Procs,
                 \/ Claim(q) \/ FindsNothing(q) \/ Deliver(q) \/ Acknowledge(q)
                 \/ AcknowledgeThrows(q) \/ Release(q) \/ LeaseLost(q) \/ Throw(q)
          PROVE  /\ UNCHANGED worker
                 /\ pc[p] = "none" <=> pc'[p] = "none"
      BY <2>5 DEF Claim, FindsNothing, Deliver, Acknowledge, AcknowledgeThrows, Release,
                  LeaseLost, Throw, GoTo
    <2>6. \/ UNCHANGED <<worker, pc>>
          \/ \E q \in Procs : \/ Start(q) \/ Kick(q) \/ Stop(q) \/ Crash(q)
                              \/ TimerFires(q) \/ Fly(q)
      BY DEF Next, vars, worker, flight, Audit, RetryBlocked, Expire, FallsDue
    <2> QED
      BY <2>1, <2>2, <2>3, <2>4, <2>5, <2>6 DEF worker, Fly
  <1> QED
    BY InvHolds, <1>1, <1>2, PTL DEF Spec
=============================================================================
