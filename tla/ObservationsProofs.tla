------------------------ MODULE ObservationsProofs --------------------------
(* Proofs about Observations, for any tools, parts and messages and any    *)
(* number of reconciliations.                                              *)
EXTENDS Observations, SequenceTheorems, TLAPS

-----------------------------------------------------------------------------
(* Types.                                                                  *)

\* Every entity has one state or two.
LEMMA TopRange == \A e \in Entities : Top(e) \in 1..2
BY DEF Top

LEMMA StateRange ==
    \A s \in States, e \in Entities : s[e] \in 0..2 /\ s[e] <= Top(e)
BY DEF States

\* A function of states raised at one entity, within its range, is a function
\* of states.
LEMMA StatesRaised ==
    ASSUME NEW s \in States, NEW e \in Entities, NEW r \in 0..2, r <= Top(e)
    PROVE  [s EXCEPT ![e] = r] \in States
BY DEF States

\* Nothing has happened yet: every entity is in state 0.
LEMMA NothingTyped == Nothing \in States
BY TopRange DEF Nothing, States

\* The parts of the type invariant.
StateTypes == /\ native \in States /\ seen \in States /\ checkpoint \in States
              /\ snapshot \in States /\ floor \in States
QueueTypes == wire \in Seq(Event) /\ pending \in Seq(Observation) /\ jobs \in Seq(Job)
FlagTypes  == /\ connected \in BOOLEAN /\ attached \in BOOLEAN
              /\ history \in BOOLEAN /\ timer \in BOOLEAN /\ informed \in BOOLEAN
CountTypes == /\ adopted \in 0..MaxOrdinal /\ ordinal \in 0..MaxOrdinal
              /\ attempt \in 0..MaxAttempts
StageTypes ==
    /\ flight \in {"none", "started", "adopted", "read", "ingested"}
    /\ barrier \in {"none", "reconciling", "ready", "blocked", "unknown"}
StoreTypes == claimed \in [Entities -> SUBSET Revision] /\ log \in [Entities -> Seq(Entry)]

LEMMA TypeParts ==
    TypeOK <=> /\ StateTypes /\ QueueTypes /\ FlagTypes
               /\ CountTypes /\ StageTypes /\ StoreTypes
BY DEF TypeOK, StateTypes, QueueTypes, FlagTypes, CountTypes, StageTypes, StoreTypes

\* Appending keeps a sequence over its set.
LEMMA AppendTyped ==
    ASSUME NEW S, NEW q \in Seq(S), NEW x \in S
    PROVE  Append(q, x) \in Seq(S) /\ Append(q, x) # <<>>
<1>1. Append(q, x) \in Seq(S) /\ Len(Append(q, x)) = Len(q) + 1 /\ Len(q) \in Nat
  OBVIOUS
<1>2. Len(<<>>) = 0
  BY EmptySeq
<1>3. Len(Append(q, x)) # Len(<<>>)
  BY <1>1, <1>2
<1>4. QED
  BY <1>1, <1>3

LEMMA TailTyped ==
    ASSUME NEW S, NEW q \in Seq(S), q # <<>>
    PROVE  /\ Head(q) \in S /\ q[1] = Head(q) /\ Tail(q) \in Seq(S)
           /\ Len(q) # 1 => Tail(q) # <<>>
<1>1. Head(q) \in S /\ q[1] = Head(q) /\ Tail(q) \in Seq(S)
  OBVIOUS
<1>2. ASSUME Tail(q) = <<>>
      PROVE  Len(q) = 1
  <2>1. Len(Tail(q)) = Len(q) - 1 /\ Len(q) \in Nat
    BY HeadTailProperties, LenProperties
  <2>2. Len(Tail(q)) = 0
    BY <1>2, EmptySeq
  <2>3. Len(q) - 1 = 0 /\ Len(q) \in Nat
    BY <2>1, <2>2
  <2>4. QED
    BY <2>3
<1>3. QED
  BY <1>1, <1>2

\* The jobs: a batch of observations, or a reconciliation.
LEMMA JobTyped ==
    /\ \A batch \in Batch : Observe(batch) \in Job
    /\ Reconcile \in Job
    /\ \A j \in Job : j.kind = "observe" => j.batch \in Batch
BY DEF Observe, Reconcile, Job

\* The batch that is being ingested, and its first observation.
LEMMA IngestTyped ==
    ASSUME QueueTypes, IngestNext
    PROVE  /\ Head(jobs).batch \in Batch
           /\ Head(Head(jobs).batch) \in Observation
           /\ Head(jobs).batch[1] = Head(Head(jobs).batch)
           /\ jobs' \in Seq(Job)
           /\ jobs # <<>>
<1>1. jobs # <<>> /\ Head(jobs).kind = "observe" /\ jobs \in Seq(Job)
  BY DEF IngestNext, Free, QueueTypes
<1>2. Head(jobs) \in Job /\ Tail(jobs) \in Seq(Job)
  BY <1>1, TailTyped
<1>3. Head(jobs).batch \in Batch
  BY <1>1, <1>2, JobTyped
<1>4. Head(jobs).batch \in Seq(Observation) /\ Head(jobs).batch # <<>>
  BY <1>3 DEF Batch
<1>5. /\ Head(Head(jobs).batch) \in Observation
      /\ Head(jobs).batch[1] = Head(Head(jobs).batch)
      /\ Len(Head(jobs).batch) # 1 => Tail(Head(jobs).batch) \in Batch
  BY <1>4, TailTyped DEF Batch
<1>6. ASSUME NEW j \in Job
      PROVE  [jobs EXCEPT ![1] = j] \in Seq(Job)
  BY <1>1
<1>7. \/ jobs' = Tail(jobs)
      \/ /\ Len(Head(jobs).batch) # 1
         /\ jobs' = [jobs EXCEPT ![1] = Observe(Tail(Head(jobs).batch))]
  BY DEF IngestNext
<1>8. ASSUME Len(Head(jobs).batch) # 1
      PROVE  [jobs EXCEPT ![1] = Observe(Tail(Head(jobs).batch))] \in Seq(Job)
  BY <1>5, <1>6, <1>8, JobTyped
<1>9. QED
  BY <1>1, <1>2, <1>3, <1>5, <1>7, <1>8

\* The observation the adapter makes of a stream event, and what it has derived
\* from then on.
LEMMA ObservedTyped ==
    ASSUME StateTypes, NEW event \in Event, adopted \in 1..MaxOrdinal,
           NEW delta \in BOOLEAN, NEW stops \in BOOLEAN,
           delta => event.entity \in Parts /\ event.rank = 1
    PROVE  /\ Observed(event, delta, stops) \in Observation
           /\ [e \in Entities |-> IF e \in Observed(event, delta, stops).flushed
                                 THEN 2 ELSE Translated(event)[e]] \in States
<1> DEFINE o == Observed(event, delta, stops)
<1>1. event.entity \in Entities /\ event.rank \in 1..2 /\ event.rank <= Top(event.entity)
  BY DEF Event
<1>2. seen \in States /\ seen[event.entity] \in 0..2
  BY <1>1, StateRange DEF StateTypes
<1>3. Translated(event) \in States
  <2>1. event.rank \in 0..2
    BY <1>1
  <2>2. QED
    BY <1>1, <1>2, <2>1, StatesRaised DEF Translated
<1>4. Unended(event) \subseteq Parts
  BY DEF Unended
<1>5. /\ o.entity = event.entity /\ o.from = seen[event.entity] /\ o.rank = event.rank
      /\ o.ordinal = adopted /\ o.delta = delta
      /\ o.flushed \in {{}, Unended(event)}
  BY DEF Observed
<1>6. o \in Observation
  <2>1. o \in [entity: Entities, from: 0..2, rank: 1..2, ordinal: 1..MaxOrdinal,
               delta: BOOLEAN, flushed: SUBSET Parts]
    BY <1>1, <1>2, <1>4 DEF Observed
  <2>2. QED
    BY <1>1, <1>5, <2>1 DEF Observation
<1>7. \A e \in o.flushed : e \in Parts /\ Top(e) = 2
  BY <1>4, <1>5 DEF Top, Ranked
<1>8. \A e \in Entities : Translated(event)[e] \in 0..2 /\ Translated(event)[e] <= Top(e)
  BY <1>3, StateRange
<1>9. QED
  BY <1>6, <1>7, <1>8 DEF States

\* An event that is looked at becomes an observation; any other leaves no trace.
LEMMA ReceiveCases ==
    ASSUME Receive
    PROVE  \/ UNCHANGED <<seen, pending, jobs>>
           \/ /\ adopted # 0
              /\ \E delta, stops \in BOOLEAN :
                    LET event == Head(wire)
                        o == Observed(event, delta, stops)
                    IN /\ delta => event.entity \in Parts /\ event.rank = 1
                       /\ seen' = [e \in Entities |->
                              IF e \in o.flushed THEN 2 ELSE Translated(event)[e]]
                       /\ \/ pending' = Append(pending, o) /\ jobs' = jobs
                          \/ /\ pending' = <<>>
                             /\ jobs' = Append(jobs, Observe(Append(pending, o)))
BY DEF Receive

LEMMA ReceiveTyped ==
    ASSUME StateTypes, QueueTypes, CountTypes, Receive
    PROVE  /\ seen' \in States
           /\ wire' \in Seq(Event) /\ pending' \in Seq(Observation) /\ jobs' \in Seq(Job)
<1> DEFINE event == Head(wire)
<1>1. event \in Event /\ Tail(wire) \in Seq(Event) /\ wire' = Tail(wire)
  BY TailTyped DEF Receive, QueueTypes
<1>2. CASE UNCHANGED <<seen, pending, jobs>>
  BY <1>1, <1>2 DEF StateTypes, QueueTypes
<1>3. ASSUME adopted # 0, NEW delta \in BOOLEAN, NEW stops \in BOOLEAN,
             delta => event.entity \in Parts /\ event.rank = 1,
             seen' = [e \in Entities |-> IF e \in Observed(event, delta, stops).flushed
                                        THEN 2 ELSE Translated(event)[e]],
             \/ pending' = Append(pending, Observed(event, delta, stops)) /\ jobs' = jobs
             \/ /\ pending' = <<>>
                /\ jobs' = Append(jobs,
                       Observe(Append(pending, Observed(event, delta, stops))))
      PROVE  seen' \in States /\ pending' \in Seq(Observation) /\ jobs' \in Seq(Job)
  <2> DEFINE o == Observed(event, delta, stops)
  <2>1. adopted \in 1..MaxOrdinal
    BY <1>3, ObservationAssumption DEF CountTypes
  <2>2. o \in Observation /\ seen' \in States
    BY <1>1, <1>3, <2>1, ObservedTyped
  <2> HIDE DEF o
  <2>3. Append(pending, o) \in Seq(Observation) /\ Append(pending, o) \in Batch
    BY <2>2, AppendTyped DEF QueueTypes, Batch
  <2>4. Append(jobs, Observe(Append(pending, o))) \in Seq(Job)
    BY <2>3, JobTyped, AppendTyped DEF QueueTypes
  <2>5. <<>> \in Seq(Observation)
    BY EmptySeq
  <2>6. CASE pending' = Append(pending, o) /\ jobs' = jobs
    BY <2>2, <2>3, <2>6 DEF QueueTypes
  <2>7. CASE pending' = <<>> /\ jobs' = Append(jobs, Observe(Append(pending, o)))
    BY <2>2, <2>4, <2>5, <2>7
  <2>8. QED
    BY <1>3, <2>6, <2>7 DEF o
<1>4. QED
  BY <1>1, <1>2, <1>3, ReceiveCases

\* Arming a retry keeps to the number of attempts.
LEMMA ArmTyped ==
    ASSUME FlagTypes, CountTypes, ArmRetry
    PROVE  timer' \in BOOLEAN /\ attempt' \in 0..MaxAttempts
<1>1. CASE timer \/ attempt >= MaxAttempts
  BY <1>1 DEF ArmRetry, retry, FlagTypes, CountTypes
<1>2. CASE ~(timer \/ attempt >= MaxAttempts)
  <2>1. timer' = TRUE /\ attempt' = attempt + 1 /\ ~(attempt >= MaxAttempts)
    BY <1>2 DEF ArmRetry
  <2>2. QED
    BY <2>1, ObservationAssumption DEF CountTypes
<1>3. QED
  BY <1>1, <1>2

-----------------------------------------------------------------------------
(* Each part is kept by every step.                                        *)

LEMMA StateStep == TypeOK /\ [Next]_vars => StateTypes'
<1> SUFFICES ASSUME TypeOK, [Next]_vars
             PROVE  StateTypes'
  OBVIOUS
<1>0. StateTypes /\ QueueTypes /\ CountTypes
  BY TypeParts
<1>1. ASSUME NEW e \in Entities, NativeStep(e)
      PROVE  StateTypes'
  <2>1. native[e] \in 0..2 /\ Top(e) \in 1..2 /\ native[e] < Top(e)
    BY <1>0, <1>1, StateRange, TopRange DEF StateTypes, NativeStep
  <2>2. native[e] + 1 \in 0..2 /\ native[e] + 1 <= Top(e)
    BY <2>1
  <2>3. [native EXCEPT ![e] = native[e] + 1] \in States
    BY <1>0, <2>2, StatesRaised DEF StateTypes
  <2>4. QED
    BY <1>0, <1>1, <2>3 DEF StateTypes, NativeStep, adapter, pull, row, store
<1>2. CASE Receive
  BY <1>0, <1>2, ReceiveTyped DEF StateTypes, Receive, pull, row, store
<1>3. CASE IngestNext
  <2> DEFINE o == Head(Head(jobs).batch)
  <2>1. o \in Observation
    BY <1>0, <1>3, IngestTyped
  <2>2. o.entity \in Entities /\ o.rank \in 0..2 /\ o.rank <= Top(o.entity)
    BY <2>1 DEF Observation
  <2>3. [checkpoint EXCEPT ![o.entity] = o.rank] \in States
    BY <1>0, <2>2, StatesRaised DEF StateTypes
  <2>4. checkpoint' = checkpoint \/ checkpoint' = [checkpoint EXCEPT ![o.entity] = o.rank]
    BY <1>3 DEF IngestNext, Ingest
  <2>5. QED
    BY <1>0, <1>3, <2>3, <2>4 DEF StateTypes, IngestNext, runtime, adapter, pull, row
<1>4. CASE TakeSnapshot
  <2>1. checkpoint' = [e \in Entities |-> IF News(e) THEN snapshot[e] ELSE checkpoint[e]]
    BY <1>4 DEF TakeSnapshot, IngestSnapshot
  <2>2. checkpoint' \in States
    BY <1>0, <2>1 DEF StateTypes, States
  <2>3. QED
    BY <1>0, <1>4, <2>2 DEF StateTypes, TakeSnapshot, runtime, adapter, row
<1>5. CASE ReadSnapshot
  <2>1. snapshot' = native \/ snapshot' = Nothing
    BY <1>5 DEF ReadSnapshot
  <2>2. QED
    BY <1>0, <1>5, <2>1, NothingTyped DEF StateTypes, ReadSnapshot, runtime, adapter, row, store
<1>6. CASE Fail \/ \E state \in {"ready", "blocked", "unknown"} : Settle(state)
  <2>1. /\ snapshot' = Nothing
        /\ UNCHANGED <<native, seen, checkpoint, floor>>
    BY <1>6 DEF Fail, Settle, EndFlight, runtime, adapter, store
  <2>2. QED
    BY <1>0, <2>1, NothingTyped DEF StateTypes
<1>7. CASE Crash
  <2>1. /\ snapshot' = Nothing /\ seen' = Nothing
        /\ UNCHANGED <<native, checkpoint, floor>>
    BY <1>7 DEF Crash, EndFlight, row, store
  <2>2. QED
    BY <1>0, <2>1, NothingTyped DEF StateTypes
<1>8. CASE StartReconciliation
  BY <1>0, <1>8 DEF StateTypes, StartReconciliation, runtime, adapter, store
<1>9. CASE \/ FlushStream \/ DropBatch \/ Adopt \/ Request \/ RetryFires
           \/ Disconnect \/ Reconnect \/ Attach \/ UNCHANGED vars
  <2>1. UNCHANGED <<native, seen, checkpoint, snapshot, floor>>
    BY <1>9
    DEF FlushStream, DropBatch, Adopt, Request, RetryFires, Disconnect, Reconnect,
        Attach, vars, runtime, adapter, pull, row, store
  <2>2. QED
    BY <1>0, <2>1 DEF StateTypes
<1>10. QED
  BY <1>1, <1>2, <1>3, <1>4, <1>5, <1>6, <1>7, <1>8, <1>9 DEF Next, Flight

LEMMA QueueStep == TypeOK /\ [Next]_vars => QueueTypes'
<1> SUFFICES ASSUME TypeOK, [Next]_vars
             PROVE  QueueTypes'
  OBVIOUS
<1>0. StateTypes /\ QueueTypes /\ CountTypes
  BY TypeParts
<1>1. ASSUME NEW e \in Entities, NativeStep(e)
      PROVE  QueueTypes'
  <2>1. native[e] \in 0..2 /\ Top(e) \in 1..2 /\ native[e] < Top(e)
    BY <1>0, <1>1, StateRange, TopRange DEF StateTypes, NativeStep
  <2>2. native[e] + 1 \in 1..2 /\ native[e] + 1 <= Top(e)
    BY <2>1
  <2>3. [entity |-> e, rank |-> native[e] + 1] \in Event
    BY <2>2 DEF Event
  <2>4. Append(wire, [entity |-> e, rank |-> native[e] + 1]) \in Seq(Event)
    BY <1>0, <2>3, AppendTyped DEF QueueTypes
  <2>5. /\ \/ wire' = wire
           \/ wire' = Append(wire, [entity |-> e, rank |-> native[e] + 1])
        /\ UNCHANGED <<pending, jobs>>
    BY <1>1 DEF NativeStep, memory
  <2>6. QED
    BY <1>0, <2>4, <2>5 DEF QueueTypes
<1>2. CASE Receive
  BY <1>0, <1>2, ReceiveTyped DEF QueueTypes
<1>3. CASE FlushStream
  <2>1. pending \in Batch
    BY <1>0, <1>3 DEF FlushStream, QueueTypes, Batch
  <2>2. Append(jobs, Observe(pending)) \in Seq(Job)
    BY <1>0, <2>1, JobTyped, AppendTyped DEF QueueTypes
  <2>3. wire' = wire /\ pending' = <<>> /\ jobs' = Append(jobs, Observe(pending))
    BY <1>3 DEF FlushStream, runtime
  <2>4. QED
    BY <1>0, <2>2, <2>3 DEF QueueTypes
<1>4. CASE DropBatch \/ StartReconciliation
  <2>1. /\ jobs # <<>> /\ jobs' = Tail(jobs)
        /\ UNCHANGED <<wire, pending>>
    BY <1>4 DEF DropBatch, StartReconciliation, Free, runtime
  <2>2. QED
    BY <1>0, <2>1, TailTyped DEF QueueTypes
<1>5. CASE IngestNext
  <2>1. UNCHANGED <<wire, pending>>
    BY <1>5 DEF IngestNext, runtime
  <2>2. QED
    BY <1>0, <1>5, <2>1, IngestTyped DEF QueueTypes
<1>6. CASE Request \/ RetryFires \/ Disconnect \/ Reconnect \/ Attach
  <2>1. <<Reconcile>> \in Seq(Job) /\ Append(jobs, Reconcile) \in Seq(Job)
    BY <1>0, JobTyped, AppendTyped DEF QueueTypes
  <2>2. /\ jobs' \in {jobs, Append(jobs, Reconcile), <<Reconcile>>}
        /\ wire' = wire \/ wire' = <<>>
        /\ pending' = pending
    BY <1>6 DEF Request, RetryFires, Disconnect, Reconnect, Attach, Ask, runtime
  <2>3. jobs' \in Seq(Job)
    BY <1>0, <2>1, <2>2 DEF QueueTypes
  <2>4. wire' \in Seq(Event)
    BY <1>0, <2>2, EmptySeq DEF QueueTypes
  <2>5. QED
    BY <1>0, <2>2, <2>3, <2>4 DEF QueueTypes
<1>7. CASE Crash
  BY <1>7 DEF Crash, QueueTypes
<1>8. CASE \/ Adopt \/ ReadSnapshot \/ TakeSnapshot \/ Fail \/ UNCHANGED vars
           \/ \E state \in {"ready", "blocked", "unknown"} : Settle(state)
  <2>1. UNCHANGED <<wire, pending, jobs>>
    BY <1>8 DEF Adopt, ReadSnapshot, TakeSnapshot, Fail, Settle, vars, memory, runtime
  <2>2. QED
    BY <1>0, <2>1 DEF QueueTypes
<1>9. QED
  BY <1>1, <1>2, <1>3, <1>4, <1>5, <1>6, <1>7, <1>8 DEF Next, Flight

LEMMA ControlStep == TypeOK /\ [Next]_vars => FlagTypes' /\ CountTypes' /\ StageTypes'
<1> SUFFICES ASSUME TypeOK, [Next]_vars
             PROVE  FlagTypes' /\ CountTypes' /\ StageTypes'
  OBVIOUS
<1>0. FlagTypes /\ CountTypes /\ StageTypes
  BY TypeParts
<1>1. ASSUME NEW e \in Entities, NativeStep(e)
      PROVE  FlagTypes' /\ CountTypes' /\ StageTypes'
  BY <1>0, <1>1
  DEF NativeStep, adapter, memory, pull, retry, row, store, FlagTypes, CountTypes, StageTypes
<1>2. CASE Receive \/ FlushStream \/ DropBatch \/ UNCHANGED vars
  <2>1. UNCHANGED <<connected, attached, history, timer, adopted, ordinal, informed,
                    attempt, flight, barrier>>
    BY <1>2 DEF Receive, FlushStream, DropBatch, vars, runtime, adapter, pull, retry, row, store
  <2>2. QED
    BY <1>0, <2>1 DEF FlagTypes, CountTypes, StageTypes
<1>3. CASE IngestNext
  <2>1. UNCHANGED <<connected, attached, history, timer, adopted, ordinal, informed,
                    attempt, flight, barrier>>
    BY <1>3 DEF IngestNext, Ingest, runtime, adapter, pull, retry, row
  <2>2. QED
    BY <1>0, <2>1 DEF FlagTypes, CountTypes, StageTypes
<1>4. CASE StartReconciliation
  <2>1. /\ UNCHANGED <<connected, attached, history, timer, adopted, attempt>>
        /\ informed' = FALSE
        /\ ordinal < MaxOrdinal /\ ordinal' = ordinal + 1
        /\ flight' = "started" /\ barrier' = "reconciling"
    BY <1>4 DEF StartReconciliation, runtime, adapter, retry, store
  <2>2. FlagTypes' /\ StageTypes'
    BY <1>0, <2>1, Zenon DEF FlagTypes, StageTypes
  <2>3. CountTypes'
    BY <1>0, <2>1, ObservationAssumption DEF CountTypes
  <2>4. QED
    BY <2>2, <2>3
<1>5. CASE Adopt
  <2>1. /\ UNCHANGED <<connected, attached, history, timer, ordinal, informed, attempt, barrier>>
        /\ adopted' = ordinal /\ flight' = "adopted"
    BY <1>5 DEF Adopt, runtime, memory, retry, row, store
  <2>2. QED
    BY <1>0, <2>1 DEF FlagTypes, CountTypes, StageTypes
<1>6. CASE ReadSnapshot
  <2>1. /\ UNCHANGED <<connected, attached, timer, adopted, ordinal, informed, attempt, barrier>>
        /\ history' \in BOOLEAN /\ flight' = "read"
    BY <1>6 DEF ReadSnapshot, runtime, memory, adapter, retry, row, store
  <2>2. QED
    BY <1>0, <2>1 DEF FlagTypes, CountTypes, StageTypes
<1>7. CASE TakeSnapshot
  <2>1. /\ UNCHANGED <<connected, attached, history, timer, adopted, ordinal, attempt, barrier>>
        /\ informed' = history
        /\ flight' = "ingested"
    BY <1>7 DEF TakeSnapshot, IngestSnapshot, runtime, memory, adapter, retry, row
  <2>2. QED
    BY <1>0, <2>1 DEF FlagTypes, CountTypes, StageTypes
<1>8. CASE Fail \/ \E state \in {"ready", "blocked", "unknown"} : Settle(state)
  <2>1. /\ UNCHANGED <<connected, attached, adopted, ordinal, informed>>
        /\ history' = FALSE /\ flight' = "none"
        /\ barrier' \in {"ready", "blocked", "unknown"}
        /\ \/ timer' = FALSE /\ attempt' = 0
           \/ timer' = timer /\ attempt' = attempt
           \/ ArmRetry
    BY <1>8 DEF Fail, Settle, EndFlight, runtime, memory, adapter, retry, store
  <2>2. timer' \in BOOLEAN /\ attempt' \in 0..MaxAttempts
    <3>1. CASE timer' = FALSE /\ attempt' = 0
      <4>1. 0 \in 0..MaxAttempts
        BY ObservationAssumption
      <4>2. QED
        BY <3>1, <4>1, Zenon
    <3>2. CASE timer' = timer /\ attempt' = attempt
      BY <1>0, <3>2 DEF FlagTypes, CountTypes
    <3>3. QED
      BY <1>0, <2>1, <3>1, <3>2, ArmTyped
  <2>3. QED
    BY <1>0, <2>1, <2>2 DEF FlagTypes, CountTypes, StageTypes
<1>9. CASE Request \/ RetryFires \/ Disconnect \/ Reconnect \/ Attach
  <2>1. /\ UNCHANGED <<history, adopted, ordinal, informed, attempt, flight, barrier>>
        /\ timer' = timer \/ timer' = FALSE
        /\ connected' \in {connected, TRUE, FALSE}
        /\ attached' \in {attached, TRUE}
    BY <1>9 DEF Request, RetryFires, Disconnect, Reconnect, Attach, runtime, adapter,
       pull, retry, row, store
  <2>2. QED
    BY <1>0, <2>1 DEF FlagTypes, CountTypes, StageTypes
<1>10. CASE Crash
  <2>1. /\ UNCHANGED <<ordinal, informed, barrier>>
        /\ connected' = FALSE /\ attached' = FALSE /\ history' = FALSE /\ timer' = FALSE
        /\ adopted' = 0 /\ attempt' = 0 /\ flight' = "none"
    BY <1>10 DEF Crash, EndFlight, row, store
  <2>2. 0 \in 0..MaxAttempts /\ 0 \in 0..MaxOrdinal
    BY ObservationAssumption
  <2>3. FlagTypes' /\ StageTypes'
    BY <1>0, <2>1, Zenon DEF FlagTypes, StageTypes
  <2>4. CountTypes'
    BY <1>0, <2>1, <2>2 DEF CountTypes
  <2>5. QED
    BY <2>3, <2>4
<1>11. QED
  BY <1>1, <1>2, <1>3, <1>4, <1>5, <1>6, <1>7, <1>8, <1>9, <1>10 DEF Next, Flight

\* Only the two ingestions write the store.
LEMMA StoreFrame ==
    ASSUME [Next]_vars, ~IngestNext, ~TakeSnapshot
    PROVE  UNCHANGED store
<1>1. ASSUME NEW e \in Entities, NativeStep(e)
      PROVE  UNCHANGED store
  BY <1>1 DEF NativeStep
<1>2. CASE Receive \/ FlushStream \/ DropBatch \/ StartReconciliation \/ Adopt \/ ReadSnapshot
  BY <1>2 DEF Receive, FlushStream, DropBatch, StartReconciliation, Adopt, ReadSnapshot
<1>3. CASE Fail \/ \E state \in {"ready", "blocked", "unknown"} : Settle(state)
  BY <1>3 DEF Fail, Settle
<1>4. CASE Request \/ RetryFires \/ Disconnect \/ Reconnect \/ Crash \/ Attach
  BY <1>4 DEF Request, RetryFires, Disconnect, Reconnect, Crash, Attach
<1>5. CASE UNCHANGED vars
  BY <1>5 DEF vars, store
<1>6. QED
  BY <1>1, <1>2, <1>3, <1>4, <1>5 DEF Next, Flight

LEMMA StoreStep == TypeOK /\ [Next]_vars => StoreTypes'
<1> SUFFICES ASSUME TypeOK, [Next]_vars
             PROVE  StoreTypes'
  OBVIOUS
<1>0. StateTypes /\ QueueTypes /\ CountTypes /\ StoreTypes
  BY TypeParts
<1>1. CASE IngestNext
  <2> DEFINE o == Head(Head(jobs).batch)
  <2>1. o \in Observation /\ Ingest(o)
    BY <1>0, <1>1, IngestTyped DEF IngestNext
  <2>2. o.entity \in Entities /\ o.from \in 0..2 /\ o.rank \in 1..2 /\ o.ordinal \in 0..MaxOrdinal
    BY <2>1 DEF Observation
  <2>3. \A e \in Entities : Recorded(o, e) \in Entry
    BY <2>2 DEF Recorded, Entry
  <2>4. RevisionOf(o.rank, "live") \in Revision
    BY <2>2 DEF RevisionOf, Revision, Channels
  <2>5. \A e \in Entities : Append(log[e], Recorded(o, e)) \in Seq(Entry)
    BY <1>0, <2>3, AppendTyped DEF StoreTypes
  <2>6. claimed' \in [Entities -> SUBSET Revision]
    BY <1>0, <2>1, <2>2, <2>4 DEF Ingest, StoreTypes
  <2>7. log' = log \/ log' = [e \in Entities |-> IF e \in {o.entity} \cup o.flushed
                                  THEN Append(log[e], Recorded(o, e)) ELSE log[e]]
    BY <2>1 DEF Ingest
  <2>8. log' \in [Entities -> Seq(Entry)]
    <3>1. \A e \in Entities : log[e] \in Seq(Entry)
      BY <1>0 DEF StoreTypes
    <3>2. CASE log' = log
      BY <1>0, <3>2 DEF StoreTypes
    <3>3. CASE log' # log
      BY <2>5, <2>7, <3>1, <3>3
    <3>4. QED
      BY <3>2, <3>3
  <2>9. QED
    BY <2>6, <2>8 DEF StoreTypes
<1>2. CASE TakeSnapshot
  <2>1. IngestSnapshot
    BY <1>2 DEF TakeSnapshot
  <2>2. ASSUME NEW e \in Entities
        PROVE  /\ snapshot[e] \in 0..2 /\ checkpoint[e] \in 0..2
               /\ Pulled(e) => snapshot[e] \in 1..2
    <3>1. snapshot[e] \in 0..2 /\ checkpoint[e] \in 0..2
      BY <1>0, StateRange DEF StateTypes
    <3>2. QED
      BY <3>1 DEF Pulled
  <2>3. ASSUME NEW e \in Entities, Pulled(e)
        PROVE  RevisionOf(snapshot[e], "pull") \in Revision
    BY <2>2, <2>3 DEF RevisionOf, Revision, Channels
  <2>4. claimed' \in [Entities -> SUBSET Revision]
    BY <1>0, <2>1, <2>3 DEF IngestSnapshot, StoreTypes
  <2>5. ASSUME NEW e \in Entities, News(e)
        PROVE  Append(log[e], [from |-> checkpoint[e], rank |-> snapshot[e],
                               ordinal |-> ordinal, idle |-> FALSE]) \in Seq(Entry)
    <3>1. snapshot[e] \in 1..2 /\ checkpoint[e] \in 0..2 /\ ordinal \in 0..MaxOrdinal
      BY <1>0, <2>2, <2>5 DEF News, CountTypes
    <3>2. [from |-> checkpoint[e], rank |-> snapshot[e], ordinal |-> ordinal,
           idle |-> FALSE] \in Entry
      BY <3>1 DEF Entry
    <3>3. QED
      BY <1>0, <3>2, AppendTyped DEF StoreTypes
  <2>6. log' \in [Entities -> Seq(Entry)]
    BY <1>0, <2>1, <2>5 DEF IngestSnapshot, StoreTypes
  <2>7. QED
    BY <2>4, <2>6 DEF StoreTypes
<1>3. CASE ~IngestNext /\ ~TakeSnapshot
  BY <1>0, <1>3, StoreFrame DEF StoreTypes, store
<1>4. QED
  BY <1>1, <1>2, <1>3

\* Type invariant: the variables keep their domains, for any entities.
THEOREM ObservationTypes == Spec => []TypeOK
<1>1. Init => TypeOK
  <2> SUFFICES ASSUME Init
               PROVE  TypeOK
    OBVIOUS
  <2>1. StateTypes /\ StageTypes
    BY NothingTyped DEF Init, StateTypes, StageTypes
  <2>2. QueueTypes
    BY EmptySeq DEF Init, QueueTypes
  <2>3. FlagTypes
    BY Zenon DEF Init, FlagTypes
  <2>4. CountTypes
    BY ObservationAssumption DEF Init, CountTypes
  <2>5. StoreTypes
    BY EmptySeq DEF Init, StoreTypes
  <2>6. QED
    BY <2>1, <2>2, <2>3, <2>4, <2>5, TypeParts
<1>2. TypeOK /\ [Next]_vars => TypeOK'
  <2> SUFFICES ASSUME TypeOK, [Next]_vars
               PROVE  TypeOK'
    OBVIOUS
  <2>1. StateTypes' /\ QueueTypes' /\ FlagTypes' /\ CountTypes' /\ StageTypes' /\ StoreTypes'
    BY StateStep, QueueStep, ControlStep, StoreStep
  <2>2. QED
    BY <2>1 DEF TypeOK, StateTypes, QueueTypes, FlagTypes, CountTypes, StageTypes, StoreTypes
<1>3. QED
  BY <1>1, <1>2, PTL DEF Spec

-----------------------------------------------------------------------------
(* What a step may do to the record of an entity.                          *)

Keeping(e) == log'[e] = log[e] /\ checkpoint'[e] = checkpoint[e]

\* A new entry carries the current ordinal. An end that is observed by itself is
\* news and moves the checkpoint there, as every state of what is not a text
\* does.
Recording(e) ==
    \E entry \in Entry :
        /\ log'[e] = Append(log[e], entry)
        /\ entry.ordinal = ordinal
        /\ checkpoint'[e] \in 0..2 /\ checkpoint[e] <= checkpoint'[e]
        /\ e \in Ranked /\ ~entry.idle /\ entry.rank = 2 =>
               checkpoint[e] < 2 /\ checkpoint'[e] = 2
        /\ e \notin Parts =>
               /\ checkpoint'[e] = entry.rank
               /\ e \in Ranked => checkpoint[e] < entry.rank

\* What IngestNext ingests passed the fence.
LEMMA IngestFenced ==
    ASSUME QueueTypes, IngestNext
    PROVE  \E o \in Observation : o.ordinal = ordinal /\ Ingest(o)
<1> DEFINE o == Head(Head(jobs).batch)
<1>1. o \in Observation /\ o = Head(jobs).batch[1]
  BY IngestTyped
<1>2. Ingest(o) /\ ~Fenced(Head(jobs).batch[1])
  BY DEF IngestNext, Refused
<1>3. QED
  BY <1>1, <1>2 DEF Fenced

LEMMA StoreMoves ==
    ASSUME TypeOK, [Next]_vars, NEW e \in Entities
    PROVE  Keeping(e) \/ Recording(e)
<1>0. StateTypes /\ QueueTypes /\ CountTypes /\ StoreTypes
  BY TypeParts
<1>1. checkpoint[e] \in 0..2 /\ checkpoint[e] <= Top(e) /\ snapshot[e] \in 0..2
  BY <1>0, StateRange DEF StateTypes
<1>2. CASE IngestNext
  <2>1. PICK o \in Observation : o.ordinal = ordinal /\ Ingest(o)
    BY <1>0, <1>2, IngestFenced
  <2>2. o.entity \in Entities /\ o.from \in 0..2 /\ o.rank \in 1..2 /\ o.rank <= Top(o.entity)
    BY <2>1 DEF Observation
  <2>3. /\ o.flushed \subseteq Parts
        /\ o.delta => o.entity \in Parts /\ o.rank = 1
    BY <2>1 DEF Observation
  <2>4. CASE IsDuplicate(o) \/ e \notin {o.entity} \cup o.flushed
    BY <1>0, <2>1, <2>2, <2>4 DEF Ingest, Keeping, StateTypes, States, StoreTypes
  <2>5. CASE ~IsDuplicate(o) /\ e \in {o.entity} \cup o.flushed
    <3> DEFINE entry == Recorded(o, e)
    <3>1. /\ entry \in Entry /\ entry.ordinal = ordinal
          /\ entry.idle <=> (e \in o.flushed)
          /\ ~entry.idle => entry.rank = o.rank /\ e = o.entity
      <4>1. ordinal \in 0..MaxOrdinal
        BY <1>0 DEF CountTypes
      <4>2. CASE e \in o.flushed
        BY <2>1, <2>2, <4>1, <4>2 DEF Recorded, Entry
      <4>3. CASE e \notin o.flushed
        BY <2>1, <2>2, <2>5, <4>1, <4>3 DEF Recorded, Entry
      <4>4. QED
        BY <4>2, <4>3
    <3>2. /\ log'[e] = Append(log[e], entry)
          /\ checkpoint' = IF o.delta THEN checkpoint
                           ELSE [checkpoint EXCEPT ![o.entity] = o.rank]
      BY <2>1, <2>5 DEF Ingest
    <3>3. /\ e # o.entity \/ o.delta => checkpoint'[e] = checkpoint[e]
          /\ e = o.entity /\ ~o.delta => checkpoint'[e] = o.rank
      BY <1>0, <2>2, <3>2 DEF StateTypes, States
    <3>4. ASSUME e = o.entity, ~o.delta
          PROVE  /\ checkpoint[e] <= o.rank
                 /\ e \in Ranked => checkpoint[e] < o.rank
      <4>1. ~Known(e, o.rank, "live")
        BY <2>5, <3>4 DEF IsDuplicate
      <4>2. e \in Ranked => checkpoint[e] < o.rank
        BY <1>1, <2>2, <4>1 DEF Known
      <4>3. e \notin Ranked => checkpoint[e] <= o.rank
        BY <1>1, <2>2, <3>4 DEF Top
      <4>4. QED
        BY <1>1, <2>2, <4>2, <4>3
    <3>5. checkpoint'[e] \in 0..2 /\ checkpoint[e] <= checkpoint'[e]
      BY <1>1, <2>2, <3>3, <3>4
    <3>6. e \in Ranked /\ ~entry.idle /\ entry.rank = 2 =>
              checkpoint[e] < 2 /\ checkpoint'[e] = 2
      BY <2>3, <3>1, <3>3, <3>4
    <3> HIDE DEF entry
    <3>7. ASSUME e \notin Parts
          PROVE  /\ checkpoint'[e] = entry.rank
                 /\ e \in Ranked => checkpoint[e] < entry.rank
      <4>1. ~entry.idle
        BY <2>3, <3>1, <3>7, Zenon
      <4>2. entry.rank = o.rank /\ e = o.entity /\ ~o.delta
        BY <2>3, <3>1, <3>7, <4>1
      <4>3. QED
        BY <3>3, <3>4, <4>2
    <3>8. QED
      BY <3>1, <3>2, <3>5, <3>6, <3>7 DEF Recording
  <2>6. QED
    BY <2>4, <2>5
<1>3. CASE TakeSnapshot
  <2>1. IngestSnapshot
    BY <1>3 DEF TakeSnapshot
  <2>2. CASE ~News(e)
    BY <2>1, <2>2 DEF IngestSnapshot, Keeping
  <2>3. CASE News(e)
    <3> DEFINE entry == [from |-> checkpoint[e], rank |-> snapshot[e],
                         ordinal |-> ordinal, idle |-> FALSE]
    <3>1. log'[e] = Append(log[e], entry) /\ checkpoint'[e] = snapshot[e]
      BY <2>1, <2>3 DEF IngestSnapshot
    <3>2. checkpoint[e] < snapshot[e] /\ snapshot[e] \in 1..2 /\ ordinal \in 0..MaxOrdinal
      BY <1>0, <1>1, <2>3 DEF News, Pulled, CountTypes
    <3>3. entry \in Entry /\ entry.rank = snapshot[e] /\ entry.ordinal = ordinal
      BY <1>1, <3>2 DEF Entry
    <3>4. checkpoint[e] <= entry.rank /\ checkpoint[e] < entry.rank /\ entry.rank \in 0..2
      BY <1>1, <3>2, <3>3
    <3> HIDE DEF entry
    <3>5. checkpoint'[e] = entry.rank
      BY <3>1, <3>3
    <3>6. QED
      BY <3>1, <3>3, <3>4, <3>5 DEF Recording
  <2>4. QED
    BY <2>2, <2>3
<1>4. CASE ~IngestNext /\ ~TakeSnapshot
  BY <1>4, StoreFrame DEF store, Keeping
<1>5. QED
  BY <1>2, <1>3, <1>4

\* The entries after an append.
LEMMA AppendEntries ==
    ASSUME NEW q \in Seq(Entry), NEW x \in Entry
    PROVE  /\ Len(q) \in Nat /\ Len(Append(q, x)) = Len(q) + 1
           /\ \A i \in 1..Len(q) : Append(q, x)[i] = q[i] /\ q[i] \in Entry
           /\ Append(q, x)[Len(q) + 1] = x
OBVIOUS

-----------------------------------------------------------------------------
(* How a ranked entity ended is recorded once.                             *)

\* The checkpoint says so of what was seen to end.
RankBound ==
    \A e \in Ranked : \A i \in 1..Len(log[e]) :
        ~log[e][i].idle /\ log[e][i].rank = 2 => checkpoint[e] = 2

RankInv == RankBound /\ TerminalOnce

\* Only an entry of the top rank brings the terminal fact.
LEMMA TerminalEntry ==
    ASSUME NEW e \in Ranked, NEW entry \in Entry, Top(e) \in Facts(entry)
    PROVE  entry.rank = 2
BY DEF Top, Facts, Entry

LEMMA RankStep == TypeOK /\ RankInv /\ [Next]_vars => RankInv'
<1> SUFFICES ASSUME TypeOK, RankInv, [Next]_vars
             PROVE  RankInv'
  OBVIOUS
<1>0. StateTypes /\ StoreTypes
  BY TypeParts
<1>1. ASSUME NEW e \in Ranked
      PROVE  /\ \A i \in 1..Len(log'[e]) :
                    ~log'[e][i].idle /\ log'[e][i].rank = 2 => checkpoint'[e] = 2
             /\ \A i, j \in 1..Len(log'[e]) :
                    i # j /\ ~log'[e][i].idle /\ ~log'[e][j].idle =>
                        Top(e) \notin Facts(log'[e][i]) \cap Facts(log'[e][j])
  <2>0. e \in Entities
    BY DEF Ranked, Entities
  <2>1. \A i \in 1..Len(log[e]) : ~log[e][i].idle /\ log[e][i].rank = 2 => checkpoint[e] = 2
    BY DEF RankInv, RankBound
  <2>2. \A i, j \in 1..Len(log[e]) :
            i # j /\ ~log[e][i].idle /\ ~log[e][j].idle =>
                Top(e) \notin Facts(log[e][i]) \cap Facts(log[e][j])
    BY DEF RankInv, TerminalOnce
  <2>3. CASE Keeping(e)
    BY <2>1, <2>2, <2>3 DEF Keeping
  <2>4. CASE Recording(e)
    <3>1. PICK entry \in Entry :
              /\ log'[e] = Append(log[e], entry)
              /\ checkpoint'[e] \in 0..2 /\ checkpoint[e] <= checkpoint'[e]
              /\ ~entry.idle /\ entry.rank = 2 => checkpoint[e] < 2 /\ checkpoint'[e] = 2
      BY <2>4 DEF Recording
    <3>2. log[e] \in Seq(Entry) /\ checkpoint[e] \in 0..2
      BY <1>0, <2>0, StateRange DEF StoreTypes, StateTypes
    <3>3. /\ Len(log[e]) \in Nat /\ Len(log'[e]) = Len(log[e]) + 1
          /\ \A i \in 1..Len(log[e]) : log'[e][i] = log[e][i] /\ log[e][i] \in Entry
          /\ log'[e][Len(log[e]) + 1] = entry
      BY <3>1, <3>2, AppendEntries
    <3>4. \A i \in 1..Len(log'[e]) : i \in 1..Len(log[e]) \/ i = Len(log[e]) + 1
      BY <3>3
    <3>5. ASSUME NEW i \in 1..Len(log'[e]), ~log'[e][i].idle, log'[e][i].rank = 2
          PROVE  checkpoint'[e] = 2
      <4>1. CASE i \in 1..Len(log[e])
        <5>1. checkpoint[e] = 2
          BY <2>1, <3>3, <3>5, <4>1
        <5>2. QED
          BY <3>1, <5>1
      <4>2. CASE i = Len(log[e]) + 1
        BY <3>1, <3>3, <3>5, <4>2
      <4>3. QED
        BY <3>4, <4>1, <4>2
    <3>6. ASSUME NEW i \in 1..Len(log[e]), ~log'[e][i].idle, ~entry.idle,
                 Top(e) \in Facts(log'[e][i])
          PROVE  Top(e) \notin Facts(entry)
      <4>1. log'[e][i] = log[e][i] /\ log'[e][i] \in Entry
        BY <3>3
      <4>2. log'[e][i].rank = 2
        BY <3>6, <4>1, TerminalEntry
      <4>3. checkpoint[e] = 2
        BY <2>1, <3>6, <4>1, <4>2
      <4>4. entry.rank # 2
        BY <3>1, <3>6, <4>3
      <4>5. QED
        BY <4>4, TerminalEntry
    <3>7. ASSUME NEW i \in 1..Len(log'[e]), NEW j \in 1..Len(log'[e]), i # j,
                 ~log'[e][i].idle, ~log'[e][j].idle
          PROVE  Top(e) \notin Facts(log'[e][i]) \cap Facts(log'[e][j])
      <4>1. CASE i \in 1..Len(log[e]) /\ j \in 1..Len(log[e])
        BY <2>2, <3>3, <3>7, <4>1
      <4>2. CASE i \in 1..Len(log[e]) /\ j = Len(log[e]) + 1
        BY <3>3, <3>6, <3>7, <4>2
      <4>3. CASE i = Len(log[e]) + 1 /\ j \in 1..Len(log[e])
        BY <3>3, <3>6, <3>7, <4>3
      <4>4. QED
        BY <3>4, <3>7, <4>1, <4>2, <4>3
    <3>8. QED
      BY <3>5, <3>7
  <2>5. QED
    BY <2>0, <2>3, <2>4, StoreMoves
<1>2. QED
  <2>1. RankBound'
    BY <1>1 DEF RankBound
  <2>2. TerminalOnce'
    BY <1>1 DEF TerminalOnce
  <2>3. QED
    BY <2>1, <2>2 DEF RankInv

\* How a tool call or a text part ended is recorded once by an observation of
\* its own, over every interleaving of the live and the pulled channel, for any
\* entities; beside it there is only what an idle report flushed.
THEOREM RecordedOnce == Spec => []TerminalOnce
<1>1. Init => RankInv
  <2> SUFFICES ASSUME Init
               PROVE  RankInv
    OBVIOUS
  <2>1. \A e \in Entities : log[e] = <<>> /\ Len(log[e]) = 0
    BY EmptySeq DEF Init
  <2>2. Ranked \subseteq Entities /\ 1..0 = {}
    BY DEF Ranked, Entities
  <2>3. QED
    BY <2>1, <2>2 DEF RankInv, RankBound, TerminalOnce
<1>2. RankInv => TerminalOnce
  BY DEF RankInv
<1>3. QED
  BY <1>1, <1>2, RankStep, ObservationTypes, PTL DEF Spec

-----------------------------------------------------------------------------
(* The ordinals of the entries ascend.                                     *)

OrdinalBound == \A e \in Entities : \A i \in 1..Len(log[e]) : log[e][i].ordinal <= ordinal

OrdinalInv == OrdinalBound /\ OrdinalsAscend

LEMMA OrdinalGrows == TypeOK /\ [Next]_vars => ordinal' \in Nat /\ ordinal <= ordinal'
<1> SUFFICES ASSUME TypeOK, [Next]_vars
             PROVE  ordinal' \in Nat /\ ordinal <= ordinal'
  OBVIOUS
<1>0. ordinal \in 0..MaxOrdinal /\ MaxOrdinal \in Nat
  BY ObservationAssumption DEF TypeOK
<1>1. ordinal' = ordinal \/ ordinal' = ordinal + 1
  <2>1. ASSUME NEW e \in Entities, NativeStep(e)
        PROVE  ordinal' = ordinal
    BY <2>1 DEF NativeStep, row
  <2>2. CASE \/ Receive \/ FlushStream \/ DropBatch \/ IngestNext \/ Adopt \/ ReadSnapshot
             \/ TakeSnapshot
    BY <2>2 DEF Receive, FlushStream, DropBatch, IngestNext, Adopt, ReadSnapshot, TakeSnapshot, row
  <2>3. CASE Fail \/ \E state \in {"ready", "blocked", "unknown"} : Settle(state)
    BY <2>3 DEF Fail, Settle
  <2>4. CASE Request \/ RetryFires \/ Disconnect \/ Reconnect \/ Crash \/ Attach
    BY <2>4 DEF Request, RetryFires, Disconnect, Reconnect, Crash, Attach, row
  <2>5. CASE StartReconciliation \/ UNCHANGED vars
    BY <2>5 DEF StartReconciliation, vars
  <2>6. QED
    BY <2>1, <2>2, <2>3, <2>4, <2>5 DEF Next, Flight
<1>2. QED
  BY <1>0, <1>1

LEMMA OrdinalStep == TypeOK /\ OrdinalInv /\ [Next]_vars => OrdinalInv'
<1> SUFFICES ASSUME TypeOK, OrdinalInv, [Next]_vars
             PROVE  OrdinalInv'
  OBVIOUS
<1>0. StoreTypes /\ ordinal \in Nat /\ ordinal' \in Nat /\ ordinal <= ordinal'
  BY TypeParts, OrdinalGrows, ObservationAssumption DEF CountTypes
<1>1. ASSUME NEW e \in Entities
      PROVE  /\ \A i \in 1..Len(log'[e]) : log'[e][i].ordinal <= ordinal'
             /\ \A i, j \in 1..Len(log'[e]) :
                    i < j => log'[e][i].ordinal <= log'[e][j].ordinal
  <2>1. /\ log[e] \in Seq(Entry)
        /\ \A i \in 1..Len(log[e]) : log[e][i].ordinal <= ordinal
        /\ \A i, j \in 1..Len(log[e]) : i < j => log[e][i].ordinal <= log[e][j].ordinal
    BY <1>0 DEF OrdinalInv, OrdinalBound, OrdinalsAscend, StoreTypes
  <2>2. \A i \in 1..Len(log[e]) : log[e][i].ordinal \in Nat
    <3>1. \A i \in 1..Len(log[e]) : log[e][i] \in Entry
      BY <2>1
    <3>2. \A entry \in Entry : entry.ordinal \in 0..MaxOrdinal
      BY DEF Entry
    <3>3. QED
      BY <3>1, <3>2, ObservationAssumption
  <2>3. CASE Keeping(e)
    <3>1. log'[e] = log[e]
      BY <2>3 DEF Keeping
    <3>2. \A i \in 1..Len(log[e]) : log[e][i].ordinal <= ordinal'
      BY <1>0, <2>1, <2>2
    <3>3. QED
      BY <2>1, <3>1, <3>2
  <2>4. CASE Recording(e)
    <3>1. PICK entry \in Entry : log'[e] = Append(log[e], entry) /\ entry.ordinal = ordinal
      BY <2>4 DEF Recording
    <3>2. /\ Len(log[e]) \in Nat /\ Len(log'[e]) = Len(log[e]) + 1
          /\ \A i \in 1..Len(log[e]) : log'[e][i] = log[e][i]
          /\ log'[e][Len(log[e]) + 1] = entry
      BY <2>1, <3>1, AppendEntries
    <3>3. \A i \in 1..Len(log'[e]) : i \in 1..Len(log[e]) \/ i = Len(log[e]) + 1
      BY <3>2
    <3>4. \A i \in 1..Len(log'[e]) : log'[e][i].ordinal \in Nat /\ log'[e][i].ordinal <= ordinal
      BY <1>0, <2>1, <2>2, <3>1, <3>2, <3>3
    <3>5. \A i \in 1..Len(log'[e]) : log'[e][i].ordinal <= ordinal'
      BY <1>0, <3>4
    <3>6. ASSUME NEW i \in 1..Len(log'[e]), NEW j \in 1..Len(log'[e]), i < j
          PROVE  log'[e][i].ordinal <= log'[e][j].ordinal
      <4>1. CASE j \in 1..Len(log[e])
        <5>1. i \in 1..Len(log[e])
          BY <3>2, <3>6, <4>1
        <5>2. QED
          BY <2>1, <3>2, <3>6, <4>1, <5>1
      <4>2. CASE j = Len(log[e]) + 1
        BY <3>1, <3>2, <3>4, <4>2
      <4>3. QED
        BY <3>3, <4>1, <4>2
    <3>7. QED
      BY <3>5, <3>6
  <2>5. QED
    BY <2>3, <2>4, StoreMoves
<1>2. QED
  BY <1>1 DEF OrdinalInv, OrdinalBound, OrdinalsAscend

\* The evidence of an older reconciliation is never recorded behind that of a
\* newer one.
THEOREM NoStaleEvidence == Spec => []OrdinalsAscend
<1>1. Init => OrdinalInv
  <2> SUFFICES ASSUME Init
               PROVE  OrdinalInv
    OBVIOUS
  <2>1. \A e \in Entities : log[e] = <<>> /\ Len(log[e]) = 0
    BY EmptySeq DEF Init
  <2>2. 1..0 = {}
    OBVIOUS
  <2>3. QED
    BY <2>1, <2>2 DEF OrdinalInv, OrdinalBound, OrdinalsAscend
<1>2. OrdinalInv => OrdinalsAscend
  BY DEF OrdinalInv
<1>3. QED
  BY <1>1, <1>2, OrdinalStep, ObservationTypes, PTL DEF Spec

-----------------------------------------------------------------------------
(* The snapshot catches up.                                                *)

\* What was pulled of an entity is not above its recorded state.
ClaimBound ==
    \A e \in Entities : \A r \in claimed[e] : r[2] = "pull" => r[1] <= checkpoint[e]

\* When a reconciliation starts, everything there is to learn is native state.
FloorBound == \A e \in Entities : floor[e] <= native[e]

\* The pull that had the history read no less.
PullBound ==
    flight \in {"read", "ingested"} /\ history =>
        \A e \in Entities : floor[e] <= snapshot[e]

PullInv == ClaimBound /\ FloorBound /\ PullBound /\ PullCatchesUp

LEMMA CheckpointGrows ==
    ASSUME TypeOK, [Next]_vars, NEW e \in Entities
    PROVE  checkpoint[e] \in 0..2 /\ checkpoint'[e] \in 0..2 /\ checkpoint[e] <= checkpoint'[e]
<1>1. checkpoint[e] \in 0..2
  BY TypeParts, StateRange DEF StateTypes
<1>2. CASE Keeping(e)
  BY <1>1, <1>2 DEF Keeping
<1>3. CASE Recording(e)
  BY <1>1, <1>3 DEF Recording
<1>4. QED
  BY <1>2, <1>3, StoreMoves

\* An entity for which the pull has something is not refused as known.
LEMMA PulledIsNews ==
    ASSUME TypeOK, ClaimBound, NEW e \in Entities, Pulled(e)
    PROVE  News(e)
<1>1. checkpoint[e] \in 0..2 /\ snapshot[e] \in 0..2
  BY TypeParts, StateRange DEF StateTypes
<1>2. snapshot[e] > checkpoint[e]
  BY DEF Pulled
<1>3. ASSUME RevisionOf(snapshot[e], "pull") \in claimed[e]
      PROVE  FALSE
  <2>1. /\ RevisionOf(snapshot[e], "pull")[1] = snapshot[e]
        /\ RevisionOf(snapshot[e], "pull")[2] = "pull"
    BY DEF RevisionOf
  <2>2. snapshot[e] <= checkpoint[e]
    BY <1>3, <2>1 DEF ClaimBound
  <2>3. QED
    BY <1>1, <1>2, <2>2
<1>4. QED
  BY <1>1, <1>2, <1>3 DEF News, Known

LEMMA ClaimStep == TypeOK /\ ClaimBound /\ [Next]_vars => ClaimBound'
<1> SUFFICES ASSUME TypeOK, ClaimBound, [Next]_vars, NEW e \in Entities,
                    NEW r \in claimed'[e], r[2] = "pull"
             PROVE  r[1] <= checkpoint'[e]
  BY DEF ClaimBound
<1>0. StateTypes /\ QueueTypes /\ StoreTypes
  BY TypeParts
<1>1. checkpoint[e] \in 0..2 /\ checkpoint'[e] \in 0..2 /\ checkpoint[e] <= checkpoint'[e]
  BY CheckpointGrows
<1>2. ASSUME r \in claimed[e]
      PROVE  r[1] <= checkpoint'[e]
  <2>1. r[1] <= checkpoint[e] /\ r \in Revision
    BY <1>0, <1>2 DEF ClaimBound, StoreTypes
  <2>2. r[1] \in 1..2
    BY <2>1 DEF Revision
  <2>3. QED
    BY <1>1, <2>1, <2>2
<1>3. CASE IngestNext /\ r \notin claimed[e]
  <2>1. PICK o \in Observation : Ingest(o)
    BY <1>0, <1>3, IngestFenced
  <2>2. o.entity \in Entities /\ o.rank \in 1..2
    BY <2>1 DEF Observation
  <2>3. e = o.entity /\ r = RevisionOf(o.rank, "live")
    BY <1>0, <1>3, <2>1, <2>2 DEF Ingest, StoreTypes
  <2>4. QED
    BY <2>3 DEF RevisionOf
<1>4. CASE TakeSnapshot /\ r \notin claimed[e]
  <2>1. IngestSnapshot
    BY <1>4 DEF TakeSnapshot
  <2>2. Pulled(e) /\ r = RevisionOf(snapshot[e], "pull")
    BY <1>4, <2>1 DEF IngestSnapshot
  <2>3. News(e) /\ r[1] = snapshot[e]
    BY <2>2, PulledIsNews DEF RevisionOf
  <2>4. checkpoint'[e] = snapshot[e]
    BY <2>1, <2>3 DEF IngestSnapshot
  <2>5. QED
    BY <1>1, <2>3, <2>4
<1>5. CASE ~IngestNext /\ ~TakeSnapshot
  BY <1>2, <1>5, StoreFrame DEF store
<1>6. QED
  BY <1>2, <1>3, <1>4, <1>5

\* Outside the flight, the pulled states and the row do not move.
LEMMA FloorStep == TypeOK /\ PullInv /\ [Next]_vars => FloorBound' /\ PullBound'
<1> SUFFICES ASSUME TypeOK, PullInv, [Next]_vars
             PROVE  FloorBound' /\ PullBound'
  OBVIOUS
<1>0. StateTypes /\ FloorBound /\ PullBound
  BY TypeParts DEF PullInv
<1>1. \A e \in Entities : native[e] \in 0..2 /\ floor[e] \in 0..2 /\ snapshot[e] \in 0..2
  BY <1>0, StateRange DEF StateTypes
<1>2. ASSUME NEW e \in Entities, NativeStep(e)
      PROVE  FloorBound' /\ PullBound'
  <2>1. /\ native' = [native EXCEPT ![e] = native[e] + 1]
        /\ UNCHANGED <<floor, flight, history, snapshot>>
    BY <1>2 DEF NativeStep, pull, row
  <2>2. \A d \in Entities : native'[d] = native[d] \/ native'[d] = native[d] + 1
    BY <1>0, <2>1 DEF StateTypes, States
  <2>3. \A d \in Entities : floor[d] <= native'[d]
    BY <1>0, <1>1, <2>2 DEF FloorBound
  <2>4. FloorBound'
    BY <2>1, <2>3 DEF FloorBound
  <2>5. PullBound'
    BY <1>0, <2>1 DEF PullBound
  <2>6. QED
    BY <2>4, <2>5
<1>3. CASE StartReconciliation
  <2>1. floor' = native /\ native' = native /\ flight' = "started"
    BY <1>3 DEF StartReconciliation, runtime
  <2>2. FloorBound'
    BY <1>1, <2>1 DEF FloorBound
  <2>3. PullBound'
    BY <2>1 DEF PullBound
  <2>4. QED
    BY <2>2, <2>3
<1>4. CASE ReadSnapshot
  <2>1. /\ UNCHANGED <<native, floor>>
        /\ history' => snapshot' = native
    BY <1>4 DEF ReadSnapshot, runtime, row
  <2>2. FloorBound'
    BY <1>0, <2>1 DEF FloorBound
  <2>3. PullBound'
    BY <1>0, <2>1 DEF FloorBound, PullBound
  <2>4. QED
    BY <2>2, <2>3
<1>5. CASE \/ Adopt \/ Fail \/ Crash
           \/ \E state \in {"ready", "blocked", "unknown"} : Settle(state)
  <2>1. /\ UNCHANGED <<native, floor>>
        /\ flight' \in {"adopted", "none"}
    BY <1>5 DEF Adopt, Fail, Crash, Settle, EndFlight, runtime, row
  <2>2. FloorBound'
    BY <1>0, <2>1 DEF FloorBound
  <2>3. PullBound'
    BY <2>1 DEF PullBound
  <2>4. QED
    BY <2>2, <2>3
<1>6. CASE TakeSnapshot
  <2>1. /\ UNCHANGED <<native, floor, snapshot, history>>
        /\ flight = "read"
    BY <1>6 DEF TakeSnapshot, runtime, row
  <2>2. FloorBound'
    BY <1>0, <2>1 DEF FloorBound
  <2>3. PullBound'
    BY <1>0, <2>1 DEF PullBound
  <2>4. QED
    BY <2>2, <2>3
<1>7. CASE \/ Receive \/ FlushStream \/ DropBatch \/ IngestNext \/ Request \/ RetryFires
           \/ Disconnect \/ Reconnect \/ Attach \/ UNCHANGED vars
  <2>1. UNCHANGED <<native, floor, flight, history, snapshot>>
    BY <1>7
    DEF Receive, FlushStream, DropBatch, IngestNext, Request, RetryFires, Disconnect,
        Reconnect, Attach, vars, runtime, pull, row
  <2>2. FloorBound'
    BY <1>0, <2>1 DEF FloorBound
  <2>3. PullBound'
    BY <1>0, <2>1 DEF PullBound
  <2>4. QED
    BY <2>2, <2>3
<1>8. QED
  BY <1>2, <1>3, <1>4, <1>5, <1>6, <1>7 DEF Next, Flight

\* Only the start of a reconciliation raises its ordinal, and only its snapshot
\* informs it.
LEMMA RowFrame ==
    ASSUME [Next]_vars, ~StartReconciliation
    PROVE  ordinal' = ordinal /\ floor' = floor
<1>1. ASSUME NEW e \in Entities, NativeStep(e)
      PROVE  ordinal' = ordinal /\ floor' = floor
  BY <1>1 DEF NativeStep, row
<1>2. CASE \/ Receive \/ FlushStream \/ DropBatch \/ IngestNext \/ Adopt \/ ReadSnapshot
           \/ TakeSnapshot
  BY <1>2 DEF Receive, FlushStream, DropBatch, IngestNext, Adopt, ReadSnapshot, TakeSnapshot, row
<1>3. CASE Fail \/ \E state \in {"ready", "blocked", "unknown"} : Settle(state)
  BY <1>3 DEF Fail, Settle
<1>4. CASE Request \/ RetryFires \/ Disconnect \/ Reconnect \/ Crash \/ Attach
  BY <1>4 DEF Request, RetryFires, Disconnect, Reconnect, Crash, Attach, row
<1>5. CASE UNCHANGED vars
  BY <1>5 DEF vars
<1>6. QED
  BY <1>1, <1>2, <1>3, <1>4, <1>5 DEF Next, Flight

LEMMA InformedFrame ==
    ASSUME [Next]_vars, ~StartReconciliation, ~TakeSnapshot
    PROVE  informed' = informed
<1>1. ASSUME NEW e \in Entities, NativeStep(e)
      PROVE  informed' = informed
  BY <1>1 DEF NativeStep, row
<1>2. CASE Receive \/ FlushStream \/ DropBatch \/ IngestNext \/ Adopt \/ ReadSnapshot
  BY <1>2 DEF Receive, FlushStream, DropBatch, IngestNext, Adopt, ReadSnapshot, row
<1>3. CASE Fail \/ \E state \in {"ready", "blocked", "unknown"} : Settle(state)
  BY <1>3 DEF Fail, Settle
<1>4. CASE Request \/ RetryFires \/ Disconnect \/ Reconnect \/ Crash \/ Attach
  BY <1>4 DEF Request, RetryFires, Disconnect, Reconnect, Crash, Attach, row
<1>5. CASE UNCHANGED vars
  BY <1>5 DEF vars
<1>6. QED
  BY <1>1, <1>2, <1>3, <1>4, <1>5 DEF Next, Flight

LEMMA PullStep == TypeOK /\ PullInv /\ [Next]_vars => PullCatchesUp'
<1> SUFFICES ASSUME TypeOK, PullInv, [Next]_vars
             PROVE  PullCatchesUp'
  OBVIOUS
<1>0. StateTypes /\ ClaimBound /\ PullBound /\ PullCatchesUp
  BY TypeParts DEF PullInv
<1>1. \A e \in Entities : /\ checkpoint[e] \in 0..2 /\ floor[e] \in 0..2
                          /\ checkpoint'[e] \in 0..2 /\ checkpoint[e] <= checkpoint'[e]
  BY <1>0, StateRange, CheckpointGrows DEF StateTypes
<1>2. CASE StartReconciliation
  BY <1>2 DEF StartReconciliation, PullCatchesUp
<1>3. CASE TakeSnapshot /\ history
  <2>1. UNCHANGED floor /\ IngestSnapshot /\ flight = "read"
    BY <1>3 DEF TakeSnapshot
  <2>2. ASSUME NEW e \in Entities \ Turns
        PROVE  checkpoint'[e] >= floor'[e]
    <3>1. floor[e] <= snapshot[e] /\ snapshot[e] \in 0..2
      BY <1>0, <1>3, <2>1, StateRange DEF PullBound, StateTypes
    <3>2. CASE Pulled(e)
      <4>1. checkpoint'[e] = snapshot[e]
        BY <1>0, <2>1, <3>2, PulledIsNews DEF IngestSnapshot
      <4>2. QED
        BY <1>1, <2>1, <3>1, <4>1
    <3>3. CASE ~Pulled(e)
      <4>1. snapshot[e] <= checkpoint[e]
        BY <1>1, <3>1, <3>3 DEF Pulled
      <4>2. QED
        BY <1>1, <2>1, <3>1, <4>1
    <3>4. QED
      BY <3>2, <3>3
  <2>3. QED
    BY <2>2 DEF PullCatchesUp
<1>4. CASE TakeSnapshot /\ ~history
  BY <1>4 DEF TakeSnapshot, PullCatchesUp
<1>5. CASE ~StartReconciliation /\ ~TakeSnapshot
  <2>1. floor' = floor
    BY <1>5, RowFrame
  <2>2. informed' = informed
    BY <1>5, InformedFrame
  <2>3. ASSUME NEW e \in Entities \ Turns, informed'
        PROVE  checkpoint'[e] >= floor'[e]
    <3>1. checkpoint[e] >= floor[e]
      BY <1>0, <2>1, <2>2, <2>3 DEF PullCatchesUp
    <3>2. QED
      BY <1>1, <2>1, <3>1
  <2>4. QED
    BY <2>3 DEF PullCatchesUp
<1>6. QED
  BY <1>2, <1>3, <1>4, <1>5

\* Once the snapshot of the current reconciliation is in, nothing of what the
\* runtime had when it started is missing, whatever was lost on the way.
THEOREM NothingStaysLost == Spec => []PullCatchesUp
<1>1. Init => PullInv
  <2> SUFFICES ASSUME Init
               PROVE  PullInv
    OBVIOUS
  <2>1. ~informed /\ flight = "none" /\ floor = native
    BY DEF Init
  <2>2. \A e \in Entities : claimed[e] = {}
    BY DEF Init
  <2>3. \A e \in Entities : native[e] = 0
    BY DEF Init, Nothing
  <2>4. ClaimBound
    BY <2>2 DEF ClaimBound
  <2>5. FloorBound
    BY <2>1, <2>3 DEF FloorBound
  <2>6. PullBound
    BY <2>1 DEF PullBound
  <2>7. PullCatchesUp
    BY <2>1 DEF PullCatchesUp
  <2>8. QED
    BY <2>4, <2>5, <2>6, <2>7 DEF PullInv
<1>2. TypeOK /\ PullInv /\ [Next]_vars => PullInv'
  <2> SUFFICES ASSUME TypeOK, PullInv, [Next]_vars
               PROVE  PullInv'
    OBVIOUS
  <2>1. ClaimBound'
    BY ClaimStep DEF PullInv
  <2>2. FloorBound' /\ PullBound'
    BY FloorStep
  <2>3. PullCatchesUp'
    BY PullStep
  <2>4. QED
    BY <2>1, <2>2, <2>3 DEF PullInv
<1>3. PullInv => PullCatchesUp
  BY DEF PullInv
<1>4. QED
  BY <1>1, <1>2, <1>3, ObservationTypes, PTL DEF Spec

-----------------------------------------------------------------------------
(* The record of a tool call moves forward, and the checkpoint is where it  *)
(* stands.                                                                  *)

\* A tool call that ended does not run again.
RanksAscend ==
    \A e \in Tools : \A i, j \in 1..Len(log[e]) : i < j => log[e][i].rank < log[e][j].rank

\* What the pulls derive against is what was recorded last.
CheckpointIsLast ==
    \A e \in Entities \ Parts :
        checkpoint[e] = IF log[e] = <<>> THEN 0 ELSE log[e][Len(log[e])].rank

\* No entry of a tool call is above its recorded state.
ToolBound == \A e \in Tools : \A i \in 1..Len(log[e]) : log[e][i].rank <= checkpoint[e]

ForwardInv == ToolBound /\ RanksAscend /\ CheckpointIsLast

LEMMA ForwardStep == ASSUME TypeOK, ForwardInv, [Next]_vars PROVE ForwardInv'
<1>0. StateTypes /\ StoreTypes
  BY TypeParts
<1> DEFINE Bounded(e) == \A i \in 1..Len(log[e]) : log[e][i].rank <= checkpoint[e]
           Ascends(e) == \A i, j \in 1..Len(log[e]) : i < j => log[e][i].rank < log[e][j].rank
           Last(e) == checkpoint[e] = IF log[e] = <<>> THEN 0 ELSE log[e][Len(log[e])].rank
<1>1. ASSUME NEW e \in Entities \ Parts
      PROVE  (e \in Tools => Bounded(e)' /\ Ascends(e)') /\ Last(e)'
  <2>1. (e \in Tools => Bounded(e) /\ Ascends(e)) /\ Last(e)
    BY DEF ForwardInv, ToolBound, RanksAscend, CheckpointIsLast
  <2>2. CASE Keeping(e)
    BY <2>1, <2>2 DEF Keeping
  <2>3. CASE Recording(e)
    <3>1. PICK entry \in Entry :
              /\ log'[e] = Append(log[e], entry)
              /\ checkpoint'[e] = entry.rank
              /\ e \in Tools => checkpoint[e] < entry.rank
      BY <2>3 DEF Recording, Ranked
    <3>2. log[e] \in Seq(Entry) /\ checkpoint[e] \in 0..2 /\ entry.rank \in 1..2
      BY <1>0, StateRange DEF StoreTypes, StateTypes, Entry
    <3>3. /\ Len(log[e]) \in Nat /\ Len(log'[e]) = Len(log[e]) + 1
          /\ \A i \in 1..Len(log[e]) : log'[e][i] = log[e][i] /\ log[e][i] \in Entry
          /\ log'[e][Len(log[e]) + 1] = entry
      BY <3>1, <3>2, AppendEntries
    <3>4. ASSUME e \in Tools, NEW i \in 1..Len(log[e])
          PROVE  log'[e][i].rank < entry.rank /\ log'[e][i].rank \in 1..2
      <4>1. log[e][i].rank <= checkpoint[e] /\ log[e][i].rank \in 1..2
        BY <2>1, <3>3, <3>4 DEF Entry
      <4>2. QED
        BY <3>1, <3>2, <3>3, <3>4, <4>1
    <3>5. \A i \in 1..Len(log'[e]) : i \in 1..Len(log[e]) \/ i = Len(log[e]) + 1
      BY <3>3
    <3>6. ASSUME e \in Tools, NEW i \in 1..Len(log'[e])
          PROVE  log'[e][i].rank <= checkpoint'[e]
      <4>1. CASE i \in 1..Len(log[e])
        <5>1. log'[e][i].rank < entry.rank /\ log'[e][i].rank \in 1..2
          BY <3>4, <3>6, <4>1
        <5>2. QED
          BY <3>1, <3>2, <5>1
      <4>2. CASE i = Len(log[e]) + 1
        BY <3>1, <3>2, <3>3, <4>2
      <4>3. QED
        BY <3>5, <4>1, <4>2
    <3>7. ASSUME e \in Tools, NEW i \in 1..Len(log'[e]), NEW j \in 1..Len(log'[e]), i < j
          PROVE  log'[e][i].rank < log'[e][j].rank
      <4>1. i \in 1..Len(log[e])
        BY <3>3, <3>7
      <4>2. CASE j \in 1..Len(log[e])
        BY <2>1, <3>3, <3>7, <4>1, <4>2
      <4>3. CASE j = Len(log[e]) + 1
        BY <3>3, <3>4, <3>7, <4>1, <4>3
      <4>4. QED
        BY <3>5, <4>2, <4>3
    <3>8. log'[e] # <<>> /\ log'[e][Len(log'[e])] = entry
      BY <3>1, <3>2, <3>3, AppendTyped
    <3>9. QED
      BY <3>1, <3>6, <3>7, <3>8
  <2>4. QED
    BY <2>2, <2>3, StoreMoves
<1>2. Tools \subseteq Entities \ Parts
  BY ObservationAssumption DEF Entities
<1>3. QED
  BY <1>1, <1>2 DEF ForwardInv, ToolBound, RanksAscend, CheckpointIsLast

\* Over both channels, losses, restarts and stale batches, the record of a tool
\* call only moves forward, and the checkpoint the next pull derives against is
\* the state recorded last of anything but a text. A text has deltas and is
\* flushed, neither of which the store can rank.
THEOREM TheRecordMovesForward == Spec => [](RanksAscend /\ CheckpointIsLast)
<1>1. Init => ForwardInv
  <2> SUFFICES ASSUME Init
               PROVE  ForwardInv
    OBVIOUS
  <2>1. \A e \in Entities : log[e] = <<>> /\ Len(log[e]) = 0 /\ checkpoint[e] = 0
    BY EmptySeq DEF Init, Nothing
  <2>2. Tools \subseteq Entities /\ 1..0 = {}
    BY DEF Entities
  <2>3. QED
    BY <2>1, <2>2 DEF ForwardInv, ToolBound, RanksAscend, CheckpointIsLast
<1>2. ForwardInv => RanksAscend /\ CheckpointIsLast
  BY DEF ForwardInv
<1>3. TypeOK /\ ForwardInv /\ [Next]_vars => ForwardInv'
  BY ForwardStep
<1>4. QED
  BY <1>1, <1>2, <1>3, ObservationTypes, PTL DEF Spec

-----------------------------------------------------------------------------
(* The barrier is never orphaned. A crash leaves the row "reconciling" with *)
(* nothing that works on it; the first job of the next process does.        *)

\* What blocks sending is being worked on, or waits for the session lock.
BarrierIsHeld ==
    attached /\ barrier = "reconciling" => flight # "none" \/ Waiting # {}

\* A session that may send is observed: what its adapter translates now carries
\* the ordinal the fence asks for, unless a reconciliation comes first.
ReadyIsObserved ==
    attached /\ barrier = "ready" => adopted = ordinal \/ Waiting # {}

\* A flight belongs to a living process and has the barrier.
FlightHolds ==
    /\ flight # "none" => attached /\ barrier = "reconciling"
    /\ flight \in {"adopted", "read", "ingested"} => adopted = ordinal
    /\ ~attached => jobs = <<>> /\ pending = <<>> /\ ~timer

BarrierInv == FlightHolds /\ BarrierIsHeld /\ ReadyIsObserved

\* A reconciliation that waits for the lock gets it, or dies with the process.
LEMMA WaitingStays ==
    ASSUME TypeOK, [Next]_vars, Waiting # {}, ~StartReconciliation, ~Crash
    PROVE  Waiting' # {}
<1>0. QueueTypes
  BY TypeParts
<1>1. jobs \in Seq(Job) /\ Len(jobs) \in Nat
  BY <1>0 DEF QueueTypes
<1>2. PICK i \in 1..Len(jobs) : jobs[i].kind = "reconcile"
  BY DEF Waiting
<1>3. CASE UNCHANGED jobs
  BY <1>3 DEF Waiting
<1>4. ASSUME NEW job \in Job, jobs' = Append(jobs, job)
      PROVE  Waiting' # {}
  <2>1. Len(jobs') = Len(jobs) + 1 /\ jobs'[i] = jobs[i]
    BY <1>1, <1>4, AppendProperties
  <2>2. i \in 1..Len(jobs')
    BY <1>1, <2>1
  <2>3. QED
    BY <1>2, <2>1, <2>2 DEF Waiting
<1>5. ASSUME jobs # <<>>, Head(jobs).kind = "observe", jobs' = Tail(jobs)
      PROVE  Waiting' # {}
  <2>1. Head(jobs) = jobs[1] /\ i # 1
    BY <1>1, <1>2, <1>5, TailTyped
  <2>2. Len(jobs') = Len(jobs) - 1 /\ \A k \in 1..Len(jobs') : jobs'[k] = jobs[k + 1]
    BY <1>1, <1>5, HeadTailProperties
  <2>3. i - 1 \in 1..Len(jobs') /\ jobs'[i - 1] = jobs[i]
    BY <1>1, <2>1, <2>2
  <2>4. QED
    BY <1>2, <2>3 DEF Waiting
<1>6. CASE DropBatch
  BY <1>5, <1>6 DEF DropBatch, Free
<1>7. CASE IngestNext
  <2>1. jobs # <<>> /\ Head(jobs).kind = "observe" /\ Head(jobs) = jobs[1]
    BY <1>1, <1>7, TailTyped DEF IngestNext, Free
  <2>2. CASE jobs' = Tail(jobs)
    BY <1>5, <2>1, <2>2
  <2>3. ASSUME NEW job, jobs' = [jobs EXCEPT ![1] = job]
        PROVE  Waiting' # {}
    <3>1. i # 1
      BY <1>2, <2>1
    <3>2. Len(jobs') = Len(jobs) /\ jobs'[i] = jobs[i]
      BY <1>1, <2>3, <3>1
    <3>3. QED
      BY <1>2, <3>2 DEF Waiting
  <2>4. QED
    BY <1>7, <2>2, <2>3 DEF IngestNext
<1>8. CASE Receive \/ FlushStream
  <2>1. UNCHANGED jobs \/ \E batch : jobs' = Append(jobs, Observe(batch)) /\ jobs' \in Seq(Job)
    <3>1. jobs' \in Seq(Job)
      BY QueueStep DEF QueueTypes
    <3>2. QED
      BY <1>8, <3>1, ReceiveCases DEF FlushStream
  <2>2. ASSUME NEW batch, jobs' = Append(jobs, Observe(batch)), jobs' \in Seq(Job)
        PROVE  Waiting' # {}
    <3>1. Len(jobs') = Len(jobs) + 1 /\ jobs'[i] = jobs[i]
      BY <1>1, <2>2
    <3>2. i \in 1..Len(jobs')
      BY <1>1, <3>1
    <3>3. QED
      BY <1>2, <3>1, <3>2 DEF Waiting
  <2>3. QED
    BY <1>3, <2>1, <2>2
<1>9. CASE Request \/ RetryFires \/ Disconnect \/ Reconnect
  BY <1>3, <1>4, <1>9, JobTyped DEF Request, RetryFires, Disconnect, Reconnect, Ask
<1>10. CASE Attach
  <2>1. jobs' = <<Reconcile>>
    BY <1>10 DEF Attach
  <2>2. 1 \in 1..Len(jobs') /\ jobs'[1].kind = "reconcile"
    BY <2>1 DEF Reconcile
  <2>3. QED
    BY <2>2 DEF Waiting
<1>11. QED
  BY <1>3, <1>6, <1>7, <1>8, <1>9, <1>10
  DEF Next, NativeStep, Flight, Adopt, ReadSnapshot, TakeSnapshot, Fail, Settle, vars, memory

\* What it is taken from was put there by a living process.
LEMMA BarrierStep == ASSUME TypeOK, BarrierInv, [Next]_vars PROVE BarrierInv'
<1> USE DEF BarrierInv, FlightHolds, BarrierIsHeld, ReadyIsObserved
<1>0. QueueTypes /\ StageTypes /\ FlagTypes
  BY TypeParts
<1>1. CASE Crash
  <2>1. flight' = "none" /\ ~attached' /\ jobs' = <<>> /\ pending' = <<>> /\ ~timer'
    BY <1>1 DEF Crash, EndFlight
  <2>2. QED
    BY <2>1
<1>2. CASE StartReconciliation
  <2>1. attached /\ attached' = attached /\ flight' = "started" /\ barrier' = "reconciling"
    BY <1>2 DEF StartReconciliation, Free
  <2>2. QED
    BY <2>1
<1>3. CASE Attach
  <2>1. /\ ~attached /\ attached' /\ jobs' = <<Reconcile>>
        /\ UNCHANGED <<flight, barrier, adopted, ordinal>>
    BY <1>3 DEF Attach, adapter, pull, row
  <2>2. 1 \in 1..Len(jobs') /\ jobs'[1].kind = "reconcile"
    BY <2>1 DEF Reconcile
  <2>3. Waiting' # {}
    BY <2>2 DEF Waiting
  <2>4. QED
    BY <2>1, <2>3
<1>4. CASE ~Crash /\ ~StartReconciliation /\ ~Attach
  <2>1. Waiting # {} => Waiting' # {}
    BY <1>4, WaitingStays
  <2>2. attached' = attached /\ ordinal' = ordinal
    BY <1>4
    DEF Next, NativeStep, Receive, FlushStream, DropBatch, IngestNext, Flight, Adopt,
        ReadSnapshot, TakeSnapshot, Fail, Settle, Request, RetryFires, Disconnect, Reconnect,
        vars, memory, row
  <2>3. ~attached => jobs' = <<>> /\ pending' = <<>> /\ ~timer'
    <3>1. ASSUME ~attached
          PROVE  ~Receive /\ ~FlushStream /\ ~DropBatch /\ ~IngestNext /\ ~Flight /\ ~RetryFires
      BY <3>1 DEF Receive, FlushStream, DropBatch, IngestNext, Free, Flight, Adopt,
         ReadSnapshot, TakeSnapshot, Fail, Settle, RetryFires
    <3>2. ASSUME ~attached
          PROVE  UNCHANGED <<jobs, pending, timer>>
      BY <1>4, <3>1, <3>2
      DEF Next, NativeStep, Request, Disconnect, Reconnect, vars, memory, retry
    <3>3. QED
      BY <3>2
  <2>4. CASE Adopt
    BY <2>1, <2>2, <2>3, <2>4 DEF Adopt, row
  <2>5. CASE ReadSnapshot \/ TakeSnapshot
    BY <2>1, <2>2, <2>3, <2>5 DEF ReadSnapshot, TakeSnapshot, adapter, row
  <2>6. ASSUME NEW state \in {"ready", "blocked", "unknown"}, Settle(state) PROVE BarrierInv'
    BY <2>1, <2>2, <2>3, <2>6 DEF Settle, EndFlight, adapter
  <2>7. CASE Fail
    BY <2>1, <2>2, <2>3, <2>7 DEF Fail, EndFlight, adapter
  <2>8. CASE UNCHANGED <<flight, barrier, adopted>>
    BY <2>1, <2>2, <2>3, <2>8
  <2>9. QED
    BY <1>4, <2>4, <2>5, <2>6, <2>7, <2>8
    DEF Next, NativeStep, Receive, FlushStream, DropBatch, IngestNext, Flight,
        Request, RetryFires, Disconnect, Reconnect, vars, adapter, pull, row
<1>5. QED
  BY <1>1, <1>2, <1>3, <1>4

\* Whatever was cut short, a barrier that blocks sending is worked on or waits
\* for the session lock, and a session that may send is observed or about to be
\* reconciled.
THEOREM NoBarrierIsOrphaned == Spec => [](BarrierIsHeld /\ ReadyIsObserved)
<1>1. Init => BarrierInv
  BY DEF Init, BarrierInv, FlightHolds, BarrierIsHeld, ReadyIsObserved
<1>2. BarrierInv => BarrierIsHeld /\ ReadyIsObserved
  BY DEF BarrierInv
<1>3. TypeOK /\ BarrierInv /\ [Next]_vars => BarrierInv'
  BY BarrierStep
<1>4. QED
  BY <1>1, <1>2, <1>3, ObservationTypes, PTL DEF Spec
=============================================================================
