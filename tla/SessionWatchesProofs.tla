------------------------ MODULE SessionWatchesProofs ------------------------
(***************************************************************************)
(* What a watch reports: every stop it asked for, once, in order, and the  *)
(* end before it leaves. The target's answers, pauses and queue, the kicks *)
(* and the crashes are arbitrary.                                          *)
(***************************************************************************)
EXTENDS SessionWatches, SequenceTheorems, TLAPS

\* The type invariant, in the parts that actions disturb.
TypeSource ==
    /\ log \in Seq(Kinds \cup {"continued", "stopped", "retrying"}) /\ Len(log) <= MaxStops + 1
    /\ notices \in Nat /\ halted \in BOOLEAN /\ owed \in BOOLEAN
    /\ told \in Nat /\ told <= Len(log)

TypeRows ==
    /\ armed \subseteq Watches
    /\ terms \in [Watches -> Terms]
    /\ cursor \in [Watches -> 0..(MaxStops + 1)] /\ born \in [Watches -> 0..(MaxStops + 1)]
    /\ pending \in [Watches -> Pending]
    /\ issued \in Seq(Watches \X (1..(MaxStops + 1))) /\ Len(issued) <= MaxOps

TypeDrains ==
    /\ drains \in [Watches -> 0..MaxWaiting] /\ failed \subseteq Watches
    /\ pc \in [Watches -> {"new", "creating", "idle", "loop", "stop", "send", "route",
                           "join", "admit", "insert", "note", "answer", "settle"}]
    /\ local \in [Watches -> Local]

TypeTarget ==
    /\ paused \in BOOLEAN /\ active \in BOOLEAN
    /\ queue \in Seq(Ops) /\ enqueued \subseteq Ops /\ cut \subseteq Ops
    /\ operation \in [Ops -> {"none", "executing", "confirmed", "unknown", "rejected"}]
    /\ admitted \in Seq(Ops)
    /\ fired \in Seq(Watches \X (1..(MaxStops + 1)))
    /\ pauses \in 0..MaxPauses /\ crashes \in 0..MaxCrashes

Types == TypeSource /\ TypeRows /\ TypeDrains /\ TypeTarget

QueueDiffers == \A i, j \in 1..Len(queue) : queue[i] = queue[j] => i = j

Unborn == {"new", "creating"}

\* A drain that is past the decision to report the stop it is at.
Busy == {"send", "route", "join", "admit", "insert", "note", "answer", "settle"}

\* A watch that may still report something.
Alive(w) == w \in armed \/ pc[w] \in Busy

Told == Values(admitted) \cup Values(queue)

\* Where a drain stands in the log.
Stands(w) ==
    /\ cursor[w] <= Len(log)
    /\ pc[w] \in Unborn => w \notin armed /\ pending[w].op = 0
    /\ pc[w] \in Busy \cup {"stop"} => local[w].at >= 1 /\ local[w].upto <= Len(log)
    /\ Alive(w) /\ pc[w] \in Busy \cup {"stop"} => local[w].at = cursor[w] + 1
    /\ pc[w] \in Busy => local[w].at <= local[w].upto /\ Reportable(w, local[w].at)
    /\ pc[w] \in Busy \ {"settle"} => terms[w].delivery = "wake"

Standing == \A w \in Watches : Stands(w)

\* What the ids were made up for: one for each stop, the last of them pending.
Issues(w) ==
    /\ pending[w].op # 0 => /\ terms[w].delivery = "wake"
                            /\ pending[w].op \in 1..Len(issued)
                            /\ issued[pending[w].op] = <<w, pending[w].seq>>
    /\ Alive(w) /\ pending[w].op # 0 => pending[w].seq = cursor[w] + 1
    /\ pc[w] \in Busy /\ terms[w].delivery = "wake" => pending[w].op # 0
    /\ Alive(w) => \A k \in 1..Len(issued) :
           issued[k][1] = w => issued[k][2] <= cursor[w] \/ k = pending[w].op
    /\ pc[w] \in Unborn => \A k \in 1..Len(issued) : issued[k][1] # w

IdsDiffer == \A k, l \in 1..Len(issued) : issued[k] = issued[l] => k = l

Issuing == IdsDiffer /\ \A w \in Watches : Issues(w)

\* What the target remembers of an id stands for a message it has.
Remembers(w) ==
    /\ pc[w] = "note" => Op(w) \in Told
    /\ pc[w] = "settle" => Reported(w, local[w].at)

Remembering ==
    /\ Told \subseteq 1..Len(issued)
    /\ enqueued \subseteq Told
    /\ \A op \in Ops : operation[op] # "none" => op \in Told
    /\ \A w \in Watches : Remembers(w)

Inv == Types /\ QueueDiffers /\ Standing /\ Issuing /\ Remembering

\* A message that waits for nobody's settlement was settled or cut.
SendsOnce(w) ==
    /\ pc[w] \in {"route", "join", "admit", "insert"} => operation[Op(w)] = "none"
    /\ /\ Alive(w) /\ Op(w) # 0 /\ Op(w) \in Told
       /\ operation[Op(w)] = "none" /\ pc[w] \notin {"note", "settle"}
       => Op(w) \in cut

\* A call is in flight only while its drain waits for the answer.
Answering ==
    \A op \in Ops : operation[op] = "executing" =>
        \E w \in Watches : pc[w] = "answer" /\ Op(w) = op

Sending == Answering /\ \A w \in Watches : SendsOnce(w)

Once ==
    /\ \A i, j \in 1..Len(admitted) : i # j /\ admitted[i] = admitted[j] => admitted[i] \in cut
    /\ Values(admitted) \cap Values(queue) \subseteq cut
    /\ \A i, j \in 1..Len(fired) : i # j => fired[i] # fired[j]

\* Of two messages of one watch, the second stands for no earlier stop.
NotAfter(a, b) == issued[a][1] = issued[b][1] => issued[a][2] <= issued[b][2]

Ordering ==
    /\ \A i, j \in 1..Len(admitted) : i < j => NotAfter(admitted[i], admitted[j])
    /\ \A i, j \in 1..Len(queue) : i < j => NotAfter(queue[i], queue[j])
    /\ \A a \in Values(admitted), q \in Values(queue) : NotAfter(a, q)
    /\ \A w \in Watches : pc[w] = "admit" => \A q \in Values(queue) : issued[q][1] # w

\* The parts are the type invariant.
LEMMA TypeParts ==
    TypeOK <=> TypeSource /\ TypeRows /\ TypeDrains /\ TypeTarget /\ QueueDiffers
  BY DEF TypeOK, TypeSource, TypeRows, TypeDrains, TypeTarget, QueueDiffers

\* No stop is pending at first.
LEMMA NoneIsPending == None \in Pending
  <1>1. 0 \in 0..(MaxStops + 1) /\ 0 \in 0..MaxOps
    BY WatchAssumption
  <1> QED
    BY <1>1 DEF None, Pending

\* What a sequence holds after an element was put behind it.
LEMMA AppendValues ==
  ASSUME NEW S, NEW s \in Seq(S), NEW x \in S
  PROVE  Values(Append(s, x)) = Values(s) \cup {x}
  BY DEF Values

\* What a sequence holds before its head is taken.
LEMMA TailValues ==
  ASSUME NEW S, NEW s \in Seq(S), s # <<>>
  PROVE  /\ Values(s) = {Head(s)} \cup Values(Tail(s))
         /\ Head(s) \in S /\ Tail(s) \in Seq(S)
         /\ Head(s) = s[1] /\ Len(s) >= 1
         /\ Len(Tail(s)) = Len(s) - 1
         /\ \A i \in 1..Len(Tail(s)) : Tail(s)[i] = s[i + 1]
  <1>1. /\ Head(s) \in S /\ Tail(s) \in Seq(S) /\ Len(Tail(s)) = Len(s) - 1
        /\ \A i \in 1..Len(Tail(s)) : Tail(s)[i] = s[i + 1]
    BY HeadTailProperties
  <1>2. Len(s) \in Nat /\ Len(s) # 0 /\ Head(s) = s[1]
    BY EmptySeq, LenProperties
  <1>3. ASSUME NEW x \in Values(s) PROVE x \in {Head(s)} \cup Values(Tail(s))
    <2>1. PICK i \in 1..Len(s) : x = s[i]
      BY DEF Values
    <2>2. CASE i = 1
      BY <1>2, <2>1, <2>2
    <2>3. CASE i # 1
      <3>1. i - 1 \in 1..Len(Tail(s)) /\ (i - 1) + 1 = i
        BY <1>1, <1>2, <2>3
      <3>2. Tail(s)[i - 1] = x
        BY <1>1, <2>1, <3>1
      <3> QED
        BY <3>1, <3>2 DEF Values
    <2> QED
      BY <2>2, <2>3
  <1>4. ASSUME NEW x \in Values(Tail(s)) PROVE x \in Values(s)
    <2>1. PICK i \in 1..Len(Tail(s)) : x = Tail(s)[i]
      BY <1>4 DEF Values
    <2>2. i + 1 \in 1..Len(s) /\ x = s[i + 1]
      BY <1>1, <1>2, <2>1
    <2> QED
      BY <2>2 DEF Values
  <1>5. Head(s) \in Values(s)
    BY <1>2 DEF Values
  <1> QED
    BY <1>1, <1>2, <1>3, <1>4, <1>5

\* The source moves nothing but its log, its pause and its announcements.
LEMMA SourceStays ==
  ASSUME Source
  PROVE  /\ UNCHANGED <<armed, terms, cursor, pending, issued>>
         /\ UNCHANGED <<drains, pc, local, failed>>
         /\ UNCHANGED <<paused, active, queue, enqueued, operation, admitted, fired, pauses>>
         /\ UNCHANGED <<crashes, born, cut>>
  <1>1. UNCHANGED <<rows, run, target, crashes, born, cut>>
    BY DEF Source, TurnStops, KeepAliveStops, RecordStop, ReleaseStop, RepairStop, PauseEnds
  <1> QED
    BY <1>1 DEF rows, run, target

\* Which action moves what only one action moves.
LEMMA WhoMoves ==
  ASSUME [Next]_vars
  PROVE  /\ UNCHANGED terms
         /\ UNCHANGED fired \/ \E w \in Watches : Observe(w)
         /\ UNCHANGED enqueued \/ \E w \in Watches : NoteRow(w)
         /\ UNCHANGED issued \/ \E w \in Watches : Prepare(w)
         /\ UNCHANGED born \/ \E w \in Watches : Create(w)
         /\ UNCHANGED pauses \/ \E pausing \in BOOLEAN : TargetStops(pausing)
         /\ UNCHANGED <<crashes, cut>> \/ Crash
  <1>1. ASSUME NEW w \in Watches, Drain(w)
        PROVE  UNCHANGED <<terms, born, pauses, crashes, cut>>
    BY <1>1
    DEF Drain, rows, target, Insert, Begin, Look, LeaveBatch, Skip, Hold, Observe, Prepare, LookUp,
        LookUpFails, Refuse, Throw, Route, Join, Behind, InsertRow, NoteRow, Admit, Answered,
        Confirm, Decline, Settle
  <1>2. ASSUME NEW w \in Watches, Drain(w) PROVE UNCHANGED fired \/ Observe(w)
    BY <1>2
    DEF Drain, rows, target, Insert, Begin, Look, LeaveBatch, Skip, Hold, Prepare, LookUp,
        LookUpFails, Refuse, Throw, Route, Join, Behind, InsertRow, NoteRow, Admit, Answered,
        Confirm, Decline, Settle
  <1>3. ASSUME NEW w \in Watches, Drain(w) PROVE UNCHANGED enqueued \/ NoteRow(w)
    BY <1>3
    DEF Drain, rows, target, Insert, Begin, Look, LeaveBatch, Skip, Hold, Observe, Prepare, LookUp,
        LookUpFails, Refuse, Throw, Route, Join, Behind, InsertRow, Admit, Answered,
        Confirm, Decline, Settle
  <1>4. ASSUME NEW w \in Watches, Drain(w) PROVE UNCHANGED issued \/ Prepare(w)
    BY <1>4
    DEF Drain, rows, target, Insert, Begin, Look, LeaveBatch, Skip, Hold, Observe, LookUp,
        LookUpFails, Refuse, Throw, Route, Join, Behind, InsertRow, NoteRow, Admit, Answered,
        Confirm, Decline, Settle
  <1>5. ASSUME NEW w \in Watches, Create(w) \/ CreateAgain(w) \/ Unwatch(w)
        PROVE  /\ UNCHANGED <<terms, fired, enqueued, issued, pauses, crashes, cut>>
               /\ UNCHANGED born \/ Create(w)
    BY <1>5 DEF Create, CreateAgain, Unwatch, rows, target
  <1>6. ASSUME Kick \/ Dispatch \/ Write \/ StopPause \/ UNCHANGED vars
        PROVE  UNCHANGED <<terms, fired, enqueued, issued, born, pauses, crashes, cut>>
    BY <1>6 DEF Kick, Dispatch, Write, StopPause, vars, rows, target
  <1>7. ASSUME NEW pausing \in BOOLEAN, TargetStops(pausing)
        PROVE  UNCHANGED <<terms, fired, enqueued, issued, born, crashes, cut>>
    BY <1>7 DEF TargetStops, rows
  <1>8. ASSUME NEW op, NEW state, Resolve(op, state)
        PROVE  UNCHANGED <<terms, fired, enqueued, issued, born, pauses, crashes, cut>>
    BY <1>8 DEF Resolve, rows
  <1>9. ASSUME Crash PROVE UNCHANGED <<terms, fired, enqueued, issued, born, pauses>>
    BY <1>9 DEF Crash, rows
  <1> QED
    BY <1>1, <1>2, <1>3, <1>4, <1>5, <1>6, <1>7, <1>8, <1>9, SourceStays DEF Next

\* The log is only added to, and the terms of a watch are never changed.
LEMMA LogGrows ==
  ASSUME Inv, [Next]_vars
  PROVE  /\ TypeSource'
         /\ Len(log) <= Len(log') /\ \A i \in 1..Len(log) : log'[i] = log[i]
         /\ terms' = terms
  <1> USE WatchAssumption DEF Inv, Types, TypeSource, MaxWaiting
  <1> DEFINE Grows == Len(log) <= Len(log') /\ \A i \in 1..Len(log) : log'[i] = log[i]
  <1>0. terms' = terms
    BY WhoMoves
  <1> DEFINE Logs == /\ log' \in Seq(Kinds \cup {"continued", "stopped", "retrying"})
                     /\ Len(log') <= MaxStops + 1 /\ Grows
                     /\ notices' \in Nat /\ told' \in Nat /\ told' <= Len(log')
             Flags == halted' \in BOOLEAN /\ owed' \in BOOLEAN
  <1>1. ASSUME NEW kind \in Kinds, TurnStops(kind) PROVE Logs /\ Flags
    <2>1. Flags
      BY <1>1 DEF TurnStops
    <2>2. Len(log) < MaxStops /\ told' = Len(log') /\ notices' \in Nat
      BY <1>1 DEF TurnStops, MayStop, Tell
    <2>3. CASE log' = log \o <<kind, "continued">>
      <3>1. <<kind, "continued">> \in Seq(Kinds \cup {"continued", "stopped", "retrying"})
        OBVIOUS
      <3>2. Len(<<kind, "continued">>) = 2
        OBVIOUS
      <3> QED
        BY <2>1, <2>2, <2>3, <3>1, <3>2, ConcatProperties
    <2>4. CASE log' = Append(log, kind)
      BY <2>1, <2>2, <2>4
    <2> QED
      BY <1>1, <2>3, <2>4 DEF TurnStops
  <1>2. ASSUME NEW outcome \in {"continued", "stopped"}, PauseEnds(outcome)
        PROVE  Logs /\ Flags
    <2>1. Flags
      BY <1>2 DEF PauseEnds
    <2>2. /\ log' = Append(log, outcome) /\ Len(log) < MaxStops
          /\ notices' \in Nat /\ told' = Len(log')
      BY <1>2 DEF PauseEnds, Tell
    <2> QED
      BY <2>1, <2>2
  <1>3. ASSUME NEW kind \in Kinds, KeepAliveStops(kind) \/ RecordStop(kind)
        PROVE  Logs /\ Flags
    <2>1. Flags
      BY <1>3 DEF KeepAliveStops, RecordStop
    <2>2. /\ log' = Append(log, kind) /\ Len(log) < MaxStops
          /\ notices' = notices /\ told' = told
      BY <1>3 DEF KeepAliveStops, RecordStop, MayStop
    <2> QED
      BY <2>1, <2>2
  <1>4. ASSUME RepairStop PROVE Logs /\ Flags
    <2>1. Flags
      BY <1>4 DEF RepairStop, source
    <2>2. /\ log' = Append(log, "retrying") /\ Len(log) < MaxStops
          /\ notices' = notices /\ told' = told
      BY <1>4 DEF RepairStop, MayStop, source
    <2>3. Logs
      BY <2>2
    <2> HIDE DEF Logs, Flags
    <2> QED
      BY <2>1, <2>3
  <1>5. ASSUME UNCHANGED log, notices' \in Nat, told' \in {told, Len(log)} PROVE Logs
    BY <1>5
  <1>6. ASSUME NEW w \in Watches, Admit(w) PROVE Logs /\ Flags
    <2>1. Flags
      BY <1>6 DEF Admit
    <2>2. UNCHANGED log /\ notices' \in Nat /\ told' \in {told, Len(log)}
      BY <1>6 DEF Admit, Tell
    <2>3. Logs
      BY <1>5, <2>2
    <2> HIDE DEF Logs, Flags
    <2> QED
      BY <2>1, <2>3
  <1>7. ASSUME Write \/ StopPause \/ Crash \/ ReleaseStop \/ Kick PROVE Logs /\ Flags
    <2>1. Flags
      BY <1>7 DEF Write, StopPause, Crash, ReleaseStop, Kick, source
    <2>2. UNCHANGED log /\ notices' \in Nat /\ told' \in {told, Len(log)}
      <3>1. CASE Write
        BY <3>1 DEF Write, Tell
      <3>2. CASE StopPause
        BY <3>2 DEF StopPause, Tell
      <3>3. CASE Crash
        BY <3>3 DEF Crash
      <3>4. CASE ReleaseStop
        BY <3>4 DEF ReleaseStop, Tell
      <3>5. CASE Kick
        BY <3>5 DEF Kick, source
      <3> QED
        BY <1>7, <3>1, <3>2, <3>3, <3>4, <3>5
    <2>3. Logs
      BY <1>5, <2>2
    <2> HIDE DEF Logs, Flags
    <2> QED
      BY <2>1, <2>3
  <1>8. ASSUME UNCHANGED <<log, notices, source>> PROVE Logs /\ Flags
    <2>1. halted' = halted /\ owed' = owed
      BY <1>8 DEF source
    <2>2. UNCHANGED log /\ notices' = notices /\ told' = told
      BY <1>8 DEF source
    <2>3. Logs
      BY <2>2
    <2>4. Flags
      BY <2>1
    <2> HIDE DEF Logs, Flags
    <2> QED
      BY <2>3, <2>4
  <1>9. ASSUME NEW w \in Watches, Drain(w), ~Admit(w)
        PROVE  UNCHANGED <<log, notices, source>>
    BY <1>9 DEF Drain, Insert, Begin, Look, LeaveBatch, Skip, Hold, Observe, Prepare, LookUp,
        LookUpFails, Refuse, Throw, Route, Join, Behind, InsertRow, NoteRow, Answered,
        Confirm, Decline, Settle
  <1>10. ASSUME NEW w \in Watches, Create(w) \/ CreateAgain(w) \/ Unwatch(w)
         PROVE  UNCHANGED <<log, notices, source>>
    BY <1>10 DEF Create, CreateAgain, Unwatch
  <1>11. ASSUME NEW op, NEW state, NEW flag,
                Dispatch \/ TargetStops(flag) \/ Resolve(op, state) \/ UNCHANGED vars
         PROVE  UNCHANGED <<log, notices, source>>
    BY <1>11 DEF Dispatch, TargetStops, Resolve, vars, source
  <1> HIDE DEF Logs, Flags
  <1>12. Logs /\ Flags
    BY <1>1, <1>2, <1>3, <1>4, <1>6, <1>7, <1>8, <1>9, <1>10, <1>11
    DEF Next, Source
  <1> QED
    BY <1>0, <1>12 DEF Logs, Flags

\* The rows of a watch move within their domains.
LEMMA RowsStep == ASSUME Inv, [Next]_vars PROVE TypeRows'
  <1> USE WatchAssumption DEF Inv, Types, TypeRows, TypeSource, TypeDrains
  <1>0. terms' = terms
    BY LogGrows
  <1>1. ASSUME UNCHANGED rows, UNCHANGED born PROVE TypeRows'
    BY <1>1 DEF rows
  <1>2. ASSUME NEW w \in Watches, Create(w) PROVE TypeRows'
    BY <1>2 DEF Create
  <1>3. ASSUME NEW w \in Watches, Insert(w) \/ Unwatch(w) PROVE TypeRows'
    BY <1>3 DEF Insert, Unwatch
  <1>4. ASSUME NEW w \in Watches, Skip(w) \/ Settle(w) PROVE TypeRows'
    <2>1. local[w].at \in 0..(MaxStops + 1)
      <3>1. local[w].at >= 1 /\ local[w].at <= local[w].upto /\ local[w].upto <= Len(log)
        BY <1>4 DEF Skip, Settle, AtStop, Standing, Stands, Busy
      <3>2. local[w] \in Local
        OBVIOUS
      <3> QED
        BY <3>1, <3>2 DEF Local
    <2>2. \/ cursor' = cursor
          \/ cursor' = [cursor EXCEPT ![w] = local[w].at]
      BY <1>4 DEF Skip, Settle, Advance
    <2>3. \/ pending' = pending
          \/ pending' = [pending EXCEPT ![w] = None]
      BY <1>4 DEF Skip, Settle, Advance
    <2>4. cursor' \in [Watches -> 0..(MaxStops + 1)]
      BY <2>1, <2>2
    <2>5. pending' \in [Watches -> Pending]
      <3>1. pending \in [Watches -> Pending]
        OBVIOUS
      <3> QED
        BY ONLY <2>3, <3>1, NoneIsPending
    <2>6. armed' \subseteq armed /\ UNCHANGED <<issued, born>>
      BY <1>4 DEF Skip, Settle
    <2> QED
      BY <1>0, <2>4, <2>5, <2>6
  <1>5. ASSUME NEW w \in Watches, Prepare(w) PROVE TypeRows'
    <2>1. local[w].at \in 1..(MaxStops + 1)
      <3>1. local[w].at >= 1 /\ local[w].at <= local[w].upto /\ local[w].upto <= Len(log)
        BY <1>5 DEF Prepare, AtStop, Standing, Stands, Busy
      <3>2. local[w] \in Local
        OBVIOUS
      <3> QED
        BY <3>1, <3>2 DEF Local
    <2>2. CASE UNCHANGED <<pending, issued>>
      BY <1>5, <2>2 DEF Prepare
    <2>3. CASE /\ Len(issued) < MaxOps
               /\ issued' = Append(issued, <<w, local[w].at>>)
               /\ pending' = [pending EXCEPT ![w] = [seq |-> local[w].at, op |-> Len(issued) + 1]]
      <3>1. [seq |-> local[w].at, op |-> Len(issued) + 1] \in Pending
        BY <2>1, <2>3 DEF Pending
      <3>2. pending' \in [Watches -> Pending]
        BY <2>3, <3>1
      <3>3. /\ issued' \in Seq(Watches \X (1..(MaxStops + 1)))
            /\ Len(issued') <= MaxOps
        BY <2>1, <2>3
      <3> QED
        BY <1>5, <3>2, <3>3 DEF Prepare
    <2> QED
      BY <1>5, <2>2, <2>3 DEF Prepare
  <1>6. ASSUME NEW w \in Watches, Drain(w)
        PROVE  Insert(w) \/ Skip(w) \/ Settle(w) \/ Prepare(w) \/ UNCHANGED <<rows, born>>
    BY <1>6
    DEF Drain, rows, Begin, Look, LeaveBatch, Hold, Observe, LookUp, LookUpFails, Refuse, Throw,
        Route, Join, Behind, InsertRow, NoteRow, Admit, Answered, Confirm, Decline
  <1>7. ASSUME Source PROVE UNCHANGED <<rows, born>>
    BY <1>7, SourceStays DEF rows
  <1> HIDE DEF TypeRows
  <1> QED
    BY <1>1, <1>2, <1>3, <1>4, <1>5, <1>6, <1>7
    DEF Next, vars, rows, Kick, CreateAgain, Dispatch, Write, StopPause, TargetStops, Resolve,
        Crash

\* Where a drain is may be changed to any label.
LEMMA DrainsStep == ASSUME Inv, [Next]_vars PROVE TypeDrains'
  <1> USE WatchAssumption DEF Inv, Types, TypeDrains
  <1> DEFINE Labels == {"new", "creating", "idle", "loop", "stop", "send", "route",
                        "join", "admit", "insert", "note", "answer", "settle"}
  <1>1. drains' \in [Watches -> 0..MaxWaiting]
    <2>1. ASSUME NEW ws, Kicked(ws) PROVE drains' \in [Watches -> 0..MaxWaiting]
      BY <2>1 DEF Kicked, MaxWaiting
    <2>2. ASSUME NEW w \in Watches, Begin(w) PROVE drains' \in [Watches -> 0..MaxWaiting]
      BY <2>2 DEF Begin, MaxWaiting
    <2>3. CASE Crash
      BY <2>3 DEF Crash, MaxWaiting
    <2>4. ASSUME NEW w \in Watches, Drain(w)
          PROVE  Kicked({w}) \/ Begin(w) \/ UNCHANGED drains
      BY <2>4
      DEF Drain, Insert, Look, LeaveBatch, Skip, Hold, Observe, Prepare, LookUp, LookUpFails,
          Refuse, Throw, Route, Join, Behind, InsertRow, NoteRow, Admit, Answered, Confirm,
          Decline, Settle
    <2> QED
      BY <2>1, <2>2, <2>3, <2>4, SourceStays
      DEF Next, vars, run, Kick, Create, CreateAgain, Unwatch, Dispatch, Write, StopPause,
          TargetStops, Resolve
  <1>2. failed' \subseteq Watches
    <2>1. ASSUME NEW w \in Watches, Drain(w) PROVE failed' \subseteq failed \cup {w}
      BY <2>1
      DEF Drain, Insert, Begin, Look, LeaveBatch, Skip, Hold, Observe, Prepare, LookUp,
          LookUpFails, Refuse, Throw, Route, Join, Behind, InsertRow, NoteRow, Admit, Answered,
          Confirm, Decline, Settle
    <2>2. failed' \subseteq failed \/ \E w \in Watches : Drain(w)
      BY SourceStays DEF Next, vars, run, Kick, Create, CreateAgain, Unwatch, Dispatch, Write,
             StopPause, TargetStops, Resolve, Crash
    <2> QED
      BY <2>1, <2>2
  <1>3. pc' \in [Watches -> Labels]
    <2>1. ASSUME NEW w \in Watches, NEW label \in Labels, pc' = [pc EXCEPT ![w] = label]
          PROVE  pc' \in [Watches -> Labels]
      BY <2>1
    <2>2. CASE Crash
      BY <2>2 DEF Crash
    <2>3. CASE UNCHANGED pc
      BY <2>3
    <2>4. ASSUME NEW w \in Watches, Create(w) \/ Insert(w) \/ Drain(w)
          PROVE  \/ UNCHANGED pc
                 \/ \E label \in Labels : pc' = [pc EXCEPT ![w] = label]
      BY <2>4 DEF GoTo, Create, Drain, Insert, Begin, Look, LeaveBatch, Skip, Hold, Observe,
             Prepare, LookUp, LookUpFails, Refuse, Throw, Route, Join, Behind, InsertRow, NoteRow,
             Admit, Confirm, Decline, Settle
    <2> QED
      BY <2>1, <2>2, <2>3, <2>4, SourceStays
      DEF Next, vars, run, Kick, CreateAgain,
          Unwatch, Dispatch, Write, StopPause, TargetStops, Resolve
  <1>4. local' \in [Watches -> Local]
    <2>1. ASSUME NEW w \in Watches, Look(w) PROVE local' \in [Watches -> Local]
      <3>1. /\ cursor[w] \in 0..(MaxStops + 1) /\ Len(log) \in 0..(MaxStops + 1)
            /\ Limit \in Nat /\ paused \in BOOLEAN /\ MaxStops \in Nat
        BY DEF TypeRows, TypeSource, TypeTarget
      <3> DEFINE upto == IF Len(log) - cursor[w] < Limit THEN Len(log) ELSE cursor[w] + Limit
      <3> DEFINE full == Len(log) - cursor[w] >= Limit
      <3>2. cursor[w] + 1 \in 0..(MaxStops + 2) /\ upto \in 0..(MaxStops + 1)
        BY <3>1
      <3>3. full \in BOOLEAN
        BY <3>1
      <3>4. \/ UNCHANGED local
            \/ local' = [local EXCEPT ![w] = [held |-> paused, at |-> cursor[w] + 1,
                                              upto |-> upto, full |-> full]]
        BY <2>1 DEF Look
      <3>5. [held |-> paused, at |-> cursor[w] + 1, upto |-> upto, full |-> full] \in Local
        <4> HIDE DEF upto, full
        <4> QED
          BY <3>1, <3>2, <3>3 DEF Local
      <3>6. local \in [Watches -> Local]
        OBVIOUS
      <3> HIDE DEF upto, full
      <3> QED
        BY ONLY <3>4, <3>5, <3>6
    <2>2. ASSUME NEW w \in Watches, Skip(w) \/ Settle(w) PROVE local' \in [Watches -> Local]
      <3>1. local[w].at + 1 \in 0..(MaxStops + 2)
        <4>1. local[w].at >= 1 /\ local[w].at <= local[w].upto
          BY <2>2 DEF Skip, Settle, AtStop, Standing, Stands, Busy
        <4>2. local[w].at \in Nat /\ local[w].upto \in 0..(MaxStops + 1)
          BY DEF Local
        <4> QED
          BY <4>1, <4>2
      <3>2. UNCHANGED local \/ local' = [local EXCEPT ![w].at = local[w].at + 1]
        BY <2>2 DEF Skip, Settle, NextStop
      <3>3. local \in [Watches -> Local]
        OBVIOUS
      <3> QED
        BY ONLY <3>1, <3>2, <3>3 DEF Local
    <2>3. CASE UNCHANGED local
      BY <2>3
    <2>4. ASSUME NEW w \in Watches, Drain(w)
          PROVE  Look(w) \/ Skip(w) \/ Settle(w) \/ UNCHANGED local
      BY <2>4
      DEF Drain, Insert, Begin, LeaveBatch, Hold, Observe, Prepare, LookUp, LookUpFails,
          Refuse, Throw, Route, Join, Behind, InsertRow, NoteRow, Admit, Answered, Confirm,
          Decline
    <2>5. UNCHANGED local \/ \E w \in Watches : Drain(w)
      BY SourceStays DEF Next, vars, run, Kick, Create, CreateAgain, Unwatch, Dispatch, Write,
             StopPause, TargetStops, Resolve, Crash
    <2> QED
      BY <2>1, <2>2, <2>3, <2>4, <2>5
  <1> QED
    BY <1>1, <1>2, <1>3, <1>4

\* A wake that is on its way has an id.
LEMMA SendingHasId ==
  ASSUME Inv, NEW w \in Watches, pc[w] \in Busy, terms[w].delivery = "wake"
  PROVE  /\ Op(w) \in Ops /\ Op(w) \in 1..Len(issued)
         /\ issued[Op(w)] = <<w, pending[w].seq>>
         /\ pending[w].seq = cursor[w] + 1 /\ local[w].at = cursor[w] + 1
         /\ local[w].at \in 1..Len(log)
  <1> USE WatchAssumption DEF Inv, Types, TypeRows, TypeDrains, TypeSource
  <1>1. Op(w) \in 1..Len(issued) /\ issued[Op(w)] = <<w, pending[w].seq>>
    BY DEF Issuing, Issues, Op
  <1>2. Alive(w)
    BY DEF Alive
  <1>3. pending[w].seq = cursor[w] + 1 /\ local[w].at = cursor[w] + 1
    BY <1>1, <1>2 DEF Issuing, Issues, Standing, Stands, Op
  <1>4. local[w].at \in 1..Len(log)
    BY DEF Standing, Stands, Local
  <1>5. Op(w) \in Ops
    BY <1>1 DEF Ops
  <1> QED
    BY <1>1, <1>3, <1>4, <1>5

\* The messages of the target: one is queued, admitted, or moves from the head
\* of the queue.
Queues(w) ==
    /\ InsertRow(w) /\ Op(w) \notin Values(queue)
    /\ queue' = Append(queue, Op(w)) /\ UNCHANGED admitted

\* Nothing else touches them.
LEMMA MessagesMove ==
  ASSUME Inv, [Next]_vars
  PROVE  \/ UNCHANGED <<admitted, queue>>
         \/ \E w \in Watches : Queues(w)
         \/ \E w \in Watches : Admit(w)
         \/ Dispatch
  <1>1. ASSUME NEW w \in Watches, InsertRow(w)
        PROVE  UNCHANGED <<admitted, queue>> \/ Queues(w)
    BY <1>1 DEF InsertRow, Queues
  <1>2. ASSUME NEW w \in Watches, Drain(w)
        PROVE  UNCHANGED <<admitted, queue>> \/ InsertRow(w) \/ Admit(w)
    BY <1>2
    DEF Drain, target, Insert, Begin, Look, LeaveBatch, Skip, Hold, Observe, Prepare, LookUp,
        LookUpFails, Refuse, Throw, Route, Join, Behind, NoteRow, Answered, Confirm, Decline,
        Settle
  <1>3. \/ UNCHANGED <<admitted, queue>>
        \/ \E w \in Watches : Drain(w)
        \/ Dispatch
    BY SourceStays DEF Next, vars, target, Kick, Create, CreateAgain,
           Unwatch, Write, StopPause, TargetStops, Resolve, Crash
  <1> QED
    BY <1>1, <1>2, <1>3

\* Nothing is untold, and what is told is the id of a drain that sends.
LEMMA Telling ==
  ASSUME Inv, [Next]_vars
  PROVE  /\ queue' \in Seq(Ops) /\ admitted' \in Seq(Ops) /\ QueueDiffers'
         /\ Told \subseteq Told'
         /\ \/ Told' = Told
            \/ \E w \in Watches : /\ Queues(w) \/ Admit(w)
                                  /\ Told' = Told \cup {Op(w)}
  <1> USE DEF Inv, Types, TypeTarget
  <1> DEFINE Goal == /\ queue' \in Seq(Ops) /\ admitted' \in Seq(Ops) /\ QueueDiffers'
                     /\ Told \subseteq Told'
                     /\ \/ Told' = Told
                        \/ \E w \in Watches : /\ Queues(w) \/ Admit(w)
                                              /\ Told' = Told \cup {Op(w)}
  <1>1. CASE UNCHANGED <<admitted, queue>>
    BY <1>1 DEF QueueDiffers, Told, Values
  <1>2. ASSUME NEW w \in Watches, Queues(w) PROVE Goal
    <2>1. Op(w) \in Ops
      BY <1>2, SendingHasId DEF Queues, InsertRow, Standing, Stands, Busy
    <2>2. /\ queue' = Append(queue, Op(w)) /\ admitted' = admitted
          /\ Op(w) \notin Values(queue)
      BY <1>2 DEF Queues
    <2>3. Values(queue') = Values(queue) \cup {Op(w)} /\ Values(admitted') = Values(admitted)
      BY <2>1, <2>2, AppendValues
    <2>4. QueueDiffers'
      BY <2>1, <2>2 DEF QueueDiffers, Values
    <2>5. queue' \in Seq(Ops) /\ admitted' \in Seq(Ops)
      BY <2>1, <2>2
    <2>6. Told' = Told \cup {Op(w)}
      BY <2>3 DEF Told
    <2> QED
      BY <1>2, <2>4, <2>5, <2>6
  <1>3. ASSUME NEW w \in Watches, Admit(w) PROVE Goal
    <2>1. Op(w) \in Ops
      BY <1>3, SendingHasId DEF Admit, Standing, Stands, Busy
    <2>2. admitted' = Append(admitted, Op(w)) /\ queue' = queue
      BY <1>3 DEF Admit
    <2>3. Values(admitted') = Values(admitted) \cup {Op(w)} /\ Values(queue') = Values(queue)
      BY <2>1, <2>2, AppendValues
    <2>4. QueueDiffers'
      BY <2>2 DEF QueueDiffers
    <2>5. queue' \in Seq(Ops) /\ admitted' \in Seq(Ops)
      BY <2>1, <2>2
    <2>6. Told' = Told \cup {Op(w)}
      BY <2>3 DEF Told
    <2> QED
      BY <1>3, <2>4, <2>5, <2>6
  <1>4. CASE Dispatch
    <2>1. queue # <<>> /\ queue' = Tail(queue) /\ admitted' = Append(admitted, Head(queue))
      BY <1>4 DEF Dispatch
    <2>2. /\ Values(queue) = {Head(queue)} \cup Values(Tail(queue))
          /\ Head(queue) \in Ops /\ Tail(queue) \in Seq(Ops)
          /\ Len(Tail(queue)) = Len(queue) - 1
          /\ \A i \in 1..Len(Tail(queue)) : Tail(queue)[i] = queue[i + 1]
      BY <2>1, TailValues
    <2>3. Values(admitted') = Values(admitted) \cup {Head(queue)}
      BY <2>1, <2>2, AppendValues
    <2>4. QueueDiffers'
      <3> SUFFICES ASSUME NEW i \in 1..Len(queue'), NEW j \in 1..Len(queue'),
                          queue'[i] = queue'[j]
                   PROVE  i = j
        BY DEF QueueDiffers
      <3>1. i + 1 \in 1..Len(queue) /\ j + 1 \in 1..Len(queue)
        BY <2>1, <2>2
      <3>2. queue[i + 1] = queue[j + 1]
        BY <2>1, <2>2
      <3> QED
        BY <3>1, <3>2 DEF QueueDiffers
    <2>5. queue' \in Seq(Ops) /\ admitted' \in Seq(Ops)
      BY <2>1, <2>2
    <2>6. Told' = Told
      BY <2>1, <2>2, <2>3 DEF Told
    <2> QED
      BY <2>4, <2>5, <2>6
  <1> QED
    BY <1>1, <1>2, <1>3, <1>4, MessagesMove

\* An observation adds what its drain stands for, when it is not there.
LEMMA Firing ==
  ASSUME Inv, [Next]_vars
  PROVE  /\ fired' \in Seq(Watches \X (1..(MaxStops + 1)))
         /\ Values(fired) \subseteq Values(fired')
         /\ \/ UNCHANGED fired
            \/ \E w \in Watches :
                 /\ Observe(w) /\ <<w, local[w].at>> \notin Values(fired)
                 /\ fired' = Append(fired, <<w, local[w].at>>)
  <1> USE WatchAssumption DEF Inv, Types, TypeTarget
  <1>1. CASE UNCHANGED fired
    BY <1>1 DEF Values
  <1>2. ASSUME NEW w \in Watches, Observe(w), ~UNCHANGED fired
        PROVE  /\ <<w, local[w].at>> \in Watches \X (1..(MaxStops + 1))
               /\ <<w, local[w].at>> \notin Values(fired)
               /\ fired' = Append(fired, <<w, local[w].at>>)
    <2>1. /\ <<w, local[w].at>> \notin Values(fired)
          /\ fired' = Append(fired, <<w, local[w].at>>)
      BY <1>2 DEF Observe
    <2>2. local[w].at >= 1 /\ local[w].at <= local[w].upto
      BY <1>2 DEF Observe, AtStop, Standing, Stands
    <2>3. local[w].at \in 1..(MaxStops + 1)
      BY <2>2 DEF TypeDrains, Local
    <2> QED
      BY <2>1, <2>3
  <1>3. ASSUME NEW w \in Watches, Observe(w), ~UNCHANGED fired
        PROVE  /\ fired' \in Seq(Watches \X (1..(MaxStops + 1)))
               /\ Values(fired) \subseteq Values(fired')
    <2> DEFINE S == Watches \X (1..(MaxStops + 1))
    <2>1. <<w, local[w].at>> \in S /\ fired' = Append(fired, <<w, local[w].at>>)
      BY <1>2, <1>3
    <2>2. fired \in Seq(S)
      OBVIOUS
    <2> HIDE DEF S
    <2>3. fired' \in Seq(S)
      BY ONLY <2>1, <2>2, AppendProperties
    <2>4. Values(fired) \subseteq Values(fired')
      BY ONLY <2>1, <2>2, AppendValues
    <2> QED
      BY <2>3, <2>4 DEF S
  <1>4. UNCHANGED fired \/ \E w \in Watches : Observe(w)
    BY WhoMoves
  <1> QED
    BY <1>1, <1>2, <1>3, <1>4

\* The target's state moves within its domains.
LEMMA TargetStep == ASSUME Inv, [Next]_vars PROVE TypeTarget'
  <1> USE WatchAssumption DEF Inv, Types, TypeTarget
  <1> DEFINE States == {"none", "executing", "confirmed", "unknown", "rejected"}
  <1>1. /\ queue' \in Seq(Ops) /\ admitted' \in Seq(Ops)
        /\ fired' \in Seq(Watches \X (1..(MaxStops + 1)))
    BY Telling, Firing
  <1>2. operation' \in [Ops -> States]
    <2>1. ASSUME NEW op, NEW state \in States, operation' = [operation EXCEPT ![op] = state]
          PROVE  operation' \in [Ops -> States]
      BY <2>1
    <2>2. CASE Crash
      BY <2>2 DEF Crash
    <2>3. CASE UNCHANGED operation
      BY <2>3
    <2>4. ASSUME NEW w \in Watches, Drain(w)
          PROVE  \/ UNCHANGED operation
                 \/ \E op : \E state \in States : operation' = [operation EXCEPT ![op] = state]
      <3>1. CASE Admit(w)
        BY <3>1 DEF Admit
      <3>2. CASE Confirm(w)
        BY <3>2 DEF Confirm, Answered
      <3>3. CASE Decline(w)
        BY <3>3 DEF Decline, Answered
      <3> QED
        BY <2>4, <3>1, <3>2, <3>3
        DEF Drain, target, Insert, Begin, Look, LeaveBatch, Skip, Hold, Observe, Prepare, LookUp,
            LookUpFails, Refuse, Throw, Route, Join, Behind, InsertRow, NoteRow, Settle
    <2>5. ASSUME NEW op \in Ops, NEW state \in {"confirmed", "rejected"}, Resolve(op, state)
          PROVE  operation' \in [Ops -> States]
      <3>1. operation' = [operation EXCEPT ![op] = state]
        BY <2>5 DEF Resolve
      <3>2. state \in States
        OBVIOUS
      <3> QED
        BY <2>1, <3>1, <3>2
    <2>6. ASSUME NEW w \in Watches, Drain(w) PROVE operation' \in [Ops -> States]
      BY <2>1, <2>3, <2>4, <2>6
    <2>7. \/ UNCHANGED operation
          \/ \E w \in Watches : Drain(w)
          \/ \E op \in Ops : \E state \in {"confirmed", "rejected"} : Resolve(op, state)
          \/ Crash
      BY SourceStays DEF Next, vars, target, Kick, Create, CreateAgain,
             Unwatch, Write, StopPause, TargetStops, Dispatch
    <2> QED
      BY <2>2, <2>3, <2>5, <2>6, <2>7
  <1>3. enqueued' \subseteq Ops
    <2>1. ASSUME NEW w \in Watches, NoteRow(w) PROVE enqueued' \subseteq Ops
      BY <2>1, SendingHasId DEF NoteRow, Standing, Stands, Busy
    <2>2. UNCHANGED enqueued \/ \E w \in Watches : NoteRow(w)
      BY WhoMoves
    <2> QED
      BY <2>1, <2>2
  <1>4. crashes' \in 0..MaxCrashes /\ cut' \subseteq Ops
    <2>1. CASE Crash
      <3>1. ASSUME NEW w \in Watches, Torn(w) PROVE Op(w) \in Ops
        <4>1. pc[w] \in Busy /\ terms[w].delivery = "wake"
          BY <3>1 DEF Torn, Standing, Stands, Busy
        <4> QED
          BY <4>1, SendingHasId
      <3> QED
        BY <2>1, <3>1 DEF Crash, TypeRows
    <2>2. UNCHANGED <<crashes, cut>> \/ Crash
      BY WhoMoves
    <2> QED
      BY <2>1, <2>2
  <1>5. paused' \in BOOLEAN /\ active' \in BOOLEAN
    <2>1. CASE UNCHANGED <<paused, active>>
      BY <2>1
    <2>2. ASSUME NEW w \in Watches, Drain(w)
          PROVE  paused' \in {paused, FALSE} /\ (active' \in {active, TRUE} \/ active' = FALSE)
      <3>1. CASE Confirm(w) \/ Decline(w)
        BY <3>1 DEF Confirm, Decline, Answered
      <3> QED
        BY <2>2, <3>1
        DEF Drain, target, Insert, Begin, Look, LeaveBatch, Skip, Hold, Observe, Prepare, LookUp,
            LookUpFails, Refuse, Throw, Route, Join, Behind, InsertRow, NoteRow, Settle, Admit
    <2>3. CASE Dispatch \/ Write \/ StopPause \/ Crash
      BY <2>3 DEF Dispatch, Write, StopPause, Crash
    <2>4. ASSUME NEW pausing \in BOOLEAN, TargetStops(pausing)
          PROVE  paused' \in BOOLEAN /\ active' \in BOOLEAN
      BY <2>4 DEF TargetStops
    <2>5. UNCHANGED <<paused, active>> \/ (\E w \in Watches : Drain(w)) \/ Dispatch
          \/ Write \/ StopPause \/ Crash \/ \E pausing \in BOOLEAN : TargetStops(pausing)
      BY SourceStays DEF Next, vars, target, Kick, Create, CreateAgain, Unwatch, Resolve
    <2> QED
      BY <2>1, <2>2, <2>3, <2>4, <2>5
  <1>6. pauses' \in 0..MaxPauses
    <2>1. ASSUME NEW pausing \in BOOLEAN, TargetStops(pausing) PROVE pauses' \in 0..MaxPauses
      BY <2>1 DEF TargetStops
    <2>2. UNCHANGED pauses \/ \E pausing \in BOOLEAN : TargetStops(pausing)
      BY WhoMoves
    <2> QED
      BY <2>1, <2>2
  <1> QED
    BY <1>1, <1>2, <1>3, <1>4, <1>5, <1>6

\* Steps of a drain that touch neither its row nor its place in the log: those
\* on the way of a wake, those that end the pass, and those of others.
Sends(w) ==
    /\ Drain(w)
    /\ pc[w] \in Busy \ {"settle"} /\ pc'[w] \in Busy
    /\ UNCHANGED <<armed, cursor, pending, local, issued>>

Leaves(w) ==
    /\ Drain(w)
    /\ pc[w] \notin Unborn /\ pc'[w] \in {"idle", "loop"}
    /\ UNCHANGED <<armed, cursor, pending, local, issued>>

Stays(w) ==
    /\ pc'[w] = pc[w] /\ (w \in armed' <=> w \in armed)
    /\ cursor'[w] = cursor[w] /\ pending'[w] = pending[w] /\ local'[w] = local[w]

\* The steps of a drain.
LEMMA DrainMoves ==
  ASSUME Inv, NEW w \in Watches, Drain(w)
  PROVE  \/ Insert(w) \/ Look(w) \/ Skip(w) \/ Observe(w) \/ Prepare(w) \/ Settle(w)
         \/ Sends(w) \/ Leaves(w)
  <1> USE DEF Inv, Types, TypeDrains, GoTo, Busy, Unborn
  <1>1. CASE LookUp(w) \/ Route(w) \/ Join(w) \/ Behind(w)
    BY <1>1 DEF LookUp, Route, Join, Behind, rows, Sends
  <1>2. CASE InsertRow(w) \/ NoteRow(w)
    BY <1>2 DEF InsertRow, NoteRow, rows, Sends
  <1>3. CASE Admit(w) \/ Confirm(w)
    BY <1>3 DEF Admit, Confirm, Answered, rows, Sends
  <1>4. CASE Begin(w) \/ LeaveBatch(w) \/ Hold(w)
    BY <1>4 DEF Begin, LeaveBatch, Hold, AtStop, rows, Leaves
  <1>5. CASE LookUpFails(w) \/ Refuse(w)
    BY <1>5 DEF LookUpFails, Refuse, Throw, rows, Leaves
  <1>6. CASE Decline(w)
    BY <1>6 DEF Decline, Answered, rows, Leaves
  <1> QED
    BY <1>1, <1>2, <1>3, <1>4, <1>5, <1>6 DEF Drain

\* A drain of another watch leaves this one alone.
LEMMA OthersStay ==
  ASSUME Inv, NEW v \in Watches, NEW w \in Watches, v # w, Drain(v) \/ Create(v) \/ Unwatch(v)
  PROVE  Stays(w)
  <1> USE DEF Inv, Types, TypeDrains, TypeRows, Stays
  <1>1. CASE Drain(v)
    <2>1. CASE Insert(v)
      BY <2>1 DEF Insert
    <2>2. CASE Look(v)
      BY <2>2 DEF Look, GoTo, rows
    <2>3. CASE Skip(v)
      BY <2>3 DEF Skip, Advance, NextStop
    <2>4. CASE Observe(v)
      BY <2>4 DEF Observe, GoTo, rows
    <2>5. CASE Prepare(v)
      BY <2>5 DEF Prepare, GoTo
    <2>6. CASE Settle(v)
      BY <2>6 DEF Settle, Advance, NextStop, GoTo
    <2>7. ASSUME \/ pc' = pc
                 \/ \E label : pc' = [pc EXCEPT ![v] = label],
                 UNCHANGED <<armed, cursor, pending, local>>
          PROVE  Stays(w)
      BY <2>7
    <2>8. ASSUME Sends(v) \/ Leaves(v) PROVE \E label : pc' = [pc EXCEPT ![v] = label]
      <3>1. CASE Confirm(v) \/ Decline(v)
        BY <3>1 DEF GoTo, Confirm, Decline
      <3>2. CASE InsertRow(v) \/ NoteRow(v) \/ Admit(v) \/ LeaveBatch(v)
        BY <3>2 DEF InsertRow, NoteRow, Admit, GoTo, LeaveBatch
      <3> QED
        BY <1>1, <2>1, <2>2, <2>3, <2>4, <2>5, <2>6, <2>8, <3>1, <3>2
        DEF Drain, GoTo, Begin, Hold, LookUp, LookUpFails, Refuse, Throw, Route,
            Join, Behind, Sends, Leaves, Insert, Look, Skip, Observe, Prepare, Settle, AtStop
    <2> QED
      BY <1>1, <2>1, <2>2, <2>3, <2>4, <2>5, <2>6, <2>7, <2>8, DrainMoves DEF Sends, Leaves
  <1>2. CASE Create(v)
    BY <1>2 DEF Create
  <1>3. CASE Unwatch(v)
    BY <1>3 DEF Unwatch, run
  <1> QED
    BY <1>1, <1>2, <1>3

\* What may happen to a watch.
LEMMA WatchMoves ==
  ASSUME Inv, [Next]_vars, NEW w \in Watches
  PROVE  \/ Insert(w) \/ Look(w) \/ Skip(w) \/ Observe(w) \/ Prepare(w) \/ Settle(w)
         \/ Sends(w) \/ Leaves(w) \/ Create(w) \/ Unwatch(w) \/ Crash \/ Stays(w)
  <1>1. ASSUME NEW v \in Watches, CreateAgain(v) PROVE Stays(w)
    BY <1>1 DEF CreateAgain, rows, Stays
  <1>2. CASE Dispatch \/ Write \/ StopPause \/ Kick \/ UNCHANGED vars
    BY <1>2 DEF Dispatch, Write, StopPause, Kick, vars, rows, run, Stays
  <1>3. ASSUME NEW kind, NEW op, NEW flag,
               TargetStops(flag) \/ Resolve(op, kind)
        PROVE  Stays(w)
    BY <1>3 DEF TargetStops, Resolve, rows, run, Stays
  <1>4. CASE Source
    BY <1>4, SourceStays DEF Stays
  <1> QED
    BY <1>1, <1>2, <1>3, <1>4, OthersStay, DrainMoves DEF Next

\* What a watch asked for of a stop is settled when the stop is in the log.
LEMMA ReportableStays ==
  ASSUME Inv, [Next]_vars, NEW w \in Watches, NEW seq \in 1..Len(log)
  PROVE  (Reportable(w, seq))' <=> Reportable(w, seq)
  <1>1. log'[seq] = log[seq] /\ terms' = terms
    BY LogGrows
  <1> QED
    BY <1>1 DEF Reportable, Reason, Wants

\* An id is made up by a drain that reaches a stop without one.
LEMMA IssuedGrows ==
  ASSUME Inv, [Next]_vars
  PROVE  /\ Len(issued) <= Len(issued') /\ \A k \in 1..Len(issued) : issued'[k] = issued[k]
         /\ \/ UNCHANGED issued
            \/ \E w \in Watches :
                 /\ Prepare(w) /\ ~HasId(w)
                 /\ issued' = Append(issued, <<w, local[w].at>>)
                 /\ Len(issued') = Len(issued) + 1
                 /\ issued'[Len(issued) + 1] = <<w, local[w].at>>
  <1> USE DEF Inv, Types, TypeRows
  <1>1. CASE UNCHANGED issued
    BY <1>1
  <1>2. ASSUME NEW w \in Watches, Prepare(w), ~UNCHANGED issued
        PROVE  /\ ~HasId(w)
               /\ issued' = Append(issued, <<w, local[w].at>>)
               /\ Len(issued') = Len(issued) + 1
               /\ issued'[Len(issued) + 1] = <<w, local[w].at>>
               /\ \A k \in 1..Len(issued) : issued'[k] = issued[k]
    <2>1. ~HasId(w) /\ issued' = Append(issued, <<w, local[w].at>>)
      BY <1>2 DEF Prepare
    <2>2. <<w, local[w].at>> \in Watches \X (1..(MaxStops + 1))
      <3>1. local[w].at >= 1 /\ local[w].at <= local[w].upto
        BY <1>2 DEF Prepare, AtStop, Standing, Stands
      <3>2. local[w].at \in 1..(MaxStops + 1)
        BY <3>1, WatchAssumption DEF TypeDrains, Local
      <3> QED
        BY <3>2
    <2>3. issued \in Seq(Watches \X (1..(MaxStops + 1)))
      OBVIOUS
    <2> QED
      BY ONLY <2>1, <2>2, <2>3, AppendProperties
  <1>3. UNCHANGED issued \/ \E w \in Watches : Prepare(w)
    BY WhoMoves
  <1>4. ASSUME NEW w \in Watches, Prepare(w), ~UNCHANGED issued
        PROVE  Len(issued) <= Len(issued')
    <2>1. Len(issued) \in Nat /\ Len(issued') = Len(issued) + 1
      BY <1>2, <1>4
    <2> QED
      BY <2>1
  <1> QED
    BY <1>1, <1>2, <1>3, <1>4

\* A stop that was reported stays reported.
LEMMA ReportedStays ==
  ASSUME Inv, [Next]_vars, NEW w \in Watches, NEW seq, Reported(w, seq)
  PROVE  (Reported(w, seq))'
  <1>1. Told \subseteq Told' /\ Values(fired) \subseteq Values(fired')
    BY Telling, Firing
  <1>2. \A op \in Told : issued'[op] = issued[op]
    BY IssuedGrows DEF Inv, Remembering
  <1> QED
    BY <1>1, <1>2 DEF Reported, Told

\* The id of a drain that sends stands for the stop it is at.
LEMMA TellsItsStop ==
  ASSUME Inv, NEW w \in Watches, pc[w] \in Busy, terms[w].delivery = "wake", Op(w) \in Told
  PROVE  Reported(w, local[w].at)
  BY SendingHasId DEF Reported, Told

\* A drain follows the log.
LEMMA StandingStep == ASSUME Inv, [Next]_vars PROVE Standing'
  <1> SUFFICES ASSUME NEW w \in Watches PROVE Stands(w)'
    BY DEF Standing
  <1>0. Stands(w) /\ Issues(w)
    BY DEF Inv, Standing, Issuing
  <1>1. /\ Len(log) \in Nat /\ Len(log') \in Nat /\ Len(log) <= Len(log')
        /\ terms' = terms /\ cursor[w] \in Nat
        /\ local[w].at \in Nat /\ local[w].upto \in Nat
        /\ \A seq \in 1..Len(log) : (Reportable(w, seq))' <=> Reportable(w, seq)
    <2>1. cursor[w] \in Nat /\ local[w].at \in Nat /\ local[w].upto \in Nat
      BY DEF Inv, Types, TypeRows, TypeDrains, Local
    <2>2. Len(log) \in Nat /\ Len(log') \in Nat
      BY LogGrows DEF Inv, Types, TypeSource
    <2> QED
      BY <2>1, <2>2, LogGrows, ReportableStays
  <1>2. pc \in [Watches -> {"new", "creating", "idle", "loop", "stop", "send", "route",
                           "join", "admit", "insert", "note", "answer", "settle"}]
        /\ cursor \in [Watches -> 0..(MaxStops + 1)] /\ pending \in [Watches -> Pending]
        /\ local \in [Watches -> Local] /\ MaxStops \in Nat
    BY WatchAssumption DEF Inv, Types, TypeRows, TypeDrains
  <1> USE DEF Stands, Unborn, Busy, Alive
  <1>3. CASE Stays(w)
    BY <1>0, <1>1, <1>3 DEF Stays
  <1>4. CASE Sends(w)
    BY <1>0, <1>1, <1>4 DEF Sends
  <1>5. CASE Leaves(w)
    BY <1>0, <1>1, <1>5 DEF Leaves
  <1>6. CASE Insert(w)
    <2>1. pc'[w] = "idle" /\ UNCHANGED <<cursor, pending, local>>
      BY <1>2, <1>6 DEF Insert
    <2> QED
      BY <1>0, <1>1, <2>1
  <1>7. CASE Look(w)
    <2>1. UNCHANGED <<armed, cursor, pending>>
      BY <1>7 DEF Look, rows
    <2>2. CASE pc'[w] = "idle"
      BY <1>0, <1>1, <2>1, <2>2
    <2>3. ASSUME pc'[w] # "idle"
          PROVE  /\ pc'[w] = "stop" /\ local'[w].at = cursor[w] + 1
                 /\ local'[w].upto = IF Len(log) - cursor[w] < Limit THEN Len(log)
                                     ELSE cursor[w] + Limit
      BY <1>2, <1>7, <2>3 DEF Look, GoTo
    <2>4. CASE pc'[w] # "idle"
      <3>1. local'[w].upto <= Len(log)
        <4> DEFINE upto == local'[w].upto
                   size == Len(log)
                   from == cursor[w]
        <4>1. /\ upto = IF size - from < Limit THEN size ELSE from + Limit
              /\ size \in Nat /\ from \in Nat /\ Limit \in Nat
          BY <1>1, <2>3, <2>4, WatchAssumption
        <4> HIDE DEF upto, size, from
        <4>2. upto <= size
          BY ONLY <4>1
        <4> QED
          BY <4>2 DEF upto, size
      <3>2. pc'[w] = "stop" /\ local'[w].at = cursor[w] + 1
        BY <2>3, <2>4
      <3>3. local'[w].upto \in Nat
        BY DrainsStep DEF TypeDrains, Local
      <3>4. cursor'[w] = cursor[w] /\ local'[w].upto <= Len(log') /\ cursor[w] <= Len(log')
        BY <1>0, <1>1, <2>1, <3>1, <3>3
      <3> QED
        BY <1>1, <3>2, <3>4
    <2> QED
      BY <2>2, <2>4
  <1>8. CASE Skip(w)
    <2>1. /\ pc'[w] = "stop" /\ w \in armed /\ UNCHANGED armed
          /\ cursor'[w] = local[w].at
          /\ local[w].at <= local[w].upto
      BY <1>2, <1>8 DEF Skip, AtStop, Advance
    <2>2. local'[w].at = local[w].at + 1 /\ local'[w].upto = local[w].upto
      BY <1>2, <1>8 DEF Skip, NextStop, Local
    <2>3. local[w].upto <= Len(log)
      BY <1>0, <1>8 DEF Skip, AtStop
    <2> QED
      BY <1>0, <1>1, <2>1, <2>2, <2>3
  <1>9. CASE Observe(w) \/ Prepare(w)
    <2>1. /\ pc[w] = "stop" /\ w \in armed /\ local[w].at <= local[w].upto
          /\ Reportable(w, local[w].at)
          /\ UNCHANGED <<armed, cursor, local>>
          /\ \/ pc'[w] = "send" /\ terms[w].delivery = "wake"
             \/ pc'[w] = "settle"
      BY <1>2, <1>9 DEF Observe, Prepare, AtStop, GoTo, rows
    <2>2. local[w].at \in 1..Len(log)
      BY <1>0, <1>1, <2>1
    <2> QED
      BY <1>0, <1>1, <2>1, <2>2
  <1>10. CASE Settle(w)
    <2>1. CASE w \notin armed' /\ pc'[w] = "idle" /\ UNCHANGED <<cursor, local>>
      BY <1>0, <1>1, <2>1
    <2>2. ASSUME ~(w \notin armed' /\ pc'[w] = "idle" /\ UNCHANGED <<cursor, local>>)
          PROVE  /\ pc'[w] = "stop" /\ UNCHANGED armed
                 /\ w \in armed => cursor'[w] = local[w].at
                 /\ w \notin armed => cursor'[w] = cursor[w]
                 /\ local'[w].at = local[w].at + 1 /\ local'[w].upto = local[w].upto
      <3>1. Advance(w) /\ NextStop(w) /\ GoTo(w, "stop") /\ UNCHANGED armed
        BY <1>2, <1>10, <2>2 DEF Settle, GoTo
      <3>2. local'[w].at = local[w].at + 1 /\ local'[w].upto = local[w].upto
        BY <1>2, <3>1 DEF NextStop, Local
      <3> QED
        BY <1>2, <3>1, <3>2 DEF Advance, GoTo
    <2>3. pc[w] = "settle"
      BY <1>10 DEF Settle
    <2>4. CASE pc'[w] = "stop" /\ UNCHANGED armed
      <3>1. ASSUME w \in armed
            PROVE  cursor'[w] = local[w].at /\ local[w].at <= local[w].upto
        BY <1>0, <2>2, <2>3, <2>4, <3>1
      <3>2. cursor'[w] <= Len(log')
        BY <1>0, <1>1, <2>2, <2>3, <2>4, <3>1
      <3> QED
        BY <1>0, <1>1, <2>2, <2>3, <2>4, <3>1, <3>2
    <2> QED
      BY <2>1, <2>2, <2>4
  <1>11. CASE Create(w)
    <2>1. /\ pc[w] = "new" /\ pc'[w] = "creating" /\ cursor'[w] = Len(log)
          /\ UNCHANGED <<armed, pending, log>>
      BY <1>2, <1>11 DEF Create
    <2> QED
      BY <1>0, <1>1, <2>1
  <1>12. CASE Unwatch(w)
    BY <1>0, <1>1, <1>12 DEF Unwatch, run
  <1>13. CASE Crash
    <2>1. /\ pc'[w] \in {"new", "idle"} /\ (pc'[w] = "new" => pc[w] \in {"new", "creating"})
          /\ UNCHANGED <<armed, cursor, pending, local>>
      BY <1>2, <1>13 DEF Crash, rows
    <2> QED
      BY <1>0, <1>1, <2>1
  <1> QED
    BY <1>3, <1>4, <1>5, <1>6, <1>7, <1>8, <1>9, <1>10, <1>11, <1>12, <1>13, WatchMoves

\* No two ids are made up for one stop.
LEMMA DifferStep == ASSUME Inv, [Next]_vars PROVE IdsDiffer'
  <1>0. /\ Len(issued) \in Nat /\ IdsDiffer
    BY DEF Inv, Types, TypeRows, Issuing
  <1>1. CASE UNCHANGED issued
    BY <1>0, <1>1 DEF IdsDiffer
  <1>2. ASSUME NEW w \in Watches, Prepare(w), ~HasId(w),
               Len(issued') = Len(issued) + 1,
               issued'[Len(issued) + 1] = <<w, local[w].at>>,
               NEW k \in 1..Len(issued)
        PROVE  issued[k] # <<w, local[w].at>>
    <2> SUFFICES ASSUME issued[k] = <<w, local[w].at>> PROVE FALSE
      OBVIOUS
    <2>1. /\ w \in armed /\ pc[w] = "stop"
          /\ local[w].at \in Nat /\ cursor[w] \in Nat /\ pending[w].op \in Nat
      BY <1>2 DEF Prepare, AtStop, Inv, Types, TypeRows, TypeDrains, Local, Pending
    <2>2. local[w].at = cursor[w] + 1
      BY <2>1 DEF Inv, Standing, Stands, Alive
    <2>3. issued[k][1] = w /\ issued[k][2] = local[w].at
      OBVIOUS
    <2>4. k = pending[w].op
      BY <2>1, <2>2, <2>3 DEF Inv, Issuing, Issues, Alive
    <2>5. pending[w].op # 0
      BY <2>4
    <2>6. pending[w].seq = local[w].at
      BY <2>1, <2>2, <2>5 DEF Inv, Issuing, Issues, Alive
    <2> QED
      BY <1>2, <2>5, <2>6 DEF HasId
  <1>3. ASSUME NEW w \in Watches, Prepare(w), ~HasId(w),
               Len(issued') = Len(issued) + 1,
               issued'[Len(issued) + 1] = <<w, local[w].at>>
        PROVE  IdsDiffer'
    <2> SUFFICES ASSUME NEW k \in 1..(Len(issued) + 1), NEW l \in 1..(Len(issued) + 1),
                        issued'[k] = issued'[l]
                 PROVE  k = l
      BY <1>3 DEF IdsDiffer
    <2>1. \A i \in 1..Len(issued) : issued'[i] = issued[i] /\ issued'[i] # issued'[Len(issued) + 1]
      BY <1>2, <1>3, IssuedGrows
    <2> QED
      BY <1>0, <2>1 DEF IdsDiffer
  <1> QED
    BY <1>1, <1>3, IssuedGrows

\* The ids of a watch are those of the stops it settled, and of the one pending.
LEMMA IssuingStep == ASSUME Inv, [Next]_vars PROVE Issuing'
  <1> SUFFICES ASSUME NEW w \in Watches PROVE Issues(w)'
    BY DifferStep DEF Issuing
  <1>0. Stands(w) /\ Issues(w) /\ terms' = terms
    BY LogGrows DEF Inv, Standing, Issuing
  <1>1. /\ Len(issued) \in Nat /\ Len(issued') \in Nat /\ Len(issued) <= Len(issued')
        /\ \A k \in 1..Len(issued) : issued'[k] = issued[k]
        /\ cursor[w] \in Nat /\ local[w].at \in Nat
        /\ pending[w].op \in Nat /\ pending[w].seq \in Nat
    <2>1. Len(issued) \in Nat /\ Len(issued') \in Nat
      BY RowsStep DEF Inv, Types, TypeRows
    <2>2. cursor[w] \in Nat /\ pending[w].op \in Nat /\ pending[w].seq \in Nat
      BY DEF Inv, Types, TypeRows, Pending
    <2>3. local[w].at \in Nat
      BY DEF Inv, Types, TypeDrains, Local
    <2> QED
      BY <2>1, <2>2, <2>3, IssuedGrows
  <1>2. pc \in [Watches -> {"new", "creating", "idle", "loop", "stop", "send", "route",
                           "join", "admit", "insert", "note", "answer", "settle"}]
        /\ cursor \in [Watches -> 0..(MaxStops + 1)] /\ pending \in [Watches -> Pending]
    BY DEF Inv, Types, TypeRows, TypeDrains
  <1>3. ASSUME ~Prepare(w)
        PROVE  \A k \in 1..Len(issued') :
                   issued'[k][1] = w => k \in 1..Len(issued) /\ issued'[k] = issued[k]
    <2>1. CASE UNCHANGED issued
      BY <2>1
    <2>2. ASSUME NEW v \in Watches, Prepare(v), Len(issued') = Len(issued) + 1,
                 issued'[Len(issued) + 1] = <<v, local[v].at>>,
                 NEW k \in 1..Len(issued'), issued'[k][1] = w
          PROVE  k \in 1..Len(issued) /\ issued'[k] = issued[k]
      <3>1. k # Len(issued) + 1
        BY <1>3, <2>2
      <3> QED
        BY <1>1, <2>2, <3>1
    <2> QED
      BY <2>1, <2>2, IssuedGrows
  <1> USE DEF Issues, Unborn, Busy, Alive
  <1>4. CASE Stays(w) /\ ~Prepare(w)
    BY <1>0, <1>1, <1>3, <1>4 DEF Stays
  <1>5. CASE Sends(w) /\ ~Prepare(w)
    BY <1>0, <1>1, <1>3, <1>5 DEF Sends
  <1>6. CASE Leaves(w) /\ ~Prepare(w)
    BY <1>0, <1>1, <1>3, <1>6 DEF Leaves
  <1>7. CASE (Insert(w) \/ Look(w)) /\ ~Prepare(w)
    <2>1. /\ pc'[w] \in {"idle", "stop"} /\ UNCHANGED <<cursor, pending, issued>>
          /\ pc[w] = "creating" \/ UNCHANGED armed
      BY <1>2, <1>7 DEF Insert, Look, GoTo, rows
    <2> QED
      BY <1>0, <1>1, <2>1 DEF Stands
  <1>8. CASE (Skip(w) \/ Settle(w)) /\ ~Prepare(w)
    <2>1. /\ pc'[w] \in {"idle", "stop"} /\ UNCHANGED issued
          /\ pc[w] \in {"stop", "settle"} /\ armed' \subseteq armed
          /\ Skip(w) => w \in armed
      BY <1>2, <1>8 DEF Skip, Settle, GoTo, AtStop
    <2>2. CASE w \notin armed'
      <3>1. pending'[w] = pending[w]
        <4>1. UNCHANGED pending \/ (Advance(w) /\ UNCHANGED armed)
          BY <1>8 DEF Skip, Settle
        <4> QED
          BY <2>2, <4>1 DEF Advance
      <3> QED
        BY <1>0, <1>1, <2>1, <2>2, <3>1
    <2>3. CASE w \in armed'
      <3>1. Advance(w) /\ w \in armed
        BY <1>8, <2>1, <2>3 DEF Skip, Settle
      <3>2. cursor'[w] = local[w].at /\ pending'[w] = None
        BY <1>2, <3>1 DEF Advance
      <3>3. local[w].at = cursor[w] + 1
        BY <1>0, <2>1, <3>1 DEF Stands
      <3>4. \A k \in 1..Len(issued) : issued[k][1] = w => issued[k][2] <= cursor'[w]
        <4> SUFFICES ASSUME NEW k \in 1..Len(issued), issued[k][1] = w
                     PROVE  issued[k][2] <= cursor'[w]
          OBVIOUS
        <4>1. CASE k = pending[w].op
          <5>1. pending[w].op # 0
            BY <4>1
          <5>2. issued[k] = <<w, pending[w].seq>> /\ pending[w].seq = cursor[w] + 1
            BY <1>0, <2>1, <3>1, <4>1, <5>1
          <5> QED
            BY <1>1, <3>2, <3>3, <5>2
        <4>2. CASE issued[k][2] <= cursor[w]
          <5>1. issued[k][2] \in Nat
            BY DEF Inv, Types, TypeRows
          <5> QED
            BY <1>1, <3>2, <3>3, <4>2, <5>1
        <4> QED
          BY <1>0, <3>1, <4>1, <4>2
      <3> QED
        BY <1>0, <1>1, <2>1, <3>2, <3>4 DEF None
    <2> QED
      BY <2>2, <2>3
  <1>9. CASE Observe(w) /\ ~Prepare(w)
    <2>1. /\ pc'[w] = "settle" /\ UNCHANGED <<armed, cursor, pending, issued>>
          /\ terms[w].delivery = "observe" /\ w \in armed
      BY <1>2, <1>9 DEF Observe, AtStop, GoTo, rows
    <2> QED
      BY <1>0, <1>1, <2>1
  <1>10. CASE Prepare(w)
    <2>1. /\ pc'[w] = "send" /\ pc[w] = "stop" /\ w \in armed /\ UNCHANGED <<armed, cursor>>
          /\ terms[w].delivery = "wake"
      BY <1>2, <1>10 DEF Prepare, AtStop, GoTo
    <2>2. CASE HasId(w)
      <3>1. UNCHANGED <<pending, issued>> /\ pending[w].op # 0
        BY <1>10, <2>2 DEF Prepare, HasId
      <3> QED
        BY <1>0, <1>1, <2>1, <3>1
    <2>3. CASE ~HasId(w)
      <3>1. /\ pending'[w] = [seq |-> local[w].at, op |-> Len(issued) + 1]
            /\ issued' = Append(issued, <<w, local[w].at>>)
        BY <1>2, <1>10, <2>3 DEF Prepare
      <3>2. Len(issued') = Len(issued) + 1 /\ issued'[Len(issued) + 1] = <<w, local[w].at>>
        <4>1. ~UNCHANGED issued
          BY <1>1, <3>1, AppendProperties DEF Inv, Types, TypeRows
        <4>2. PICK v \in Watches : /\ issued' = Append(issued, <<v, local[v].at>>)
                                   /\ Len(issued') = Len(issued) + 1
                                   /\ issued'[Len(issued) + 1] = <<v, local[v].at>>
                                   /\ Prepare(v)
          BY <4>1, IssuedGrows
        <4>3. v = w
          <5> SUFFICES ASSUME v # w PROVE FALSE
            OBVIOUS
          <5>1. Stays(w)
            BY <4>2, OthersStay DEF Drain
          <5> QED
            BY <2>1, <5>1 DEF Stays
        <4> QED
          BY <4>2, <4>3
      <3>3. local[w].at = cursor[w] + 1
        BY <1>0, <2>1 DEF Stands
      <3>4. \A k \in 1..Len(issued) : issued[k][1] = w => issued[k][2] <= cursor[w]
        <4> SUFFICES ASSUME NEW k \in 1..Len(issued), issued[k][1] = w, k = pending[w].op
                     PROVE  FALSE
          BY <1>0, <2>1
        <4>1. pending[w].op # 0 /\ pending[w].seq = local[w].at
          BY <1>0, <2>1, <3>3
        <4> QED
          BY <2>3, <4>1 DEF HasId
      <3> QED
        BY <1>0, <1>1, <2>1, <3>1, <3>2, <3>3, <3>4
    <2> QED
      BY <2>2, <2>3
  <1>11. CASE Create(w) /\ ~Prepare(w)
    <2>1. /\ pc[w] = "new" /\ pc'[w] = "creating" /\ UNCHANGED <<armed, pending, issued>>
      BY <1>2, <1>11 DEF Create
    <2> QED
      BY <1>0, <1>1, <2>1 DEF Stands
  <1>12. CASE Unwatch(w) /\ ~Prepare(w)
    <2>1. UNCHANGED <<pc, cursor, pending, issued>> /\ armed' \subseteq armed
      BY <1>12 DEF Unwatch, run
    <2> QED
      BY <1>0, <1>1, <2>1
  <1>13. CASE Crash /\ ~Prepare(w)
    <2>1. /\ pc'[w] \in {"new", "idle"} /\ (pc'[w] = "new" => pc[w] \in {"new", "creating"})
          /\ UNCHANGED <<armed, cursor, pending, issued>>
      BY <1>2, <1>13 DEF Crash, rows
    <2> QED
      BY <1>0, <1>1, <2>1
  <1> QED
    BY <1>4, <1>5, <1>6, <1>7, <1>8, <1>9, <1>10, <1>11, <1>12, <1>13, WatchMoves

\* What the target remembers of an id stands for a message it has.
LEMMA RememberingStep == ASSUME Inv, [Next]_vars PROVE Remembering'
  <1>0. /\ Told \subseteq Told' /\ Told \subseteq 1..Len(issued) /\ enqueued \subseteq Told
        /\ Len(issued) \in Nat /\ Len(issued') \in Nat /\ Len(issued) <= Len(issued')
        /\ \A op \in Ops : operation[op] # "none" => op \in Told
    <2>1. Len(issued) \in Nat /\ Len(issued') \in Nat
      BY RowsStep DEF Inv, Types, TypeRows
    <2>2. /\ Told \subseteq 1..Len(issued) /\ enqueued \subseteq Told
          /\ \A op \in Ops : operation[op] # "none" => op \in Told
      BY DEF Inv, Remembering
    <2> QED
      BY <2>1, <2>2, Telling, IssuedGrows
  <1>1. Told' \subseteq 1..Len(issued')
    <2>1. ASSUME NEW w \in Watches, Queues(w) \/ Admit(w) PROVE Op(w) \in 1..Len(issued)
      BY <2>1, SendingHasId DEF Queues, InsertRow, Admit, Inv, Standing, Stands, Busy
    <2>2. ASSUME NEW op \in Told' PROVE op \in 1..Len(issued)
      BY <1>0, <2>1, Telling
    <2> QED
      BY <1>0, <2>2
  <1>2. enqueued' \subseteq Told'
    <2>1. ASSUME NEW w \in Watches, NoteRow(w)
          PROVE  enqueued' = enqueued \cup {Op(w)} /\ Op(w) \in Told
      BY <2>1 DEF NoteRow, Inv, Remembering, Remembers
    <2>2. UNCHANGED enqueued \/ \E w \in Watches : NoteRow(w)
      BY WhoMoves
    <2> QED
      BY <1>0, <2>1, <2>2
  <1>3. ASSUME NEW op \in Ops, operation'[op] # "none" PROVE op \in Told'
    <2> USE DEF Inv, Types, TypeTarget
    <2>1. ASSUME NEW w \in Watches, Admit(w) PROVE operation[op] # "none" \/ op \in Told'
      <3>1. op = Op(w) \/ operation'[op] = operation[op]
        BY <2>1 DEF Admit
      <3>2. Op(w) \in Told'
        <4>1. Op(w) \in Ops
          BY <2>1, SendingHasId DEF Admit, Standing, Stands, Busy
        <4> QED
          BY <2>1, <4>1, AppendValues DEF Admit, Told
      <3> QED
        BY <1>3, <3>1, <3>2
    <2>2. CASE Crash
      BY <1>0, <1>3, <2>2 DEF Crash
    <2>3. ASSUME NEW w \in Watches, Drain(w), ~Admit(w) PROVE operation[op] # "none"
      <3>1. CASE Confirm(w)
        BY <1>3, <3>1 DEF Confirm, Answered
      <3>2. CASE Decline(w)
        BY <1>3, <3>2 DEF Decline, Answered
      <3>3. CASE UNCHANGED operation
        BY <1>3, <3>3
      <3> QED
        BY <2>3, <3>1, <3>2, <3>3
        DEF Drain, target, Insert, Begin, Look, LeaveBatch, Skip, Hold, Observe, Prepare, LookUp,
            LookUpFails, Refuse, Throw, Route, Join, Behind, InsertRow, NoteRow, Settle
    <2>4. ASSUME NEW o \in Ops, NEW state, Resolve(o, state) PROVE operation[op] # "none"
      BY <1>3, <2>4 DEF Resolve
    <2>5. CASE UNCHANGED operation
      BY <1>0, <1>3, <2>5
    <2>6. \/ UNCHANGED operation
          \/ \E w \in Watches : Drain(w)
          \/ \E o \in Ops : \E state \in {"confirmed", "rejected"} : Resolve(o, state)
          \/ Crash
      BY SourceStays DEF Next, vars, target, Kick, Create, CreateAgain,
             Unwatch, Write, StopPause, TargetStops, Dispatch
    <2> QED
      BY <1>0, <2>1, <2>2, <2>3, <2>4, <2>5, <2>6
  <1>4. ASSUME NEW w \in Watches PROVE Remembers(w)'
    <2>0. /\ Stands(w) /\ Remembers(w)
          /\ pc \in [Watches -> {"new", "creating", "idle", "loop", "stop", "send", "route",
                           "join", "admit", "insert", "note", "answer", "settle"}]
      BY DEF Inv, Types, TypeDrains, Standing, Remembering
    <2>1. ASSUME pc'[w] = pc[w], local'[w] = local[w],
                 pc[w] = "note" => pending'[w] = pending[w]
          PROVE  Remembers(w)'
      <3>1. ASSUME pc[w] = "note" PROVE Op(w)' \in Told'
        BY <1>0, <2>0, <2>1, <3>1 DEF Remembers, Op
      <3>2. ASSUME pc[w] = "settle" PROVE (Reported(w, local[w].at))'
        <4>1. Reported(w, local[w].at)
          BY <2>0, <3>2 DEF Remembers
        <4>2. \A seq : Reported(w, seq) => (Reported(w, seq))'
          BY ReportedStays
        <4> QED
          BY <2>1, <4>1, <4>2 DEF Reported
      <3> QED
        BY <2>1, <3>1, <3>2 DEF Remembers
    <2>2. CASE pc'[w] \notin {"note", "settle"}
      BY <2>2 DEF Remembers
    <2>3. ASSUME pc[w] \in Busy, terms[w].delivery = "wake", UNCHANGED <<pending, local, issued>>,
                 pc'[w] \in {"note", "settle"} => Op(w) \in Told'
          PROVE  Remembers(w)'
      <3>1. issued[Op(w)] = <<w, local[w].at>>
        BY <2>3, SendingHasId
      <3>2. ASSUME pc'[w] = "settle" PROVE (Reported(w, local[w].at))'
        BY <2>3, <3>1, <3>2 DEF Reported, Told, Op
      <3> QED
        BY <2>3, <3>2 DEF Remembers, Op
    <2>4. CASE Observe(w)
      <3>1. pc'[w] = "settle" /\ UNCHANGED local
        BY <2>0, <2>4 DEF Observe, GoTo
      <3>2. <<w, local[w].at>> \in Values(fired')
        <4>1. fired \in Seq(Watches \X (1..(MaxStops + 1)))
          BY DEF Inv, Types, TypeTarget
        <4>2. <<w, local[w].at>> \in Watches \X (1..(MaxStops + 1))
          <5>1. local[w].at >= 1 /\ local[w].at <= local[w].upto
            BY <2>0, <2>4 DEF Observe, AtStop, Stands
          <5>2. local[w].at \in 1..(MaxStops + 1)
            BY <5>1, WatchAssumption DEF Inv, Types, TypeDrains, Local
          <5> QED
            BY <5>2
        <4>3. \/ <<w, local[w].at>> \in Values(fired) /\ UNCHANGED fired
              \/ fired' = Append(fired, <<w, local[w].at>>)
          BY <2>4 DEF Observe
        <4> DEFINE S == Watches \X (1..(MaxStops + 1))
        <4> HIDE DEF S
        <4>4. fired \in Seq(S) /\ <<w, local[w].at>> \in S
          BY <4>1, <4>2 DEF S
        <4>5. CASE fired' = Append(fired, <<w, local[w].at>>)
          BY ONLY <4>4, <4>5, AppendValues
        <4> QED
          BY <4>3, <4>5
      <3> QED
        BY <3>1, <3>2 DEF Remembers, Reported
    <2>5. CASE Sends(w)
      <3>1. terms[w].delivery = "wake" /\ pc[w] \in Busy /\ UNCHANGED <<pending, local, issued>>
        BY <2>0, <2>5 DEF Stands, Sends
      <3>2. Op(w) \in Ops
        BY <3>1, SendingHasId
      <3>3. ASSUME pc'[w] \in {"note", "settle"} PROVE Op(w) \in Told'
        <4>1. operation[Op(w)] # "none" \/ Op(w) \in enqueued => Op(w) \in Told'
          BY <1>0, <3>2
        <4>2. pc[w] = "note" => Op(w) \in Told'
          BY <1>0, <2>0 DEF Remembers
        <4>3. CASE InsertRow(w)
          <5>1. CASE Op(w) \in Values(queue)
            BY <1>0, <5>1 DEF Told
          <5>2. CASE Op(w) \notin Values(queue)
            <6>1. queue' = Append(queue, Op(w))
              BY <4>3, <5>2 DEF InsertRow
            <6> QED
              BY <3>2, <6>1, AppendValues DEF Told, Inv, Types, TypeTarget
          <5> QED
            BY <5>1, <5>2
        <4>4. CASE LookUp(w)
          BY <2>0, <3>3, <4>1, <4>4 DEF LookUp, GoTo
        <4>5. CASE Route(w) \/ Join(w) \/ Behind(w)
          BY <2>0, <3>3, <4>1, <4>5 DEF Route, Join, Behind, GoTo
        <4>6. CASE NoteRow(w)
          BY <4>2, <4>6 DEF NoteRow
        <4>7. CASE Admit(w) \/ Confirm(w)
          BY <2>0, <3>3, <4>1, <4>7 DEF Admit, Confirm, Answered, GoTo
        <4>8. pc[w] \in Busy \ {"settle"} /\ pc'[w] \notin {"idle", "loop"}
          BY <2>5, <3>3 DEF Sends
        <4>9. CASE LookUpFails(w) \/ Refuse(w) \/ Decline(w)
          BY <2>0, <4>8, <4>9 DEF LookUpFails, Refuse, Throw, Decline, GoTo
        <4> QED
          BY <2>5, <4>3, <4>4, <4>5, <4>6, <4>7, <4>8, <4>9
          DEF Sends, Drain, Insert, Begin, Look, LeaveBatch, Skip, Hold, Observe, Prepare, Settle,
              AtStop, Busy
      <3> QED
        BY <2>2, <2>3, <3>1, <3>3
    <2>6. CASE Stays(w)
      BY <2>1, <2>6 DEF Stays
    <2>7. CASE Unwatch(w)
      BY <2>1, <2>7 DEF Unwatch, rows, run
    <2>8. CASE Leaves(w) \/ Crash
      BY <2>0, <2>2, <2>8 DEF Leaves, Crash
    <2>9. CASE Insert(w) \/ Look(w) \/ Skip(w) \/ Settle(w) \/ Prepare(w) \/ Create(w)
      <3>1. pc'[w] \in {"idle", "stop", "send", "creating"}
        BY <2>0, <2>9 DEF Insert, Look, Skip, AtStop, Settle, Prepare, Create, GoTo
      <3> QED
        BY <2>2, <3>1
    <2> QED
      BY <2>4, <2>5, <2>6, <2>7, <2>8, <2>9, WatchMoves
  <1> QED
    BY <1>1, <1>2, <1>3, <1>4 DEF Remembering

\* Initially there is no watch, no stop and no message.
LEMMA InitInv == Init => Inv
  <1> SUFFICES ASSUME Init PROVE Inv
    OBVIOUS
  <1> USE WatchAssumption DEF Init
  <1>1. TypeSource /\ QueueDiffers
    <2>1. log \in Seq(Kinds \cup {"continued", "stopped", "retrying"}) /\ Len(log) = 0
      BY EmptySeq
    <2>2. halted \in BOOLEAN /\ owed \in BOOLEAN
      OBVIOUS
    <2>3. notices = 0 /\ told = 0 /\ QueueDiffers
      BY DEF QueueDiffers
    <2> QED
      BY <2>1, <2>2, <2>3 DEF TypeSource
  <1>2. TypeRows
    <2>1. pending \in [Watches -> Pending]
      BY NoneIsPending
    <2>2. /\ cursor \in [Watches -> 0..(MaxStops + 1)] /\ born \in [Watches -> 0..(MaxStops + 1)]
          /\ issued \in Seq(Watches \X (1..(MaxStops + 1))) /\ Len(issued) <= MaxOps
      BY EmptySeq
    <2> QED
      BY <2>1, <2>2 DEF TypeRows
  <1>3. TypeDrains
    <2>1. [held |-> FALSE, at |-> 0, upto |-> 0, full |-> FALSE] \in Local
      BY DEF Local
    <2> QED
      BY <2>1 DEF TypeDrains, MaxWaiting
  <1>4. TypeTarget
    <2>1. pauses \in 0..MaxPauses /\ crashes \in 0..MaxCrashes
      OBVIOUS
    <2>2. operation \in [Ops -> {"none", "executing", "confirmed", "unknown", "rejected"}]
      OBVIOUS
    <2>3. queue \in Seq(Ops) /\ admitted \in Seq(Ops)
          /\ fired \in Seq(Watches \X (1..(MaxStops + 1)))
      BY EmptySeq
    <2> QED
      BY <2>1, <2>2, <2>3 DEF TypeTarget
  <1>5. Standing /\ Issuing
    BY DEF Standing, Stands, Issuing, IdsDiffer, Issues, Unborn, Busy, Alive, None
  <1>6. Remembering
    BY DEF Remembering, Remembers, Told, Values
  <1> QED
    BY <1>1, <1>2, <1>3, <1>4, <1>5, <1>6 DEF Inv, Types

\* The invariant is inductive.
LEMMA InvStep == Inv /\ [Next]_vars => Inv'
  BY LogGrows, RowsStep, DrainsStep, TargetStep, Telling, StandingStep, IssuingStep,
     RememberingStep DEF Inv, Types

\* It holds in every reachable state.
LEMMA InvHolds == Spec => []Inv
  BY InitInv, InvStep, PTL DEF Spec

\* Every variable stays in its domain, and the queue has one row of an id.
THEOREM WatchTypes == Spec => []TypeOK
  <1>1. Inv => TypeOK
    BY TypeParts DEF Inv, Types
  <1> QED
    BY <1>1, InvHolds, PTL

\* The cursor only passes a stop that the watch did not ask for or was told of.
LEMMA SkippedStep == Inv /\ NothingSkipped /\ [Next]_vars => NothingSkipped'
  <1> SUFFICES ASSUME Inv, NothingSkipped, [Next]_vars, NEW w \in Watches,
                      NEW seq \in (born'[w] + 1)..cursor'[w],
                      seq <= Len(log'), (Reportable(w, seq))'
               PROVE  (Reported(w, seq))'
    BY DEF NothingSkipped
  <1>0. /\ Stands(w) /\ Remembers(w)
        /\ cursor \in [Watches -> 0..(MaxStops + 1)] /\ born \in [Watches -> 0..(MaxStops + 1)]
        /\ local[w].at \in Nat /\ local[w].upto \in Nat
        /\ Len(log) \in Nat /\ Len(log') \in Nat /\ MaxStops \in Nat
    <2>1. Len(log) \in Nat /\ Len(log') \in Nat
      BY LogGrows DEF Inv, Types, TypeSource
    <2>2. local[w].at \in Nat /\ local[w].upto \in Nat
      BY DEF Inv, Types, TypeDrains, Local
    <2> QED
      BY <2>1, <2>2, WatchAssumption DEF Inv, Types, TypeRows, Standing, Remembering
  <1>1. CASE cursor'[w] = cursor[w] /\ born'[w] = born[w]
    <2>1. seq \in (born[w] + 1)..cursor[w] /\ seq \in 1..Len(log)
      BY <1>0, <1>1 DEF Stands
    <2>2. Reportable(w, seq)
      BY <2>1, ReportableStays
    <2> QED
      BY <2>1, <2>2, ReportedStays DEF NothingSkipped
  <1>2. CASE Create(w)
    <2>1. cursor'[w] = Len(log) /\ born'[w] = Len(log)
      BY <1>0, <1>2 DEF Create
    <2> QED
      BY <1>0, <2>1
  <1>3. CASE (Skip(w) \/ Settle(w)) /\ cursor'[w] # cursor[w]
    <2>1. /\ w \in armed /\ cursor'[w] = local[w].at /\ born' = born
      <3>1. Advance(w) /\ born' = born
        BY <1>3 DEF Skip, Settle
      <3>2. w \in armed
        BY <1>3, <3>1 DEF Advance
      <3> QED
        BY <1>0, <3>1, <3>2 DEF Advance
    <2>2. local[w].at = cursor[w] + 1 /\ local[w].at \in 1..Len(log)
      BY <1>0, <1>3, <2>1 DEF Skip, AtStop, Settle, Stands, Busy, Alive
    <2>3. seq \in 1..Len(log) /\ (seq \in (born[w] + 1)..cursor[w] \/ seq = local[w].at)
      BY <1>0, <2>1, <2>2
    <2>4. Reportable(w, seq)
      BY <2>3, ReportableStays
    <2>5. CASE seq \in (born[w] + 1)..cursor[w]
      BY <2>3, <2>4, <2>5, ReportedStays DEF NothingSkipped
    <2>6. CASE seq = local[w].at
      <3>1. Reported(w, seq)
        BY <1>0, <1>3, <2>4, <2>6 DEF Skip, Settle, Remembers
      <3> QED
        BY <3>1, ReportedStays
    <2> QED
      BY <2>3, <2>5, <2>6
  <1>4. \/ cursor'[w] = cursor[w] /\ born'[w] = born[w]
        \/ Create(w)
        \/ (Skip(w) \/ Settle(w)) /\ cursor'[w] # cursor[w]
    <2>1. born'[w] = born[w] \/ Create(w)
      <3>1. ASSUME NEW v \in Watches, Create(v), v # w PROVE born'[w] = born[w]
        BY <1>0, <3>1 DEF Create
      <3>2. UNCHANGED born \/ \E v \in Watches : Create(v)
        BY WhoMoves
      <3> QED
        BY <3>1, <3>2
    <2>2. cursor'[w] = cursor[w] \/ Create(w) \/ Skip(w) \/ Settle(w)
      <3>1. CASE Insert(w) \/ Look(w) \/ Observe(w) \/ Prepare(w)
        BY <3>1 DEF Insert, Look, Observe, Prepare, rows
      <3>2. CASE Sends(w) \/ Leaves(w) \/ Unwatch(w) \/ Crash \/ Stays(w)
        BY <3>2 DEF Sends, Leaves, Unwatch, Crash, Stays, rows
      <3> QED
        BY <3>1, <3>2, WatchMoves
    <2> QED
      BY <2>1, <2>2
  <1> QED
    BY <1>1, <1>2, <1>3, <1>4

\* No stop is passed over unreported, from the creation of a watch on.
THEOREM NothingIsSkipped == Spec => []NothingSkipped
  <1>1. Init => NothingSkipped
    BY DEF Init, NothingSkipped
  <1> QED
    BY <1>1, SkippedStep, InvHolds, PTL DEF Spec

\* A watch leaves by removal, or once it told how the source ended.
LEMMA EndIsTold ==
  ASSUME Inv, [Next]_vars, NEW w \in armed \ armed'
  PROVE  \/ Unwatch(w)
         \/ \E seq \in 1..Len(log) : Reported(w, seq) /\ Reason(log[seq]) \in Final
  <1>0. w \in Watches
    BY DEF Inv, Types, TypeRows
  <1>1. CASE Settle(w)
    <2>1. pc[w] = "settle" /\ ~IsPause(w)
      BY <1>1 DEF Settle
    <2>2. Reported(w, local[w].at)
      BY <1>0, <2>1 DEF Inv, Remembering, Remembers
    <2>3. local[w].at \in 1..Len(log) /\ Reportable(w, local[w].at)
      <3>1. /\ local[w].at >= 1 /\ local[w].at <= local[w].upto /\ local[w].upto <= Len(log)
            /\ Reportable(w, local[w].at)
        BY <1>0, <2>1 DEF Inv, Standing, Stands, Busy
      <3>2. local[w].at \in Nat /\ local[w].upto \in Nat /\ Len(log) \in Nat
        BY <1>0 DEF Inv, Types, TypeSource, TypeDrains, Local
      <3> QED
        BY <3>1, <3>2
    <2>4. log[local[w].at] \in Kinds \cup {"continued", "stopped", "retrying"}
      BY <2>3 DEF Inv, Types, TypeSource
    <2>5. Reason(log[local[w].at]) \in Final
      BY <2>1, <2>3, <2>4, WatchAssumption DEF Reportable, Reason, IsPause, Final
    <2> QED
      BY <2>2, <2>3, <2>5
  <1>2. CASE Insert(w) \/ Look(w) \/ Skip(w) \/ Observe(w) \/ Prepare(w)
    BY <1>2 DEF Insert, Look, Skip, Observe, Prepare, rows
  <1>3. CASE Sends(w) \/ Leaves(w) \/ Create(w) \/ Crash \/ Stays(w)
    BY <1>3 DEF Sends, Leaves, Create, Crash, Stays, rows
  <1> QED
    BY <1>0, <1>1, <1>2, <1>3, WatchMoves

\* A watch ends by itself only after it told the end of the source.
THEOREM EndsAreTold == Spec => TellsTheEnd
  <1>1. Inv /\ [Next]_vars => [\A w \in armed \ armed' :
          \/ Unwatch(w)
          \/ \E seq \in 1..Len(log) : Reported(w, seq) /\ Reason(log[seq]) \in Final]_vars
    BY EndIsTold
  <1> QED
    BY <1>1, InvHolds, PTL DEF Spec, TellsTheEnd

\* An id belongs to one watch.
LEMMA OneOwner ==
  ASSUME Inv, NEW v \in Watches, NEW w \in Watches, Op(w) # 0, Op(v) = Op(w)
  PROVE  v = w
  <1>1. issued[Op(w)] = <<w, pending[w].seq>> /\ issued[Op(v)] = <<v, pending[v].seq>>
    BY DEF Inv, Issuing, Issues, Op
  <1> QED
    BY <1>1

\* An operation begins with the admission of its message, and does not survive
\* a crash in flight.
LEMMA OperationMoves ==
  ASSUME Inv, [Next]_vars, NEW op \in Ops
  PROVE  /\ operation'[op] = "none" => operation[op] = "none"
         /\ \/ operation'[op] = "none" \/ operation[op] # "none"
            \/ \E w \in Watches : Admit(w) /\ Op(w) = op
         /\ \/ operation'[op] # "executing"
            \/ operation[op] = "executing" /\ ~Crash
            \/ \E w \in Watches : Admit(w) /\ Op(w) = op
  <1> USE DEF Inv, Types, TypeTarget
  <1>1. ASSUME NEW w \in Watches, Drain(w)
        PROVE  \/ Admit(w) /\ (Op(w) = op \/ operation'[op] = operation[op])
               \/ operation'[op] = operation[op]
               \/ operation[op] = "executing" /\ operation'[op] \notin {"none", "executing"}
    <2>1. CASE Admit(w)
      BY <2>1 DEF Admit
    <2>2. CASE Confirm(w)
      BY <2>2 DEF Confirm, Answered
    <2>3. CASE Decline(w)
      BY <2>3 DEF Decline, Answered
    <2> QED
      BY <1>1, <2>1, <2>2, <2>3
      DEF Drain, target, Insert, Begin, Look, LeaveBatch, Skip, Hold, Observe, Prepare, LookUp,
          LookUpFails, Refuse, Throw, Route, Join, Behind, InsertRow, NoteRow, Settle
  <1>2. ASSUME NEW o \in Ops, NEW state \in {"confirmed", "rejected"}, Resolve(o, state)
        PROVE  \/ operation'[op] = operation[op]
               \/ operation[op] = "unknown" /\ operation'[op] = state
    <2>1. operation[o] = "unknown" /\ operation' = [operation EXCEPT ![o] = state]
      BY <1>2 DEF Resolve
    <2>2. CASE o = op
      BY <2>1, <2>2
    <2>3. CASE o # op
      BY <2>1, <2>3
    <2> QED
      BY <2>2, <2>3
  <1>3. CASE Crash
    BY <1>3 DEF Crash
  <1>4. CASE UNCHANGED operation /\ ~Crash
    BY <1>4
  <1>5. \/ UNCHANGED operation
        \/ \E w \in Watches : Drain(w)
        \/ \E o \in Ops : \E state \in {"confirmed", "rejected"} : Resolve(o, state)
        \/ Crash
    BY SourceStays DEF Next, vars, target, Kick, Create, CreateAgain,
           Unwatch, Write, StopPause, TargetStops, Dispatch
  <1>6. ASSUME NEW w \in Watches, Drain(w), ~Crash
        PROVE  /\ operation'[op] = "none" => operation[op] = "none"
               /\ \/ operation'[op] = "none" \/ operation[op] # "none"
                  \/ \E v \in Watches : Admit(v) /\ Op(v) = op
               /\ \/ operation'[op] # "executing"
                  \/ operation[op] = "executing" /\ ~Crash
                  \/ \E v \in Watches : Admit(v) /\ Op(v) = op
    <2>1. CASE Admit(w) /\ Op(w) = op
      <3>1. operation'[op] = "executing"
        BY <2>1 DEF Admit
      <3> QED
        BY <2>1, <3>1
    <2> QED
      BY <1>1, <1>6, <2>1
  <1>7. ASSUME NEW o \in Ops, NEW state \in {"confirmed", "rejected"}, Resolve(o, state), ~Crash
        PROVE  /\ operation'[op] = "none" => operation[op] = "none"
               /\ operation'[op] = "none" \/ operation[op] # "none"
               /\ operation'[op] # "executing" \/ operation[op] = "executing"
    BY <1>2, <1>7
  <1> QED
    BY <1>3, <1>4, <1>5, <1>6, <1>7

\* A drain that waits for an answer leaves with it.
LEMMA AnswerMoves ==
  ASSUME Inv, [Next]_vars, NEW w \in Watches, pc[w] = "answer", ~Crash,
         operation[Op(w)] = "executing", operation'[Op(w)] = "executing"
  PROVE  pc'[w] = "answer" /\ (Op(w))' = Op(w)
  <1>1. Op(w) \in Ops
    BY SendingHasId DEF Inv, Standing, Stands, Busy
  <1>2. ~Drain(w)
    <2> SUFFICES ASSUME Drain(w) PROVE FALSE
      OBVIOUS
    <2>1. Confirm(w) \/ Decline(w)
      BY DEF Drain, Insert, Begin, Look, LeaveBatch, Skip, Hold, Observe, Prepare, LookUp,
             LookUpFails, Refuse, Throw, Route, Join, Behind, InsertRow, NoteRow, Admit, Settle,
             AtStop
    <2>2. PICK state \in {"confirmed", "rejected", "unknown"} :
               operation' = [operation EXCEPT ![Op(w)] = state]
      BY <2>1 DEF Confirm, Decline, Answered
    <2> QED
      BY <1>1, <2>2 DEF Inv, Types, TypeTarget
  <1>3. Stays(w) \/ Unwatch(w)
    BY <1>2, WatchMoves DEF Sends, Leaves, Drain, Create
  <1> QED
    BY <1>3 DEF Stays, Unwatch, rows, run, Op

\* An executing operation has its drain.
LEMMA AnsweringStep == ASSUME Inv, Answering, [Next]_vars PROVE Answering'
  <1> SUFFICES ASSUME NEW op \in Ops, operation'[op] = "executing"
               PROVE  \E w \in Watches : pc'[w] = "answer" /\ (Op(w))' = op
    BY DEF Answering
  <1>1. CASE operation[op] = "executing" /\ ~Crash
    <2>1. PICK w \in Watches : pc[w] = "answer" /\ Op(w) = op
      BY <1>1 DEF Answering
    <2> QED
      BY <1>1, <2>1, AnswerMoves
  <1>2. ASSUME NEW w \in Watches, Admit(w), Op(w) = op
        PROVE  pc'[w] = "answer" /\ (Op(w))' = op
    BY <1>2 DEF Admit, GoTo, rows, Op, Inv, Types, TypeDrains
  <1> QED
    BY <1>1, <1>2, OperationMoves

\* Its id is what a drain sends until it is done with the stop.
LEMMA OpStays ==
  ASSUME Inv, [Next]_vars, NEW w \in Watches, (Op(w))' # 0
  PROVE  (Op(w))' = Op(w) \/ (Prepare(w) /\ (Op(w))' \notin Told')
  <1>0. /\ pending \in [Watches -> Pending] /\ Len(issued) \in Nat
        /\ Told \subseteq 1..Len(issued)
    BY DEF Inv, Types, TypeRows, Remembering
  <1>1. CASE Prepare(w)
    <2>1. CASE UNCHANGED pending
      BY <2>1 DEF Op
    <2>2. CASE ~UNCHANGED pending
      <3>1. pending' = [pending EXCEPT ![w] = [seq |-> local[w].at, op |-> Len(issued) + 1]]
        BY <1>1, <2>2 DEF Prepare
      <3>2. (Op(w))' = Len(issued) + 1
        BY <1>0, <3>1 DEF Op
      <3>3. Told' = Told
        BY <1>1 DEF Prepare, target, Told, Values
      <3> QED
        BY <1>0, <1>1, <3>2, <3>3
    <2> QED
      BY <2>1, <2>2
  <1>2. CASE Skip(w) \/ Settle(w)
    <2>1. UNCHANGED pending \/ pending' = [pending EXCEPT ![w] = None]
      BY <1>2 DEF Skip, Settle, Advance
    <2>2. pending'[w] = None => (Op(w))' = 0
      BY DEF Op, None
    <2> QED
      BY <1>0, <2>1, <2>2 DEF Op
  <1>3. CASE Insert(w) \/ Look(w) \/ Observe(w) \/ Create(w) \/ Unwatch(w) \/ Crash
    BY <1>3 DEF Insert, Look, Observe, Create, Unwatch, Crash, rows, Op
  <1>4. CASE Sends(w) \/ Leaves(w) \/ Stays(w)
    BY <1>4 DEF Sends, Leaves, Stays, Op
  <1> QED
    BY <1>1, <1>2, <1>3, <1>4, WatchMoves

\* Histories of crashes only grow.
LEMMA CutGrows == ASSUME [Next]_vars PROVE cut \subseteq cut'
  BY WhoMoves DEF Crash

\* A drain decides how to send only what was never sent, and a message that is
\* neither being settled nor cut has an operation.
LEMMA SendsOnceStep ==
  ASSUME Inv, Sending, [Next]_vars, NEW w \in Watches
  PROVE  SendsOnce(w)'
  <1>0. /\ Stands(w) /\ Issues(w) /\ Remembers(w) /\ SendsOnce(w) /\ terms' = terms
        /\ Told \subseteq 1..Len(issued) /\ Len(issued) \in Nat /\ Len(issued) <= MaxOps
        /\ pc \in [Watches -> {"new", "creating", "idle", "loop", "stop", "send", "route",
                           "join", "admit", "insert", "note", "answer", "settle"}]
        /\ operation \in [Ops -> {"none", "executing", "confirmed", "unknown", "rejected"}]
    <2>1. Stands(w) /\ Issues(w) /\ Remembers(w) /\ SendsOnce(w) /\ terms' = terms
      BY LogGrows DEF Inv, Standing, Issuing, Remembering, Sending
    <2>2. Told \subseteq 1..Len(issued) /\ Len(issued) \in Nat /\ Len(issued) <= MaxOps
      BY DEF Inv, Types, TypeRows, Remembering
    <2> QED
      BY <2>1, <2>2 DEF Inv, Types, TypeDrains, TypeTarget
  <1> DEFINE Deciding == {"route", "join", "admit", "insert"}
  <1>1. ASSUME pc'[w] \in Deciding PROVE operation'[(Op(w))'] = "none"
    <2>1. CASE pc[w] \in Deciding /\ (Op(w))' = Op(w) /\ ~Admit(w)
      <3>1. Op(w) \in Ops /\ Op(w) # 0
        BY <1>0, <2>1, SendingHasId DEF Stands, Busy
      <3>2. operation[Op(w)] = "none"
        BY <1>0, <2>1 DEF SendsOnce
      <3>3. ASSUME NEW v \in Watches, Admit(v), Op(v) = Op(w) PROVE FALSE
        BY <2>1, <3>1, <3>3, OneOwner
      <3> QED
        BY <2>1, <3>1, <3>2, <3>3, OperationMoves
    <2>2. CASE Sends(w) /\ pc[w] \notin Deciding
      <3>1. pc[w] \in Busy /\ terms[w].delivery = "wake" /\ (Op(w))' = Op(w)
        BY <1>0, <2>2 DEF Stands, Sends, Op
      <3>2. CASE LookUp(w)
        <4>1. operation[Op(w)] \in {"none", "executing"} /\ pc[w] = "send" /\ UNCHANGED operation
          <5>1. Op(w) \in Ops
            BY <3>1, SendingHasId
          <5> QED
            BY <1>0, <1>1, <3>2, <5>1 DEF LookUp, GoTo, target
        <4>2. operation[Op(w)] # "executing"
          <5> SUFFICES ASSUME operation[Op(w)] = "executing" PROVE FALSE
            OBVIOUS
          <5>1. Op(w) \in Ops /\ Op(w) # 0
            BY <3>1, SendingHasId
          <5>2. PICK v \in Watches : pc[v] = "answer" /\ Op(v) = Op(w)
            BY <5>1 DEF Sending, Answering
          <5>3. v = w
            BY <5>1, <5>2, OneOwner
          <5> QED
            BY <4>1, <5>2, <5>3
        <4> QED
          BY <3>1, <4>1, <4>2
      <3>3. ~LookUp(w) => FALSE
        BY <1>0, <1>1, <2>2
        DEF Sends, Busy, Drain, Insert, Begin, Look, LeaveBatch, Skip, Hold, Observe, Prepare, Settle,
            LookUpFails, Refuse, Throw, Route, Join, Behind, InsertRow, NoteRow, Answered, Admit,
            Confirm, Decline, GoTo, AtStop
      <3> QED
        BY <3>2, <3>3
    <2>3. CASE Sends(w) /\ pc[w] \in Deciding
      <3>1. (Op(w))' = Op(w)
        BY <2>3 DEF Sends, Op
      <3>2. ~Admit(w)
        BY <1>0, <1>1 DEF Admit, GoTo
      <3> QED
        BY <2>1, <2>3, <3>1, <3>2
    <2>4. CASE Stays(w) \/ Unwatch(w)
      <3>1. pc'[w] = pc[w] /\ (Op(w))' = Op(w)
        BY <2>4 DEF Stays, Unwatch, run, rows, Op
      <3>2. ~Admit(w)
        BY <1>0, <1>1 DEF Admit, GoTo
      <3> QED
        BY <1>1, <2>1, <3>1, <3>2
    <2>5. CASE Insert(w) \/ Look(w) \/ Skip(w) \/ Settle(w) \/ Prepare(w) \/ Create(w) \/ Observe(w)
      <3>1. pc'[w] \in {"idle", "stop", "send", "creating", "settle"}
        BY <1>0, <2>5 DEF Insert, Look, Skip, AtStop, Settle, Prepare, Create, Observe, GoTo
      <3> QED
        BY <1>1, <3>1
    <2>6. CASE Leaves(w) \/ Crash
      BY <1>0, <1>1, <2>6 DEF Leaves, Crash
    <2> QED
      BY <2>2, <2>3, <2>4, <2>5, <2>6, WatchMoves
  <1>2. ASSUME Alive(w)', (Op(w))' # 0, (Op(w))' \in Told',
               operation'[(Op(w))'] = "none", pc'[w] \notin {"note", "settle"}
        PROVE  (Op(w))' \in cut'
    <2>1. (Op(w))' = Op(w) /\ Op(w) # 0
      BY <1>2, OpStays
    <2>2. /\ Op(w) \in 1..Len(issued) /\ Op(w) \in Ops
          /\ terms[w].delivery = "wake"
      <3>1. Op(w) \in 1..Len(issued) /\ terms[w].delivery = "wake"
        BY <1>0, <2>1 DEF Issues, Op
      <3>2. Op(w) \in Ops
        BY <1>0, <3>1, WatchAssumption DEF Ops
      <3> QED
        BY <3>1, <3>2
    <2>3. operation[Op(w)] = "none"
      BY <1>2, <2>1, <2>2, OperationMoves
    <2>4. pc[w] \notin Unborn
      BY <1>0, <2>1 DEF Stands, Op
    <2>5. Op(w) \in Told
      <3> SUFFICES ASSUME Op(w) \notin Told PROVE FALSE
        OBVIOUS
      <3>1. PICK v \in Watches : (Queues(v) \/ Admit(v)) /\ Op(v) = Op(w)
        BY <1>2, <2>1, Telling
      <3>2. v = w
        BY <2>1, <3>1, OneOwner
      <3>3. CASE Queues(w)
        BY <1>0, <1>2, <3>3 DEF Queues, InsertRow, GoTo
      <3>4. CASE Admit(w)
        BY <1>0, <1>2, <2>1, <2>2, <3>4 DEF Admit
      <3> QED
        BY <3>1, <3>2, <3>3, <3>4
    <2>6. Alive(w)
      <3>1. CASE pc'[w] \notin Busy /\ w \in armed'
        <4>1. armed' \subseteq armed \/ Insert(w) \/ \E v \in Watches : v # w /\ Drain(v)
          <5>1. ASSUME NEW v \in Watches, Drain(v), ~Insert(v) PROVE armed' \subseteq armed
            BY <5>1 DEF Drain, rows, Begin, Look, LeaveBatch, Skip, Hold, Observe, Prepare, LookUp,
               LookUpFails, Refuse, Throw, Route, Join, Behind, InsertRow, NoteRow, Answered, Admit,
               Confirm, Decline, Settle
          <5> QED
            BY <5>1, SourceStays DEF Next, vars, rows, Kick, Create, CreateAgain, Dispatch,
               Unwatch, Write, StopPause, TargetStops, Resolve, Crash
        <4>2. CASE Insert(w)
          BY <2>4, <4>2 DEF Insert, Unborn
        <4>3. ASSUME NEW v \in Watches, v # w, Drain(v) PROVE w \in armed
          BY <3>1, <4>3, OthersStay DEF Stays
        <4> QED
          BY <3>1, <4>1, <4>2, <4>3 DEF Alive
      <3>2. CASE pc'[w] \in Busy
        <4>1. CASE Insert(w) \/ Look(w) \/ Skip(w) \/ Settle(w) \/ Create(w)
          BY <1>0, <3>2, <4>1 DEF Insert, Look, Skip, AtStop, Settle, Create, GoTo, Busy
        <4>2. CASE Prepare(w) \/ Observe(w)
          BY <4>2 DEF Prepare, Observe, AtStop, Alive
        <4>3. CASE Sends(w) \/ Stays(w) \/ Unwatch(w)
          BY <3>2, <4>3 DEF Sends, Stays, Unwatch, run, Alive
        <4>4. CASE Leaves(w) \/ Crash
          BY <1>0, <3>2, <4>4 DEF Leaves, Crash, Busy
        <4> QED
          BY <4>1, <4>2, <4>3, <4>4, WatchMoves
      <3> QED
        BY <1>2, <3>1, <3>2 DEF Alive
    <2>7. CASE pc[w] \notin {"note", "settle"}
      BY <1>0, <2>1, <2>3, <2>5, <2>6, <2>7, CutGrows DEF SendsOnce
    <2>8. CASE pc[w] \in {"note", "settle"} /\ Crash
      <3>1. w \in armed
        <4>1. pc'[w] \notin Busy /\ UNCHANGED armed
          BY <1>0, <2>8 DEF Crash, Busy, rows
        <4> QED
          BY <1>2, <4>1 DEF Alive
      <3>2. Torn(w)
        BY <2>2, <2>3, <2>8 DEF Torn
      <3> QED
        BY <2>1, <2>8, <3>1, <3>2 DEF Crash
    <2>9. CASE pc[w] = "note" /\ ~Crash
      <3>1. ~Drain(w)
        <4> SUFFICES ASSUME Drain(w) PROVE FALSE
          OBVIOUS
        <4>1. NoteRow(w)
          BY <2>9 DEF Drain, Insert, Begin, Look, LeaveBatch, Skip, Hold, Observe, Prepare, LookUp,
             LookUpFails, Refuse, Throw, Route, Join, Behind, InsertRow, Answered, Admit,
             Confirm, Decline, Settle, AtStop
        <4> QED
          BY <1>0, <1>2, <4>1 DEF NoteRow, GoTo
      <3>2. Stays(w) \/ Unwatch(w)
        BY <2>9, <3>1, WatchMoves DEF Sends, Leaves, Drain, Create
      <3> QED
        BY <1>2, <2>9, <3>2 DEF Stays, Unwatch, run
    <2>10. CASE pc[w] = "settle" /\ ~Crash
      <3>1. CASE Drain(w)
        <4>1. Settle(w)
          BY <2>10, <3>1
             DEF Drain, Insert, Begin, Look, LeaveBatch, Skip, Hold, Observe, Prepare, LookUp,
             LookUpFails, Refuse, Throw, Route, Join, Behind, InsertRow, NoteRow, Answered, Admit,
             Confirm, Decline, AtStop
        <4>2. pc'[w] \notin Busy
          BY <1>0, <4>1 DEF Settle, GoTo, Busy
        <4>3. w \in armed'
          BY <1>2, <4>2 DEF Alive
        <4>4. pending' = [pending EXCEPT ![w] = None]
          BY <4>1, <4>3 DEF Settle, Advance
        <4>5. (Op(w))' = 0
          <5>1. pending'[w] = None
            BY <4>4 DEF Inv, Types, TypeRows
          <5> QED
            BY <5>1 DEF Op, None
        <4> QED
          BY <1>2, <4>5
      <3>2. CASE ~Drain(w)
        <4>1. Stays(w) \/ Unwatch(w)
          BY <2>10, <3>2, WatchMoves DEF Sends, Leaves, Drain, Create
        <4> QED
          BY <1>2, <2>10, <4>1 DEF Stays, Unwatch, run
      <3> QED
        BY <3>1, <3>2
    <2> QED
      BY <2>7, <2>8, <2>9, <2>10
  <1> QED
    BY <1>1, <1>2 DEF SendsOnce, Alive, Busy, Op, Told, Values

\* What a drain decides to send again was cut by a crash.
LEMMA DecidesOnce ==
  ASSUME Inv, Sending, NEW w \in Watches, Queues(w) \/ Admit(w), Op(w) \in Told
  PROVE  Op(w) \in cut
  <1>1. pc[w] \in {"insert", "admit"}
    BY DEF Queues, InsertRow, Admit
  <1>2. Op(w) \in Ops /\ Op(w) # 0
    BY <1>1, SendingHasId DEF Inv, Standing, Stands, Busy
  <1>3. SendsOnce(w)
    BY DEF Sending
  <1> QED
    BY <1>1, <1>2, <1>3 DEF SendsOnce, Alive, Busy

\* A message that is admitted or queued a second time was cut by a crash.
LEMMA OnceStep == ASSUME Inv, Sending, Once, [Next]_vars PROVE Once'
  <1> DEFINE Twice(s, c) == \A i, j \in 1..Len(s) : i # j /\ s[i] = s[j] => s[i] \in c
  <1>0. /\ cut \subseteq cut' /\ admitted \in Seq(Ops) /\ queue \in Seq(Ops)
        /\ Twice(admitted, cut) /\ Values(admitted) \cap Values(queue) \subseteq cut
    BY CutGrows DEF Inv, Types, TypeTarget, Once
  <1>1. ASSUME NEW op \in Ops, admitted' = Append(admitted, op),
               op \in Values(admitted) => op \in cut
        PROVE  Twice(admitted', cut')
    <2> SUFFICES ASSUME NEW i \in 1..Len(admitted'), NEW j \in 1..Len(admitted'),
                        i # j, admitted'[i] = admitted'[j]
                 PROVE  admitted'[i] \in cut'
      OBVIOUS
    <2>1. Len(admitted) \in Nat /\ Len(admitted') = Len(admitted) + 1
          /\ admitted'[Len(admitted) + 1] = op
          /\ \A k \in 1..Len(admitted) : admitted'[k] = admitted[k] /\ admitted[k] \in Values(admitted)
      BY <1>0, <1>1, AppendProperties DEF Values
    <2>2. CASE i \in 1..Len(admitted) /\ j \in 1..Len(admitted)
      BY <1>0, <2>1, <2>2
    <2>3. CASE i = Len(admitted) + 1 \/ j = Len(admitted) + 1
      <3>1. op \in Values(admitted) /\ admitted'[i] = op
        BY <2>1, <2>3
      <3> QED
        BY <1>0, <1>1, <3>1
    <2> QED
      BY <2>1, <2>2, <2>3
  <1>2. Twice(admitted', cut') /\ Values(admitted') \cap Values(queue') \subseteq cut'
    <2>1. CASE UNCHANGED <<admitted, queue>>
      <3>1. Values(admitted') = Values(admitted) /\ Values(queue') = Values(queue)
        BY <2>1
      <3> QED
        BY <1>0, <2>1, <3>1
    <2>2. ASSUME NEW w \in Watches, Queues(w)
          PROVE  Twice(admitted', cut') /\ Values(admitted') \cap Values(queue') \subseteq cut'
      <3>1. Op(w) \in Ops
        BY <2>2, SendingHasId DEF Queues, InsertRow, Inv, Standing, Stands, Busy
      <3>2. admitted' = admitted /\ Values(queue') = Values(queue) \cup {Op(w)}
        BY <1>0, <2>2, <3>1, AppendValues DEF Queues
      <3>3. Op(w) \in Values(admitted) => Op(w) \in cut
        BY <2>2, DecidesOnce DEF Told
      <3>4. Values(admitted') = Values(admitted)
        BY <3>2
      <3> QED
        BY <1>0, <3>2, <3>3, <3>4
    <2>3. ASSUME NEW w \in Watches, Admit(w)
          PROVE  Twice(admitted', cut') /\ Values(admitted') \cap Values(queue') \subseteq cut'
      <3>1. Op(w) \in Ops
        BY <2>3, SendingHasId DEF Admit, Inv, Standing, Stands, Busy
      <3>2. queue' = queue /\ admitted' = Append(admitted, Op(w))
        BY <2>3 DEF Admit
      <3>3. Values(admitted') = Values(admitted) \cup {Op(w)}
        BY <1>0, <3>1, <3>2, AppendValues
      <3>4. Op(w) \in Told => Op(w) \in cut
        BY <2>3, DecidesOnce
      <3>5. Values(queue') = Values(queue)
        BY <3>2
      <3> QED
        BY <1>0, <1>1, <3>1, <3>2, <3>3, <3>4, <3>5 DEF Told
    <2>4. CASE Dispatch
      <3>1. queue # <<>> /\ queue' = Tail(queue) /\ admitted' = Append(admitted, Head(queue))
        BY <2>4 DEF Dispatch
      <3>2. /\ Values(queue) = {Head(queue)} \cup Values(Tail(queue))
            /\ Head(queue) \in Ops /\ Head(queue) = queue[1] /\ Len(queue) >= 1
            /\ Len(Tail(queue)) = Len(queue) - 1
            /\ \A i \in 1..Len(Tail(queue)) : Tail(queue)[i] = queue[i + 1]
        BY <1>0, <3>1, TailValues
      <3>3. Values(admitted') = Values(admitted) \cup {Head(queue)}
        BY <1>0, <3>1, <3>2, AppendValues
      <3>4. Head(queue) \notin Values(Tail(queue))
        <4> SUFFICES ASSUME NEW i \in 1..Len(Tail(queue)), Tail(queue)[i] = Head(queue)
                     PROVE  FALSE
          BY DEF Values
        <4>1. i + 1 \in 1..Len(queue) /\ 1 \in 1..Len(queue) /\ queue[i + 1] = queue[1]
          BY <1>0, <3>2
        <4>2. i + 1 = 1
          BY <4>1 DEF Inv, QueueDiffers
        <4> QED
          BY <4>2
      <3>5. Head(queue) \in Values(admitted) => Head(queue) \in cut
        BY <1>0, <3>2
      <3>6. Twice(admitted', cut')
        BY <1>1, <3>1, <3>2, <3>5
      <3> QED
        BY <1>0, <3>1, <3>2, <3>3, <3>4, <3>6
    <2> QED
      BY <2>1, <2>2, <2>3, <2>4, MessagesMove
  <1>3. \A i, j \in 1..Len(fired') : i # j => fired'[i] # fired'[j]
    <2>0. fired \in Seq(Watches \X (1..(MaxStops + 1))) /\ fired' \in Seq(Watches \X (1..(MaxStops + 1)))
      BY Firing DEF Inv, Types, TypeTarget
    <2>1. CASE UNCHANGED fired
      BY <2>1 DEF Once
    <2>2. ASSUME NEW event, event \notin Values(fired), fired' = Append(fired, event),
                 NEW i \in 1..Len(fired'), NEW j \in 1..Len(fired'), i # j
          PROVE  fired'[i] # fired'[j]
      <3>1. /\ Len(fired) \in Nat /\ Len(fired') = Len(fired) + 1
            /\ fired'[Len(fired) + 1] = event
            /\ \A k \in 1..Len(fired) : fired'[k] = fired[k] /\ fired[k] # event
        BY <2>0, <2>2, AppendProperties DEF Values
      <3> QED
        BY <2>2, <3>1 DEF Once
    <2> QED
      BY <2>1, <2>2, Firing
  <1> QED
    BY <1>2, <1>3 DEF Once

\* The places of a message among those admitted and those queued.
LEMMA Places ==
  ASSUME Inv, NEW i \in 1..Len(Wakes)
  PROVE  \/ i \in 1..Len(admitted) /\ Wakes[i] = admitted[i]
         \/ /\ i \notin 1..Len(admitted) /\ i - Len(admitted) \in 1..Len(queue)
            /\ Wakes[i] = queue[i - Len(admitted)]
  BY ConcatProperties DEF Inv, Types, TypeTarget, Wakes

\* A stop is reported once, unless a crash tore its queueing.
LEMMA OnceMeans == Inv /\ Once => ReportedOnce
  <1> SUFFICES ASSUME Inv, Once, NEW i \in 1..Len(Wakes), NEW j \in 1..Len(Wakes), i # j,
                      issued[Wakes[i]] = issued[Wakes[j]]
               PROVE  Wakes[i] \in cut
    BY DEF ReportedOnce, Once
  <1>0. /\ Len(admitted) \in Nat /\ Len(queue) \in Nat /\ i \in Int /\ j \in Int
        /\ \A k \in 1..Len(admitted) : admitted[k] \in Values(admitted)
        /\ \A k \in 1..Len(queue) : queue[k] \in Values(queue)
    <2>1. Len(admitted) \in Nat /\ Len(queue) \in Nat
      BY DEF Inv, Types, TypeTarget
    <2>2. i \in Int /\ j \in Int
      OBVIOUS
    <2> QED
      BY <2>1, <2>2 DEF Values
  <1>1. Wakes[i] \in Told /\ Wakes[j] \in Told
    <2>1. ASSUME NEW k \in 1..Len(Wakes) PROVE Wakes[k] \in Told
      <3>1. \/ k \in 1..Len(admitted) /\ Wakes[k] = admitted[k]
            \/ k - Len(admitted) \in 1..Len(queue) /\ Wakes[k] = queue[k - Len(admitted)]
        BY Places
      <3>2. CASE k \in 1..Len(admitted) /\ Wakes[k] = admitted[k]
        BY <1>0, <3>2 DEF Told
      <3>3. CASE k - Len(admitted) \in 1..Len(queue) /\ Wakes[k] = queue[k - Len(admitted)]
        <4>1. PICK n \in 1..Len(queue) : Wakes[k] = queue[n]
          BY <3>3
        <4>2. queue[n] \in Values(queue)
          BY DEF Values
        <4> QED
          BY <4>1, <4>2 DEF Told
      <3> QED
        BY <3>1, <3>2, <3>3
    <2> QED
      BY <2>1
  <1>2. Wakes[i] = Wakes[j]
    BY <1>1 DEF Inv, Remembering, Issuing, IdsDiffer
  <1>3. CASE i \in 1..Len(admitted) /\ j \in 1..Len(admitted)
    BY <1>2, <1>3, Places DEF Once
  <1>4. CASE i \notin 1..Len(admitted) /\ j \notin 1..Len(admitted)
    <2>1. i - Len(admitted) = j - Len(admitted)
      BY <1>2, <1>4, Places DEF Inv, QueueDiffers
    <2> QED
      BY <1>0, <2>1
  <1>5. CASE ~(i \in 1..Len(admitted) <=> j \in 1..Len(admitted))
    <2>1. Wakes[i] \in Values(admitted) \cap Values(queue)
      BY <1>0, <1>2, <1>5, Places
    <2> QED
      BY <2>1 DEF Once
  <1> QED
    BY <1>3, <1>4, <1>5

\* Every stop is reported once to a watch.
THEOREM StopsAreReportedOnce == Spec => []ReportedOnce
  <1>1. Init => Sending /\ Once
    BY DEF Init, Sending, Answering, SendsOnce, Once, Op, None, Values
  <1>2. Inv /\ Sending /\ [Next]_vars => Sending'
    BY AnsweringStep, SendsOnceStep DEF Sending
  <1>3. Inv /\ Sending /\ Once /\ [Next]_vars => Once'
    BY OnceStep
  <1> QED
    BY <1>1, <1>2, <1>3, OnceMeans, InvHolds, PTL DEF Spec

\* Only a crash tears the queueing of a wake.
LEMMA OnlyCrashesCut == ASSUME [Next]_vars PROVE cut' = cut \/ crashes < MaxCrashes
  <1>1. UNCHANGED cut \/ Crash
    BY WhoMoves
  <1> QED
    BY <1>1 DEF Crash

\* A wake is admitted twice only where the process dies: failing sends, pauses,
\* retries and recovered operations alone never repeat one. The crash that does
\* repeat it falls between the row and its event (enqueueMessage, sessions.ts
\* 7443 and 7451).
THEOREM OnlyCrashesRepeatWakes == MaxCrashes = 0 => (Spec => []WakeOnce)
  <1> SUFFICES ASSUME MaxCrashes = 0
               PROVE  Spec => []WakeOnce
    OBVIOUS
  <1>1. Init => cut = {}
    BY DEF Init
  <1>2. Inv /\ cut = {} /\ [Next]_vars => (cut = {})'
    BY OnlyCrashesCut DEF Inv, Types, TypeTarget
  <1>3. ReportedOnce /\ cut = {} => WakeOnce
    BY DEF ReportedOnce, WakeOnce
  <1> QED
    BY <1>1, <1>2, <1>3, StopsAreReportedOnce, InvHolds, PTL DEF Spec

\* What a drain sends stands for a stop behind every one its watch reported.
LEMMA SentLast ==
  ASSUME Inv, NEW w \in Watches, Queues(w) \/ Admit(w), NEW op \in Told
  PROVE  NotAfter(op, Op(w))
  <1>1. pc[w] \in Busy /\ terms[w].delivery = "wake"
    BY DEF Queues, InsertRow, Admit, Inv, Standing, Stands, Busy
  <1>2. issued[Op(w)] = <<w, cursor[w] + 1>> /\ Alive(w) /\ Issues(w)
    BY <1>1, SendingHasId DEF Alive, Inv, Issuing
  <1>3. op \in 1..Len(issued) /\ cursor[w] \in Nat
    BY DEF Inv, Remembering, Types, TypeRows
  <1>4. issued[op][2] \in Nat
    BY <1>3 DEF Inv, Types, TypeRows
  <1>5. ASSUME issued[op][1] = w PROVE issued[op][2] <= cursor[w] \/ op = Op(w)
    BY <1>2, <1>3, <1>5 DEF Issues, Op
  <1> QED
    BY <1>2, <1>3, <1>4, <1>5 DEF NotAfter

\* The order of what was told stays, and what is told now comes last.
LEMMA OrderingStep == ASSUME Inv, Ordering, [Next]_vars PROVE Ordering'
  <1>0. /\ admitted \in Seq(Ops) /\ queue \in Seq(Ops)
        /\ \A k \in 1..Len(admitted) : admitted[k] \in Values(admitted)
        /\ \A k \in 1..Len(queue) : queue[k] \in Values(queue)
    BY DEF Inv, Types, TypeTarget, Values
  <1>1. \A a \in Told, b \in Told : (NotAfter(a, b))' <=> NotAfter(a, b)
    BY IssuedGrows DEF Inv, Remembering, NotAfter
  <1> DEFINE Sorted(s) == \A i, j \in 1..Len(s) : i < j => NotAfter(s[i], s[j])
             Goal == /\ Sorted(admitted)' /\ Sorted(queue)'
                     /\ \A a \in Values(admitted'), q \in Values(queue') : (NotAfter(a, q))'
  <1>2. ASSUME NEW s \in Seq(Ops), Values(s) \subseteq Told, Sorted(s), NEW op \in Told',
               NEW t, t = Append(s, op), \A a \in Values(s) : (NotAfter(a, op))'
        PROVE  \A i, j \in 1..Len(t) : i < j => (NotAfter(t[i], t[j]))'
    <2> SUFFICES ASSUME NEW i \in 1..Len(t), NEW j \in 1..Len(t), i < j
                 PROVE  (NotAfter(t[i], t[j]))'
      OBVIOUS
    <2>1. op \in Ops
      BY Telling DEF Told, Values
    <2>2. /\ Len(s) \in Nat /\ Len(t) = Len(s) + 1 /\ t[Len(s) + 1] = op
          /\ \A k \in 1..Len(s) : t[k] = s[k] /\ s[k] \in Values(s)
      BY <1>2, <2>1, AppendProperties DEF Values
    <2>3. i \in 1..Len(s)
      BY <2>2
    <2>4. CASE j \in 1..Len(s)
      BY <1>1, <1>2, <2>2, <2>3, <2>4
    <2>5. CASE j = Len(s) + 1
      BY <1>2, <2>2, <2>3, <2>5
    <2> QED
      BY <2>2, <2>4, <2>5
  <1>3. Goal
    <2>1. CASE UNCHANGED <<admitted, queue>>
      <3>1. /\ Values(admitted') = Values(admitted) /\ Values(queue') = Values(queue)
        BY <2>1
      <3> QED
        BY <1>0, <1>1, <2>1, <3>1 DEF Ordering, Told
    <2>2. ASSUME NEW w \in Watches, Queues(w) \/ Admit(w), NEW op, op = Op(w)
          PROVE  op \in Ops /\ op \in Told' /\ \A a \in Told : (NotAfter(a, op))'
      <3>1. issued' = issued
        BY <2>2 DEF Queues, InsertRow, Admit, rows
      <3>2. op \in Ops
        BY <2>2, SendingHasId DEF Queues, InsertRow, Admit, Inv, Standing, Stands, Busy
      <3>3. \A a \in Told : NotAfter(a, op)
        BY <2>2, SentLast
      <3>4. CASE Queues(w)
        <4>1. queue' = Append(queue, op)
          BY <2>2, <3>4 DEF Queues
        <4>2. op \in Values(queue')
          BY <1>0, <3>2, <4>1, AppendValues
        <4> QED
          BY <3>1, <3>2, <3>3, <4>2 DEF NotAfter, Told
      <3>5. CASE Admit(w)
        <4>1. admitted' = Append(admitted, op)
          BY <2>2, <3>5 DEF Admit
        <4>2. op \in Values(admitted')
          BY <1>0, <3>2, <4>1, AppendValues
        <4> QED
          BY <3>1, <3>2, <3>3, <4>2 DEF NotAfter, Told
      <3> QED
        BY <2>2, <3>4, <3>5
    <2>3. ASSUME NEW w \in Watches, Queues(w) PROVE Goal
      <3>1. PICK op : op = Op(w)
        OBVIOUS
      <3>2. op \in Ops /\ op \in Told' /\ \A a \in Told : (NotAfter(a, op))'
        BY <2>2, <2>3, <3>1
      <3>3. queue' = Append(queue, op) /\ admitted' = admitted
        BY <2>3, <3>1 DEF Queues
      <3>4. Values(queue) \subseteq Told /\ Values(admitted) \subseteq Told
        BY DEF Told
      <3>5. Sorted(queue)'
        BY <1>0, <1>2, <3>2, <3>3, <3>4 DEF Ordering
      <3>6. Sorted(admitted)'
        BY <1>0, <1>1, <3>3, <3>4 DEF Ordering
      <3>7. Values(queue') = Values(queue) \cup {op} /\ Values(admitted') = Values(admitted)
        BY <1>0, <3>2, <3>3, AppendValues
      <3>8. \A a \in Values(admitted'), q \in Values(queue') : (NotAfter(a, q))'
        BY <1>1, <3>2, <3>4, <3>7 DEF Ordering
      <3> QED
        BY <3>5, <3>6, <3>8
    <2>4. ASSUME NEW w \in Watches, Admit(w) PROVE Goal
      <3>1. PICK op : op = Op(w)
        OBVIOUS
      <3>2. op \in Ops /\ op \in Told' /\ \A a \in Told : (NotAfter(a, op))'
        BY <2>2, <2>4, <3>1
      <3>3. admitted' = Append(admitted, op) /\ queue' = queue
        BY <2>4, <3>1 DEF Admit
      <3>4. Values(queue) \subseteq Told /\ Values(admitted) \subseteq Told
        BY DEF Told
      <3>5. Sorted(admitted)'
        BY <1>0, <1>2, <3>2, <3>3, <3>4 DEF Ordering
      <3>6. Sorted(queue)'
        BY <1>0, <1>1, <3>3, <3>4 DEF Ordering
      <3>7. Values(admitted') = Values(admitted) \cup {op} /\ Values(queue') = Values(queue)
        BY <1>0, <3>2, <3>3, AppendValues
      <3>8. \A q \in Values(queue) : (NotAfter(op, q))'
        <4>1. \A q \in Values(queue) : issued[q][1] # w
          BY <2>4 DEF Admit, Ordering
        <4>2. issued' = issued /\ issued[op][1] = w
          <5>1. issued[Op(w)] = <<w, pending[w].seq>>
            BY <2>4, SendingHasId DEF Admit, Inv, Standing, Stands, Busy
          <5> QED
            BY <2>4, <3>1, <5>1 DEF Admit, rows
        <4> QED
          BY <4>1, <4>2 DEF NotAfter
      <3>9. \A a \in Values(admitted'), q \in Values(queue') : (NotAfter(a, q))'
        BY <1>1, <3>4, <3>7, <3>8 DEF Ordering
      <3> QED
        BY <3>5, <3>6, <3>9
    <2>5. CASE Dispatch
      <3>1. queue # <<>> /\ queue' = Tail(queue) /\ admitted' = Append(admitted, Head(queue))
        BY <2>5 DEF Dispatch
      <3>2. /\ Values(queue) = {Head(queue)} \cup Values(Tail(queue))
            /\ Head(queue) \in Ops /\ Head(queue) = queue[1] /\ Len(queue) >= 1
            /\ Tail(queue) \in Seq(Ops) /\ Len(Tail(queue)) = Len(queue) - 1
            /\ \A i \in 1..Len(Tail(queue)) : Tail(queue)[i] = queue[i + 1]
        BY <1>0, <3>1, TailValues
      <3>3. Values(queue) \subseteq Told /\ Values(admitted) \subseteq Told
        BY DEF Told
      <3>4. Values(admitted') = Values(admitted) \cup {Head(queue)}
        BY <1>0, <3>1, <3>2, AppendValues
      <3>5. Head(queue) \in Told /\ Head(queue) \in Told'
        BY <3>2, <3>3, Telling
      <3>7. \A i \in 1..Len(queue') : i + 1 \in 1..Len(queue) /\ queue'[i] = queue[i + 1]
                                      /\ queue'[i] \in Told
        <4> SUFFICES ASSUME NEW i \in 1..Len(queue')
                     PROVE  i + 1 \in 1..Len(queue) /\ queue'[i] = queue[i + 1]
                            /\ queue[i + 1] \in Told
          OBVIOUS
        <4>1. i + 1 \in 1..Len(queue) /\ queue'[i] = queue[i + 1]
          BY <1>0, <3>1, <3>2
        <4> QED
          BY <1>0, <3>3, <4>1
      <3>8. Sorted(queue)'
        <4> SUFFICES ASSUME NEW i \in 1..Len(queue'), NEW j \in 1..Len(queue'), i < j
                     PROVE  (NotAfter(queue[i], queue[j]))'
          OBVIOUS
        <4>1. i + 1 < j + 1 /\ i + 1 \in 1..Len(queue) /\ j + 1 \in 1..Len(queue)
          BY <3>7
        <4>2. NotAfter(queue[i + 1], queue[j + 1])
          BY <4>1 DEF Ordering
        <4>3. NotAfter(queue'[i], queue'[j]) /\ queue'[i] \in Told /\ queue'[j] \in Told
          BY <3>7, <4>2
        <4> QED
          BY <1>1, <4>3
      <3>9. \A q \in Values(queue') : q \in Told /\ NotAfter(Head(queue), q)
        <4> SUFFICES ASSUME NEW i \in 1..Len(queue')
                     PROVE  queue'[i] \in Told /\ NotAfter(Head(queue), queue'[i])
          BY DEF Values
        <4>1. /\ 1 \in 1..Len(queue) /\ i + 1 \in 1..Len(queue) /\ 1 < i + 1
              /\ queue'[i] = queue[i + 1] /\ queue'[i] \in Told
          BY <3>7
        <4>2. NotAfter(queue[1], queue[i + 1])
          BY <4>1 DEF Ordering
        <4> QED
          BY <3>2, <4>1, <4>2
      <3>10. PICK head : head = Head(queue)
        OBVIOUS
      <3>11. \A a \in Values(admitted) : (NotAfter(a, head))'
        BY <1>1, <3>2, <3>3, <3>5, <3>10 DEF Ordering
      <3>12. Sorted(admitted)'
        BY <1>0, <1>2, <3>1, <3>3, <3>5, <3>10, <3>11 DEF Ordering
      <3>13. \A a \in Values(admitted'), q \in Values(queue') : (NotAfter(a, q))'
        <4>1. \A q \in Values(queue') : q \in Values(queue)
          BY <3>1, <3>2
        <4>2. \A a \in Values(admitted'), q \in Values(queue') :
                  NotAfter(a, q) /\ a \in Told /\ q \in Told
          BY <3>3, <3>4, <3>5, <3>9, <4>1 DEF Ordering
        <4> QED
          BY <1>1, <4>2
      <3> QED
        BY <3>8, <3>12, <3>13
    <2> QED
      BY <2>1, <2>2, <2>3, <2>4, <2>5, MessagesMove
  <1>4. ASSUME NEW w \in Watches, pc'[w] = "admit", NEW q \in Values(queue')
        PROVE  issued'[q][1] # w
    <2>1. pc[w] = "admit" \/ (Join(w) /\ queue' = <<>>)
      <3>1. CASE Drain(w)
        <4>1. pc \in [Watches -> {"new", "creating", "idle", "loop", "stop", "send", "route",
                           "join", "admit", "insert", "note", "answer", "settle"}]
          BY DEF Inv, Types, TypeDrains
        <4>2. Join(w)
          BY <1>4, <3>1, <4>1
             DEF Drain, Insert, Begin, Look, LeaveBatch, Skip, Hold, Observe, Prepare, LookUp,
             LookUpFails, Refuse, Throw, Route, Behind, InsertRow, NoteRow, Answered, Admit,
             Confirm, Decline, Settle, GoTo, AtStop
        <4> QED
          BY <1>4, <4>1, <4>2 DEF Join, GoTo, MustQueue, target
      <3>2. CASE Create(w) \/ Crash
        BY <1>4, <3>2 DEF Create, Crash, Inv, Types, TypeDrains
      <3>3. CASE Unwatch(w) \/ Stays(w)
        BY <1>4, <3>3 DEF Unwatch, Stays, run
      <3> QED
        BY <3>1, <3>2, <3>3, WatchMoves DEF Drain, Sends, Leaves
    <2>2. CASE Join(w) /\ queue' = <<>>
      BY <1>4, <2>2 DEF Values
    <2>3. CASE pc[w] = "admit" /\ q \in Values(queue)
      <3>1. issued[q][1] # w
        BY <2>3 DEF Ordering
      <3>2. issued'[q] = issued[q]
        BY <2>3, IssuedGrows DEF Inv, Remembering, Told
      <3> QED
        BY <3>1, <3>2
    <2>4. CASE pc[w] = "admit" /\ q \notin Values(queue)
      <3>1. CASE UNCHANGED <<admitted, queue>> \/ \E v \in Watches : Admit(v)
        <4>1. queue' = queue
          BY <3>1 DEF Admit
        <4> QED
          BY <1>4, <2>4, <4>1
      <3>2. CASE Dispatch
        BY <1>0, <1>4, <2>4, <3>2, TailValues DEF Dispatch
      <3>3. ASSUME NEW v \in Watches, Queues(v) PROVE issued'[q][1] # w
        <4>1. Op(v) \in Ops /\ issued[Op(v)] = <<v, pending[v].seq>>
          BY <3>3, SendingHasId DEF Queues, InsertRow, Inv, Standing, Stands, Busy
        <4>2. Values(queue') = Values(queue) \cup {Op(v)} /\ issued' = issued /\ pc[v] = "insert"
          BY <1>0, <3>3, <4>1, AppendValues DEF Queues, InsertRow, rows
        <4> QED
          BY <1>4, <2>4, <4>1, <4>2
      <3> QED
        BY <3>1, <3>2, <3>3, MessagesMove
    <2> QED
      BY <2>1, <2>2, <2>3, <2>4
  <1> QED
    BY <1>3, <1>4 DEF Ordering

\* What the target was told is in the order of what it will be told.
LEMMA OrderMeans == Inv /\ Ordering => InOrder
  <1> SUFFICES ASSUME Inv, Ordering, NEW i \in 1..Len(Wakes), NEW j \in 1..Len(Wakes), i < j
               PROVE  NotAfter(Wakes[i], Wakes[j])
    BY DEF InOrder, NotAfter
  <1>0. Len(admitted) \in Nat /\ Len(queue) \in Nat /\ i \in Int /\ j \in Int
    <2>1. Len(admitted) \in Nat /\ Len(queue) \in Nat
      BY DEF Inv, Types, TypeTarget
    <2>2. i \in Int /\ j \in Int
      OBVIOUS
    <2> QED
      BY <2>1, <2>2
  <1>1. CASE j \in 1..Len(admitted)
    <2>1. i \in 1..Len(admitted)
      BY <1>0, <1>1
    <2>2. Wakes[i] = admitted[i] /\ Wakes[j] = admitted[j]
      BY <1>1, <2>1, Places
    <2> QED
      BY <1>1, <2>1, <2>2 DEF Ordering
  <1>2. CASE i \in 1..Len(admitted) /\ j \notin 1..Len(admitted)
    <2>1. PICK l \in 1..Len(queue) : Wakes[j] = queue[l]
      BY <1>2, Places
    <2>2. Wakes[i] \in Values(admitted) /\ Wakes[j] \in Values(queue)
      BY <1>2, <2>1, Places DEF Values
    <2> QED
      BY <2>2 DEF Ordering
  <1>3. CASE i \notin 1..Len(admitted) /\ j \notin 1..Len(admitted)
    <2>1. PICK k, l : /\ k \in 1..Len(queue) /\ l \in 1..Len(queue) /\ k < l
                      /\ Wakes[i] = queue[k] /\ Wakes[j] = queue[l]
      <3>1. /\ i - Len(admitted) \in 1..Len(queue) /\ Wakes[i] = queue[i - Len(admitted)]
            /\ j - Len(admitted) \in 1..Len(queue) /\ Wakes[j] = queue[j - Len(admitted)]
        BY <1>3, Places
      <3>2. i - Len(admitted) < j - Len(admitted)
        BY <1>0
      <3> QED
        BY <3>1, <3>2
    <2> QED
      BY <2>1 DEF Ordering
  <1> QED
    BY <1>1, <1>2, <1>3

\* The target hears of the stops of a source in the order they happened.
THEOREM StopsAreInOrder == Spec => []InOrder
  <1>1. Init => Ordering
    BY DEF Init, Ordering, Values
  <1> QED
    BY <1>1, OrderingStep, OrderMeans, InvHolds, PTL DEF Spec

-----------------------------------------------------------------------------
(* No kick is lost. Nothing polls the log of the source, and not every stop *)
(* is announced: a watch that is behind what was announced and does not run *)
(* must have been told to, or have a reason to wait for what tells it next. *)

\* A drain of the watch is on its way.
Rung(w) == notices > 0 \/ drains[w] > 0

\* The running pass saw all that was announced, and the pause it saw still
\* lasts; a full batch looks again.
Fresh(w) ==
    /\ local[w].full \/ local[w].upto >= told \/ Rung(w)
    /\ local[w].held => paused \/ Rung(w)

\* An armed watch at rest has caught up with what was announced, is held by a
\* pause or gave up with an exception, unless a drain of it is on its way.
KicksArrive ==
    \A w \in armed : pc[w] = "idle" =>
        cursor[w] >= told \/ paused \/ w \in failed \/ Rung(w)

Waking ==
    /\ KicksArrive
    /\ \A w \in armed : pc[w] \in Busy \cup {"stop"} => Fresh(w)

\* A person's pause and a running turn exclude one another, and only a running
\* turn has a call in flight.
Quiets ==
    /\ active => ~paused
    /\ \A op \in Ops : operation[op] = "executing" => active
    /\ \A o, p \in Ops : operation[o] = "executing" /\ operation[p] = "executing" => o = p

\* What moves the turn and the pause of the target.
LEMMA TurnMoves ==
  ASSUME Inv, [Next]_vars
  PROVE  \/ UNCHANGED <<paused, active, operation>>
         \/ \E w \in Watches : Admit(w) \/ Confirm(w) \/ Decline(w)
         \/ Dispatch \/ Write \/ StopPause \/ Crash
         \/ \E pausing \in BOOLEAN : TargetStops(pausing)
         \/ \E op \in Ops : \E state \in {"confirmed", "rejected"} : Resolve(op, state)
  <1>1. ASSUME NEW w \in Watches, Drain(w), ~Admit(w), ~Confirm(w), ~Decline(w)
        PROVE  UNCHANGED <<paused, active, operation>>
    BY <1>1
    DEF Drain, target, Insert, Begin, Look, LeaveBatch, Skip, Hold, Observe, Prepare, LookUp,
        InsertRow, LookUpFails, Refuse, Throw, Route, Join, Behind, NoteRow, Settle
  <1> QED
    BY <1>1, SourceStays DEF Next, vars, target, Kick, Create, CreateAgain, Unwatch

\* A pause ends before a turn starts, and a call ends before its turn does.
LEMMA QuietsStep == ASSUME Inv, Quiets, [Next]_vars PROVE Quiets'
  <1> USE DEF Quiets
  <1>0. operation \in [Ops -> {"none", "executing", "confirmed", "unknown", "rejected"}]
    BY DEF Inv, Types, TypeTarget
  <1>1. ASSUME NEW w \in Watches, Admit(w) PROVE Quiets'
    <2>1. /\ \A op \in Ops : operation[op] # "executing"
          /\ operation' = [operation EXCEPT ![Op(w)] = "executing"]
          /\ active' = TRUE /\ paused' = FALSE
      BY <1>1 DEF Admit, Blocked
    <2> QED
      BY <1>0, <2>1
  <1>2. ASSUME NEW w \in Watches, NEW state \in {"confirmed", "rejected", "unknown"},
               Answered(w, state), pc[w] = "answer"
        PROVE  Quiets'
    <2>1. Op(w) \in Ops
      BY <1>2, SendingHasId DEF Inv, Standing, Stands, Busy
    <2>2. /\ operation[Op(w)] = "executing"
          /\ operation' = [operation EXCEPT ![Op(w)] = state]
          /\ paused' = paused
      BY <1>2 DEF Answered
    <2>3. ~paused /\ \A op \in Ops : operation'[op] # "executing"
      BY <1>0, <2>1, <2>2
    <2> QED
      BY <2>2, <2>3
  <1>3. CASE Dispatch \/ Write
    <2>1. /\ \A op \in Ops : operation[op] # "executing"
          /\ active' = TRUE /\ ~paused' /\ operation' = operation
      BY <1>3 DEF Dispatch, Write, Blocked
    <2> QED
      BY <2>1
  <1>4. CASE StopPause
    BY <1>4 DEF StopPause
  <1>5. ASSUME NEW pausing \in BOOLEAN, TargetStops(pausing) PROVE Quiets'
    BY <1>5 DEF TargetStops, Settled
  <1>6. ASSUME NEW op \in Ops, NEW state \in {"confirmed", "rejected"}, Resolve(op, state)
        PROVE  Quiets'
    <2>1. /\ operation' = [operation EXCEPT ![op] = state]
          /\ UNCHANGED <<paused, active>>
      BY <1>6 DEF Resolve
    <2>2. \A o \in Ops : operation'[o] = "executing" => operation[o] = "executing"
      BY <1>0, <2>1
    <2> QED
      BY <2>1, <2>2
  <1>7. CASE Crash
    <2>1. active' = FALSE /\ \A op \in Ops : operation'[op] # "executing"
      BY <1>7 DEF Crash
    <2> QED
      BY <2>1
  <1>8. CASE UNCHANGED <<paused, active, operation>>
    BY <1>8
  <1>9. ASSUME NEW w \in Watches, Confirm(w) \/ Decline(w) PROVE Quiets'
    BY <1>2, <1>9 DEF Confirm, Decline, Answered
  <1> QED
    BY <1>1, <1>3, <1>4, <1>5, <1>6, <1>7, <1>8, <1>9, TurnMoves

\* A kick that is on its way arrives; an announcement and the end of a pause
\* send one; an exception is forgotten only when a drain begins.
LEMMA RingStep ==
  ASSUME Inv, Quiets, [Next]_vars, NEW w \in armed, ~Begin(w)
  PROVE  /\ Rung(w) => Rung(w)'
         /\ UNCHANGED told \/ Rung(w)'
         /\ paused => paused' \/ Rung(w)'
         /\ w \in failed => w \in failed' \/ Rung(w)'
  <1> DEFINE Goal == /\ Rung(w) => Rung(w)'
                     /\ UNCHANGED told \/ Rung(w)'
                     /\ paused => paused' \/ Rung(w)'
                     /\ w \in failed => w \in failed' \/ Rung(w)'
  <1>0. /\ notices \in Nat /\ drains \in [Watches -> 0..1] /\ w \in Watches
    BY DEF Inv, Types, TypeSource, TypeDrains, TypeRows, MaxWaiting
  <1> USE DEF Rung
  <1>1. ASSUME NEW ws, Kicked(ws)
        PROVE  /\ w \in ws => drains'[w] > 0
               /\ drains[w] > 0 => drains'[w] > 0
    BY <1>0, <1>1 DEF Kicked, MaxWaiting
  <1>2. ASSUME NEW kind, TurnStops(kind) \/ PauseEnds(kind) PROVE Goal
    <2>1. notices' > 0
      BY <1>0, <1>2 DEF TurnStops, PauseEnds, Tell, MaxWaiting
    <2> QED
      BY <2>1
  <1>3. CASE Kick
    BY <1>1, <1>3 DEF Kick, source, target
  <1>4. ASSUME NEW v \in Watches, Insert(v) \/ CreateAgain(v) PROVE Goal
    BY <1>1, <1>4 DEF Insert, CreateAgain, source, target, rows
  <1>5. ASSUME NEW v \in Watches, Begin(v) PROVE Goal
    <2>1. v # w
      BY <1>5
    <2> QED
      BY <1>0, <1>5, <2>1 DEF Begin, source, target
  <1>6. ASSUME NEW v \in Watches, Admit(v) PROVE Goal
    <2>1. (notices' = notices /\ told' = told) \/ notices' > 0
      BY <1>0, <1>6 DEF Admit, Tell, MaxWaiting
    <2>2. paused => notices' > 0
      BY <1>0, <1>6 DEF Admit, Tell, MaxWaiting
    <2>3. UNCHANGED <<drains, failed>>
      BY <1>6 DEF Admit
    <2> QED
      BY <1>0, <2>1, <2>2, <2>3
  <1>7. ASSUME NEW v \in Watches, Confirm(v) \/ Decline(v) PROVE Goal
    BY <1>7 DEF Confirm, Decline, Answered, source
  <1>8. CASE Write \/ StopPause
    <2>1. (notices' = notices /\ told' = told) \/ notices' > 0
      BY <1>0, <1>8 DEF Write, StopPause, Tell, MaxWaiting
    <2>2. paused => notices' > 0
      BY <1>0, <1>8 DEF Write, StopPause, Tell, MaxWaiting
    <2>3. UNCHANGED <<drains, failed>>
      BY <1>8 DEF Write, StopPause, run
    <2> QED
      BY <1>0, <2>1, <2>2, <2>3
  <1>9. ASSUME NEW pausing \in BOOLEAN, TargetStops(pausing) PROVE Goal
    <2>1. ~paused
      BY <1>9 DEF TargetStops, Quiets
    <2> QED
      BY <1>9, <2>1 DEF TargetStops, run, source
  <1>10. CASE Crash
    <2>1. drains'[w] = 1
      BY <1>0, <1>10 DEF Crash
    <2> QED
      BY <2>1
  <1>11. ASSUME UNCHANGED <<told, notices, drains, paused>>, w \in failed => w \in failed'
         PROVE  Goal
    BY <1>11
  <1>12. ASSUME NEW v \in Watches, Drain(v), ~Insert(v), ~Begin(v), ~Admit(v),
                ~Confirm(v), ~Decline(v)
         PROVE  UNCHANGED <<told, notices, drains, paused>> /\ (w \in failed => w \in failed')
    BY <1>12
    DEF Drain, source, target, Look, LeaveBatch, Skip, Hold, Observe, Prepare, LookUp, InsertRow,
        LookUpFails, Refuse, Throw, Route, Join, Behind, NoteRow, Settle
  <1>13. ASSUME NEW v \in Watches, Drain(v) PROVE Goal
    BY <1>4, <1>5, <1>6, <1>7, <1>11, <1>12, <1>13
  <1>14. ASSUME NEW v \in Watches, Create(v) \/ Unwatch(v) PROVE Goal
    BY <1>14 DEF Create, Unwatch, run, source, target
  <1>15. ASSUME NEW op, NEW state, Resolve(op, state) PROVE Goal
    BY <1>15 DEF Resolve, run, source
  <1>16. CASE Dispatch \/ RepairStop \/ UNCHANGED vars
    BY <1>16 DEF Dispatch, RepairStop, vars, run, source, target
  <1>17. ASSUME NEW kind, KeepAliveStops(kind) \/ RecordStop(kind) PROVE Goal
    BY <1>17 DEF KeepAliveStops, RecordStop, run, target
  <1>18. CASE ReleaseStop
    <2>1. notices' > 0
      BY <1>0, <1>18 DEF ReleaseStop, Tell, MaxWaiting
    <2> QED
      BY <2>1
  <1> QED
    BY <1>2, <1>3, <1>4, <1>8, <1>9, <1>10, <1>13, <1>14, <1>15, <1>16, <1>17, <1>18
    DEF Next, Source

\* How a drain comes to rest: at the end of what it saw, at a pause, or with an
\* exception.
LEMMA RestMoves ==
  ASSUME Inv, NEW w \in armed, Leaves(w), ~Look(w), pc'[w] = "idle"
  PROVE  \/ /\ LeaveBatch(w) /\ pc[w] = "stop" /\ ~local[w].full
            /\ local[w].upto <= cursor[w]
         \/ Hold(w) /\ pc[w] = "stop" /\ local[w].held
         \/ w \in failed'
  <1>0. /\ w \in Watches
        /\ pc \in [Watches -> {"new", "creating", "idle", "loop", "stop", "send", "route",
                           "join", "admit", "insert", "note", "answer", "settle"}]
        /\ local[w].at \in Nat /\ local[w].upto \in Nat /\ cursor[w] \in Nat
    BY DEF Inv, Types, TypeDrains, TypeRows, Local
  <1> USE DEF GoTo
  <1>1. CASE LeaveBatch(w)
    <2>1. pc[w] = "stop" /\ local[w].at > local[w].upto /\ ~local[w].full
      BY <1>0, <1>1 DEF LeaveBatch
    <2>2. local[w].at = cursor[w] + 1
      BY <1>0, <2>1 DEF Inv, Standing, Stands, Alive
    <2> QED
      BY <1>0, <1>1, <2>1, <2>2
  <1>2. CASE Hold(w)
    BY <1>2 DEF Hold, AtStop
  <1>3. CASE LookUpFails(w) \/ Refuse(w) \/ Decline(w)
    BY <1>3 DEF LookUpFails, Refuse, Throw, Decline
  <1>4. CASE Begin(w)
    BY <1>0, <1>4 DEF Begin
  <1>5. CASE Insert(w) \/ Skip(w) \/ Observe(w) \/ Prepare(w)
    <2>1. CASE Insert(w)
      BY <2>1 DEF Leaves, Insert, Unborn
    <2>2. CASE Skip(w)
      BY <1>0, <2>2 DEF Skip, AtStop
    <2>3. CASE Observe(w) \/ Prepare(w)
      BY <1>0, <2>3 DEF Observe, Prepare, AtStop
    <2> QED
      BY <1>5, <2>1, <2>2, <2>3
  <1> QED
    BY <1>0, <1>1, <1>2, <1>3, <1>4, <1>5
    DEF Leaves, Drain, LookUp, Route, Join, Behind, InsertRow, NoteRow, Admit, Confirm, Settle

\* What a pass saw is what is there, or a drain will look again.
LEMMA WakingStep == ASSUME Inv, Quiets, Waking, [Next]_vars PROVE Waking'
  <1> DEFINE Idles(w) == pc[w] = "idle" =>
                             cursor[w] >= told \/ paused \/ w \in failed \/ Rung(w)
             Runs(w)  == pc[w] \in Busy \cup {"stop"} => Fresh(w)
  <1> SUFFICES ASSUME NEW w \in Watches, w \in armed' PROVE Idles(w)' /\ Runs(w)'
    <2>1. armed' \subseteq Watches
      BY RowsStep DEF TypeRows
    <2> QED
      BY <2>1 DEF Waking, KicksArrive
  <1>0. /\ pc \in [Watches -> {"new", "creating", "idle", "loop", "stop", "send", "route",
                           "join", "admit", "insert", "note", "answer", "settle"}]
        /\ drains \in [Watches -> 0..1] /\ local \in [Watches -> Local]
        /\ cursor[w] \in Nat /\ Len(log) \in Nat /\ cursor[w] <= Len(log)
        /\ told \in Nat /\ told <= Len(log) /\ local[w].upto \in Nat
    BY DEF Inv, Types, TypeDrains, TypeRows, TypeSource, MaxWaiting, Standing, Stands, Local
  <1>1. w \in armed => Idles(w) /\ Runs(w)
    BY DEF Waking, KicksArrive
  <1>2. ASSUME w \in armed, ~Begin(w)
        PROVE  /\ Rung(w) => Rung(w)'
               /\ UNCHANGED told \/ Rung(w)'
               /\ paused => paused' \/ Rung(w)'
               /\ w \in failed => w \in failed' \/ Rung(w)'
    BY <1>2, RingStep
  <1> USE DEF Fresh
  <1>3. CASE Stays(w)
    <2>1. w \in armed /\ UNCHANGED <<pc[w], cursor[w], local[w]>>
      BY <1>3 DEF Stays
    <2>2. ~Begin(w)
      BY <1>0, <2>1 DEF Begin, GoTo
    <2> QED
      BY <1>1, <1>2, <2>1, <2>2
  <1>4. CASE Sends(w)
    <2>1. /\ w \in armed /\ UNCHANGED <<cursor, local>>
          /\ pc[w] \in Busy /\ pc'[w] \in Busy /\ ~Begin(w)
      BY <1>4 DEF Sends, Begin, Busy
    <2> QED
      BY <1>1, <1>2, <2>1 DEF Busy
  <1>5. CASE Look(w)
    <2>1. /\ w \in armed /\ pc[w] = "loop" /\ UNCHANGED <<told, cursor, paused>>
      BY <1>5 DEF Look, rows, source, target
    <2>2. CASE Len(log) - cursor[w] <= 0
      <3>1. cursor[w] >= told
        BY <1>0, <2>2
      <3>2. pc' = [pc EXCEPT ![w] = "idle"]
        BY <1>5, <2>2 DEF Look, GoTo
      <3> QED
        BY <1>0, <2>1, <3>1, <3>2 DEF Busy
    <2>3. CASE ~(Len(log) - cursor[w] <= 0)
      <3>1. /\ pc'[w] = "stop"
            /\ local'[w] = [held |-> paused, at |-> cursor[w] + 1,
                            upto |-> IF Len(log) - cursor[w] < Limit THEN Len(log)
                                     ELSE cursor[w] + Limit,
                            full |-> Len(log) - cursor[w] >= Limit]
        <4>1. /\ pc' = [pc EXCEPT ![w] = "stop"]
              /\ local' = [local EXCEPT ![w] =
                     [held |-> paused, at |-> cursor[w] + 1,
                      upto |-> IF Len(log) - cursor[w] < Limit THEN Len(log)
                               ELSE cursor[w] + Limit,
                      full |-> Len(log) - cursor[w] >= Limit]]
          BY <1>5, <2>1, <2>3 DEF Look, GoTo
        <4> QED
          BY <1>0, <4>1
      <3>2. local'[w].full \/ local'[w].upto >= told
        <4>1. Len(log) - cursor[w] < Limit \/ Len(log) - cursor[w] >= Limit
          BY <1>0, WatchAssumption
        <4>2. local'[w].full = (Len(log) - cursor[w] >= Limit)
          BY <3>1
        <4>3. Len(log) - cursor[w] < Limit => local'[w].upto = Len(log)
          BY <3>1
        <4> QED
          BY <1>0, <4>1, <4>2, <4>3
      <3>3. local'[w].held = paused
        BY <3>1
      <3> QED
        BY <2>1, <3>1, <3>2, <3>3
    <2> QED
      BY <2>2, <2>3
  <1>6. CASE Leaves(w) /\ ~Look(w)
    <2>1. w \in armed
      BY <1>6 DEF Leaves
    <2>2. CASE pc'[w] = "loop"
      BY <2>2 DEF Busy
    <2>3. CASE pc'[w] = "idle"
      <3>1. CASE LeaveBatch(w) /\ pc[w] = "stop" /\ ~local[w].full /\ local[w].upto <= cursor[w]
        <4>1. UNCHANGED <<told, cursor, notices, drains>>
          BY <3>1 DEF LeaveBatch, rows, source
        <4>2. local[w].upto >= told \/ Rung(w)
          BY <1>1, <2>1, <3>1
        <4>3. cursor[w] >= told \/ Rung(w)
          BY <1>0, <3>1, <4>2
        <4> QED
          BY <2>3, <4>1, <4>3 DEF Rung, Busy
      <3>2. CASE Hold(w) /\ pc[w] = "stop" /\ local[w].held
        <4>1. UNCHANGED <<paused, notices, drains>>
          BY <3>2 DEF Hold, target
        <4>2. paused \/ Rung(w)
          BY <1>1, <2>1, <3>2
        <4> QED
          BY <2>3, <4>1, <4>2 DEF Rung, Busy
      <3>3. CASE w \in failed'
        BY <2>3, <3>3 DEF Busy
      <3> QED
        BY <1>6, <2>1, <2>3, <3>1, <3>2, <3>3, RestMoves
    <2> QED
      BY <1>6, <2>2, <2>3 DEF Leaves
  <1>7. CASE Insert(w)
    <2>1. pc'[w] = "idle" /\ drains'[w] > 0
      BY <1>0, <1>7 DEF Insert, Kicked, MaxWaiting
    <2> QED
      BY <2>1 DEF Rung, Busy
  <1>8. CASE Skip(w)
    <2>1. /\ w \in armed /\ pc[w] = "stop" /\ pc'[w] = "stop"
          /\ UNCHANGED <<told, paused, notices, drains>>
      BY <1>8 DEF Skip, AtStop, source, target
    <2>2. local'[w].full = local[w].full /\ local'[w].upto = local[w].upto
          /\ local'[w].held = local[w].held
      BY <1>0, <1>8 DEF Skip, NextStop, Local
    <2> QED
      BY <1>1, <2>1, <2>2 DEF Rung
  <1>9. CASE Observe(w) \/ Prepare(w)
    <2>1. /\ w \in armed /\ pc[w] = "stop" /\ pc'[w] \in Busy
          /\ UNCHANGED <<told, paused, notices, drains, local>>
      BY <1>0, <1>9 DEF Observe, Prepare, AtStop, GoTo, Busy, source, target
    <2> QED
      BY <1>1, <2>1 DEF Rung, Busy
  <1>10. CASE Settle(w)
    <2>1. NextStop(w) /\ pc'[w] = "stop" /\ armed' = armed
      BY <1>0, <1>10 DEF Settle, GoTo
    <2>2. local'[w].full = local[w].full /\ local'[w].upto = local[w].upto
          /\ local'[w].held = local[w].held
      BY <1>0, <2>1 DEF NextStop, Local
    <2>3. pc[w] = "settle" /\ UNCHANGED <<told, paused, notices, drains>>
      BY <1>10 DEF Settle, source, target
    <2> QED
      BY <1>1, <2>1, <2>2, <2>3 DEF Rung, Busy
  <1>11. CASE Create(w) \/ Unwatch(w)
    <2>1. w \notin armed'
      BY <1>11 DEF Create, Unwatch, Inv, Standing, Stands, Unborn
    <2> QED
      BY <2>1
  <1>12. CASE Crash
    <2>1. drains'[w] = 1 /\ (pc'[w] = "new" \/ pc'[w] = "idle")
      BY <1>0, <1>12 DEF Crash, rows
    <2> QED
      BY <2>1 DEF Rung, Busy
  <1> QED
    BY <1>3, <1>4, <1>5, <1>6, <1>7, <1>8, <1>9, <1>10, <1>11, <1>12, WatchMoves

\* No announcement of a stop or of the end of a pause, no insertion and no
\* restart is overlooked, nor what was in the log unannounced by then: an armed
\* watch that is at rest behind it is held by a pause, gave up with an
\* exception, or has a drain on its way.
THEOREM NoKickIsLost == Spec => []KicksArrive
  <1>1. Init => Quiets /\ Waking
    BY DEF Init, Quiets, Waking, KicksArrive
  <1>2. Waking => KicksArrive
    BY DEF Waking
  <1> QED
    BY <1>1, <1>2, QuietsStep, WakingStep, InvHolds, PTL DEF Spec
=============================================================================
