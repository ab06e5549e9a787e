--------------------------- MODULE PipelineProofs ---------------------------
(***************************************************************************)
(* Proofs about Pipeline, for any connections, events, batch sizes and     *)
(* capacities: what is answered OK true is in the database, or a better    *)
(* event of its place is, or a deletion request took it away; and what is  *)
(* sent to a subscriber was stored by a transaction before.                *)
(***************************************************************************)
EXTENDS Pipeline, BatchLemmas

Message == [conn : Conn, events : Seq(Event)]

\* A message is in one place, on its way to the writer or in the round, while
\* its connection waits, and has the events that the connection has pending.
Mail ==
    /\ \A i \in DOMAIN queue :
          pc[queue[i].conn] = "await" /\ queue[i].events = pending[queue[i].conn]
    /\ \A m \in DOMAIN gathered :
          pc[gathered[m].conn] = "await" /\ gathered[m].events = pending[gathered[m].conn]
    /\ \A i, j \in DOMAIN queue : queue[i].conn = queue[j].conn => i = j
    /\ \A m, n \in DOMAIN gathered : gathered[m].conn = gathered[n].conn => m = n
    /\ \A i \in DOMAIN queue, m \in DOMAIN gathered : queue[i].conn # gathered[m].conn
    /\ wpc = "recv" => gathered = <<>>

\* The results of a round fit its messages, and those that have come back fit
\* the pending events.
Fitting ==
    /\ wpc = "answer" =>
          /\ DOMAIN verdicts = DOMAIN gathered
          /\ \A m \in DOMAIN gathered : DOMAIN verdicts[m] = DOMAIN gathered[m].events
    /\ \A c \in Conn :
          IF pc[c] = "reply" THEN /\ DOMAIN resp[c] = DOMAIN pending[c]
                                  /\ replied[c] <= Len(pending[c])
                             ELSE resp[c] = <<>> /\ replied[c] = 0

\* The events that are in the database, or were taken out on request.
Known == stored \union removed

\* A result other than an error is for an event that is covered.
Promised ==
    /\ wpc = "answer" =>
          \A m \in DOMAIN gathered : \A k \in DOMAIN gathered[m].events :
              verdicts[m][k] # "error" => Covered(gathered[m].events[k], Known)
    /\ \A c \in Conn : \A j \in DOMAIN resp[c] :
          resp[c][j] # "error" => Covered(pending[c][j], Known)

\* Everything in the database was committed, and so was every event for which
\* there is a result "stored".
Recorded ==
    /\ stored \subseteq committed
    /\ wpc = "answer" =>
          \A m \in DOMAIN gathered : \A k \in DOMAIN gathered[m].events :
              verdicts[m][k] = "stored" => gathered[m].events[k] \in committed
    /\ \A c \in Conn : \A j \in DOMAIN resp[c] :
          resp[c][j] = "stored" => pending[c][j] \in committed

IInv ==
    /\ TypeOK
    /\ OnePerSlot(stored)
    /\ Mail
    /\ Fitting
    /\ Promised
    /\ Recorded
    /\ AckCovered
    /\ OnlyCommittedSent

-----------------------------------------------------------------------------
(* The types *)

LEMMA InitType == Init => TypeOK
BY PipelineAssumption DEF Init, TypeOK, NoSubs

LEMMA CloseType ==
    ASSUME NEW C, TypeOK, CloseTasks(C)
    PROVE  /\ pc' \in [Conn -> {"off", "select", "drain", "purge", "await", "reply"}]
           /\ pending' \in [Conn -> Seq(Event)]
           /\ deletions' \in [Conn -> Seq(Event)]
           /\ room' \in [Conn -> 0..MaxDrain]
           /\ ending' \in [Conn -> BOOLEAN]
           /\ resp' \in [Conn -> Seq(Result)]
           /\ replied' \in [Conn -> Nat]
           /\ subs' \in [Conn -> [SubId -> SUBSET Event]]
           /\ got' \in [Conn -> [SubId -> SUBSET Event]]
BY PipelineAssumption DEF TypeOK, CloseTasks, NoSubs

LEMMA AnnounceType ==
    ASSUME TypeOK, NEW e \in Event, NEW R, Announce(e, R)
    PROVE  /\ bq' \in [Conn -> Seq(Event)]
           /\ lost' \in [Conn -> SUBSET Event]
<1>1. /\ bq \in [Conn -> Seq(Event)] /\ lost \in [Conn -> SUBSET Event]
      /\ subs \in [Conn -> [SubId -> SUBSET Event]]
  BY DEF TypeOK
<1>2. ASSUME NEW c \in Conn
      PROVE  Spared(c) \in Seq(Event) /\ Dropped(c) \in SUBSET Event
  <2>1. bq[c] \in Seq(Event)
    BY <1>1
  <2>2. Full(c) => bq[c] # <<>>
    BY <2>1, PipelineAssumption DEF Full
  <2>3. Spared(c) \in Seq(Event)
    BY <2>1, <2>2 DEF Spared
  <2>4. Dropped(c) \in SUBSET Event
    BY <1>1 DEF Dropped
  <2> QED
    BY <2>3, <2>4
<1>3. bq' \in [Conn -> Seq(Event)]
  BY <1>2 DEF Announce
<1>4. lost' \in [Conn -> SUBSET Event]
  BY <1>1, <1>2 DEF Announce
<1> QED
  BY <1>3, <1>4

LEMMA SilenceType ==
    ASSUME TypeOK, NEW R, Silence(R)
    PROVE  /\ bq' \in [Conn -> Seq(Event)]
           /\ lost' \in [Conn -> SUBSET Event]
BY DEF TypeOK, Silence

LEMMA TakesMessageType ==
    ASSUME TypeOK, NEW c \in Conn, TakesMessage(c)
    PROVE  room' \in [Conn -> 0..MaxDrain]
<1>1. room[c] \in 0..MaxDrain /\ MaxDrain \in Nat
  BY PipelineAssumption DEF TypeOK
<1>2. room[c] > 0 => room[c] - 1 \in 0..MaxDrain
  BY <1>1
<1> QED
  BY <1>2 DEF TakesMessage, TypeOK

LEMMA ClientType ==
    ASSUME TypeOK, NEW c \in Conn, ClientStep(c)
    PROVE  TypeOK'
<1> USE PipelineAssumption
<1>1. CASE Connect(c)
  BY <1>1 DEF Connect, TypeOK, writerVars
<1>2. ASSUME NEW e \in Offers[c], TakeEvent(c, e)
      PROVE  TypeOK'
  <2>1. e \in Event
    OBVIOUS
  <2>2. room' \in [Conn -> 0..MaxDrain]
    <3>1. room[c] \in 0..MaxDrain /\ MaxDrain \in Nat
      BY DEF TypeOK
    <3>2. room[c] > 0 => room[c] - 1 \in 0..MaxDrain
      BY <3>1
    <3>3. MaxDrain \in 0..MaxDrain
      BY <3>1
    <3>4. CASE room' = [room EXCEPT ![c] = MaxDrain]
      BY <3>3, <3>4 DEF TypeOK
    <3>5. CASE room[c] > 0 /\ room' = [room EXCEPT ![c] = @ - 1]
      BY <3>2, <3>5 DEF TypeOK
    <3> QED
      BY <1>2, <3>4, <3>5 DEF TakeEvent
  <2>3. pending' \in [Conn -> Seq(Event)]
    BY <1>2, <2>1 DEF TakeEvent, TypeOK
  <2>4. deletions' \in [Conn -> Seq(Event)]
    BY <1>2, <2>1 DEF TakeEvent, TypeOK
  <2> QED
    BY <1>2, <2>2, <2>3, <2>4 DEF TakeEvent, TypeOK, writerVars
<1>3. ASSUME NEW e \in Offers[c], TakeEphemeral(c, e)
      PROVE  TypeOK'
  <2>1. e \in Event
    OBVIOUS
  <2>2. bq' \in [Conn -> Seq(Event)] /\ lost' \in [Conn -> SUBSET Event]
    BY <1>3, <2>1, AnnounceType DEF TakeEphemeral
  <2> QED
    BY <1>3, <2>2, TakesMessageType DEF TakeEphemeral, TypeOK, writerVars
<1>4. ASSUME NEW s \in SubId, NEW f \in Asks[c], TakeReq(c, s, f)
      PROVE  TypeOK'
  <2>1. f \in SUBSET Event
    OBVIOUS
  <2>2. subs' \in [Conn -> [SubId -> SUBSET Event]]
    BY <1>4, <2>1 DEF TakeReq, TypeOK
  <2>3. CASE got' = [got EXCEPT ![c][s] = stored \intersect f] /\ UNCHANGED lost
    BY <1>4, <2>1, <2>2, <2>3, TakesMessageType DEF TakeReq, TypeOK, writerVars
  <2>4. CASE /\ got' = [got EXCEPT ![c][s] = {}]
             /\ lost' = [lost EXCEPT ![c] = @ \union (stored \intersect f)]
    BY <1>4, <2>1, <2>2, <2>4, TakesMessageType DEF TakeReq, TypeOK, writerVars
  <2> QED
    BY <1>4, <2>3, <2>4 DEF TakeReq
<1>5. ASSUME NEW s \in SubId, TakeClose(c, s)
      PROVE  TypeOK'
  BY <1>5, TakesMessageType DEF TakeClose, TypeOK, writerVars
<1>6. CASE TakeOther(c)
  <2>1. room' \in [Conn -> 0..MaxDrain]
    BY <1>6, TakesMessageType DEF TakeOther
  <2> QED
    BY <1>6, <2>1 DEF TakeOther, TypeOK, writerVars, subVars, castVars
<1>7. CASE DrainDone(c)
  BY <1>7 DEF DrainDone, TypeOK, writerVars, subVars, castVars
<1>8. CASE DrainEnded(c)
  <2>1. room' \in [Conn -> 0..MaxDrain]
    BY <1>8 DEF DrainEnded, TypeOK
  <2>2. ending' \in [Conn -> BOOLEAN] /\ pc' \in [Conn -> {"off", "select", "drain", "purge", "await", "reply"}]
    BY <1>8 DEF DrainEnded, TypeOK
  <2> QED
    BY <1>8, <2>1, <2>2 DEF DrainEnded, TypeOK, writerVars, subVars, castVars
<1>9. CASE Leave(c)
  BY <1>9, CloseType, SilenceType DEF Leave, TypeOK, writerVars
<1>10. CASE ReplyFails(c)
  <2>1. NextReply(c) \in Event
    BY <1>10 DEF ReplyFails, Replying, NextReply, TypeOK
  <2>2. bq' \in [Conn -> Seq(Event)] /\ lost' \in [Conn -> SUBSET Event]
    BY <1>10, <2>1, AnnounceType, SilenceType DEF ReplyFails
  <2>3. orphaned' \in SUBSET Event
    BY <1>10, SMTT(30) DEF ReplyFails, TypeOK, Wanted
  <2> QED
    BY <1>10, <2>2, <2>3, CloseType DEF ReplyFails, TypeOK, writerVars
<1>11. CASE FlushFails(c)
  BY <1>11, CloseType, SilenceType DEF FlushFails, TypeOK, writerVars
<1> QED
  BY <1>1, <1>2, <1>3, <1>4, <1>5, <1>6, <1>7, <1>8, <1>9, <1>10, <1>11 DEF ClientStep

LEMMA TaskType ==
    ASSUME TypeOK, NEW c \in Conn, TaskStep(c)
    PROVE  TypeOK'
<1> USE PipelineAssumption
<1>1. CASE Purge(c)
  <2>1. deletions' \in [Conn -> Seq(Event)]
    BY <1>1 DEF Purge, TypeOK
  <2>2. stored' \in SUBSET Event /\ removed' \in SUBSET Event
    BY <1>1 DEF Purge, TypeOK
  <2> QED
    BY <1>1, <2>1, <2>2 DEF Purge, TypeOK, writerVars, subVars, castVars
<1>2. CASE Submit(c)
  <2>1. queue' \in Seq([conn : Conn, events : Seq(Event)])
    BY <1>2 DEF Submit, TypeOK
  <2>2. pc' \in [Conn -> {"off", "select", "drain", "purge", "await", "reply"}]
    BY <1>2 DEF Submit, TypeOK
  <2>3. UNCHANGED <<stored, pending, deletions, room, ending, resp, replied, subs, got, bq,
                    lost, wpc, gathered, verdicts, committed, acked, removed, orphaned>>
    BY <1>2 DEF Submit, writerVars, subVars, castVars
  <2> QED
    BY ONLY TypeOK, <2>1, <2>2, <2>3 DEF TypeOK
<1>3. CASE Reply(c)
  <2>1. NextReply(c) \in Event
    BY <1>3 DEF Reply, Replying, NextReply, TypeOK
  <2>2. bq' \in [Conn -> Seq(Event)] /\ lost' \in [Conn -> SUBSET Event]
    BY <1>3, <2>1, AnnounceType DEF Reply, castVars, TypeOK
  <2>3. acked' \in SUBSET Event
    BY <1>3, <2>1 DEF Reply, TypeOK
  <2>4. replied' \in [Conn -> Nat]
    BY <1>3 DEF Reply, TypeOK
  <2> QED
    BY <1>3, <2>2, <2>3, <2>4 DEF Reply, TypeOK, writerVars, subVars
<1>4. CASE Finish(c)
  <2>1. CASE ending[c]
    <3>1. CloseTasks({c}) /\ Silence(Listening \ {c})
      BY <1>4, <2>1 DEF Finish
    <3> QED
      BY <1>4, <3>1, CloseType, SilenceType DEF Finish, TypeOK, writerVars
  <2>2. CASE ~ ending[c]
    <3>1. /\ pc' = [pc EXCEPT ![c] = "select"]
          /\ pending' = [pending EXCEPT ![c] = <<>>]
          /\ resp' = [resp EXCEPT ![c] = <<>>]
          /\ replied' = [replied EXCEPT ![c] = 0]
          /\ UNCHANGED <<deletions, room, ending, subVars, castVars>>
          /\ UNCHANGED <<stored, queue, writerVars, acked, removed, orphaned>>
      BY <1>4, <2>2 DEF Finish
    <3> QED
      BY <3>1 DEF TypeOK, writerVars, subVars, castVars
  <2> QED
    BY <2>1, <2>2
<1> QED
  BY <1>1, <1>2, <1>3, <1>4 DEF TaskStep

LEMMA RecvBroadcastType ==
    ASSUME TypeOK, NEW c \in Conn, RecvBroadcast(c)
    PROVE  TypeOK'
<1>1. Head(bq[c]) \in Event /\ Tail(bq[c]) \in Seq(Event)
  BY HeadTailProperties DEF RecvBroadcast, TypeOK
<1> QED
  BY <1>1 DEF RecvBroadcast, TypeOK, writerVars, taskVars

\* The messages of a round are a batch.
LEMMA GatheredBatch ==
    ASSUME TypeOK
    PROVE  /\ IsBatch(gathered)
           /\ DOMAIN gathered = 1..Len(gathered) /\ Len(gathered) \in Nat
           /\ \A m \in DOMAIN gathered : gathered[m] \in Message
<1>1. gathered \in Seq(Message)
  BY DEF TypeOK, Message
<1>2. /\ DOMAIN gathered = 1..Len(gathered) /\ Len(gathered) \in Nat
      /\ \A m \in DOMAIN gathered : gathered[m] \in Message
  BY <1>1, LenProperties, ElementOfSeq
<1>3. IsFiniteSet(DOMAIN gathered)
  BY <1>2, FS_Interval
<1>4. DOMAIN gathered \in SUBSET Nat
  BY <1>2
<1>5. \A m \in DOMAIN gathered : gathered[m].events \in Seq(Event)
  BY <1>2 DEF Message
<1> QED
  BY <1>2, <1>3, <1>4, <1>5 DEF IsBatch

LEMMA QueueMessages ==
    ASSUME TypeOK
    PROVE  /\ DOMAIN queue = 1..Len(queue) /\ Len(queue) \in Nat
           /\ \A i \in DOMAIN queue : queue[i] \in Message
<1>1. queue \in Seq(Message)
  BY DEF TypeOK, Message
<1> QED
  BY <1>1, LenProperties, ElementOfSeq

\* A list of results for each message of a round.
LEMMA VerdictsType ==
    ASSUME TypeOK,
           NEW V, DOMAIN V = DOMAIN gathered,
           \A m \in DOMAIN gathered : V[m] \in [DOMAIN gathered[m].events -> Result],
           V = [m \in DOMAIN gathered |-> V[m]]
    PROVE  V \in Seq(Seq(Result))
<1>1. DOMAIN gathered = 1..Len(gathered) /\ Len(gathered) \in Nat
  BY GatheredBatch
<1>2. ASSUME NEW m \in DOMAIN gathered
      PROVE  V[m] \in Seq(Result)
  <2>1. gathered[m].events \in Seq(Event)
    BY GatheredBatch DEF Message
  <2>2. /\ Len(gathered[m].events) \in Nat
        /\ DOMAIN gathered[m].events = 1..Len(gathered[m].events)
    BY <2>1, LenProperties
  <2>3. V[m] \in [1..Len(gathered[m].events) -> Result]
    BY <2>2
  <2> QED
    BY <2>2, <2>3, SeqDef
<1>3. V \in [1..Len(gathered) -> Seq(Result)]
  BY <1>1, <1>2
<1> QED
  BY <1>1, <1>3, SeqDef

\* The rule of the rounds is BatchRule.
LEMMA RoundRule ==
    /\ WriterCommit => /\ stored' = Resolve(stored \union KeptEvents(gathered))
                       /\ verdicts' = Verdicts(stored, gathered)
    /\ WriterFail => verdicts' = Failures(gathered)
<1> USE DEF Round!SameSlot, SameSlot, Round!IsReplaceable, IsReplaceable, Round!Beats, Beats,
            Round!Ev, Ev, Round!Entries, Entries, Round!Earlier, Earlier
<1>1. \A G, x : Round!IsKept(G, x) <=> IsKept(G, x)
  BY DEF Round!IsKept, IsKept
<1>2. \A S : Round!Resolve(S) = Resolve(S)
  BY DEF Round!Resolve, Resolve
<1>3. \A G : Round!KeptEvents(G) = KeptEvents(G)
  BY <1>1 DEF Round!KeptEvents, KeptEvents
<1>4. \A S, G : Round!Verdicts(S, G) = Verdicts(S, G)
  <2>1. \A S, G, x : Round!Outcome(S, G, x) = Outcome(S, G, x)
    <3>1. \A e, S : Round!Covered(e, S) <=> Covered(e, S)
      BY DEF Round!Covered, Covered
    <3> HIDE DEF Round!Ev, Ev
    <3>2. \A G, x : Round!Ev(G, x) = Ev(G, x)
      BY DEF Round!Ev, Ev
    <3> QED
      BY <1>1, <3>1, <3>2, Zenon DEF Round!Outcome, Outcome
  <2> QED
    BY <2>1, Zenon DEF Round!Verdicts, Verdicts
<1>5. \A G : Round!Failures(G) = Failures(G)
  BY DEF Round!Failures, Failures
<1> QED
  BY <1>2, <1>3, <1>4, <1>5 DEF WriterCommit, Round!Commit, WriterFail, Round!Fail

LEMMA WriterType ==
    ASSUME TypeOK, OnePerSlot(stored), Fitting, WriterStep
    PROVE  TypeOK'
<1>1. CASE WriterRecv
  <2>1. queue \in Seq(Message) /\ gathered \in Seq(Message)
    BY DEF TypeOK, Message
  <2>2. Head(queue) \in Message /\ Tail(queue) \in Seq(Message)
    BY <1>1, <2>1, HeadTailProperties DEF WriterRecv
  <2>3. gathered' \in Seq(Message) /\ queue' \in Seq(Message)
    BY <1>1, <2>1, <2>2, AppendProperties DEF WriterRecv, Round!Collect
  <2> QED
    BY <1>1, <2>3 DEF WriterRecv, Round!Collect, TypeOK, Message, taskVars, subVars, castVars
<1>2. CASE WriterCommit
  <2>1. stored' \in SUBSET Event
    <3>1. IsBatch(gathered) /\ stored \in SUBSET Event
      BY GatheredBatch DEF TypeOK
    <3> QED
      BY <1>2, <3>1, RoundCovers, RoundRule
  <2>2. verdicts' \in Seq(Seq(Result))
    <3>1. verdicts' = Verdicts(stored, gathered)
      BY <1>2, RoundRule
    <3> QED
      BY <3>1, VerdictsType DEF Verdicts, Outcome, Result
  <2> QED
    BY <1>2, <2>1, <2>2 DEF WriterCommit, Round!Commit, TypeOK, taskVars, subVars, castVars
<1>3. CASE WriterFail
  <2>1. verdicts' \in Seq(Seq(Result))
    <3>1. verdicts' = Failures(gathered)
      BY <1>3, RoundRule
    <3> QED
      BY <3>1, VerdictsType DEF Failures, Result
  <2> QED
    BY <1>3, <2>1 DEF WriterFail, Round!Fail, TypeOK, taskVars, subVars, castVars
<1>4. CASE WriterAnswer
  <2>1. \A c \in Conn : c \in {gathered[m].conn : m \in DOMAIN gathered} =>
           verdicts[CHOOSE m \in DOMAIN gathered : gathered[m].conn = c] \in Seq(Result)
    <3>1. DOMAIN verdicts = DOMAIN gathered /\ verdicts \in Seq(Seq(Result))
      BY <1>4 DEF WriterAnswer, Round!Answer, Fitting, TypeOK
    <3>2. \A m \in DOMAIN verdicts : verdicts[m] \in Seq(Result)
      BY <3>1, LenProperties, ElementOfSeq
    <3> QED
      BY <3>1, <3>2
  <2>2. resp' \in [Conn -> Seq(Result)]
    BY <1>4, <2>1 DEF WriterAnswer, TypeOK
  <2>3. pc' \in [Conn -> {"off", "select", "drain", "purge", "await", "reply"}]
    BY <1>4 DEF WriterAnswer, TypeOK
  <2> QED
    <3>1. wpc' = "recv" /\ gathered' = <<>> /\ verdicts' = <<>> /\ stored' = stored
      BY <1>4 DEF WriterAnswer, Round!Answer
    <3>2. UNCHANGED <<pending, deletions, room, ending, replied, subVars, castVars,
                      queue, committed, acked, removed, orphaned>>
      BY <1>4 DEF WriterAnswer
    <3> QED
      BY <2>2, <2>3, <3>1, <3>2 DEF TypeOK, subVars, castVars
<1> QED
  BY <1>1, <1>2, <1>3, <1>4 DEF WriterStep

LEMMA CrashType ==
    ASSUME TypeOK, Crash
    PROVE  TypeOK'
<1>1. CloseTasks(Conn) /\ Silence({})
  BY DEF Crash
<1>2. /\ queue' = <<>> /\ wpc' = "recv" /\ gathered' = <<>> /\ verdicts' = <<>>
      /\ UNCHANGED <<stored, committed, acked, removed, orphaned>>
  BY DEF Crash
<1>3. bq' \in [Conn -> Seq(Event)] /\ lost' \in [Conn -> SUBSET Event]
  BY <1>1, SilenceType
<1>4. /\ queue' \in Seq([conn : Conn, events : Seq(Event)])
      /\ gathered' \in Seq([conn : Conn, events : Seq(Event)])
      /\ verdicts' \in Seq(Seq(Result))
  BY <1>2
<1> QED
  BY <1>1, <1>2, <1>3, <1>4, CloseType DEF TypeOK

-----------------------------------------------------------------------------
(* The database: what was covered by what is known stays covered, whatever *)
(* the step.                                                               *)

LEMMA KnownFrame ==
    ASSUME OnePerSlot(stored), UNCHANGED <<stored, removed>>
    PROVE  /\ OnePerSlot(stored')
           /\ \A e \in Event : Covered(e, Known) => Covered(e, Known')
BY DEF Known

LEMMA KnownClient ==
    ASSUME OnePerSlot(stored), NEW c \in Conn, ClientStep(c) \/ RecvBroadcast(c)
    PROVE  UNCHANGED <<stored, removed>>
BY DEF ClientStep, Connect, TakeEvent, TakeEphemeral, TakeReq, TakeClose, TakeOther, DrainDone,
       DrainEnded, Leave, ReplyFails, FlushFails, RecvBroadcast

LEMMA KnownTask ==
    ASSUME TypeOK, OnePerSlot(stored), NEW c \in Conn, TaskStep(c)
    PROVE  /\ OnePerSlot(stored')
           /\ \A e \in Event : Covered(e, Known) => Covered(e, Known')
<1>1. CASE Purge(c)
  <2> DEFINE gone == stored \intersect Deletable(Author[Head(deletions[c])], DeletionTargets(Head(deletions[c])))
  <2>1. \/ stored' = stored \ gone /\ removed' = removed \union gone
        \/ UNCHANGED <<stored, removed>>
    BY <1>1 DEF Purge
  <2> HIDE DEF gone
  <2>2. stored' \subseteq stored /\ Known \subseteq Known'
    BY <2>1 DEF Known
  <2> QED
    BY <2>2, CoveredMonotone DEF OnePerSlot
<1>2. CASE Submit(c) \/ Reply(c) \/ Finish(c)
  <2>1. UNCHANGED <<stored, removed>>
    BY <1>2 DEF Submit, Reply, Finish
  <2> QED
    BY <2>1, KnownFrame
<1> QED
  BY <1>1, <1>2 DEF TaskStep

LEMMA KnownWriter ==
    ASSUME TypeOK, OnePerSlot(stored), WriterStep
    PROVE  /\ OnePerSlot(stored')
           /\ \A e \in Event : Covered(e, Known) => Covered(e, Known')
<1>1. CASE WriterCommit
  <2>1. /\ OnePerSlot(stored') /\ stored' \in SUBSET Event
        /\ \A e \in stored : Covered(e, stored')
    BY <1>1, RoundRule, RoundCovers, GatheredBatch DEF TypeOK
  <2>2. removed' = removed /\ removed \in SUBSET Event /\ stored \in SUBSET Event
    BY <1>1 DEF WriterCommit, TypeOK
  <2>3. Known \in SUBSET Event /\ Known' \in SUBSET Event
    BY <2>1, <2>2 DEF Known
  <2>4. \A e \in Known : Covered(e, Known')
    BY <2>1, <2>2 DEF Known, Covered
  <2> QED
    BY <2>1, <2>3, <2>4, CoveredTransitive
<1>2. CASE WriterRecv \/ WriterFail \/ WriterAnswer
  <2>1. UNCHANGED <<stored, removed>>
    BY <1>2 DEF WriterRecv, WriterFail, WriterAnswer, Round!Collect, Round!Fail, Round!Answer
  <2> QED
    BY <2>1, KnownFrame
<1> QED
  BY <1>1, <1>2 DEF WriterStep

-----------------------------------------------------------------------------
(* The results.  A task that does not wait for the writer moves by itself. *)

SameTask(d) ==
    pc'[d] = pc[d] /\ pending'[d] = pending[d] /\ resp'[d] = resp[d] /\ replied'[d] = replied[d]

Moves(c) ==
    /\ UNCHANGED <<queue, writerVars>>
    /\ \A d \in Conn \ {c} : SameTask(d)
    /\ \/ SameTask(c)
       \/ pc[c] # "await" /\ pc'[c] # "reply" /\ resp'[c] = <<>> /\ replied'[c] = 0
       \/ /\ pc[c] = "reply" /\ pc'[c] = "reply"
          /\ pending'[c] = pending[c] /\ resp'[c] = resp[c]
          /\ replied'[c] <= Len(pending[c])

LEMMA MovesKeeps ==
    ASSUME TypeOK, Mail, Fitting, Promised, NEW c \in Conn, Moves(c),
           \A e \in Event : Covered(e, Known) => Covered(e, Known')
    PROVE  Mail' /\ Fitting' /\ Promised'
<1>1. /\ \A i \in DOMAIN queue : queue[i].conn \in Conn
      /\ \A m \in DOMAIN gathered : gathered[m].conn \in Conn /\ gathered[m].events \in Seq(Event)
  BY GatheredBatch, QueueMessages DEF Message
<1>2. queue' = queue /\ gathered' = gathered /\ wpc' = wpc /\ verdicts' = verdicts
  BY DEF Moves, writerVars
<1>3. \A d \in Conn : pc[d] = "await" => pc'[d] = "await" /\ pending'[d] = pending[d]
  BY DEF Moves, SameTask
<1>4. Mail'
  BY <1>1, <1>2, <1>3 DEF Mail
<1>5. Fitting'
  BY <1>2 DEF Fitting, Moves, SameTask
<1>6. Promised'
  <2>1. ASSUME wpc' = "answer", NEW m \in DOMAIN gathered', NEW k \in DOMAIN gathered'[m].events,
               verdicts'[m][k] # "error"
        PROVE  Covered(gathered'[m].events[k], Known')
    <3>1. Covered(gathered[m].events[k], Known)
      BY <1>2, <2>1 DEF Promised
    <3>2. gathered[m].events[k] \in Event
      BY <1>1, <1>2, LenProperties, ElementOfSeq
    <3> QED
      BY <1>2, <3>1, <3>2
  <2>2. ASSUME NEW d \in Conn, NEW j \in DOMAIN resp'[d], resp'[d][j] # "error"
        PROVE  Covered(pending'[d][j], Known')
    <3>1. resp'[d] = resp[d] /\ pending'[d] = pending[d]
      BY <2>2 DEF Moves, SameTask
    <3>2. pending[d][j] \in Event
      <4>1. pending[d] \in Seq(Event) /\ resp[d] \in Seq(Result)
        BY DEF TypeOK
      <4>2. j \in 1..Len(resp[d]) /\ resp[d] # <<>>
        BY <2>2, <3>1, <4>1, LenProperties
      <4>3. Len(resp[d]) = Len(pending[d])
        BY <4>2 DEF Fitting
      <4> QED
        BY ONLY <4>1, <4>2, <4>3, ElementOfSeq
    <3> QED
      BY <2>2, <3>1, <3>2 DEF Promised
  <2> QED
    BY <2>1, <2>2 DEF Promised
<1> QED
  BY <1>4, <1>5, <1>6

LEMMA CloseMoves ==
    ASSUME NEW c \in Conn, CloseTasks({c}), pc[c] # "await", UNCHANGED <<queue, writerVars>>
    PROVE  Moves(c)
BY DEF CloseTasks, Moves, SameTask

LEMMA ClientMoves ==
    ASSUME TypeOK, Fitting, NEW c \in Conn, ClientStep(c) \/ RecvBroadcast(c)
    PROVE  Moves(c)
<1>1. pc[c] # "reply" => resp[c] = <<>> /\ replied[c] = 0
  BY DEF Fitting
<1>2. CASE Connect(c)
  BY <1>1, <1>2 DEF Connect, Moves, SameTask, TypeOK
<1>3. ASSUME NEW e \in Offers[c], TakeEvent(c, e)
      PROVE  Moves(c)
  <2>1. pc[c] \in {"select", "drain"} /\ UNCHANGED <<resp, replied, queue, writerVars>>
    BY <1>3 DEF TakeEvent
  <2>2. pc' = [pc EXCEPT ![c] = "drain"] /\ pending' = [pending EXCEPT ![c] = Append(@, e)]
    BY <1>3 DEF TakeEvent
  <2> QED
    BY <1>1, <2>1, <2>2 DEF Moves, SameTask, TypeOK
<1>4. CASE \/ \E e \in Offers[c] : TakeEphemeral(c, e)
           \/ \E s \in SubId, f \in Asks[c] : TakeReq(c, s, f)
           \/ \E s \in SubId : TakeClose(c, s)
           \/ TakeOther(c)
           \/ RecvBroadcast(c)
  <2>1. UNCHANGED <<pc, pending, resp, replied, queue, writerVars>>
    BY <1>4 DEF TakeEphemeral, TakeReq, TakeClose, TakeOther, RecvBroadcast, taskVars
  <2> QED
    BY <2>1 DEF Moves, SameTask
<1>5. CASE DrainDone(c) \/ DrainEnded(c)
  <2>1. pc[c] = "drain" /\ pc' = [pc EXCEPT ![c] = "purge"]
        /\ UNCHANGED <<pending, resp, replied, queue, writerVars>>
    BY <1>5 DEF DrainDone, DrainEnded
  <2> QED
    BY <1>1, <2>1 DEF Moves, SameTask, TypeOK
<1>6. CASE Leave(c) \/ ReplyFails(c) \/ FlushFails(c)
  <2>1. CloseTasks({c}) /\ pc[c] # "await" /\ UNCHANGED <<queue, writerVars>>
    BY <1>6 DEF Leave, ReplyFails, FlushFails, Replying
  <2> QED
    BY <2>1, CloseMoves
<1> QED
  BY <1>2, <1>3, <1>4, <1>5, <1>6 DEF ClientStep

LEMMA TaskMoves ==
    ASSUME TypeOK, Fitting, NEW c \in Conn, Purge(c) \/ Reply(c) \/ Finish(c)
    PROVE  Moves(c)
<1>1. CASE Purge(c)
  BY <1>1 DEF Purge, Moves, SameTask
<1>2. CASE Reply(c)
  <2>1. /\ pc[c] = "reply" /\ replied[c] < Len(pending[c]) /\ replied' = [replied EXCEPT ![c] = @ + 1]
        /\ UNCHANGED <<pc, pending, resp, queue, writerVars>>
    BY <1>2 DEF Reply, Replying
  <2>2. Len(pending[c]) \in Nat /\ replied[c] \in Nat
    BY LenProperties DEF TypeOK
  <2>3. replied'[c] <= Len(pending[c])
    BY <2>1, <2>2 DEF TypeOK
  <2> QED
    BY <2>1, <2>3 DEF Moves, SameTask, TypeOK
<1>3. CASE Finish(c)
  <2>1. pc[c] = "reply" /\ UNCHANGED <<queue, writerVars>>
    BY <1>3 DEF Finish
  <2>2. CASE ending[c]
    <3>1. CloseTasks({c})
      BY <1>3, <2>2 DEF Finish
    <3> QED
      BY <2>1, <3>1, CloseMoves
  <2>3. CASE ~ ending[c]
    <3>1. /\ pc' = [pc EXCEPT ![c] = "select"]
          /\ pending' = [pending EXCEPT ![c] = <<>>]
          /\ resp' = [resp EXCEPT ![c] = <<>>]
          /\ replied' = [replied EXCEPT ![c] = 0]
      BY <1>3, <2>3 DEF Finish
    <3> QED
      BY <2>1, <3>1 DEF Moves, SameTask, TypeOK
  <2> QED
    BY <2>2, <2>3
<1> QED
  BY <1>1, <1>2, <1>3

\* A message goes to the writer.
LEMMA SubmitKeeps ==
    ASSUME TypeOK, Mail, Fitting, Promised, NEW c \in Conn, Submit(c)
    PROVE  Mail' /\ Fitting' /\ Promised'
<1> DEFINE msg == [conn |-> c, events |-> pending[c]]
<1>1. /\ pc[c] = "purge"
      /\ queue' = Append(queue, msg)
      /\ pc' = [pc EXCEPT ![c] = "await"]
      /\ UNCHANGED <<stored, removed, pending, resp, replied, wpc, gathered, verdicts>>
  BY DEF Submit, writerVars
<1>2. queue \in Seq(Message) /\ msg \in Message
  BY DEF TypeOK, Message
<1>3. /\ Len(queue') = Len(queue) + 1 /\ DOMAIN queue' = 1..(Len(queue) + 1)
      /\ DOMAIN queue = 1..Len(queue) /\ Len(queue) \in Nat
      /\ \A i \in DOMAIN queue : queue'[i] = queue[i]
      /\ queue'[Len(queue) + 1] = msg
  <2> HIDE DEF msg
  <2>1. queue' \in Seq(Message)
    BY <1>1, <1>2, AppendProperties
  <2> QED
    BY <1>1, <1>2, <2>1, AppendProperties, LenProperties
<1>4. /\ \A i \in DOMAIN queue : queue[i].conn \in Conn /\ queue[i].conn # c
      /\ \A m \in DOMAIN gathered : gathered[m].conn \in Conn /\ gathered[m].conn # c
  BY <1>1, GatheredBatch, QueueMessages DEF Message, Mail
<1>5. ASSUME NEW i \in DOMAIN queue'
      PROVE  i \in DOMAIN queue \/ i = Len(queue) + 1
  BY <1>3
<1>6. Mail'
  <2>1. \A i \in DOMAIN queue' : pc'[queue'[i].conn] = "await" /\ queue'[i].events = pending'[queue'[i].conn]
    <3>1. ASSUME NEW i \in DOMAIN queue
          PROVE  pc'[queue'[i].conn] = "await" /\ queue'[i].events = pending'[queue'[i].conn]
      <4>1. queue'[i] = queue[i] /\ queue[i].conn \in Conn /\ queue[i].conn # c
        BY <1>3, <1>4
      <4>2. pc'[queue[i].conn] = pc[queue[i].conn] /\ pending' = pending
        BY <1>1, <4>1 DEF TypeOK
      <4>3. pc[queue[i].conn] = "await" /\ queue[i].events = pending[queue[i].conn]
        BY DEF Mail
      <4> QED
        BY ONLY <4>1, <4>2, <4>3
    <3>2. pc'[msg.conn] = "await" /\ msg.events = pending'[msg.conn]
      BY <1>1 DEF TypeOK
    <3> HIDE DEF msg
    <3> QED
      BY <1>3, <1>5, <3>1, <3>2
  <2>2. \A m \in DOMAIN gathered' : pc'[gathered'[m].conn] = "await" /\ gathered'[m].events = pending'[gathered'[m].conn]
    BY <1>1, <1>4 DEF Mail, TypeOK
  <2>3. \A i, j \in DOMAIN queue' : queue'[i].conn = queue'[j].conn => i = j
    BY <1>3, <1>4, <1>5 DEF Mail
  <2>4. \A i \in DOMAIN queue', m \in DOMAIN gathered' : queue'[i].conn # gathered'[m].conn
    BY <1>1, <1>3, <1>4, <1>5 DEF Mail
  <2> QED
    BY <1>1, <2>1, <2>2, <2>3, <2>4 DEF Mail
<1>7. Fitting'
  BY <1>1 DEF Fitting, TypeOK
<1>8. Promised'
  BY <1>1 DEF Promised, Known
<1> QED
  BY <1>6, <1>7, <1>8

\* A message goes from the channel into the round.
LEMMA RecvKeeps ==
    ASSUME TypeOK, Mail, Fitting, Promised, WriterRecv
    PROVE  Mail' /\ Fitting' /\ Promised'
<1> DEFINE msg == Head(queue)
<1>1. /\ queue # <<>> /\ queue' = Tail(queue) /\ gathered' = Append(gathered, msg)
      /\ wpc # "answer" /\ wpc' = "collect"
      /\ UNCHANGED <<stored, removed, pc, pending, resp, replied, verdicts>>
  BY DEF WriterRecv, Round!Collect, taskVars
<1>2. queue \in Seq(Message) /\ gathered \in Seq(Message) /\ msg \in Message
  BY <1>1, HeadTailProperties DEF TypeOK, Message
<1>3. /\ DOMAIN queue = 1..Len(queue) /\ Len(queue) \in Nat
      /\ DOMAIN queue' = 1..(Len(queue) - 1)
      /\ \A i \in DOMAIN queue' : queue'[i] = queue[i + 1] /\ i + 1 \in DOMAIN queue
      /\ 1 \in DOMAIN queue /\ msg = queue[1]
  <2>1. queue' \in Seq(Message) /\ Len(queue') = Len(queue) - 1
        /\ \A i \in 1..Len(queue') : queue'[i] = queue[i + 1]
    BY <1>1, <1>2, HeadTailProperties
  <2>2. /\ DOMAIN queue = 1..Len(queue) /\ Len(queue) \in Nat
        /\ DOMAIN queue' = 1..Len(queue')
    BY <1>2, <2>1, LenProperties
  <2>3. Len(queue) > 0
    BY <1>1, <1>2, EmptySeq
  <2> QED
    BY <1>1, <1>2, <2>1, <2>2, <2>3
<1>4. /\ DOMAIN gathered = 1..Len(gathered) /\ Len(gathered) \in Nat
      /\ DOMAIN gathered' = 1..(Len(gathered) + 1)
      /\ \A m \in DOMAIN gathered : gathered'[m] = gathered[m]
      /\ gathered'[Len(gathered) + 1] = msg
  <2> HIDE DEF msg
  <2>1. gathered' \in Seq(Message)
    BY <1>1, <1>2, AppendProperties
  <2> QED
    BY <1>1, <1>2, <2>1, AppendProperties, LenProperties
<1>5. pc[msg.conn] = "await" /\ msg.events = pending[msg.conn]
  BY <1>3 DEF Mail
<1>6. \A i \in DOMAIN queue' : queue'[i].conn # msg.conn
  <2>1. ASSUME NEW i \in DOMAIN queue', queue'[i].conn = msg.conn
        PROVE  FALSE
    <3>1. i + 1 \in DOMAIN queue /\ queue[i + 1].conn = queue[1].conn
      BY <1>3, <2>1
    <3>2. i + 1 = 1
      BY <1>3, <3>1 DEF Mail
    <3> QED
      BY <1>3, <3>2
  <2> QED
    BY <2>1
<1>7. \A m \in DOMAIN gathered : gathered[m].conn # msg.conn
  BY <1>3 DEF Mail
<1>8. ASSUME NEW m \in DOMAIN gathered'
      PROVE  \/ m \in DOMAIN gathered /\ gathered'[m] = gathered[m]
             \/ m = Len(gathered) + 1 /\ gathered'[m] = msg
  BY <1>4
<1> HIDE DEF msg
<1>9. Mail'
  <2>1. \A i \in DOMAIN queue' : pc'[queue'[i].conn] = "await" /\ queue'[i].events = pending'[queue'[i].conn]
    BY <1>1, <1>3 DEF Mail
  <2>2. \A m \in DOMAIN gathered' : pc'[gathered'[m].conn] = "await" /\ gathered'[m].events = pending'[gathered'[m].conn]
    BY <1>1, <1>5, <1>8 DEF Mail
  <2>3. \A i, j \in DOMAIN queue' : queue'[i].conn = queue'[j].conn => i = j
    <3> SUFFICES ASSUME NEW i \in DOMAIN queue', NEW j \in DOMAIN queue', queue'[i].conn = queue'[j].conn
                 PROVE  i = j
      OBVIOUS
    <3>1. i + 1 = j + 1
      BY <1>3 DEF Mail
    <3> QED
      BY <1>3, <3>1
  <2>4. \A m, n \in DOMAIN gathered' : gathered'[m].conn = gathered'[n].conn => m = n
    BY <1>7, <1>8 DEF Mail
  <2>5. \A i \in DOMAIN queue', m \in DOMAIN gathered' : queue'[i].conn # gathered'[m].conn
    BY <1>3, <1>6, <1>8 DEF Mail
  <2> QED
    BY <1>1, <2>1, <2>2, <2>3, <2>4, <2>5 DEF Mail
<1>10. Fitting'
  BY <1>1 DEF Fitting
<1>11. Promised'
  BY <1>1 DEF Promised, Known
<1> QED
  BY <1>9, <1>10, <1>11

\* The transaction of the round commits: every event of it is covered.
LEMMA CommitKeeps ==
    ASSUME TypeOK, OnePerSlot(stored), Mail, Fitting, Promised, WriterCommit
    PROVE  Mail' /\ Fitting' /\ Promised'
<1>1. /\ wpc' = "answer"
      /\ UNCHANGED <<removed, queue, gathered, pc, pending, resp, replied>>
      /\ verdicts' = Verdicts(stored, gathered)
      /\ stored' = Resolve(stored \union KeptEvents(gathered))
  BY RoundRule DEF WriterCommit, Round!Commit, taskVars
<1>2. IsBatch(gathered) /\ stored \in SUBSET Event
  BY GatheredBatch DEF TypeOK
<1>3. \A x \in Entries(gathered) : Covered(Ev(gathered, x), stored')
  BY <1>1, <1>2, RoundCovers
<1>4. \A m \in DOMAIN gathered : \A k \in DOMAIN gathered[m].events :
         Covered(gathered[m].events[k], Known')
  <2> SUFFICES ASSUME NEW m \in DOMAIN gathered, NEW k \in DOMAIN gathered[m].events
               PROVE  Covered(gathered[m].events[k], Known')
    OBVIOUS
  <2>1. Covered(gathered[m].events[k], stored')
    BY <1>2, <1>3, EntryFacts
  <2>2. stored' \subseteq Known'
    BY DEF Known
  <2> QED
    BY <2>1, <2>2, CoveredMonotone
<1>5. \A e \in Event : Covered(e, Known) => Covered(e, Known')
  BY KnownWriter DEF WriterStep
<1>6. Mail'
  BY <1>1 DEF Mail
<1>7. Fitting'
  BY <1>1 DEF Fitting, Verdicts
<1>8. Promised'
  <2>1. ASSUME NEW c \in Conn, NEW j \in DOMAIN resp[c]
        PROVE  pending[c][j] \in Event
    BY LenProperties, ElementOfSeq DEF Fitting, TypeOK
  <2> QED
    BY <1>1, <1>4, <1>5, <2>1 DEF Promised
<1> QED
  BY <1>6, <1>7, <1>8

LEMMA FailKeeps ==
    ASSUME TypeOK, Mail, Fitting, Promised, WriterFail
    PROVE  Mail' /\ Fitting' /\ Promised'
<1>1. /\ wpc' = "answer"
      /\ UNCHANGED <<stored, removed, queue, gathered, pc, pending, resp, replied>>
      /\ verdicts' = Failures(gathered)
  BY RoundRule DEF WriterFail, Round!Fail, taskVars
<1>2. Mail'
  BY <1>1 DEF Mail
<1>3. Fitting'
  BY <1>1 DEF Fitting, Failures
<1>4. Promised'
  BY <1>1 DEF Promised, Failures, Known
<1> QED
  BY <1>2, <1>3, <1>4

\* Each connection gets the results of its own message.
LEMMA AnswerKeeps ==
    ASSUME TypeOK, Mail, Fitting, Promised, WriterAnswer
    PROVE  /\ Mail' /\ Fitting' /\ Promised'
           /\ \A m \in DOMAIN gathered : resp'[gathered[m].conn] = verdicts[m]
<1> DEFINE Answered == {gathered[m].conn : m \in DOMAIN gathered}
           VerdictOf(c) == verdicts[CHOOSE m \in DOMAIN gathered : gathered[m].conn = c]
<1>1. /\ wpc = "answer" /\ wpc' = "recv" /\ gathered' = <<>> /\ verdicts' = <<>>
      /\ UNCHANGED <<stored, removed, queue, pending, replied>>
  BY DEF WriterAnswer, Round!Answer
<1>2. /\ resp' = [c \in Conn |-> IF c \in Answered THEN VerdictOf(c) ELSE resp[c]]
      /\ pc' = [c \in Conn |-> IF c \in Answered THEN "reply" ELSE pc[c]]
  BY DEF WriterAnswer
<1>3. ASSUME NEW m \in DOMAIN gathered
      PROVE  /\ gathered[m].conn \in Conn
             /\ resp'[gathered[m].conn] = verdicts[m]
             /\ pc'[gathered[m].conn] = "reply"
             /\ gathered[m].events = pending[gathered[m].conn]
             /\ pc[gathered[m].conn] = "await"
  <2>1. gathered[m].conn \in Conn
    BY GatheredBatch DEF Message
  <2>2. (CHOOSE n \in DOMAIN gathered : gathered[n].conn = gathered[m].conn) = m
    BY DEF Mail
  <2> QED
    BY <1>2, <2>1, <2>2 DEF Mail
<1>4. \A c \in Conn \ Answered : pc'[c] = pc[c] /\ resp'[c] = resp[c]
  BY <1>2
<1>5. \A i \in DOMAIN queue : queue[i].conn \in Conn /\ queue[i].conn \notin Answered
  BY QueueMessages DEF Message, Mail
<1>6. Mail'
  BY <1>1, <1>4, <1>5 DEF Mail
<1>7. Fitting'
  <2>1. ASSUME NEW c \in Answered
        PROVE  /\ pc'[c] = "reply" /\ DOMAIN resp'[c] = DOMAIN pending'[c]
               /\ replied'[c] <= Len(pending'[c])
    <3>1. PICK m \in DOMAIN gathered : c = gathered[m].conn
      OBVIOUS
    <3>2. pc[c] = "await" /\ c \in Conn
      BY <1>3, <3>1
    <3>3. replied[c] = 0 /\ Len(pending[c]) \in Nat
      BY <3>2, LenProperties DEF Fitting, TypeOK
    <3> QED
      BY <1>1, <1>3, <3>1, <3>3 DEF Fitting
  <2> HIDE DEF Answered
  <2> QED
    BY <1>1, <1>4, <2>1 DEF Fitting
<1>8. Promised'
  <2>1. ASSUME NEW c \in Answered, NEW j \in DOMAIN resp'[c], resp'[c][j] # "error"
        PROVE  Covered(pending'[c][j], Known')
    <3>1. PICK m \in DOMAIN gathered : c = gathered[m].conn
      OBVIOUS
    <3>2. pending'[c] = gathered[m].events /\ resp'[c] = verdicts[m] /\ Known' = Known
      BY <1>1, <1>3, <3>1 DEF Known
    <3>3. j \in DOMAIN gathered[m].events /\ verdicts[m][j] # "error"
      BY <1>1, <2>1, <3>2 DEF Fitting
    <3> QED
      BY <1>1, <3>2, <3>3 DEF Promised
  <2> HIDE DEF Answered
  <2> QED
    BY <1>1, <1>4, <2>1 DEF Promised, Known
<1> QED
  BY <1>3, <1>6, <1>7, <1>8

LEMMA CrashKeeps ==
    ASSUME TypeOK, Mail, Fitting, Promised, Crash
    PROVE  Mail' /\ Fitting' /\ Promised'
<1>1. /\ queue' = <<>> /\ gathered' = <<>> /\ wpc' = "recv"
      /\ \A c \in Conn : pc'[c] = "off" /\ resp'[c] = <<>> /\ replied'[c] = 0
  BY DEF Crash, CloseTasks
<1> QED
  BY <1>1 DEF Mail, Fitting, Promised

-----------------------------------------------------------------------------
(* The record of what was committed *)

LEMMA MovesRecord ==
    ASSUME Recorded, NEW c \in Conn, Moves(c), stored' \subseteq stored
    PROVE  Recorded'
<1>1. /\ gathered' = gathered /\ wpc' = wpc /\ verdicts' = verdicts
      /\ committed' = committed
  BY DEF Moves, writerVars
<1>2. ASSUME NEW d \in Conn, NEW j \in DOMAIN resp'[d], resp'[d][j] = "stored"
      PROVE  pending'[d][j] \in committed'
  <2>1. resp'[d] = resp[d] /\ pending'[d] = pending[d]
    BY <1>2 DEF Moves, SameTask
  <2> QED
    BY <1>1, <1>2, <2>1 DEF Recorded
<1> QED
  BY <1>1, <1>2 DEF Recorded

LEMMA TaskRecord ==
    ASSUME TypeOK, Fitting, Recorded, NEW c \in Conn, TaskStep(c)
    PROVE  Recorded'
<1>1. CASE Submit(c)
  BY <1>1 DEF Submit, Recorded, writerVars
<1>2. CASE Purge(c) \/ Reply(c) \/ Finish(c)
  <2>1. stored' \subseteq stored
    BY <1>2 DEF Purge, Reply, Finish
  <2> QED
    BY <1>2, <2>1, TaskMoves, MovesRecord
<1> QED
  BY <1>1, <1>2 DEF TaskStep

LEMMA CommitRecord ==
    ASSUME TypeOK, Recorded, WriterCommit
    PROVE  Recorded'
<1>1. /\ UNCHANGED <<gathered, pending, resp>>
      /\ verdicts' = Verdicts(stored, gathered)
      /\ stored' = Resolve(stored \union KeptEvents(gathered))
      /\ committed' = committed \union stored'
  BY RoundRule DEF WriterCommit, Round!Commit, taskVars
<1>2. ASSUME NEW m \in DOMAIN gathered, NEW k \in DOMAIN gathered[m].events,
             verdicts'[m][k] = "stored"
      PROVE  gathered[m].events[k] \in stored'
  <2>1. /\ <<m, k>> \in Entries(gathered)
        /\ Ev(gathered, <<m, k>>) = gathered[m].events[k]
    BY GatheredBatch, EntryFacts
  <2>2. Outcome(stored, gathered, <<m, k>>) = "stored"
    BY <1>1, <1>2 DEF Verdicts
  <2> QED
    BY <1>1, <2>1, <2>2, StoredIsThere
<1> QED
  BY <1>1, <1>2 DEF Recorded

LEMMA WriterRecord ==
    ASSUME TypeOK, Mail, Fitting, Promised, Recorded, WriterStep
    PROVE  Recorded'
<1>1. CASE WriterRecv
  BY <1>1 DEF WriterRecv, Round!Collect, taskVars, Recorded
<1>2. CASE WriterCommit
  BY <1>2, CommitRecord
<1>3. CASE WriterFail
  <2>1. /\ UNCHANGED <<stored, committed, gathered, pending, resp>>
        /\ verdicts' = Failures(gathered)
    BY <1>3, RoundRule DEF WriterFail, Round!Fail, taskVars
  <2> QED
    BY <2>1 DEF Failures, Recorded
<1>4. CASE WriterAnswer
  <2>1. /\ wpc = "answer" /\ wpc' = "recv"
        /\ UNCHANGED <<stored, committed, pending>>
    BY <1>4 DEF WriterAnswer, Round!Answer
  <2>2. ASSUME NEW c \in Conn, NEW j \in DOMAIN resp'[c], resp'[c][j] = "stored"
        PROVE  pending[c][j] \in committed
    <3>1. CASE c \in {gathered[m].conn : m \in DOMAIN gathered}
      <4>1. PICK m \in DOMAIN gathered : c = gathered[m].conn
        BY <3>1
      <4>2. resp'[c] = verdicts[m]
        BY <1>4, <4>1, AnswerKeeps
      <4>3. pending[c] = gathered[m].events
        BY <4>1 DEF Mail
      <4>4. j \in DOMAIN gathered[m].events /\ verdicts[m][j] = "stored"
        BY <2>1, <2>2, <4>2 DEF Fitting
      <4> QED
        BY <2>1, <4>3, <4>4 DEF Recorded
    <3>2. CASE c \notin {gathered[m].conn : m \in DOMAIN gathered}
      <4>1. resp'[c] = resp[c]
        BY <1>4, <3>2 DEF WriterAnswer
      <4> QED
        BY <2>2, <4>1 DEF Recorded
    <3> QED
      BY <3>1, <3>2
  <2> QED
    BY <2>1, <2>2 DEF Recorded
<1> QED
  BY <1>1, <1>2, <1>3, <1>4 DEF WriterStep

LEMMA CrashRecord ==
    ASSUME Recorded, Crash
    PROVE  Recorded'
<1>1. /\ UNCHANGED <<stored, committed>> /\ wpc' = "recv"
      /\ \A c \in Conn : resp'[c] = <<>>
  BY DEF Crash, CloseTasks
<1> QED
  BY <1>1 DEF Recorded

\* Nothing is struck from the record.
LEMMA CommittedGrows ==
    ASSUME [Next]_vars
    PROVE  committed \subseteq committed'
<1>1. ASSUME NEW c \in Conn, ClientStep(c) \/ TaskStep(c) \/ RecvBroadcast(c)
      PROVE  committed' = committed
  BY <1>1 DEF ClientStep, Connect, TakeEvent, TakeEphemeral, TakeReq, TakeClose, TakeOther,
              DrainDone, DrainEnded, Leave, ReplyFails, FlushFails, RecvBroadcast,
              TaskStep, Purge, Submit, Reply, Finish, writerVars
<1>2. CASE WriterStep
  BY <1>2 DEF WriterStep, WriterRecv, WriterCommit, WriterFail, WriterAnswer
<1>3. CASE Crash
  BY <1>3 DEF Crash
<1> QED
  BY <1>1, <1>2, <1>3 DEF Next, vars

-----------------------------------------------------------------------------
(* What is answered, and what is sent *)

LEMMA ReplyCovered ==
    ASSUME TypeOK, Fitting, Promised, NEW c \in Conn, Replying(c), NextResult(c) # "error"
    PROVE  NextReply(c) \in Event /\ Covered(NextReply(c), Known)
<1>1. replied[c] \in Nat /\ Len(pending[c]) \in Nat /\ DOMAIN pending[c] = 1..Len(pending[c])
  BY LenProperties DEF TypeOK
<1>2. replied[c] + 1 \in DOMAIN pending[c] /\ DOMAIN resp[c] = DOMAIN pending[c]
  BY <1>1 DEF Replying, Fitting
<1>3. pending[c][replied[c] + 1] \in Event
  BY <1>1, <1>2, ElementOfSeq DEF TypeOK
<1> QED
  BY <1>2, <1>3 DEF Promised, NextReply, NextResult

LEMMA ReplyCommitted ==
    ASSUME TypeOK, Fitting, Recorded, NEW c \in Conn, Replying(c), NextResult(c) = "stored"
    PROVE  NextReply(c) \in Event /\ NextReply(c) \in committed
<1>1. replied[c] \in Nat /\ Len(pending[c]) \in Nat /\ DOMAIN pending[c] = 1..Len(pending[c])
  BY LenProperties DEF TypeOK
<1>2. replied[c] + 1 \in DOMAIN pending[c] /\ DOMAIN resp[c] = DOMAIN pending[c]
  BY <1>1 DEF Replying, Fitting
<1>3. pending[c][replied[c] + 1] \in Event
  BY <1>1, <1>2, ElementOfSeq DEF TypeOK
<1> QED
  BY <1>2, <1>3 DEF Recorded, NextReply, NextResult

LEMMA AckKeeps ==
    ASSUME TypeOK, Fitting, Promised, AckCovered, Next,
           \A e \in Event : Covered(e, Known) => Covered(e, Known')
    PROVE  AckCovered'
<1>1. CASE acked' = acked
  BY <1>1 DEF AckCovered, Known, TypeOK
<1>2. ASSUME NEW c \in Conn, Reply(c)
      PROVE  AckCovered'
  <2>1. /\ Replying(c)
        /\ acked' = IF NextResult(c) = "error" THEN acked ELSE acked \union {NextReply(c)}
    BY <1>2 DEF Reply
  <2>2. CASE NextResult(c) = "error"
    BY <1>1, <2>1, <2>2
  <2>3. CASE NextResult(c) # "error"
    <3>1. NextReply(c) \in Event /\ Covered(NextReply(c), Known)
      BY <2>1, <2>3, ReplyCovered
    <3> QED
      BY <2>1, <2>3, <3>1 DEF AckCovered, Known, TypeOK
  <2> QED
    BY <2>2, <2>3
<1>3. ASSUME NEW c \in Conn, ClientStep(c) \/ RecvBroadcast(c)
      PROVE  acked' = acked
  BY <1>3 DEF ClientStep, Connect, TakeEvent, TakeEphemeral, TakeReq, TakeClose, TakeOther,
              DrainDone, DrainEnded, Leave, ReplyFails, FlushFails, RecvBroadcast
<1>4. ASSUME NEW c \in Conn, Purge(c) \/ Submit(c) \/ Finish(c)
      PROVE  acked' = acked
  BY <1>4 DEF Purge, Submit, Finish
<1>5. CASE WriterStep \/ Crash
  BY <1>1, <1>5 DEF WriterStep, WriterRecv, WriterCommit, WriterFail, WriterAnswer, Crash
<1> QED
  BY <1>1, <1>2, <1>3, <1>4, <1>5 DEF Next, TaskStep

\* A step that announces only events of A, and sends only what was announced or
\* stored.
Sends(A) ==
    /\ \A d \in Conn : Waiting(d)' \subseteq Waiting(d) \union A
    /\ \A d \in Conn, s \in SubId : got'[d][s] \subseteq got[d][s] \union Waiting(d) \union stored

LEMMA SendsKeeps ==
    ASSUME TypeOK, Recorded, OnlyCommittedSent, NEW A \in SUBSET Event, Sends(A),
           \A e \in A : IsEphemeral(e) \/ e \in committed,
           committed \subseteq committed'
    PROVE  OnlyCommittedSent'
<1>1. stored \subseteq committed
  BY DEF Recorded
<1>2. ASSUME NEW c \in Conn, NEW e \in Waiting(c)'
      PROVE  IsEphemeral(e) \/ e \in committed'
  BY <1>2 DEF Sends, OnlyCommittedSent
<1>3. ASSUME NEW c \in Conn, NEW s \in SubId, NEW e \in got'[c][s]
      PROVE  IsEphemeral(e) \/ e \in committed'
  BY <1>1, <1>3 DEF Sends, OnlyCommittedSent
<1> QED
  BY <1>2, <1>3 DEF OnlyCommittedSent

LEMMA AnnounceWaiting ==
    ASSUME TypeOK, NEW e \in Event, NEW R, Announce(e, R), NEW d \in Conn
    PROVE  Waiting(d)' \subseteq Waiting(d) \union {e}
<1>1. CASE d \notin R
  <2>1. bq'[d] = <<>>
    BY <1>1 DEF Announce
  <2> QED
    BY <2>1 DEF Waiting
<1>2. CASE d \in R
  <2>1. bq'[d] = Append(Spared(d), e) /\ bq[d] \in Seq(Event)
    BY <1>2 DEF Announce, TypeOK
  <2>2. Spared(d) \in Seq(Event) /\ \A i \in DOMAIN Spared(d) : Spared(d)[i] \in Waiting(d)
    <3>1. CASE ~ Full(d)
      BY <2>1, <3>1 DEF Spared, Waiting
    <3>2. CASE Full(d)
      <4>1. bq[d] # <<>>
        BY <3>2, EmptySeq, PipelineAssumption DEF Full
      <4>2. /\ Tail(bq[d]) \in Seq(Event) /\ Len(Tail(bq[d])) = Len(bq[d]) - 1
            /\ \A i \in 1..Len(Tail(bq[d])) : Tail(bq[d])[i] = bq[d][i + 1]
        BY <2>1, <4>1, HeadTailProperties
      <4>3. DOMAIN bq[d] = 1..Len(bq[d]) /\ DOMAIN Tail(bq[d]) = 1..Len(Tail(bq[d])) /\ Len(bq[d]) \in Nat
        BY <2>1, <4>2, LenProperties
      <4> QED
        BY <3>2, <4>2, <4>3 DEF Spared, Waiting
    <3> QED
      BY <3>1, <3>2
  <2> DEFINE s == Spared(d)
  <2>3. /\ DOMAIN Append(s, e) = 1..(Len(s) + 1) /\ DOMAIN s = 1..Len(s) /\ Len(s) \in Nat
        /\ \A i \in 1..Len(s) : Append(s, e)[i] = s[i]
        /\ Append(s, e)[Len(s) + 1] = e
    <3> HIDE DEF s
    <3>1. s \in Seq(Event)
      BY <2>2 DEF s
    <3> QED
      BY <3>1, AppendProperties, LenProperties
  <2>4. \A i \in DOMAIN bq'[d] : bq'[d][i] \in Waiting(d) \union {e}
    <3> SUFFICES ASSUME NEW i \in DOMAIN bq'[d]
                 PROVE  bq'[d][i] \in Waiting(d) \union {e}
      OBVIOUS
    <3>1. i \in DOMAIN s \/ i = Len(s) + 1
      BY <2>1, <2>3
    <3> QED
      BY <2>1, <2>2, <2>3, <3>1
  <2> QED
    BY <2>4 DEF Waiting
<1> QED
  BY <1>1, <1>2

LEMMA SilenceWaiting ==
    ASSUME TypeOK, NEW R, Silence(R), NEW d \in Conn
    PROVE  Waiting(d)' \subseteq Waiting(d)
<1>1. bq'[d] = bq[d] \/ bq'[d] = <<>>
  BY DEF Silence
<1> QED
  BY <1>1 DEF Waiting

LEMMA CloseGot ==
    ASSUME TypeOK, NEW C, CloseTasks(C), NEW d \in Conn, NEW s \in SubId
    PROVE  got'[d][s] \subseteq got[d][s]
BY DEF CloseTasks, NoSubs

\* What waits for a connection before it takes the next event is that event and
\* what waits then.
LEMMA TakenWaiting ==
    ASSUME TypeOK, NEW c \in Conn, bq[c] # <<>>, bq'[c] = Tail(bq[c])
    PROVE  Head(bq[c]) \in Event /\ Waiting(c) = {Head(bq[c])} \union Waiting(c)'
<1>1. bq[c] \in Seq(Event)
  BY DEF TypeOK
<1>2. /\ Head(bq[c]) \in Event /\ Tail(bq[c]) \in Seq(Event) /\ Len(Tail(bq[c])) = Len(bq[c]) - 1
      /\ \A i \in 1..Len(Tail(bq[c])) : Tail(bq[c])[i] = bq[c][i + 1]
      /\ Head(bq[c]) = bq[c][1]
  BY <1>1, HeadTailProperties
<1>3. /\ DOMAIN bq[c] = 1..Len(bq[c]) /\ DOMAIN Tail(bq[c]) = 1..Len(Tail(bq[c]))
      /\ Len(bq[c]) \in Nat /\ Len(bq[c]) > 0
  BY <1>1, <1>2, LenProperties, EmptySeq
<1>4. ASSUME NEW i \in DOMAIN bq[c]
      PROVE  bq[c][i] \in {Head(bq[c])} \union Waiting(c)'
  <2>1. CASE i = 1
    BY <1>2, <2>1
  <2>2. CASE i # 1
    <3>1. i - 1 \in DOMAIN Tail(bq[c]) /\ Tail(bq[c])[i - 1] = bq[c][i]
      BY <1>2, <1>3, <1>4, <2>2
    <3> QED
      BY <3>1 DEF Waiting
  <2> QED
    BY <2>1, <2>2
<1>5. ASSUME NEW i \in DOMAIN Tail(bq[c])
      PROVE  Tail(bq[c])[i] \in Waiting(c)
  <2>1. i + 1 \in DOMAIN bq[c] /\ Tail(bq[c])[i] = bq[c][i + 1]
    BY <1>2, <1>3
  <2> QED
    BY <2>1 DEF Waiting
<1>6. Head(bq[c]) \in Waiting(c)
  BY <1>2, <1>3 DEF Waiting
<1> QED
  BY <1>2, <1>4, <1>5, <1>6 DEF Waiting

LEMMA QuietSends ==
    ASSUME UNCHANGED <<bq, got>>
    PROVE  Sends({})
BY DEF Sends, Waiting

LEMMA CloseSends ==
    ASSUME TypeOK, NEW C, CloseTasks(C), NEW R, Silence(R)
    PROVE  Sends({})
BY SilenceWaiting, CloseGot DEF Sends

LEMMA ClientSends ==
    ASSUME TypeOK, Fitting, Recorded, OnlyCommittedSent, NEW c \in Conn,
           ClientStep(c) \/ RecvBroadcast(c),
           committed \subseteq committed'
    PROVE  OnlyCommittedSent'
<1>1. ASSUME Sends({})
      PROVE  OnlyCommittedSent'
  BY <1>1, SendsKeeps
<1>2. CASE Connect(c) \/ DrainDone(c) \/ DrainEnded(c) \/ TakeOther(c)
           \/ \E e \in Offers[c] : TakeEvent(c, e)
  <2>1. UNCHANGED <<bq, got>>
    BY <1>2 DEF Connect, DrainDone, DrainEnded, TakeOther, TakeEvent, subVars, castVars
  <2> QED
    BY <1>1, <2>1, QuietSends
<1>3. ASSUME NEW e \in Offers[c], TakeEphemeral(c, e)
      PROVE  OnlyCommittedSent'
  <2>1. e \in Event /\ IsEphemeral(e) /\ Announce(e, Listening) /\ got' = got
    BY <1>3, PipelineAssumption DEF TakeEphemeral
  <2>2. Sends({e})
    BY <2>1, AnnounceWaiting DEF Sends
  <2> QED
    BY <2>1, <2>2, SendsKeeps
<1>4. ASSUME NEW s \in SubId, NEW f \in Asks[c], TakeReq(c, s, f)
      PROVE  OnlyCommittedSent'
  <2>1. bq' = bq /\ (got' = [got EXCEPT ![c][s] = stored \intersect f] \/ got' = [got EXCEPT ![c][s] = {}])
    BY <1>4 DEF TakeReq
  <2>2. ASSUME NEW d \in Conn, NEW t \in SubId
        PROVE  got'[d][t] \subseteq got[d][t] \union stored
    <3>1. CASE got' = [got EXCEPT ![c][s] = stored \intersect f]
      BY <3>1 DEF TypeOK
    <3>2. CASE got' = [got EXCEPT ![c][s] = {}]
      BY <3>2 DEF TypeOK
    <3> QED
      BY <2>1, <3>1, <3>2
  <2>3. Sends({})
    BY <2>1, <2>2 DEF Sends, Waiting
  <2> QED
    BY <1>1, <2>3
<1>5. ASSUME NEW s \in SubId, TakeClose(c, s)
      PROVE  OnlyCommittedSent'
  <2>1. bq' = bq /\ got' = [got EXCEPT ![c][s] = {}]
    BY <1>5 DEF TakeClose
  <2>2. \A d \in Conn, t \in SubId : got'[d][t] \subseteq got[d][t]
    BY <2>1 DEF TypeOK
  <2>3. Sends({})
    BY <2>1, <2>2 DEF Sends, Waiting
  <2> QED
    BY <1>1, <2>3
<1>6. CASE Leave(c) \/ FlushFails(c)
  <2>1. CloseTasks({c}) /\ Silence(Listening \ {c})
    BY <1>6 DEF Leave, FlushFails
  <2> QED
    BY <1>1, <2>1, CloseSends
<1>7. CASE ReplyFails(c)
  <2>1. /\ CloseTasks({c}) /\ Replying(c)
        /\ IF NextResult(c) = "stored" THEN Announce(NextReply(c), Listening \ {c})
                                       ELSE Silence(Listening \ {c})
    BY <1>7 DEF ReplyFails
  <2>2. CASE NextResult(c) = "stored"
    <3>1. NextReply(c) \in Event /\ NextReply(c) \in committed
      BY <2>1, <2>2, ReplyCommitted
    <3>2. Sends({NextReply(c)})
      BY <2>1, <2>2, <3>1, AnnounceWaiting, CloseGot DEF Sends
    <3> QED
      BY <3>1, <3>2, SendsKeeps
  <2>3. CASE NextResult(c) # "stored"
    BY <1>1, <2>1, <2>3, CloseSends
  <2> QED
    BY <2>2, <2>3
<1>8. CASE RecvBroadcast(c)
  <2>1. /\ bq[c] # <<>> /\ bq' = [bq EXCEPT ![c] = Tail(@)]
        /\ got' = [got EXCEPT ![c] = [s \in SubId |-> @[s] \union ({Head(bq[c])} \intersect subs[c][s])]]
    BY <1>8 DEF RecvBroadcast
  <2>2. /\ bq'[c] = Tail(bq[c]) /\ \A d \in Conn \ {c} : bq'[d] = bq[d] /\ got'[d] = got[d]
        /\ \A s \in SubId : got'[c][s] \subseteq got[c][s] \union {Head(bq[c])}
    BY <2>1 DEF TypeOK
  <2>3. Waiting(c) = {Head(bq[c])} \union Waiting(c)'
    BY <2>1, <2>2, TakenWaiting
  <2>4. \A d \in Conn \ {c} : Waiting(d)' = Waiting(d)
    BY <2>2 DEF Waiting
  <2>5. Sends({})
    BY <2>2, <2>3, <2>4 DEF Sends
  <2> QED
    BY <1>1, <2>5
<1> QED
  BY <1>2, <1>3, <1>4, <1>5, <1>6, <1>7, <1>8 DEF ClientStep

LEMMA TaskSends ==
    ASSUME TypeOK, Fitting, Recorded, OnlyCommittedSent, NEW c \in Conn, TaskStep(c),
           committed \subseteq committed'
    PROVE  OnlyCommittedSent'
<1>1. ASSUME Sends({})
      PROVE  OnlyCommittedSent'
  BY <1>1, SendsKeeps
<1>2. CASE Purge(c) \/ Submit(c)
  <2>1. UNCHANGED <<bq, got>>
    BY <1>2 DEF Purge, Submit, subVars, castVars
  <2> QED
    BY <1>1, <2>1, QuietSends
<1>3. CASE Reply(c)
  <2>1. /\ Replying(c) /\ got' = got
        /\ IF NextResult(c) = "stored" THEN Announce(NextReply(c), Listening) ELSE bq' = bq
    BY <1>3 DEF Reply, castVars, subVars
  <2>2. CASE NextResult(c) = "stored"
    <3>1. NextReply(c) \in Event /\ NextReply(c) \in committed
      BY <2>1, <2>2, ReplyCommitted
    <3>2. Sends({NextReply(c)})
      BY <2>1, <2>2, <3>1, AnnounceWaiting DEF Sends
    <3> QED
      BY <3>1, <3>2, SendsKeeps
  <2>3. CASE NextResult(c) # "stored"
    BY <1>1, <2>1, <2>3, QuietSends
  <2> QED
    BY <2>2, <2>3
<1>4. CASE Finish(c)
  <2>1. CASE ending[c]
    <3>1. CloseTasks({c}) /\ Silence(Listening \ {c})
      BY <1>4, <2>1 DEF Finish
    <3> QED
      BY <1>1, <3>1, CloseSends
  <2>2. CASE ~ ending[c]
    <3>1. UNCHANGED <<bq, got>>
      BY <1>4, <2>2 DEF Finish, subVars, castVars
    <3> QED
      BY <1>1, <3>1, QuietSends
  <2> QED
    BY <2>1, <2>2
<1> QED
  BY <1>2, <1>3, <1>4 DEF TaskStep

-----------------------------------------------------------------------------
(* The theorems *)

LEMMA InitInvariant == Init => IInv
<1> SUFFICES ASSUME Init
             PROVE  IInv
  OBVIOUS
<1>1. TypeOK
  BY InitType
<1>2. OnePerSlot(stored) /\ AckCovered
  BY DEF Init, OnePerSlot, AckCovered
<1>3. Mail /\ Fitting /\ Promised /\ Recorded
  BY DEF Init, Mail, Fitting, Promised, Recorded
<1>4. OnlyCommittedSent
  BY DEF Init, OnlyCommittedSent, Waiting, NoSubs
<1> QED
  BY <1>1, <1>2, <1>3, <1>4 DEF IInv

LEMMA NextInvariant ==
    ASSUME IInv, [Next]_vars
    PROVE  IInv'
<1> USE DEF IInv
<1>0. committed \subseteq committed'
  BY CommittedGrows
<1>1. ASSUME NEW c \in Conn, ClientStep(c) \/ RecvBroadcast(c)
      PROVE  IInv'
  <2>1. OnePerSlot(stored') /\ \A e \in Event : Covered(e, Known) => Covered(e, Known')
    BY <1>1, KnownClient, KnownFrame
  <2>2. TypeOK'
    BY <1>1, ClientType, RecvBroadcastType
  <2>3. Mail' /\ Fitting' /\ Promised'
    BY <1>1, <2>1, ClientMoves, MovesKeeps
  <2>4. AckCovered'
    BY <1>1, <2>1, AckKeeps DEF Next
  <2>5. OnlyCommittedSent'
    BY <1>0, <1>1, ClientSends
  <2>6. Recorded'
    BY <1>1, KnownClient, ClientMoves, MovesRecord
  <2> QED
    BY <2>1, <2>2, <2>3, <2>4, <2>5, <2>6
<1>2. ASSUME NEW c \in Conn, TaskStep(c)
      PROVE  IInv'
  <2>1. OnePerSlot(stored') /\ \A e \in Event : Covered(e, Known) => Covered(e, Known')
    BY <1>2, KnownTask
  <2>2. TypeOK'
    BY <1>2, TaskType
  <2>3. Mail' /\ Fitting' /\ Promised'
    BY <1>2, <2>1, TaskMoves, MovesKeeps, SubmitKeeps DEF TaskStep
  <2>4. AckCovered'
    BY <1>2, <2>1, AckKeeps DEF Next
  <2>5. OnlyCommittedSent'
    BY <1>0, <1>2, TaskSends
  <2>6. Recorded'
    BY <1>2, TaskRecord
  <2> QED
    BY <2>1, <2>2, <2>3, <2>4, <2>5, <2>6
<1>3. CASE WriterStep
  <2>1. OnePerSlot(stored') /\ \A e \in Event : Covered(e, Known) => Covered(e, Known')
    BY <1>3, KnownWriter
  <2>2. TypeOK'
    BY <1>3, WriterType
  <2>3. Mail' /\ Fitting' /\ Promised'
    BY <1>3, RecvKeeps, CommitKeeps, FailKeeps, AnswerKeeps DEF WriterStep
  <2>4. AckCovered'
    BY <1>3, <2>1, AckKeeps DEF Next
  <2>5. OnlyCommittedSent'
    <3>1. UNCHANGED <<bq, got>>
      BY <1>3 DEF WriterStep, WriterRecv, WriterCommit, WriterFail, WriterAnswer, subVars, castVars
    <3> QED
      BY <1>0, <3>1, QuietSends, SendsKeeps
  <2>6. Recorded'
    BY <1>3, WriterRecord
  <2> QED
    BY <2>1, <2>2, <2>3, <2>4, <2>5, <2>6
<1>4. CASE Crash
  <2>1. UNCHANGED <<stored, removed>>
    BY <1>4 DEF Crash
  <2>2. OnePerSlot(stored') /\ \A e \in Event : Covered(e, Known) => Covered(e, Known')
    BY <2>1, KnownFrame
  <2>3. TypeOK'
    BY <1>4, CrashType
  <2>4. Mail' /\ Fitting' /\ Promised'
    BY <1>4, CrashKeeps
  <2>5. AckCovered'
    BY <1>4, <2>2, AckKeeps DEF Next
  <2>6. OnlyCommittedSent'
    BY <1>0, <1>4, CloseSends, SendsKeeps DEF Crash
  <2>7. Recorded'
    BY <1>4, CrashRecord
  <2> QED
    BY <2>2, <2>3, <2>4, <2>5, <2>6, <2>7
<1>5. CASE UNCHANGED vars
  <2>1. TypeOK' /\ OnePerSlot(stored')
    BY <1>5 DEF vars, writerVars, TypeOK
  <2>2. Mail' /\ Fitting' /\ Promised'
    BY <1>5 DEF vars, writerVars, Mail, Fitting, Promised, Known
  <2>3. AckCovered' /\ OnlyCommittedSent'
    BY <1>5 DEF vars, AckCovered, OnlyCommittedSent, Waiting
  <2>4. Recorded'
    BY <1>5 DEF vars, Recorded
  <2> QED
    BY <2>1, <2>2, <2>3, <2>4
<1> QED
  BY <1>1, <1>2, <1>3, <1>4, <1>5 DEF Next

\* The invariant holds in every reachable state of the relay.
THEOREM PipelineInvariant == Spec => []IInv
BY InitInvariant, NextInvariant, PTL DEF Spec

\* The state has its types: a queue or a reply never holds anything but events
\* and results.
THEOREM PipelineTypes == Spec => []TypeOK
<1>1. IInv => TypeOK
  BY DEF IInv
<1> QED
  BY PipelineInvariant, <1>1, PTL

\* An OK true of the relay is never hollow: the event is in the database, or a
\* better one of its place, unless a deletion request took it out.
THEOREM AnswersKept == Spec => []AckCovered
<1>1. IInv => AckCovered
  BY DEF IInv
<1> QED
  BY PipelineInvariant, <1>1, PTL

\* No subscriber is sent, and none is about to be sent, an event that no
\* transaction has stored before, ephemeral events apart.
THEOREM NothingUncommittedSent == Spec => []OnlyCommittedSent
<1>1. IInv => OnlyCommittedSent
  BY DEF IInv
<1> QED
  BY PipelineInvariant, <1>1, PTL
=============================================================================
