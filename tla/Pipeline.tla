------------------------------ MODULE Pipeline ------------------------------
(***************************************************************************)
(* The path of an event through the relay: the tasks of the connections    *)
(* (handle_ws in src/src/connection.rs), the task that writes in batches   *)
(* (src/src/writer.rs), the broadcast channel between the connections, and *)
(* the subscriptions.  The database is the abstract one of EventStore: a   *)
(* write transaction is one step, which commits or fails (Db shows that    *)
(* the tables do this); the rounds of the writer are those of WriterRound  *)
(* (Writer shows that its loops do this).  What handle_event lets through  *)
(* is left open: any message of a client may be admitted, refused or be    *)
(* its last.                                                               *)
(***************************************************************************)
EXTENDS BatchRule, Sequences, FiniteSets

CONSTANTS
    Conn,          \* the connections; one that was closed may connect again
    SubId,         \* the subscription ids the clients use
    Offers,        \* Offers[c]: the events that the client of c may send
    Asks,          \* Asks[c]: its filters, each as the set of the events it matches
    MaxSubs,       \* config.max_subscriptions
    MaxDrain,      \* MAX_DRAIN
    BatchSize,     \* batch_size of the writer
    QueueCap,      \* capacity of the channel to the writer
    BroadcastCap   \* capacity of the broadcast channel

ASSUME PipelineAssumption ==
    /\ Offers \in [Conn -> SUBSET Event]
    /\ \A c \in Conn : Asks[c] \subseteq SUBSET Event \ {{}}
    /\ MaxSubs \in Nat
    /\ MaxDrain \in Nat
    /\ BatchSize \in Nat \ {0}
    /\ QueueCap \in Nat \ {0}
    /\ BroadcastCap \in Nat \ {0}

VARIABLES
    stored,      \* the committed events
    pc,          \* where the task of a connection is
    pending,     \* pending_writes
    deletions,   \* pending_deletions not run yet, as their deletion requests
    room,        \* messages that the drain loop may still take
    ending,      \* stream_ended
    resp,        \* the results that have come back for pending
    replied,     \* how many of them have been turned into an OK
    subs,        \* the subscriptions: a filter for each id, {} for none
    bq,          \* what the broadcast channel holds for a connection
    queue,       \* the channel to the writer
    wpc,         \* where the writer is
    gathered,    \* the messages of the batch it is collecting or has written
    verdicts,    \* the results of that batch, message by message
    \* History of the run, read by the properties only:
    committed,   \* every event that a transaction of the writer has stored
    acked,       \* events that were answered OK true and meant to be stored
    removed,     \* events taken out by a deletion request
    got,         \* what each subscription was sent, query and live, since its REQ
    lost,        \* what lagging or a failed query kept from a connection
    orphaned     \* stored events, wanted by a subscription, whose sender went before
                 \* they were broadcast

writerVars == <<wpc, gathered, verdicts, committed>>
taskVars   == <<pc, pending, deletions, room, ending, resp, replied>>
subVars    == <<subs, got>>
castVars   == <<bq, lost>>
vars == <<stored, pc, pending, deletions, room, ending, resp, replied, subs, bq, queue,
          wpc, gathered, verdicts, committed, acked, removed, got, lost, orphaned>>

Result == {"stored", "duplicate", "error"}

TypeOK ==
    /\ stored \in SUBSET Event
    /\ pc \in [Conn -> {"off", "select", "drain", "purge", "await", "reply"}]
    /\ pending \in [Conn -> Seq(Event)]
    /\ deletions \in [Conn -> Seq(Event)]
    /\ room \in [Conn -> 0..MaxDrain]
    /\ ending \in [Conn -> BOOLEAN]
    /\ resp \in [Conn -> Seq(Result)]
    /\ replied \in [Conn -> Nat]
    /\ subs \in [Conn -> [SubId -> SUBSET Event]]
    /\ bq \in [Conn -> Seq(Event)]
    /\ queue \in Seq([conn : Conn, events : Seq(Event)])
    /\ wpc \in {"recv", "collect", "answer"}
    /\ gathered \in Seq([conn : Conn, events : Seq(Event)])
    /\ verdicts \in Seq(Seq(Result))
    /\ committed \in SUBSET Event
    /\ acked \in SUBSET Event
    /\ removed \in SUBSET Event
    /\ got \in [Conn -> [SubId -> SUBSET Event]]
    /\ lost \in [Conn -> SUBSET Event]
    /\ orphaned \in SUBSET Event

NoSubs == [s \in SubId |-> {}]

Init ==
    /\ stored = {}
    /\ pc = [c \in Conn |-> "off"]
    /\ pending = [c \in Conn |-> <<>>]
    /\ deletions = [c \in Conn |-> <<>>]
    /\ room = [c \in Conn |-> 0]
    /\ ending = [c \in Conn |-> FALSE]
    /\ resp = [c \in Conn |-> <<>>]
    /\ replied = [c \in Conn |-> 0]
    /\ subs = [c \in Conn |-> NoSubs]
    /\ bq = [c \in Conn |-> <<>>]
    /\ queue = <<>>
    /\ wpc = "recv"
    /\ gathered = <<>>
    /\ verdicts = <<>>
    /\ committed = {}
    /\ acked = {}
    /\ removed = {}
    /\ got = [c \in Conn |-> NoSubs]
    /\ lost = [c \in Conn |-> {}]
    /\ orphaned = {}

-----------------------------------------------------------------------------
(* The broadcast channel: each receiver has the last BroadcastCap messages *)
(* it has not taken; the oldest one makes room for the next.               *)

\* What some subscription waits for.
Wanted == UNION {subs[c][s] : c \in Conn, s \in SubId}

\* Mutant: each turn of the select loop subscribes to the channel anew.
ListeningInSelect == {c \in Conn : pc[c] = "select" /\ Asks[c] # {}}

\* A client that never asks for events is not followed here: its task takes
\* every broadcast event and does nothing with it.
Listening == {c \in Conn : pc[c] # "off" /\ Asks[c] # {}}

Full(c) == Len(bq[c]) = BroadcastCap

\* Mutant: a receiver that lags starts over with an empty channel.
SparedNone(c) == IF Full(c) THEN <<>> ELSE bq[c]

\* What a receiver still has, and what its subscriptions have lost, when a
\* message comes in.
Spared(c)  == IF Full(c) THEN Tail(bq[c]) ELSE bq[c]
Dropped(c) == IF Full(c) THEN {Head(bq[c])} \intersect UNION {subs[c][s] : s \in SubId} ELSE {}

\* R are the connections that go on listening.
Announce(e, R) ==
    /\ bq' = [c \in Conn |-> IF c \in R THEN Append(Spared(c), e) ELSE <<>>]
    /\ lost' = [c \in Conn |-> IF c \in R THEN lost[c] \union Dropped(c) ELSE {}]

Silence(R) ==
    /\ bq' = [c \in Conn |-> IF c \in R THEN bq[c] ELSE <<>>]
    /\ lost' = [c \in Conn |-> IF c \in R THEN lost[c] ELSE {}]

\* The end of handle_ws drops everything the tasks of these connections hold.
CloseTasks(C) ==
    /\ pc' = [c \in Conn |-> IF c \in C THEN "off" ELSE pc[c]]
    /\ pending' = [c \in Conn |-> IF c \in C THEN <<>> ELSE pending[c]]
    /\ deletions' = [c \in Conn |-> IF c \in C THEN <<>> ELSE deletions[c]]
    /\ room' = [c \in Conn |-> IF c \in C THEN 0 ELSE room[c]]
    /\ ending' = [c \in Conn |-> ending[c] /\ c \notin C]
    /\ resp' = [c \in Conn |-> IF c \in C THEN <<>> ELSE resp[c]]
    /\ replied' = [c \in Conn |-> IF c \in C THEN 0 ELSE replied[c]]
    /\ subs' = [c \in Conn |-> IF c \in C THEN NoSubs ELSE subs[c]]
    /\ got' = [c \in Conn |-> IF c \in C THEN NoSubs ELSE got[c]]

-----------------------------------------------------------------------------
(* A connection takes messages: in the select loop one at a time, and once *)
(* an event waits to be written, in the drain loop, as many as are ready.  *)

Connect(c) ==
    /\ pc[c] = "off"
    /\ pc' = [pc EXCEPT ![c] = "select"]
    /\ UNCHANGED <<stored, pending, deletions, room, ending, resp, replied, subs, bq, queue,
                   writerVars, acked, removed, got, lost, orphaned>>

\* Mutant: the drain loop does not see that its turns are used up.
TakesMessageTooMany(c) ==
    \/ pc[c] = "select" /\ UNCHANGED room
    \/ /\ pc[c] = "drain"
       /\ room' = [room EXCEPT ![c] = @ - 1]

\* Mutant: the drain loop has no bound.
TakesMessageForever(c) == pc[c] \in {"select", "drain"} /\ UNCHANGED room

\* handle_client_message runs in either loop; an iteration of the drain loop
\* uses up one of its turns.
TakesMessage(c) ==
    \/ pc[c] = "select" /\ UNCHANGED room
    \/ /\ pc[c] = "drain"
       /\ room[c] > 0
       /\ room' = [room EXCEPT ![c] = @ - 1]

\* An event of the client is admitted and has to be written (PendingWrite).
TakeEvent(c, e) ==
    /\ ~ IsEphemeral(e)
    /\ \/ /\ pc[c] = "select"
          /\ room' = [room EXCEPT ![c] = MaxDrain]
       \/ /\ pc[c] = "drain"
          /\ room[c] > 0
          /\ room' = [room EXCEPT ![c] = @ - 1]
    /\ pc' = [pc EXCEPT ![c] = "drain"]
    /\ pending' = [pending EXCEPT ![c] = Append(@, e)]
    /\ deletions' = IF DeletionTargets(e) = {} THEN deletions
                    ELSE [deletions EXCEPT ![c] = Append(@, e)]
    /\ UNCHANGED <<stored, ending, resp, replied, subs, bq, queue, writerVars,
                   acked, removed, got, lost, orphaned>>

\* An admitted ephemeral event is broadcast at once and never stored.
TakeEphemeral(c, e) ==
    /\ IsEphemeral(e)
    /\ TakesMessage(c)
    /\ Announce(e, Listening)
    /\ UNCHANGED <<stored, pc, pending, deletions, ending, resp, replied, subs, queue,
                   writerVars, acked, removed, got, orphaned>>

\* A REQ: the stored events that match, EOSE, and the subscription is on.  When
\* the query fails it goes on without them.  (The limits of a query are not
\* reached here.)
TakeReq(c, s, f) ==
    /\ TakesMessage(c)
    /\ \/ subs[c][s] # {}
       \/ Cardinality({t \in SubId : subs[c][t] # {}}) < MaxSubs
    /\ subs' = [subs EXCEPT ![c][s] = f]
    /\ \/ /\ got' = [got EXCEPT ![c][s] = stored \intersect f]
          /\ UNCHANGED lost
       \/ /\ got' = [got EXCEPT ![c][s] = {}]
          /\ lost' = [lost EXCEPT ![c] = @ \union (stored \intersect f)]
    /\ UNCHANGED <<stored, pc, pending, deletions, ending, resp, replied, bq, queue,
                   writerVars, acked, removed, orphaned>>

TakeClose(c, s) ==
    /\ TakesMessage(c)
    /\ subs' = [subs EXCEPT ![c][s] = {}]
    /\ got' = [got EXCEPT ![c][s] = {}]
    /\ UNCHANGED <<stored, pc, pending, deletions, ending, resp, replied, bq, queue,
                   writerVars, acked, removed, lost, orphaned>>

\* A message that only gets a reply (an event refused, a REQ over the cap, a
\* NOTICE, a ping) uses up a turn of the drain loop.
TakeOther(c) ==
    /\ pc[c] = "drain"
    /\ TakesMessage(c)
    /\ UNCHANGED <<stored, pc, pending, deletions, ending, resp, replied, subVars, castVars,
                   queue, writerVars, acked, removed, orphaned>>

\* No further message is ready, or the turns are used up.
DrainDone(c) ==
    /\ pc[c] = "drain"
    /\ pc' = [pc EXCEPT ![c] = "purge"]
    /\ room' = [room EXCEPT ![c] = 0]
    /\ UNCHANGED <<stored, pending, deletions, ending, resp, replied, subVars, castVars,
                   queue, writerVars, acked, removed, orphaned>>

\* The stream ends in the drain loop, or the client is to be disconnected:
\* what is pending is still written and answered.
DrainEnded(c) ==
    /\ pc[c] = "drain"
    /\ room[c] > 0
    /\ pc' = [pc EXCEPT ![c] = "purge"]
    /\ room' = [room EXCEPT ![c] = 0]
    /\ ending' = [ending EXCEPT ![c] = TRUE]
    /\ UNCHANGED <<stored, pending, deletions, resp, replied, subVars, castVars,
                   queue, writerVars, acked, removed, orphaned>>

\* In the select loop the stream ends, the client is disconnected, or a send
\* fails; in the drain loop a send fails, and what is pending goes unwritten.
Leave(c) ==
    /\ pc[c] \in {"select", "drain"}
    /\ CloseTasks({c})
    /\ Silence(Listening \ {c})
    /\ UNCHANGED <<stored, queue, writerVars, acked, removed, orphaned>>

\* Mutant: a select whose other arm wins loses the event it had taken.
RecvBroadcastCancelled(c) ==
    /\ pc[c] = "select"
    /\ bq[c] # <<>>
    /\ bq' = [bq EXCEPT ![c] = Tail(@)]
    /\ UNCHANGED <<stored, taskVars, subVars, queue, writerVars, acked, removed, lost, orphaned>>

\* The other arm of the select: a broadcast event goes to the subscriptions
\* that match it.
RecvBroadcast(c) ==
    /\ pc[c] = "select"
    /\ bq[c] # <<>>
    /\ bq' = [bq EXCEPT ![c] = Tail(@)]
    /\ got' = [got EXCEPT ![c] = [s \in SubId |-> @[s] \union ({Head(bq[c])} \intersect subs[c][s])]]
    /\ UNCHANGED <<stored, taskVars, subs, queue, writerVars, acked, removed, lost, orphaned>>

-----------------------------------------------------------------------------
(* The pending deletions and writes of a connection *)

\* One delete_events_by_ids; an error is logged and the loop goes on.
Purge(c) ==
    /\ pc[c] = "purge"
    /\ deletions[c] # <<>>
    /\ deletions' = [deletions EXCEPT ![c] = Tail(@)]
    /\ LET d    == Head(deletions[c])
           gone == stored \intersect Deletable(Author[d], DeletionTargets(d))
       IN  \/ /\ stored' = stored \ gone
              /\ removed' = removed \union gone
           \/ UNCHANGED <<stored, removed>>
    /\ UNCHANGED <<pc, pending, room, ending, resp, replied, subVars, castVars,
                   queue, writerVars, acked, orphaned>>

\* submit or submit_batch: the message waits for a place in the channel.
Submit(c) ==
    /\ pc[c] = "purge"
    /\ deletions[c] = <<>>
    /\ Len(queue) < QueueCap
    /\ queue' = Append(queue, [conn |-> c, events |-> pending[c]])
    /\ pc' = [pc EXCEPT ![c] = "await"]
    /\ UNCHANGED <<stored, pending, deletions, room, ending, resp, replied, subVars, castVars,
                   writerVars, acked, removed, orphaned>>

\* The results have come back, and are gone through in order: a stored event
\* is broadcast, then the OK is sent.
NextReply(c)  == pending[c][replied[c] + 1]
NextResult(c) == resp[c][replied[c] + 1]

Replying(c) == pc[c] = "reply" /\ replied[c] < Len(pending[c])

\* Mutant: a duplicate is broadcast like a stored event.
ReplyToDuplicates(c) ==
    /\ Replying(c)
    /\ IF NextResult(c) # "error" THEN Announce(NextReply(c), Listening)
                                  ELSE UNCHANGED castVars
    /\ acked' = IF NextResult(c) = "error" THEN acked ELSE acked \union {NextReply(c)}
    /\ replied' = [replied EXCEPT ![c] = @ + 1]
    /\ UNCHANGED <<stored, pc, pending, deletions, room, ending, resp, subVars,
                   queue, writerVars, removed, orphaned>>

Reply(c) ==
    /\ Replying(c)
    /\ IF NextResult(c) = "stored" THEN Announce(NextReply(c), Listening)
                                   ELSE UNCHANGED castVars
    /\ acked' = IF NextResult(c) = "error" THEN acked ELSE acked \union {NextReply(c)}
    /\ replied' = [replied EXCEPT ![c] = @ + 1]
    /\ UNCHANGED <<stored, pc, pending, deletions, room, ending, resp, subVars,
                   queue, writerVars, removed, orphaned>>

\* The send of that OK fails: handle_ws returns, and the results that are left
\* are dropped.
ReplyFails(c) ==
    /\ Replying(c)
    /\ IF NextResult(c) = "stored" THEN Announce(NextReply(c), Listening \ {c})
                                   ELSE Silence(Listening \ {c})
    /\ LET left == {j \in replied[c] + 2 .. Len(pending[c]) : resp[c][j] = "stored"}
       IN  orphaned' = orphaned \union ({pending[c][j] : j \in left} \intersect Wanted)
    /\ CloseTasks({c})
    /\ UNCHANGED <<stored, queue, writerVars, acked, removed>>

\* The flush that ends a batch of replies fails.
FlushFails(c) ==
    /\ pc[c] = "reply"
    /\ replied[c] = Len(pending[c])
    /\ replied[c] > 1
    /\ CloseTasks({c})
    /\ Silence(Listening \ {c})
    /\ UNCHANGED <<stored, queue, writerVars, acked, removed, orphaned>>

\* Every event is answered: back to the select loop, or to the end.
Finish(c) ==
    /\ pc[c] = "reply"
    /\ replied[c] = Len(pending[c])
    /\ IF ending[c]
       THEN CloseTasks({c}) /\ Silence(Listening \ {c})
       ELSE /\ pc' = [pc EXCEPT ![c] = "select"]
            /\ pending' = [pending EXCEPT ![c] = <<>>]
            /\ resp' = [resp EXCEPT ![c] = <<>>]
            /\ replied' = [replied EXCEPT ![c] = 0]
            /\ UNCHANGED <<deletions, room, ending, subVars, castVars>>
    /\ UNCHANGED <<stored, queue, writerVars, acked, removed, orphaned>>

-----------------------------------------------------------------------------
(* The writer.  Its rounds are those of WriterRound, which Writer's loops   *)
(* implement; each message of a round names the connection to answer.       *)

Round == INSTANCE WriterRound
    WITH Message <- [conn : Conn, events : Seq(Event)],
         phase   <- wpc,
         answers <- verdicts

\* The next message of the channel goes into the round.
WriterRecv ==
    /\ queue # <<>>
    /\ Round!Collect(Head(queue))
    /\ queue' = Tail(queue)
    /\ UNCHANGED <<taskVars, subVars, castVars, committed, acked, removed, orphaned>>

\* The batch is full or its time is over: one transaction writes it.
WriterCommit ==
    /\ Round!Commit
    /\ committed' = committed \union stored'
    /\ UNCHANGED <<taskVars, subVars, castVars, queue, acked, removed, orphaned>>

WriterFail ==
    /\ Round!Fail
    /\ UNCHANGED <<taskVars, subVars, castVars, queue, committed, acked, removed, orphaned>>

\* The results go back through the oneshot channel of each message.
WriterAnswer ==
    /\ Round!Answer
    /\ LET Answered == {gathered[m].conn : m \in DOMAIN gathered}
           VerdictOf(c) == verdicts[CHOOSE m \in DOMAIN gathered : gathered[m].conn = c]
       IN  /\ resp' = [c \in Conn |-> IF c \in Answered THEN VerdictOf(c) ELSE resp[c]]
           /\ pc' = [c \in Conn |-> IF c \in Answered THEN "reply" ELSE pc[c]]
    /\ UNCHANGED <<pending, deletions, room, ending, replied, subVars, castVars,
                   queue, committed, acked, removed, orphaned>>

\* The process dies, or is stopped: the database is all that is left.
Crash ==
    /\ CloseTasks(Conn)
    /\ Silence({})
    /\ queue' = <<>>
    /\ wpc' = "recv"
    /\ gathered' = <<>>
    /\ verdicts' = <<>>
    /\ UNCHANGED <<stored, committed, acked, removed, orphaned>>

-----------------------------------------------------------------------------

\* What the client decides: its messages, and when it goes.
ClientStep(c) ==
    \/ Connect(c)
    \/ \E e \in Offers[c] : TakeEvent(c, e) \/ TakeEphemeral(c, e)
    \/ \E s \in SubId, f \in Asks[c] : TakeReq(c, s, f)
    \/ \E s \in SubId : TakeClose(c, s)
    \/ TakeOther(c)
    \/ DrainDone(c)
    \/ DrainEnded(c)
    \/ Leave(c)
    \/ ReplyFails(c)
    \/ FlushFails(c)

TaskStep(c) ==
    \/ Purge(c)
    \/ Submit(c)
    \/ Reply(c)
    \/ Finish(c)

WriterStep ==
    \/ WriterRecv
    \/ WriterCommit
    \/ WriterFail
    \/ WriterAnswer

Next ==
    \/ \E c \in Conn : ClientStep(c) \/ TaskStep(c) \/ RecvBroadcast(c)
    \/ WriterStep
    \/ Crash

Spec == Init /\ [][Next]_vars

\* An iteration of the drain loop never waits, whatever the client does.
DrainStep(c) == pc[c] = "drain" /\ ClientStep(c)

\* The runtime polls a task that can go on; a send comes to an end (the client
\* reads, or the connection breaks); the deadline of the writer passes; the
\* channel to the writer serves the senders that wait in turn; and the select
\* polls its arms in random order, so that a broadcast event that waits is
\* taken although the client may be sending all the time.
Fairness ==
    /\ \A c \in Conn :
          /\ WF_vars(DrainStep(c))
          /\ WF_vars(TaskStep(c))
          /\ SF_vars(Submit(c))
          /\ SF_vars(RecvBroadcast(c))
    /\ WF_vars(WriterStep)
    /\ WF_vars(WriterCommit \/ WriterFail)

FairSpec == Spec /\ Fairness

-----------------------------------------------------------------------------
(* Properties *)

\* The results "stored" that no broadcast has followed yet, each named by the
\* connection and the position in its pending writes.
Tokens ==
    {<<gathered[x[1]].conn, x[2]>> :
        x \in {y \in Entries(gathered) : wpc = "answer" /\ verdicts[y[1]][y[2]] = "stored"}}
    \union
    UNION {{<<c, i>> : i \in {j \in replied[c] + 1 .. Len(resp[c]) : resp[c][j] = "stored"}} :
              c \in Conn}

Announcers(e) == {t \in Tokens : pending[t[1]][t[2]] = e}

InFlight == {pending[t[1]][t[2]] : t \in Tokens}

Waiting(c) == {bq[c][i] : i \in DOMAIN bq[c]}

\* Whoever was answered OK true for an event finds it in the database, or a
\* better event of its place, unless a deletion request took that away: across
\* batches shared with other connections, skipped duplicates, failed
\* transactions, the routing of results, lost connections and crashes.
AckCovered == \A e \in acked : Covered(e, stored \union removed)

\* Between the query of a REQ and the live events there is no gap: what is
\* stored and matches a subscription was sent to it, or waits in its queue, or
\* waits to be broadcast.  The exceptions are what lagging or a failed query
\* took, and what its sender left behind when a send to it failed.
NoGap ==
    \A c \in Conn, s \in SubId : \A e \in stored \intersect subs[c][s] :
        \/ e \in got[c][s] \union Waiting(c) \union InFlight
        \/ e \in lost[c] \union orphaned

\* Nothing is sent to a subscription, or on its way to one, that no transaction
\* ever stored (but for ephemeral events, which never are): a broadcast does not
\* precede, or survive the failure of, the write, and an event that was refused
\* as a duplicate of a better one is not sent.  It may have been replaced or
\* deleted since.
OnlyCommittedSent ==
    \A c \in Conn : \A e \in Waiting(c) \union UNION {got[c][s] : s \in SubId} :
        IsEphemeral(e) \/ e \in committed

\* An event has one connection to broadcast it, however many submitted it in
\* one batch or in several, unless a deletion request let it be stored again.
OneAnnouncer ==
    \A e \in Event : Cardinality(Announcers(e)) > 1 => Covered(e, removed)

\* Every admitted event is answered, or its connection is gone: the drain loop
\* ends however fast the client sends, the channel to the writer and the
\* writer go on.
EveryWriteAnswered ==
    \A c \in Conn : pc[c] = "drain" ~> pc[c] \in {"select", "off"}

\* A broadcast event that matches a subscription reaches it, however busy its
\* client is, unless the subscription goes, or the receiver lags.
EveryBroadcastDelivered ==
    \A c \in Conn, s \in SubId : \A e \in UNION {Offers[d] : d \in Conn} :
        (e \in Waiting(c) /\ e \in subs[c][s])
            ~> (e \in got[c][s] \union lost[c] \/ e \notin subs[c][s])

\* A deletion request that was written and answered has taken effect on the
\* events that the client sent before it.  (Not so: see the run.)
DeletionTakesEffect ==
    \A c \in Conn : pc[c] = "reply" =>
        \A j \in 1..replied[c] : \A i \in 1..(j - 1) :
            LET d == pending[c][j]
            IN  resp[c][j] = "stored" /\ pending[c][i] \in Deletable(Author[d], DeletionTargets(d))
                    => pending[c][i] \notin stored

\* What is stored and matches a live subscription is on its way to it, unless
\* the subscriber itself lags.  (Not so: see the run.)
StoredReachesSubscribers ==
    \A c \in Conn, s \in SubId :
        stored \intersect subs[c][s]
            \subseteq got[c][s] \union Waiting(c) \union InFlight \union lost[c]
=============================================================================
