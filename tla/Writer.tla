------------------------------- MODULE Writer -------------------------------
(***************************************************************************)
(* One round of the writer task after another (writer_loop in              *)
(* src/src/writer.rs): it gathers messages, flattens them into entries,    *)
(* marks the entries that are not worth writing, writes the others in one  *)
(* transaction, lines the outcomes up with the entries again and sends     *)
(* each result where its entry came from.  Every iteration of every loop   *)
(* is a step.  write_event_batch is one step, as Db shows it to be.        *)
(***************************************************************************)
EXTENDS BatchRule, FiniteSets

CONSTANTS
    BatchSize,   \* batch_size
    Messages     \* the sequences of events that may be submitted together

ASSUME WriterAssumption ==
    /\ BatchSize \in Nat \ {0}
    /\ Messages \subseteq Seq(Event) \ {<<>>}

VARIABLES
    stored,    \* the committed events
    before,    \* history: stored as it was before the transaction of this round
    settled,   \* history: what BatchRule has for each message, once that is over
    pc,        \* the loop the task is in
    msgs,      \* the messages of this round, for their response channels
    entries,   \* InternalEntry: the event and where its result goes
    slots,     \* batch_slots: the message each of them answers
    i,         \* the index of the loop
    seen,      \* seen_ids
    skip,      \* skip
    best,      \* best_replaceable: the indexes it maps to
    outcomes,  \* what is left of outcome_iter
    results,   \* results
    byslot,    \* batch_results
    sent       \* what has been sent for each message; <<>> for nothing

vars == <<stored, before, settled, pc, msgs, entries, slots, i, seen, skip, best, outcomes, results, byslot, sent>>

N == Len(entries)

TypeOK ==
    /\ stored \in SUBSET Event
    /\ before \in SUBSET Event
    /\ settled \in Seq(Seq({"stored", "duplicate", "error"}))
    /\ pc \in {"gather", "dedup", "resolve", "write", "results", "errors", "distribute", "sent"}
    /\ msgs \in Seq([events : Messages])
    /\ entries \in Seq([event : Event, single : BOOLEAN, to : Nat])
    /\ slots \in Seq(Nat)
    /\ i \in Nat
    /\ seen \in SUBSET Event
    /\ skip \in Seq(BOOLEAN)
    /\ best \in SUBSET (1..N)
    /\ outcomes \in Seq(BOOLEAN)
    /\ results \in Seq({"stored", "duplicate", "error"})
    /\ byslot \in Seq(Seq({"stored", "duplicate", "error"}))
    /\ sent \in Seq(Seq({"stored", "duplicate", "error"}))

Init ==
    /\ stored \in {S \in SUBSET Event : OnePerSlot(S)}
    /\ before = {}
    /\ settled = <<>>
    /\ pc = "gather"
    /\ msgs = <<>>
    /\ entries = <<>>
    /\ slots = <<>>
    /\ i = 0
    /\ seen = {}
    /\ skip = <<>>
    /\ best = {}
    /\ outcomes = <<>>
    /\ results = <<>>
    /\ byslot = <<>>
    /\ sent = <<>>

\* flatten_message: a single event answers its own channel, the events of a
\* batch go to the slot that keeps the channel of the batch.
Flattened(es) ==
    IF Len(es) = 1
    THEN <<[event |-> es[1], single |-> TRUE, to |-> Len(msgs) + 1]>>
    ELSE [k \in DOMAIN es |-> [event |-> es[k], single |-> FALSE, to |-> Len(slots) + 1]]

Gather(es) ==
    /\ pc = "gather"
    /\ N < BatchSize
    /\ msgs' = Append(msgs, [events |-> es])
    /\ entries' = entries \o Flattened(es)
    /\ slots' = IF Len(es) = 1 THEN slots ELSE Append(slots, Len(msgs) + 1)
    /\ sent' = Append(sent, <<>>)
    /\ UNCHANGED <<stored, before, settled, pc, i, seen, skip, best, outcomes, results, byslot>>

\* The batch is full, or the time is over.
GatherEnd ==
    /\ pc = "gather"
    /\ N > 0
    /\ pc' = "dedup"
    /\ i' = 1
    /\ skip' = [j \in 1..N |-> FALSE]
    /\ UNCHANGED <<stored, before, settled, msgs, entries, slots, seen, best, outcomes, results, byslot, sent>>

Dedup ==
    /\ pc = "dedup"
    /\ i <= N
    /\ LET e == entries[i].event
       IN  /\ skip' = [skip EXCEPT ![i] = e \in seen]
           /\ seen' = seen \union {e}
    /\ i' = i + 1
    /\ UNCHANGED <<stored, before, settled, pc, msgs, entries, slots, best, outcomes, results, byslot, sent>>

DedupEnd ==
    /\ pc = "dedup"
    /\ i > N
    /\ pc' = "resolve"
    /\ i' = 1
    /\ UNCHANGED <<stored, before, settled, msgs, entries, slots, seen, skip, best, outcomes, results, byslot, sent>>

\* The index that best_replaceable holds for the place of e, if it has one.
Previous(e) == {j \in best : SameSlot(entries[j].event, e)}

\* Mutant: on a tie the one that came first stays.
DisplacesOlder(e, f) == CreatedAt[e] > CreatedAt[f]

\* The comparison of the code.
Displaces(e, f) == Beats(e, f)

ResolveEntry ==
    /\ pc = "resolve"
    /\ i <= N
    /\ LET e == entries[i].event
       IN  \/ /\ skip[i] \/ ~ IsReplaceable(e)
              /\ UNCHANGED <<skip, best>>
           \/ /\ ~ skip[i] /\ IsReplaceable(e)
              /\ Previous(e) = {}
              /\ best' = best \union {i}
              /\ UNCHANGED skip
           \/ /\ ~ skip[i] /\ IsReplaceable(e)
              /\ \E j \in Previous(e) :
                    IF Displaces(e, entries[j].event)
                    THEN /\ skip' = [skip EXCEPT ![j] = TRUE]
                         /\ best' = (best \ {j}) \union {i}
                    ELSE /\ skip' = [skip EXCEPT ![i] = TRUE]
                         /\ UNCHANGED best
    /\ i' = i + 1
    /\ UNCHANGED <<stored, before, settled, pc, msgs, entries, slots, seen, outcomes, results, byslot, sent>>

ResolveEnd ==
    /\ pc = "resolve"
    /\ i > N
    /\ pc' = "write"
    /\ UNCHANGED <<stored, before, settled, msgs, entries, slots, i, seen, skip, best, outcomes, results, byslot, sent>>

\* The entries that are not skipped.
Unskipped == {j \in 1..N : ~ skip[j]}

\* The nth of them.
Nth(n) == CHOOSE j \in Unskipped : Cardinality({k \in Unskipped : k <= j}) = n

\* Their events, in the order of the entries.
WriteBatch == [n \in 1..Cardinality(Unskipped) |-> entries[Nth(n)].event]

\* write_event_batch, as Db has it: each event against the ones before it.
Write ==
    /\ pc = "write"
    /\ LET b == WriteBatch
       IN  /\ outcomes' = [j \in DOMAIN b |->
                             ~ Covered(b[j], stored \union {b[k] : k \in 1..(j - 1)})]
           /\ stored' = Resolve(stored \union {b[k] : k \in DOMAIN b})
    /\ before' = stored
    /\ settled' = Verdicts(stored, msgs)
    /\ pc' = "results"
    /\ i' = 1
    /\ UNCHANGED <<msgs, entries, slots, seen, skip, best, results, byslot, sent>>

\* Mutant: every event has a transaction of its own, and one fails after another.
WriteFailsHalfway ==
    /\ pc = "write"
    /\ stored' = IF WriteBatch = <<>> THEN stored ELSE Resolve(stored \union {Head(WriteBatch)})
    /\ before' = stored
    /\ settled' = Failures(msgs)
    /\ pc' = "errors"
    /\ i' = 1
    /\ UNCHANGED <<msgs, entries, slots, seen, skip, best, outcomes, results, byslot, sent>>

\* The transaction is dropped, and with it what it had done.
WriteFails ==
    /\ pc = "write"
    /\ before' = stored
    /\ settled' = Failures(msgs)
    /\ pc' = "errors"
    /\ i' = 1
    /\ UNCHANGED <<stored, msgs, entries, slots, seen, skip, best, outcomes, results, byslot, sent>>

\* Mutant: the skipped entries take an outcome as well.
ResultEntryMisaligned ==
    /\ pc = "results"
    /\ i <= N
    /\ results' = Append(results, IF ~ skip[i] /\ outcomes # <<>> /\ Head(outcomes)
                                  THEN "stored" ELSE "duplicate")
    /\ outcomes' = IF outcomes = <<>> THEN <<>> ELSE Tail(outcomes)
    /\ i' = i + 1
    /\ UNCHANGED <<stored, before, settled, pc, msgs, entries, slots, seen, skip, best, byslot, sent>>

\* Only an entry that was written takes an outcome; outcome_iter should not run
\* out, but the code says what happens if it does.
ResultEntry ==
    /\ pc = "results"
    /\ i <= N
    /\ IF skip[i] \/ outcomes = <<>>
       THEN /\ results' = Append(results, "duplicate")
            /\ UNCHANGED outcomes
       ELSE /\ results' = Append(results, IF Head(outcomes) THEN "stored" ELSE "duplicate")
            /\ outcomes' = Tail(outcomes)
    /\ i' = i + 1
    /\ UNCHANGED <<stored, before, settled, pc, msgs, entries, slots, seen, skip, best, byslot, sent>>

ErrorEntry ==
    /\ pc = "errors"
    /\ i <= N
    /\ results' = Append(results, "error")
    /\ i' = i + 1
    /\ UNCHANGED <<stored, before, settled, pc, msgs, entries, slots, seen, skip, best, outcomes,
                   byslot, sent>>

ResultsEnd ==
    /\ pc \in {"results", "errors"}
    /\ i > N
    /\ pc' = "distribute"
    /\ i' = 1
    /\ byslot' = [s \in DOMAIN slots |-> <<>>]
    /\ UNCHANGED <<stored, before, settled, msgs, entries, slots, seen, skip, best, outcomes, results, sent>>

Distribute ==
    /\ pc = "distribute"
    /\ i <= N
    /\ LET to == entries[i].to
       IN  IF entries[i].single
           THEN /\ sent' = [sent EXCEPT ![to] = <<results[i]>>]
                /\ UNCHANGED byslot
           ELSE /\ byslot' = [byslot EXCEPT ![to] = Append(@, results[i])]
                /\ UNCHANGED sent
    /\ i' = i + 1
    /\ UNCHANGED <<stored, before, settled, pc, msgs, entries, slots, seen, skip, best, outcomes, results>>

\* Mutant: every batch is answered with the results of the first one.
FirstSlot(m) == 1

\* The slot that keeps the channel of a batch.
SlotOf(m) == CHOOSE s \in DOMAIN slots : slots[s] = m

\* The batches are answered last, and their answers stay to be looked at.
SendSlots ==
    /\ pc = "distribute"
    /\ i > N
    /\ sent' = [m \in DOMAIN sent |->
                  IF \E s \in DOMAIN slots : slots[s] = m
                  THEN byslot[SlotOf(m)]
                  ELSE sent[m]]
    /\ pc' = "sent"
    /\ UNCHANGED <<stored, before, settled, msgs, entries, slots, i, seen, skip, best, outcomes, results, byslot>>

\* Mutant: best_replaceable lives on from round to round.
NextRoundKeepingBest ==
    /\ pc = "sent"
    /\ pc' = "gather"
    /\ msgs' = <<>> /\ entries' = <<>> /\ slots' = <<>> /\ i' = 0 /\ seen' = {}
    /\ skip' = <<>> /\ outcomes' = <<>> /\ results' = <<>> /\ byslot' = <<>>
    /\ sent' = <<>> /\ before' = {} /\ settled' = <<>>
    /\ UNCHANGED <<stored, best>>

\* The next round starts from nothing.
NextRound ==
    /\ pc = "sent"
    /\ pc' = "gather"
    /\ msgs' = <<>> /\ entries' = <<>> /\ slots' = <<>> /\ i' = 0 /\ seen' = {}
    /\ skip' = <<>> /\ best' = {} /\ outcomes' = <<>> /\ results' = <<>> /\ byslot' = <<>>
    /\ sent' = <<>> /\ before' = {} /\ settled' = <<>>
    /\ UNCHANGED stored

Next ==
    \/ \E es \in Messages : Gather(es)
    \/ GatherEnd
    \/ Dedup
    \/ DedupEnd
    \/ ResolveEntry
    \/ ResolveEnd
    \/ Write
    \/ WriteFails
    \/ ResultEntry
    \/ ErrorEntry
    \/ ResultsEnd
    \/ Distribute
    \/ SendSlots
    \/ NextRound

Spec == Init /\ [][Next]_vars

-----------------------------------------------------------------------------
(* Properties *)

\* What the loops leave to be written is what BatchRule keeps, each event once:
\* a later copy never displaces the best_replaceable of its place, and the loser
\* of a place is skipped wherever in the batch it came.
WritesTheBest ==
    pc = "write" =>
        LET b == WriteBatch
        IN  /\ {b[j] : j \in DOMAIN b} = KeptEvents(msgs)
            /\ \A j, k \in DOMAIN b : b[j] = b[k] => j = k

\* At the end of a round either every event of every message was taken into
\* account, as if it had been written by itself and in any order, or the
\* transaction failed and nothing changed: skipping loses nothing.
RoundIsOneTransaction ==
    pc = "sent" =>
        \/ stored = Resolve(before \union {entries[j].event : j \in 1..N})
        \/ stored = before /\ sent = Failures(msgs)

\* Every message gets one result for each of its events, in their order, and
\* it is the one that BatchRule has for it: the outcomes, the skipped entries
\* and the two kinds of channels stay lined up.
ResultsRouted == pc = "sent" => sent = settled

\* The phase of WriterRound that a step of the loops belongs to.
Phase ==
    CASE pc = "gather" -> IF msgs = <<>> THEN "recv" ELSE "collect"
      [] pc \in {"dedup", "resolve", "write"} -> "collect"
      [] pc \in {"results", "errors", "distribute", "sent"} -> "answer"

Round == INSTANCE WriterRound
    WITH Message  <- [events : Messages],
         phase    <- Phase,
         gathered <- msgs,
         answers  <- IF pc = "sent" THEN sent ELSE settled

\* The loops do what WriterRound says: seen from outside there is one step that
\* commits or fails, with answers that are settled at that moment, though they
\* are put together and sent afterwards.
RefinesRound == Round!Spec
=============================================================================
