--------------------------------- MODULE Db ---------------------------------
(***************************************************************************)
(* The event database (src/src/db.rs): five tables of one redb file.  redb *)
(* gives one write transaction at a time (begin_write blocks), readers see *)
(* the last committed state, and a transaction that is dropped before its  *)
(* commit leaves nothing behind.  The loops inside a transaction are       *)
(* stepped one iteration at a time, so that an error or a crash may come   *)
(* between any two of them.                                                *)
(***************************************************************************)
EXTENDS Nostr, Sequences

CONSTANT MaxBatch    \* bound on the length of a batch of the writer

ASSUME MaxBatchAssumption == MaxBatch \in Nat

VARIABLES
    db,        \* the committed tables
    work,      \* the tables as the open write transaction sees them
    pc,        \* what the write transaction is for
    batch,     \* write_event_batch, write_event: the events to write
    results,   \* write_event_batch: what it has pushed so far
    author,    \* delete_events_by_ids: the pubkey
    targets,   \* delete_events_by_ids: target_ids, as a set
    todo,      \* the rest of the loop over target_ids, or over the events to migrate
    answer     \* the last of these calls returned "ok" or "err"; "none" if it did not

vars == <<db, work, pc, batch, results, author, targets, todo, answer>>

\* The keys of an event in the three indexes.
KindKey(e)   == <<Kind[e], CreatedAt[e], e>>
\* Mutant: the parts of the key in another order.
AuthorKeySwapped(e) == <<Kind[e], Author[e], CreatedAt[e], e>>

AuthorKey(e) == <<Author[e], Kind[e], CreatedAt[e], e>>
TagKeys(e)   == {<<t[1], t[2], CreatedAt[e], e>> : t \in Tags[e]}

Tables ==
    [events    : SUBSET Event,
     idxKind   : SUBSET (Nat \X Nat \X Event),
     idxAuthor : SUBSET (Pubkey \X Nat \X Nat \X Event),
     idxTag    : SUBSET (TagName \X TagValue \X Nat \X Event),
     allowed   : SUBSET Pubkey]

Batches == UNION {[1..n -> Event] : n \in 1..MaxBatch}

TypeOK ==
    /\ db \in Tables
    /\ work \in Tables
    /\ pc \in {"closed", "migrate", "idle", "batch", "write", "delete"}
    /\ batch \in Seq(Event)
    /\ results \in Seq(BOOLEAN)
    /\ author \in Pubkey
    /\ targets \in SUBSET Event
    /\ todo \in SUBSET Event
    /\ answer \in {"none", "ok", "err"}

-----------------------------------------------------------------------------
(* What an iteration does to the tables *)

\* idx_author.range((pubkey, kind, 0, "") ..= (pubkey, kind, MAX, RANGE_END))
SlotEntries(t, e) ==
    {x \in t.idxAuthor : x[1] = Author[e] /\ x[2] = Kind[e]}

\* Mutant: a tie goes to whichever event comes later.
DominatedByNewer(t, e) == \E x \in SlotEntries(t, e) : x[3] > CreatedAt[e]

Dominated(t, e) ==
    \E x \in SlotEntries(t, e) :
        \/ x[3] > CreatedAt[e]
        \/ x[3] = CreatedAt[e] /\ x[4] <= e

Refused(t, e) ==
    \/ e \in t.events
    \/ IsReplaceable(e) /\ Dominated(t, e)

\* Mutant: the tag entries of the replaced event stay.
DeleteReplaceableButTags(t, e) ==
    LET old == SlotEntries(t, e)
    IN  [t EXCEPT !.events    = @ \ {x[4] : x \in old},
                  !.idxKind   = @ \ {<<x[2], x[3], x[4]>> : x \in old},
                  !.idxAuthor = @ \ old]

\* Every entry of the slot goes, and the event it leads to.
DeleteReplaceable(t, e) ==
    LET old == SlotEntries(t, e)
        ids == {x[4] : x \in old}
    IN  [t EXCEPT !.events    = @ \ ids,
                  !.idxKind   = @ \ {<<x[2], x[3], x[4]>> : x \in old},
                  !.idxAuthor = @ \ old,
                  !.idxTag    = @ \ UNION {TagKeys(i) : i \in ids \intersect t.events}]

InsertEvent(t, e) ==
    [t EXCEPT !.events    = @ \union {e},
              !.idxKind   = @ \union {KindKey(e)},
              !.idxAuthor = @ \union {AuthorKey(e)},
              !.idxTag    = @ \union TagKeys(e)]

RemoveEvent(t, e) ==
    [t EXCEPT !.events    = @ \ {e},
              !.idxKind   = @ \ {KindKey(e)},
              !.idxAuthor = @ \ {AuthorKey(e)},
              !.idxTag    = @ \ TagKeys(e)]

\* Mutant: the replaced event is not deleted.
MakeNoRoom(t, e) == t

MakeRoom(t, e) == IF IsReplaceable(e) THEN DeleteReplaceable(t, e) ELSE t

WriteInto(t, e) ==
    IF Refused(t, e) THEN t ELSE InsertEvent(MakeRoom(t, e), e)

\* Mutant: nobody asks whose event it is.
MayDeleteAnyones(t, pk, e) == e \in t.events /\ Kind[e] # DeletionKind

\* The checks of delete_events_by_ids on one target.
MayDelete(t, pk, e) ==
    /\ e \in t.events
    /\ Author[e] = pk
    /\ Kind[e] # DeletionKind

DeleteFrom(t, pk, e) == IF MayDelete(t, pk, e) THEN RemoveEvent(t, e) ELSE t

-----------------------------------------------------------------------------

\* A file written by this program, or by a version of it that had no idx_tag.
TablesOf(S, tags, A) ==
    [events    |-> S,
     idxKind   |-> {KindKey(e) : e \in S},
     idxAuthor |-> {AuthorKey(e) : e \in S},
     idxTag    |-> tags,
     allowed   |-> A]

Init ==
    /\ \E S \in SUBSET Event, A \in SUBSET Pubkey :
          /\ OnePerSlot(S)
          /\ \/ db = TablesOf(S, {}, A)
             \/ db = TablesOf(S, UNION {TagKeys(e) : e \in S}, A)
    /\ work = db
    /\ pc = "closed"
    /\ batch = <<>>
    /\ results = <<>>
    /\ author \in Pubkey
    /\ targets = {}
    /\ todo = {}
    /\ answer = "none"

\* Db::open: the tables are created, then a migration if idx_tag has no entry.
NeedsMigration == db.events # {} /\ db.idxTag = {}

Open ==
    /\ pc = "closed"
    /\ ~ NeedsMigration
    /\ pc' = "idle"
    /\ UNCHANGED <<db, work, batch, results, author, targets, todo, answer>>

OpenToMigrate ==
    /\ pc = "closed"
    /\ NeedsMigration
    /\ pc' = "migrate"
    /\ todo' = db.events
    /\ UNCHANGED <<db, work, batch, results, author, targets, answer>>

MigrateStep(e) ==
    /\ pc = "migrate"
    /\ e \in todo
    /\ work' = [work EXCEPT !.idxTag = @ \union TagKeys(e)]
    /\ todo' = todo \ {e}
    /\ UNCHANGED <<db, pc, batch, results, author, targets, answer>>

CommitMigration ==
    /\ pc = "migrate"
    /\ todo = {}
    /\ db' = work
    /\ pc' = "idle"
    /\ UNCHANGED <<work, batch, results, author, targets, todo, answer>>

-----------------------------------------------------------------------------
(* write_event_batch *)

BeginBatch(b) ==
    /\ pc = "idle"
    /\ pc' = "batch"
    /\ batch' = b
    /\ results' = <<>>
    /\ answer' = "none"
    /\ UNCHANGED <<db, work, author, targets, todo>>

BatchStep ==
    /\ pc = "batch"
    /\ Len(results) < Len(batch)
    /\ LET e == batch[Len(results) + 1]
       IN  /\ work' = WriteInto(work, e)
           /\ results' = Append(results, ~ Refused(work, e))
    /\ UNCHANGED <<db, pc, batch, author, targets, todo, answer>>

CommitBatch ==
    /\ pc = "batch"
    /\ Len(results) = Len(batch)
    /\ db' = work
    /\ pc' = "idle"
    /\ batch' = <<>>
    /\ results' = <<>>
    /\ answer' = "ok"
    /\ UNCHANGED <<work, author, targets, todo>>

\* write_event: the same for one event, dropped uncommitted when refused.
BeginWrite(e) ==
    /\ pc = "idle"
    /\ pc' = "write"
    /\ batch' = <<e>>
    /\ answer' = "none"
    /\ UNCHANGED <<db, work, results, author, targets, todo>>

WriteEvent ==
    /\ pc = "write"
    /\ pc' = "idle"
    /\ db' = WriteInto(db, batch[1])
    /\ work' = db'
    /\ batch' = <<>>
    /\ answer' = "ok"
    /\ UNCHANGED <<results, author, targets, todo>>

-----------------------------------------------------------------------------
(* delete_events_by_ids, add_pubkey and remove_pubkey *)

BeginDelete(pk, T) ==
    /\ pc = "idle"
    /\ pc' = "delete"
    /\ author' = pk
    /\ targets' = T
    /\ todo' = T
    /\ answer' = "none"
    /\ UNCHANGED <<db, work, batch, results>>

DeleteStep(e) ==
    /\ pc = "delete"
    /\ e \in todo
    /\ work' = DeleteFrom(work, author, e)
    /\ todo' = todo \ {e}
    /\ UNCHANGED <<db, pc, batch, results, author, targets, answer>>

CommitDelete ==
    /\ pc = "delete"
    /\ todo = {}
    /\ db' = work
    /\ pc' = "idle"
    /\ targets' = {}
    /\ answer' = "ok"
    /\ UNCHANGED <<work, batch, results, author, todo>>

AddPubkey(pk) ==
    /\ pc = "idle"
    /\ db' = [db EXCEPT !.allowed = @ \union {pk}]
    /\ work' = db'
    /\ UNCHANGED <<pc, batch, results, author, targets, todo, answer>>

RemovePubkey(pk) ==
    /\ pc = "idle"
    /\ db' = [db EXCEPT !.allowed = @ \ {pk}]
    /\ work' = db'
    /\ UNCHANGED <<pc, batch, results, author, targets, todo, answer>>

-----------------------------------------------------------------------------
(* Errors and crashes *)

\* A `?' returns early and drops the transaction; an error of open ends the program.
Abandon(next, a) ==
    /\ pc' = next
    /\ answer' = a
    /\ work' = db
    /\ batch' = <<>>
    /\ results' = <<>>
    /\ targets' = {}
    /\ todo' = {}
    /\ UNCHANGED <<db, author>>

\* Mutant: the error of an iteration is returned after a commit of the others.
FailAfterCommit ==
    /\ pc \in {"batch", "write", "delete"}
    /\ pc' = "idle"
    /\ answer' = "err"
    /\ db' = work
    /\ batch' = <<>>
    /\ results' = <<>>
    /\ targets' = {}
    /\ todo' = {}
    /\ UNCHANGED <<work, author>>

Fail == pc \in {"batch", "write", "delete"} /\ Abandon("idle", "err")

Crash == pc # "closed" /\ Abandon("closed", "none")

Next ==
    \/ Open
    \/ OpenToMigrate
    \/ \E e \in todo : MigrateStep(e)
    \/ CommitMigration
    \/ \E b \in Batches : BeginBatch(b)
    \/ BatchStep
    \/ CommitBatch
    \/ \E e \in Event : BeginWrite(e)
    \/ WriteEvent
    \/ \E pk \in Pubkey, T \in SUBSET Event : BeginDelete(pk, T)
    \/ \E e \in todo : DeleteStep(e)
    \/ CommitDelete
    \/ \E pk \in Pubkey : AddPubkey(pk) \/ RemovePubkey(pk)
    \/ Fail
    \/ Crash

Spec == Init /\ [][Next]_vars

-----------------------------------------------------------------------------
(* Properties *)

\* The two indexes every write keeps, seen from the tables of a transaction.
KindAndAuthorAgree(t) ==
    /\ t.idxKind = {KindKey(e) : e \in t.events}
    /\ t.idxAuthor = {AuthorKey(e) : e \in t.events}

TagsAgree(t) == t.idxTag = UNION {TagKeys(e) : e \in t.events}

\* Once the database is open, the committed indexes lead to the committed
\* events, all of them and no other, through every mix of batches, replaced
\* events, deletions, errors, crashes and a migration cut short (query and
\* the admin counts read only the indexes).
IndexesAgree ==
    /\ KindAndAuthorAgree(db)
    /\ pc \notin {"closed", "migrate"} => TagsAgree(db)

\* A reader never finds two events of one author in one replaceable kind,
\* whatever the batches contained and in whatever order they came.
OneNewest == OnePerSlot(db.events)

\* The events of the batch that the loop has been through.
Done(n) == {batch[i] : i \in 1..n}

\* The answer of write_event_batch for each position is right about what was
\* stored before the transaction and what comes earlier in the batch: false
\* exactly when the event, or a better one for its place, was already there.
ResultsTruthful ==
    \A i \in DOMAIN results :
        results[i] = ~ Covered(batch[i], db.events \union Done(i - 1))

\* An event leaves the committed tables only because a better event of its
\* place is there instead, or because its own author asked for its removal;
\* a deletion request never leaves.
RemovalsJustified ==
    [][\A e \in db.events \ db'.events :
          \/ /\ IsReplaceable(e)
             /\ \E f \in db'.events : SameSlot(f, e) /\ Beats(f, e)
          \/ pc = "delete" /\ e \in Deletable(author, targets)]_vars

\* What the store of EventStore has been asked to do, seen in a transaction.
Asked ==
    CASE pc \in {"batch", "write"} -> "publish"
      [] pc = "delete"             -> "delete"
      [] OTHER                     -> "nothing"

Named == Done(Len(batch)) \union targets

Store == INSTANCE EventStore
    WITH stored  <- db.events,
         allowed <- db.allowed,
         asked   <- Asked,
         asker   <- author,
         named   <- Named

\* The tables, indexes, transactions, errors and crashes together do what the
\* abstract store promises: a call that returns Ok has had its effect on the
\* committed events and no other (Resolve of them and of all events of its
\* batch; or what its author may delete of its targets, taken out), and a call
\* that returns an error, or never returns, has had none.
RefinesStore == Store!Spec
=============================================================================
