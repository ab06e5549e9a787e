------------------------------ MODULE DbProofs ------------------------------
(***************************************************************************)
(* Proofs about the event database, for every set of events and every      *)
(* batch length.  The argument: what an iteration of a loop does to the    *)
(* tables is first reduced, as long as the indexes agree with the events,  *)
(* to what it does to the set of events (the table lemmas); the inductive  *)
(* invariant then says what the open transaction has done so far.          *)
(***************************************************************************)
EXTENDS Db, NostrLemmas

\* All three indexes lead to the events and only to them.
Sound(t) ==
    /\ t \in Tables
    /\ KindAndAuthorAgree(t)
    /\ TagsAgree(t)

\* The events of the batch the loop has been through, with those of before.
Offered == db.events \union Done(Len(results))

Closed == pc \in {"closed", "idle", "write"} => work = db

Migrating ==
    pc = "migrate" =>
        /\ todo \subseteq db.events
        /\ db.idxTag = {}
        /\ work = [db EXCEPT !.idxTag = UNION {TagKeys(e) : e \in db.events \ todo}]

Batching ==
    pc = "batch" =>
        /\ Sound(work)
        /\ work.allowed = db.allowed
        /\ Len(results) <= Len(batch)
        /\ OnePerSlot(work.events)
        /\ work.events \subseteq Offered
        /\ \A e \in Offered : Covered(e, work.events)

Deleting ==
    pc = "delete" =>
        /\ Sound(work)
        /\ work.allowed = db.allowed
        /\ todo \subseteq targets
        /\ work.events = db.events \ Deletable(author, targets \ todo)

Writing == pc = "write" => \E e \in Event : batch = <<e>>

\* Only a call that is under way has arguments.
Unasked ==
    /\ pc \notin {"batch", "write"} => batch = <<>>
    /\ pc # "delete" => targets = {}

\* The inductive invariant.
IInv ==
    /\ TypeOK
    /\ OneNewest
    /\ KindAndAuthorAgree(db)
    /\ TagsAgree(db) \/ db.idxTag = {}
    /\ pc \notin {"closed", "migrate"} => TagsAgree(db)
    /\ Closed
    /\ Migrating
    /\ Batching
    /\ Deleting
    /\ Writing
    /\ Unasked
    /\ pc # "batch" => results = <<>>
    /\ ResultsTruthful

-----------------------------------------------------------------------------
(* The tables *)

\* The index keys of an event have the types of the tables.
LEMMA KeyTypes ==
    ASSUME NEW e \in Event
    PROVE  /\ KindKey(e) \in Nat \X Nat \X Event
           /\ AuthorKey(e) \in Pubkey \X Nat \X Nat \X Event
           /\ TagKeys(e) \subseteq TagName \X TagValue \X Nat \X Event
<1>1. /\ Author[e] \in Pubkey
      /\ Kind[e] \in Nat
      /\ CreatedAt[e] \in Nat
      /\ Tags[e] \subseteq TagName \X TagValue
  BY EventAssumption
<1> QED
  BY <1>1 DEF KindKey, AuthorKey, TagKeys

\* Each key ends in the id of its event, so no two events share one.
LEMMA KeysApart ==
    ASSUME NEW e, NEW f
    PROVE  /\ KindKey(e) = KindKey(f) => e = f
           /\ AuthorKey(e) = AuthorKey(f) => e = f
           /\ \A k \in TagKeys(e) : k \in TagKeys(f) => e = f
  BY DEF KindKey, AuthorKey, TagKeys

\* Taking out the keys of some events leaves the keys of the others.
LEMMA KeysOfTheRest ==
    ASSUME NEW S, NEW D
    PROVE  (UNION {TagKeys(f) : f \in S}) \ (UNION {TagKeys(f) : f \in D})
             = UNION {TagKeys(f) : f \in S \ D}
<1>1. ASSUME NEW k, k \in UNION {TagKeys(f) : f \in S},
             k \notin UNION {TagKeys(f) : f \in D}
      PROVE  k \in UNION {TagKeys(f) : f \in S \ D}
  <2>1. PICK f \in S : k \in TagKeys(f)
    BY <1>1, Zenon
  <2>2. f \notin D
    BY <1>1, <2>1, Zenon
  <2> QED
    BY <2>1, <2>2, Zenon
<1>2. ASSUME NEW k, k \in UNION {TagKeys(f) : f \in S \ D}
      PROVE  /\ k \in UNION {TagKeys(f) : f \in S}
             /\ k \notin UNION {TagKeys(f) : f \in D}
  <2>1. PICK f \in S \ D : k \in TagKeys(f)
    BY <1>2, Zenon
  <2>2. \A g \in D : k \notin TagKeys(g)
    BY <2>1, KeysApart, Zenon
  <2> QED
    BY <2>1, <2>2, Zenon
<1> QED
  BY <1>1, <1>2, Zenon

\* Writing an event keeps the indexes in agreement with the events.
LEMMA InsertSound ==
    ASSUME NEW t, Sound(t), NEW e \in Event
    PROVE  /\ Sound(InsertEvent(t, e))
           /\ InsertEvent(t, e).events = t.events \union {e}
           /\ InsertEvent(t, e).allowed = t.allowed
<1> DEFINE u == InsertEvent(t, e)
<1>1. t \in Tables
  BY DEF Sound
<1>2. /\ u.events = t.events \union {e}
      /\ u.idxKind = t.idxKind \union {KindKey(e)}
      /\ u.idxAuthor = t.idxAuthor \union {AuthorKey(e)}
      /\ u.idxTag = t.idxTag \union TagKeys(e)
      /\ u.allowed = t.allowed
  BY <1>1 DEF InsertEvent, Tables
<1>3. u \in Tables
  BY <1>1, KeyTypes DEF InsertEvent, Tables
<1>4. u.idxKind = {KindKey(f) : f \in u.events}
  BY <1>2 DEF Sound, KindAndAuthorAgree
<1>5. u.idxAuthor = {AuthorKey(f) : f \in u.events}
  BY <1>2 DEF Sound, KindAndAuthorAgree
<1>6. u.idxTag = UNION {TagKeys(f) : f \in u.events}
  BY <1>2 DEF Sound, TagsAgree
<1> QED
  BY <1>2, <1>3, <1>4, <1>5, <1>6 DEF Sound, KindAndAuthorAgree, TagsAgree

\* Taking an event out, with its keys, keeps the indexes in agreement.
LEMMA RemoveSound ==
    ASSUME NEW t, Sound(t), NEW e \in Event
    PROVE  /\ Sound(RemoveEvent(t, e))
           /\ RemoveEvent(t, e).events = t.events \ {e}
           /\ RemoveEvent(t, e).allowed = t.allowed
<1> DEFINE u == RemoveEvent(t, e)
<1>1. t \in Tables
  BY DEF Sound
<1>2. /\ u.events = t.events \ {e}
      /\ u.idxKind = t.idxKind \ {KindKey(e)}
      /\ u.idxAuthor = t.idxAuthor \ {AuthorKey(e)}
      /\ u.idxTag = t.idxTag \ TagKeys(e)
      /\ u.allowed = t.allowed
  BY <1>1 DEF RemoveEvent, Tables
<1>3. u \in Tables
  BY <1>1 DEF RemoveEvent, Tables
<1>4. u.idxKind = {KindKey(f) : f \in u.events}
  BY <1>2, KeysApart DEF Sound, KindAndAuthorAgree
<1>5. u.idxAuthor = {AuthorKey(f) : f \in u.events}
  BY <1>2, KeysApart DEF Sound, KindAndAuthorAgree
<1>6. u.idxTag = UNION {TagKeys(f) : f \in u.events}
  <2>1. t.idxTag = UNION {TagKeys(f) : f \in t.events}
    BY DEF Sound, TagsAgree
  <2>2. u.idxTag = t.idxTag \ UNION {TagKeys(f) : f \in {e}}
    BY <1>2
  <2>3. (UNION {TagKeys(f) : f \in t.events}) \ (UNION {TagKeys(f) : f \in {e}})
          = UNION {TagKeys(f) : f \in t.events \ {e}}
    BY KeysOfTheRest
  <2>4. u.events = t.events \ {e}
    BY <1>2
  <2> HIDE DEF u
  <2> QED
    BY <2>1, <2>2, <2>3, <2>4
<1> QED
  BY <1>2, <1>3, <1>4, <1>5, <1>6 DEF Sound, KindAndAuthorAgree, TagsAgree

\* The range of the author index that the code walks holds the keys of the
\* events that compete for the place of e.
LEMMA SlotEntriesAre ==
    ASSUME NEW t, Sound(t), NEW e \in Event
    PROVE  SlotEntries(t, e) = {AuthorKey(f) : f \in {g \in t.events : SameSlot(g, e)}}
<1>1. t.idxAuthor = {AuthorKey(f) : f \in t.events}
  BY DEF Sound, KindAndAuthorAgree
<1>2. \A f : AuthorKey(f)[1] = Author[f] /\ AuthorKey(f)[2] = Kind[f]
  BY DEF AuthorKey
<1> QED
  BY <1>1, <1>2 DEF SlotEntries, SameSlot

\* delete_replaceable takes out the events of the place of e, and only them.
LEMMA DeleteReplaceableSound ==
    ASSUME NEW t, Sound(t), NEW e \in Event
    PROVE  /\ Sound(DeleteReplaceable(t, e))
           /\ DeleteReplaceable(t, e).events = {f \in t.events : ~ SameSlot(f, e)}
           /\ DeleteReplaceable(t, e).allowed = t.allowed
<1> DEFINE u   == DeleteReplaceable(t, e)
           old == SlotEntries(t, e)
           ids == {x[4] : x \in old}
           out == {g \in t.events : SameSlot(g, e)}
<1>1. t \in Tables
  BY DEF Sound
<1>2. /\ u.events = t.events \ ids
      /\ u.idxKind = t.idxKind \ {<<x[2], x[3], x[4]>> : x \in old}
      /\ u.idxAuthor = t.idxAuthor \ old
      /\ u.idxTag = t.idxTag \ UNION {TagKeys(i) : i \in ids \intersect t.events}
      /\ u.allowed = t.allowed
  BY <1>1 DEF DeleteReplaceable, Tables
<1>3. old = {AuthorKey(f) : f \in out}
  BY SlotEntriesAre
<1>4. ids = out
  <2>1. \A f : AuthorKey(f)[4] = f
    BY DEF AuthorKey
  <2> QED
    BY <1>3, <2>1
<1>5. {<<x[2], x[3], x[4]>> : x \in old} = {KindKey(f) : f \in out}
  <2>1. \A f : <<AuthorKey(f)[2], AuthorKey(f)[3], AuthorKey(f)[4]>> = KindKey(f)
    BY DEF AuthorKey, KindKey
  <2> QED
    BY <1>3, <2>1
<1>6. u.events = t.events \ out
  BY <1>2, <1>4
<1>7. u \in Tables
  BY <1>1 DEF DeleteReplaceable, Tables
<1>8. u.idxKind = {KindKey(f) : f \in u.events}
  BY <1>2, <1>5, <1>6, KeysApart DEF Sound, KindAndAuthorAgree
<1>9. u.idxAuthor = {AuthorKey(f) : f \in u.events}
  BY <1>2, <1>3, <1>6, KeysApart DEF Sound, KindAndAuthorAgree
<1>10. u.idxTag = UNION {TagKeys(f) : f \in u.events}
  <2>1. t.idxTag = UNION {TagKeys(f) : f \in t.events}
    BY DEF Sound, TagsAgree
  <2>2. u.idxTag = t.idxTag \ UNION {TagKeys(f) : f \in out}
    BY <1>2, <1>4
  <2>3. (UNION {TagKeys(f) : f \in t.events}) \ (UNION {TagKeys(f) : f \in out})
          = UNION {TagKeys(f) : f \in t.events \ out}
    BY KeysOfTheRest
  <2>4. u.events = t.events \ out
    BY <1>6
  <2> HIDE DEF u, out
  <2> QED
    BY <2>1, <2>2, <2>3, <2>4
<1> QED
  BY <1>2, <1>6, <1>7, <1>8, <1>9, <1>10 DEF Sound, KindAndAuthorAgree, TagsAgree

\* The lookups that refuse an event find exactly the events that cover it.
LEMMA RefusedIsCovered ==
    ASSUME NEW t, Sound(t), NEW e \in Event
    PROVE  Refused(t, e) <=> Covered(e, t.events)
<1>1. /\ t.events \subseteq Event
      /\ Event \subseteq Nat
      /\ \A f \in Event : CreatedAt[f] \in Nat
  BY EventAssumption DEF Sound, Tables
<1>2. Dominated(t, e) <=>
        \E f \in t.events : /\ SameSlot(f, e)
                            /\ \/ CreatedAt[f] > CreatedAt[e]
                               \/ CreatedAt[f] = CreatedAt[e] /\ f <= e
  <2>1. \A f : AuthorKey(f)[3] = CreatedAt[f] /\ AuthorKey(f)[4] = f
    BY DEF AuthorKey
  <2> QED
    BY <2>1, SlotEntriesAre DEF Dominated
<1>3. CASE e \in t.events
  BY <1>3 DEF Refused, Covered
<1>4. CASE e \notin t.events
  <2>1. ASSUME NEW f \in t.events
        PROVE  (f <= e) <=> (f < e)
    <3>1. f \in Nat /\ e \in Nat /\ f # e
      BY <1>1, <1>4
    <3> QED
      BY <3>1
  <2> QED
    BY <1>2, <1>4, <2>1 DEF Refused, Covered, Beats
<1> QED
  BY <1>3, <1>4

\* One iteration of write_event_batch: sound tables stay sound, with one event
\* for each place, and whatever was covered, and the event itself, is covered.
LEMMA WriteIntoSound ==
    ASSUME NEW t, Sound(t), OnePerSlot(t.events), NEW e \in Event
    PROVE  LET u == WriteInto(t, e)
           IN  /\ Sound(u)
               /\ u.allowed = t.allowed
               /\ u.events \subseteq t.events \union {e}
               /\ OnePerSlot(u.events)
               /\ \A f \in t.events \union {e} : Covered(f, u.events)
<1>1. t.events \in SUBSET Event
  BY DEF Sound, Tables
<1>2. CASE Refused(t, e)
  <2>1. Covered(e, t.events)
    BY <1>2, RefusedIsCovered
  <2> QED
    BY <1>2, <2>1 DEF WriteInto, Covered
<1>3. CASE ~ Refused(t, e)
  <2> DEFINE m == MakeRoom(t, e)
             u == InsertEvent(m, e)
  <2>1. ~ Covered(e, t.events)
    BY <1>3, RefusedIsCovered
  <2>2. /\ Sound(m)
        /\ m.allowed = t.allowed
        /\ m.events = IF IsReplaceable(e) THEN {f \in t.events : ~ SameSlot(f, e)}
                                          ELSE t.events
    BY DeleteReplaceableSound DEF MakeRoom
  <2>3. /\ Sound(u)
        /\ u.allowed = t.allowed
        /\ u.events = m.events \union {e}
    BY <2>2, InsertSound
  <2>4. u.events \in SUBSET Event
    BY <2>3 DEF Sound, Tables
  <2>5. /\ OnePerSlot(u.events)
        /\ \A f \in t.events : Covered(f, u.events)
        /\ Covered(e, u.events)
    <3>1. IF IsReplaceable(e)
            THEN u.events = {f \in t.events : ~ SameSlot(f, e)} \union {e}
            ELSE u.events = t.events \union {e}
      BY <2>2, <2>3
    <3> HIDE DEF u
    <3> QED
      BY <1>1, <2>1, <2>4, <3>1, Replace
  <2>6. u = WriteInto(t, e)
    BY <1>3 DEF WriteInto
  <2>7. u.events \subseteq t.events \union {e}
    BY <2>2, <2>3
  <2> HIDE DEF u
  <2> QED
    BY <2>3, <2>5, <2>6, <2>7
<1> QED
  BY <1>2, <1>3

\* One iteration of delete_events_by_ids.
LEMMA DeleteFromSound ==
    ASSUME NEW t, Sound(t), NEW pk \in Pubkey, NEW e \in Event
    PROVE  /\ Sound(DeleteFrom(t, pk, e))
           /\ DeleteFrom(t, pk, e).allowed = t.allowed
           /\ DeleteFrom(t, pk, e).events = t.events \ Deletable(pk, {e})
<1>1. CASE MayDelete(t, pk, e)
  BY <1>1, RemoveSound DEF DeleteFrom, MayDelete, Deletable
<1>2. CASE ~ MayDelete(t, pk, e)
  BY <1>2 DEF DeleteFrom, MayDelete, Deletable
<1> QED
  BY <1>1, <1>2

-----------------------------------------------------------------------------
(* The inductive invariant *)

LEMMA InitInv == Init => IInv
<1> SUFFICES ASSUME Init
             PROVE  IInv
  OBVIOUS
<1>1. PICK S \in SUBSET Event, A \in SUBSET Pubkey :
         /\ OnePerSlot(S)
         /\ \/ db = TablesOf(S, {}, A)
            \/ db = TablesOf(S, UNION {TagKeys(e) : e \in S}, A)
  BY DEF Init
<1>2. PICK tags : /\ db = TablesOf(S, tags, A)
                  /\ tags = {} \/ tags = UNION {TagKeys(e) : e \in S}
  BY <1>1
<1>3. /\ db.events = S
      /\ db.idxKind = {KindKey(e) : e \in S}
      /\ db.idxAuthor = {AuthorKey(e) : e \in S}
      /\ db.idxTag = tags
  BY <1>2 DEF TablesOf
<1>4. db \in Tables
  BY <1>2, KeyTypes DEF TablesOf, Tables
<1>5. TypeOK
  BY <1>4 DEF Init, TypeOK
<1>6. KindAndAuthorAgree(db) /\ (TagsAgree(db) \/ db.idxTag = {})
  BY <1>2, <1>3 DEF KindAndAuthorAgree, TagsAgree
<1>7. OneNewest
  BY <1>1, <1>3 DEF OneNewest
<1> QED
  BY <1>5, <1>6, <1>7
  DEF Init, IInv, Closed, Migrating, Batching, Deleting, Writing, Unasked,
      ResultsTruthful

\* Between transactions the open database is sound and work is a copy of it.
LEMMA IdleSound ==
    ASSUME IInv, pc = "idle"
    PROVE  Sound(db) /\ work = db
  BY DEF IInv, TypeOK, Sound, Closed

\* What the invariant asks of a step that leaves the database at rest.
LEMMA RestInv ==
    ASSUME (Sound(db) /\ OneNewest /\ work = db)', pc' \in {"closed", "idle"},
           batch' = <<>>, results' = <<>>, author' \in Pubkey,
           targets' = {}, todo' \in SUBSET Event, answer' \in {"none", "ok", "err"}
    PROVE  IInv'
  BY DEF IInv, TypeOK, Sound, OneNewest, Closed, Migrating, Batching, Deleting,
         Writing, Unasked, ResultsTruthful

LEMMA StepInv == IInv /\ [Next]_vars => IInv'
<1> SUFFICES ASSUME IInv, [Next]_vars
             PROVE  IInv'
  OBVIOUS
<1> USE DEF IInv
<1>1. CASE UNCHANGED vars
  <2>1. /\ TypeOK'
        /\ OneNewest'
        /\ (KindAndAuthorAgree(db) /\ (TagsAgree(db) \/ db.idxTag = {}))'
        /\ (pc \notin {"closed", "migrate"} => TagsAgree(db))'
        /\ (pc # "batch" => results = <<>>)'
    BY <1>1 DEF vars, TypeOK, OneNewest, KindAndAuthorAgree, TagsAgree
  <2>2. Closed' /\ Migrating' /\ Deleting' /\ Writing' /\ Unasked'
    BY <1>1 DEF vars, Closed, Migrating, Deleting, Writing, Unasked
  <2>3. Offered' = Offered /\ \A i : Done(i)' = Done(i)
    BY <1>1 DEF vars, Offered, Done
  <2>4. Batching'
    BY <1>1, <2>3 DEF vars, Batching
  <2>5. ResultsTruthful'
    BY <1>1, <2>3 DEF vars, ResultsTruthful
  <2> QED
    BY <2>1, <2>2, <2>4, <2>5
<1>2. CASE Open
  <2>1. Sound(db) /\ work = db
    <3>1. TagsAgree(db)
      BY <1>2 DEF Open, NeedsMigration, TagsAgree
    <3> QED
      BY <1>2, <3>1 DEF Open, Sound, TypeOK, Closed
  <2> QED
    BY <1>2, <2>1 DEF Open, TypeOK, Sound, OneNewest, Closed, Migrating, Batching,
                      Deleting, Writing, Unasked, ResultsTruthful, KindAndAuthorAgree, TagsAgree
<1>3. CASE OpenToMigrate
  <2>1. db.idxTag = {} /\ work = db /\ db \in Tables
    BY <1>3 DEF OpenToMigrate, NeedsMigration, Closed, TypeOK
  <2>2. work = [db EXCEPT !.idxTag = UNION {TagKeys(e) : e \in db.events \ db.events}]
    BY <2>1 DEF Tables
  <2>3. TypeOK'
    BY <1>3, <2>1 DEF OpenToMigrate, TypeOK, Tables
  <2>4. Migrating'
    BY <1>3, <2>1, <2>2 DEF OpenToMigrate, Migrating
  <2> QED
    BY <1>3, <2>3, <2>4 DEF OpenToMigrate, OneNewest, KindAndAuthorAgree, TagsAgree,
                            Closed, Batching, Deleting, Writing, Unasked, ResultsTruthful
<1>4. ASSUME NEW e \in todo, MigrateStep(e)
      PROVE  IInv'
  <2>1. /\ pc = "migrate"
        /\ todo \subseteq db.events
        /\ db.idxTag = {}
        /\ db \in Tables
        /\ work = [db EXCEPT !.idxTag = UNION {TagKeys(f) : f \in db.events \ todo}]
    BY <1>4 DEF MigrateStep, Migrating, TypeOK
  <2>2. work' = [db EXCEPT !.idxTag = UNION {TagKeys(f) : f \in db.events \ todo'}]
    <3>1. work' = [db EXCEPT !.idxTag = (UNION {TagKeys(f) : f \in db.events \ todo})
                                          \union TagKeys(e)]
      BY <1>4, <2>1 DEF MigrateStep, Tables
    <3>2. db.events \ todo' = (db.events \ todo) \union {e}
      BY <1>4, <2>1 DEF MigrateStep
    <3>3. UNION {TagKeys(f) : f \in db.events \ todo'}
             = (UNION {TagKeys(f) : f \in db.events \ todo}) \union TagKeys(e)
      BY <3>2
    <3> QED
      BY <3>1, <3>3
  <2>3. work' \in Tables
    <3>1. e \in Event
      BY <1>4 DEF TypeOK
    <3> QED
      BY <1>4, <3>1, KeyTypes DEF MigrateStep, TypeOK, Tables
  <2>4. TypeOK'
    BY <1>4, <2>3 DEF MigrateStep, TypeOK
  <2>5. Migrating'
    BY <1>4, <2>1, <2>2 DEF MigrateStep, Migrating
  <2> QED
    BY <1>4, <2>1, <2>4, <2>5 DEF MigrateStep, OneNewest, KindAndAuthorAgree, TagsAgree,
                            Closed, Batching, Deleting, Writing, Unasked, ResultsTruthful
<1>5. CASE CommitMigration
  <2>1. /\ work = [db EXCEPT !.idxTag = UNION {TagKeys(f) : f \in db.events}]
        /\ work \in Tables
        /\ db \in Tables
    BY <1>5 DEF CommitMigration, Migrating, TypeOK
  <2>2. /\ work.events = db.events
        /\ work.idxKind = db.idxKind
        /\ work.idxAuthor = db.idxAuthor
        /\ work.idxTag = UNION {TagKeys(f) : f \in work.events}
    BY <2>1 DEF Tables
  <2>3. Sound(work)
    BY <2>1, <2>2 DEF Sound, KindAndAuthorAgree, TagsAgree
  <2>4. Sound(db)' /\ OneNewest' /\ (work = db)'
    BY <1>5, <2>2, <2>3 DEF CommitMigration, OneNewest, Sound, KindAndAuthorAgree, TagsAgree
  <2> QED
    BY <1>5, <2>4, RestInv DEF CommitMigration, TypeOK, Unasked
<1>6. ASSUME NEW b \in Batches, BeginBatch(b)
      PROVE  IInv'
  <2>1. Sound(db) /\ work = db
    BY <1>6, IdleSound DEF BeginBatch
  <2>2. b \in Seq(Event)
    BY MaxBatchAssumption DEF Batches
  <2>3. TypeOK'
    BY <1>6, <2>2 DEF BeginBatch, TypeOK
  <2>4. Len(results') = 0 /\ Len(batch') \in Nat
    BY <1>6, <2>2 DEF BeginBatch
  <2>5. Offered' = db.events
    BY <1>6, <2>4 DEF BeginBatch, Offered, Done
  <2>6. Batching'
    BY <1>6, <2>1, <2>4, <2>5
    DEF BeginBatch, Batching, OneNewest, Covered, Sound, KindAndAuthorAgree, TagsAgree
  <2> QED
    BY <1>6, <2>3, <2>6 DEF BeginBatch, OneNewest, KindAndAuthorAgree, TagsAgree,
                            Closed, Migrating, Deleting, Writing, Unasked, ResultsTruthful
<1>7. CASE BatchStep
  <2> DEFINE n == Len(results)
             e == batch[n + 1]
  <2>1. /\ pc = "batch"
        /\ results \in Seq(BOOLEAN)
        /\ batch \in Seq(Event)
        /\ n \in Nat
        /\ n + 1 \in 1..Len(batch)
        /\ e \in Event
        /\ work' = WriteInto(work, e)
        /\ results' = Append(results, ~ Refused(work, e))
        /\ UNCHANGED <<db, pc, batch, author, targets, todo, answer>>
    BY <1>7 DEF BatchStep, TypeOK
  <2>2. /\ Sound(work)
        /\ work.allowed = db.allowed
        /\ OnePerSlot(work.events)
        /\ work.events \subseteq Offered
        /\ \A f \in Offered : Covered(f, work.events)
    BY <2>1 DEF Batching
  <2>3. /\ Sound(work')
        /\ work'.allowed = work.allowed
        /\ work'.events \subseteq work.events \union {e}
        /\ OnePerSlot(work'.events)
        /\ \A f \in work.events \union {e} : Covered(f, work'.events)
    BY <2>1, <2>2, WriteIntoSound
  <2>4. /\ results' \in Seq(BOOLEAN)
        /\ Len(results') = n + 1
        /\ \A i \in 1..n : results'[i] = results[i]
        /\ results'[n + 1] = ~ Refused(work, e)
        /\ DOMAIN results = 1..n
        /\ DOMAIN results' = 1..(n + 1)
    BY <2>1
  <2>5. Offered' = Offered \union {e}
    <3>1. {batch[i] : i \in 1..(n + 1)} = {batch[i] : i \in 1..n} \union {batch[n + 1]}
      <4>1. 1..(n + 1) = (1..n) \union {n + 1}
        BY <2>1
      <4> HIDE DEF n
      <4> QED
        BY <4>1, Zenon
    <3> QED
      BY <2>1, <2>4, <3>1 DEF Offered, Done
  <2>6. /\ Offered \in SUBSET Event
        /\ work.events \in SUBSET Event
        /\ work'.events \in SUBSET Event
    <3>1. Done(n) \subseteq Event
      BY <2>1 DEF Done
    <3> QED
      BY <2>2, <2>3, <3>1 DEF Offered, TypeOK, Sound, Tables
  <2>7. TypeOK'
    BY <2>1, <2>3, <2>4 DEF TypeOK, Sound
  <2>8. \A f \in Offered' : Covered(f, work'.events)
    <3> HIDE DEF e, n
    <3>1. ASSUME NEW f \in Offered
          PROVE  Covered(f, work'.events)
      BY <2>2, <2>3, <2>6, CoveredTransitive
    <3> QED
      BY <2>3, <2>5, <3>1
  <2>9. Batching'
    <3> HIDE DEF e
    <3> QED
      BY <2>1, <2>2, <2>3, <2>4, <2>5, <2>8 DEF Batching
  <2>10. Covered(e, work.events) <=> Covered(e, Offered)
    <3> HIDE DEF e, n
    <3>1. Covered(e, work.events) => Covered(e, Offered)
      BY <2>2, CoveredMonotone
    <3>2. Covered(e, Offered) => Covered(e, work.events)
      BY <2>1, <2>2, <2>6, CoveredTransitive
    <3> QED
      BY <3>1, <3>2
  <2>11. ResultsTruthful'
    <3> DEFINE Before(i) == db.events \union Done(i - 1)
    <3>1. ASSUME NEW i \in 1..n
          PROVE  results'[i] = ~ Covered(batch[i], Before(i))
      BY <2>4 DEF ResultsTruthful
    <3>2. results'[n + 1] = ~ Covered(batch[n + 1], Before(n + 1))
      <4>1. Before(n + 1) = Offered
        BY <2>1 DEF Offered
      <4>2. Refused(work, e) <=> Covered(e, Offered)
        BY <2>1, <2>2, <2>10, RefusedIsCovered
      <4> QED
        BY <2>4, <4>1, <4>2
    <3>3. \A i : Before(i)' = Before(i)
      BY <2>1 DEF Done
    <3>4. \A i \in 1..(n + 1) : results'[i] = ~ Covered(batch[i], Before(i))
      <4>1. \A i \in 1..(n + 1) : i \in 1..n \/ i = n + 1
        BY <2>1
      <4> QED
        BY <3>1, <3>2, <4>1
    <3> HIDE DEF n, e, Before
    <3> QED
      BY <2>1, <2>4, <3>3, <3>4 DEF ResultsTruthful, Before
  <2> QED
    BY <2>1, <2>7, <2>9, <2>11
    DEF OneNewest, KindAndAuthorAgree, TagsAgree, Closed, Migrating, Deleting, Writing, Unasked
<1>8. CASE CommitBatch
  <2>1. Sound(work) /\ OnePerSlot(work.events)
    BY <1>8 DEF CommitBatch, Batching
  <2>2. (Sound(db) /\ OneNewest /\ work = db)'
    BY <1>8, <2>1 DEF CommitBatch, OneNewest, Sound, KindAndAuthorAgree, TagsAgree
  <2> QED
    BY <1>8, <2>2, RestInv DEF CommitBatch, TypeOK, Unasked
<1>9. CASE WriteEvent
  <2>1. Sound(db) /\ OnePerSlot(db.events) /\ batch[1] \in Event
    BY <1>9 DEF WriteEvent, Writing, OneNewest, Sound, TypeOK
  <2>2. Sound(db') /\ OnePerSlot(db'.events) /\ work' = db'
    BY <1>9, <2>1, WriteIntoSound DEF WriteEvent
  <2>3. (Sound(db) /\ OneNewest /\ work = db)'
    BY <2>2 DEF OneNewest, Sound, KindAndAuthorAgree, TagsAgree
  <2> QED
    BY <1>9, <2>3, RestInv DEF WriteEvent, TypeOK, Unasked
<1>10. ASSUME NEW pk \in Pubkey, NEW T \in SUBSET Event, BeginDelete(pk, T)
       PROVE  IInv'
  <2>1. Sound(db) /\ work = db
    BY <1>10, IdleSound DEF BeginDelete
  <2>2. TypeOK'
    BY <1>10 DEF BeginDelete, TypeOK
  <2>3. Deleting'
    BY <1>10, <2>1
    DEF BeginDelete, Deleting, Deletable, Sound, KindAndAuthorAgree, TagsAgree
  <2> QED
    BY <1>10, <2>2, <2>3 DEF BeginDelete, OneNewest, KindAndAuthorAgree, TagsAgree,
                             Closed, Migrating, Batching, Writing, Unasked,
                             ResultsTruthful
<1>11. ASSUME NEW e \in todo, DeleteStep(e)
       PROVE  IInv'
  <2>1. /\ pc = "delete"
        /\ e \in Event
        /\ author \in Pubkey
        /\ todo' = todo \ {e}
        /\ work' = DeleteFrom(work, author, e)
        /\ UNCHANGED <<db, pc, batch, results, author, targets, answer>>
    BY <1>11 DEF DeleteStep, TypeOK
  <2>2. /\ Sound(work)
        /\ work.allowed = db.allowed
        /\ todo \subseteq targets
        /\ work.events = db.events \ Deletable(author, targets \ todo)
    BY <2>1 DEF Deleting
  <2>3. /\ Sound(work')
        /\ work'.allowed = work.allowed
        /\ work'.events = work.events \ Deletable(author, {e})
    <3>1. /\ Sound(DeleteFrom(work, author, e))
          /\ DeleteFrom(work, author, e).allowed = work.allowed
          /\ DeleteFrom(work, author, e).events = work.events \ Deletable(author, {e})
      BY <2>1, <2>2, DeleteFromSound
    <3> QED
      BY <2>1, <3>1
  <2>4. work'.events = db.events \ Deletable(author, targets \ todo')
    BY <1>11, <2>1, <2>2, <2>3 DEF Deletable
  <2>5. TypeOK'
    BY <2>1, <2>3 DEF TypeOK, Sound
  <2>6. Deleting'
    BY <2>1, <2>2, <2>3, <2>4 DEF Deleting
  <2> QED
    BY <2>1, <2>5, <2>6 DEF OneNewest, KindAndAuthorAgree, TagsAgree,
                            Closed, Migrating, Batching, Writing, Unasked,
                             ResultsTruthful
<1>12. CASE CommitDelete
  <2>1. Sound(work) /\ work.events \subseteq db.events
    BY <1>12 DEF CommitDelete, Deleting
  <2>2. OnePerSlot(work.events)
    BY <2>1 DEF OneNewest, OnePerSlot
  <2>3. (Sound(db) /\ OneNewest /\ work = db)'
    BY <1>12, <2>1, <2>2 DEF CommitDelete, OneNewest, Sound, KindAndAuthorAgree, TagsAgree
  <2> QED
    BY <1>12, <2>3, RestInv DEF CommitDelete, TypeOK, Unasked
<1>13. ASSUME NEW pk \in Pubkey, AddPubkey(pk) \/ RemovePubkey(pk)
       PROVE  IInv'
  <2>1. pc = "idle" /\ Sound(db)
    BY <1>13, IdleSound DEF AddPubkey, RemovePubkey
  <2>2. /\ db' \in Tables
        /\ db'.events = db.events
        /\ db'.idxKind = db.idxKind
        /\ db'.idxAuthor = db.idxAuthor
        /\ db'.idxTag = db.idxTag
    BY <1>13, <2>1 DEF AddPubkey, RemovePubkey, Sound, Tables
  <2>3. (Sound(db) /\ OneNewest /\ work = db)'
    BY <1>13, <2>1, <2>2
    DEF AddPubkey, RemovePubkey, OneNewest, Sound, KindAndAuthorAgree, TagsAgree
  <2> QED
    BY <1>13, <2>3, RestInv DEF AddPubkey, RemovePubkey, TypeOK, Unasked
<1>14. CASE Fail
  <2>1. Sound(db)
    BY <1>14 DEF Fail, Sound, TypeOK
  <2>2. (Sound(db) /\ OneNewest /\ work = db)'
    BY <1>14, <2>1 DEF Fail, Abandon, OneNewest, Sound, KindAndAuthorAgree, TagsAgree
  <2> QED
    BY <1>14, <2>2, RestInv DEF Fail, Abandon, TypeOK
<1>15. CASE Crash
  BY <1>15 DEF Crash, Abandon, TypeOK, OneNewest, KindAndAuthorAgree, TagsAgree,
               Closed, Migrating, Batching, Deleting, Writing, Unasked, ResultsTruthful
<1>16. ASSUME NEW e \in Event, BeginWrite(e)
       PROVE  IInv'
  <2>1. Sound(db) /\ work = db
    BY <1>16, IdleSound DEF BeginWrite
  <2>2. TypeOK'
    BY <1>16 DEF BeginWrite, TypeOK
  <2> QED
    BY <1>16, <2>1, <2>2 DEF BeginWrite, OneNewest, KindAndAuthorAgree, TagsAgree, Sound,
                             Closed, Migrating, Batching, Deleting, Writing, Unasked,
                             ResultsTruthful
<1> QED
  BY <1>1, <1>2, <1>3, <1>4, <1>5, <1>6, <1>7, <1>8, <1>9, <1>10, <1>11, <1>12,
     <1>13, <1>14, <1>15, <1>16 DEF Next

\* The inductive invariant holds in every reachable state.
THEOREM Invariant == Spec => []IInv
<1>1. Init => IInv
  BY InitInv
<1>2. IInv /\ [Next]_vars => IInv'
  BY StepInv
<1> QED
  BY <1>1, <1>2, PTL DEF Spec

-----------------------------------------------------------------------------
(* The theorems *)

\* Every variable keeps its type: the keys in the indexes are well formed.
THEOREM TypeCorrect == Spec => []TypeOK
<1>1. IInv => TypeOK
  BY DEF IInv
<1> QED
  BY <1>1, Invariant, PTL

\* For any events, batches, deletions, errors and crashes, the indexes of an
\* open database lead to its events and to nothing else.
THEOREM IndexAgreement == Spec => []IndexesAgree
<1>1. IInv => IndexesAgree
  BY DEF IInv, IndexesAgree
<1> QED
  BY <1>1, Invariant, PTL

\* No reachable database holds two events of one replaceable place.
THEOREM OneEventPerSlot == Spec => []OneNewest
<1>1. IInv => OneNewest
  BY DEF IInv
<1> QED
  BY <1>1, Invariant, PTL

\* What write_event_batch answers is right for every batch and every database.
THEOREM TruthfulAnswers == Spec => []ResultsTruthful
<1>1. IInv => ResultsTruthful
  BY DEF IInv
<1> QED
  BY <1>1, Invariant, PTL

\* What a commit of write_event_batch leaves: the events of the batch have been
\* offered to the old ones, and the best of each place has won.
LEMMA CommitBatchPublishes ==
    ASSUME IInv, CommitBatch
    PROVE  /\ db'.events = Resolve(db.events \union Done(Len(batch)))
           /\ Done(Len(batch)) \in SUBSET Event
           /\ db'.allowed = db.allowed
           /\ \A e \in db.events : Covered(e, db'.events)
<1>1. /\ pc = "batch"
      /\ db' = work
      /\ Offered = db.events \union Done(Len(batch))
      /\ batch \in Seq(Event)
      /\ db.events \in SUBSET Event
  BY DEF IInv, CommitBatch, Offered, TypeOK, Tables
<1>2. Done(Len(batch)) \in SUBSET Event
  BY <1>1 DEF Done
<1>3. /\ work.allowed = db.allowed
      /\ OnePerSlot(work.events)
      /\ work.events \subseteq Offered
      /\ \A e \in Offered : Covered(e, work.events)
  BY <1>1 DEF IInv, Batching
<1>4. Offered \in SUBSET Event
  BY <1>1, <1>2
<1>5. work.events = Resolve(Offered)
  BY <1>3, <1>4, ResolveUnique
<1> QED
  BY <1>1, <1>2, <1>3, <1>5

\* write_event is a batch of one.
LEMMA WriteEventPublishes ==
    ASSUME IInv, WriteEvent
    PROVE  /\ db'.events = Resolve(db.events \union Done(Len(batch)))
           /\ db'.allowed = db.allowed
           /\ \A f \in db.events : Covered(f, db'.events)
<1> PICK e \in Event : batch = <<e>>
  BY DEF IInv, Writing, WriteEvent
<1>0. Done(Len(batch)) = {e}
  BY DEF Done
<1>1. Sound(db) /\ OnePerSlot(db.events) /\ db' = WriteInto(db, e)
  BY DEF WriteEvent, IInv, OneNewest, Sound, TypeOK
<1>2. /\ db'.allowed = db.allowed
      /\ db'.events \subseteq db.events \union {e}
      /\ OnePerSlot(db'.events)
      /\ \A f \in db.events \union {e} : Covered(f, db'.events)
  BY <1>1, WriteIntoSound
<1>3. db.events \union {e} \in SUBSET Event
  BY <1>1 DEF Sound, Tables
<1> QED
  BY <1>0, <1>2, <1>3, ResolveUnique

\* What a commit of delete_events_by_ids takes.
LEMMA CommitDeleteDeletes ==
    ASSUME IInv, CommitDelete
    PROVE  /\ db'.events = db.events \ Deletable(author, targets)
           /\ db'.allowed = db.allowed
           /\ pc = "delete"
           /\ author \in Pubkey
           /\ targets \in SUBSET Event
<1>1. pc = "delete" /\ todo = {} /\ db' = work
  BY DEF CommitDelete
<1>2. targets \ todo = targets
  BY <1>1
<1> QED
  BY <1>1, <1>2 DEF IInv, Deleting, TypeOK

\* The steps that are none of these three leave the events alone.
LEMMA OtherStepsKeepEvents ==
    ASSUME IInv, [Next]_vars,
           ~ CommitBatch, ~ CommitDelete, ~ WriteEvent
    PROVE  db'.events = db.events
<1>1. CASE CommitMigration
  <2>1. db' = [db EXCEPT !.idxTag = UNION {TagKeys(f) : f \in db.events \ todo}]
    BY <1>1 DEF CommitMigration, IInv, Migrating
  <2>2. db \in Tables
    BY DEF IInv, TypeOK
  <2> QED
    BY <2>1, <2>2 DEF Tables
<1>2. CASE \E pk \in Pubkey : AddPubkey(pk) \/ RemovePubkey(pk)
  <2>1. db \in Tables
    BY DEF IInv, TypeOK
  <2> QED
    BY <1>2, <2>1 DEF AddPubkey, RemovePubkey, Tables
<1>3. CASE db' = db
  BY <1>3
<1> QED
  BY <1>1, <1>2, <1>3
  DEF Next, vars, Open, OpenToMigrate, MigrateStep, BeginBatch, BatchStep,
      BeginWrite, BeginDelete, DeleteStep, Fail, Crash, Abandon

\* An event leaves the database only for a better one of its place, or at the
\* request of its own author.
THEOREM JustifiedRemovals == Spec => RemovalsJustified
<1> DEFINE Justified ==
        \A e \in db.events \ db'.events :
            \/ /\ IsReplaceable(e)
               /\ \E f \in db'.events : SameSlot(f, e) /\ Beats(f, e)
            \/ pc = "delete" /\ e \in Deletable(author, targets)
<1>1. IInv /\ [Next]_vars => Justified
  <2> SUFFICES ASSUME IInv, [Next]_vars, NEW e \in db.events \ db'.events
               PROVE  \/ /\ IsReplaceable(e)
                         /\ \E f \in db'.events : SameSlot(f, e) /\ Beats(f, e)
                      \/ pc = "delete" /\ e \in Deletable(author, targets)
    OBVIOUS
  <2>1. CASE CommitBatch
    BY <2>1, CommitBatchPublishes DEF Covered
  <2>2. CASE WriteEvent
    BY <2>2, WriteEventPublishes DEF Covered
  <2>3. CASE CommitDelete
    BY <2>3, CommitDeleteDeletes
  <2> QED
    BY <2>1, <2>2, <2>3, OtherStepsKeepEvents
<1>2. IInv /\ [Next]_vars => [Justified]_vars
  BY <1>1
<1> QED
  BY <1>2, Invariant, PTL DEF Spec, RemovalsJustified

\* The operators of the store, seen through its instance, are those of Nostr.
LEMMA SameResolve == \A S : Store!Resolve(S) = Resolve(S)
  BY DEF Store!Resolve, Resolve, Store!IsReplaceable, IsReplaceable,
         Store!SameSlot, SameSlot, Store!Beats, Beats

LEMMA SameDeletable == \A pk, T : Store!Deletable(pk, T) = Deletable(pk, T)
  BY DEF Store!Deletable, Deletable, Store!DeletionKind, DeletionKind

\* The request that a state of the database stands for.
LEMMA AskedIs ==
    ASSUME IInv
    PROVE  /\ pc \in {"closed", "migrate", "idle"} => Asked = "nothing" /\ Named = {}
           /\ pc \in {"batch", "write"} => Asked = "publish" /\ Named = Done(Len(batch))
           /\ pc = "delete" => Asked = "delete" /\ Named = targets
<1>1. batch = <<>> => Done(Len(batch)) = {}
  BY DEF Done
<1> QED
  BY <1>1 DEF IInv, Unasked, Asked, Named

\* The same of the next state.
LEMMA AskedIsNext ==
    ASSUME IInv'
    PROVE  /\ pc' \in {"closed", "migrate", "idle"} => Asked' = "nothing" /\ Named' = {}
           /\ pc' \in {"batch", "write"} => Asked' = "publish" /\ Named' = Done(Len(batch))'
           /\ pc' = "delete" => Asked' = "delete" /\ Named' = targets'
<1>1. batch' = <<>> => Done(Len(batch))' = {}
  BY DEF Done
<1> QED
  BY <1>1 DEF IInv, Unasked, Asked, Named

StoreVars == <<db.events, db.allowed, <<Asked, author, Named>>, answer>>

\* Every step of the database is a step of the abstract store, or none.
LEMMA StoreStep == IInv /\ [Next]_vars => [Store!Next]_StoreVars
<1> SUFFICES ASSUME IInv, [Next]_vars
             PROVE  Store!Next \/ StoreVars' = StoreVars
  OBVIOUS
<1>0. IInv'
  BY StepInv
<1>1. CASE UNCHANGED vars
  BY <1>1 DEF vars, StoreVars, Asked, Named, Done
<1>2. CASE Open \/ OpenToMigrate \/ \E e \in todo : MigrateStep(e)
  <2>1. /\ pc \in {"closed", "migrate", "idle"}
        /\ pc' \in {"closed", "migrate", "idle"}
        /\ UNCHANGED <<db, author, answer>>
    BY <1>2 DEF Open, OpenToMigrate, MigrateStep
  <2> QED
    BY <1>0, <2>1, AskedIs, AskedIsNext DEF StoreVars
<1>3. CASE CommitMigration
  <2>1. db' = [db EXCEPT !.idxTag = UNION {TagKeys(f) : f \in db.events \ todo}]
    BY <1>3 DEF CommitMigration, IInv, Migrating
  <2>2. db'.events = db.events /\ db'.allowed = db.allowed
    BY <2>1 DEF IInv, TypeOK, Tables
  <2>3. pc = "migrate" /\ pc' = "idle" /\ UNCHANGED <<author, answer>>
    BY <1>3 DEF CommitMigration
  <2> QED
    BY <1>0, <2>2, <2>3, AskedIs, AskedIsNext DEF StoreVars
<1>4. CASE (\E b \in Batches : BeginBatch(b)) \/ (\E e \in Event : BeginWrite(e))
  <2>1. /\ pc = "idle"
        /\ pc' \in {"batch", "write"}
        /\ answer' = "none"
        /\ UNCHANGED <<db, author>>
    BY <1>4 DEF BeginBatch, BeginWrite
  <2>2. Done(Len(batch))' \in SUBSET Event
    BY <1>0 DEF IInv, TypeOK, Done
  <2>3. Store!AskPublish(Named')
    BY <1>0, <2>1, AskedIs, AskedIsNext DEF Store!AskPublish
  <2> QED
    BY <1>0, <2>1, <2>2, <2>3, AskedIsNext DEF Store!Next
<1>5. CASE \E pk \in Pubkey, T \in SUBSET Event : BeginDelete(pk, T)
  <2>1. PICK pk \in Pubkey, T \in SUBSET Event : BeginDelete(pk, T)
    BY <1>5
  <2>2. Store!AskDelete(pk, T)
    BY <1>0, <2>1, AskedIs, AskedIsNext DEF BeginDelete, Store!AskDelete
  <2> QED
    BY <2>2 DEF Store!Next
<1>6. CASE BatchStep
  <2>1. UNCHANGED <<db, pc, batch, author, targets, answer>>
    BY <1>6 DEF BatchStep
  <2> QED
    BY <2>1 DEF StoreVars, Asked, Named, Done
<1>7. CASE \E e \in todo : DeleteStep(e)
  <2>1. UNCHANGED <<db, pc, batch, author, targets, answer>>
    BY <1>7 DEF DeleteStep
  <2> QED
    BY <2>1 DEF StoreVars, Asked, Named, Done
<1>8. CASE CommitBatch \/ WriteEvent
  <2>1. /\ db'.events = Resolve(db.events \union Done(Len(batch)))
        /\ db'.allowed = db.allowed
    BY <1>8, CommitBatchPublishes, WriteEventPublishes
  <2>2. /\ pc \in {"batch", "write"}
        /\ pc' = "idle"
        /\ answer' = "ok"
        /\ author' = author
    BY <1>8 DEF CommitBatch, WriteEvent
  <2>3. Store!Publish
    BY <1>0, <2>1, <2>2, AskedIs, AskedIsNext, SameResolve DEF Store!Publish, Store!EndRequest
  <2> QED
    BY <2>3 DEF Store!Next
<1>9. CASE CommitDelete
  <2>1. /\ pc' = "idle"
        /\ answer' = "ok"
        /\ author' = author
    BY <1>9 DEF CommitDelete
  <2>2. Store!Delete
    BY <1>0, <1>9, <2>1, CommitDeleteDeletes, AskedIs, AskedIsNext, SameDeletable
    DEF Store!Delete, Store!EndRequest
  <2> QED
    BY <2>2 DEF Store!Next
<1>10. ASSUME NEW pk \in Pubkey, AddPubkey(pk) \/ RemovePubkey(pk)
       PROVE  Store!Next
  <2>1. db \in Tables
    BY DEF IInv, TypeOK
  <2>2. pc = "idle" /\ UNCHANGED <<pc, batch, author, targets, answer>>
    BY <1>10 DEF AddPubkey, RemovePubkey
  <2>3. Store!Allow(pk) \/ Store!Disallow(pk)
    BY <1>0, <1>10, <2>1, <2>2, AskedIs, AskedIsNext
    DEF AddPubkey, RemovePubkey, Store!Allow, Store!Disallow, Store!request, Tables
  <2> QED
    BY <2>3 DEF Store!Next
<1>11. CASE Fail
  <2>1. /\ pc \in {"batch", "write", "delete"}
        /\ pc' = "idle"
        /\ answer' = "err"
        /\ UNCHANGED <<db, author>>
    BY <1>11 DEF Fail, Abandon
  <2>2. Store!Refuse
    BY <1>0, <2>1, AskedIs, AskedIsNext DEF Store!Refuse, Store!EndRequest
  <2> QED
    BY <2>2 DEF Store!Next
<1>12. CASE Crash
  <2>1. pc' = "closed" /\ answer' = "none" /\ UNCHANGED <<db, author>>
    BY <1>12 DEF Crash, Abandon
  <2>2. Store!Forget
    BY <1>0, <2>1, AskedIsNext DEF Store!Forget, Store!EndRequest
  <2> QED
    BY <2>2 DEF Store!Next
<1> QED
  BY <1>1, <1>2, <1>3, <1>4, <1>5, <1>6, <1>7, <1>8, <1>9, <1>10, <1>11, <1>12 DEF Next

\* The tables, indexes, transactions, errors and crashes implement the abstract
\* store, for every set of events and every batch length: each call has the
\* effect of its arguments, or, when it fails or is cut short, none.
THEOREM ImplementsStore == Spec => RefinesStore
<1>1. Init => Store!Init
  <2> SUFFICES ASSUME Init
               PROVE  Store!Init
    OBVIOUS
  <2>1. IInv
    BY InitInv
  <2>2. OnePerSlot(db.events) <=> Store!OnePerSlot(db.events)
    BY DEF OnePerSlot, Store!OnePerSlot, IsReplaceable, Store!IsReplaceable,
           SameSlot, Store!SameSlot
  <2>3. pc = "closed" /\ answer = "none"
    BY DEF Init
  <2> QED
    BY <2>1, <2>2, <2>3, AskedIs DEF IInv, TypeOK, OneNewest, Tables, Store!Init
<1>2. IInv /\ [Next]_vars => [Store!Next]_StoreVars
  BY StoreStep
<1> QED
  BY <1>1, <1>2, Invariant, PTL DEF Spec, RefinesStore, Store!Spec, Store!request, StoreVars
=============================================================================
