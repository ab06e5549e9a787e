-------------------------------- MODULE Reads --------------------------------
(***************************************************************************)
(* Reading while others write: a REQ with several filters (handle_req in   *)
(* src/src/connection.rs, Db::query in src/src/db.rs) and the report of    *)
(* the admin (handle_snapshot in src/src/admin.rs).  Each query and each   *)
(* list of the report has a read transaction of its own, which sees the    *)
(* state that was committed last when it began; the database is the        *)
(* abstract one of EventStore, changed by others at any time.  Requests    *)
(* have nothing in common but the database, so one of them is followed.    *)
(***************************************************************************)
EXTENDS Filter, FiniteSets

CONSTANTS
    Requests,     \* the sequences of filters that a client may send in a REQ
    MaxChanges,   \* bound on the changes during one request
    MaxTime       \* bound on the clock

\* There are finitely many ids of 64 digits, and 52 names of tags.
ASSUME ReadsAssumption ==
    /\ IsFiniteSet(Event)
    /\ TagName # {}
    /\ \A r \in Requests :
          /\ Len(r) \in Nat /\ DOMAIN r = 1..Len(r)
          /\ \A i \in DOMAIN r : IsFilter(r[i])
    /\ MaxChanges \in Nat
    /\ MaxTime \in Nat

VARIABLES
    stored,    \* the committed events
    now,       \* the clock
    pc,        \* what the reader is about to do
    req,       \* the filters of the REQ
    answers,   \* what the queries that are over have returned
    failed,    \* the queries among them that ended in an error
    snap,      \* the events as the read transaction of a query sees them
    tag,       \* the tag whose index the query reads
    at,        \* the range it is in
    left,      \* the events of that range that are still to come
    seen,      \* seen
    found,     \* results of the query
    report,    \* the lists of the admin's report
    \* History of the request, read by the properties only:
    changes,   \* how many changes there were
    began,     \* when each query began
    always,    \* what was there at all times: events, and filled places
    ever       \* the events that were there at some time

scan    == <<snap, tag, at, left, seen, found>>
history == <<changes, always, ever>>
vars == <<stored, now, pc, req, answers, failed, scan, report, began, history>>

Lists == {"authors", "counts", "kind0", "kind1", "kind5"}

NoTag == CHOOSE t \in TagName : TRUE

NoReport == [authors |-> {}, counts |-> [k \in {} |-> 0], events |-> {}]

TypeOK ==
    /\ stored \in SUBSET Event
    /\ now \in 0..MaxTime
    /\ pc \in {"idle", "query", "scan", "report", "done"} \union Lists
    /\ req \in Requests \union {<<>>}
    /\ Len(answers) <= Len(req)
    /\ \A i \in DOMAIN answers : answers[i] \in Seq(Event)
    /\ failed \subseteq DOMAIN answers
    /\ snap \in SUBSET Event
    /\ tag \in TagName
    /\ at \in Nat
    /\ left \in SUBSET snap
    /\ seen \in SUBSET Event
    /\ found \in Seq(seen)
    /\ report.authors \in SUBSET Pubkey
    /\ DOMAIN report.counts \in SUBSET Nat
    /\ report.events \in SUBSET Event
    /\ changes \in 0..MaxChanges
    /\ began \in Seq(0..now)
    /\ always \in [events : SUBSET Event, places : SUBSET (Pubkey \X Nat)]
    /\ ever \in SUBSET Event

\* The replaceable places that have an event in S.
PlacesOf(S) == {<<Author[e], Kind[e]>> : e \in {g \in S : IsReplaceable(g)}}

Init ==
    /\ stored \in {S \in SUBSET Event : OnePerSlot(S)}
    /\ now = 0
    /\ pc = "idle"
    /\ req = <<>>
    /\ answers = <<>>
    /\ failed = {}
    /\ snap = {}
    /\ tag = NoTag
    /\ at = 0
    /\ left = {}
    /\ seen = {}
    /\ found = <<>>
    /\ report = NoReport
    /\ changes = 0
    /\ began = <<>>
    /\ always = [events |-> {}, places |-> {}]
    /\ ever = {}

\* The history of a request starts from what is there.
StartHistory ==
    /\ changes' = 0
    /\ always' = [events |-> stored, places |-> PlacesOf(stored)]
    /\ ever' = stored

-----------------------------------------------------------------------------
(* A REQ *)

\* Its filters are taken when none of them is oversized.
Request(r) ==
    /\ pc = "idle"
    /\ \A i \in DOMAIN r : ~ Oversized(r[i])
    /\ pc' = "query"
    /\ req' = r
    /\ StartHistory
    /\ UNCHANGED <<stored, now, answers, failed, scan, report, began>>

\* The filter whose query is next, or under way.
Asked == req[Len(answers) + 1]

\* begin_read, and the choice of the tag.
BeginQuery ==
    /\ pc = "query"
    /\ Len(answers) < Len(req)
    /\ pc' = "scan"
    /\ snap' = stored
    /\ IF ByTag(Asked) THEN tag' \in TagNames(Asked) ELSE UNCHANGED tag
    /\ at' = 0
    /\ left' = {}
    /\ seen' = {}
    /\ found' = <<>>
    /\ began' = Append(began, now)
    /\ UNCHANGED <<stored, now, req, answers, failed, report, history>>

\* Whether results has reached the limit: the loops break.
Enough == Len(found) >= Limit(Asked)

\* Mutant: each range is read in a transaction of its own.
NextRangeOfLatest ==
    /\ pc = "scan"
    /\ left = {}
    /\ ~ Enough
    /\ at < Len(Ranges(Asked, tag, stored))
    /\ at' = at + 1
    /\ snap' = stored
    /\ left' = Ranges(Asked, tag, stored)[at + 1]
    /\ UNCHANGED <<stored, now, pc, req, answers, failed, tag, seen, found, report, began, history>>

NextRange ==
    /\ pc = "scan"
    /\ left = {}
    /\ ~ Enough
    /\ at < Len(Ranges(Asked, tag, snap))
    /\ at' = at + 1
    /\ left' = Ranges(Asked, tag, snap)[at + 1]
    /\ UNCHANGED <<stored, now, pc, req, answers, failed, snap, tag, seen, found, report, began, history>>

\* Mutant: the event is fetched in a transaction begun after that of the index.
FetchedLate(e) == e \in stored

\* The event that an entry leads to is in the table of events.
Fetched(e) == e \in snap

\* Mutant: only the path by ids marks what it has seen.
MarkedByIds(e, matches) == IF ByIds(Asked) /\ matches THEN {e} ELSE {}

\* seen.insert: reading by ids, the event is looked at first, and marked when it
\* matches; otherwise it is marked first.
Marked(e, matches) == IF ByIds(Asked) /\ ~ matches THEN {} ELSE {e}

\* The next entry of the range.
Entry(e) ==
    /\ pc = "scan"
    /\ ~ Enough
    /\ \A g \in left \ {e} : Precedes(Asked, e, g)
    /\ left' = left \ {e}
    /\ LET matches == Checked(Asked) => MatchesEvent(Asked, e, now)
       IN  /\ seen' = seen \union Marked(e, matches)
           /\ found' = IF e \notin seen /\ Fetched(e) /\ matches THEN Append(found, e) ELSE found
    /\ UNCHANGED <<stored, now, pc, req, answers, failed, snap, tag, at, report, began, history>>

\* What the transaction held goes with it.
EndScan ==
    /\ snap' = {}
    /\ at' = 0
    /\ left' = {}
    /\ seen' = {}
    /\ found' = <<>>
    /\ tag' = NoTag

\* The limit is reached, or all ranges are read.
EndQuery ==
    /\ pc = "scan"
    /\ Enough \/ (left = {} /\ at = Len(Ranges(Asked, tag, snap)))
    /\ pc' = "query"
    /\ answers' = Append(answers, found)
    /\ EndScan
    /\ UNCHANGED <<stored, now, req, failed, report, began, history>>

\* An error of the query is logged, and the REQ goes on without its results.
QueryFails ==
    /\ pc = "scan"
    /\ pc' = "query"
    /\ answers' = Append(answers, <<>>)
    /\ failed' = failed \union {Len(answers) + 1}
    /\ EndScan
    /\ UNCHANGED <<stored, now, req, report, began, history>>

\* The answers are sent, and EOSE after them.
Eose ==
    /\ pc = "query"
    /\ Len(answers) = Len(req)
    /\ pc' = "done"
    /\ UNCHANGED <<stored, now, req, answers, failed, scan, report, began, history>>

-----------------------------------------------------------------------------
(* The report of the admin: one list after the other *)

UniqueAuthors(S) == {Author[e] : e \in S}

\* Mutant: the first event of a kind is not counted.
KindCountsButFirst(S) ==
    [k \in {Kind[e] : e \in S} |-> Cardinality({e \in S : Kind[e] = k}) - 1]

KindCounts(S) == [k \in {Kind[e] : e \in S} |-> Cardinality({e \in S : Kind[e] = k})]

OfKind(k, S) == {e \in S : Kind[e] = k}

BeginReport ==
    /\ pc = "idle"
    /\ pc' = "authors"
    /\ StartHistory
    /\ UNCHANGED <<stored, now, req, answers, failed, scan, report, began>>

Read(list, next, filled) ==
    /\ pc = list
    /\ pc' = next
    /\ report' = filled
    /\ UNCHANGED <<stored, now, req, answers, failed, scan, began, history>>

ReadList ==
    \/ Read("authors", "counts", [report EXCEPT !.authors = UniqueAuthors(stored)])
    \/ Read("counts", "kind0", [report EXCEPT !.counts = KindCounts(stored)])
    \/ Read("kind0", "kind1", [report EXCEPT !.events = OfKind(0, stored)])
    \/ Read("kind1", "kind5", [report EXCEPT !.events = @ \union OfKind(1, stored)])
    \/ Read("kind5", "report", [report EXCEPT !.events = @ \union OfKind(5, stored)])

\* The report is sent, or any of the lists ends the request with its error.
EndReport ==
    /\ pc \in Lists \union {"report"}
    /\ pc' = "done"
    /\ UNCHANGED <<stored, now, req, answers, failed, scan, report, began, history>>

-----------------------------------------------------------------------------
(* The others *)

\* A commit of the writer or of a deletion, as far as a reader can see it: what
\* EventStore makes of the events.
Change ==
    /\ pc \notin {"idle", "done"}
    /\ changes < MaxChanges
    /\ \/ \E e \in Event \ stored : stored' = Resolve(stored \union {e})
       \/ \E e \in stored : stored' = stored \ Deletable(Author[e], {e})
    /\ stored' # stored
    /\ changes' = changes + 1
    /\ always' = [events |-> always.events \intersect stored',
                  places |-> always.places \intersect PlacesOf(stored')]
    /\ ever' = ever \union stored'
    /\ UNCHANGED <<now, pc, req, answers, failed, scan, report, began>>

Tick == now < MaxTime /\ now' = now + 1
        /\ UNCHANGED <<stored, pc, req, answers, failed, scan, report, began, history>>

Next ==
    \/ \E r \in Requests : Request(r)
    \/ BeginQuery
    \/ NextRange
    \/ \E e \in left : Entry(e)
    \/ EndQuery
    \/ QueryFails
    \/ Eose
    \/ BeginReport
    \/ ReadList
    \/ EndReport
    \/ Change
    \/ Tick

Spec == Init /\ [][Next]_vars

-----------------------------------------------------------------------------
(* Properties *)

\* Whatever index a query reads, its answer has only events that the filter
\* asks for and that were in the database during the request, each once, and no
\* more than the limit.
AnswersSound ==
    \A i \in DOMAIN answers :
        /\ Len(answers[i]) <= Limit(req[i])
        /\ \A j, k \in DOMAIN answers[i] : answers[i][j] = answers[i][k] => j = k
        /\ \A j \in DOMAIN answers[i] :
              answers[i][j] \in ever /\ Fits(req[i], answers[i][j])

\* A query that names no kinds, ids or tags stands for the allowed kinds.
Covers(f, e) ==
    \/ Given(f, "ids") \/ Given(f, "kinds") \/ ByTag(f)
    \/ Kind[e] \in Elements(AllowedKinds)

\* An event that is there all the time, that the filter asks for and that has
\* not expired is in the answer, whatever index was read, unless the limit was
\* reached.
AnswersComplete ==
    \A i \in DOMAIN answers \ failed : Len(answers[i]) < Limit(req[i]) =>
        \A e \in always.events :
            MatchesEvent(req[i], e, now) /\ Covers(req[i], e) => e \in Elements(answers[i])

\* What the limit cuts off is old: an event is returned only after every newer
\* one of the same author, kind and tags that the filter asks for as well.
\* (Not when reading by ids, which goes by the order of the ids.)
NewestOfAKind ==
    \A i \in DOMAIN answers : ~ ByIds(req[i]) =>
        \A j \in DOMAIN answers[i] : \A e \in always.events :
            LET g == answers[i][j]
            IN  /\ SameSlot(e, g) /\ Tags[e] = Tags[g] /\ CreatedAt[e] > CreatedAt[g]
                /\ MatchesEvent(req[i], e, now)
                => \E k \in 1..(j - 1) : answers[i][k] = e

\* An answer is a picture of one moment: it never has two versions of a
\* replaceable event, though the writer may replace one for another between two
\* ranges that the query reads.
OneVersion == \A i \in DOMAIN answers : OnePerSlot(Elements(answers[i]))

\* A filter that goes by authors and kinds only.
ByPlace(f) == DOMAIN f \intersect {"ids", "tags", "since", "until"} = {}

\* A replaceable place that is never empty is never found empty: whoever asks
\* for a profile, by REQ or in the report, gets a version of it, even when it is
\* replaced meanwhile.
PlacesSeen ==
    /\ \A i \in DOMAIN answers \ failed : ByPlace(req[i]) /\ Len(answers[i]) < Limit(req[i]) =>
          \A e \in ever :
              /\ <<Author[e], Kind[e]>> \in always.places
              /\ \A g \in ever : SameSlot(e, g) => Expirations[g] = {}
              /\ Fits(req[i], e) /\ Covers(req[i], e)
              => \E g \in Elements(answers[i]) : SameSlot(e, g)
    /\ pc = "report" =>
          \A x \in always.places : x[2] = 0 =>
              Cardinality({e \in report.events : Author[e] = x[1] /\ Kind[e] = 0}) = 1

\* The lists of the report may be of different moments, but none of them leaves
\* out what was there all the time, or has what was never there, and its counts
\* are between the two.
ReportBracketed ==
    pc = "report" =>
        /\ UniqueAuthors(always.events) \subseteq report.authors
        /\ report.authors \subseteq UniqueAuthors(ever)
        /\ \A k \in {Kind[e] : e \in ever} \union DOMAIN report.counts :
              LET n == IF k \in DOMAIN report.counts THEN report.counts[k] ELSE 0
              IN  /\ Cardinality(OfKind(k, always.events)) <= n
                  /\ n <= Cardinality(OfKind(k, ever))
        /\ \A k \in {0, 1, 5} :
              /\ OfKind(k, always.events) \subseteq report.events
              /\ OfKind(k, report.events) \subseteq ever

\* An event that had expired when a query began is not in its answer.  (Not so:
\* see the run.)
ExpiredNotReturned ==
    \A i \in DOMAIN answers : \A e \in Elements(answers[i]) : ~ Expired(e, began[i])
=============================================================================
