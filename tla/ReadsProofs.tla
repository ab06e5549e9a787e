---------------------------- MODULE ReadsProofs ----------------------------
(***************************************************************************)
(* Proofs about Reads, for any filters, events, limits and changes by      *)
(* others: an answer has what its filter asks for and nothing else, as of  *)
(* one moment, and the report of the admin leaves nothing out that is      *)
(* there all the time.                                                     *)
(***************************************************************************)
EXTENDS Reads, NostrLemmas, FiniteSetTheorems, SequenceTheorems

-----------------------------------------------------------------------------
(* The ranges that are read for a filter *)

\* The positions of two nested loops, numbered one after the other.
LEMMA Nested ==
    ASSUME NEW n \in Nat, NEW m \in Nat
    PROVE  /\ \A i \in 1..m * n : /\ ((i - 1) \div n) + 1 \in 1..m
                                  /\ ((i - 1) % n) + 1 \in 1..n
           /\ \A a \in 1..m, k \in 1..n :
                 \E i \in 1..m * n : ((i - 1) \div n) + 1 = a /\ ((i - 1) % n) + 1 = k
<1>1. ASSUME NEW i \in 1..m * n
      PROVE  ((i - 1) \div n) + 1 \in 1..m /\ ((i - 1) % n) + 1 \in 1..n
  <2>1. n > 0 /\ i - 1 \in Nat
    OBVIOUS
  <2>2. (i - 1) \div n \in Nat /\ (i - 1) % n \in 0..(n - 1)
    BY <2>1
  <2>3. (i - 1) \div n < m
    BY <2>1
  <2> QED
    BY <2>1, <2>2, <2>3
<1>2. ASSUME NEW a \in 1..m, NEW k \in 1..n
      PROVE  \E i \in 1..m * n : ((i - 1) \div n) + 1 = a /\ ((i - 1) % n) + 1 = k
  <2> DEFINE j == (a - 1) * n + (k - 1)
  <2>1. n > 0 /\ a - 1 \in Nat /\ k - 1 \in 0..(n - 1)
    OBVIOUS
  <2>2. j \div n = a - 1 /\ j % n = k - 1
    BY <2>1
  <2>3. j + 1 \in 1..m * n
    BY <2>1
  <2>4. (j + 1) - 1 = j
    BY <2>1
  <2> HIDE DEF j
  <2> QED
    BY <2>2, <2>3, <2>4
<1> QED
  BY <1>1, <1>2

\* The fields of a filter.
LEMMA FilterFields ==
    ASSUME NEW f, IsFilter(f)
    PROVE  /\ ByIds(f) => f.ids \in Seq(SUBSET Event)
           /\ Given(f, "authors") => f.authors \in Seq([full : BOOLEAN, of : SUBSET Pubkey])
           /\ KindsOf(f) \in Seq(Nat)
           /\ \A t \in TagNames(f) : f.tags[t] \in Seq(TagValue)
BY FilterAssumption DEF IsFilter, ByIds, Given, KindsOf, TagNames

\* A query reads for ids, for one of the tags, for authors or for kinds.
LEMMA RangesIs ==
    ASSUME NEW f, NEW t, NEW S
    PROVE  /\ ByIds(f) => Ranges(f, t, S) = IdRanges(f, S)
           /\ ByTag(f) => Ranges(f, t, S) = TagRanges(f, t, S)
           /\ ByAuthor(f) => Ranges(f, t, S) = AuthorRanges(f, S)
           /\ ByKind(f) => Ranges(f, t, S) = KindRanges(f, S)
           /\ ByIds(f) \/ ByTag(f) \/ ByAuthor(f) \/ ByKind(f)
BY DEF Ranges, ByIds, ByTag, ByAuthor, ByKind

LEMMA SequenceOf ==
    ASSUME NEW n \in Nat, NEW T, NEW g, g \in [1..n -> T]
    PROVE  /\ g \in Seq(T) /\ Len(g) = n /\ DOMAIN g = 1..n
BY DEF Seq

\* What the index of authors has for the author at a and the kind at k.
OfAuthorAndKind(f, S, a, k) ==
    {e \in S : /\ f.authors[a].full /\ Author[e] \in f.authors[a].of
               /\ Kind[e] = KindsOf(f)[k] /\ InTime(f, e)}

LEMMA AuthorRange ==
    ASSUME NEW f, IsFilter(f), ByAuthor(f), NEW S
    PROVE  /\ AuthorRanges(f, S) \in [1..Len(f.authors) * Len(KindsOf(f)) -> SUBSET S]
           /\ \A i \in DOMAIN AuthorRanges(f, S) :
                 \E a \in DOMAIN f.authors, k \in DOMAIN KindsOf(f) :
                    AuthorRanges(f, S)[i] = OfAuthorAndKind(f, S, a, k)
           /\ \A a \in DOMAIN f.authors, k \in DOMAIN KindsOf(f) :
                 \E i \in DOMAIN AuthorRanges(f, S) :
                    AuthorRanges(f, S)[i] = OfAuthorAndKind(f, S, a, k)
<1> DEFINE m == Len(f.authors)
           n == Len(KindsOf(f))
           Row(i) == ((i - 1) \div n) + 1
           Column(i) == ((i - 1) % n) + 1
<1>1. m \in Nat /\ n \in Nat /\ DOMAIN f.authors = 1..m /\ DOMAIN KindsOf(f) = 1..n
  BY FilterFields, LenProperties DEF ByAuthor
<1>2. AuthorRanges(f, S) = [i \in 1..m * n |-> OfAuthorAndKind(f, S, Row(i), Column(i))]
  BY DEF AuthorRanges, OfAuthorAndKind
<1>3. \A i \in 1..m * n : Row(i) \in 1..m /\ Column(i) \in 1..n
  BY <1>1, Nested
<1>4. \A a \in 1..m, k \in 1..n : \E i \in 1..m * n : Row(i) = a /\ Column(i) = k
  BY <1>1, Nested
<1>5. \A a, k : OfAuthorAndKind(f, S, a, k) \in SUBSET S
  BY DEF OfAuthorAndKind
<1>6. AuthorRanges(f, S) \in [1..Len(f.authors) * Len(KindsOf(f)) -> SUBSET S]
  BY <1>2, <1>5
<1>7. DOMAIN AuthorRanges(f, S) = 1..m * n
  BY <1>2
<1> HIDE DEF Row, Column, m, n
<1>8. ASSUME NEW i \in DOMAIN AuthorRanges(f, S)
      PROVE  \E a \in DOMAIN f.authors, k \in DOMAIN KindsOf(f) :
                AuthorRanges(f, S)[i] = OfAuthorAndKind(f, S, a, k)
  BY <1>1, <1>2, <1>3, <1>7
<1>9. ASSUME NEW a \in DOMAIN f.authors, NEW k \in DOMAIN KindsOf(f)
      PROVE  \E i \in DOMAIN AuthorRanges(f, S) :
                AuthorRanges(f, S)[i] = OfAuthorAndKind(f, S, a, k)
  <2>1. PICK i \in 1..m * n : Row(i) = a /\ Column(i) = k
    BY <1>1, <1>4
  <2> QED
    BY <1>2, <1>7, <2>1
<1> QED
  BY <1>6, <1>8, <1>9

LEMMA RangesType ==
    ASSUME NEW f, IsFilter(f), NEW t, ByTag(f) => t \in TagNames(f), NEW S
    PROVE  /\ Len(Ranges(f, t, S)) \in Nat
           /\ DOMAIN Ranges(f, t, S) = 1..Len(Ranges(f, t, S))
           /\ \A i \in 1..Len(Ranges(f, t, S)) : Ranges(f, t, S)[i] \subseteq S
<1> DEFINE R == Ranges(f, t, S)
<1>1. ASSUME NEW n \in Nat, R \in [1..n -> SUBSET S]
      PROVE  Len(R) \in Nat /\ DOMAIN R = 1..Len(R) /\ \A i \in 1..Len(R) : R[i] \subseteq S
  <2> HIDE DEF R
  <2>1. Len(R) = n /\ DOMAIN R = 1..n
    BY <1>1, SequenceOf
  <2> QED
    BY <1>1, <2>1
<1>2. CASE ByIds(f)
  <2>1. PICK n \in Nat : DOMAIN f.ids = 1..n
    BY <1>2, FilterFields, LenProperties
  <2>2. R \in [1..n -> SUBSET S]
    BY <1>2, <2>1, RangesIs DEF IdRanges
  <2> QED
    BY <1>1, <2>2
<1>3. CASE ByTag(f)
  <2>1. PICK n \in Nat : DOMAIN f.tags[t] = 1..n
    BY <1>3, FilterFields, LenProperties
  <2>2. TagRanges(f, t, S) \in [1..n -> SUBSET S]
    BY <2>1 DEF TagRanges
  <2>3. R = TagRanges(f, t, S)
    BY <1>3, RangesIs
  <2> QED
    BY <1>1, <2>2, <2>3
<1>4. CASE ByAuthor(f)
  <2> DEFINE n == Len(f.authors) * Len(KindsOf(f))
  <2>1. Len(f.authors) \in Nat /\ Len(KindsOf(f)) \in Nat
    BY <1>4, FilterFields, LenProperties DEF ByAuthor
  <2>2. n \in Nat
    BY <2>1
  <2>3. AuthorRanges(f, S) \in [1..n -> SUBSET S]
    BY <1>4, AuthorRange
  <2>4. R = AuthorRanges(f, S)
    BY <1>4, RangesIs
  <2> HIDE DEF n
  <2> QED
    BY <1>1, <2>2, <2>3, <2>4
<1>5. CASE ByKind(f)
  <2>1. PICK n \in Nat : DOMAIN KindsOf(f) = 1..n
    BY FilterFields, LenProperties
  <2>2. R \in [1..n -> SUBSET S]
    BY <1>5, <2>1, RangesIs DEF KindRanges
  <2> QED
    BY <1>1, <2>2
<1> QED
  BY <1>2, <1>3, <1>4, <1>5, RangesIs

\* What a query does not look at again already fits: the index alone decides.
LEMMA RangeFits ==
    ASSUME NEW f, IsFilter(f), ~ Checked(f), NEW t, NEW S,
           NEW i \in DOMAIN Ranges(f, t, S), NEW e \in Ranges(f, t, S)[i]
    PROVE  Fits(f, e)
<1>1. ~ Given(f, "ids") /\ TagNames(f) = {} /\ (Given(f, "authors") => ByAuthor(f))
  BY DEF Checked, ByIds
<1>2. CASE ByAuthor(f)
  <2>1. Ranges(f, t, S) = AuthorRanges(f, S)
    BY <1>2, RangesIs
  <2>2. PICK a \in DOMAIN f.authors, k \in DOMAIN KindsOf(f) : e \in OfAuthorAndKind(f, S, a, k)
    BY <1>2, <2>1, AuthorRange
  <2>3. /\ Author[e] \in f.authors[a].of /\ Kind[e] = KindsOf(f)[k] /\ InTime(f, e)
    BY <2>2 DEF OfAuthorAndKind
  <2>4. Given(f, "authors") => \E b \in Elements(f.authors) : Author[e] \in b.of
    BY <2>3 DEF Elements
  <2>5. Given(f, "kinds") => Kind[e] \in Elements(f.kinds)
    BY <2>3 DEF Elements, KindsOf
  <2> QED
    BY <1>1, <2>3, <2>4, <2>5 DEF Fits, InTime
<1>3. CASE ~ ByAuthor(f)
  <2>1. ByKind(f) /\ ~ Given(f, "authors")
    BY <1>1, <1>3 DEF ByKind, ByIds, ByTag
  <2>2. Ranges(f, t, S) = KindRanges(f, S)
    BY <2>1, RangesIs
  <2>3. i \in DOMAIN KindsOf(f) /\ Kind[e] = KindsOf(f)[i] /\ InTime(f, e)
    BY <2>2 DEF KindRanges
  <2>4. Given(f, "kinds") => Kind[e] \in Elements(f.kinds)
    BY <2>3 DEF Elements, KindsOf
  <2> QED
    BY <1>1, <2>1, <2>3, <2>4 DEF Fits, InTime
<1> QED
  BY <1>2, <1>3

\* Whatever fits is in a range, whichever index is read.
LEMMA RangeCovers ==
    ASSUME NEW f, IsFilter(f), NEW t, ByTag(f) => t \in TagNames(f), NEW S,
           NEW e \in S, Fits(f, e), Covers(f, e)
    PROVE  \E i \in DOMAIN Ranges(f, t, S) : e \in Ranges(f, t, S)[i]
<1>1. InTime(f, e)
  BY DEF Fits, InTime
<1>2. CASE ByIds(f)
  <2>1. PICK i \in DOMAIN f.ids : e \in f.ids[i]
    BY <1>2 DEF Fits, ByIds, Elements
  <2>2. e \in IdRanges(f, S)[i] /\ i \in DOMAIN IdRanges(f, S)
    BY <2>1 DEF IdRanges
  <2>3. Ranges(f, t, S) = IdRanges(f, S)
    BY <1>2, RangesIs
  <2> QED
    BY <2>2, <2>3
<1>3. CASE ByTag(f)
  <2>1. PICK i \in DOMAIN f.tags[t] : <<t, f.tags[t][i]>> \in Tags[e]
    BY <1>3 DEF Fits, Elements
  <2>2. e \in TagRanges(f, t, S)[i] /\ i \in DOMAIN TagRanges(f, t, S)
    BY <1>1, <2>1 DEF TagRanges
  <2>3. Ranges(f, t, S) = TagRanges(f, t, S)
    BY <1>3, RangesIs
  <2> QED
    BY <2>2, <2>3
<1>4. ASSUME ~ ByIds(f), ~ ByTag(f)
      PROVE  \E k \in DOMAIN KindsOf(f) : Kind[e] = KindsOf(f)[k]
  BY <1>4 DEF Fits, Covers, ByIds, KindsOf, Elements
<1>5. CASE ByAuthor(f)
  <2>1. PICK a \in DOMAIN f.authors : f.authors[a].full /\ Author[e] \in f.authors[a].of
    BY <1>5 DEF ByAuthor, Fits, Elements
  <2>2. PICK k \in DOMAIN KindsOf(f) : Kind[e] = KindsOf(f)[k]
    BY <1>4, <1>5 DEF ByAuthor, ByIds, ByTag
  <2>3. e \in OfAuthorAndKind(f, S, a, k)
    BY <1>1, <2>1, <2>2 DEF OfAuthorAndKind
  <2>4. Ranges(f, t, S) = AuthorRanges(f, S)
    BY <1>5, RangesIs
  <2> QED
    BY <1>5, <2>3, <2>4, AuthorRange
<1>6. CASE ByKind(f)
  <2>1. PICK k \in DOMAIN KindsOf(f) : Kind[e] = KindsOf(f)[k]
    BY <1>4, <1>6 DEF ByKind
  <2>2. e \in KindRanges(f, S)[k] /\ k \in DOMAIN KindRanges(f, S)
    BY <1>1, <2>1 DEF KindRanges
  <2>3. Ranges(f, t, S) = KindRanges(f, S)
    BY <1>6, RangesIs
  <2> QED
    BY <2>2, <2>3
<1> QED
  BY <1>2, <1>3, <1>5, <1>6, RangesIs

\* Events that are alike but for their age are in the same ranges.
LEMMA RangeAlike ==
    ASSUME NEW f, IsFilter(f), ~ ByIds(f), NEW t, NEW S,
           NEW i \in DOMAIN Ranges(f, t, S), NEW g \in Ranges(f, t, S)[i],
           NEW e \in S, SameSlot(e, g), Tags[e] = Tags[g], Fits(f, e)
    PROVE  e \in Ranges(f, t, S)[i]
<1>1. InTime(f, e)
  BY DEF Fits, InTime
<1>2. CASE ByTag(f)
  <2>1. Ranges(f, t, S) = TagRanges(f, t, S)
    BY <1>2, RangesIs
  <2> QED
    BY <1>1, <2>1 DEF TagRanges
<1>3. CASE ByAuthor(f)
  <2>1. Ranges(f, t, S) = AuthorRanges(f, S)
    BY <1>3, RangesIs
  <2>2. PICK a \in DOMAIN f.authors, k \in DOMAIN KindsOf(f) :
           AuthorRanges(f, S)[i] = OfAuthorAndKind(f, S, a, k)
    BY <1>3, <2>1, AuthorRange
  <2>3. e \in OfAuthorAndKind(f, S, a, k)
    BY <1>1, <2>1, <2>2 DEF OfAuthorAndKind, SameSlot
  <2> QED
    BY <2>1, <2>2, <2>3
<1>4. CASE ByKind(f)
  <2>1. Ranges(f, t, S) = KindRanges(f, S)
    BY <1>4, RangesIs
  <2> QED
    BY <1>1, <2>1 DEF KindRanges, SameSlot
<1> QED
  BY <1>2, <1>3, <1>4, RangesIs

-----------------------------------------------------------------------------
(* The invariant *)

\* What an answer s to the filter f has, when E is what there was at some time, A
\* the events and P the places that were there at all times, and it is t.
Sound(f, s, E) ==
    /\ Len(s) <= Limit(f)
    /\ \A j, k \in DOMAIN s : s[j] = s[k] => j = k
    /\ \A j \in DOMAIN s : s[j] \in E /\ Fits(f, s[j])

Newest(f, s, A, t) ==
    ~ ByIds(f) =>
        \A j \in DOMAIN s : \A e \in A :
            /\ SameSlot(e, s[j]) /\ Tags[e] = Tags[s[j]] /\ CreatedAt[e] > CreatedAt[s[j]]
            /\ MatchesEvent(f, e, t)
            => \E k \in 1..(j - 1) : s[k] = e

Complete(f, s, A, t) ==
    Len(s) < Limit(f) =>
        \A e \in A : MatchesEvent(f, e, t) /\ Covers(f, e) => e \in Elements(s)

Placed(f, s, P, E) ==
    ByPlace(f) /\ Len(s) < Limit(f) =>
        \A e \in E :
            /\ <<Author[e], Kind[e]>> \in P
            /\ \A g \in E : SameSlot(e, g) => Expirations[g] = {}
            /\ Fits(f, e) /\ Covers(f, e)
            => \E g \in Elements(s) : SameSlot(e, g)

Answered ==
    \A i \in DOMAIN answers :
        /\ Sound(req[i], answers[i], ever)
        /\ Newest(req[i], answers[i], always.events, now)
        /\ OnePerSlot(Elements(answers[i]))
        /\ i \notin failed => /\ Complete(req[i], answers[i], always.events, now)
                             /\ Placed(req[i], answers[i], always.places, ever)

\* The history is that of the request that is under way.
HistoryKept ==
    /\ OnePerSlot(stored)
    /\ pc \notin {"idle", "done"} =>
          /\ always.events \subseteq stored /\ stored \subseteq ever
          /\ always.places \subseteq PlacesOf(stored)
    /\ answers \in Seq(Seq(Event))
    /\ pc = "idle" => answers = <<>>

\* Whether the query returns an event that it comes across at t.
Due(f, e, t) == Checked(f) => MatchesEvent(f, e, t)

\* The transaction of a query sees one state, and what the query has come across
\* there and was to return is in its results.
Scanning ==
    LET f == Asked
        R == Ranges(f, tag, snap)
    IN  pc = "scan" =>
          /\ Len(answers) < Len(req)
          /\ ByTag(f) => tag \in TagNames(f)
          /\ OnePerSlot(snap) /\ snap \subseteq ever
          /\ always.events \subseteq snap /\ always.places \subseteq PlacesOf(snap)
          /\ at <= Len(R)
          /\ IF at = 0 THEN left = {} ELSE left \subseteq R[at]
          /\ \A j \in DOMAIN found : found[j] \in snap
          /\ Sound(f, found, ever) /\ Newest(f, found, always.events, now)
          /\ \A e \in seen : Due(f, e, now) => e \in Elements(found)
          /\ \A j \in 1..at : \A e \in R[j] \ left : Due(f, e, now) => e \in Elements(found)

\* The count that the report has for a kind.
CountOf(k) == IF k \in DOMAIN report.counts THEN report.counts[k] ELSE 0

\* The lists of the report that are read: each is between what is there all the
\* time and what is there at some time.
Reported ==
    /\ DOMAIN report = {"authors", "counts", "events"}
    /\ pc \in {"counts", "kind0", "kind1", "kind5", "report"} =>
          /\ UniqueAuthors(always.events) \subseteq report.authors
          /\ report.authors \subseteq UniqueAuthors(ever)
    /\ pc \in {"kind0", "kind1", "kind5", "report"} =>
          \A k \in Nat : /\ CountOf(k) \in Nat
                         /\ Cardinality(OfKind(k, always.events)) <= CountOf(k)
                         /\ CountOf(k) <= Cardinality(OfKind(k, ever))
    /\ pc \in {"kind1", "kind5", "report"} =>
          /\ report.events \subseteq ever
          /\ OfKind(0, always.events) \subseteq report.events
          /\ \A x \in always.places : x[2] = 0 =>
                \E g \in report.events :
                   {e \in report.events : Author[e] = x[1] /\ Kind[e] = 0} = {g}
    /\ pc \in {"kind5", "report"} => OfKind(1, always.events) \subseteq report.events
    /\ pc = "report" => OfKind(5, always.events) \subseteq report.events

IInv == TypeOK /\ HistoryKept /\ Answered /\ Scanning /\ Reported

-----------------------------------------------------------------------------
(* The types *)

LEMMA FilterLimit ==
    ASSUME NEW f, IsFilter(f)
    PROVE  Limit(f) \in Nat /\ TagNames(f) \subseteq TagName
BY FilterAssumption DEF IsFilter, Limit, TagNames, Given

LEMMA TagKnown == NoTag \in TagName
BY ReadsAssumption DEF NoTag

\* The filter of a query that is to come, or under way.
LEMMA AskedFilter ==
    ASSUME TypeOK, HistoryKept, Len(answers) < Len(req)
    PROVE  IsFilter(Asked) /\ Len(answers) \in Nat /\ Len(req) \in Nat /\ req \in Requests
<1>1. Len(answers) \in Nat
  BY LenProperties DEF HistoryKept
<1>2. req \in Requests
  <2>1. CASE req = <<>>
    BY <1>1, <2>1
  <2> QED
    BY <2>1 DEF TypeOK
<1>3. Len(req) \in Nat /\ Len(answers) + 1 \in DOMAIN req
  BY <1>1, <1>2, ReadsAssumption
<1> QED
  BY <1>1, <1>2, <1>3, ReadsAssumption DEF Asked

\* Another answer.
LEMMA OneMore ==
    ASSUME TypeOK, HistoryKept, Len(answers) < Len(req), NEW s \in Seq(Event),
           answers' = Append(answers, s)
    PROVE  /\ answers' \in Seq(Seq(Event)) /\ Len(answers') <= Len(req)
           /\ DOMAIN answers' = DOMAIN answers \union {Len(answers) + 1}
           /\ \A i \in DOMAIN answers : answers'[i] = answers[i]
           /\ answers'[Len(answers) + 1] = s
           /\ Len(answers) + 1 \notin DOMAIN answers
<1>1. /\ answers \in Seq(Seq(Event)) /\ Len(answers) \in Nat
      /\ DOMAIN answers = 1..Len(answers) /\ Len(req) \in Nat
  BY AskedFilter, LenProperties DEF HistoryKept
<1>2. /\ answers' \in Seq(Seq(Event)) /\ Len(answers') = Len(answers) + 1
      /\ \A i \in 1..Len(answers) : answers'[i] = answers[i]
      /\ answers'[Len(answers) + 1] = s
  BY <1>1, AppendProperties
<1>3. DOMAIN answers' = 1..(Len(answers) + 1)
  BY <1>2, LenProperties
<1> QED
  BY <1>1, <1>2, <1>3

LEMMA InitType == Init => TypeOK
<1> SUFFICES ASSUME Init
             PROVE  TypeOK
  OBVIOUS
<1>1. /\ stored \in SUBSET Event /\ now = 0 /\ pc = "idle" /\ req = <<>> /\ answers = <<>> /\ failed = {}
      /\ snap = {} /\ tag = NoTag /\ at = 0 /\ left = {} /\ seen = {} /\ found = <<>>
      /\ report = NoReport /\ changes = 0 /\ began = <<>> /\ ever = {}
      /\ always = [events |-> {}, places |-> {}]
  BY DEF Init
<1>2. DOMAIN report.counts = {} /\ report.authors = {} /\ report.events = {}
  BY <1>1 DEF NoReport
<1>3. Len(answers) <= Len(req) /\ DOMAIN answers = {}
  BY <1>1
<1>4. now \in 0..MaxTime /\ changes \in 0..MaxChanges
  BY <1>1, ReadsAssumption
<1> QED
  BY <1>1, <1>2, <1>3, <1>4, TagKnown DEF TypeOK

\* A better event may take the place of another, but no place is taken twice.
LEMMA ResolveOnePerSlot ==
    ASSUME NEW S \in SUBSET Event
    PROVE  Resolve(S) \in SUBSET Event /\ OnePerSlot(Resolve(S))
<1>1. ASSUME NEW e \in Resolve(S), NEW f \in Resolve(S), IsReplaceable(e), SameSlot(e, f)
      PROVE  e = f
  <2>1. e \in Event /\ f \in Event /\ SameSlot(f, e) /\ IsReplaceable(f)
    BY <1>1, SlotFacts DEF Resolve
  <2>2. ~ Beats(e, f) /\ ~ Beats(f, e)
    BY <1>1, <2>1 DEF Resolve
  <2> QED
    BY <2>1, <2>2, BeatsOrder
<1> QED
  BY <1>1 DEF OnePerSlot, Resolve

\* What a change does to the database.
LEMMA ChangedStore ==
    ASSUME TypeOK, HistoryKept, Change
    PROVE  stored' \in SUBSET Event /\ OnePerSlot(stored')
<1>1. \/ \E e \in Event \ stored : stored' = Resolve(stored \union {e})
      \/ \E e \in stored : stored' = stored \ Deletable(Author[e], {e})
  BY DEF Change
<1>2. stored \in SUBSET Event /\ OnePerSlot(stored)
  BY DEF TypeOK, HistoryKept
<1>3. ASSUME NEW e \in Event, stored' = Resolve(stored \union {e})
      PROVE  stored' \in SUBSET Event /\ OnePerSlot(stored')
  BY <1>2, <1>3, ResolveOnePerSlot
<1>4. ASSUME NEW e, stored' = stored \ Deletable(Author[e], {e})
      PROVE  stored' \in SUBSET Event /\ OnePerSlot(stored')
  BY <1>2, <1>4 DEF OnePerSlot
<1> QED
  BY <1>1, <1>3, <1>4

\* The parts of TypeOK that a step of a query leaves alone.
LEMMA PlacesType ==
    ASSUME NEW S \in SUBSET Event
    PROVE  PlacesOf(S) \in SUBSET (Pubkey \X Nat)
BY EventAssumption DEF PlacesOf

LEMMA StartType ==
    ASSUME TypeOK, StartHistory
    PROVE  /\ changes' \in 0..MaxChanges
           /\ always' \in [events : SUBSET Event, places : SUBSET (Pubkey \X Nat)]
           /\ ever' \in SUBSET Event
BY PlacesType, ReadsAssumption DEF TypeOK, StartHistory

LEMMA QueryType ==
    ASSUME TypeOK, HistoryKept, Scanning,
           \/ \E r \in Requests : Request(r)
           \/ BeginQuery \/ NextRange \/ EndQuery \/ QueryFails \/ Eose
    PROVE  TypeOK'
<1> USE DEF TypeOK, scan, history
<1>1. ASSUME NEW r \in Requests, Request(r)
      PROVE  TypeOK'
  <2>1. /\ pc' = "query" /\ req' = r /\ StartHistory /\ answers = <<>>
        /\ UNCHANGED <<stored, now, answers, failed, snap, tag, at, left, seen, found, report, began>>
    BY <1>1 DEF Request, HistoryKept
  <2>2. Len(answers') <= Len(req')
    BY <2>1, ReadsAssumption
  <2> QED
    BY <2>1, <2>2, StartType
<1>2. CASE BeginQuery
  <2>1. /\ pc' = "scan" /\ snap' = stored /\ at' = 0 /\ left' = {} /\ seen' = {} /\ found' = <<>>
        /\ began' = Append(began, now)
        /\ UNCHANGED <<stored, now, req, answers, failed, report, changes, always, ever>>
        /\ Len(answers) < Len(req)
        /\ tag' \in TagNames(Asked) \/ tag' = tag
    BY <1>2 DEF BeginQuery
  <2>2. tag' \in TagName
    BY <2>1, AskedFilter, FilterLimit
  <2>3. now \in 0..now
    OBVIOUS
  <2>4. began' \in Seq(0..now')
    BY <2>1, <2>3, AppendProperties
  <2>5. found' \in Seq(seen')
    BY <2>1
  <2> QED
    BY <2>1, <2>2, <2>4, <2>5
<1>3. CASE NextRange
  <2> DEFINE R == Ranges(Asked, tag, snap)
  <2>1. /\ pc = "scan" /\ at < Len(R) /\ at' = at + 1 /\ left' = R[at + 1]
        /\ UNCHANGED <<stored, now, pc, req, answers, failed, snap, tag, seen, found, report, began,
                       changes, always, ever>>
    BY <1>3 DEF NextRange
  <2>2. Len(R) \in Nat /\ \A i \in 1..Len(R) : R[i] \subseteq snap
    BY <2>1, AskedFilter, RangesType DEF Scanning
  <2>3. left' \in SUBSET snap'
    <3>1. at + 1 \in 1..Len(R)
      BY <2>1, <2>2
    <3>2. R[at + 1] \subseteq snap
      BY <2>2, <3>1
    <3> HIDE DEF R
    <3> QED
      BY ONLY <2>1, <3>2
  <2> QED
    BY <2>1, <2>3
<1>4. CASE EndQuery \/ QueryFails
  <2>1. PICK s \in Seq(Event) : answers' = Append(answers, s)
    <3>1. found \in Seq(Event) /\ <<>> \in Seq(Event)
      OBVIOUS
    <3> QED
      BY <1>4, <3>1 DEF EndQuery, QueryFails
  <2>2. /\ pc = "scan" /\ pc' = "query" /\ EndScan /\ failed' \in {failed, failed \union {Len(answers) + 1}}
        /\ UNCHANGED <<stored, now, req, report, began, changes, always, ever>>
    BY <1>4 DEF EndQuery, QueryFails
  <2>3. /\ answers' \in Seq(Seq(Event)) /\ Len(answers') <= Len(req)
        /\ DOMAIN answers' = DOMAIN answers \union {Len(answers) + 1}
    BY <2>1, <2>2, OneMore DEF Scanning
  <2>4. failed' \subseteq DOMAIN answers'
    BY <2>2, <2>3
  <2>5. \A i \in DOMAIN answers' : answers'[i] \in Seq(Event)
    <3>1. DOMAIN answers' = 1..Len(answers')
      BY <2>3, LenProperties
    <3> QED
      BY <2>3, <3>1, ElementOfSeq
  <2>6. snap' = {} /\ at' = 0 /\ left' = {} /\ seen' = {} /\ found' \in Seq(seen') /\ tag' \in TagName
    BY <2>2, TagKnown DEF EndScan
  <2> QED
    BY <2>2, <2>3, <2>4, <2>5, <2>6
<1>5. CASE Eose
  BY <1>5 DEF Eose
<1> QED
  BY <1>1, <1>2, <1>3, <1>4, <1>5

LEMMA OtherType ==
    ASSUME TypeOK, HistoryKept, Reported,
           \/ \E e \in left : Entry(e)
           \/ BeginReport \/ ReadList \/ EndReport \/ Change \/ Tick
           \/ UNCHANGED vars
    PROVE  TypeOK'
<1> USE DEF TypeOK, scan, history
<1>1. ASSUME NEW e \in left, Entry(e)
      PROVE  TypeOK'
  <2>1. /\ left' = left \ {e}
        /\ UNCHANGED <<stored, now, pc, req, answers, failed, snap, tag, at, report, began,
                       changes, always, ever>>
    BY <1>1 DEF Entry
  <2>2. \/ seen' = seen /\ found' = found
        \/ seen' = seen \union {e} /\ found' = found
        \/ seen' = seen \union {e} /\ found' = Append(found, e)
    BY <1>1 DEF Entry, Marked
  <2>3. seen' \in SUBSET Event /\ seen \subseteq seen'
    BY <2>2
  <2>4. found \in Seq(seen')
    BY <2>3
  <2>5. found' \in Seq(seen')
    <3>1. CASE found' = found
      BY <2>4, <3>1
    <3>2. CASE e \in seen' /\ found' = Append(found, e)
      BY <2>4, <3>2, AppendProperties
    <3> QED
      BY <2>2, <3>1, <3>2
  <2> QED
    BY <2>1, <2>3, <2>5
<1>2. CASE BeginReport
  BY <1>2, StartType DEF BeginReport, Lists
<1>3. CASE ReadList
  <2>1. /\ pc' \in {"counts", "kind0", "kind1", "kind5", "report"}
        /\ UNCHANGED <<stored, now, req, answers, failed, snap, tag, at, left, seen, found, began,
                       changes, always, ever>>
    BY <1>3 DEF ReadList, Read
  <2>2. /\ UniqueAuthors(stored) \in SUBSET Pubkey /\ DOMAIN KindCounts(stored) \in SUBSET Nat
        /\ \A k : OfKind(k, stored) \in SUBSET Event
    BY EventAssumption DEF UniqueAuthors, KindCounts, OfKind
  <2>3. \/ report' = [report EXCEPT !.authors = UniqueAuthors(stored)]
        \/ report' = [report EXCEPT !.counts = KindCounts(stored)]
        \/ \E k \in {0, 1, 5} : \/ report' = [report EXCEPT !.events = OfKind(k, stored)]
                                \/ report' = [report EXCEPT !.events = @ \union OfKind(k, stored)]
    BY <1>3 DEF ReadList, Read
  <2>4. report'.authors \in SUBSET Pubkey
    BY <2>2, <2>3 DEF Reported
  <2>5. DOMAIN report'.counts \in SUBSET Nat
    BY <2>2, <2>3 DEF Reported
  <2>6. report'.events \in SUBSET Event
    <3>1. ASSUME NEW k, report' = [report EXCEPT !.events = OfKind(k, stored)]
          PROVE  report'.events = OfKind(k, stored)
      BY <3>1 DEF Reported
    <3>2. ASSUME NEW k, report' = [report EXCEPT !.events = @ \union OfKind(k, stored)]
          PROVE  report'.events = report.events \union OfKind(k, stored)
      BY <3>2 DEF Reported
    <3>3. CASE \E k \in {0, 1, 5} : \/ report' = [report EXCEPT !.events = OfKind(k, stored)]
                                   \/ report' = [report EXCEPT !.events = @ \union OfKind(k, stored)]
      <4>1. PICK k \in {0, 1, 5} : \/ report' = [report EXCEPT !.events = OfKind(k, stored)]
                                  \/ report' = [report EXCEPT !.events = @ \union OfKind(k, stored)]
        BY <3>3
      <4>2. report'.events \in {OfKind(k, stored), report.events \union OfKind(k, stored)}
        BY <3>1, <3>2, <4>1
      <4> QED
        BY <2>2, <4>2
    <3>4. CASE \/ report' = [report EXCEPT !.authors = UniqueAuthors(stored)]
               \/ report' = [report EXCEPT !.counts = KindCounts(stored)]
      <4>1. report'.events = report.events
        BY <3>4 DEF Reported
      <4> QED
        BY <4>1
    <3> QED
      BY <2>3, <3>3, <3>4
  <2> QED
    BY <2>1, <2>4, <2>5, <2>6 DEF Lists
<1>4. CASE EndReport
  BY <1>4 DEF EndReport
<1>5. CASE Change
  <2>1. /\ changes' = changes + 1 /\ changes < MaxChanges
        /\ always' = [events |-> always.events \intersect stored',
                      places |-> always.places \intersect PlacesOf(stored')]
        /\ ever' = ever \union stored'
        /\ UNCHANGED <<now, pc, req, answers, failed, snap, tag, at, left, seen, found, report, began>>
    BY <1>5 DEF Change
  <2>2. stored' \in SUBSET Event
    BY <1>5, ChangedStore
  <2>3. changes' \in 0..MaxChanges
    BY <2>1, ReadsAssumption
  <2> QED
    BY <2>1, <2>2, <2>3
<1>6. CASE Tick
  <2>1. /\ now' = now + 1 /\ now < MaxTime
        /\ UNCHANGED <<stored, pc, req, answers, failed, snap, tag, at, left, seen, found, report, began,
                       changes, always, ever>>
    BY <1>6 DEF Tick
  <2>2. now' \in 0..MaxTime /\ 0..now \subseteq 0..now'
    BY <2>1, ReadsAssumption
  <2>3. began' \in Seq(0..now')
    BY <2>1, <2>2
  <2> QED
    BY <2>1, <2>2, <2>3
<1>7. CASE UNCHANGED vars
  BY <1>7 DEF vars
<1> QED
  BY <1>1, <1>2, <1>3, <1>4, <1>5, <1>6, <1>7

-----------------------------------------------------------------------------
(* What is true of an answer stays true *)

LEMMA ExpiryStays ==
    ASSUME NEW t \in Nat, NEW u \in Nat, t <= u
    PROVE  \A f : \A e \in Event : /\ MatchesEvent(f, e, u) => MatchesEvent(f, e, t)
                                   /\ Due(f, e, u) => Due(f, e, t)
<1>1. \A e \in Event : Expirations[e] \in SUBSET Nat
  BY FilterAssumption
<1>2. \A e \in Event : Expired(e, t) => Expired(e, u)
  BY <1>1 DEF Expired
<1> QED
  BY <1>2 DEF MatchesEvent, Due

\* A filter that goes by authors and kinds does not tell versions apart.
LEMMA PlaceFits ==
    ASSUME NEW f, ByPlace(f), NEW e, NEW g, SameSlot(e, g), Fits(f, e), Covers(f, e)
    PROVE  Fits(f, g) /\ Covers(f, g)
<1>1. ~ Given(f, "ids") /\ ~ Given(f, "since") /\ ~ Given(f, "until") /\ TagNames(f) = {}
  BY DEF ByPlace, Given, TagNames
<1> QED
  BY <1>1 DEF Fits, Covers, SameSlot, ByTag

LEMMA PlacedStays ==
    ASSUME NEW f, NEW s, NEW E \in SUBSET Event, NEW D \in SUBSET Event, E \subseteq D,
           NEW P, NEW Q, Q \subseteq P, D = E \/ P \subseteq PlacesOf(E),
           Elements(s) \subseteq Event, Placed(f, s, P, E)
    PROVE  Placed(f, s, Q, D)
<1> SUFFICES ASSUME ByPlace(f), Len(s) < Limit(f),
                    NEW e \in D, <<Author[e], Kind[e]>> \in Q,
                    \A g \in D : SameSlot(e, g) => Expirations[g] = {},
                    Fits(f, e), Covers(f, e)
             PROVE  \E g \in Elements(s) : SameSlot(e, g)
  BY DEF Placed
<1>1. PICK h \in E : SameSlot(e, h)
  <2>1. CASE D = E
    BY <2>1 DEF SameSlot
  <2>2. CASE P \subseteq PlacesOf(E)
    BY <2>2 DEF PlacesOf, SameSlot
  <2> QED
    BY <2>1, <2>2
<1>2. <<Author[h], Kind[h]>> \in P
  BY <1>1 DEF SameSlot
<1>3. \A g \in E : SameSlot(h, g) => Expirations[g] = {}
  BY <1>1 DEF SameSlot
<1>4. Fits(f, h) /\ Covers(f, h)
  BY <1>1, PlaceFits
<1>5. PICK g \in Elements(s) : SameSlot(h, g)
  BY <1>2, <1>3, <1>4 DEF Placed
<1> QED
  BY <1>1, <1>5 DEF SameSlot

\* The history goes on: what is there at all times gets less, what is there at
\* some time more.
Onwards ==
    /\ always'.events \subseteq always.events /\ always'.places \subseteq always.places
    /\ ever \subseteq ever' /\ now <= now'
    /\ ever' = ever \/ always.places \subseteq PlacesOf(ever)

LEMMA AnswerStays ==
    ASSUME TypeOK, TypeOK', Onwards, NEW f, NEW s, Elements(s) \subseteq Event
    PROVE  /\ Sound(f, s, ever) => Sound(f, s, ever')
           /\ Newest(f, s, always.events, now) => Newest(f, s, always'.events, now')
           /\ Complete(f, s, always.events, now) => Complete(f, s, always'.events, now')
           /\ Placed(f, s, always.places, ever) => Placed(f, s, always'.places, ever')
<1>1. /\ ever \in SUBSET Event /\ ever' \in SUBSET Event /\ always.events \subseteq Event
      /\ now \in Nat /\ now' \in Nat
  BY ReadsAssumption DEF TypeOK
<1>2. \A e \in always.events : MatchesEvent(f, e, now') => MatchesEvent(f, e, now)
  BY <1>1, ExpiryStays DEF Onwards
<1>3. Sound(f, s, ever) => Sound(f, s, ever')
  BY DEF Sound, Onwards
<1>4. Newest(f, s, always.events, now) => Newest(f, s, always'.events, now')
  BY <1>2 DEF Newest, Onwards
<1>5. Complete(f, s, always.events, now) => Complete(f, s, always'.events, now')
  BY <1>2 DEF Complete, Onwards
<1>6. Placed(f, s, always.places, ever) => Placed(f, s, always'.places, ever')
  BY <1>1, PlacedStays DEF Onwards
<1> QED
  BY <1>3, <1>4, <1>5, <1>6

LEMMA AnsweredStays ==
    ASSUME TypeOK, TypeOK', Answered, Onwards, UNCHANGED <<req, answers, failed>>
    PROVE  Answered'
<1> SUFFICES ASSUME NEW i \in DOMAIN answers
             PROVE  /\ Sound(req[i], answers[i], ever')
                    /\ Newest(req[i], answers[i], always'.events, now')
                    /\ OnePerSlot(Elements(answers[i]))
                    /\ i \notin failed => /\ Complete(req[i], answers[i], always'.events, now')
                                          /\ Placed(req[i], answers[i], always'.places, ever')
  BY DEF Answered
<1>1. Elements(answers[i]) \subseteq Event
  <2>1. answers[i] \in Seq(Event)
    BY DEF TypeOK
  <2> QED
    BY <2>1, LenProperties, ElementOfSeq DEF Elements
<1> QED
  BY <1>1, AnswerStays DEF Answered

\* An empty answer has nothing wrong.
LEMMA EmptyAnswer ==
    ASSUME NEW f, IsFilter(f), NEW E, NEW A, NEW t
    PROVE  Sound(f, <<>>, E) /\ Newest(f, <<>>, A, t) /\ OnePerSlot(Elements(<<>>))
BY FilterLimit DEF Sound, Newest, OnePerSlot, Elements

\* A step that begins the history, or lets it go on.
LEMMA HistorySteps ==
    ASSUME TypeOK, HistoryKept, [Next]_vars
    PROVE  \/ pc = "idle" /\ answers' = <<>>
           \/ Onwards
<1>1. pc \notin {"idle", "done"} => always.places \subseteq PlacesOf(ever)
  BY DEF HistoryKept, PlacesOf
<1>2. now \in Nat
  BY DEF TypeOK
<1>3. CASE (\E r \in Requests : Request(r)) \/ BeginReport
  BY <1>3 DEF Request, BeginReport, HistoryKept
<1>4. CASE \/ BeginQuery \/ NextRange \/ (\E e \in left : Entry(e)) \/ EndQuery \/ QueryFails \/ Eose
           \/ ReadList \/ EndReport \/ UNCHANGED vars
  <2>1. UNCHANGED <<always, ever, now>>
    BY <1>4 DEF BeginQuery, NextRange, Entry, EndQuery, QueryFails, Eose, ReadList, Read, EndReport,
                vars, history
  <2> QED
    BY <1>2, <2>1 DEF Onwards
<1>5. CASE Change
  BY <1>1, <1>2, <1>5 DEF Change, Onwards
<1>6. CASE Tick
  BY <1>2, <1>6 DEF Tick, Onwards, history
<1> QED
  BY <1>3, <1>4, <1>5, <1>6 DEF Next

LEMMA NextHistory ==
    ASSUME TypeOK, HistoryKept, Scanning, [Next]_vars
    PROVE  HistoryKept'
<1> USE DEF HistoryKept
<1>1. CASE (\E r \in Requests : Request(r)) \/ BeginReport
  BY <1>1 DEF Request, BeginReport, StartHistory
<1>2. CASE EndQuery \/ QueryFails
  <2>1. PICK s \in Seq(Event) : answers' = Append(answers, s)
    <3>1. found \in Seq(Event) /\ <<>> \in Seq(Event)
      BY DEF TypeOK
    <3> QED
      BY <1>2, <3>1 DEF EndQuery, QueryFails
  <2>2. /\ pc = "scan" /\ pc' = "query"
        /\ UNCHANGED <<stored, always, ever>>
    BY <1>2 DEF EndQuery, QueryFails, history
  <2>3. answers' \in Seq(Seq(Event))
    BY <2>1, <2>2, OneMore DEF Scanning
  <2> QED
    BY <2>2, <2>3
<1>3. CASE Change
  <2>1. OnePerSlot(stored')
    BY <1>3, ChangedStore
  <2> QED
    BY <1>3, <2>1 DEF Change
<1>4. CASE \/ BeginQuery \/ NextRange \/ (\E e \in left : Entry(e)) \/ Eose
           \/ ReadList \/ EndReport \/ Tick \/ UNCHANGED vars
  <2>1. UNCHANGED <<stored, always, ever, answers>>
    BY <1>4 DEF BeginQuery, NextRange, Entry, Eose, ReadList, Read, EndReport, Tick, vars, history
  <2>2. \/ pc' = pc
        \/ pc \notin {"idle", "done"} /\ pc' # "idle"
    BY <1>4 DEF BeginQuery, NextRange, Entry, Eose, ReadList, Read, EndReport, Tick, vars, Lists
  <2> QED
    BY <2>1, <2>2
<1> QED
  BY <1>1, <1>2, <1>3, <1>4 DEF Next

-----------------------------------------------------------------------------
(* A query *)

LEMMA BeginScanning ==
    ASSUME TypeOK, HistoryKept, BeginQuery
    PROVE  Scanning'
<1>1. /\ pc = "query" /\ snap' = stored /\ at' = 0 /\ left' = {} /\ seen' = {} /\ found' = <<>>
      /\ Len(answers) < Len(req)
      /\ IF ByTag(Asked) THEN tag' \in TagNames(Asked) ELSE UNCHANGED tag
      /\ UNCHANGED <<req, answers, now, always, ever>>
  BY DEF BeginQuery, history
<1>2. Asked' = Asked /\ IsFilter(Asked)
  BY <1>1, AskedFilter DEF Asked
<1>3. /\ Sound(Asked, found', ever) /\ Newest(Asked, found', always.events, now)
      /\ DOMAIN found' = {}
  BY <1>1, <1>2, EmptyAnswer
<1>4. 0 <= Len(Ranges(Asked, tag', snap')) /\ 1..0 = {}
  BY <1>1, <1>2, RangesType
<1>5. /\ OnePerSlot(stored) /\ always.events \subseteq stored /\ stored \subseteq ever
      /\ always.places \subseteq PlacesOf(stored)
  BY <1>1 DEF HistoryKept
<1> QED
  BY <1>1, <1>2, <1>3, <1>4, <1>5 DEF Scanning

LEMMA RangeScanning ==
    ASSUME TypeOK, HistoryKept, Scanning, NextRange
    PROVE  Scanning'
<1> DEFINE R == Ranges(Asked, tag, snap)
<1>1. /\ pc = "scan" /\ left = {} /\ at < Len(R) /\ at' = at + 1 /\ left' = R[at + 1]
      /\ UNCHANGED <<now, pc, req, answers, snap, tag, seen, found, always, ever>>
  BY DEF NextRange, history
<1>2. Asked' = Asked /\ R' = R
  BY <1>1 DEF Asked
<1>3. Len(R) \in Nat /\ at \in Nat
  BY <1>1, AskedFilter, RangesType DEF Scanning, TypeOK
<1>4. \A j \in 1..at' : \A e \in R[j] \ left' : Due(Asked, e, now) => e \in Elements(found)
  <2>1. \A j \in 1..at : \A e \in R[j] : Due(Asked, e, now) => e \in Elements(found)
    BY <1>1 DEF Scanning
  <2>2. \A j \in 1..at' : j \in 1..at \/ j = at + 1
    BY <1>1, <1>3
  <2> QED
    BY <1>1, <2>1, <2>2
<1>5. at' <= Len(R) /\ at' # 0
  BY <1>1, <1>3
<1> QED
  BY <1>1, <1>2, <1>4, <1>5 DEF Scanning

\* While a query goes on others change the database, and time passes.
LEMMA OthersScanning ==
    ASSUME TypeOK, TypeOK', HistoryKept, Scanning, Onwards,
           UNCHANGED <<pc, req, answers, snap, tag, at, left, seen, found>>
    PROVE  Scanning'
<1> SUFFICES ASSUME pc = "scan"
             PROVE  Scanning'
  BY DEF Scanning
<1>1. Asked' = Asked
  BY DEF Asked
<1>2. now \in Nat /\ now' \in Nat /\ snap \subseteq Event /\ seen \subseteq Event /\ at \in Nat
  BY ReadsAssumption DEF TypeOK
<1>3. \A e \in Event : Due(Asked, e, now') => Due(Asked, e, now)
  BY <1>2, ExpiryStays DEF Onwards
<1>4. Elements(found) \subseteq Event
  BY <1>2 DEF Scanning, Elements
<1>5. Sound(Asked, found, ever') /\ Newest(Asked, found, always'.events, now')
  BY <1>4, AnswerStays DEF Scanning
<1>6. \A j \in 1..at : Ranges(Asked, tag, snap)[j] \subseteq snap
  <2>1. /\ Len(Ranges(Asked, tag, snap)) \in Nat
        /\ \A j \in 1..Len(Ranges(Asked, tag, snap)) : Ranges(Asked, tag, snap)[j] \subseteq snap
    BY AskedFilter, RangesType DEF Scanning
  <2>2. \A j \in 1..at : j \in 1..Len(Ranges(Asked, tag, snap))
    BY <1>2, <2>1 DEF Scanning
  <2> QED
    BY <2>1, <2>2
<1>7. \A j \in 1..at : \A e \in Ranges(Asked, tag, snap)[j] \ left :
         Due(Asked, e, now') => e \in Elements(found)
  BY <1>2, <1>3, <1>6 DEF Scanning
<1>8. \A e \in seen : Due(Asked, e, now') => e \in Elements(found)
  BY <1>2, <1>3 DEF Scanning
<1>9. /\ snap \subseteq ever' /\ always'.events \subseteq snap /\ always'.places \subseteq PlacesOf(snap)
  BY DEF Scanning, Onwards
<1> QED
  BY <1>1, <1>5, <1>7, <1>8, <1>9 DEF Scanning

LEMMA Appended ==
    ASSUME NEW T, NEW s \in Seq(T), NEW e
    PROVE  /\ Len(s) \in Nat /\ DOMAIN s = 1..Len(s)
           /\ Len(Append(s, e)) = Len(s) + 1 /\ DOMAIN Append(s, e) = 1..Len(s) + 1
           /\ \A j \in 1..Len(s) : Append(s, e)[j] = s[j]
           /\ Append(s, e)[Len(s) + 1] = e
           /\ Elements(Append(s, e)) = Elements(s) \union {e}
<1>1. s \in Seq(T \union {e}) /\ e \in T \union {e}
  OBVIOUS
<1>2. /\ Len(s) \in Nat /\ DOMAIN s = 1..Len(s)
      /\ Len(Append(s, e)) = Len(s) + 1 /\ DOMAIN Append(s, e) = 1..Len(s) + 1
      /\ \A j \in 1..Len(s) : Append(s, e)[j] = s[j]
      /\ Append(s, e)[Len(s) + 1] = e
  BY <1>1, LenProperties, AppendProperties
<1>3. \A j \in 1..Len(s) + 1 : j \in 1..Len(s) \/ j = Len(s) + 1
  BY <1>2
<1> QED
  BY <1>2, <1>3 DEF Elements

\* An entry whose event is returned: it fits, and every newer one of its kind
\* that was to be returned is there already.
LEMMA EntryReturned ==
    ASSUME TypeOK, HistoryKept, Scanning, NEW e \in left, Entry(e),
           e \notin seen, Due(Asked, e, now), found' = Append(found, e)
    PROVE  Sound(Asked, found', ever) /\ Newest(Asked, found', always.events, now)
<1> DEFINE R == Ranges(Asked, tag, snap)
           n == Len(found)
<1>1. /\ pc = "scan" /\ ~ Enough
      /\ \A g \in left \ {e} : Precedes(Asked, e, g)
  BY DEF Entry
<1>2. IsFilter(Asked) /\ Limit(Asked) \in Nat
  BY <1>1, AskedFilter, FilterLimit DEF Scanning
<1>3. /\ n \in Nat /\ DOMAIN found = 1..n /\ Elements(found) \subseteq seen
      /\ Len(found') = n + 1 /\ DOMAIN found' = 1..n + 1
      /\ \A j \in 1..n : found'[j] = found[j]
      /\ found'[n + 1] = e
  BY Appended, LenProperties, ElementOfSeq DEF TypeOK, Elements
<1>4. at \in DOMAIN R /\ e \in R[at] /\ left \subseteq R[at] /\ R[at] \subseteq snap
  <2>1. /\ DOMAIN R = 1..Len(R) /\ Len(R) \in Nat
        /\ \A i \in 1..Len(R) : R[i] \subseteq snap
    BY <1>1, <1>2, RangesType DEF Scanning
  <2>2. at \in Nat /\ at # 0 /\ at <= Len(R) /\ left \subseteq R[at]
    BY <1>1 DEF Scanning, TypeOK
  <2> HIDE DEF R
  <2> QED
    BY <2>1, <2>2
<1>5. Fits(Asked, e)
  <2>1. CASE Checked(Asked)
    BY <2>1 DEF Due, MatchesEvent
  <2>2. CASE ~ Checked(Asked)
    BY <1>2, <1>4, <2>2, RangeFits
  <2> QED
    BY <2>1, <2>2
<1>6. e \in ever /\ snap \subseteq Event
  BY <1>1, <1>4 DEF Scanning, TypeOK
<1>7. \A j \in 1..n + 1 : j \in 1..n \/ j = n + 1
  BY <1>3
<1>8. Sound(Asked, found', ever)
  <2>1. /\ \A j, k \in 1..n : found[j] = found[k] => j = k
        /\ \A j \in 1..n : found[j] \in ever /\ Fits(Asked, found[j])
    BY <1>1, <1>3 DEF Scanning, Sound
  <2>2. \A j \in 1..n : found[j] # e
    BY <1>3 DEF Elements
  <2>3. n + 1 <= Limit(Asked)
    BY <1>1, <1>2, <1>3 DEF Enough
  <2> HIDE DEF n
  <2>4. \A j, k \in 1..n + 1 : found'[j] = found'[k] => j = k
    BY <1>3, <1>7, <2>1, <2>2
  <2>5. \A j \in 1..n + 1 : found'[j] \in ever /\ Fits(Asked, found'[j])
    BY <1>3, <1>5, <1>6, <1>7, <2>1
  <2> QED
    BY <1>3, <2>3, <2>4, <2>5 DEF Sound
<1>9. Newest(Asked, found', always.events, now)
  <2> SUFFICES ASSUME ~ ByIds(Asked), NEW j \in 1..n + 1, NEW h \in always.events,
                      SameSlot(h, found'[j]), Tags[h] = Tags[found'[j]],
                      CreatedAt[h] > CreatedAt[found'[j]], MatchesEvent(Asked, h, now)
               PROVE  \E k \in 1..(j - 1) : found'[k] = h
    BY <1>3 DEF Newest
  <2>1. CASE j \in 1..n
    <3>1. \E k \in 1..(j - 1) : found[k] = h
      BY <1>1, <1>3, <2>1 DEF Scanning, Newest
    <3>2. \A k \in 1..(j - 1) : k \in 1..n
      BY <1>3, <2>1
    <3> QED
      BY <1>3, <3>1, <3>2
  <2>2. CASE j = n + 1
    <3>1. SameSlot(h, e) /\ Tags[h] = Tags[e] /\ CreatedAt[h] > CreatedAt[e]
      BY <1>3, <2>2
    <3>2. h \in snap /\ h \in Event /\ e \in Event
      BY <1>1, <1>4, <1>6 DEF Scanning
    <3>3. h \in R[at]
      BY <1>2, <1>4, <3>1, <3>2, RangeAlike DEF MatchesEvent
    <3>4. h \notin left
      <4>1. CreatedAt[h] \in Nat /\ CreatedAt[e] \in Nat
        BY <3>2, EventAssumption
      <4>2. h # e
        BY <3>1, <4>1
      <4>3. ~ Precedes(Asked, e, h)
        BY <3>1, <4>1 DEF Precedes
      <4> QED
        BY <1>1, <4>2, <4>3
    <3>5. Due(Asked, h, now)
      BY DEF Due
    <3>6. at \in 1..at
      <4>1. at \in Nat /\ at # 0
        BY <1>1 DEF Scanning, TypeOK
      <4> QED
        BY <4>1
    <3>7. h \in Elements(found)
      BY <1>1, <3>3, <3>4, <3>5, <3>6 DEF Scanning
    <3>8. PICK k \in 1..n : found[k] = h
      BY <1>3, <3>7 DEF Elements
    <3>9. k \in 1..(j - 1) /\ found'[k] = h
      BY <1>3, <2>2, <3>8
    <3> QED
      BY <3>9
  <2> QED
    BY <1>7, <2>1, <2>2
<1> QED
  BY <1>8, <1>9

LEMMA EntryScanning ==
    ASSUME TypeOK, HistoryKept, Scanning, NEW e \in left, Entry(e)
    PROVE  Scanning'
<1> DEFINE R == Ranges(Asked, tag, snap)
<1>1. /\ pc = "scan" /\ left' = left \ {e}
      /\ UNCHANGED <<now, pc, req, answers, snap, tag, at, always, ever>>
      /\ e \in snap
      /\ IF e \notin seen /\ Due(Asked, e, now) THEN found' = Append(found, e) ELSE found' = found
      /\ seen' = seen \/ seen' = seen \union {e}
  BY DEF Entry, history, Fetched, Due, TypeOK, Marked
<1>2. Asked' = Asked /\ R' = R
  BY <1>1 DEF Asked
<1>3. /\ Sound(Asked, found', ever) /\ Newest(Asked, found', always.events, now)
      /\ Elements(found) \subseteq Elements(found')
      /\ Due(Asked, e, now) => e \in Elements(found')
      /\ \A j \in DOMAIN found' : found'[j] \in snap
  <2>1. CASE e \notin seen /\ Due(Asked, e, now)
    <3>1. Elements(found') = Elements(found) \union {e} /\ Elements(found) \subseteq snap
      <4>1. found \in Seq(seen) /\ found' = Append(found, e)
        BY <1>1, <2>1 DEF TypeOK
      <4>2. Elements(found') = Elements(found) \union {e}
        BY <4>1, Appended
      <4> QED
        BY <1>1, <4>2 DEF Scanning, Elements
    <3>2. \A j \in DOMAIN found' : found'[j] \in snap
      BY <1>1, <3>1 DEF Elements
    <3> QED
      BY <1>1, <2>1, <3>1, <3>2, EntryReturned
  <2>2. CASE ~ (e \notin seen /\ Due(Asked, e, now))
    BY <1>1, <2>2 DEF Scanning
  <2> QED
    BY <2>1, <2>2
<1>4. \A x \in seen' : Due(Asked, x, now) => x \in Elements(found')
  BY <1>1, <1>3 DEF Scanning
<1>5. \A j \in 1..at : \A x \in R[j] \ left' : Due(Asked, x, now) => x \in Elements(found')
  BY <1>1, <1>3 DEF Scanning
<1>6. /\ Len(answers) < Len(req) /\ (ByTag(Asked) => tag \in TagNames(Asked))
      /\ OnePerSlot(snap) /\ snap \subseteq ever
      /\ always.events \subseteq snap /\ always.places \subseteq PlacesOf(snap)
      /\ at <= Len(R)
      /\ IF at = 0 THEN left' = {} ELSE left' \subseteq R[at]
  BY <1>1 DEF Scanning
<1> HIDE DEF R
<1>7. Ranges(Asked, tag, snap)' = R
  BY <1>2 DEF R
<1> QED
  BY <1>1, <1>2, <1>3, <1>4, <1>5, <1>6, <1>7 DEF Scanning

\* A query that ends without an error has everything of its one moment.
LEMMA EndedAnswer ==
    ASSUME TypeOK, HistoryKept, Scanning, EndQuery
    PROVE  /\ OnePerSlot(Elements(found))
           /\ Complete(Asked, found, always.events, now)
           /\ Placed(Asked, found, always.places, ever)
<1> DEFINE R == Ranges(Asked, tag, snap)
<1>1. /\ pc = "scan"
      /\ Enough \/ (left = {} /\ at = Len(R))
  BY DEF EndQuery
<1>2. /\ IsFilter(Asked) /\ Limit(Asked) \in Nat /\ (ByTag(Asked) => tag \in TagNames(Asked))
      /\ DOMAIN R = 1..Len(R)
  BY <1>1, AskedFilter, FilterLimit, RangesType DEF Scanning
<1>3. /\ Elements(found) \subseteq snap /\ OnePerSlot(snap) /\ snap \subseteq Event /\ snap \subseteq ever
      /\ always.events \subseteq snap /\ always.places \subseteq PlacesOf(snap)
  BY <1>1 DEF Scanning, Elements, TypeOK
<1>4. OnePerSlot(Elements(found))
  BY <1>3 DEF OnePerSlot
<1>5. ASSUME Len(found) < Limit(Asked), NEW g \in snap,
             MatchesEvent(Asked, g, now), Covers(Asked, g)
      PROVE  g \in Elements(found)
  <2>1. Len(found) \in Nat
    BY LenProperties DEF TypeOK
  <2>2. left = {} /\ at = Len(R)
    BY <1>1, <1>2, <1>5, <2>1 DEF Enough
  <2>3. PICK i \in DOMAIN R : g \in R[i]
    BY <1>2, <1>5, RangeCovers DEF MatchesEvent
  <2>4. i \in 1..at /\ g \in R[i] \ left
    BY <1>2, <2>2, <2>3
  <2>5. Due(Asked, g, now)
    BY <1>5 DEF Due
  <2> HIDE DEF R
  <2> QED
    BY <1>1, <2>4, <2>5 DEF Scanning, R
<1>6. Complete(Asked, found, always.events, now)
  BY <1>3, <1>5 DEF Complete
<1>7. Placed(Asked, found, always.places, ever)
  <2> SUFFICES ASSUME ByPlace(Asked), Len(found) < Limit(Asked),
                      NEW e \in ever, <<Author[e], Kind[e]>> \in always.places,
                      \A g \in ever : SameSlot(e, g) => Expirations[g] = {},
                      Fits(Asked, e), Covers(Asked, e)
               PROVE  \E g \in Elements(found) : SameSlot(e, g)
    BY DEF Placed
  <2>1. PICK g \in snap : SameSlot(e, g)
    BY <1>3 DEF PlacesOf, SameSlot
  <2>2. Expirations[g] = {}
    BY <1>3, <2>1
  <2>3. Fits(Asked, g) /\ Covers(Asked, g)
    BY <2>1, PlaceFits
  <2>4. MatchesEvent(Asked, g, now)
    BY <2>2, <2>3 DEF MatchesEvent, Expired
  <2> QED
    BY <1>5, <2>1, <2>3, <2>4
<1> QED
  BY <1>4, <1>6, <1>7

LEMMA NextAnswered ==
    ASSUME TypeOK, TypeOK', HistoryKept, Scanning, Answered, [Next]_vars
    PROVE  Answered'
<1>1. CASE EndQuery \/ QueryFails
  <2> DEFINE n == Len(answers) + 1
  <2>1. /\ pc = "scan" /\ UNCHANGED <<req, always, ever, now>>
        /\ answers' = Append(answers, found) \/ answers' = Append(answers, <<>>)
        /\ failed \subseteq failed'
    BY <1>1 DEF EndQuery, QueryFails, history
  <2>2. PICK s \in Seq(Event) :
           /\ answers' = Append(answers, s)
           /\ Sound(Asked, s, ever) /\ Newest(Asked, s, always.events, now) /\ OnePerSlot(Elements(s))
           /\ n \notin failed' => /\ Complete(Asked, s, always.events, now)
                                  /\ Placed(Asked, s, always.places, ever)
    <3>1. found \in Seq(Event) /\ <<>> \in Seq(Event)
      BY DEF TypeOK
    <3>2. CASE EndQuery
      <4>1. Sound(Asked, found, ever) /\ Newest(Asked, found, always.events, now)
        BY <2>1 DEF Scanning
      <4>2. answers' = Append(answers, found)
        BY <3>2 DEF EndQuery
      <4> QED
        BY <3>1, <3>2, <4>1, <4>2, EndedAnswer
    <3>3. CASE QueryFails
      <4>1. IsFilter(Asked)
        BY <2>1, AskedFilter DEF Scanning
      <4>2. /\ Sound(Asked, <<>>, ever) /\ Newest(Asked, <<>>, always.events, now)
            /\ OnePerSlot(Elements(<<>>))
        BY <4>1, EmptyAnswer
      <4>3. answers' = Append(answers, <<>>) /\ n \in failed'
        BY <3>3 DEF QueryFails
      <4> QED
        BY <3>1, <4>2, <4>3
    <3> QED
      BY <1>1, <3>2, <3>3
  <2>3. /\ DOMAIN answers' = DOMAIN answers \union {n}
        /\ \A i \in DOMAIN answers : answers'[i] = answers[i]
        /\ answers'[n] = s
    BY <2>1, <2>2, OneMore DEF Scanning
  <2>4. Asked = req[n]
    BY DEF Asked
  <2> HIDE DEF n
  <2> QED
    BY <2>1, <2>2, <2>3, <2>4 DEF Answered
<1>2. CASE ~ (EndQuery \/ QueryFails)
  <2>1. CASE pc = "idle" /\ answers' = <<>>
    BY <2>1 DEF Answered
  <2>2. CASE Onwards /\ ~ (\E r \in Requests : Request(r))
    <3>1. UNCHANGED <<req, answers, failed>>
      BY <1>2, <2>2 DEF Next, BeginQuery, NextRange, Entry, Eose, BeginReport, ReadList, Read, EndReport,
                        Change, Tick, vars
    <3> QED
      BY <2>2, <3>1, AnsweredStays
  <2>3. ASSUME NEW r \in Requests, Request(r)
        PROVE  answers' = <<>>
    BY <2>3 DEF Request, HistoryKept
  <2>4. CASE \E r \in Requests : Request(r)
    BY <2>3, <2>4 DEF Answered
  <2> QED
    BY <2>1, <2>2, <2>4, HistorySteps
<1> QED
  BY <1>1, <1>2

LEMMA NextScanning ==
    ASSUME TypeOK, TypeOK', HistoryKept, Scanning, [Next]_vars
    PROVE  Scanning'
<1>1. CASE \/ (\E r \in Requests : Request(r)) \/ EndQuery \/ QueryFails \/ Eose
           \/ BeginReport \/ ReadList \/ EndReport
  <2>1. pc' # "scan"
    BY <1>1 DEF Request, EndQuery, QueryFails, Eose, BeginReport, ReadList, Read, EndReport
  <2> QED
    BY <2>1 DEF Scanning
<1>2. CASE BeginQuery
  BY <1>2, BeginScanning
<1>3. CASE NextRange
  BY <1>3, RangeScanning
<1>4. ASSUME NEW e \in left, Entry(e)
      PROVE  Scanning'
  BY <1>4, EntryScanning
<1>5. CASE Change \/ Tick \/ UNCHANGED vars
  <2>1. UNCHANGED <<pc, req, answers, snap, tag, at, left, seen, found>>
    BY <1>5 DEF Change, Tick, vars, scan
  <2>2. CASE Onwards
    BY <2>1, <2>2, OthersScanning
  <2>3. CASE pc = "idle"
    BY <2>1, <2>3 DEF Scanning
  <2> QED
    BY <2>2, <2>3, HistorySteps
<1> QED
  BY <1>1, <1>2, <1>3, <1>4, <1>5 DEF Next

-----------------------------------------------------------------------------
(* The report *)

LEMMA OfKindGrows ==
    ASSUME NEW T \in SUBSET Event, NEW S \in SUBSET T, NEW k
    PROVE  /\ Cardinality(OfKind(k, S)) \in Nat
           /\ Cardinality(OfKind(k, S)) <= Cardinality(OfKind(k, T))
<1>1. OfKind(k, T) \in SUBSET Event /\ OfKind(k, S) \in SUBSET OfKind(k, T)
  BY DEF OfKind
<1>2. IsFiniteSet(OfKind(k, T))
  BY <1>1, ReadsAssumption, FS_Subset
<1> QED
  BY <1>1, <1>2, FS_Subset, FS_CardinalityType

\* The events of kind 0 that a set has for an author.
ProfilesOf(pk, S) == {e \in S : Author[e] = pk /\ Kind[e] = 0}

\* A report that is not touched stays between what is there all the time, which
\* gets less, and what is there at some time, which gets more.
LEMMA ReportStays ==
    ASSUME TypeOK, TypeOK', Reported, Onwards, UNCHANGED report,
           pc' = pc \/ pc' \notin {"counts", "kind0", "kind1", "kind5", "report"}
    PROVE  Reported'
<1>1. /\ ever \in SUBSET Event /\ ever' \in SUBSET Event /\ always.events \in SUBSET Event
      /\ ever \in SUBSET ever' /\ always'.events \in SUBSET always.events
      /\ always'.places \subseteq always.places
  BY DEF TypeOK, Onwards
<1>2. \A k : /\ Cardinality(OfKind(k, always'.events)) \in Nat
             /\ Cardinality(OfKind(k, always.events)) \in Nat
             /\ Cardinality(OfKind(k, ever)) \in Nat /\ Cardinality(OfKind(k, ever')) \in Nat
             /\ Cardinality(OfKind(k, always'.events)) <= Cardinality(OfKind(k, always.events))
             /\ Cardinality(OfKind(k, ever)) <= Cardinality(OfKind(k, ever'))
  BY <1>1, OfKindGrows
<1>3. \A k : OfKind(k, always'.events) \subseteq OfKind(k, always.events)
  BY <1>1 DEF OfKind
<1>4. /\ UniqueAuthors(always'.events) \subseteq UniqueAuthors(always.events)
      /\ UniqueAuthors(ever) \subseteq UniqueAuthors(ever')
  BY <1>1 DEF UniqueAuthors
<1>5. \A k : CountOf(k)' = CountOf(k)
  BY DEF CountOf
<1>6. DOMAIN report' = {"authors", "counts", "events"}
  BY DEF Reported
<1>7. pc' \in {"counts", "kind0", "kind1", "kind5", "report"} =>
        /\ UniqueAuthors(always'.events) \subseteq report'.authors
        /\ report'.authors \subseteq UniqueAuthors(ever')
  BY <1>4 DEF Reported
<1>8. pc' \in {"kind0", "kind1", "kind5", "report"} =>
        \A k \in Nat : /\ CountOf(k)' \in Nat
                       /\ Cardinality(OfKind(k, always'.events)) <= CountOf(k)'
                       /\ CountOf(k)' <= Cardinality(OfKind(k, ever'))
  <2> SUFFICES ASSUME pc' \in {"kind0", "kind1", "kind5", "report"}, NEW k \in Nat
               PROVE  /\ CountOf(k) \in Nat
                      /\ Cardinality(OfKind(k, always'.events)) <= CountOf(k)
                      /\ CountOf(k) <= Cardinality(OfKind(k, ever'))
    BY <1>5
  <2>1. /\ CountOf(k) \in Nat
        /\ Cardinality(OfKind(k, always.events)) <= CountOf(k)
        /\ CountOf(k) <= Cardinality(OfKind(k, ever))
    BY DEF Reported
  <2> QED
    BY <1>2, <2>1
<1>9. pc' \in {"kind1", "kind5", "report"} =>
        /\ report'.events \subseteq ever'
        /\ OfKind(0, always'.events) \subseteq report'.events
        /\ \A x \in always'.places : x[2] = 0 =>
              \E g \in report'.events :
                 {e \in report'.events : Author[e] = x[1] /\ Kind[e] = 0} = {g}
  BY <1>1, <1>3 DEF Reported
<1>10. /\ pc' \in {"kind5", "report"} => OfKind(1, always'.events) \subseteq report'.events
       /\ pc' = "report" => OfKind(5, always'.events) \subseteq report'.events
  BY <1>3 DEF Reported
<1> QED
  BY <1>6, <1>7, <1>8, <1>9, <1>10 DEF Reported

\* The counts of the events of one moment.
LEMMA CountsBetween ==
    ASSUME TypeOK, HistoryKept, pc \notin {"idle", "done"}, NEW k \in Nat
    PROVE  LET n == IF k \in DOMAIN KindCounts(stored) THEN KindCounts(stored)[k] ELSE 0
           IN  /\ n \in Nat
               /\ Cardinality(OfKind(k, always.events)) <= n
               /\ n <= Cardinality(OfKind(k, ever))
<1>1. /\ ever \in SUBSET Event /\ stored \in SUBSET ever /\ always.events \in SUBSET stored
      /\ stored \in SUBSET Event
  BY DEF TypeOK, HistoryKept
<1>2. /\ Cardinality(OfKind(k, always.events)) <= Cardinality(OfKind(k, stored))
      /\ Cardinality(OfKind(k, stored)) <= Cardinality(OfKind(k, ever))
      /\ Cardinality(OfKind(k, stored)) \in Nat /\ Cardinality(OfKind(k, ever)) \in Nat
  BY <1>1, OfKindGrows
<1>3. /\ DOMAIN KindCounts(stored) = {Kind[e] : e \in stored}
      /\ k \in DOMAIN KindCounts(stored) => KindCounts(stored)[k] = Cardinality(OfKind(k, stored))
  BY DEF KindCounts, OfKind
<1>4. k \notin DOMAIN KindCounts(stored) => Cardinality(OfKind(k, stored)) = 0
  <2>1. k \notin DOMAIN KindCounts(stored) => OfKind(k, stored) = {}
    BY <1>3 DEF OfKind
  <2> QED
    BY <2>1, FS_EmptySet
<1> QED
  BY <1>2, <1>3, <1>4

\* The profiles of one moment: of each place that is there, one.
LEMMA OneProfile ==
    ASSUME TypeOK, HistoryKept, pc \notin {"idle", "done"},
           NEW x \in always.places, x[2] = 0
    PROVE  \E g \in OfKind(0, stored) : ProfilesOf(x[1], OfKind(0, stored)) = {g}
<1>1. PICK g \in stored : IsReplaceable(g) /\ x = <<Author[g], Kind[g]>>
  BY DEF HistoryKept, PlacesOf
<1>2. g \in OfKind(0, stored) /\ g \in ProfilesOf(x[1], OfKind(0, stored))
  BY <1>1 DEF OfKind, ProfilesOf
<1>3. \A e \in ProfilesOf(x[1], OfKind(0, stored)) : e = g
  BY <1>1 DEF OfKind, ProfilesOf, HistoryKept, OnePerSlot, SameSlot
<1> QED
  BY <1>2, <1>3

LEMMA ReadReported ==
    ASSUME TypeOK, HistoryKept, Reported, ReadList
    PROVE  Reported'
<1>1. pc \in Lists /\ UNCHANGED <<always, ever, stored>>
  BY DEF ReadList, Read, Lists, history
<1>2. /\ always.events \subseteq stored /\ stored \subseteq ever /\ pc \notin {"idle", "done"}
      /\ DOMAIN report = {"authors", "counts", "events"}
  BY <1>1 DEF HistoryKept, Lists, Reported
<1>3. \A k : OfKind(k, always.events) \subseteq OfKind(k, stored) /\ OfKind(k, stored) \subseteq ever
  BY <1>2 DEF OfKind
<1>4. CASE Read("authors", "counts", [report EXCEPT !.authors = UniqueAuthors(stored)])
  <2>1. pc' = "counts" /\ DOMAIN report' = DOMAIN report /\ report'.authors = UniqueAuthors(stored)
    BY <1>2, <1>4 DEF Read
  <2>2. UniqueAuthors(always.events) \subseteq report'.authors /\ report'.authors \subseteq UniqueAuthors(ever)
    BY <1>2, <2>1 DEF UniqueAuthors
  <2> QED
    BY <1>1, <1>2, <2>1, <2>2 DEF Reported
<1>5. CASE Read("counts", "kind0", [report EXCEPT !.counts = KindCounts(stored)])
  <2>1. /\ pc = "counts" /\ pc' = "kind0" /\ DOMAIN report' = DOMAIN report
        /\ report'.authors = report.authors /\ report'.counts = KindCounts(stored)
    BY <1>2, <1>5 DEF Read
  <2>2. UniqueAuthors(always.events) \subseteq report'.authors /\ report'.authors \subseteq UniqueAuthors(ever)
    BY <2>1 DEF Reported
  <2>3. \A k : CountOf(k)' = IF k \in DOMAIN KindCounts(stored) THEN KindCounts(stored)[k] ELSE 0
    BY <2>1 DEF CountOf
  <2>4. \A k \in Nat : /\ CountOf(k)' \in Nat
                       /\ Cardinality(OfKind(k, always.events)) <= CountOf(k)'
                       /\ CountOf(k)' <= Cardinality(OfKind(k, ever))
    BY <1>2, <2>3, CountsBetween
  <2> QED
    BY <1>1, <1>2, <2>1, <2>2, <2>4 DEF Reported
<1>6. ASSUME pc \in {"kind0", "kind1", "kind5"}, pc' \in {"kind1", "kind5", "report"},
             NEW E, report' = [report EXCEPT !.events = E]
      PROVE  /\ DOMAIN report' = DOMAIN report /\ report'.events = E
             /\ UniqueAuthors(always.events) \subseteq report'.authors
             /\ report'.authors \subseteq UniqueAuthors(ever)
             /\ \A j \in Nat : /\ CountOf(j)' \in Nat
                               /\ Cardinality(OfKind(j, always.events)) <= CountOf(j)'
                               /\ CountOf(j)' <= Cardinality(OfKind(j, ever))
  <2>1. /\ DOMAIN report' = DOMAIN report /\ report'.events = E
        /\ report'.authors = report.authors /\ report'.counts = report.counts
    BY <1>2, <1>6
  <2>2. \A j : CountOf(j)' = CountOf(j)
    BY <2>1 DEF CountOf
  <2> QED
    BY <1>6, <2>1, <2>2 DEF Reported
<1>7. CASE Read("kind0", "kind1", [report EXCEPT !.events = OfKind(0, stored)])
  <2>1. pc = "kind0" /\ pc' = "kind1" /\ report' = [report EXCEPT !.events = OfKind(0, stored)]
    BY <1>7 DEF Read
  <2>2. \A x \in always.places : x[2] = 0 =>
           \E g \in OfKind(0, stored) : {e \in OfKind(0, stored) : Author[e] = x[1] /\ Kind[e] = 0} = {g}
    BY <1>2, OneProfile DEF ProfilesOf
  <2> QED
    BY <1>1, <1>2, <1>3, <1>6, <2>1, <2>2 DEF Reported
<1>8. ASSUME NEW k \in {1, 5}, pc \in {"kind1", "kind5"}, pc' \in {"kind5", "report"},
             report' = [report EXCEPT !.events = @ \union OfKind(k, stored)]
      PROVE  /\ report'.events = report.events \union OfKind(k, stored)
             /\ report'.events \subseteq ever
             /\ OfKind(0, always.events) \subseteq report'.events
             /\ \A x \in always.places : x[2] = 0 =>
                   \E g \in report'.events :
                      {e \in report'.events : Author[e] = x[1] /\ Kind[e] = 0} = {g}
  <2>1. report'.events = report.events \union OfKind(k, stored)
    BY <1>6, <1>8
  <2>2. \A e \in OfKind(k, stored) : Kind[e] # 0
    BY <1>8 DEF OfKind
  <2>3. \A x : {e \in report'.events : Author[e] = x[1] /\ Kind[e] = 0}
                 = {e \in report.events : Author[e] = x[1] /\ Kind[e] = 0}
    BY <2>1, <2>2
  <2> QED
    BY <1>3, <1>8, <2>1, <2>3 DEF Reported
<1>9. CASE Read("kind1", "kind5", [report EXCEPT !.events = @ \union OfKind(1, stored)])
  <2>1. pc = "kind1" /\ pc' = "kind5" /\ report' = [report EXCEPT !.events = @ \union OfKind(1, stored)]
    BY <1>9 DEF Read
  <2>2. OfKind(1, always.events) \subseteq report'.events
    BY <1>3, <1>8, <2>1
  <2> QED
    BY <1>1, <1>2, <1>6, <1>8, <2>1, <2>2 DEF Reported
<1>10. CASE Read("kind5", "report", [report EXCEPT !.events = @ \union OfKind(5, stored)])
  <2>1. pc = "kind5" /\ pc' = "report" /\ report' = [report EXCEPT !.events = @ \union OfKind(5, stored)]
    BY <1>10 DEF Read
  <2>2. OfKind(5, always.events) \subseteq report'.events /\ OfKind(1, always.events) \subseteq report'.events
    BY <1>3, <1>8, <2>1 DEF Reported
  <2> QED
    BY <1>1, <1>2, <1>6, <1>8, <2>1, <2>2 DEF Reported
<1> QED
  BY <1>4, <1>5, <1>7, <1>9, <1>10 DEF ReadList

LEMMA NextReported ==
    ASSUME TypeOK, TypeOK', HistoryKept, Reported, [Next]_vars
    PROVE  Reported'
<1>1. CASE ReadList
  BY <1>1, ReadReported
<1>2. CASE ~ ReadList
  <2>1. /\ report' = report
        /\ pc' = pc \/ pc' \notin {"counts", "kind0", "kind1", "kind5", "report"}
    BY <1>2 DEF Next, Request, BeginQuery, NextRange, Entry, EndQuery, QueryFails, Eose, BeginReport,
                EndReport, Change, Tick, vars
  <2>2. CASE pc = "idle"
    <3>1. pc' \notin {"counts", "kind0", "kind1", "kind5", "report"}
      BY <2>1, <2>2
    <3> QED
      BY <2>1, <3>1 DEF Reported
  <2>3. CASE Onwards
    BY <2>1, <2>3, ReportStays
  <2> QED
    BY <2>2, <2>3, HistorySteps
<1> QED
  BY <1>1, <1>2

-----------------------------------------------------------------------------
(* The theorems *)

LEMMA InitInvariant == Init => IInv
<1> SUFFICES ASSUME Init
             PROVE  IInv
  OBVIOUS
<1>1. TypeOK
  BY InitType
<1>2. /\ pc = "idle" /\ answers = <<>> /\ OnePerSlot(stored) /\ report = NoReport
  BY DEF Init
<1>3. HistoryKept /\ Answered /\ Scanning
  BY <1>2 DEF HistoryKept, Answered, Scanning
<1>4. Reported
  BY <1>2 DEF Reported, NoReport
<1> QED
  BY <1>1, <1>3, <1>4 DEF IInv

LEMMA NextType ==
    ASSUME IInv, [Next]_vars
    PROVE  TypeOK'
<1>1. CASE \/ \E r \in Requests : Request(r)
           \/ BeginQuery \/ NextRange \/ EndQuery \/ QueryFails \/ Eose
  BY <1>1, QueryType DEF IInv
<1>2. CASE \/ \E e \in left : Entry(e)
           \/ BeginReport \/ ReadList \/ EndReport \/ Change \/ Tick
           \/ UNCHANGED vars
  BY <1>2, OtherType DEF IInv
<1> QED
  BY <1>1, <1>2 DEF Next

LEMMA NextInvariant == IInv /\ [Next]_vars => IInv'
<1> SUFFICES ASSUME IInv, [Next]_vars
             PROVE  IInv'
  OBVIOUS
<1>1. TypeOK'
  BY NextType
<1>2. HistoryKept' /\ Answered' /\ Scanning' /\ Reported'
  BY <1>1, NextHistory, NextAnswered, NextScanning, NextReported DEF IInv
<1> QED
  BY <1>1, <1>2 DEF IInv

\* The inductive invariant: a query sees one state and has returned what it came
\* across there, and every list of the report that is read is between what is
\* there all the time and what is there at some time.
THEOREM ReadsInvariant == Spec => []IInv
BY InitInvariant, NextInvariant, PTL DEF Spec

\* The variables have their types.
THEOREM ReadsTypes == Spec => []TypeOK
<1>1. IInv => TypeOK
  BY DEF IInv
<1> QED
  BY <1>1, ReadsInvariant, PTL

\* handle_req: whatever index Db::query reads, an answer has only what its filter
\* asks for and what was there, each event once, and no more than the limit.
THEOREM OnlyWhatIsAskedFor == Spec => []AnswersSound
<1>1. IInv => AnswersSound
  BY DEF IInv, Answered, Sound, AnswersSound
<1> QED
  BY <1>1, ReadsInvariant, PTL

\* handle_req: an event that is there all the time and that the filter asks for
\* is in the answer of a query that did not fail, unless the limit was reached.
THEOREM AllThatIsAskedFor == Spec => []AnswersComplete
<1>1. IInv => AnswersComplete
  BY DEF IInv, Answered, Complete, AnswersComplete
<1> QED
  BY <1>1, ReadsInvariant, PTL

\* Db::query reads each range from its newest event on: what the limit cuts off
\* is older than what is returned of the same author, kind and tags.
THEOREM NewestFirst == Spec => []NewestOfAKind
<1>1. IInv => NewestOfAKind
  BY DEF IInv, Answered, Newest, NewestOfAKind
<1> QED
  BY <1>1, ReadsInvariant, PTL

\* Db::query reads all its ranges in one transaction: an answer never has two
\* versions of a replaceable event.
THEOREM NoTwoVersions == Spec => []OneVersion
<1>1. IInv => OneVersion
  BY DEF IInv, Answered, OneVersion
<1> QED
  BY <1>1, ReadsInvariant, PTL

\* A profile that is replaced while it is read, by a REQ or for the report of
\* handle_snapshot, is there in one version.
THEOREM ProfilesSeen == Spec => []PlacesSeen
<1>1. IInv => PlacesSeen
  <2> SUFFICES ASSUME IInv
               PROVE  PlacesSeen
    OBVIOUS
  <2>1. \A i \in DOMAIN answers \ failed : Placed(req[i], answers[i], always.places, ever)
    BY DEF IInv, Answered
  <2>2. ASSUME pc = "report", NEW x \in always.places, x[2] = 0
        PROVE  Cardinality({e \in report.events : Author[e] = x[1] /\ Kind[e] = 0}) = 1
    BY <2>2, FS_Singleton DEF IInv, Reported
  <2> QED
    BY <2>1, <2>2 DEF PlacesSeen, Placed
<1> QED
  BY <1>1, ReadsInvariant, PTL

\* handle_snapshot reads list after list, each in a transaction of its own: none
\* of them leaves out what is there all the time, or has what was never there.
THEOREM ReportFair == Spec => []ReportBracketed
<1>1. IInv => ReportBracketed
  <2> SUFFICES ASSUME IInv, pc = "report"
               PROVE  ReportBracketed
    BY DEF ReportBracketed
  <2>1. /\ UniqueAuthors(always.events) \subseteq report.authors
        /\ report.authors \subseteq UniqueAuthors(ever)
    BY DEF IInv, Reported
  <2>2. \A k \in {Kind[e] : e \in ever} \union DOMAIN report.counts : k \in Nat
    <3>1. ever \subseteq Event /\ DOMAIN report.counts \subseteq Nat
      BY DEF IInv, TypeOK
    <3>2. \A e \in Event : Kind[e] \in Nat
      BY EventAssumption
    <3> QED
      BY ONLY <3>1, <3>2
  <2>3. \A k \in Nat : /\ Cardinality(OfKind(k, always.events)) <= CountOf(k)
                       /\ CountOf(k) <= Cardinality(OfKind(k, ever))
    BY DEF IInv, Reported
  <2>4. \A k \in {0, 1, 5} : OfKind(k, always.events) \subseteq report.events
    BY DEF IInv, Reported
  <2>5. \A k : OfKind(k, report.events) \subseteq ever
    BY DEF IInv, Reported, OfKind
  <2> QED
    BY <2>1, <2>2, <2>3, <2>4, <2>5 DEF ReportBracketed, CountOf
<1> QED
  BY <1>1, ReadsInvariant, PTL
=============================================================================
