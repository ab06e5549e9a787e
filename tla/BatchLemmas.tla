---------------------------- MODULE BatchLemmas ----------------------------
(***************************************************************************)
(* What BatchRule amounts to, for batches of any length: of every event    *)
(* that is offered the batch keeps that event or a better one, it keeps    *)
(* one entry for each event and one event for each place, and written      *)
(* next to the committed events this leaves every offered event covered.   *)
(***************************************************************************)
EXTENDS BatchRule, NostrLemmas, FunctionTheorems, FiniteSetTheorems, SequenceTheorems

\* Some messages: events in the order in which they are to be written.
IsBatch(G) ==
    /\ DOMAIN G \in SUBSET Nat
    /\ IsFiniteSet(DOMAIN G)
    /\ \A m \in DOMAIN G : G[m].events \in Seq(Event)

-----------------------------------------------------------------------------
(* Least and best elements *)

\* A set of natural numbers has a least one.
LEMMA LeastNumber ==
    ASSUME NEW T \in SUBSET Nat, T # {}
    PROVE  \E n \in T : \A k \in T : n <= k
<1> DEFINE Below(n) == {k \in T : k < n}
           R == StrictSubsetOrdering(T)
           F == {Below(n) : n \in T}
<1>0. \A k \in T : k \in Nat
  OBVIOUS
<1>1. ASSUME NEW n \in T
      PROVE  Below(n) \in FiniteSubsetsOf(T)
  <2>1. n \in Nat
    BY <1>0
  <2>2. Below(n) \subseteq Nat
    BY <1>0
  <2>3. \A k \in Below(n) : k <= n
    BY <1>0
  <2>4. IsFiniteSet(Below(n))
    <3> HIDE DEF Below
    <3> QED
      BY <2>1, <2>2, <2>3, FS_BoundedSetOfNaturals
  <2> QED
    BY <2>4 DEF FiniteSubsetsOf
<1>2. PICK B \in F : \A A \in F : <<A, B>> \notin R
  <2>1. IsWellFoundedOn(R, FiniteSubsetsOf(T))
    BY FS_StrictSubsetOrderingWellFounded
  <2>2. F # {} /\ F \subseteq FiniteSubsetsOf(T)
    BY <1>1
  <2> HIDE DEF F, R
  <2> QED
    BY <2>1, <2>2, WFMin
<1>3. PICK n \in T : B = Below(n)
  BY <1>2
<1>4. ASSUME NEW k \in T, k < n
      PROVE  FALSE
  <2>1. Below(k) \subseteq Below(n)
    <3> SUFFICES ASSUME NEW j \in T, j < k
                 PROVE  j < n
      OBVIOUS
    <3>1. j \in Nat /\ k \in Nat /\ n \in Nat
      BY <1>0
    <3> QED
      BY <1>4, <3>1
  <2>2. k \in Below(n) /\ k \notin Below(k)
    BY <1>0, <1>4
  <2>3. <<Below(k), Below(n)>> \in R
    BY <2>1, <2>2 DEF StrictSubsetOrdering
  <2> QED
    BY <1>2, <1>3, <2>3
<1> QED
  BY <1>0, <1>4

\* Of finitely many events one is not beaten by another.
LEMMA BestEvent ==
    ASSUME NEW T \in SUBSET Event, IsFiniteSet(T), T # {}
    PROVE  \E e \in T : \A f \in T : ~ Beats(f, e)
<1> DEFINE Better(e) == {f \in T : Beats(f, e)}
           R == StrictSubsetOrdering(T)
           F == {Better(e) : e \in T}
<1>1. F \subseteq FiniteSubsetsOf(T)
  BY FS_Subset DEF FiniteSubsetsOf
<1>2. PICK B \in F : \A A \in F : <<A, B>> \notin R
  <2>1. IsWellFoundedOn(R, FiniteSubsetsOf(T))
    BY FS_StrictSubsetOrderingWellFounded
  <2>2. F # {}
    OBVIOUS
  <2> HIDE DEF F, R
  <2> QED
    BY <1>1, <2>1, <2>2, WFMin
<1>3. PICK e \in T : B = Better(e)
  BY <1>2
<1>4. ASSUME NEW f \in T, Beats(f, e)
      PROVE  FALSE
  <2>1. Better(f) \subseteq Better(e)
    BY <1>4, BeatsOrder
  <2>2. f \in Better(e) /\ f \notin Better(f)
    BY <1>4, BeatsOrder
  <2>3. <<Better(f), Better(e)>> \in R
    BY <2>1, <2>2 DEF StrictSubsetOrdering
  <2> QED
    BY <1>2, <1>3, <2>3
<1> QED
  BY <1>4

-----------------------------------------------------------------------------
(* The entries of a batch *)

\* An entry is a message of the batch and a position in it.
LEMMA EntryFacts ==
    ASSUME NEW G, IsBatch(G)
    PROVE  /\ \A x \in Entries(G) :
                 /\ x = <<x[1], x[2]>>
                 /\ x[1] \in DOMAIN G /\ x[1] \in Nat
                 /\ x[2] \in DOMAIN G[x[1]].events /\ x[2] \in Nat
                 /\ Ev(G, x) \in Event
           /\ \A m \in DOMAIN G : \A k \in DOMAIN G[m].events :
                 <<m, k>> \in Entries(G) /\ Ev(G, <<m, k>>) = G[m].events[k]
<1>1. \A m \in DOMAIN G : \A k \in DOMAIN G[m].events :
         <<m, k>> \in Entries(G) /\ Ev(G, <<m, k>>) = G[m].events[k]
  BY DEF Entries, Ev
<1>2. ASSUME NEW x \in Entries(G)
      PROVE  /\ x = <<x[1], x[2]>>
             /\ x[1] \in DOMAIN G /\ x[1] \in Nat
             /\ x[2] \in DOMAIN G[x[1]].events /\ x[2] \in Nat
             /\ Ev(G, x) \in Event
  <2>1. PICK m \in DOMAIN G : \E k \in DOMAIN G[m].events : x = <<m, k>>
    BY DEF Entries
  <2>2. PICK k \in DOMAIN G[m].events : x = <<m, k>>
    BY <2>1
  <2>3. G[m].events \in Seq(Event) /\ m \in Nat
    BY DEF IsBatch
  <2>4. k \in Nat /\ G[m].events[k] \in Event
    BY <2>3, LenProperties, ElementOfSeq
  <2> QED
    BY <2>2, <2>3, <2>4 DEF Ev
<1> QED
  BY <1>1, <1>2

\* A batch offers finitely many events.
LEMMA FiniteOffers ==
    ASSUME NEW G, IsBatch(G)
    PROVE  IsFiniteSet({Ev(G, x) : x \in Entries(G)})
<1> DEFINE OfMessage(m) == {G[m].events[k] : k \in DOMAIN G[m].events}
           Family == {OfMessage(m) : m \in DOMAIN G}
           f == [m \in DOMAIN G |-> OfMessage(m)]
<1>1. ASSUME NEW m \in DOMAIN G
      PROVE  IsFiniteSet(OfMessage(m))
  <2> DEFINE s == G[m].events
  <2>1. s \in Seq(Event)
    BY DEF IsBatch
  <2> HIDE DEF s
  <2>2. Len(s) \in Nat /\ DOMAIN s = 1..Len(s) /\ s \in [1..Len(s) -> Event]
    BY <2>1, LenProperties
  <2> DEFINE T == {s[k] : k \in DOMAIN s}
  <2>3. s \in [1..Len(s) -> T]
    BY <2>2
  <2>4. \A t \in T : \E k \in 1..Len(s) : s[k] = t
    BY <2>2
  <2>5. s \in Surjection(1..Len(s), T)
    <3> HIDE DEF T
    <3> QED
      BY <2>3, <2>4, Fun_IsSurj
  <2>6. IsFiniteSet(1..Len(s))
    BY <2>2, FS_Interval
  <2>7. IsFiniteSet(T)
    <3> HIDE DEF T
    <3> QED
      BY <2>5, <2>6, FS_Surjection
  <2> QED
    BY <2>7 DEF s
<1>2. IsFiniteSet(Family)
  <2>1. f \in [DOMAIN G -> Family] /\ \A t \in Family : \E m \in DOMAIN G : f[m] = t
    OBVIOUS
  <2>2. IsFiniteSet(DOMAIN G)
    BY DEF IsBatch
  <2> HIDE DEF f, Family
  <2> QED
    BY <2>1, <2>2, Fun_IsSurj, FS_Surjection
<1>3. IsFiniteSet(UNION Family)
  <2>1. \A T \in Family : IsFiniteSet(T)
    BY <1>1
  <2> HIDE DEF Family
  <2> QED
    BY <1>2, <2>1, FS_UNION
<1>4. {Ev(G, x) : x \in Entries(G)} \subseteq UNION Family
  <2> SUFFICES ASSUME NEW x \in Entries(G)
               PROVE  Ev(G, x) \in UNION Family
    OBVIOUS
  <2> QED
    BY EntryFacts DEF Ev
<1> QED
  <2> HIDE DEF Family
  <2> QED
    BY <1>3, <1>4, FS_Subset

\* Of the entries of one event there is a first.
LEMMA FirstEntry ==
    ASSUME NEW G, IsBatch(G), NEW x \in Entries(G)
    PROVE  \E y \in Entries(G) :
              /\ Ev(G, y) = Ev(G, x)
              /\ \A z \in Entries(G) : ~ (Earlier(z, y) /\ Ev(G, z) = Ev(G, x))
<1> DEFINE T == {y \in Entries(G) : Ev(G, y) = Ev(G, x)}
           M == {y[1] : y \in T}
<1>1. M \in SUBSET Nat /\ M # {}
  BY EntryFacts
<1>2. PICK m \in M : \A j \in M : m <= j
  <2> HIDE DEF M
  <2> QED
    BY <1>1, LeastNumber
<1> DEFINE K == {y[2] : y \in {z \in T : z[1] = m}}
<1>3. K \in SUBSET Nat /\ K # {}
  BY <1>2, EntryFacts
<1>4. PICK k \in K : \A j \in K : k <= j
  <2> HIDE DEF K
  <2> QED
    BY <1>3, LeastNumber
<1>5. PICK y \in T : y[1] = m /\ y[2] = k
  BY <1>4
<1>6. ASSUME NEW z \in T, Earlier(z, y)
      PROVE  FALSE
  <2>1. z[1] \in M /\ z[1] \in Nat /\ z[2] \in Nat /\ y[1] \in Nat /\ y[2] \in Nat
    BY EntryFacts
  <2>2. m <= z[1]
    BY <1>2, <2>1
  <2>3. z[1] = m /\ z[2] < k
    BY <1>5, <1>6, <2>1, <2>2 DEF Earlier
  <2>4. z[2] \in K
    BY <2>3
  <2>5. k <= z[2]
    BY <1>4, <2>4
  <2> QED
    BY <1>5, <2>1, <2>3, <2>5
<1> QED
  BY <1>5, <1>6

-----------------------------------------------------------------------------
(* The kept events *)

\* What a batch keeps are events it offers.
LEMMA KeptType ==
    ASSUME NEW G, IsBatch(G)
    PROVE  KeptEvents(G) \in SUBSET Event
  BY EntryFacts DEF KeptEvents

\* Of every event that is offered the batch keeps that event, or a better one
\* of its place.
LEMMA KeptCovers ==
    ASSUME NEW G, IsBatch(G), NEW x \in Entries(G)
    PROVE  Covered(Ev(G, x), KeptEvents(G))
<1> DEFINE e == Ev(G, x)
           Rivals == {Ev(G, y) : y \in {z \in Entries(G) : SameSlot(Ev(G, z), e)}}
<1>1. e \in Event /\ e \in Rivals
  BY EntryFacts, SlotFacts
<1>2. CASE ~ IsReplaceable(e)
  <2>1. PICK y \in Entries(G) :
           Ev(G, y) = e /\ \A z \in Entries(G) : ~ (Earlier(z, y) /\ Ev(G, z) = e)
    BY FirstEntry
  <2>2. IsKept(G, y)
    BY <1>2, <2>1 DEF IsKept
  <2> QED
    BY <2>1, <2>2 DEF KeptEvents, Covered
<1>3. CASE IsReplaceable(e)
  <2>1. Rivals \subseteq {Ev(G, y) : y \in Entries(G)} /\ Rivals \in SUBSET Event
    BY EntryFacts
  <2>2. PICK f \in Rivals : \A g \in Rivals : ~ Beats(g, f)
    <3>1. IsFiniteSet({Ev(G, y) : y \in Entries(G)})
      BY FiniteOffers
    <3> HIDE DEF Rivals
    <3>2. IsFiniteSet(Rivals)
      BY <2>1, <3>1, FS_Subset
    <3> QED
      BY <1>1, <2>1, <3>2, BestEvent
  <2>3. PICK w \in Entries(G) : Ev(G, w) = f /\ SameSlot(f, e)
    BY <2>2
  <2>4. PICK y \in Entries(G) :
           Ev(G, y) = f /\ \A z \in Entries(G) : ~ (Earlier(z, y) /\ Ev(G, z) = f)
    BY <2>3, FirstEntry
  <2>5. f \in Event
    BY <2>1
  <2>6. ASSUME NEW z \in Entries(G), SameSlot(Ev(G, z), f)
        PROVE  ~ Beats(Ev(G, z), f)
    <3>1. SameSlot(Ev(G, z), e)
      BY <1>1, <2>3, <2>5, <2>6, EntryFacts, SlotFacts
    <3> QED
      BY <2>2, <3>1
  <2>7. IsKept(G, y)
    BY <2>4, <2>6 DEF IsKept
  <2>8. f \in KeptEvents(G)
    BY <2>4, <2>7 DEF KeptEvents
  <2>9. f = e \/ Beats(f, e)
    BY <1>1, <2>2, <2>5, BeatsOrder
  <2> QED
    BY <1>3, <2>3, <2>8, <2>9 DEF Covered
<1> QED
  BY <1>2, <1>3

\* It keeps one event for each place.
LEMMA KeptOnePerSlot ==
    ASSUME NEW G, IsBatch(G)
    PROVE  OnePerSlot(KeptEvents(G))
<1> SUFFICES ASSUME NEW e \in KeptEvents(G), NEW f \in KeptEvents(G),
                    IsReplaceable(e), SameSlot(e, f)
             PROVE  e = f
  BY DEF OnePerSlot
<1>1. e \in Event /\ f \in Event
  BY KeptType
<1>2. PICK x \in Entries(G) : IsKept(G, x) /\ Ev(G, x) = e
  BY DEF KeptEvents
<1>3. PICK y \in Entries(G) : IsKept(G, y) /\ Ev(G, y) = f
  BY DEF KeptEvents
<1>4. ~ Beats(f, e) /\ ~ Beats(e, f)
  BY <1>1, <1>2, <1>3, SlotFacts DEF IsKept
<1> QED
  BY <1>1, <1>4, BeatsOrder

\* And one entry for each event.
LEMMA KeptOnce ==
    ASSUME NEW G, IsBatch(G), NEW x \in Entries(G), NEW y \in Entries(G),
           IsKept(G, x), IsKept(G, y), Ev(G, x) = Ev(G, y)
    PROVE  x = y
<1>1. x = <<x[1], x[2]>> /\ y = <<y[1], y[2]>>
  BY EntryFacts
<1>2. x[1] \in Nat /\ x[2] \in Nat /\ y[1] \in Nat /\ y[2] \in Nat
  BY EntryFacts
<1>3. ~ Earlier(x, y) /\ ~ Earlier(y, x)
  BY DEF IsKept
<1>4. x[1] = y[1] /\ x[2] = y[2]
  BY <1>2, <1>3 DEF Earlier
<1> QED
  BY <1>1, <1>4

-----------------------------------------------------------------------------
(* What a round leaves in the database *)

\* Two sets with one event for each place, put together: the best of each place
\* is there, and covers the rest.
LEMMA ResolveTwo ==
    ASSUME NEW S \in SUBSET Event, OnePerSlot(S),
           NEW W \in SUBSET Event, OnePerSlot(W)
    PROVE  /\ Resolve(S \union W) \in SUBSET Event
           /\ OnePerSlot(Resolve(S \union W))
           /\ \A e \in S \union W : Covered(e, Resolve(S \union W))
<1> DEFINE R == Resolve(S \union W)
<1>1. R \in SUBSET Event
  BY DEF Resolve
<1>2. OnePerSlot(R)
  <2> SUFFICES ASSUME NEW e \in R, NEW f \in R, IsReplaceable(e), SameSlot(e, f)
               PROVE  e = f
    BY DEF OnePerSlot
  <2>1. e \in Event /\ f \in Event /\ e \in S \union W /\ f \in S \union W
    BY DEF Resolve
  <2>2. ~ Beats(f, e) /\ ~ Beats(e, f)
    BY <2>1, SlotFacts DEF Resolve
  <2> QED
    BY <2>1, <2>2, BeatsOrder
<1>3. ASSUME NEW e \in S \union W, e \notin R
      PROVE  Covered(e, R)
  <2>1. IsReplaceable(e) /\ \E f \in S \union W : SameSlot(f, e) /\ Beats(f, e)
    BY <1>3 DEF Resolve
  <2>2. PICK f \in S \union W : SameSlot(f, e) /\ Beats(f, e)
    BY <2>1
  <2>3. ASSUME NEW g \in S \union W, SameSlot(g, f), Beats(g, f)
        PROVE  FALSE
    <3>1. e \in Event /\ f \in Event /\ g \in Event
      OBVIOUS
    <3>2. IsReplaceable(f) /\ IsReplaceable(g) /\ SameSlot(g, e) /\ SameSlot(f, e)
      BY <2>1, <2>2, <2>3, <3>1, SlotFacts
    <3>3. Beats(g, e) /\ e # f /\ e # g /\ f # g
      BY <2>2, <2>3, <3>1, BeatsOrder
    <3>4. \A A \in {S, W} : ~ (e \in A /\ f \in A) /\ ~ (e \in A /\ g \in A) /\ ~ (f \in A /\ g \in A)
      BY <2>3, <3>1, <3>2, <3>3, SlotFacts DEF OnePerSlot
    <3> QED
      BY <3>4
  <2>4. f \in R
    BY <2>3 DEF Resolve
  <2> QED
    BY <2>1, <2>2, <2>4 DEF Covered
<1> QED
  BY <1>1, <1>2, <1>3 DEF Covered

\* After a round there is one event for each place, and what was there and what
\* was offered is covered.
LEMMA RoundCovers ==
    ASSUME NEW S \in SUBSET Event, OnePerSlot(S), NEW G, IsBatch(G)
    PROVE  LET T == Resolve(S \union KeptEvents(G))
           IN  /\ T \in SUBSET Event
               /\ OnePerSlot(T)
               /\ \A e \in S : Covered(e, T)
               /\ \A x \in Entries(G) : Covered(Ev(G, x), T)
<1> DEFINE T == Resolve(S \union KeptEvents(G))
<1>1. /\ T \in SUBSET Event
      /\ OnePerSlot(T)
      /\ \A e \in S \union KeptEvents(G) : Covered(e, T)
  BY KeptType, KeptOnePerSlot, ResolveTwo
<1>2. ASSUME NEW x \in Entries(G)
      PROVE  Covered(Ev(G, x), T)
  <2>1. Covered(Ev(G, x), KeptEvents(G)) /\ Ev(G, x) \in Event
    BY KeptCovers, EntryFacts
  <2> HIDE DEF T
  <2> QED
    BY <1>1, <2>1, KeptType, CoveredTransitive
<1> QED
  BY <1>1, <1>2

\* What a round adds was answered "stored", for an entry of its own.
LEMMA AddedIsStored ==
    ASSUME NEW S, NEW G, NEW e \in Resolve(S \union KeptEvents(G)), e \notin S
    PROVE  \E x \in Entries(G) : Ev(G, x) = e /\ Outcome(S, G, x) = "stored"
<1>1. PICK x \in Entries(G) : IsKept(G, x) /\ Ev(G, x) = e
  BY DEF Resolve, KeptEvents
<1>2. ~ Covered(e, S)
  BY DEF Resolve, Covered
<1> QED
  BY <1>1, <1>2 DEF Outcome

LEMMA StoredOnce ==
    ASSUME NEW S, NEW G, IsBatch(G), NEW x \in Entries(G), NEW y \in Entries(G),
           Outcome(S, G, x) = "stored", Outcome(S, G, y) = "stored",
           Ev(G, x) = Ev(G, y)
    PROVE  x = y
  BY KeptOnce DEF Outcome

\* What is answered "stored" has been stored.
LEMMA StoredIsThere ==
    ASSUME NEW S, NEW G, NEW x \in Entries(G), Outcome(S, G, x) = "stored"
    PROVE  Ev(G, x) \in Resolve(S \union KeptEvents(G))
<1> DEFINE e == Ev(G, x)
<1>1. IsKept(G, x) /\ ~ Covered(e, S)
  BY DEF Outcome
<1>2. e \in KeptEvents(G)
  BY <1>1 DEF KeptEvents
<1>3. ASSUME IsReplaceable(e), NEW f \in S \union KeptEvents(G)
      PROVE  ~ (SameSlot(f, e) /\ Beats(f, e))
  <2>1. CASE f \in S
    BY <1>1, <1>3, <2>1 DEF Covered
  <2>2. CASE f \in KeptEvents(G)
    BY <1>1, <1>3, <2>2 DEF KeptEvents, IsKept
  <2> QED
    BY <2>1, <2>2
<1> HIDE DEF e
<1> QED
  BY <1>2, <1>3 DEF Resolve, e

\* What was stored was not covered before.
LEMMA StoredIsNew ==
    ASSUME NEW S, NEW G, NEW x \in Entries(G), Outcome(S, G, x) = "stored"
    PROVE  ~ Covered(Ev(G, x), S)
  BY DEF Outcome

\* What is covered by two sets together is covered by one of them.
LEMMA CoveredSplits ==
    ASSUME NEW S, NEW W, NEW e, Covered(e, S \union W)
    PROVE  Covered(e, S) \/ Covered(e, W)
  BY DEF Covered
=============================================================================
