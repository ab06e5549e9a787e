---------------------------- MODULE NostrLemmas ----------------------------
(***************************************************************************)
(* Facts about the order of events within a replaceable place, about what  *)
(* a set of events covers, and about Resolve.  The proofs about the        *)
(* database and about the write path both rest on them.                    *)
(***************************************************************************)
EXTENDS Nostr, TLAPS

\* Beats is a strict order of events, and total: of two events one wins.
LEMMA BeatsOrder ==
    /\ \A e \in Event : ~ Beats(e, e)
    /\ \A e, f, g \in Event : Beats(e, f) /\ Beats(f, g) => Beats(e, g)
    /\ \A e, f \in Event : e = f \/ Beats(e, f) \/ Beats(f, e)
<1>1. /\ Event \subseteq Nat
      /\ \A e \in Event : CreatedAt[e] \in Nat
  BY EventAssumption
<1> QED
  BY <1>1, SMT DEF Beats

\* An event and a competitor for its place are replaceable together.
LEMMA SlotFacts ==
    /\ \A e \in Event : SameSlot(e, e)
    /\ \A e, f \in Event : SameSlot(e, f) => SameSlot(f, e)
    /\ \A e, f, g \in Event : SameSlot(e, f) /\ SameSlot(f, g) => SameSlot(e, g)
    /\ \A e, f \in Event : SameSlot(e, f) => (IsReplaceable(e) <=> IsReplaceable(f))
<1>1. \A e, f \in Event : SameSlot(e, f) => (IsReplaceable(e) <=> IsReplaceable(f))
  <2> SUFFICES ASSUME NEW e \in Event, NEW f \in Event, Kind[e] = Kind[f]
               PROVE  IsReplaceable(e) <=> IsReplaceable(f)
    BY DEF SameSlot
  <2> QED
    BY EventAssumption DEF IsReplaceable
<1> QED
  BY <1>1, Zenon DEF SameSlot

\* What is covered by some events is covered by more of them.
LEMMA CoveredMonotone ==
    ASSUME NEW S, NEW W, W \subseteq S, NEW e, Covered(e, W)
    PROVE  Covered(e, S)
  BY DEF Covered

\* What is covered by events that are themselves covered is covered.
LEMMA CoveredTransitive ==
    ASSUME NEW S \in SUBSET Event, NEW W \in SUBSET Event,
           \A f \in S : Covered(f, W),
           NEW e \in Event, Covered(e, S)
    PROVE  Covered(e, W)
<1>1. CASE e \in S
  BY <1>1
<1>2. CASE e \notin S
  <2>1. PICK f \in S : IsReplaceable(e) /\ SameSlot(f, e) /\ Beats(f, e)
    BY <1>2 DEF Covered
  <2>2. CASE f \in W
    BY <2>1, <2>2 DEF Covered
  <2>3. CASE f \notin W
    <3>1. PICK g \in W : SameSlot(g, f) /\ Beats(g, f)
      BY <2>3 DEF Covered
    <3>2. SameSlot(g, e)
      BY <2>1, <3>1, SlotFacts
    <3>3. Beats(g, e)
      BY <2>1, <3>1, BeatsOrder
    <3> QED
      BY <2>1, <3>2, <3>3 DEF Covered
  <2> QED
    BY <2>2, <2>3
<1> QED
  BY <1>1, <1>2

\* A set of events taken from S, with one event for each place, that covers
\* all of S can only be Resolve(S).
LEMMA ResolveUnique ==
    ASSUME NEW S \in SUBSET Event, NEW W \in SUBSET S,
           OnePerSlot(W),
           \A f \in S : Covered(f, W)
    PROVE  W = Resolve(S)
<1>1. ASSUME NEW e \in W
      PROVE  e \in Resolve(S)
  <2> SUFFICES ASSUME IsReplaceable(e),
                      NEW f \in S, SameSlot(f, e), Beats(f, e)
               PROVE  FALSE
    BY DEF Resolve
  <2>1. PICK g \in W : SameSlot(g, e) /\ Beats(g, e)
    <3>1. CASE f \in W
      BY <3>1
    <3>2. CASE f \notin W
      <4>1. PICK g \in W : SameSlot(g, f) /\ Beats(g, f)
        BY <3>2 DEF Covered
      <4> QED
        BY <4>1, SlotFacts, BeatsOrder
    <3> QED
      BY <3>1, <3>2
  <2>2. g = e
    BY <2>1, SlotFacts DEF OnePerSlot
  <2> QED
    BY <2>1, <2>2, BeatsOrder
<1>2. ASSUME NEW e \in Resolve(S)
      PROVE  e \in W
  BY DEF Resolve, Covered
<1> QED
  BY <1>1, <1>2

\* Resolve of a set that already has one event for each place changes nothing.
LEMMA ResolveFixed ==
    ASSUME NEW S \in SUBSET Event, OnePerSlot(S)
    PROVE  Resolve(S) = S
  BY ResolveUnique DEF Covered

\* An event of a well-formed set that e does not lose to, and is not e, loses
\* to e: when e is written over the events of its place, what those covered
\* is still covered, and there is again one event for each place.
LEMMA Replace ==
    ASSUME NEW W \in SUBSET Event, OnePerSlot(W),
           NEW e \in Event, ~ Covered(e, W),
           NEW V \in SUBSET Event,
           IF IsReplaceable(e)
             THEN V = {f \in W : ~ SameSlot(f, e)} \union {e}
             ELSE V = W \union {e}
    PROVE  /\ OnePerSlot(V)
           /\ \A f \in W : Covered(f, V)
           /\ Covered(e, V)
<1>1. Covered(e, V)
  BY DEF Covered
<1>2. OnePerSlot(V)
  BY SlotFacts DEF OnePerSlot
<1>3. ASSUME NEW f \in W
      PROVE  Covered(f, V)
  <2>1. CASE f \in V
    BY <2>1 DEF Covered
  <2>2. CASE f \notin V
    <3>1. IsReplaceable(e) /\ SameSlot(f, e)
      BY <2>2
    <3>2. Beats(e, f)
      BY <3>1, BeatsOrder DEF Covered
    <3> QED
      BY <3>1, <3>2, SlotFacts DEF Covered
  <2> QED
    BY <2>1, <2>2
<1> QED
  BY <1>1, <1>2, <1>3
=============================================================================
