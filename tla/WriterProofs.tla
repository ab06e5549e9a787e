---------------------------- MODULE WriterProofs ----------------------------
(***************************************************************************)
(* Proofs about Writer, for batches of any size: the loops keep the        *)
(* entries, the marks, the outcomes and the response channels lined up, so *)
(* that a round writes what BatchRule keeps, answers what BatchRule says,  *)
(* and does what WriterRound promises.                                     *)
(***************************************************************************)
EXTENDS Writer, BatchLemmas

-----------------------------------------------------------------------------
(* The invariant *)

\* The entry at j is the one that BatchRule calls a[j]: the entries are in the
\* order of their names, and each knows where its result goes.
Layout(a, E, G, S) ==
    /\ a \in [1..Len(E) -> Entries(G)]
    /\ \A x \in Entries(G) : \E j \in 1..Len(E) : a[j] = x
    /\ \A j, k \in 1..Len(E) : j < k => Earlier(a[j], a[k])
    /\ \A j \in 1..Len(E) :
          /\ E[j].event = Ev(G, a[j])
          /\ E[j].single <=> Len(G[a[j][1]].events) = 1
          /\ E[j].single => E[j].to = a[j][1]
          /\ ~ E[j].single => E[j].to \in DOMAIN S /\ S[E[j].to] = a[j][1]

\* Every message of more than one event has a slot of its own.
OneSlotEach(G, S) ==
    /\ \A s \in DOMAIN S : S[s] \in DOMAIN G /\ Len(G[S[s]].events) # 1
    /\ \A s, r \in DOMAIN S : S[s] = S[r] => s = r
    /\ \A m \in DOMAIN G : Len(G[m].events) # 1 => \E s \in DOMAIN S : S[s] = m

LinedUp == (\E a : Layout(a, entries, msgs, slots)) /\ OneSlotEach(msgs, slots)

\* The name that BatchRule has for each entry.
At == CHOOSE a : Layout(a, entries, msgs, slots)

\* An earlier entry has the same event.
Dup(E, j) == \E k \in 1..(j - 1) : E[k].event = E[j].event

\* One of the first n entries has a better event for the place.
Beaten(E, j, n) ==
    /\ IsReplaceable(E[j].event)
    /\ \E k \in 1..n : SameSlot(E[k].event, E[j].event) /\ Beats(E[k].event, E[j].event)

\* What is not in use yet is empty.
Fresh ==
    /\ OnePerSlot(stored)
    /\ pc = "gather" => skip = <<>> /\ seen = {}
    /\ pc \in {"gather", "dedup"} => best = {}
    /\ pc \in {"gather", "dedup", "resolve", "write"} =>
          results = <<>> /\ settled = <<>> /\ \A m \in DOMAIN msgs : sent[m] = <<>>
    /\ Len(sent) = Len(msgs)
    /\ pc # "gather" => N > 0 /\ Len(skip) = N

Deduping == pc = "dedup" =>
    /\ i \in 1..(N + 1)
    /\ seen = {entries[j].event : j \in 1..(i - 1)}
    /\ \A j \in 1..N : skip[j] <=> j < i /\ Dup(entries, j)

Resolving == pc = "resolve" =>
    /\ i \in 1..(N + 1)
    /\ \A j \in 1..N : skip[j] <=> Dup(entries, j) \/ (j < i /\ Beaten(entries, j, i - 1))
    /\ best = {j \in 1..(i - 1) : ~ skip[j] /\ IsReplaceable(entries[j].event)}

Resolved == pc \in {"write", "results"} =>
    \A j \in 1..N : skip[j] <=> Dup(entries, j) \/ Beaten(entries, j, N)

\* The transaction is over, and what it did is settled.
Decided == pc \in {"results", "errors", "distribute", "sent"} =>
    \/ /\ pc # "errors"
       /\ OnePerSlot(before)
       /\ stored = Resolve(before \union KeptEvents(msgs))
       /\ settled = Verdicts(before, msgs)
    \/ /\ pc # "results"
       /\ stored = before
       /\ settled = Failures(msgs)

\* How many of the entries from a to b are not skipped.
Count(sk, a, b) == Cardinality({k \in a..b : ~ sk[k]})

\* The outcomes that are left are those of the entries that are left.
Outcomes == pc = "results" =>
    \A j \in i..N : ~ skip[j] =>
        /\ Count(skip, i, j) \in DOMAIN outcomes
        /\ outcomes[Count(skip, i, j)] <=> ~ Covered(entries[j].event, before)

Resulting == pc \in {"results", "errors"} =>
    /\ i \in 1..(N + 1)
    /\ Len(results) = i - 1
    /\ \A j \in 1..(i - 1) : results[j] = settled[At[j][1]][At[j][2]]

Distributing == pc = "distribute" =>
    /\ i \in 1..(N + 1)
    /\ Len(results) = N
    /\ \A j \in 1..N : results[j] = settled[At[j][1]][At[j][2]]
    /\ Len(byslot) = Len(slots)
    /\ \A s \in DOMAIN slots :
          /\ Len(byslot[s]) <= Len(msgs[slots[s]].events)
          /\ \A j \in 1..N : At[j][1] = slots[s] =>
                /\ j < i <=> At[j][2] <= Len(byslot[s])
                /\ j < i => byslot[s][At[j][2]] = results[j]
    /\ \A j \in 1..(i - 1) : entries[j].single => sent[At[j][1]] = <<results[j]>>

IInv ==
    /\ TypeOK
    /\ LinedUp
    /\ Fresh
    /\ Deduping
    /\ Resolving
    /\ Resolved
    /\ Decided
    /\ Outcomes
    /\ Resulting
    /\ Distributing
    /\ ResultsRouted

-----------------------------------------------------------------------------
(* Entries and their names *)

Entry == [event : Event, single : BOOLEAN, to : Nat]

LEMMA BatchOf ==
    ASSUME NEW G \in Seq([events : Messages])
    PROVE  /\ IsBatch(G)
           /\ Len(G) \in Nat /\ DOMAIN G = 1..Len(G)
           /\ \A m \in DOMAIN G : /\ G[m].events \in Messages
                                  /\ G[m].events \in Seq(Event)
                                  /\ Len(G[m].events) \in Nat \ {0}
                                  /\ DOMAIN G[m].events = 1..Len(G[m].events)
<1>1. Len(G) \in Nat /\ DOMAIN G = 1..Len(G)
  BY LenProperties
<1>2. ASSUME NEW m \in DOMAIN G
      PROVE  /\ G[m].events \in Messages
             /\ G[m].events \in Seq(Event)
             /\ Len(G[m].events) \in Nat \ {0}
             /\ DOMAIN G[m].events = 1..Len(G[m].events)
  <2>1. G[m] \in [events : Messages]
    BY <1>1, ElementOfSeq
  <2>2. G[m].events \in Messages /\ G[m].events \in Seq(Event) /\ G[m].events # <<>>
    BY <2>1, WriterAssumption
  <2> QED
    BY <2>2, LenProperties, EmptySeq
<1>3. IsFiniteSet(DOMAIN G) /\ DOMAIN G \in SUBSET Nat
  BY <1>1, FS_Interval
<1> QED
  BY <1>1, <1>2, <1>3 DEF IsBatch

LEMMA EntriesOf ==
    ASSUME NEW E \in Seq(Entry)
    PROVE  /\ Len(E) \in Nat /\ DOMAIN E = 1..Len(E)
           /\ \A j \in 1..Len(E) : E[j].event \in Event /\ E[j].single \in BOOLEAN /\ E[j].to \in Nat
<1>1. Len(E) \in Nat /\ DOMAIN E = 1..Len(E) /\ \A j \in 1..Len(E) : E[j] \in Entry
  BY LenProperties, ElementOfSeq
<1> QED
  BY <1>1 DEF Entry

LEMMA Names ==
    ASSUME NEW G
    PROVE  /\ \A m, k : <<m, k>> \in Entries(G) <=> m \in DOMAIN G /\ k \in DOMAIN G[m].events
           /\ \A x \in Entries(G) : x = <<x[1], x[2]>>
BY DEF Entries

\* The entries are in the order of their names, and no name is given twice.
LEMMA LayoutOrder ==
    ASSUME NEW E \in Seq(Entry), NEW G \in Seq([events : Messages]), NEW S, NEW a, Layout(a, E, G, S),
           NEW j \in 1..Len(E), NEW k \in 1..Len(E)
    PROVE  /\ a[j] \in Entries(G)
           /\ a[j] = <<a[j][1], a[j][2]>>
           /\ a[j][1] \in DOMAIN G /\ a[j][1] \in Nat
           /\ a[j][2] \in DOMAIN G[a[j][1]].events /\ a[j][2] \in Nat
           /\ j < k <=> Earlier(a[j], a[k])
           /\ j = k <=> a[j] = a[k]
<1>1. Len(E) \in Nat /\ j \in Nat /\ k \in Nat
  BY EntriesOf
<1>2. a[j] \in Entries(G) /\ a[k] \in Entries(G)
  BY DEF Layout
<1>3. /\ a[j] = <<a[j][1], a[j][2]>> /\ a[j][1] \in DOMAIN G /\ a[j][2] \in DOMAIN G[a[j][1]].events
      /\ a[j][1] \in Nat /\ a[j][2] \in Nat /\ a[k][1] \in Nat /\ a[k][2] \in Nat
  BY <1>2, BatchOf, EntryFacts
<1>4. /\ j < k => Earlier(a[j], a[k])
      /\ k < j => Earlier(a[k], a[j])
  BY DEF Layout
<1>5. /\ ~ (Earlier(a[j], a[k]) /\ Earlier(a[k], a[j]))
      /\ a[j] = a[k] => ~ Earlier(a[j], a[k]) /\ ~ Earlier(a[k], a[j])
  BY <1>3 DEF Earlier
<1> QED
  BY <1>1, <1>2, <1>3, <1>4, <1>5

\* What Gather does to the messages, the slots and the entries.
WithMessage(G, es) == Append(G, [events |-> es])

WithSlot(G, S, es) == IF Len(es) = 1 THEN S ELSE Append(S, Len(G) + 1)

Joined(E, F) == E \o F

\* A message more.
LEMMA MoreNames ==
    ASSUME NEW G \in Seq([events : Messages]), NEW es \in Messages
    PROVE  /\ Len(G) + 1 \in Nat /\ Len(G) + 1 \notin DOMAIN G
           /\ \A m \in DOMAIN G : m < Len(G) + 1
           /\ DOMAIN WithMessage(G, es) = DOMAIN G \union {Len(G) + 1}
           /\ \A m \in DOMAIN G : WithMessage(G, es)[m].events = G[m].events
           /\ WithMessage(G, es)[Len(G) + 1].events = es
           /\ \A x \in Entries(G) : /\ x \in Entries(WithMessage(G, es))
                                    /\ x[1] \in DOMAIN G
                                    /\ Ev(WithMessage(G, es), x) = Ev(G, x)
           /\ \A k \in 1..Len(es) : /\ <<Len(G) + 1, k>> \in Entries(WithMessage(G, es))
                                    /\ Ev(WithMessage(G, es), <<Len(G) + 1, k>>) = es[k]
           /\ \A x \in Entries(WithMessage(G, es)) :
                 \/ x \in Entries(G)
                 \/ \E k \in 1..Len(es) : x = <<Len(G) + 1, k>>
<1> DEFINE H == WithMessage(G, es)
<1>1. Len(G) \in Nat /\ DOMAIN G = 1..Len(G)
  BY BatchOf
<1>2. DOMAIN es = 1..Len(es)
  BY WriterAssumption, LenProperties
<1>3. /\ DOMAIN H = 1..(Len(G) + 1)
      /\ \A m \in DOMAIN G : H[m].events = G[m].events
      /\ H[Len(G) + 1].events = es
  BY <1>1, AppendProperties DEF WithMessage
<1> HIDE DEF H
<1>4. /\ DOMAIN H = DOMAIN G \union {Len(G) + 1}
      /\ Len(G) + 1 \notin DOMAIN G /\ Len(G) + 1 \in Nat
      /\ \A m \in DOMAIN G : m < Len(G) + 1
  BY <1>1, <1>3
<1>5. \A x \in Entries(G) : x = <<x[1], x[2]>> /\ x[1] \in DOMAIN G /\ x[2] \in DOMAIN G[x[1]].events
  BY Names
<1>6. \A x \in Entries(H) : x = <<x[1], x[2]>> /\ x[1] \in DOMAIN H /\ x[2] \in DOMAIN H[x[1]].events
  BY ONLY Names
<1>7. ASSUME NEW x \in Entries(G)
      PROVE  x \in Entries(H) /\ x[1] \in DOMAIN G /\ Ev(H, x) = Ev(G, x)
  <2>1. x[1] \in DOMAIN H /\ H[x[1]].events = G[x[1]].events
    BY <1>3, <1>4, <1>5
  <2>2. <<x[1], x[2]>> \in Entries(H)
    BY <2>1, <1>5, Names
  <2> QED
    BY <2>1, <2>2, <1>5 DEF Ev
<1>8. ASSUME NEW k \in 1..Len(es)
      PROVE  <<Len(G) + 1, k>> \in Entries(H) /\ Ev(H, <<Len(G) + 1, k>>) = es[k]
  <2>1. <<Len(G) + 1, k>> \in Entries(H)
    BY <1>2, <1>3, <1>4, Names
  <2> QED
    BY <2>1, <1>3 DEF Ev
<1>9. ASSUME NEW x \in Entries(H)
      PROVE  \/ x \in Entries(G)
             \/ \E k \in 1..Len(es) : x = <<Len(G) + 1, k>>
  <2>1. CASE x[1] \in DOMAIN G
    <3>1. <<x[1], x[2]>> \in Entries(G)
      BY <2>1, <1>3, <1>6, Names
    <3> QED
      BY <3>1, <1>6
  <2>2. CASE x[1] = Len(G) + 1
    BY <2>2, <1>2, <1>3, <1>6
  <2> QED
    BY <2>1, <2>2, <1>4, <1>6
<1> QED
  BY <1>3, <1>4, <1>7, <1>8, <1>9 DEF H

\* A slot more, for a message of more than one event.
LEMMA MoreSlots ==
    ASSUME NEW S \in Seq(Nat), NEW M \in Nat,
           NEW T, T = Append(S, M)
    PROVE  /\ DOMAIN S = 1..Len(S) /\ Len(S) \in Nat
           /\ DOMAIN T = DOMAIN S \union {Len(S) + 1}
           /\ \A s \in DOMAIN S : T[s] = S[s]
           /\ T[Len(S) + 1] = M
<1>1. DOMAIN S = 1..Len(S) /\ Len(S) \in Nat
  BY LenProperties
<1>2. /\ T \in Seq(Nat) /\ Len(T) = Len(S) + 1 /\ T[Len(S) + 1] = M
      /\ \A s \in 1..Len(S) : T[s] = S[s]
  BY AppendProperties
<1>3. DOMAIN T = 1..(Len(S) + 1)
  BY <1>2, LenProperties
<1> QED
  BY <1>1, <1>2, <1>3

LEMMA SlotsGrow ==
    ASSUME NEW G \in Seq([events : Messages]), NEW S \in Seq(Nat), OneSlotEach(G, S),
           NEW es \in Messages
    PROVE  OneSlotEach(WithMessage(G, es), WithSlot(G, S, es))
<1> DEFINE H == WithMessage(G, es)
           T == WithSlot(G, S, es)
           M == Len(G) + 1
<1>1. /\ M \in Nat /\ DOMAIN H = DOMAIN G \union {M} /\ M \notin DOMAIN G
      /\ \A m \in DOMAIN G : H[m].events = G[m].events
      /\ H[M].events = es
  <2>1. Len(G) + 1 \in Nat
    BY MoreNames
  <2>2. Len(G) + 1 \notin DOMAIN G
    BY MoreNames
  <2>3. DOMAIN H = DOMAIN G \union {Len(G) + 1}
    BY MoreNames
  <2>4. WithMessage(G, es)[Len(G) + 1].events = es
    BY MoreNames
  <2>5. \A m \in DOMAIN G : WithMessage(G, es)[m].events = G[m].events
    BY MoreNames
  <2> QED
    BY <2>1, <2>2, <2>3, <2>4, <2>5
<1> HIDE DEF H, M
<1> SUFFICES OneSlotEach(H, T)
  BY DEF H
<1>2. CASE Len(es) = 1
  BY <1>1, <1>2 DEF OneSlotEach, WithSlot
<1>3. CASE Len(es) # 1
  <2>1. /\ DOMAIN T = DOMAIN S \union {Len(S) + 1}
        /\ \A s \in DOMAIN S : T[s] = S[s]
        /\ T[Len(S) + 1] = M
    BY <1>1, <1>3, MoreSlots DEF M, WithSlot
  <2> HIDE DEF T
  <2>2. \A s \in DOMAIN S : T[s] \in DOMAIN G /\ T[s] # M /\ Len(H[T[s]].events) # 1
    BY <1>1, <2>1 DEF OneSlotEach
  <2>3. \A s \in DOMAIN T : T[s] \in DOMAIN H /\ Len(H[T[s]].events) # 1
    BY <1>1, <1>3, <2>1, <2>2
  <2>4. \A s, r \in DOMAIN T : T[s] = T[r] => s = r
    BY <2>1, <2>2 DEF OneSlotEach
  <2>5. \A m \in DOMAIN H : Len(H[m].events) # 1 => \E s \in DOMAIN T : T[s] = m
    BY <1>1, <2>1 DEF OneSlotEach
  <2> QED
    BY <2>3, <2>4, <2>5 DEF OneSlotEach
<1> QED
  BY <1>2, <1>3

\* Two sequences, one after the other.
LEMMA JoinedEntries ==
    ASSUME NEW E \in Seq(Entry), NEW F \in Seq(Entry)
    PROVE  LET D == Joined(E, F)
           IN  /\ D \in Seq(Entry) /\ Len(D) = Len(E) + Len(F)
               /\ \A j \in 1..Len(E) : j \in 1..Len(D) /\ D[j] = E[j]
               /\ \A k \in 1..Len(F) : Len(E) + k \in 1..Len(D) /\ D[Len(E) + k] = F[k]
               /\ \A j \in 1..Len(D) : \/ j \in 1..Len(E)
                                       \/ \E k \in 1..Len(F) : j = Len(E) + k
<1> DEFINE D == Joined(E, F)
<1>0. ASSUME NEW j \in 1..Len(E)
      PROVE  j \in 1..(Len(E) + Len(F)) /\ j <= Len(E)
  BY LenProperties
<1>1. Len(E) \in Nat /\ Len(F) \in Nat
  BY LenProperties
<1>2. /\ D \in Seq(Entry) /\ Len(D) = Len(E) + Len(F)
      /\ \A j \in 1..(Len(E) + Len(F)) : D[j] = IF j <= Len(E) THEN E[j] ELSE F[j - Len(E)]
  BY ConcatProperties DEF Joined
<1> HIDE DEF D
<1>3. ASSUME NEW k \in 1..Len(F)
      PROVE  Len(E) + k \in 1..Len(D) /\ D[Len(E) + k] = F[k]
  <2>1. /\ Len(E) + k \in 1..(Len(E) + Len(F)) /\ ~ (Len(E) + k <= Len(E))
        /\ (Len(E) + k) - Len(E) = k
    BY <1>1
  <2> QED
    BY <1>2, <2>1
<1>4. ASSUME NEW j \in 1..Len(D), j \notin 1..Len(E)
      PROVE  \E k \in 1..Len(F) : j = Len(E) + k
  <2>1. j - Len(E) \in 1..Len(F) /\ j = Len(E) + (j - Len(E))
    BY <1>1, <1>2, <1>4
  <2> QED
    BY <2>1
<1>5. \A j \in 1..Len(E) : j \in 1..Len(D) /\ D[j] = E[j]
  BY <1>0, <1>2
<1> QED
  BY ONLY <1>2, <1>3, <1>4, <1>5 DEF D

\* The entries of one more message come after the others.
LEMMA LayoutGrows ==
    ASSUME NEW E \in Seq(Entry), NEW G \in Seq([events : Messages]), NEW S \in Seq(Nat),
           NEW a, Layout(a, E, G, S),
           NEW es \in Messages,
           NEW F \in Seq(Entry), Len(F) = Len(es),
           \A k \in 1..Len(es) : /\ F[k].event = es[k]
                                 /\ F[k].single <=> Len(es) = 1
                                 /\ F[k].to = IF Len(es) = 1 THEN Len(G) + 1 ELSE Len(S) + 1
    PROVE  \E b : Layout(b, Joined(E, F), WithMessage(G, es), WithSlot(G, S, es))
<1> DEFINE D == Joined(E, F)
           H == WithMessage(G, es)
           T == WithSlot(G, S, es)
           n == Len(E)
           M == Len(G) + 1
           L == Len(es)
           b == [j \in 1..Len(D) |-> IF j \in 1..n THEN a[j] ELSE <<M, j - n>>]
<1>1. n \in Nat /\ L \in Nat /\ M \in Nat
  BY EntriesOf, BatchOf
<1>2. /\ Len(D) = n + L
      /\ \A j \in 1..n : j \in 1..Len(D) /\ D[j] = E[j]
      /\ \A k \in 1..L : n + k \in 1..Len(D) /\ D[n + k] = F[k]
      /\ \A j \in 1..Len(D) : \/ j \in 1..n
                              \/ \E k \in 1..L : j = n + k
  BY JoinedEntries
<1>3. /\ DOMAIN H = DOMAIN G \union {M}
      /\ \A m \in DOMAIN G : H[m].events = G[m].events /\ m < M
      /\ H[M].events = es
      /\ \A x \in Entries(G) : x \in Entries(H) /\ x[1] \in DOMAIN G /\ Ev(H, x) = Ev(G, x)
      /\ \A k \in 1..L : <<M, k>> \in Entries(H) /\ Ev(H, <<M, k>>) = es[k]
      /\ \A x \in Entries(H) : \/ x \in Entries(G)
                               \/ \E k \in 1..L : x = <<M, k>>
  <2>0. G \in Seq([events : Messages]) /\ es \in Messages
    OBVIOUS
  <2>1. \A m \in DOMAIN G : m < M
    BY ONLY <2>0, MoreNames
  <2>2. DOMAIN H = DOMAIN G \union {M} /\ H[M].events = es
    BY ONLY <2>0, MoreNames
  <2>3. \A m \in DOMAIN G : H[m].events = G[m].events
    BY ONLY <2>0, MoreNames
  <2>4. \A x \in Entries(G) : x \in Entries(H) /\ x[1] \in DOMAIN G /\ Ev(H, x) = Ev(G, x)
    <3>1. \A x \in Entries(G) : x \in Entries(H)
      BY ONLY <2>0, MoreNames
    <3>2. \A x \in Entries(G) : x[1] \in DOMAIN G
      BY ONLY <2>0, MoreNames
    <3> HIDE DEF H
    <3>3. \A x \in Entries(G) : Ev(H, x) = Ev(G, x)
      BY ONLY <2>3, <3>2 DEF Ev
    <3> QED
      BY <3>1, <3>2, <3>3
  <2>5. \A k \in 1..L : <<M, k>> \in Entries(H) /\ Ev(H, <<M, k>>) = es[k]
    BY ONLY <2>0, MoreNames
  <2>6. \A x \in Entries(H) : \/ x \in Entries(G)
                              \/ \E k \in 1..L : x = <<M, k>>
    BY ONLY <2>0, MoreNames
  <2> HIDE DEF H, M, L
  <2> QED
    BY <2>1, <2>2, <2>3, <2>4, <2>5, <2>6
<1>4. /\ \A s \in DOMAIN S : s \in DOMAIN T /\ T[s] = S[s]
      /\ L # 1 => Len(S) + 1 \in DOMAIN T /\ T[Len(S) + 1] = M
  <2>1. CASE L = 1
    BY <2>1 DEF WithSlot
  <2>2. CASE L # 1
    BY <2>2, <1>1, MoreSlots DEF WithSlot
  <2> QED
    BY <2>1, <2>2
<1>5. /\ \A j \in 1..n : b[j] = a[j]
      /\ \A k \in 1..L : b[n + k] = <<M, k>>
  <2>1. \A k \in 1..L : n + k \in 1..Len(D) /\ n + k \notin 1..n /\ (n + k) - n = k
    BY <1>1, <1>2
  <2> QED
    BY <1>2, <2>1
<1>6. \A j \in 1..n : /\ a[j] \in Entries(G)
                      /\ E[j].event = Ev(G, a[j])
                      /\ E[j].single <=> Len(G[a[j][1]].events) = 1
                      /\ E[j].single => E[j].to = a[j][1]
                      /\ ~ E[j].single => E[j].to \in DOMAIN S /\ S[E[j].to] = a[j][1]
  BY DEF Layout
<1>7. /\ \A x \in Entries(G) : \E j \in 1..n : a[j] = x
      /\ \A j, k \in 1..n : j < k => Earlier(a[j], a[k])
  BY DEF Layout
<1>8. \A k \in 1..L : /\ F[k].event = es[k]
                      /\ F[k].single <=> L = 1
                      /\ F[k].to = IF L = 1 THEN M ELSE Len(S) + 1
  OBVIOUS
<1>9. DOMAIN b = 1..Len(D)
  OBVIOUS
<1> HIDE DEF n, M, L, b, D, H, T
<1>10. \A j \in 1..Len(D) : b[j] \in Entries(H)
  <2>1. \A j \in 1..n : b[j] \in Entries(H)
    BY ONLY <1>3, <1>5, <1>6
  <2>2. \A k \in 1..L : b[n + k] \in Entries(H)
    BY ONLY <1>3, <1>5
  <2> QED
    BY ONLY <1>2, <2>1, <2>2
<1>11. b \in [1..Len(D) -> Entries(H)]
  BY <1>9, <1>10 DEF b
<1>12. ASSUME NEW x \in Entries(H)
       PROVE  \E j \in 1..Len(D) : b[j] = x
  <2>1. CASE x \in Entries(G)
    BY ONLY <2>1, <1>2, <1>5, <1>7
  <2>2. CASE \E k \in 1..L : x = <<M, k>>
    BY ONLY <2>2, <1>2, <1>5
  <2> QED
    BY ONLY <2>1, <2>2, <1>3, <1>12
<1>13. ASSUME NEW j \in 1..Len(D), NEW k \in 1..Len(D), j < k
       PROVE  Earlier(b[j], b[k])
  <2>1. CASE j \in 1..n /\ k \in 1..n
    BY <1>13, <2>1, <1>5, <1>7
  <2>2. ASSUME NEW l \in 1..L, k = n + l, j \in 1..n
        PROVE  Earlier(b[j], b[k])
    <3>1. b[j] = a[j] /\ b[k] = <<M, l>> /\ a[j][1] \in DOMAIN G
      BY <2>2, <1>3, <1>5, <1>6
    <3>2. a[j][1] < M
      BY <3>1, <1>3
    <3> QED
      BY <3>1, <3>2 DEF Earlier
  <2>3. ASSUME NEW l \in 1..L, j = n + l, NEW h \in 1..L, k = n + h
        PROVE  Earlier(b[j], b[k])
    <3>1. l < h
      BY <1>1, <1>13, <2>3
    <3>2. b[j] = <<M, l>> /\ b[k] = <<M, h>>
      BY <2>3, <1>5
    <3> QED
      BY <3>1, <3>2 DEF Earlier
  <2>4. ASSUME NEW l \in 1..L, j = n + l, k \in 1..n
        PROVE  FALSE
    BY <1>1, <1>13, <2>4
  <2> QED
    BY <2>1, <2>2, <2>3, <2>4, <1>2
<1>14. ASSUME NEW j \in 1..Len(D)
       PROVE  /\ D[j].event = Ev(H, b[j])
              /\ D[j].single <=> Len(H[b[j][1]].events) = 1
              /\ D[j].single => D[j].to = b[j][1]
              /\ ~ D[j].single => D[j].to \in DOMAIN T /\ T[D[j].to] = b[j][1]
  <2>1. CASE j \in 1..n
    <3>1. D[j] = E[j] /\ b[j] = a[j] /\ a[j] \in Entries(G)
      BY <2>1, <1>2, <1>5, <1>6
    <3>2. H[a[j][1]].events = G[a[j][1]].events /\ Ev(H, a[j]) = Ev(G, a[j])
      BY <3>1, <1>3
    <3> QED
      <4>1. /\ E[j].event = Ev(G, a[j])
            /\ E[j].single <=> Len(G[a[j][1]].events) = 1
            /\ E[j].single => E[j].to = a[j][1]
            /\ ~ E[j].single => E[j].to \in DOMAIN S /\ S[E[j].to] = a[j][1]
        BY ONLY <2>1, <1>6
      <4>2. ~ E[j].single => E[j].to \in DOMAIN T /\ T[E[j].to] = a[j][1]
        BY ONLY <4>1, <1>4
      <4> QED
        BY ONLY <3>1, <3>2, <4>1, <4>2
  <2>2. ASSUME NEW k \in 1..L, j = n + k
        PROVE  /\ D[j].event = Ev(H, b[j])
               /\ D[j].single <=> Len(H[b[j][1]].events) = 1
               /\ D[j].single => D[j].to = b[j][1]
               /\ ~ D[j].single => D[j].to \in DOMAIN T /\ T[D[j].to] = b[j][1]
    <3>1. D[j] = F[k] /\ b[j] = <<M, k>> /\ b[j][1] = M
      BY <2>2, <1>2, <1>5
    <3>2. Ev(H, b[j]) = es[k] /\ Len(H[b[j][1]].events) = L
      BY <3>1, <1>3 DEF L
    <3>3. /\ F[k].event = es[k] /\ (F[k].single <=> L = 1)
          /\ L = 1 => F[k].to = M
          /\ L # 1 => F[k].to = Len(S) + 1
      BY ONLY <1>8, k \in 1..L
    <3> QED
      BY ONLY <3>1, <3>2, <3>3, <1>4
  <2> QED
    BY ONLY <2>1, <2>2, <1>2, <1>14
<1>15. Layout(b, D, H, T)
  BY <1>11, <1>12, <1>13, <1>14 DEF Layout
<1> QED
  BY <1>15 DEF D, H, T

\* BatchRule keeps the entries that are neither copies nor beaten.
LEMMA KeptEntries ==
    ASSUME NEW E \in Seq(Entry), NEW G \in Seq([events : Messages]), NEW S, NEW a, Layout(a, E, G, S),
           NEW j \in 1..Len(E)
    PROVE  IsKept(G, a[j]) <=> ~ Dup(E, j) /\ ~ Beaten(E, j, Len(E))
<1>1. /\ \A k \in 1..Len(E) : a[k] \in Entries(G) /\ E[k].event = Ev(G, a[k])
      /\ \A y \in Entries(G) : \E k \in 1..Len(E) : a[k] = y
  BY DEF Layout
<1>2. \A k \in 1..Len(E) : k < j <=> Earlier(a[k], a[j])
  BY LayoutOrder
<1>3. Dup(E, j) <=> \E k \in 1..Len(E) : k < j /\ E[k].event = E[j].event
  <2>1. \A k : k \in 1..(j - 1) <=> k \in 1..Len(E) /\ k < j
    BY EntriesOf
  <2> QED
    BY ONLY <2>1 DEF Dup
<1>4. Dup(E, j) <=> \E y \in Entries(G) : Earlier(y, a[j]) /\ Ev(G, y) = Ev(G, a[j])
  BY ONLY <1>1, <1>2, <1>3, j \in 1..Len(E)
<1>5. Beaten(E, j, Len(E)) <=>
        /\ IsReplaceable(Ev(G, a[j]))
        /\ \E y \in Entries(G) : SameSlot(Ev(G, y), Ev(G, a[j])) /\ Beats(Ev(G, y), Ev(G, a[j]))
  <2>1. Beaten(E, j, Len(E)) <=>
          /\ IsReplaceable(E[j].event)
          /\ \E k \in 1..Len(E) : SameSlot(E[k].event, E[j].event) /\ Beats(E[k].event, E[j].event)
    BY ONLY DEF Beaten
  <2>2. E[j].event = Ev(G, a[j])
    BY ONLY <1>1, j \in 1..Len(E)
  <2>3. (\E k \in 1..Len(E) : SameSlot(E[k].event, E[j].event) /\ Beats(E[k].event, E[j].event))
          <=> \E y \in Entries(G) : SameSlot(Ev(G, y), E[j].event) /\ Beats(Ev(G, y), E[j].event)
    BY ONLY <1>1
  <2> QED
    BY ONLY <2>1, <2>2, <2>3
<1> QED
  BY ONLY <1>4, <1>5 DEF IsKept

LEMMA AtLayout ==
    ASSUME LinedUp
    PROVE  Layout(At, entries, msgs, slots)
BY DEF LinedUp, At

LEMMA AtStays ==
    ASSUME UNCHANGED <<entries, msgs, slots>>
    PROVE  /\ At' = At
           /\ LinedUp => LinedUp'
BY DEF At, LinedUp

\* What the layout says of the names of the entries.
LEMMA AtFacts ==
    ASSUME TypeOK, LinedUp
    PROVE  /\ N \in Nat
           /\ \A j \in 1..N :
                 /\ At[j] \in Entries(msgs)
                 /\ At[j] = <<At[j][1], At[j][2]>>
                 /\ At[j][1] \in DOMAIN msgs /\ At[j][1] \in Nat
                 /\ At[j][2] \in DOMAIN msgs[At[j][1]].events /\ At[j][2] \in Nat
                 /\ entries[j].event = Ev(msgs, At[j])
                 /\ entries[j].single <=> Len(msgs[At[j][1]].events) = 1
                 /\ entries[j].single => entries[j].to = At[j][1]
                 /\ ~ entries[j].single => entries[j].to \in DOMAIN slots
                                           /\ slots[entries[j].to] = At[j][1]
           /\ \A j, k \in 1..N : j < k <=> Earlier(At[j], At[k])
           /\ \A j, k \in 1..N : At[j] = At[k] => j = k
           /\ \A x \in Entries(msgs) : \E j \in 1..N : At[j] = x
<1>1. Layout(At, entries, msgs, slots)
  BY AtLayout
<1>2. entries \in Seq(Entry) /\ msgs \in Seq([events : Messages])
  BY DEF TypeOK, Entry
<1>3. N = Len(entries) /\ N \in Nat
  BY <1>2, EntriesOf DEF N
<1>4. /\ \A x \in Entries(msgs) : \E j \in 1..N : At[j] = x
      /\ \A j \in 1..N :
                 /\ entries[j].event = Ev(msgs, At[j])
                 /\ entries[j].single <=> Len(msgs[At[j][1]].events) = 1
                 /\ entries[j].single => entries[j].to = At[j][1]
                 /\ ~ entries[j].single => entries[j].to \in DOMAIN slots
                                           /\ slots[entries[j].to] = At[j][1]
  BY ONLY <1>1, <1>3 DEF Layout
<1>5. ASSUME NEW a, Layout(a, entries, msgs, slots), NEW j \in 1..N, NEW k \in 1..N
      PROVE  /\ a[j] \in Entries(msgs)
             /\ a[j] = <<a[j][1], a[j][2]>>
             /\ a[j][1] \in DOMAIN msgs /\ a[j][1] \in Nat
             /\ a[j][2] \in DOMAIN msgs[a[j][1]].events /\ a[j][2] \in Nat
             /\ j < k <=> Earlier(a[j], a[k])
  <2>1. Layout(a, entries, msgs, slots) /\ j \in 1..Len(entries) /\ k \in 1..Len(entries)
    BY <1>3, <1>5
  <2>2. a[j] \in Entries(msgs)
    BY ONLY <1>2, <2>1, LayoutOrder
  <2>3. a[j] = <<a[j][1], a[j][2]>>
    BY ONLY <2>2, Names
  <2>4. a[j][1] \in DOMAIN msgs /\ a[j][1] \in Nat
    BY ONLY <1>2, <2>1, LayoutOrder
  <2>5. a[j][2] \in DOMAIN msgs[a[j][1]].events /\ a[j][2] \in Nat
    BY ONLY <1>2, <2>1, LayoutOrder
  <2>6. j < k <=> Earlier(a[j], a[k])
    BY ONLY <1>2, <2>1, LayoutOrder
  <2> QED
    BY <2>2, <2>3, <2>4, <2>5, <2>6
<1>6. /\ \A j, k \in 1..N : j < k <=> Earlier(At[j], At[k])
      /\ \A j \in 1..N : /\ At[j][1] \in DOMAIN msgs /\ At[j][1] \in Nat
                         /\ At[j][2] \in DOMAIN msgs[At[j][1]].events /\ At[j][2] \in Nat
                         /\ At[j] = <<At[j][1], At[j][2]>>
                         /\ At[j] \in Entries(msgs)
  BY <1>1, <1>5
<1>7. ASSUME NEW j \in 1..N, NEW k \in 1..N, At[j] = At[k]
      PROVE  j = k
  <2>1. ~ Earlier(At[j], At[j])
    BY <1>6 DEF Earlier
  <2>2. ~ (j < k) /\ ~ (k < j) /\ j \in Nat /\ k \in Nat
    BY <1>3, <1>6, <1>7, <2>1
  <2> QED
    BY <2>2
<1> QED
  BY <1>3, <1>4, <1>6, <1>7

\* flatten_message makes one entry of each event.
LEMMA FlattenedEntries ==
    ASSUME TypeOK, NEW es \in Messages
    PROVE  /\ Flattened(es) \in Seq(Entry)
           /\ Len(Flattened(es)) = Len(es)
           /\ \A k \in 1..Len(es) :
                 /\ Flattened(es)[k].event = es[k]
                 /\ Flattened(es)[k].single <=> Len(es) = 1
                 /\ Flattened(es)[k].to = IF Len(es) = 1 THEN Len(msgs) + 1 ELSE Len(slots) + 1
<1>1. /\ es \in Seq(Event) /\ Len(es) \in Nat /\ DOMAIN es = 1..Len(es)
      /\ \A k \in 1..Len(es) : es[k] \in Event
  BY WriterAssumption, LenProperties, ElementOfSeq
<1>2. Len(msgs) + 1 \in Nat /\ Len(slots) + 1 \in Nat
  BY LenProperties DEF TypeOK
<1>3. CASE Len(es) = 1
  <2>1. Flattened(es) = <<[event |-> es[1], single |-> TRUE, to |-> Len(msgs) + 1]>>
    BY <1>3 DEF Flattened
  <2>2. [event |-> es[1], single |-> TRUE, to |-> Len(msgs) + 1] \in Entry
    BY <1>1, <1>2, <1>3 DEF Entry
  <2> QED
    BY <1>3, <2>1, <2>2
<1>4. CASE Len(es) # 1
  <2>1. Flattened(es) = [k \in 1..Len(es) |-> [event |-> es[k], single |-> FALSE, to |-> Len(slots) + 1]]
    BY <1>1, <1>4 DEF Flattened
  <2>2. Flattened(es) \in [1..Len(es) -> Entry]
    BY <1>1, <1>2, <2>1 DEF Entry
  <2>3. Flattened(es) \in Seq(Entry) /\ Len(Flattened(es)) = Len(es)
    BY <1>1, <2>2 DEF Seq
  <2> QED
    BY <1>4, <2>1, <2>3
<1> QED
  BY <1>3, <1>4

LEMMA NextLinedUp ==
    ASSUME TypeOK, LinedUp, [Next]_vars
    PROVE  LinedUp'
<1> USE DEF TypeOK
<1>1. ASSUME NEW es \in Messages, Gather(es)
      PROVE  LinedUp'
  <2>1. /\ entries' = Joined(entries, Flattened(es))
        /\ msgs' = WithMessage(msgs, es)
        /\ slots' = WithSlot(msgs, slots, es)
    BY <1>1 DEF Gather, Joined, WithMessage, WithSlot
  <2>2. PICK a : Layout(a, entries, msgs, slots)
    BY DEF LinedUp
  <2>3. \E b : Layout(b, Joined(entries, Flattened(es)), WithMessage(msgs, es), WithSlot(msgs, slots, es))
    BY <2>2, LayoutGrows, FlattenedEntries DEF Entry
  <2>4. OneSlotEach(WithMessage(msgs, es), WithSlot(msgs, slots, es))
    BY SlotsGrow DEF LinedUp
  <2> QED
    BY ONLY <2>1, <2>3, <2>4 DEF LinedUp
<1>2. CASE NextRound
  <2>1. entries' = <<>> /\ msgs' = <<>> /\ slots' = <<>>
    BY <1>2 DEF NextRound
  <2>2. Entries(<<>>) = {} /\ Len(<<>>) = 0
    BY DEF Entries
  <2>3. Layout([j \in {} |-> 0], <<>>, <<>>, <<>>)
    BY <2>2 DEF Layout
  <2>4. OneSlotEach(<<>>, <<>>)
    BY DEF OneSlotEach
  <2> QED
    BY <2>1, <2>3, <2>4 DEF LinedUp
<1>3. CASE ~ ((\E es \in Messages : Gather(es)) \/ NextRound)
  <2>1. UNCHANGED <<entries, msgs, slots>>
    BY <1>3 DEF Next, vars, GatherEnd, Dedup, DedupEnd, ResolveEntry, ResolveEnd, Write, WriteFails,
                ResultEntry, ErrorEntry, ResultsEnd, Distribute, SendSlots
  <2> QED
    BY <2>1, AtStays
<1> QED
  BY <1>1, <1>2, <1>3

-----------------------------------------------------------------------------
(* The types *)

Verdict == {"stored", "duplicate", "error"}

LEMMA BatchTypes ==
    ASSUME NEW S, NEW G \in Seq([events : Messages])
    PROVE  Verdicts(S, G) \in Seq(Seq(Verdict)) /\ Failures(G) \in Seq(Seq(Verdict))
<1>1. /\ Len(G) \in Nat /\ DOMAIN G = 1..Len(G)
      /\ \A m \in DOMAIN G : Len(G[m].events) \in Nat /\ DOMAIN G[m].events = 1..Len(G[m].events)
  BY BatchOf
<1>2. \A n \in Nat : \A f \in [1..n -> Verdict] : f \in Seq(Verdict)
  BY DEF Seq
<1>3. \A n \in Nat : \A f \in [1..n -> Seq(Verdict)] : f \in Seq(Seq(Verdict))
  BY DEF Seq
<1> DEFINE V(m) == [k \in DOMAIN G[m].events |-> Outcome(S, G, <<m, k>>)]
           F(m) == [k \in DOMAIN G[m].events |-> "error"]
<1>4. \A m \in DOMAIN G : V(m) \in Seq(Verdict)
  <2> SUFFICES ASSUME NEW m \in DOMAIN G
               PROVE  V(m) \in Seq(Verdict)
    OBVIOUS
  <2>1. \A k : Outcome(S, G, <<m, k>>) \in Verdict
    BY DEF Outcome, Verdict
  <2>2. V(m) \in [1..Len(G[m].events) -> Verdict]
    BY <1>1, <2>1
  <2> QED
    BY <1>1, <1>2, <2>2
<1>5. \A m \in DOMAIN G : F(m) \in Seq(Verdict)
  <2> SUFFICES ASSUME NEW m \in DOMAIN G
               PROVE  F(m) \in Seq(Verdict)
    OBVIOUS
  <2>1. F(m) \in [1..Len(G[m].events) -> Verdict]
    BY <1>1 DEF Verdict
  <2> QED
    BY <1>1, <1>2, <2>1
<1>6. Verdicts(S, G) = [m \in DOMAIN G |-> V(m)] /\ Failures(G) = [m \in DOMAIN G |-> F(m)]
  BY DEF Verdicts, Failures
<1> HIDE DEF V, F
<1>7. /\ [m \in DOMAIN G |-> V(m)] \in [1..Len(G) -> Seq(Verdict)]
      /\ [m \in DOMAIN G |-> F(m)] \in [1..Len(G) -> Seq(Verdict)]
  BY <1>1, <1>4, <1>5
<1> QED
  BY <1>1, <1>3, <1>6, <1>7

\* The entries and the marks, as long as they are.
LEMMA Lengths ==
    ASSUME TypeOK
    PROVE  /\ N \in Nat /\ DOMAIN entries = 1..N
           /\ \A j \in 1..N : entries[j].event \in Event
           /\ DOMAIN skip = 1..Len(skip) /\ Len(skip) \in Nat
           /\ \A j \in DOMAIN skip : skip[j] \in BOOLEAN
<1>1. entries \in Seq(Entry)
  BY DEF TypeOK, Entry
<1>2. DOMAIN skip = 1..Len(skip) /\ Len(skip) \in Nat /\ \A j \in DOMAIN skip : skip[j] \in BOOLEAN
  BY LenProperties, ElementOfSeq DEF TypeOK
<1> QED
  BY <1>1, <1>2, EntriesOf DEF N

LEMMA SeqOfFunction ==
    ASSUME NEW T, NEW n \in Nat, NEW f \in [1..n -> T]
    PROVE  f \in Seq(T) /\ Len(f) = n /\ DOMAIN f = 1..n
BY DEF Seq

\* A sequence with another element at one of its places.
LEMMA PutInto ==
    ASSUME NEW T, NEW s \in Seq(T), NEW k, NEW x \in T
    PROVE  [s EXCEPT ![k] = x] \in Seq(T) /\ Len([s EXCEPT ![k] = x]) = Len(s)
<1>1. s \in [1..Len(s) -> T] /\ Len(s) \in Nat
  BY LenProperties
<1>2. [s EXCEPT ![k] = x] \in [1..Len(s) -> T]
  BY <1>1
<1> QED
  BY <1>1, <1>2, SeqOfFunction

LEMMA GatherTypes ==
    ASSUME TypeOK, Fresh, \/ \E es \in Messages : Gather(es)
                          \/ GatherEnd \/ NextRound
    PROVE  TypeOK'
<1> USE DEF TypeOK
<1>1. ASSUME NEW es \in Messages, Gather(es)
      PROVE  TypeOK'
  <2>1. [events |-> es] \in [events : Messages]
    OBVIOUS
  <2>2. msgs' \in Seq([events : Messages])
    BY <1>1, <2>1, AppendProperties DEF Gather
  <2>3. entries' \in Seq([event : Event, single : BOOLEAN, to : Nat])
    BY <1>1, FlattenedEntries, ConcatProperties DEF Gather, Entry
  <2>4. slots' \in Seq(Nat)
    <3>1. Len(msgs) + 1 \in Nat
      BY LenProperties
    <3> QED
      BY <1>1, <3>1, AppendProperties DEF Gather
  <2>5. sent' \in Seq(Seq({"stored", "duplicate", "error"}))
    <3>1. <<>> \in Seq({"stored", "duplicate", "error"})
      OBVIOUS
    <3> QED
      BY <1>1, <3>1, AppendProperties DEF Gather
  <2>6. /\ UNCHANGED <<stored, before, settled, pc, i, seen, skip, best, outcomes, results, byslot>>
        /\ pc = "gather"
    BY <1>1 DEF Gather
  <2>7. best' \in SUBSET (1..N')
    BY <2>6 DEF Fresh
  <2> QED
    BY <2>2, <2>3, <2>4, <2>5, <2>6, <2>7
<1>2. CASE GatherEnd
  <2>1. skip' \in [1..N -> BOOLEAN] /\ N' = N
    BY <1>2 DEF GatherEnd, N
  <2>2. skip' \in Seq(BOOLEAN)
    BY <2>1, Lengths, SeqOfFunction
  <2> QED
    BY <1>2, <2>1, <2>2 DEF GatherEnd
<1>3. CASE NextRound
  BY <1>3 DEF NextRound
<1> QED
  BY <1>1, <1>2, <1>3

LEMMA MarkTypes ==
    ASSUME TypeOK, Deduping, Resolving, Dedup \/ DedupEnd \/ ResolveEntry \/ ResolveEnd
    PROVE  TypeOK'
<1> USE DEF TypeOK
<1>1. N' = N /\ N \in Nat
  BY Lengths DEF N, Dedup, DedupEnd, ResolveEntry, ResolveEnd
<1>2. CASE Dedup
  <2>1. i \in 1..N /\ i + 1 \in Nat
    BY <1>1, <1>2 DEF Dedup, Deduping
  <2>2. seen' \in SUBSET Event
    BY <1>2, <2>1, Lengths DEF Dedup
  <2>3. skip' \in Seq(BOOLEAN)
    <3>1. skip' = [skip EXCEPT ![i] = entries[i].event \in seen]
      BY <1>2 DEF Dedup
    <3>2. (entries[i].event \in seen) \in BOOLEAN
      OBVIOUS
    <3> QED
      BY ONLY <3>1, <3>2, PutInto, TypeOK DEF TypeOK
  <2> QED
    BY <1>1, <1>2, <2>1, <2>2, <2>3 DEF Dedup
<1>3. CASE ResolveEntry
  <2>1. i \in 1..N /\ i + 1 \in Nat
    BY <1>1, <1>3 DEF ResolveEntry, Resolving
  <2>2. best' \in SUBSET (1..N)
    BY <1>3, <2>1 DEF ResolveEntry
  <2>3. \/ skip' = skip
        \/ \E j : skip' = [skip EXCEPT ![j] = TRUE]
    BY <1>3 DEF ResolveEntry
  <2>4. skip' \in Seq(BOOLEAN)
    <3>1. skip \in Seq(BOOLEAN) /\ TRUE \in BOOLEAN
      OBVIOUS
    <3>2. \A j : [skip EXCEPT ![j] = TRUE] \in Seq(BOOLEAN)
      BY ONLY <3>1, PutInto
    <3> QED
      BY <2>3, <3>1, <3>2
  <2> QED
    BY <1>1, <1>3, <2>1, <2>2, <2>4 DEF ResolveEntry
<1>4. CASE DedupEnd
  BY <1>1, <1>4 DEF DedupEnd
<1>5. CASE ResolveEnd
  BY <1>1, <1>5 DEF ResolveEnd
<1> QED
  BY <1>2, <1>3, <1>4, <1>5

-----------------------------------------------------------------------------
(* Counting the entries that are not skipped *)

LEMMA FiniteInterval ==
    ASSUME NEW sk, NEW a \in Nat, NEW b \in Nat
    PROVE  /\ IsFiniteSet({k \in a..b : ~ sk[k]})
           /\ Cardinality({k \in a..b : ~ sk[k]}) \in Nat
<1> DEFINE U == {k \in a..b : ~ sk[k]}
<1>1. IsFiniteSet(a..b)
  BY FS_Interval
<1>2. U \in SUBSET (a..b)
  OBVIOUS
<1> HIDE DEF U
<1>3. IsFiniteSet(U)
  BY <1>1, <1>2, FS_Subset
<1>4. Cardinality(U) \in Nat
  BY <1>3, FS_CardinalityType
<1> QED
  BY <1>3, <1>4 DEF U

LEMMA CountSteps ==
    ASSUME NEW sk, NEW a \in Nat, NEW b \in Nat
    PROVE  /\ Count(sk, a, b) \in Nat
           /\ a > b => Count(sk, a, b) = 0
           /\ a <= b => Count(sk, a, b) = Count(sk, a + 1, b) + (IF sk[a] THEN 0 ELSE 1)
           /\ a <= b + 1 => Count(sk, a, b + 1) = Count(sk, a, b) + (IF sk[b + 1] THEN 0 ELSE 1)
<1> DEFINE U(x, y) == {k \in x..y : ~ sk[k]}
<1>1. \A x, y \in Nat : IsFiniteSet(U(x, y)) /\ Cardinality(U(x, y)) \in Nat
  BY FiniteInterval
<1>2. \A x, y : Count(sk, x, y) = Cardinality(U(x, y))
  BY DEF Count
<1>3. a > b => Count(sk, a, b) = 0
  <2>1. a > b => U(a, b) = {}
    OBVIOUS
  <2> HIDE DEF U
  <2> QED
    BY <2>1, <1>2, FS_EmptySet
<1>4. a <= b => Count(sk, a, b) = Count(sk, a + 1, b) + (IF sk[a] THEN 0 ELSE 1)
  <2> SUFFICES ASSUME a <= b
               PROVE  Count(sk, a, b) = Count(sk, a + 1, b) + (IF sk[a] THEN 0 ELSE 1)
    OBVIOUS
  <2>1. CASE sk[a]
    <3>1. U(a, b) = U(a + 1, b)
      BY <2>1
    <3> HIDE DEF U
    <3> QED
      BY <2>1, <3>1, <1>1, <1>2
  <2>2. CASE ~ sk[a]
    <3>1. U(a, b) = U(a + 1, b) \union {a} /\ a \notin U(a + 1, b)
      BY <2>2
    <3> HIDE DEF U
    <3>2. IsFiniteSet(U(a + 1, b)) /\ a + 1 \in Nat
      BY <1>1
    <3>3. Cardinality(U(a, b)) = Cardinality(U(a + 1, b)) + 1
      BY <3>1, <3>2, FS_AddElement
    <3> QED
      BY <2>2, <3>3, <1>2
  <2> QED
    BY <2>1, <2>2
<1>5. a <= b + 1 => Count(sk, a, b + 1) = Count(sk, a, b) + (IF sk[b + 1] THEN 0 ELSE 1)
  <2> SUFFICES ASSUME a <= b + 1
               PROVE  Count(sk, a, b + 1) = Count(sk, a, b) + (IF sk[b + 1] THEN 0 ELSE 1)
    OBVIOUS
  <2>1. CASE sk[b + 1]
    <3>1. U(a, b + 1) = U(a, b)
      BY <2>1
    <3> HIDE DEF U
    <3> QED
      BY <2>1, <3>1, <1>1, <1>2
  <2>2. CASE ~ sk[b + 1]
    <3>1. U(a, b + 1) = U(a, b) \union {b + 1} /\ b + 1 \notin U(a, b)
      BY <2>2
    <3> HIDE DEF U
    <3>2. Cardinality(U(a, b + 1)) = Cardinality(U(a, b)) + 1
      BY <3>1, <1>1, FS_AddElement
    <3> QED
      BY <2>2, <3>2, <1>2
  <2> QED
    BY <2>1, <2>2
<1> HIDE DEF U
<1> QED
  BY <1>1, <1>2, <1>3, <1>4, <1>5

\* Each entry that is not skipped has a number of its own, without gaps.
LEMMA Ranks ==
    ASSUME NEW sk, NEW n \in Nat
    PROVE  /\ \A j, k \in 1..n : ~ sk[k] /\ j < k => Count(sk, 1, j) < Count(sk, 1, k)
           /\ \A j \in 1..n : ~ sk[j] => Count(sk, 1, j) \in 1..Count(sk, 1, n)
           /\ \A r \in 1..Count(sk, 1, n) : \E j \in 1..n : ~ sk[j] /\ Count(sk, 1, j) = r
<1> DEFINE U(y) == {k \in 1..y : ~ sk[k]}
           C(y) == Count(sk, 1, y)
<1>1. \A y \in Nat : IsFiniteSet(U(y)) /\ Cardinality(U(y)) \in Nat
  BY FiniteInterval
<1>2. \A y \in Nat : C(y) = Cardinality(U(y)) /\ C(y) \in Nat
  BY <1>1 DEF Count
<1>3. C(0) = 0 /\ \A y \in Nat : C(y + 1) = C(y) + (IF sk[y + 1] THEN 0 ELSE 1)
  <2>1. C(0) = 0
    <3>1. \A a, b \in Nat : a > b => Count(sk, a, b) = 0
      BY CountSteps
    <3> QED
      BY <3>1
  <2>2. ASSUME NEW y \in Nat
        PROVE  C(y + 1) = C(y) + (IF sk[y + 1] THEN 0 ELSE 1)
    <3>1. 1 \in Nat /\ 1 <= y + 1
      OBVIOUS
    <3> QED
      BY ONLY <2>2, <3>1, CountSteps
  <2> QED
    BY <2>1, <2>2
<1>4. \A x, y \in Nat : x <= y => C(x) <= C(y)
  <2> SUFFICES ASSUME NEW x \in Nat, NEW y \in Nat, x <= y
               PROVE  C(x) <= C(y)
    OBVIOUS
  <2>1. U(x) \in SUBSET U(y)
    OBVIOUS
  <2> HIDE DEF U
  <2>2. Cardinality(U(x)) <= Cardinality(U(y))
    BY <2>1, <1>1, FS_Subset
  <2> QED
    BY <2>2, <1>2
<1> HIDE DEF C, U
<1>5. ASSUME NEW j \in Nat, NEW k \in Nat, k # 0, ~ sk[k], j < k
      PROVE  C(j) < C(k)
  <2>1. PICK l \in Nat : k = l + 1
    BY <1>5
  <2>2. C(k) = C(l) + 1
    BY ONLY <1>3, <1>5, <2>1
  <2>3. j <= l
    BY ONLY <1>5, <2>1
  <2>4. C(j) <= C(l) /\ C(j) \in Nat /\ C(l) \in Nat
    BY ONLY <1>2, <1>4, <1>5, <2>1, <2>3
  <2> QED
    BY ONLY <2>2, <2>4
<1>6. ASSUME NEW j \in 1..n, ~ sk[j]
      PROVE  C(j) \in 1..C(n)
  <2>1. C(0) < C(j) /\ C(j) <= C(n) /\ C(j) \in Nat /\ C(n) \in Nat
    BY <1>2, <1>4, <1>5, <1>6
  <2> QED
    BY <2>1, <1>3
<1>7. ASSUME NEW r \in 1..C(n)
      PROVE  \E j \in 1..n : ~ sk[j] /\ C(j) = r
  <2> DEFINE T == {j \in 0..n : r <= C(j)}
  <2>1. n \in T /\ T \in SUBSET Nat
    BY <1>2, <1>7
  <2>2. PICK m \in T : \A k \in T : m <= k
    <3> HIDE DEF T
    <3> QED
      BY <2>1, LeastNumber
  <2>3. m \in 0..n /\ r <= C(m) /\ r \in Nat /\ r >= 1 /\ C(m) \in Nat
    BY <1>2, <1>7, <2>2
  <2>4. m # 0
    BY <1>3, <2>3
  <2>5. PICK l \in Nat : m = l + 1
    BY <2>3, <2>4
  <2>6. l \notin T /\ l \in 0..n
    BY <2>2, <2>3, <2>5
  <2>7. C(l) < r /\ C(l) \in Nat /\ C(m) = C(l) + (IF sk[m] THEN 0 ELSE 1)
    BY <1>2, <1>3, <2>3, <2>5, <2>6
  <2>8. ~ sk[m] /\ C(m) = r /\ m \in 1..n
    BY <2>3, <2>4, <2>7
  <2> QED
    BY <2>8
<1>8. \A j, k \in 1..n : ~ sk[k] /\ j < k => C(j) < C(k)
  BY <1>5
<1> QED
  BY <1>6, <1>7, <1>8 DEF C

\* The batch has the event of each entry that is not skipped at the number of
\* that entry.
LEMMA BatchLinesUp ==
    ASSUME TypeOK, Len(skip) = N
    PROVE  /\ Cardinality(Unskipped) = Count(skip, 1, N) /\ Count(skip, 1, N) \in Nat
           /\ \A j \in Unskipped : /\ Count(skip, 1, j) \in 1..Count(skip, 1, N)
                                   /\ Nth(Count(skip, 1, j)) = j
           /\ \A n \in 1..Count(skip, 1, N) : /\ Nth(n) \in Unskipped
                                              /\ Count(skip, 1, Nth(n)) = n
           /\ \A j, k \in Unskipped : Count(skip, 1, j) < Count(skip, 1, k) => j < k
<1>1. N \in Nat
  BY Lengths
<1>2. Cardinality(Unskipped) = Count(skip, 1, N) /\ Count(skip, 1, N) \in Nat
  BY <1>1, CountSteps DEF Unskipped, Count
<1>3. \A j \in Unskipped : Cardinality({k \in Unskipped : k <= j}) = Count(skip, 1, j)
  <2> SUFFICES ASSUME NEW j \in Unskipped
               PROVE  Cardinality({k \in Unskipped : k <= j}) = Count(skip, 1, j)
    OBVIOUS
  <2>1. {k \in Unskipped : k <= j} = {k \in 1..j : ~ skip[k]}
    BY <1>1 DEF Unskipped
  <2> QED
    BY <2>1 DEF Count
<1>4. \A j \in Unskipped : j \in 1..N /\ ~ skip[j]
  BY DEF Unskipped
<1>5. \A j, k \in Unskipped : j < k => Count(skip, 1, j) < Count(skip, 1, k)
  BY <1>1, <1>4, Ranks
<1>6. \A j \in Unskipped : Count(skip, 1, j) \in 1..Count(skip, 1, N)
  BY <1>1, <1>4, Ranks
<1>7. \A n \in 1..Count(skip, 1, N) : \E j \in Unskipped : Count(skip, 1, j) = n
  BY <1>1, Ranks DEF Unskipped
<1>8. \A j, k \in Unskipped : Count(skip, 1, j) = Count(skip, 1, k) => j = k
  <2> SUFFICES ASSUME NEW j \in Unskipped, NEW k \in Unskipped,
                      Count(skip, 1, j) = Count(skip, 1, k), j # k
               PROVE  FALSE
    OBVIOUS
  <2>1. j < k \/ k < j
    BY <1>1, <1>4
  <2>2. Count(skip, 1, j) \in Nat /\ Count(skip, 1, k) \in Nat
    BY <1>2, <1>6
  <2> QED
    BY <2>1, <2>2, <1>5
<1>9. \A n \in 1..Count(skip, 1, N) : Nth(n) \in Unskipped /\ Count(skip, 1, Nth(n)) = n
  <2> SUFFICES ASSUME NEW n \in 1..Count(skip, 1, N)
               PROVE  Nth(n) \in Unskipped /\ Count(skip, 1, Nth(n)) = n
    OBVIOUS
  <2>1. \E j \in Unskipped : Cardinality({k \in Unskipped : k <= j}) = n
    BY <1>3, <1>7
  <2>2. Nth(n) \in Unskipped /\ Cardinality({k \in Unskipped : k <= Nth(n)}) = n
    BY <2>1 DEF Nth
  <2> QED
    BY <2>2, <1>3
<1>10. \A j \in Unskipped : Nth(Count(skip, 1, j)) = j
  BY <1>6, <1>8, <1>9
<1>11. \A j, k \in Unskipped : Count(skip, 1, j) < Count(skip, 1, k) => j < k
  <2> SUFFICES ASSUME NEW j \in Unskipped, NEW k \in Unskipped,
                      Count(skip, 1, j) < Count(skip, 1, k), ~ (j < k)
               PROVE  FALSE
    OBVIOUS
  <2>1. j = k \/ k < j
    BY <1>1, <1>4
  <2>2. Count(skip, 1, j) \in Nat /\ Count(skip, 1, k) \in Nat
    BY <1>2, <1>6
  <2> QED
    BY <2>1, <2>2, <1>5
<1> QED
  BY <1>2, <1>6, <1>9, <1>10, <1>11

LEMMA BatchEvents ==
    ASSUME TypeOK, Len(skip) = N
    PROVE  /\ DOMAIN WriteBatch = 1..Count(skip, 1, N)
           /\ \A j \in Unskipped : /\ Count(skip, 1, j) \in DOMAIN WriteBatch
                                   /\ WriteBatch[Count(skip, 1, j)] = entries[j].event
           /\ \A n \in DOMAIN WriteBatch : \E j \in Unskipped :
                 Count(skip, 1, j) = n /\ WriteBatch[n] = entries[j].event
<1>1. WriteBatch = [n \in 1..Count(skip, 1, N) |-> entries[Nth(n)].event]
  BY BatchLinesUp DEF WriteBatch
<1>2. DOMAIN WriteBatch = 1..Count(skip, 1, N)
  BY <1>1
<1>3. \A n \in 1..Count(skip, 1, N) : WriteBatch[n] = entries[Nth(n)].event
  BY <1>1
<1>4. /\ \A j \in Unskipped : /\ Count(skip, 1, j) \in 1..Count(skip, 1, N)
                              /\ Nth(Count(skip, 1, j)) = j
      /\ \A n \in 1..Count(skip, 1, N) : /\ Nth(n) \in Unskipped
                                         /\ Count(skip, 1, Nth(n)) = n
  BY BatchLinesUp
<1> QED
  BY ONLY <1>2, <1>3, <1>4

-----------------------------------------------------------------------------
(* The loops that mark what is not worth writing *)

LEMMA NextDeduping ==
    ASSUME TypeOK, Fresh, Deduping, [Next]_vars
    PROVE  Deduping'
<1>0. N \in Nat
  BY Lengths
<1>1. CASE GatherEnd
  <2>1. /\ N' = N /\ entries' = entries /\ i' = 1 /\ seen' = {} /\ skip' = [j \in 1..N |-> FALSE]
    BY <1>1 DEF GatherEnd, Fresh, N
  <2> QED
    BY <1>0, <2>1 DEF Deduping
<1>2. CASE Dedup
  <2>1. /\ N' = N /\ entries' = entries /\ i' = i + 1 /\ pc = "dedup" /\ i <= N
        /\ skip' = [skip EXCEPT ![i] = entries[i].event \in seen]
        /\ seen' = seen \union {entries[i].event}
    BY <1>2 DEF Dedup, N
  <2>2. /\ i \in 1..N /\ DOMAIN skip = 1..N
        /\ seen = {entries[j].event : j \in 1..(i - 1)}
        /\ \A j \in 1..N : skip[j] <=> j < i /\ Dup(entries, j)
    BY <1>0, <2>1, Lengths DEF Deduping, Fresh
  <2>3. entries[i].event \in seen <=> Dup(entries, i)
    BY <2>2 DEF Dup
  <2>4. ASSUME NEW j \in 1..N
        PROVE  skip'[j] <=> j < i + 1 /\ Dup(entries, j)
    <3>1. CASE j = i
      <4>1. skip'[i] <=> entries[i].event \in seen
        BY <2>1, <2>2
      <4> QED
        BY <2>2, <2>3, <3>1, <4>1
    <3>2. CASE j # i
      <4>1. skip'[j] = skip[j]
        BY <2>1, <2>2, <3>2
      <4>2. j < i + 1 <=> j < i
        BY <2>2, <3>2
      <4> QED
        BY <2>2, <4>1, <4>2
    <3> QED
      BY <3>1, <3>2
  <2>5. seen' = {entries[j].event : j \in 1..i}
    <3>1. 1..i = 1..(i - 1) \union {i}
      BY <2>2
    <3> QED
      BY <2>1, <2>2, <3>1
  <2>6. i + 1 \in 1..(N + 1) /\ (i + 1) - 1 = i
    BY <1>0, <2>2
  <2> QED
    BY <2>1, <2>4, <2>5, <2>6 DEF Deduping
<1>3. CASE ~ (GatherEnd \/ Dedup)
  <2>1. \/ pc' # "dedup"
        \/ UNCHANGED <<pc, i, seen, skip, entries>>
    BY <1>3 DEF Next, vars, Gather, DedupEnd, ResolveEntry, ResolveEnd, Write, WriteFails,
                ResultEntry, ErrorEntry, ResultsEnd, Distribute, SendSlots, NextRound
  <2> QED
    BY <2>1 DEF Deduping, N
<1> QED
  BY <1>1, <1>2, <1>3

\* Of the first n entries of a place, one is not skipped.
LEMMA SomeBest ==
    ASSUME NEW E \in Seq(Entry), NEW n \in Nat, n <= Len(E), NEW k \in 1..n
    PROVE  \E j \in 1..n : /\ ~ Dup(E, j) /\ ~ Beaten(E, j, n)
                          /\ SameSlot(E[j].event, E[k].event)
<1> DEFINE J == {j \in 1..n : SameSlot(E[j].event, E[k].event)}
           f == [j \in J |-> E[j].event]
           T == {f[j] : j \in J}
<1>1. \A j \in 1..n : E[j].event \in Event
  BY EntriesOf
<1>2. IsFiniteSet(J)
  <2>1. IsFiniteSet(1..n) /\ J \in SUBSET (1..n)
    BY FS_Interval
  <2> HIDE DEF J
  <2> QED
    BY <2>1, FS_Subset
<1>3. k \in J
  BY <1>1, SlotFacts
<1>4. \A j \in J : j \in 1..n /\ f[j] = E[j].event /\ SameSlot(E[j].event, E[k].event)
  OBVIOUS
<1>5. \A j \in 1..n : SameSlot(E[j].event, E[k].event) => j \in J
  OBVIOUS
<1>6. IsFiniteSet(T)
  <2>1. f \in Surjection(J, T)
    BY DEF Surjection
  <2> HIDE DEF J, f, T
  <2> QED
    BY <1>2, <2>1, FS_Surjection
<1>7. T \in SUBSET Event /\ T # {}
  BY <1>1, <1>3, <1>4
<1>8. PICK e \in T : \A g \in T : ~ Beats(g, e)
  <2> HIDE DEF T
  <2> QED
    BY <1>6, <1>7, BestEvent
<1>9. PICK m \in J : E[m].event = e
  BY <1>4
<1> DEFINE L == {j \in 1..n : E[j].event = e}
<1>10. PICK l \in L : \A j \in L : l <= j
  <2>1. m \in L /\ L \in SUBSET Nat
    BY <1>4, <1>9
  <2> HIDE DEF L
  <2> QED
    BY <2>1, LeastNumber
<1>11. l \in 1..n /\ E[l].event = e /\ SameSlot(e, E[k].event)
  BY <1>4, <1>9, <1>10
<1>12. ~ Dup(E, l)
  <2> SUFFICES ASSUME NEW j \in 1..(l - 1), E[j].event = e
               PROVE  FALSE
    BY <1>11 DEF Dup
  <2>1. j \in L /\ j < l
    BY <1>11
  <2> QED
    BY <1>10, <1>11, <2>1
<1>13. ~ Beaten(E, l, n)
  <2> SUFFICES ASSUME NEW j \in 1..n, SameSlot(E[j].event, e), Beats(E[j].event, e)
               PROVE  FALSE
    BY <1>11 DEF Beaten
  <2>1. SameSlot(E[j].event, E[k].event)
    BY <1>1, <1>11, SlotFacts
  <2>2. j \in J
    BY <1>5, <2>1
  <2>3. E[j].event \in T
    BY <1>4, <2>2
  <2> QED
    BY <1>8, <2>3
<1> HIDE DEF J, L, T, f
<1> QED
  BY <1>11, <1>12, <1>13

\* The index of best_replaceable is the one entry of its place that is not
\* skipped so far.
LEMMA NextResolving ==
    ASSUME TypeOK, Fresh, Deduping, Resolving, [Next]_vars
    PROVE  Resolving'
<1>0. N \in Nat /\ \A j \in 1..N : entries[j].event \in Event
  BY Lengths
<1>1. CASE DedupEnd
  <2>1. /\ N' = N /\ entries' = entries /\ i' = 1 /\ skip' = skip /\ best' = {} /\ pc = "dedup" /\ i > N
    BY <1>1 DEF DedupEnd, Fresh, N
  <2>2. \A j \in 1..N : skip[j] <=> Dup(entries, j)
    BY <1>0, <2>1 DEF Deduping
  <2> QED
    BY <1>0, <2>1, <2>2 DEF Resolving
<1>2. CASE ResolveEntry
  <2> DEFINE E == entries
             e == entries[i].event
  <2>1. /\ N' = N /\ entries' = entries /\ i' = i + 1 /\ pc = "resolve" /\ i <= N
    BY <1>2 DEF ResolveEntry, N
  <2>2. /\ i \in 1..N /\ DOMAIN skip = 1..N
        /\ \A j \in 1..N : skip[j] <=> Dup(E, j) \/ (j < i /\ Beaten(E, j, i - 1))
        /\ best = {j \in 1..(i - 1) : ~ skip[j] /\ IsReplaceable(E[j].event)}
    BY <1>0, <2>1, Lengths DEF Resolving, Fresh
  <2>3. skip[i] <=> Dup(E, i)
    BY <2>2
  <2>4. i + 1 \in 1..(N + 1) /\ (i + 1) - 1 = i /\ 1..i = 1..(i - 1) \union {i}
        /\ 1..(i - 1) \subseteq 1..N /\ \A j \in 1..N : j < i <=> j \in 1..(i - 1)
    BY <1>0, <2>2
  <2>5. \A j \in 1..N : Beaten(E, j, i) <=> \/ Beaten(E, j, i - 1)
                                            \/ /\ IsReplaceable(E[j].event)
                                               /\ SameSlot(e, E[j].event) /\ Beats(e, E[j].event)
    BY <2>4 DEF Beaten
  <2>6. SUFFICES /\ \A j \in 1..N : skip'[j] <=> Dup(E, j) \/ (j < i + 1 /\ Beaten(E, j, i))
                 /\ best' = {j \in 1..i : ~ skip'[j] /\ IsReplaceable(E[j].event)}
    BY <2>1, <2>4 DEF Resolving
  <2>7. \A j \in 1..N : j < i + 1 <=> j \in 1..(i - 1) \/ j = i
    BY <2>2, <2>4
  <2>8. /\ \A f \in Event : SameSlot(e, f) => (IsReplaceable(e) <=> IsReplaceable(f))
        /\ \A f, g \in Event : SameSlot(f, g) => SameSlot(g, f)
        /\ \A f, g, h \in Event : SameSlot(f, g) /\ SameSlot(g, h) => SameSlot(f, h)
        /\ \A f \in Event : ~ Beats(f, f) /\ SameSlot(f, f)
        /\ \A f, g, h \in Event : Beats(f, g) /\ Beats(g, h) => Beats(f, h)
        /\ \A f, g \in Event : f = g \/ Beats(f, g) \/ Beats(g, f)
        /\ e \in Event
    BY <1>0, <2>2, SlotFacts, BeatsOrder
  <2> HIDE DEF e, E
  <2>9. CASE skip[i] \/ ~ IsReplaceable(e)
    <3>1. skip' = skip /\ best' = best
      BY <1>2, <2>9 DEF ResolveEntry, e
    <3>2. ASSUME NEW j \in 1..N, j < i + 1
          PROVE  skip[j] <=> Dup(E, j) \/ Beaten(E, j, i)
      <4>1. CASE skip[i]
        <5>1. PICK k \in 1..(i - 1) : E[k].event = e
          BY <2>3, <4>1 DEF Dup, e, E
        <5>2. Beaten(E, j, i) <=> Beaten(E, j, i - 1)
          BY <2>5, <5>1 DEF Beaten
        <5> QED
          BY <2>2, <2>3, <2>7, <3>2, <4>1, <5>2, <2>4
      <4>2. CASE ~ IsReplaceable(e)
        <5>1. Beaten(E, j, i) <=> Beaten(E, j, i - 1)
          BY <1>0, <2>5, <2>8, <4>2 DEF E
        <5>2. ~ Beaten(E, i, i)
          BY <4>2 DEF Beaten, e, E
        <5> QED
          BY <2>2, <2>3, <2>7, <3>2, <5>1, <5>2, <2>4
      <4> QED
        BY <2>9, <4>1, <4>2
    <3>3. ASSUME NEW j \in 1..N, ~ (j < i + 1)
          PROVE  skip[j] <=> Dup(E, j)
      BY <2>2, <3>3
    <3>4. best = {j \in 1..i : ~ skip[j] /\ IsReplaceable(E[j].event)}
      BY <2>2, <2>4, <2>9 DEF e, E
    <3> QED
      BY <3>1, <3>2, <3>3, <3>4
  <2>10. CASE ~ skip[i] /\ IsReplaceable(e)
    <3>1. \A j : j \in Previous(e) <=> j \in best /\ SameSlot(E[j].event, e)
      BY DEF Previous, E
    <3>2. ~ Dup(E, i) /\ E[i].event = e
      BY <2>3, <2>10 DEF e, E
    <3>3. \A j \in 1..N : E[j].event \in Event
      BY <1>0 DEF E
    <3>4. CASE Previous(e) = {}
      <4>1. skip' = skip /\ best' = best \union {i}
        BY <1>2, <2>10, <3>4 DEF ResolveEntry, e
      <4>2. ASSUME NEW k \in 1..(i - 1), SameSlot(E[k].event, e)
            PROVE  FALSE
        <5>1. PICK j \in 1..(i - 1) : /\ ~ Dup(E, j) /\ ~ Beaten(E, j, i - 1)
                                      /\ SameSlot(E[j].event, E[k].event)
          <6>1. E \in Seq(Entry) /\ i - 1 \in Nat /\ i - 1 <= Len(E)
            BY <1>0, <2>2 DEF TypeOK, Entry, E, N
          <6> QED
            BY <6>1, SomeBest
        <5>2. SameSlot(E[j].event, e) /\ IsReplaceable(E[j].event)
          BY <2>4, <2>8, <2>10, <3>3, <4>2, <5>1
        <5>3. ~ skip[j]
          BY <2>2, <2>4, <5>1
        <5> QED
          BY <2>2, <3>1, <3>4, <5>2, <5>3
      <4>3. \A j \in 1..(i - 1) : ~ SameSlot(e, E[j].event)
        BY <2>4, <2>8, <3>3, <4>2
      <4>4. \A j \in 1..(i - 1) : Beaten(E, j, i) <=> Beaten(E, j, i - 1)
        BY <2>4, <2>5, <4>3
      <4>5. ~ Beaten(E, i, i)
        BY <2>4, <2>8, <3>2, <4>2 DEF Beaten
      <4>6. \A j \in 1..N : skip[j] <=> Dup(E, j) \/ (j < i + 1 /\ Beaten(E, j, i))
        BY <2>2, <2>4, <2>7, <4>4, <4>5
      <4>7. best \union {i} = {j \in 1..i : ~ skip[j] /\ IsReplaceable(E[j].event)}
        BY <2>2, <2>4, <2>10, <3>2
      <4> QED
        BY <4>1, <4>6, <4>7
    <3>5. ASSUME NEW j \in Previous(e)
          PROVE  /\ j \in 1..(i - 1) /\ j \in 1..N /\ j # i /\ ~ skip[j] /\ SameSlot(E[j].event, e)
                 /\ IsReplaceable(E[j].event)
                 /\ ~ Dup(E, j) /\ ~ Beaten(E, j, i - 1)
                 /\ E[j].event # e
      <4>1. j \in 1..(i - 1) /\ ~ skip[j] /\ IsReplaceable(E[j].event) /\ SameSlot(E[j].event, e)
        BY <2>2, <3>1
      <4>2. j \in 1..N /\ j # i
        BY <2>2, <2>4, <4>1
      <4>3. ~ Dup(E, j) /\ ~ Beaten(E, j, i - 1)
        BY <2>2, <2>4, <4>1, <4>2
      <4>4. E[j].event # e
        BY <3>2, <4>1 DEF Dup
      <4> QED
        BY <4>1, <4>2, <4>3, <4>4
    <3>6. ASSUME NEW j \in Previous(e), Beats(e, E[j].event),
                 skip' = [skip EXCEPT ![j] = TRUE],
                 best' = (best \ {j}) \union {i}
          PROVE  /\ \A l \in 1..N : skip'[l] <=> Dup(E, l) \/ (l < i + 1 /\ Beaten(E, l, i))
                 /\ best' = {l \in 1..i : ~ skip'[l] /\ IsReplaceable(E[l].event)}
      <4>1. /\ j \in 1..(i - 1) /\ j \in 1..N /\ j # i /\ SameSlot(E[j].event, e)
            /\ ~ Dup(E, j) /\ ~ Beaten(E, j, i - 1) /\ IsReplaceable(E[j].event)
        BY <3>5
      <4>2. ASSUME NEW l \in 1..(i - 1), l # j, Beaten(E, l, i)
            PROVE  Dup(E, l) \/ Beaten(E, l, i - 1)
        <5>1. CASE Beaten(E, l, i - 1)
          BY <5>1
        <5>2. CASE IsReplaceable(E[l].event) /\ SameSlot(e, E[l].event) /\ Beats(e, E[l].event)
          <6>1. E[l].event \in Event /\ E[j].event \in Event /\ l \in 1..N
            BY <2>4, <3>3, <4>1
          <6>2. SameSlot(E[j].event, E[l].event) /\ SameSlot(E[l].event, E[j].event)
            BY <2>8, <4>1, <5>2, <6>1
          <6>3. CASE E[l].event = E[j].event
            <7>1. l < j \/ j < l
              BY <2>2, <4>1, <4>2
            <7>2. ~ (l < j)
              <8>1. l < j => l \in 1..(j - 1)
                BY <4>1
              <8> QED
                BY <4>1, <6>3, <8>1 DEF Dup
            <7>3. j \in 1..(l - 1)
              BY <4>1, <7>1, <7>2
            <7> QED
              BY <6>3, <7>3 DEF Dup
          <6>4. CASE Beats(E[l].event, E[j].event)
            BY <4>1, <6>2, <6>4 DEF Beaten
          <6>5. CASE Beats(E[j].event, E[l].event)
            BY <4>1, <5>2, <6>2, <6>5 DEF Beaten
          <6> QED
            BY <2>8, <6>1, <6>3, <6>4, <6>5
        <5>3. l \in 1..N
          BY <2>4
        <5> QED
          BY <2>5, <4>2, <5>1, <5>2, <5>3
      <4>3. Beaten(E, j, i)
        BY <2>5, <2>8, <3>3, <3>6, <4>1
      <4>4. ~ Beaten(E, i, i)
        <5> SUFFICES ASSUME NEW k \in 1..i, SameSlot(E[k].event, e), Beats(E[k].event, e)
                     PROVE  FALSE
          BY <3>2 DEF Beaten
        <5>1. k \in 1..(i - 1) /\ E[k].event \in Event /\ E[j].event \in Event
          BY <2>2, <2>4, <2>8, <3>2, <3>3, <4>1
        <5>2. SameSlot(E[k].event, E[j].event) /\ Beats(E[k].event, E[j].event)
          BY <2>8, <3>6, <4>1, <5>1
        <5> QED
          BY <4>1, <5>1, <5>2 DEF Beaten
      <4>5. \A l \in 1..(i - 1) : Beaten(E, l, i - 1) => Beaten(E, l, i)
        BY <2>4, <2>5
      <4>6. \A l \in 1..N : skip'[l] <=> l = j \/ skip[l]
        BY <2>2, <3>6
      <4>7. \A l \in 1..N : skip'[l] <=> Dup(E, l) \/ (l < i + 1 /\ Beaten(E, l, i))
        <5> SUFFICES ASSUME NEW l \in 1..N
                     PROVE  skip'[l] <=> Dup(E, l) \/ (l < i + 1 /\ Beaten(E, l, i))
          OBVIOUS
        <5>1. CASE l = j
          BY <2>7, <4>1, <4>3, <4>6, <5>1
        <5>2. CASE l = i
          BY <2>3, <2>7, <3>2, <4>1, <4>4, <4>6, <5>2
        <5>3. CASE l \in 1..(i - 1) /\ l # j
          BY <2>2, <2>4, <2>7, <4>2, <4>5, <4>6, <5>3
        <5>4. CASE l \notin 1..(i - 1) /\ l # i /\ l # j
          BY <2>2, <2>4, <2>7, <4>6, <5>4
        <5> QED
          BY <5>1, <5>2, <5>3, <5>4
      <4>8. best' = {l \in 1..i : ~ skip'[l] /\ IsReplaceable(E[l].event)}
        BY <2>2, <2>3, <2>4, <2>10, <3>2, <3>6, <4>1, <4>6
      <4> QED
        BY <4>7, <4>8
    <3>7. ASSUME NEW j \in Previous(e), ~ Beats(e, E[j].event),
                 skip' = [skip EXCEPT ![i] = TRUE], best' = best
          PROVE  /\ \A l \in 1..N : skip'[l] <=> Dup(E, l) \/ (l < i + 1 /\ Beaten(E, l, i))
                 /\ best' = {l \in 1..i : ~ skip'[l] /\ IsReplaceable(E[l].event)}
      <4>1. /\ j \in 1..(i - 1) /\ j \in 1..N /\ SameSlot(E[j].event, e) /\ E[j].event # e
            /\ E[j].event \in Event
        BY <3>3, <3>5
      <4>2. Beats(E[j].event, e)
        BY <2>8, <3>7, <4>1
      <4>3. Beaten(E, i, i)
        BY <2>4, <2>10, <3>2, <4>1, <4>2 DEF Beaten
      <4>4. ASSUME NEW l \in 1..(i - 1)
            PROVE  Beaten(E, l, i) <=> Beaten(E, l, i - 1)
        <5>1. l \in 1..N /\ E[l].event \in Event
          BY <2>4, <3>3
        <5>2. ASSUME IsReplaceable(E[l].event), SameSlot(e, E[l].event), Beats(e, E[l].event)
              PROVE  Beaten(E, l, i - 1)
          BY <2>8, <4>1, <4>2, <5>1, <5>2 DEF Beaten
        <5> QED
          BY <2>5, <5>1, <5>2
      <4>5. \A l \in 1..N : skip'[l] <=> l = i \/ skip[l]
        BY <2>2, <3>7
      <4>6. \A l \in 1..N : skip'[l] <=> Dup(E, l) \/ (l < i + 1 /\ Beaten(E, l, i))
        BY <2>2, <2>4, <2>7, <4>3, <4>4, <4>5
      <4>7. best' = {l \in 1..i : ~ skip'[l] /\ IsReplaceable(E[l].event)}
        BY <2>2, <2>4, <3>7, <4>5
      <4> QED
        BY <4>6, <4>7
    <3>8. CASE Previous(e) # {}
      <4>1. PICK j \in Previous(e) :
               IF Beats(e, E[j].event)
               THEN skip' = [skip EXCEPT ![j] = TRUE] /\ best' = (best \ {j}) \union {i}
               ELSE skip' = [skip EXCEPT ![i] = TRUE] /\ best' = best
        BY <1>2, <2>10, <3>8 DEF ResolveEntry, Displaces, e, E
      <4> QED
        BY <3>6, <3>7, <4>1
    <3> QED
      BY <3>4, <3>8
  <2> QED
    BY <2>9, <2>10
<1>3. CASE ~ (DedupEnd \/ ResolveEntry)
  <2>1. \/ pc' # "resolve"
        \/ UNCHANGED <<pc, i, best, skip, entries>>
    BY <1>3 DEF Next, vars, Gather, GatherEnd, Dedup, ResolveEnd, Write, WriteFails,
                ResultEntry, ErrorEntry, ResultsEnd, Distribute, SendSlots, NextRound
  <2> QED
    BY <2>1 DEF Resolving, N
<1> QED
  BY <1>1, <1>2, <1>3

LEMMA NextResolved ==
    ASSUME TypeOK, Resolving, Resolved, [Next]_vars
    PROVE  Resolved'
<1>1. CASE ResolveEnd
  <2>1. /\ N' = N /\ entries' = entries /\ skip' = skip /\ pc = "resolve" /\ i > N /\ N \in Nat
    BY <1>1, Lengths DEF ResolveEnd, N
  <2>2. i = N + 1
    BY <2>1 DEF Resolving
  <2>3. i - 1 = N /\ \A j \in 1..N : j < i
    BY <2>1, <2>2
  <2>4. \A j \in 1..N : skip[j] <=> Dup(entries, j) \/ Beaten(entries, j, N)
    BY <2>1, <2>3 DEF Resolving
  <2> QED
    BY <2>1, <2>4 DEF Resolved
<1>2. CASE Write \/ ResultEntry
  <2>1. UNCHANGED <<entries, skip>> /\ pc \in {"write", "results"}
    BY <1>2 DEF Write, ResultEntry
  <2> QED
    BY <2>1 DEF Resolved, N
<1>3. CASE ~ (ResolveEnd \/ Write \/ ResultEntry)
  <2>1. \/ pc' \notin {"write", "results"}
        \/ UNCHANGED <<pc, skip, entries>>
    BY <1>3 DEF Next, vars, Gather, GatherEnd, Dedup, DedupEnd, ResolveEntry, WriteFails,
                ErrorEntry, ResultsEnd, Distribute, SendSlots, NextRound
  <2> QED
    BY <2>1 DEF Resolved, N
<1> QED
  BY <1>1, <1>2, <1>3

-----------------------------------------------------------------------------
(* The transaction *)

\* The marks are those of BatchRule.
LEMMA MarksAreRight ==
    ASSUME TypeOK, LinedUp, Fresh, Resolved, pc \in {"write", "results"}
    PROVE  \A j \in 1..N : /\ skip[j] <=> ~ IsKept(msgs, At[j])
                           /\ entries[j].event = Ev(msgs, At[j])
                           /\ At[j] \in Entries(msgs)
<1>1. Layout(At, entries, msgs, slots)
  BY AtLayout
<1>2. entries \in Seq(Entry) /\ msgs \in Seq([events : Messages])
  BY DEF TypeOK, Entry
<1>3. \A j \in 1..N : IsKept(msgs, At[j]) <=> ~ Dup(entries, j) /\ ~ Beaten(entries, j, N)
  BY <1>1, <1>2, KeptEntries DEF N
<1>4. \A j \in 1..N : skip[j] <=> Dup(entries, j) \/ Beaten(entries, j, N)
  BY DEF Resolved
<1>5. \A j \in 1..N : entries[j].event = Ev(msgs, At[j]) /\ At[j] \in Entries(msgs)
  BY <1>1 DEF Layout, N
<1> QED
  BY <1>3, <1>4, <1>5

\* What is written is what BatchRule keeps.
LEMMA BestWritten ==
    ASSUME TypeOK, LinedUp, Fresh, Resolved, pc = "write"
    PROVE  /\ {WriteBatch[n] : n \in DOMAIN WriteBatch} = KeptEvents(msgs)
           /\ \A n, l \in DOMAIN WriteBatch : WriteBatch[n] = WriteBatch[l] => n = l
<1>1. Len(skip) = N
  BY DEF Fresh
<1>2. /\ \A j \in Unskipped : /\ Count(skip, 1, j) \in DOMAIN WriteBatch
                              /\ WriteBatch[Count(skip, 1, j)] = entries[j].event
      /\ \A n \in DOMAIN WriteBatch : \E j \in Unskipped :
            Count(skip, 1, j) = n /\ WriteBatch[n] = entries[j].event
  BY <1>1, BatchEvents
<1>3. \A j : j \in Unskipped <=> j \in 1..N /\ IsKept(msgs, At[j])
  BY MarksAreRight DEF Unskipped
<1>4. \A j \in 1..N : entries[j].event = Ev(msgs, At[j]) /\ At[j] \in Entries(msgs)
  BY MarksAreRight
<1>5. \A x \in Entries(msgs) : \E j \in 1..N : At[j] = x
  BY AtLayout DEF Layout, N
<1>6. ASSUME NEW n \in DOMAIN WriteBatch
      PROVE  WriteBatch[n] \in KeptEvents(msgs)
  <2>1. PICK j \in Unskipped : WriteBatch[n] = entries[j].event
    BY <1>2
  <2> QED
    BY <2>1, <1>3, <1>4 DEF KeptEvents
<1>7. ASSUME NEW e \in KeptEvents(msgs)
      PROVE  \E n \in DOMAIN WriteBatch : WriteBatch[n] = e
  <2>1. PICK x \in Entries(msgs) : IsKept(msgs, x) /\ Ev(msgs, x) = e
    BY DEF KeptEvents
  <2>2. PICK j \in 1..N : At[j] = x
    BY <1>5
  <2> QED
    BY <2>1, <2>2, <1>2, <1>3, <1>4
<1>8. ASSUME NEW n \in DOMAIN WriteBatch, NEW l \in DOMAIN WriteBatch, WriteBatch[n] = WriteBatch[l]
      PROVE  n = l
  <2>1. PICK j \in Unskipped : Count(skip, 1, j) = n /\ WriteBatch[n] = entries[j].event
    BY <1>2
  <2>2. PICK k \in Unskipped : Count(skip, 1, k) = l /\ WriteBatch[l] = entries[k].event
    BY <1>2
  <2>3. IsBatch(msgs)
    BY BatchOf DEF TypeOK
  <2>4. At[j] = At[k]
    BY <1>3, <1>4, <1>8, <2>1, <2>2, <2>3, KeptOnce
  <2>5. j = k
    <3>1. j \in 1..N /\ k \in 1..N
      BY <1>3
    <3> QED
      BY <2>4, <3>1, AtFacts
  <2> QED
    BY <2>1, <2>2, <2>5
<1> QED
  BY <1>6, <1>7, <1>8

\* The outcome of an entry does not depend on the others of the batch.
LEMMA OutcomeAlone ==
    ASSUME TypeOK, LinedUp, Fresh, Resolved, pc = "write",
           NEW j \in Unskipped, NEW n, n = Count(skip, 1, j)
    PROVE  Covered(WriteBatch[n], stored \union {WriteBatch[k] : k \in 1..(n - 1)})
             <=> Covered(entries[j].event, stored)
<1>1. Len(skip) = N /\ N \in Nat
  BY Lengths DEF Fresh
<1>2. /\ n \in DOMAIN WriteBatch /\ DOMAIN WriteBatch = 1..Count(skip, 1, N)
      /\ WriteBatch[n] = entries[j].event
      /\ \A l \in DOMAIN WriteBatch : \E k \in Unskipped :
            Count(skip, 1, k) = l /\ WriteBatch[l] = entries[k].event
  BY <1>1, BatchEvents
<1>3. \A k \in Unskipped : k \in 1..N /\ ~ Dup(entries, k) /\ ~ Beaten(entries, k, N)
  BY DEF Resolved, Unskipped
<1>4. ASSUME NEW l \in 1..(n - 1)
      PROVE  /\ WriteBatch[l] # entries[j].event
             /\ IsReplaceable(entries[j].event)
                   => ~ (SameSlot(WriteBatch[l], entries[j].event) /\ Beats(WriteBatch[l], entries[j].event))
  <2>1. l \in DOMAIN WriteBatch /\ l < n
    <3>1. Count(skip, 1, N) \in Nat /\ n \in 1..Count(skip, 1, N)
      BY <1>1, <1>2, BatchLinesUp
    <3> QED
      BY <1>2, <3>1
  <2>2. PICK k \in Unskipped : Count(skip, 1, k) = l /\ WriteBatch[l] = entries[k].event
    BY <1>2, <2>1
  <2>3. k < j
    BY <1>1, <2>1, <2>2, BatchLinesUp
  <2>4. k \in 1..(j - 1) /\ k \in 1..N
    BY <1>1, <1>3, <2>3
  <2> QED
    BY <1>3, <2>2, <2>4 DEF Dup, Beaten
<1> DEFINE W == {WriteBatch[k] : k \in 1..(n - 1)}
<1>5. ~ Covered(entries[j].event, W)
  BY <1>4 DEF Covered
<1>6. Covered(entries[j].event, stored \union W) <=> Covered(entries[j].event, stored)
  <2> HIDE DEF W
  <2>1. Covered(entries[j].event, stored \union W) => Covered(entries[j].event, stored)
    BY <1>5, CoveredSplits
  <2>2. Covered(entries[j].event, stored) => Covered(entries[j].event, stored \union W)
    BY DEF Covered
  <2> QED
    BY <2>1, <2>2
<1> QED
  BY <1>2, <1>6

\* The types, when the batch is written and when the results are put together.
LEMMA WriteTypes ==
    ASSUME TypeOK, Fresh, Write \/ WriteFails
    PROVE  TypeOK'
<1> USE DEF TypeOK
<1>1. N' = N
  BY DEF N, Write, WriteFails
<1>2. settled' \in Seq(Seq({"stored", "duplicate", "error"}))
  <2>1. settled' = Verdicts(stored, msgs) \/ settled' = Failures(msgs)
    BY DEF Write, WriteFails
  <2>2. msgs \in Seq([events : Messages])
    OBVIOUS
  <2>3. Verdicts(stored, msgs) \in Seq(Seq(Verdict)) /\ Failures(msgs) \in Seq(Seq(Verdict))
    BY ONLY <2>2, BatchTypes
  <2> QED
    BY ONLY <2>1, <2>3 DEF Verdict
<1>3. CASE Write
  <2>1. pc = "write" /\ Len(skip) = N
    BY <1>3 DEF Write, Fresh
  <2>2. /\ DOMAIN WriteBatch = 1..Count(skip, 1, N) /\ Count(skip, 1, N) \in Nat
        /\ \A n \in DOMAIN WriteBatch : WriteBatch[n] \in Event
    <3>1. Count(skip, 1, N) \in Nat
      BY <2>1, BatchLinesUp
    <3>2. /\ DOMAIN WriteBatch = 1..Count(skip, 1, N)
          /\ \A n \in DOMAIN WriteBatch : \E j \in Unskipped :
                Count(skip, 1, j) = n /\ WriteBatch[n] = entries[j].event
      BY <2>1, BatchEvents
    <3>3. \A j \in Unskipped : entries[j].event \in Event
      BY Lengths DEF Unskipped
    <3> QED
      BY <3>1, <3>2, <3>3
  <2> DEFINE C(j) == ~ Covered(WriteBatch[j], stored \union {WriteBatch[k] : k \in 1..(j - 1)})
             S == stored \union {WriteBatch[k] : k \in DOMAIN WriteBatch}
  <2>3. outcomes' = [j \in DOMAIN WriteBatch |-> C(j)] /\ stored' = Resolve(S)
    BY <1>3 DEF Write
  <2>4. \A j : C(j) \in BOOLEAN
    OBVIOUS
  <2>5. S \in SUBSET Event
    BY <2>2
  <2> HIDE DEF C, S
  <2>6. stored' \in SUBSET Event
    BY <2>3, <2>5 DEF Resolve
  <2>7. outcomes' \in [1..Count(skip, 1, N) -> BOOLEAN]
    BY <2>2, <2>3, <2>4
  <2>8. outcomes' \in Seq(BOOLEAN)
    BY <2>2, <2>7, SeqOfFunction
  <2>9. /\ UNCHANGED <<msgs, entries, slots, seen, skip, best, results, byslot, sent>>
        /\ before' = stored /\ pc' = "results" /\ i' = 1
    BY <1>3 DEF Write
  <2> QED
    BY <1>1, <1>2, <2>6, <2>8, <2>9
<1>4. CASE WriteFails
  BY <1>1, <1>2, <1>4 DEF WriteFails
<1> QED
  BY <1>3, <1>4

LEMMA ResultTypes ==
    ASSUME TypeOK, LinedUp, Fresh, Resulting, Distributing,
           ResultEntry \/ ErrorEntry \/ ResultsEnd \/ Distribute \/ SendSlots
    PROVE  TypeOK'
<1> USE DEF TypeOK
<1>1. N' = N /\ N \in Nat
  BY Lengths DEF N, ResultEntry, ErrorEntry, ResultsEnd, Distribute, SendSlots
<1>2. \A x \in {"stored", "duplicate", "error"} :
         Append(results, x) \in Seq({"stored", "duplicate", "error"})
  BY AppendProperties
<1>3. CASE ResultEntry
  <2>1. i + 1 \in Nat
    OBVIOUS
  <2>2. results' \in Seq({"stored", "duplicate", "error"})
    BY <1>2, <1>3 DEF ResultEntry
  <2>3. outcomes' \in Seq(BOOLEAN)
    <3>1. outcomes' = outcomes \/ (outcomes # <<>> /\ outcomes' = Tail(outcomes))
      BY <1>3 DEF ResultEntry
    <3>2. outcomes \in Seq(BOOLEAN)
      OBVIOUS
    <3>3. outcomes # <<>> => Tail(outcomes) \in Seq(BOOLEAN)
      BY ONLY <3>2, HeadTailProperties
    <3> QED
      BY ONLY <3>1, <3>2, <3>3
  <2> QED
    BY <1>1, <1>3, <2>1, <2>2, <2>3 DEF ResultEntry
<1>4. CASE ErrorEntry
  <2>1. i + 1 \in Nat
    OBVIOUS
  <2>2. results' \in Seq({"stored", "duplicate", "error"})
    BY <1>2, <1>4 DEF ErrorEntry
  <2> QED
    BY <1>1, <1>4, <2>1, <2>2 DEF ErrorEntry
<1>5. CASE ResultsEnd
  <2>1. DOMAIN slots = 1..Len(slots) /\ Len(slots) \in Nat
    BY LenProperties
  <2>2. byslot' \in [1..Len(slots) -> Seq({"stored", "duplicate", "error"})]
    BY <1>5, <2>1 DEF ResultsEnd
  <2>3. byslot' \in Seq(Seq({"stored", "duplicate", "error"}))
    BY <2>1, <2>2, SeqOfFunction
  <2> QED
    BY <1>1, <1>5, <2>3 DEF ResultsEnd
<1>6. CASE Distribute
  <2> DEFINE V == {"stored", "duplicate", "error"}
             to == entries[i].to
  <2>1. i \in 1..N /\ Len(results) = N /\ i + 1 \in Nat
    <3>1. pc = "distribute" /\ i <= N /\ N \in Nat
      BY <1>1, <1>6, LenProperties DEF Distribute, N
    <3>2. i \in 1..(N + 1) /\ Len(results) = N
      BY <3>1 DEF Distributing
    <3> QED
      BY ONLY <3>1, <3>2
  <2>2. results[i] \in V
    BY <2>1, ElementOfSeq
  <2> HIDE DEF V
  <2>3. <<results[i]>> \in Seq(V)
    BY <2>2
  <2>4. sent' \in Seq(Seq(V))
    <3>1. sent' = sent \/ sent' = [sent EXCEPT ![to] = <<results[i]>>]
      BY <1>6 DEF Distribute
    <3>2. sent \in Seq(Seq(V))
      BY DEF V
    <3> HIDE DEF to
    <3>3. [sent EXCEPT ![to] = <<results[i]>>] \in Seq(Seq(V))
      BY <2>3, <3>2, PutInto
    <3> QED
      BY <3>1, <3>2, <3>3
  <2>5. byslot' \in Seq(Seq(V))
    <3>1. byslot' = byslot \/ byslot' = [byslot EXCEPT ![to] = Append(byslot[to], results[i])]
      BY <1>6 DEF Distribute
    <3>2. byslot \in Seq(Seq(V))
      BY DEF V
    <3> HIDE DEF to
    <3>3. CASE to \in DOMAIN byslot
      <4>1. byslot[to] \in Seq(V)
        BY <3>2, <3>3, LenProperties, ElementOfSeq
      <4>2. Append(byslot[to], results[i]) \in Seq(V)
        BY <2>2, <4>1, AppendProperties
      <4>3. [byslot EXCEPT ![to] = Append(byslot[to], results[i])] \in Seq(Seq(V))
        BY <3>2, <4>2, PutInto
      <4> QED
        BY <3>1, <3>2, <4>3
    <3>4. CASE to \notin DOMAIN byslot
      <4>1. [byslot EXCEPT ![to] = Append(byslot[to], results[i])] = byslot
        BY <3>2, <3>4
      <4> QED
        BY <3>1, <3>2, <4>1
    <3> QED
      BY <3>3, <3>4
  <2>6. UNCHANGED <<stored, before, settled, pc, msgs, entries, slots, seen, skip, best, outcomes, results>>
        /\ i' = i + 1
    BY <1>6 DEF Distribute
  <2> HIDE DEF to
  <2> QED
    BY <1>1, <2>1, <2>4, <2>5, <2>6 DEF V
<1>7. CASE SendSlots
  <2> DEFINE V == {"stored", "duplicate", "error"}
             A(m) == IF \E s \in DOMAIN slots : slots[s] = m THEN byslot[SlotOf(m)] ELSE sent[m]
  <2>1. DOMAIN sent = 1..Len(sent) /\ Len(sent) \in Nat
    BY LenProperties
  <2>2. DOMAIN byslot = DOMAIN slots
    BY <1>7, LenProperties DEF SendSlots, Distributing
  <2>3. sent' = [m \in DOMAIN sent |-> A(m)]
    BY <1>7 DEF SendSlots
  <2>4. \A m \in DOMAIN sent : A(m) \in Seq(V)
    <3> SUFFICES ASSUME NEW m \in DOMAIN sent
                 PROVE  A(m) \in Seq(V)
      OBVIOUS
    <3>1. sent[m] \in Seq(V)
      BY <2>1, ElementOfSeq
    <3>2. CASE \E s \in DOMAIN slots : slots[s] = m
      <4>1. SlotOf(m) \in DOMAIN byslot
        BY <2>2, <3>2 DEF SlotOf
      <4>2. byslot[SlotOf(m)] \in Seq(V)
        BY <4>1, LenProperties, ElementOfSeq
      <4> QED
        BY <3>2, <4>2
    <3> QED
      BY <3>1, <3>2
  <2> HIDE DEF A, V
  <2>5. sent' \in [1..Len(sent) -> Seq(V)]
    BY <2>1, <2>3, <2>4
  <2>6. sent' \in Seq(Seq(V))
    BY <2>1, <2>5, SeqOfFunction
  <2>7. UNCHANGED <<stored, before, settled, msgs, entries, slots, i, seen, skip, best, outcomes, results, byslot>>
        /\ pc' = "sent"
    BY <1>7 DEF SendSlots
  <2> QED
    BY <1>1, <2>6, <2>7 DEF V
<1> QED
  BY <1>3, <1>4, <1>5, <1>6, <1>7

\* What the transaction leaves is what BatchRule says.
LEMMA WriteDoes ==
    ASSUME TypeOK, LinedUp, Fresh, Resolved, Write
    PROVE  /\ stored' = Resolve(stored \union KeptEvents(msgs))
           /\ OnePerSlot(stored) /\ OnePerSlot(stored')
<1>1. pc = "write" /\ stored' = Resolve(stored \union {WriteBatch[k] : k \in DOMAIN WriteBatch})
  BY DEF Write
<1>2. {WriteBatch[n] : n \in DOMAIN WriteBatch} = KeptEvents(msgs)
  BY <1>1, BestWritten
<1>3. stored' = Resolve(stored \union KeptEvents(msgs))
  BY <1>1, <1>2
<1>4. stored \in SUBSET Event /\ OnePerSlot(stored) /\ IsBatch(msgs)
  BY BatchOf DEF TypeOK, Fresh
<1>5. OnePerSlot(Resolve(stored \union KeptEvents(msgs)))
  BY ONLY <1>4, RoundCovers
<1> QED
  BY <1>3, <1>4, <1>5

LEMMA SameLength ==
    ASSUME NEW a \in Nat, NEW b \in Nat, 1..a = 1..b
    PROVE  a = b
<1>1. ASSUME a < b
      PROVE  FALSE
  <2>1. b \in 1..b
    BY <1>1
  <2> QED
    BY <1>1, <2>1
<1>2. ASSUME b < a
      PROVE  FALSE
  <2>1. a \in 1..a
    BY <1>2
  <2> QED
    BY <1>2, <2>1
<1> QED
  BY <1>1, <1>2

LEMMA NextFresh ==
    ASSUME TypeOK, LinedUp, Fresh, Resolved, [Next]_vars, TypeOK'
    PROVE  Fresh'
<1>0. N \in Nat
  BY Lengths
<1>12. DOMAIN sent' = DOMAIN sent => Len(sent') = Len(sent)
  <2>1. sent \in Seq(Seq(Verdict)) /\ sent' \in Seq(Seq(Verdict))
    BY DEF TypeOK, Verdict
  <2>2. DOMAIN sent = 1..Len(sent) /\ DOMAIN sent' = 1..Len(sent') /\ Len(sent) \in Nat /\ Len(sent') \in Nat
    BY <2>1, LenProperties
  <2> QED
    BY <2>2, SameLength
<1>1. ASSUME NEW es \in Messages, Gather(es)
      PROVE  Fresh'
  <2>1. /\ pc = "gather" /\ pc' = "gather" /\ msgs' = Append(msgs, [events |-> es])
        /\ sent' = Append(sent, <<>>)
        /\ UNCHANGED <<stored, settled, seen, skip, best, results>>
    BY <1>1 DEF Gather
  <2>2. Len(msgs) \in Nat /\ Len(sent) = Len(msgs) /\ \A m \in DOMAIN msgs : sent[m] = <<>>
    BY <2>1, LenProperties DEF Fresh, TypeOK
  <2>3. Len(msgs') = Len(msgs) + 1 /\ DOMAIN msgs' = 1..(Len(msgs) + 1) /\ DOMAIN msgs = 1..Len(msgs)
    BY <2>1, AppendProperties, LenProperties DEF TypeOK
  <2>4. /\ Len(sent') = Len(sent) + 1
        /\ sent'[Len(sent) + 1] = <<>>
        /\ \A m \in 1..Len(sent) : sent'[m] = sent[m]
    BY <2>1, AppendProperties DEF TypeOK
  <2>5. \A m \in DOMAIN msgs' : sent'[m] = <<>>
    BY <2>2, <2>3, <2>4
  <2> QED
    BY <2>1, <2>2, <2>3, <2>4, <2>5 DEF Fresh
<1>2. CASE GatherEnd
  <2>1. /\ pc = "gather" /\ N > 0 /\ pc' = "dedup" /\ N' = N /\ skip' \in [1..N -> BOOLEAN]
        /\ UNCHANGED <<stored, settled, msgs, sent, best, results>>
    BY <1>2 DEF GatherEnd, N
  <2>2. Len(skip') = N
    BY <1>0, <2>1, SeqOfFunction
  <2> QED
    BY <2>1, <2>2 DEF Fresh
<1>3. CASE Dedup
  <2>1. /\ pc = "dedup" /\ pc' = "dedup" /\ N' = N
        /\ skip' = [skip EXCEPT ![i] = entries[i].event \in seen]
        /\ UNCHANGED <<stored, settled, msgs, sent, best, results>>
    BY <1>3 DEF Dedup, N
  <2>2. Len(skip') = Len(skip)
    <3>1. skip \in Seq(BOOLEAN) /\ (entries[i].event \in seen) \in BOOLEAN
      BY DEF TypeOK
    <3> QED
      BY ONLY <2>1, <3>1, PutInto
  <2> QED
    BY <2>1, <2>2 DEF Fresh
<1>4. CASE ResolveEntry
  <2>1. /\ pc = "resolve" /\ pc' = "resolve" /\ N' = N
        /\ UNCHANGED <<stored, settled, msgs, sent, results>>
        /\ \/ skip' = skip
           \/ \E j : skip' = [skip EXCEPT ![j] = TRUE]
    BY <1>4 DEF ResolveEntry, N
  <2>2. Len(skip') = Len(skip)
    <3>1. skip \in Seq(BOOLEAN) /\ TRUE \in BOOLEAN
      BY DEF TypeOK
    <3>2. \A j : Len([skip EXCEPT ![j] = TRUE]) = Len(skip)
      BY ONLY <3>1, PutInto
    <3> QED
      BY ONLY <2>1, <3>2
  <2> QED
    BY <2>1, <2>2 DEF Fresh
<1>5. CASE DedupEnd \/ ResolveEnd
  <2>1. /\ pc \in {"dedup", "resolve"} /\ pc' \in {"resolve", "write"} /\ N' = N
        /\ UNCHANGED <<stored, settled, msgs, sent, skip, results>>
    BY <1>5 DEF DedupEnd, ResolveEnd, N
  <2> QED
    BY <2>1 DEF Fresh
<1>6. CASE Write \/ WriteFails
  <2>1. /\ pc = "write" /\ pc' \in {"results", "errors"} /\ N' = N
        /\ UNCHANGED <<msgs, sent, skip, results>>
    BY <1>6 DEF Write, WriteFails, N
  <2>2. OnePerSlot(stored')
    BY <1>6, WriteDoes DEF WriteFails, Fresh
  <2> QED
    BY <2>1, <2>2 DEF Fresh
<1>7. CASE ResultEntry \/ ErrorEntry \/ ResultsEnd
  <2>1. /\ pc \in {"results", "errors"} /\ pc' \in {"results", "errors", "distribute"} /\ N' = N
        /\ UNCHANGED <<stored, msgs, sent, skip>>
    BY <1>7 DEF ResultEntry, ErrorEntry, ResultsEnd, N
  <2> QED
    BY <2>1 DEF Fresh
<1>8. CASE Distribute
  <2>1. /\ pc = "distribute" /\ pc' = "distribute" /\ N' = N
        /\ UNCHANGED <<stored, msgs, skip>>
        /\ DOMAIN sent' = DOMAIN sent
    BY <1>8 DEF Distribute, N
  <2> QED
    BY <1>12, <2>1 DEF Fresh
<1>9. CASE SendSlots
  <2>1. /\ pc = "distribute" /\ pc' = "sent" /\ N' = N
        /\ UNCHANGED <<stored, msgs, skip>>
        /\ DOMAIN sent' = DOMAIN sent
    BY <1>9 DEF SendSlots, N
  <2> QED
    BY <1>12, <2>1 DEF Fresh
<1>10. CASE NextRound
  <2>1. /\ pc' = "gather" /\ msgs' = <<>> /\ skip' = <<>> /\ seen' = {} /\ best' = {}
        /\ results' = <<>> /\ settled' = <<>> /\ sent' = <<>> /\ stored' = stored
    BY <1>10 DEF NextRound
  <2> QED
    BY <2>1 DEF Fresh
<1>11. CASE UNCHANGED vars
  BY <1>11 DEF vars, Fresh, N
<1> QED
  BY <1>1, <1>2, <1>3, <1>4, <1>5, <1>6, <1>7, <1>8, <1>9, <1>10, <1>11 DEF Next

LEMMA NextDecided ==
    ASSUME TypeOK, LinedUp, Fresh, Resolved, Decided, [Next]_vars
    PROVE  Decided'
<1>1. CASE Write
  <2>1. /\ pc' = "results" /\ before' = stored /\ settled' = Verdicts(stored, msgs) /\ msgs' = msgs
    BY <1>1 DEF Write
  <2>2. stored' = Resolve(stored \union KeptEvents(msgs)) /\ OnePerSlot(stored)
    BY <1>1, WriteDoes
  <2> QED
    BY <2>1, <2>2 DEF Decided
<1>2. CASE WriteFails
  BY <1>2 DEF WriteFails, Decided
<1>3. CASE ResultEntry \/ ErrorEntry \/ ResultsEnd \/ Distribute \/ SendSlots
  <2>1. /\ UNCHANGED <<before, stored, settled, msgs>>
        /\ pc \in {"results", "errors", "distribute"}
        /\ pc' \in {"results", "errors", "distribute", "sent"}
        /\ pc' \in {"results", "errors"} => pc' = pc
    BY <1>3 DEF ResultEntry, ErrorEntry, ResultsEnd, Distribute, SendSlots
  <2> QED
    BY <2>1 DEF Decided
<1>4. CASE ~ (Write \/ WriteFails \/ ResultEntry \/ ErrorEntry \/ ResultsEnd \/ Distribute \/ SendSlots)
  <2>1. \/ pc' \notin {"results", "errors", "distribute", "sent"}
        \/ UNCHANGED <<pc, before, stored, settled, msgs>>
    BY <1>4 DEF Next, vars, Gather, GatherEnd, Dedup, DedupEnd, ResolveEntry, ResolveEnd, NextRound
  <2> QED
    BY <2>1 DEF Decided
<1> QED
  BY <1>1, <1>2, <1>3, <1>4

-----------------------------------------------------------------------------
(* The results *)

\* The outcome that an entry takes is its own.
LEMMA HeadOutcome ==
    ASSUME TypeOK, Outcomes, pc = "results", i \in 1..N, ~ skip[i]
    PROVE  outcomes # <<>> /\ (Head(outcomes) <=> ~ Covered(entries[i].event, before))
<1>1. N \in Nat /\ i \in Nat /\ i \in i..N
  BY Lengths
<1>2. Count(skip, i, i) = 1
  <2>1. /\ Count(skip, i, i) = Count(skip, i + 1, i) + (IF skip[i] THEN 0 ELSE 1)
        /\ Count(skip, i + 1, i) = 0
    <3>1. /\ \A a, b \in Nat : a > b => Count(skip, a, b) = 0
          /\ \A a, b \in Nat : a <= b =>
                Count(skip, a, b) = Count(skip, a + 1, b) + (IF skip[a] THEN 0 ELSE 1)
      BY CountSteps
    <3>2. i + 1 \in Nat /\ i + 1 > i /\ i <= i
      BY <1>1
    <3> QED
      BY <1>1, <3>1, <3>2
  <2> QED
    BY <2>1
<1>3. 1 \in DOMAIN outcomes /\ (outcomes[1] <=> ~ Covered(entries[i].event, before))
  BY <1>1, <1>2 DEF Outcomes
<1>4. outcomes # <<>>
  BY <1>3
<1>5. Head(outcomes) = outcomes[1]
  BY DEF Head
<1> QED
  BY <1>3, <1>4, <1>5

\* One entry less counts for one outcome less, if it took one.
LEMMA NextOutcomes ==
    ASSUME TypeOK, LinedUp, Fresh, Resolved, Resulting, Outcomes, [Next]_vars
    PROVE  Outcomes'
<1>0. N \in Nat
  BY Lengths
<1>1. CASE Write
  <2>1. /\ pc = "write" /\ i' = 1 /\ before' = stored /\ UNCHANGED <<skip, entries>> /\ N' = N
        /\ outcomes' = [n \in DOMAIN WriteBatch |->
                             ~ Covered(WriteBatch[n], stored \union {WriteBatch[k] : k \in 1..(n - 1)})]
    BY <1>1 DEF Write, N
  <2>2. ASSUME NEW j \in 1..N, ~ skip[j]
        PROVE  /\ Count(skip, 1, j) \in DOMAIN outcomes'
               /\ outcomes'[Count(skip, 1, j)] <=> ~ Covered(entries[j].event, stored)
    <3>1. j \in Unskipped
      BY <2>2 DEF Unskipped
    <3>2. Count(skip, 1, j) \in DOMAIN WriteBatch
      BY <2>1, <3>1, BatchEvents DEF Fresh
    <3>3. PICK n : n = Count(skip, 1, j)
      OBVIOUS
    <3>4. /\ n \in DOMAIN outcomes'
          /\ outcomes'[n] <=> ~ Covered(WriteBatch[n], stored \union {WriteBatch[k] : k \in 1..(n - 1)})
      BY <2>1, <3>2, <3>3
    <3>5. Covered(WriteBatch[n], stored \union {WriteBatch[k] : k \in 1..(n - 1)})
             <=> Covered(entries[j].event, stored)
      BY <2>1, <3>1, <3>3, OutcomeAlone
    <3> QED
      BY <3>3, <3>4, <3>5
  <2> QED
    BY <2>1, <2>2 DEF Outcomes
<1>2. CASE ResultEntry
  <2>1. /\ pc = "results" /\ i <= N /\ i' = i + 1 /\ UNCHANGED <<skip, entries, before>> /\ N' = N
        /\ skip[i] => outcomes' = outcomes
        /\ ~ skip[i] /\ outcomes # <<>> => outcomes' = Tail(outcomes)
    BY <1>2 DEF ResultEntry, N
  <2>2. i \in 1..N /\ i \in Nat
    BY <1>0, <2>1 DEF Resulting
  <2> SUFFICES ASSUME NEW j \in (i + 1)..N, ~ skip[j]
               PROVE  /\ Count(skip, i + 1, j) \in DOMAIN outcomes'
                      /\ outcomes'[Count(skip, i + 1, j)] <=> ~ Covered(entries[j].event, before)
    BY <2>1 DEF Outcomes
  <2>3. j \in i..N /\ j \in Nat /\ j - 1 \in Nat /\ (j - 1) + 1 = j /\ i + 1 \in Nat /\ i + 1 <= j /\ i <= j
    BY <1>0, <2>2
  <2>4. /\ Count(skip, i, j) \in DOMAIN outcomes
        /\ outcomes[Count(skip, i, j)] <=> ~ Covered(entries[j].event, before)
    BY <2>1, <2>3 DEF Outcomes
  <2>5. Count(skip, i, j) = Count(skip, i + 1, j) + (IF skip[i] THEN 0 ELSE 1)
    BY <2>2, <2>3, CountSteps
  <2>6. Count(skip, i + 1, j) \in Nat
    BY <2>3, CountSteps
  <2>7. CASE skip[i]
    BY <2>1, <2>4, <2>5, <2>6, <2>7
  <2>8. CASE ~ skip[i]
    <3>1. Count(skip, i, j) = Count(skip, i + 1, j) + 1
      BY <2>5, <2>8
    <3>2. Count(skip, i + 1, j) # 0
      <4>1. /\ Count(skip, i + 1, (j - 1) + 1)
                 = Count(skip, i + 1, j - 1) + (IF skip[(j - 1) + 1] THEN 0 ELSE 1)
            /\ Count(skip, i + 1, j - 1) \in Nat
        <5>1. i + 1 \in Nat /\ j - 1 \in Nat /\ i + 1 <= (j - 1) + 1
          BY ONLY <2>3
        <5> QED
          BY ONLY <5>1, CountSteps
      <4> QED
        BY <2>3, <4>1
    <3>3. outcomes # <<>> /\ outcomes' = Tail(outcomes)
      BY <2>1, <2>2, <2>8, HeadOutcome
    <3>4. /\ outcomes \in Seq(BOOLEAN) /\ Len(outcomes) \in Nat /\ DOMAIN outcomes = 1..Len(outcomes)
      BY LenProperties DEF TypeOK
    <3>5. /\ outcomes' \in Seq(BOOLEAN) /\ Len(outcomes') = Len(outcomes) - 1
          /\ \A k \in 1..Len(outcomes') : outcomes'[k] = outcomes[k + 1]
      BY <3>3, <3>4, HeadTailProperties
    <3>6. DOMAIN outcomes' = 1..Len(outcomes')
      BY <3>5, LenProperties
    <3>7. Count(skip, i + 1, j) \in 1..Len(outcomes')
      BY <2>4, <2>6, <3>1, <3>2, <3>4, <3>5
    <3> QED
      BY <2>4, <3>1, <3>5, <3>6, <3>7
  <2> QED
    BY <2>7, <2>8
<1>3. CASE ~ (Write \/ ResultEntry)
  <2>1. \/ pc' # "results"
        \/ UNCHANGED <<pc, i, skip, entries, outcomes, before>>
    BY <1>3 DEF Next, vars, Gather, GatherEnd, Dedup, DedupEnd, ResolveEntry, ResolveEnd, WriteFails,
                ErrorEntry, ResultsEnd, Distribute, SendSlots, NextRound
  <2> QED
    BY <2>1 DEF Outcomes, N
<1> QED
  BY <1>1, <1>2, <1>3

LEMMA SettledAt ==
    ASSUME NEW S, NEW G, NEW m \in DOMAIN G, NEW k \in DOMAIN G[m].events
    PROVE  /\ Verdicts(S, G)[m][k] = Outcome(S, G, <<m, k>>)
           /\ Failures(G)[m][k] = "error"
BY DEF Verdicts, Failures

\* Each result is the one that was settled for its entry.
LEMMA NextResulting ==
    ASSUME TypeOK, LinedUp, Fresh, Resolved, Decided, Outcomes, Resulting, [Next]_vars
    PROVE  Resulting'
<1>0. N \in Nat
  BY Lengths
<1>1. CASE Write \/ WriteFails
  <2>1. pc = "write" /\ i' = 1 /\ results' = results /\ N' = N
    BY <1>1 DEF Write, WriteFails, N
  <2>2. Len(results') = 0 /\ 1..(1 - 1) = {} /\ 1 \in 1..(N + 1)
    BY <1>0, <2>1 DEF Fresh
  <2> QED
    BY <2>1, <2>2 DEF Resulting
<1>2. CASE ResultEntry \/ ErrorEntry
  <2>1. /\ pc \in {"results", "errors"} /\ pc' = pc /\ i <= N /\ i' = i + 1
        /\ UNCHANGED <<entries, msgs, slots, settled>> /\ N' = N
    BY <1>2 DEF ResultEntry, ErrorEntry, N
  <2>2. /\ i \in 1..N /\ i \in Nat /\ Len(results) = i - 1
        /\ \A j \in 1..(i - 1) : results[j] = settled[At[j][1]][At[j][2]]
    BY <1>0, <2>1 DEF Resulting
  <2>3. At' = At
    BY <2>1, AtStays
  <2> DEFINE x == settled[At[i][1]][At[i][2]]
  <2>4. /\ At[i] = <<At[i][1], At[i][2]>> /\ At[i][1] \in DOMAIN msgs
        /\ At[i][2] \in DOMAIN msgs[At[i][1]].events
        /\ entries[i].event = Ev(msgs, At[i])
    BY <2>2, AtFacts
  <2>5. results' = Append(results, x)
    <3>1. CASE ErrorEntry
      <4>1. settled = Failures(msgs) /\ results' = Append(results, "error")
        BY <3>1 DEF ErrorEntry, Decided
      <4> QED
        <5>1. Failures(msgs)[At[i][1]][At[i][2]] = "error"
          BY ONLY <2>4, SettledAt
        <5> QED
          BY ONLY <4>1, <5>1
    <3>2. CASE ResultEntry
      <4>1. pc = "results" /\ settled = Verdicts(before, msgs)
        BY <3>2 DEF ResultEntry, Decided
      <4>2. x = Outcome(before, msgs, At[i])
        <5>1. /\ At[i][1] \in DOMAIN msgs
              /\ At[i][2] \in DOMAIN msgs[At[i][1]].events
          BY <2>4
        <5>2. Verdicts(before, msgs)[At[i][1]][At[i][2]] = Outcome(before, msgs, <<At[i][1], At[i][2]>>)
          BY ONLY <5>1, SettledAt
        <5>3. At[i] = <<At[i][1], At[i][2]>>
          BY <2>4
        <5>4. Outcome(before, msgs, <<At[i][1], At[i][2]>>) = Outcome(before, msgs, At[i])
          BY ONLY <5>3
        <5> QED
          BY ONLY <4>1, <5>2, <5>4
      <4>3. skip[i] <=> ~ IsKept(msgs, At[i])
        BY <2>2, <4>1, MarksAreRight
      <4>4. CASE skip[i]
        BY <3>2, <4>2, <4>3, <4>4 DEF ResultEntry, Outcome
      <4>5. CASE ~ skip[i]
        <5>1. outcomes # <<>> /\ (Head(outcomes) <=> ~ Covered(entries[i].event, before))
          BY <2>2, <4>1, <4>5, HeadOutcome
        <5>2. results' = Append(results, IF Head(outcomes) THEN "stored" ELSE "duplicate")
          BY <3>2, <4>5, <5>1 DEF ResultEntry
        <5>3. x = IF ~ Covered(entries[i].event, before) THEN "stored" ELSE "duplicate"
          BY <2>4, <4>2, <4>3, <4>5 DEF Outcome
        <5> QED
          BY <5>1, <5>2, <5>3
      <4> QED
        BY <4>4, <4>5
    <3> QED
      BY <1>2, <3>1, <3>2
  <2>6. /\ Len(results') = i
        /\ \A j \in 1..i : results'[j] = settled[At[j][1]][At[j][2]]
    <3>1. results \in Seq(Verdict \union {x}) /\ x \in Verdict \union {x}
      <4>1. results \in [1..Len(results) -> Verdict] /\ Len(results) \in Nat
        BY LenProperties DEF TypeOK, Verdict
      <4> HIDE DEF x
      <4>2. results \in [1..Len(results) -> Verdict \union {x}]
        BY <4>1
      <4> QED
        BY <4>1, <4>2, SeqOfFunction
    <3> HIDE DEF x
    <3>2. /\ Len(results') = Len(results) + 1 /\ results'[Len(results) + 1] = x
          /\ \A j \in 1..Len(results) : results'[j] = results[j]
      BY <2>5, <3>1, AppendProperties
    <3>3. Len(results) + 1 = i /\ \A j \in 1..i : j = i \/ j \in 1..(i - 1)
      BY <2>2
    <3> QED
      BY <2>2, <3>2, <3>3 DEF x
  <2>7. i + 1 \in 1..(N + 1) /\ (i + 1) - 1 = i
    BY <1>0, <2>2
  <2> QED
    BY <2>1, <2>3, <2>6, <2>7 DEF Resulting
<1>3. CASE ~ (Write \/ WriteFails \/ ResultEntry \/ ErrorEntry)
  <2>1. \/ pc' \notin {"results", "errors"}
        \/ UNCHANGED <<pc, i, results, entries, msgs, slots, settled>>
    BY <1>3 DEF Next, vars, Gather, GatherEnd, Dedup, DedupEnd, ResolveEntry, ResolveEnd,
                ResultsEnd, Distribute, SendSlots, NextRound
  <2>2. CASE UNCHANGED <<pc, i, results, entries, msgs, slots, settled>>
    <3>1. At' = At /\ N' = N
      BY <2>2, AtStays DEF N
    <3> QED
      BY <2>2, <3>1 DEF Resulting
  <2> QED
    BY <2>1, <2>2 DEF Resulting
<1> QED
  BY <1>1, <1>2, <1>3

\* An entry of a batch goes where the results of its batch stop so far.
LEMMA NextOfItsBatch ==
    ASSUME TypeOK, LinedUp, Distributing, pc = "distribute", i \in 1..N,
           NEW t \in DOMAIN slots, slots[t] = At[i][1]
    PROVE  At[i][2] = Len(byslot[t]) + 1
<1> DEFINE m == At[i][1]
           L == Len(byslot[t])
<1>1. /\ N \in Nat /\ i \in Nat
      /\ m \in DOMAIN msgs /\ m \in Nat
      /\ At[i] = <<At[i][1], At[i][2]>>
      /\ At[i][2] \in DOMAIN msgs[m].events /\ At[i][2] \in Nat
  BY AtFacts
<1>2. DOMAIN msgs[m].events = 1..Len(msgs[m].events) /\ Len(msgs[m].events) \in Nat
  BY <1>1, BatchOf DEF TypeOK
<1>3. L \in Nat
  <2>1. t \in DOMAIN byslot
    BY LenProperties DEF Distributing, TypeOK
  <2>2. byslot[t] \in Seq(Verdict)
    BY <2>1, LenProperties, ElementOfSeq DEF TypeOK, Verdict
  <2> QED
    BY <2>2, LenProperties
<1>4. \A j \in 1..N : At[j][1] = m => (j < i <=> At[j][2] <= L)
  BY DEF Distributing
<1>5. At[i][2] > L
  BY <1>1, <1>3, <1>4
<1>6. ASSUME At[i][2] > L + 1
      PROVE  FALSE
  <2>1. L + 1 \in DOMAIN msgs[m].events
    BY <1>1, <1>2, <1>3, <1>6
  <2>2. <<m, L + 1>> \in Entries(msgs)
    BY <1>1, <2>1, Names
  <2>3. PICK j \in 1..N : At[j] = <<m, L + 1>>
    BY <2>2, AtFacts
  <2>4. At[j][1] = m /\ At[j][2] = L + 1
    BY <2>3
  <2>5. ~ (j < i)
    BY <1>3, <1>4, <2>4
  <2>6. Earlier(At[j], At[i])
    BY <1>1, <1>3, <1>6, <2>4 DEF Earlier
  <2>7. j < i
    BY <2>6, AtFacts
  <2> QED
    BY <2>5, <2>7
<1> QED
  BY <1>1, <1>3, <1>5, <1>6

LEMMA SamePair ==
    ASSUME NEW x, NEW y, x = <<x[1], x[2]>>, y = <<y[1], y[2]>>, x[1] = y[1], x[2] = y[2]
    PROVE  x = y
OBVIOUS

LEMMA NextDistributing ==
    ASSUME TypeOK, LinedUp, Fresh, Resulting, Distributing, [Next]_vars
    PROVE  Distributing'
<1>0. /\ N \in Nat
      /\ \A m \in DOMAIN msgs : /\ Len(msgs[m].events) \in Nat
                                /\ DOMAIN msgs[m].events = 1..Len(msgs[m].events)
      /\ \A s \in DOMAIN slots : slots[s] \in DOMAIN msgs /\ Len(msgs[slots[s]].events) # 1
      /\ \A s, r \in DOMAIN slots : slots[s] = slots[r] => s = r
  BY Lengths, BatchOf DEF LinedUp, OneSlotEach, TypeOK
<1>1. CASE ResultsEnd
  <2>1. /\ pc \in {"results", "errors"} /\ i > N /\ i' = 1 /\ N' = N
        /\ byslot' = [s \in DOMAIN slots |-> <<>>]
        /\ UNCHANGED <<entries, msgs, slots, settled, results, sent>>
    BY <1>1 DEF ResultsEnd, N
  <2>2. i = N + 1 /\ Len(results) = N /\ \A j \in 1..N : results[j] = settled[At[j][1]][At[j][2]]
    <3>1. i = N + 1
      BY <1>0, <2>1 DEF Resulting
    <3>2. i - 1 = N
      BY <1>0, <3>1
    <3> QED
      BY <2>1, <3>1, <3>2 DEF Resulting
  <2>3. At' = At
    BY <2>1, AtStays
  <2>4. Len(byslot') = Len(slots)
    <3>1. DOMAIN slots = 1..Len(slots) /\ Len(slots) \in Nat
      BY LenProperties DEF TypeOK
    <3>2. byslot' \in [1..Len(slots) -> {<<>>}]
      BY <2>1, <3>1
    <3> QED
      BY <3>1, <3>2, SeqOfFunction
  <2>5. ASSUME NEW s \in DOMAIN slots
        PROVE  /\ Len(byslot'[s]) <= Len(msgs[slots[s]].events)
               /\ \A j \in 1..N : At[j][1] = slots[s] =>
                     /\ j < 1 <=> At[j][2] <= Len(byslot'[s])
                     /\ j < 1 => byslot'[s][At[j][2]] = results[j]
    <3>1. Len(byslot'[s]) = 0
      BY <2>1
    <3>2. \A j \in 1..N : At[j][2] >= 1
      <4> SUFFICES ASSUME NEW j \in 1..N
                   PROVE  At[j][2] >= 1
        OBVIOUS
      <4>1. At[j][1] \in DOMAIN msgs /\ At[j][2] \in DOMAIN msgs[At[j][1]].events
        BY AtFacts
      <4> QED
        BY <1>0, <4>1
    <3>3. \A j \in 1..N : At[j][2] \in Nat
      BY AtFacts
    <3> QED
      BY <1>0, <3>1, <3>2, <3>3
  <2>6. 1 \in 1..(N + 1) /\ 1..(1 - 1) = {}
    BY <1>0
  <2> QED
    BY <2>1, <2>2, <2>3, <2>4, <2>5, <2>6 DEF Distributing
<1>2. CASE Distribute
  <2> DEFINE t == entries[i].to
             m == At[i][1]
  <2>1. /\ pc = "distribute" /\ i <= N /\ i' = i + 1 /\ N' = N
        /\ UNCHANGED <<entries, msgs, slots, settled, results>>
        /\ entries[i].single => sent' = [sent EXCEPT ![t] = <<results[i]>>] /\ byslot' = byslot
        /\ ~ entries[i].single => byslot' = [byslot EXCEPT ![t] = Append(byslot[t], results[i])] /\ sent' = sent
    BY <1>2 DEF Distribute, N
  <2>2. /\ i \in 1..N /\ i \in Nat /\ Len(results) = N /\ Len(byslot) = Len(slots)
        /\ \A j \in 1..N : results[j] = settled[At[j][1]][At[j][2]]
        /\ \A s \in DOMAIN slots :
              /\ Len(byslot[s]) <= Len(msgs[slots[s]].events)
              /\ \A j \in 1..N : At[j][1] = slots[s] =>
                    /\ j < i <=> At[j][2] <= Len(byslot[s])
                    /\ j < i => byslot[s][At[j][2]] = results[j]
        /\ \A j \in 1..(i - 1) : entries[j].single => sent[At[j][1]] = <<results[j]>>
    <3>1. i \in 1..N /\ i \in Nat
      BY <1>0, <2>1 DEF Distributing
    <3>2. /\ Len(results) = N /\ Len(byslot) = Len(slots)
          /\ \A j \in 1..N : results[j] = settled[At[j][1]][At[j][2]]
      BY ONLY <2>1, Distributing DEF Distributing
    <3>3. \A s \in DOMAIN slots :
              /\ Len(byslot[s]) <= Len(msgs[slots[s]].events)
              /\ \A j \in 1..N : At[j][1] = slots[s] =>
                    /\ j < i <=> At[j][2] <= Len(byslot[s])
                    /\ j < i => byslot[s][At[j][2]] = results[j]
      BY ONLY <2>1, Distributing DEF Distributing
    <3>4. \A j \in 1..(i - 1) : entries[j].single => sent[At[j][1]] = <<results[j]>>
      BY ONLY <2>1, Distributing DEF Distributing
    <3> QED
      BY ONLY <3>1, <3>2, <3>3, <3>4
  <2>3. At' = At
    BY <2>1, AtStays
  <2>4. /\ \A j \in 1..N : /\ At[j] = <<At[j][1], At[j][2]>>
                           /\ At[j][1] \in DOMAIN msgs
                           /\ At[j][2] \in DOMAIN msgs[At[j][1]].events /\ At[j][2] \in Nat
                           /\ entries[j].single <=> Len(msgs[At[j][1]].events) = 1
                           /\ entries[j].single => entries[j].to = At[j][1]
                           /\ ~ entries[j].single => entries[j].to \in DOMAIN slots
                                           /\ slots[entries[j].to] = At[j][1]
        /\ \A j, k \in 1..N : At[j] = At[k] => j = k
    BY AtFacts
  <2>5. /\ i + 1 \in 1..(N + 1)
        /\ (i + 1) - 1 = i
        /\ \A j \in 1..N : j < i + 1 <=> j < i \/ j = i
        /\ \A j \in 1..i : j \in 1..(i - 1) \/ j = i
        /\ 1..(i - 1) \subseteq 1..N
    BY <1>0, <2>2
  <2>6. DOMAIN byslot = DOMAIN slots /\ DOMAIN sent = DOMAIN msgs
    <3>1. /\ DOMAIN byslot = 1..Len(byslot) /\ DOMAIN slots = 1..Len(slots)
          /\ DOMAIN sent = 1..Len(sent) /\ DOMAIN msgs = 1..Len(msgs)
      BY LenProperties DEF TypeOK
    <3> QED
      BY <2>2, <3>1 DEF Fresh
  <2> HIDE DEF t
  <2>7. CASE entries[i].single
    <3>1. t = m /\ Len(msgs[m].events) = 1
      BY <2>2, <2>4, <2>7 DEF t
    <3>2. \A s \in DOMAIN slots : slots[s] # m
      BY <1>0, <3>1
    <3>3. ASSUME NEW s \in DOMAIN slots
          PROVE  /\ Len(byslot'[s]) <= Len(msgs[slots[s]].events)
                 /\ \A j \in 1..N : At[j][1] = slots[s] =>
                     /\ j < i + 1 <=> At[j][2] <= Len(byslot'[s])
                     /\ j < i + 1 => byslot'[s][At[j][2]] = results[j]
      BY <2>1, <2>2, <2>5, <2>7, <3>2
    <3>4. \A j \in 1..(i - 1) : entries[j].single => At[j][1] # m
      <4> SUFFICES ASSUME NEW j \in 1..(i - 1), entries[j].single, At[j][1] = m
                   PROVE  FALSE
        OBVIOUS
      <4>1. j \in 1..N /\ j # i
        BY <2>2, <2>5
      <4>2. At[j][2] = 1 /\ At[i][2] = 1
        BY <1>0, <2>2, <2>4, <3>1, <4>1
      <4>3. At[j] = At[i]
        <5>1. /\ At[j] = <<At[j][1], At[j][2]>> /\ At[i] = <<At[i][1], At[i][2]>>
              /\ At[j][1] = At[i][1] /\ At[j][2] = At[i][2]
          BY <2>2, <2>4, <4>1, <4>2
        <5> QED
          BY ONLY <5>1, SamePair
      <4> QED
        BY <2>2, <2>4, <4>1, <4>3
    <3>5. \A j \in 1..i : entries[j].single => sent'[At[j][1]] = <<results[j]>>
      <4> SUFFICES ASSUME NEW j \in 1..i, entries[j].single
                   PROVE  sent'[At[j][1]] = <<results[j]>>
        OBVIOUS
      <4>1. m \in DOMAIN sent
        BY <2>2, <2>4, <2>6
      <4>2. CASE j = i
        <5>1. sent' = [sent EXCEPT ![m] = <<results[i]>>]
          BY <2>1, <2>7, <3>1
        <5>2. sent'[At[i][1]] = <<results[i]>>
          BY ONLY <4>1, <5>1
        <5> QED
          BY <4>2, <5>2
      <4>3. CASE j \in 1..(i - 1)
        <5>1. At[j][1] # m /\ sent[At[j][1]] = <<results[j]>>
          BY <2>2, <3>4, <4>3
        <5>2. At[j][1] \in DOMAIN sent
          <6>1. j \in 1..N
            BY ONLY <1>0, <2>2, <4>3
          <6>2. At[j][1] \in DOMAIN msgs
            BY <2>4, <6>1
          <6> QED
            BY ONLY <2>6, <6>2
        <5>3. sent' = [sent EXCEPT ![m] = <<results[i]>>]
          BY <2>1, <2>7, <3>1
        <5>4. sent'[At[j][1]] = sent[At[j][1]]
          BY ONLY <5>1, <5>2, <5>3
        <5> QED
          BY <5>1, <5>4
      <4> QED
        BY <2>5, <4>2, <4>3
    <3>6. Len(byslot') = Len(slots)
      BY <2>1, <2>2, <2>7
    <3> QED
      BY ONLY <2>1, <2>2, <2>3, <2>5, <3>3, <3>5, <3>6, SMTT(30) DEF Distributing
  <2>8. CASE ~ entries[i].single
    <3>1. t \in DOMAIN slots /\ slots[t] = m
      BY <2>2, <2>4, <2>8 DEF t
    <3>2. At[i][2] = Len(byslot[t]) + 1
      BY <2>1, <2>2, <3>1, NextOfItsBatch
    <3>3. byslot[t] \in Seq(Verdict) /\ results[i] \in Verdict /\ byslot \in Seq(Seq(Verdict))
      BY <2>2, <2>6, <3>1, LenProperties, ElementOfSeq DEF TypeOK, Verdict
    <3> DEFINE L == Len(byslot[t])
               B == Append(byslot[t], results[i])
    <3>4. /\ B \in Seq(Verdict) /\ Len(B) = L + 1 /\ B[L + 1] = results[i]
          /\ L \in Nat /\ \A k \in 1..L : B[k] = byslot[t][k]
      BY <3>3, AppendProperties, LenProperties
    <3>5. byslot' = [byslot EXCEPT ![t] = B] /\ Len(byslot') = Len(slots)
      <4>1. byslot' = [byslot EXCEPT ![t] = B]
        BY <2>1, <2>8
      <4> HIDE DEF B
      <4> QED
        BY <2>2, <3>3, <3>4, <4>1, PutInto
    <3> HIDE DEF B
    <3>6. ASSUME NEW s \in DOMAIN slots
          PROVE  /\ Len(byslot'[s]) <= Len(msgs[slots[s]].events)
                 /\ \A j \in 1..N : At[j][1] = slots[s] =>
                     /\ j < i + 1 <=> At[j][2] <= Len(byslot'[s])
                     /\ j < i + 1 => byslot'[s][At[j][2]] = results[j]
      <4>1. CASE s = t
        <5>1. byslot'[s] = B
          BY <2>6, <3>1, <3>5, <4>1
        <5>2. Len(B) <= Len(msgs[slots[s]].events)
          <6>1. At[i][2] \in 1..Len(msgs[m].events) /\ Len(msgs[m].events) \in Nat
            BY <1>0, <2>2, <2>4
          <6> QED
            BY <3>1, <3>2, <3>4, <4>1, <6>1
        <5>3. ASSUME NEW j \in 1..N, At[j][1] = m
              PROVE  /\ j < i + 1 <=> At[j][2] <= L + 1
                     /\ j < i + 1 => B[At[j][2]] = results[j]
          <6>1. (j < i <=> At[j][2] <= L) /\ (j < i => byslot[t][At[j][2]] = results[j])
            BY <2>2, <3>1, <5>3
          <6>2. At[j][2] \in Nat /\ At[j][2] >= 1
            BY <1>0, <2>4
          <6>3. At[j][2] = L + 1 => j = i
            <7>1. At[j][2] = L + 1 => At[j] = At[i]
              <8>1. /\ At[j] = <<At[j][1], At[j][2]>> /\ At[i] = <<At[i][1], At[i][2]>>
                    /\ At[j][1] = At[i][1]
                    /\ At[i][2] = L + 1
                BY <2>2, <2>4, <3>2, <5>3
              <8> QED
                BY ONLY <8>1, SamePair
            <7> QED
              BY <2>2, <2>4, <7>1
          <6>4. CASE j = i
            BY <2>5, <3>2, <3>4, <6>4
          <6>5. CASE j # i
            <7>1. j < i + 1 <=> j < i
              BY <2>5, <6>5
            <7>2. At[j][2] <= L + 1 <=> At[j][2] <= L
              BY <3>4, <6>2, <6>3, <6>5
            <7>3. j < i => B[At[j][2]] = results[j]
              BY <3>4, <6>1, <6>2
            <7> QED
              BY <6>1, <7>1, <7>2, <7>3
          <6> QED
            BY <6>4, <6>5
        <5> QED
          BY <3>1, <3>4, <4>1, <5>1, <5>2, <5>3
      <4>2. CASE s # t
        <5>1. byslot'[s] = byslot[s] /\ slots[s] # m
          BY <1>0, <2>6, <3>1, <3>5, <4>2
        <5> QED
          BY <2>2, <2>5, <5>1
      <4> QED
        BY <4>1, <4>2
    <3>7. ASSUME NEW j \in 1..i, entries[j].single
          PROVE  sent'[At[j][1]] = <<results[j]>>
      <4>1. j \in 1..(i - 1)
        BY <2>5, <2>8, <3>7
      <4>2. sent[At[j][1]] = <<results[j]>> /\ sent' = sent
        BY <2>1, <2>2, <2>8, <3>7, <4>1
      <4> QED
        BY <4>2
    <3>8. Len(byslot') = Len(slots)
      BY <3>5
    <3> HIDE DEF L
    <3> QED
      BY ONLY <2>1, <2>2, <2>3, <2>5, <3>6, <3>7, <3>8, SMTT(30) DEF Distributing
  <2> QED
    BY <2>7, <2>8
<1>3. CASE ~ (ResultsEnd \/ Distribute)
  <2>1. \/ pc' # "distribute"
        \/ UNCHANGED <<pc, i, results, entries, msgs, slots, settled, byslot, sent>>
    BY <1>3 DEF Next, vars, Gather, GatherEnd, Dedup, DedupEnd, ResolveEntry, ResolveEnd, Write, WriteFails,
                ResultEntry, ErrorEntry, SendSlots, NextRound
  <2>2. CASE UNCHANGED <<pc, i, results, entries, msgs, slots, settled, byslot, sent>>
    <3>1. At' = At /\ N' = N
      BY <2>2, AtStays DEF N
    <3> QED
      BY <2>2, <3>1 DEF Distributing
  <2> QED
    BY <2>1, <2>2 DEF Distributing
<1> QED
  BY <1>1, <1>2, <1>3

\* What is settled has a result for each event of each message.
LEMMA SettledShape ==
    ASSUME TypeOK, Decided, pc = "distribute"
    PROVE  /\ DOMAIN settled = DOMAIN msgs
           /\ \A m \in DOMAIN msgs :
                 settled[m] = [k \in DOMAIN msgs[m].events |-> settled[m][k]]
<1>1. settled = Verdicts(before, msgs) \/ settled = Failures(msgs)
  BY DEF Decided
<1>2. CASE settled = Verdicts(before, msgs)
  BY <1>2 DEF Verdicts
<1>3. CASE settled = Failures(msgs)
  BY <1>3 DEF Failures
<1> QED
  BY <1>1, <1>2, <1>3

LEMMA SameFunction ==
    ASSUME NEW D, NEW f, NEW g, f = [k \in D |-> f[k]], g = [k \in D |-> g[k]],
           \A k \in D : f[k] = g[k]
    PROVE  f = g
OBVIOUS

LEMMA NextRouted ==
    ASSUME TypeOK, LinedUp, Fresh, Decided, Distributing, ResultsRouted, [Next]_vars
    PROVE  ResultsRouted'
<1>1. CASE SendSlots
  <2> DEFINE A(m) == IF \E s \in DOMAIN slots : slots[s] = m THEN byslot[SlotOf(m)] ELSE sent[m]
  <2>1. /\ pc = "distribute" /\ i > N /\ pc' = "sent" /\ settled' = settled
        /\ sent' = [m \in DOMAIN sent |-> A(m)]
    BY <1>1 DEF SendSlots
  <2>2. /\ DOMAIN settled = DOMAIN msgs
        /\ \A m \in DOMAIN msgs :
              settled[m] = [k \in DOMAIN msgs[m].events |-> settled[m][k]]
    BY <2>1, SettledShape
  <2>3. DOMAIN sent = DOMAIN msgs /\ DOMAIN byslot = DOMAIN slots
    <3>1. /\ DOMAIN byslot = 1..Len(byslot) /\ DOMAIN slots = 1..Len(slots)
          /\ DOMAIN sent = 1..Len(sent) /\ DOMAIN msgs = 1..Len(msgs)
      BY LenProperties DEF TypeOK
    <3>2. Len(byslot) = Len(slots) /\ Len(sent) = Len(msgs)
      BY <2>1 DEF Distributing, Fresh
    <3> QED
      BY <3>1, <3>2
  <2>4. /\ \A m \in DOMAIN msgs : /\ Len(msgs[m].events) \in Nat \ {0}
                                  /\ DOMAIN msgs[m].events = 1..Len(msgs[m].events)
        /\ \A s \in DOMAIN slots : slots[s] \in DOMAIN msgs /\ Len(msgs[slots[s]].events) # 1
        /\ \A m \in DOMAIN msgs : Len(msgs[m].events) # 1 => \E s \in DOMAIN slots : slots[s] = m
    BY BatchOf DEF LinedUp, OneSlotEach, TypeOK
  <2>5. \A m \in DOMAIN msgs : \A k \in DOMAIN msgs[m].events :
           \E j \in 1..N : At[j][1] = m /\ At[j][2] = k
    <3> SUFFICES ASSUME NEW m \in DOMAIN msgs, NEW k \in DOMAIN msgs[m].events
                 PROVE  \E j \in 1..N : At[j][1] = m /\ At[j][2] = k
      OBVIOUS
    <3>1. <<m, k>> \in Entries(msgs)
      BY Names
    <3>2. PICK j \in 1..N : At[j] = <<m, k>>
      BY <3>1, AtFacts
    <3> QED
      BY <3>2
  <2>6. N \in Nat /\ i - 1 = N /\ \A j \in 1..N : j < i /\ j \in 1..(i - 1)
    <3>1. N \in Nat /\ i \in 1..(N + 1)
      BY <2>1, Lengths DEF Distributing
    <3> QED
      BY <2>1, <3>1
  <2>7. /\ \A j \in 1..N : results[j] = settled[At[j][1]][At[j][2]]
        /\ \A s \in DOMAIN slots :
              /\ Len(byslot[s]) <= Len(msgs[slots[s]].events)
              /\ \A j \in 1..N : At[j][1] = slots[s] =>
                    /\ At[j][2] <= Len(byslot[s])
                    /\ byslot[s][At[j][2]] = results[j]
        /\ \A j \in 1..N : entries[j].single => sent[At[j][1]] = <<results[j]>>
    <3>1. \A j \in 1..N : results[j] = settled[At[j][1]][At[j][2]]
      BY ONLY <2>1, Distributing DEF Distributing
    <3>2. \A s \in DOMAIN slots :
              /\ Len(byslot[s]) <= Len(msgs[slots[s]].events)
              /\ \A j \in 1..N : At[j][1] = slots[s] =>
                    /\ j < i <=> At[j][2] <= Len(byslot[s])
                    /\ j < i => byslot[s][At[j][2]] = results[j]
      BY ONLY <2>1, Distributing DEF Distributing
    <3>3. \A j \in 1..(i - 1) : entries[j].single => sent[At[j][1]] = <<results[j]>>
      BY ONLY <2>1, Distributing DEF Distributing
    <3> QED
      BY ONLY <2>6, <3>1, <3>2, <3>3
  <2>8. ASSUME NEW m \in DOMAIN msgs, Len(msgs[m].events) # 1
        PROVE  A(m) = settled[m]
    <3> DEFINE s == SlotOf(m)
    <3>1. s \in DOMAIN slots /\ slots[s] = m /\ A(m) = byslot[s]
      BY <2>4, <2>8 DEF SlotOf
    <3> HIDE DEF s
    <3>2. byslot[s] \in [1..Len(byslot[s]) -> Verdict] /\ Len(byslot[s]) \in Nat
      <4>1. byslot[s] \in Seq(Verdict)
        BY <2>3, <3>1, LenProperties, ElementOfSeq DEF TypeOK, Verdict
      <4> QED
        BY <4>1, LenProperties
    <3>3. \A k \in DOMAIN msgs[m].events : k <= Len(byslot[s]) /\ byslot[s][k] = settled[m][k]
      <4> SUFFICES ASSUME NEW k \in DOMAIN msgs[m].events
                   PROVE  k <= Len(byslot[s]) /\ byslot[s][k] = settled[m][k]
        OBVIOUS
      <4>1. PICK j \in 1..N : At[j][1] = m /\ At[j][2] = k
        BY <2>5
      <4>2. /\ At[j][2] <= Len(byslot[s])
            /\ byslot[s][At[j][2]] = results[j]
            /\ results[j] = settled[At[j][1]][At[j][2]]
        BY <2>7, <3>1, <4>1
      <4> QED
        BY <4>1, <4>2
    <3>4. Len(byslot[s]) = Len(msgs[m].events)
      <4>1. Len(msgs[m].events) \in DOMAIN msgs[m].events
        BY <2>4
      <4> QED
        BY <2>4, <2>7, <3>1, <3>2, <3>3, <4>1
    <3>5. byslot[s] = [k \in DOMAIN msgs[m].events |-> byslot[s][k]]
      <4>1. DOMAIN msgs[m].events = 1..Len(byslot[s])
        BY <2>4, <3>4
      <4> QED
        BY <3>2, <4>1
    <3>6. settled[m] = [k \in DOMAIN msgs[m].events |-> settled[m][k]]
      BY <2>2
    <3>7. byslot[s] = settled[m]
      BY <3>3, <3>5, <3>6, SameFunction
    <3> QED
      BY <3>1, <3>7
  <2>9. ASSUME NEW m \in DOMAIN msgs, Len(msgs[m].events) = 1
        PROVE  A(m) = settled[m]
    <3>1. A(m) = sent[m]
      BY <2>4, <2>9
    <3>2. DOMAIN msgs[m].events = {1}
      BY <2>4, <2>9
    <3>3. PICK j \in 1..N : At[j][1] = m /\ At[j][2] = 1
      BY <2>5, <3>2
    <3>4. entries[j].single
      BY <2>9, <3>3, AtFacts
    <3>5. sent[m] = <<settled[m][1]>>
      BY <2>7, <3>3, <3>4, SMTT(30)
    <3>6. settled[m] = [k \in {1} |-> settled[m][k]]
      BY <2>2, <3>2
    <3>7. settled[m] = <<settled[m][1]>>
      BY ONLY <3>6
    <3> QED
      BY <3>1, <3>5, <3>7
  <2>10. \A m \in DOMAIN msgs : A(m) = settled[m]
    BY <2>8, <2>9
  <2> HIDE DEF A
  <2>11. settled = [m \in DOMAIN msgs |-> settled[m]]
    <3>1. settled \in [1..Len(settled) -> Seq(Verdict)]
      BY LenProperties DEF TypeOK, Verdict
    <3> QED
      BY <2>2, <3>1
  <2>12. sent' = settled
    BY <2>1, <2>3, <2>10, <2>11
  <2> QED
    BY <2>1, <2>12 DEF ResultsRouted
<1>2. CASE ~ SendSlots
  <2>1. pc' # "sent" \/ UNCHANGED <<pc, sent, settled>>
    BY <1>2 DEF Next, vars, Gather, GatherEnd, Dedup, DedupEnd, ResolveEntry, ResolveEnd, Write, WriteFails,
                ResultEntry, ErrorEntry, ResultsEnd, Distribute, NextRound
  <2> QED
    BY <2>1 DEF ResultsRouted
<1> QED
  BY <1>1, <1>2

-----------------------------------------------------------------------------
(* The theorems *)

LEMMA InitInvariant == Init => IInv
<1> SUFFICES ASSUME Init
             PROVE  IInv
  OBVIOUS
<1> USE DEF Init
<1>1. N = 0
  BY DEF N
<1>2. TypeOK
  BY <1>1 DEF TypeOK
<1>3. LinedUp
  <2>1. Entries(<<>>) = {} /\ Len(<<>>) = 0
    BY DEF Entries
  <2>2. Layout([j \in {} |-> 0], <<>>, <<>>, <<>>)
    BY <2>1 DEF Layout
  <2>3. OneSlotEach(<<>>, <<>>)
    BY DEF OneSlotEach
  <2> QED
    BY <2>2, <2>3 DEF LinedUp
<1>4. Fresh
  BY DEF Fresh
<1> QED
  BY <1>2, <1>3, <1>4
     DEF IInv, Deduping, Resolving, Resolved, Decided, Outcomes, Resulting, Distributing, ResultsRouted

LEMMA NextInvariant == IInv /\ [Next]_vars => IInv'
<1> SUFFICES ASSUME IInv, [Next]_vars
             PROVE  IInv'
  OBVIOUS
<1>1. /\ TypeOK /\ LinedUp /\ Fresh /\ Deduping /\ Resolving /\ Resolved /\ Decided
      /\ Outcomes /\ Resulting /\ Distributing /\ ResultsRouted
  BY DEF IInv
<1>2. TypeOK'
  <2>1. CASE UNCHANGED vars
    BY <1>1, <2>1 DEF vars, TypeOK, N
  <2>2. CASE (\E es \in Messages : Gather(es)) \/ GatherEnd \/ NextRound
    BY <1>1, <2>2, GatherTypes
  <2>3. CASE Dedup \/ DedupEnd \/ ResolveEntry \/ ResolveEnd
    BY <1>1, <2>3, MarkTypes
  <2>4. CASE Write \/ WriteFails
    BY <1>1, <2>4, WriteTypes
  <2>5. CASE ResultEntry \/ ErrorEntry \/ ResultsEnd \/ Distribute \/ SendSlots
    BY <1>1, <2>5, ResultTypes
  <2> QED
    BY <2>1, <2>2, <2>3, <2>4, <2>5 DEF Next
<1>3. LinedUp'
  BY <1>1, NextLinedUp
<1>4. Fresh'
  BY <1>1, <1>2, NextFresh
<1>5. Deduping'
  BY <1>1, NextDeduping
<1>6. Resolving'
  BY <1>1, NextResolving
<1>7. Resolved'
  BY <1>1, NextResolved
<1>8. Decided'
  BY <1>1, NextDecided
<1>9. Outcomes'
  BY <1>1, NextOutcomes
<1>10. Resulting'
  BY <1>1, NextResulting
<1>11. Distributing'
  BY <1>1, NextDistributing
<1>12. ResultsRouted'
  BY <1>1, NextRouted
<1> QED
  BY <1>2, <1>3, <1>4, <1>5, <1>6, <1>7, <1>8, <1>9, <1>10, <1>11, <1>12 DEF IInv

\* Of writer_loop: between any two steps of its loops the entries, the marks,
\* the outcomes, the results and the channels are lined up with each other.
THEOREM WriterInvariant == Spec => []IInv
<1>1. Init => IInv
  BY InitInvariant
<1>2. IInv /\ [Next]_vars => IInv'
  BY NextInvariant
<1> QED
  BY <1>1, <1>2, PTL DEF Spec

\* Every vector of writer_loop holds what its type says, and best_replaceable
\* only indexes of entries.
THEOREM WriterTypes == Spec => []TypeOK
<1>1. IInv => TypeOK
  BY DEF IInv
<1> QED
  BY <1>1, WriterInvariant, PTL

\* When writer_loop calls write_event_batch, it passes exactly the events that
\* are worth it, none of them twice.
THEOREM BatchIsBest == Spec => []WritesTheBest
<1>1. IInv => WritesTheBest
  BY BestWritten DEF IInv, WritesTheBest
<1> QED
  BY <1>1, WriterInvariant, PTL

\* What a round leaves in the database does not depend on what writer_loop
\* skipped, or on the order of the events: it is as if all had been written.
THEOREM SkippingLosesNothing == Spec => []RoundIsOneTransaction
<1>1. IInv => RoundIsOneTransaction
  <2> SUFFICES ASSUME IInv, pc = "sent"
               PROVE  \/ stored = Resolve(before \union {entries[j].event : j \in 1..N})
                      \/ stored = before /\ sent = Failures(msgs)
    BY DEF RoundIsOneTransaction
  <2>1. /\ TypeOK /\ LinedUp /\ Decided /\ sent = settled
    BY DEF IInv, ResultsRouted
  <2>2. CASE OnePerSlot(before) /\ stored = Resolve(before \union KeptEvents(msgs))
    <3> DEFINE S == before \union {entries[j].event : j \in 1..N}
    <3>1. before \in SUBSET Event /\ IsBatch(msgs)
      BY <2>1, BatchOf DEF TypeOK
    <3>2. /\ stored \in SUBSET Event
          /\ OnePerSlot(stored)
          /\ \A e \in before : Covered(e, stored)
          /\ \A x \in Entries(msgs) : Covered(Ev(msgs, x), stored)
      BY <2>2, <3>1, RoundCovers
    <3>3. \A j \in 1..N : /\ entries[j].event = Ev(msgs, At[j]) /\ At[j] \in Entries(msgs)
                         /\ entries[j].event \in Event
      BY <2>1, AtFacts, Lengths
    <3>4. \A x \in Entries(msgs) : \E j \in 1..N : At[j] = x
      BY <2>1, AtFacts
    <3>5. stored \in SUBSET S
      BY <2>2, <3>3, <3>4 DEF Resolve, KeptEvents
    <3>6. S \in SUBSET Event /\ \A e \in S : Covered(e, stored)
      BY <3>1, <3>2, <3>3
    <3> HIDE DEF S
    <3>7. stored = Resolve(S)
      BY <3>2, <3>5, <3>6, ResolveUnique
    <3> QED
      BY <3>7 DEF S
  <2>3. CASE stored = before /\ settled = Failures(msgs)
    BY <2>1, <2>3
  <2> QED
    BY <2>1, <2>2, <2>3 DEF Decided
<1> QED
  BY <1>1, WriterInvariant, PTL

\* Every response channel gets the results of its own events, in their order,
\* and each says what became of that event.
THEOREM ChannelsGetTheirOwn == Spec => []ResultsRouted
<1>1. IInv => ResultsRouted
  BY DEF IInv
<1> QED
  BY <1>1, WriterInvariant, PTL

-----------------------------------------------------------------------------
(* The loops implement the round *)

\* There is one entry of each event that was submitted.
LEMMA EntriesCount ==
    ASSUME TypeOK, LinedUp
    PROVE  Cardinality(Entries(msgs)) = N
<1>1. N \in Nat /\ At \in [1..N -> Entries(msgs)]
  BY AtLayout, Lengths DEF Layout, N
<1>2. /\ \A x \in Entries(msgs) : \E j \in 1..N : At[j] = x
      /\ \A j, k \in 1..N : At[j] = At[k] => j = k
  BY AtFacts
<1>3. At \in Bijection(1..N, Entries(msgs))
  <2>1. At \in Injection(1..N, Entries(msgs))
    BY ONLY <1>1, <1>2 DEF Injection, IsInjective
  <2>2. At \in Surjection(1..N, Entries(msgs))
    BY ONLY <1>1, <1>2 DEF Surjection
  <2> QED
    BY ONLY <2>1, <2>2 DEF Bijection
<1>4. IsFiniteSet(1..N) /\ Cardinality(1..N) = N
  BY <1>1, FS_Interval
<1>5. Cardinality(Entries(msgs)) = Cardinality(1..N)
  BY ONLY <1>3, <1>4, FS_Bijection DEF ExistsBijection
<1> QED
  BY <1>4, <1>5

\* The rule of the rounds is BatchRule.
LEMMA RoundRule ==
    /\ Round!OnePerSlot(stored) <=> OnePerSlot(stored)
    /\ Round!Resolve(stored \union Round!KeptEvents(msgs)) = Resolve(stored \union KeptEvents(msgs))
    /\ Round!Verdicts(stored, msgs) = Verdicts(stored, msgs)
    /\ Round!Failures(msgs) = Failures(msgs)
    /\ Round!Entries(msgs) = Entries(msgs)
<1> USE DEF Round!SameSlot, SameSlot, Round!IsReplaceable, IsReplaceable, Round!Beats, Beats,
            Round!Ev, Ev, Round!Entries, Entries, Round!Earlier, Earlier
<1>1. \A G, x : Round!IsKept(G, x) <=> IsKept(G, x)
  BY DEF Round!IsKept, IsKept
<1>2. \A S : Round!Resolve(S) = Resolve(S)
  BY DEF Round!Resolve, Resolve
<1>3. \A G : Round!KeptEvents(G) = KeptEvents(G)
  BY <1>1 DEF Round!KeptEvents, KeptEvents
<1>4. \A S, G : Round!Verdicts(S, G) = Verdicts(S, G)
  <2>1. \A S, G, x : Round!Outcome(S, G, x) = Outcome(S, G, x)
    <3>1. \A e, S : Round!Covered(e, S) <=> Covered(e, S)
      BY DEF Round!Covered, Covered
    <3> HIDE DEF Round!Ev, Ev
    <3>2. \A G, x : Round!Ev(G, x) = Ev(G, x)
      BY DEF Round!Ev, Ev
    <3> QED
      BY <1>1, <3>1, <3>2, Zenon DEF Round!Outcome, Outcome
  <2> QED
    BY <2>1, Zenon DEF Round!Verdicts, Verdicts
<1>5. \A G : Round!Failures(G) = Failures(G)
  BY DEF Round!Failures, Failures
<1>6. Round!OnePerSlot(stored) <=> OnePerSlot(stored)
  BY DEF Round!OnePerSlot, OnePerSlot
<1>7. Round!Entries(msgs) = Entries(msgs)
  OBVIOUS
<1> QED
  BY <1>2, <1>3, <1>4, <1>5, <1>6, <1>7

LEMMA RoundCount ==
    \A S : Round!Cardinality(S) = Cardinality(S)
BY DEF Round!Cardinality, Cardinality

\* What the round sees of a state of the loops.
Answered == IF pc = "sent" THEN sent ELSE settled

roundVars == <<stored, Phase, msgs, Answered>>

LEMMA PhaseOf ==
    /\ pc = "gather" /\ msgs = <<>> => Phase = "recv"
    /\ pc = "gather" /\ msgs # <<>> => Phase = "collect"
    /\ pc \in {"dedup", "resolve", "write"} => Phase = "collect"
    /\ pc \in {"results", "errors", "distribute", "sent"} => Phase = "answer"
BY DEF Phase

LEMMA InitRound == Init => Round!Init
<1> SUFFICES ASSUME Init
             PROVE  Round!Init
  OBVIOUS
<1>1. Phase = "recv" /\ Answered = <<>> /\ msgs = <<>>
  BY PhaseOf DEF Init, Answered
<1>2. stored \in SUBSET Event /\ Round!OnePerSlot(stored)
  BY RoundRule DEF Init
<1> QED
  BY <1>1, <1>2 DEF Round!Init, Answered

LEMMA StepRound ==
    ASSUME IInv, IInv', [Next]_vars
    PROVE  Round!Next \/ UNCHANGED roundVars
<1>1. /\ TypeOK /\ LinedUp /\ Fresh /\ Resolved /\ ResultsRouted'
  BY DEF IInv
<1>2. ASSUME NEW es \in Messages, Gather(es)
      PROVE  Round!Next
  <2>1. /\ pc = "gather" /\ pc' = "gather" /\ N < BatchSize
        /\ msgs' = Append(msgs, [events |-> es]) /\ stored' = stored /\ settled' = settled
    BY <1>2 DEF Gather
  <2>2. msgs' # <<>>
    <3>1. Len(msgs') = Len(msgs) + 1 /\ Len(msgs) \in Nat
      BY <1>1, <2>1, AppendProperties, LenProperties DEF TypeOK
    <3> QED
      BY <3>1
  <2>3. Phase' = "collect"
    BY <2>1, <2>2 DEF Phase
  <2>4. Phase = "recv" \/ (Phase = "collect" /\ Round!Cardinality(Round!Entries(msgs)) < BatchSize)
    BY <1>1, <2>1, PhaseOf, EntriesCount, RoundRule, RoundCount
  <2>5. Answered' = Answered
    BY <2>1 DEF Answered
  <2>6. Round!Collect([events |-> es])
    BY <2>1, <2>3, <2>4, <2>5 DEF Round!Collect, Answered
  <2>7. [events |-> es] \in [events : Messages]
    OBVIOUS
  <2> QED
    BY <2>6, <2>7 DEF Round!Next
<1>3. CASE Write
  <2>1. /\ pc = "write" /\ pc' = "results" /\ msgs' = msgs /\ settled' = Verdicts(stored, msgs)
        /\ stored' = Resolve(stored \union KeptEvents(msgs))
    BY <1>1, <1>3, WriteDoes DEF Write
  <2>2. Phase = "collect" /\ Phase' = "answer" /\ Answered' = settled'
    BY <2>1 DEF Phase, Answered
  <2>3. Round!Commit
    BY <2>1, <2>2, RoundRule DEF Round!Commit, Answered
  <2> QED
    BY <2>3 DEF Round!Next
<1>4. CASE WriteFails
  <2>1. /\ pc = "write" /\ pc' = "errors" /\ msgs' = msgs /\ settled' = Failures(msgs) /\ stored' = stored
    BY <1>4 DEF WriteFails
  <2>2. Phase = "collect" /\ Phase' = "answer" /\ Answered' = settled'
    BY <2>1 DEF Phase, Answered
  <2>3. Round!Fail
    BY <2>1, <2>2, RoundRule DEF Round!Fail, Answered
  <2> QED
    BY <2>3 DEF Round!Next
<1>5. CASE NextRound
  <2>1. pc = "sent" /\ pc' = "gather" /\ msgs' = <<>> /\ settled' = <<>> /\ stored' = stored
    BY <1>5 DEF NextRound
  <2>2. Phase = "answer" /\ Phase' = "recv" /\ Answered' = <<>>
    BY <2>1 DEF Phase, Answered
  <2>3. Round!Answer
    BY <2>1, <2>2 DEF Round!Answer, Answered
  <2> QED
    BY <2>3 DEF Round!Next
<1>6. CASE SendSlots
  <2>1. pc = "distribute" /\ pc' = "sent" /\ UNCHANGED <<stored, settled, msgs>>
    BY <1>6 DEF SendSlots
  <2>2. Answered = settled /\ Answered' = settled'
    BY <1>1, <2>1 DEF Answered, ResultsRouted
  <2>3. Phase = "answer" /\ Phase' = "answer"
    BY <2>1 DEF Phase
  <2> QED
    BY <2>1, <2>2, <2>3 DEF roundVars
<1>7. CASE GatherEnd
  <2>1. /\ pc = "gather" /\ pc' = "dedup" /\ N > 0 /\ UNCHANGED <<stored, settled, msgs>>
    BY <1>7 DEF GatherEnd
  <2>2. msgs # <<>>
    <3>1. 1 \in 1..N
      BY <1>1, <2>1, Lengths
    <3>2. At[1][1] \in DOMAIN msgs
      BY <1>1, <3>1, AtFacts
    <3> QED
      BY <3>2
  <2>3. Phase = "collect" /\ Phase' = "collect" /\ Answered' = Answered
    BY <2>1, <2>2 DEF Phase, Answered
  <2> QED
    BY <2>1, <2>3 DEF roundVars
<1>8. CASE Dedup \/ DedupEnd \/ ResolveEntry \/ ResolveEnd
  <2>1. /\ pc \in {"dedup", "resolve"} /\ pc' \in {"dedup", "resolve", "write"}
        /\ UNCHANGED <<stored, settled, msgs>>
    BY <1>8 DEF Dedup, DedupEnd, ResolveEntry, ResolveEnd
  <2>2. Phase = "collect" /\ Phase' = "collect" /\ Answered' = Answered
    BY <2>1 DEF Phase, Answered
  <2> QED
    BY <2>1, <2>2 DEF roundVars
<1>9. CASE ResultEntry \/ ErrorEntry \/ ResultsEnd \/ Distribute
  <2>1. /\ pc \in {"results", "errors", "distribute"} /\ pc' \in {"results", "errors", "distribute"}
        /\ UNCHANGED <<stored, settled, msgs>>
    BY <1>9 DEF ResultEntry, ErrorEntry, ResultsEnd, Distribute
  <2>2. Phase = "answer" /\ Phase' = "answer" /\ Answered' = Answered
    BY <2>1 DEF Phase, Answered
  <2> QED
    BY <2>1, <2>2 DEF roundVars
<1>10. CASE UNCHANGED vars
  BY <1>10 DEF vars, roundVars, Phase, Answered
<1> QED
  BY <1>2, <1>3, <1>4, <1>5, <1>6, <1>7, <1>8, <1>9, <1>10 DEF Next

\* For everyone else writer_loop is WriterRound: one transaction commits or
\* fails, and the answers that are sent much later were settled with it.
THEOREM LoopsImplementRound == Spec => RefinesRound
<1>1. IInv /\ IInv' /\ [Next]_vars => [Round!Next]_<<stored, Phase, msgs, IF pc = "sent" THEN sent ELSE settled>>
  <2> SUFFICES ASSUME IInv, IInv', [Next]_vars
               PROVE  [Round!Next]_<<stored, Phase, msgs, IF pc = "sent" THEN sent ELSE settled>>
    OBVIOUS
  <2>1. Round!Next \/ UNCHANGED roundVars
    BY StepRound
  <2> QED
    BY <2>1 DEF roundVars, Answered
<1> QED
  BY <1>1, InitRound, WriterInvariant, PTL DEF Spec, RefinesRound, Round!Spec
=============================================================================
