----------------------------- MODULE BatchRule -----------------------------
(***************************************************************************)
(* What the writer task makes of the messages G it has gathered for one    *)
(* transaction: which entries it writes, and the result each entry gets.   *)
(* G is a sequence of messages with a sequence of events each; an entry is *)
(* named by its message and its position there, so that entries are in the *)
(* order of their names.  Writer has the loops that compute this.          *)
(***************************************************************************)
EXTENDS Nostr, Sequences

Entries(G) == UNION {{<<m, k>> : k \in DOMAIN G[m].events} : m \in DOMAIN G}

Ev(G, x) == G[x[1]].events[x[2]]

Earlier(x, y) == x[1] < y[1] \/ (x[1] = y[1] /\ x[2] < y[2])

\* Of one id the first entry is kept, and of one replaceable place the best.
IsKept(G, x) ==
    \A y \in Entries(G) :
        /\ ~ (Earlier(y, x) /\ Ev(G, y) = Ev(G, x))
        /\ IsReplaceable(Ev(G, x)) => ~ (SameSlot(Ev(G, y), Ev(G, x)) /\ Beats(Ev(G, y), Ev(G, x)))

KeptEvents(G) == {Ev(G, x) : x \in {y \in Entries(G) : IsKept(G, y)}}

\* Mutant: a skipped entry gets the answer of the one that was written.
OutcomeOfTheEvent(S, G, x) == IF Covered(Ev(G, x), S) THEN "duplicate" ELSE "stored"

\* Stored when it is kept and not pointless next to the events S in the
\* database, Duplicate otherwise.
Outcome(S, G, x) ==
    IF IsKept(G, x) /\ ~ Covered(Ev(G, x), S) THEN "stored" ELSE "duplicate"

Verdicts(S, G) ==
    [m \in DOMAIN G |-> [k \in DOMAIN G[m].events |-> Outcome(S, G, <<m, k>>)]]

\* Mutant: a failed transaction is answered like one that had nothing to do.
FailuresAsDuplicates(G) == [m \in DOMAIN G |-> [k \in DOMAIN G[m].events |-> "duplicate"]]

\* When the transaction fails every entry gets its error.
Failures(G) == [m \in DOMAIN G |-> [k \in DOMAIN G[m].events |-> "error"]]
=============================================================================
