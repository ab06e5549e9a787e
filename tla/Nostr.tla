------------------------------- MODULE Nostr -------------------------------
(***************************************************************************)
(* The data of the relay: Nostr events as the rest of the code sees them   *)
(* (src/src/event.rs).  An event's id is the hash of its pubkey, creation  *)
(* time, kind, tags and content (Event::verify_id), so the id determines   *)
(* them: an event IS its id here, and its fields are functions of it.  An  *)
(* id is the rank of the 64-digit string in the order of strings, which is *)
(* all that the comparisons of ids in the code depend on.                  *)
(***************************************************************************)
EXTENDS Naturals

CONSTANTS
    Event,      \* the events that may reach the relay, as the ranks of their ids
    Pubkey,     \* the authors
    TagName,    \* the one-letter tag names: the only ones that are indexed
    TagValue,   \* the values of such tags
    Author,     \* Event.pubkey
    Kind,       \* Event.kind
    CreatedAt,  \* Event.created_at
    Tags        \* the pairs <<tag[0], tag[1]>> of Event.tags that is_indexable_tag accepts

ASSUME EventAssumption ==
    /\ Event \subseteq Nat
    /\ Author \in [Event -> Pubkey]
    /\ Kind \in [Event -> Nat]
    /\ CreatedAt \in [Event -> Nat]
    /\ Tags \in [Event -> SUBSET (TagName \X TagValue)]

DeletionKind == 5

IsReplaceable(e) == Kind[e] \in {0, 3} \union 10000..19999

IsEphemeral(e) == Kind[e] \in 20000..29999

\* The events that a deletion request names.
DeletionTargets(e) ==
    IF Kind[e] = DeletionKind THEN {f \in Event : <<"e", f>> \in Tags[e]} ELSE {}

\* Two events compete for one place when they have the same author and kind.
SameSlot(e, f) == Author[e] = Author[f] /\ Kind[e] = Kind[f]

\* The newer event wins and, of two created in the same second, the lower id.
Beats(e, f) ==
    \/ CreatedAt[e] > CreatedAt[f]
    \/ CreatedAt[e] = CreatedAt[f] /\ e < f

-----------------------------------------------------------------------------

\* At most one event of a replaceable kind for each author and kind.
OnePerSlot(S) ==
    \A e, f \in S : IsReplaceable(e) /\ SameSlot(e, f) => e = f

\* What makes a write of e pointless: e itself, or a better event of its place.
Covered(e, S) ==
    \/ e \in S
    \/ IsReplaceable(e) /\ \E f \in S : SameSlot(f, e) /\ Beats(f, e)

\* What remains of a set of events when the best of each place has won,
\* whatever the order they came in.
Resolve(S) ==
    {e \in S : IsReplaceable(e) => ~ \E f \in S : SameSlot(f, e) /\ Beats(f, e)}

\* What a deletion request of pk may take away: events of its own, except
\* deletion requests.
Deletable(pk, T) == {e \in T : Author[e] = pk /\ Kind[e] # DeletionKind}
=============================================================================
