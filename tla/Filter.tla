------------------------------- MODULE Filter -------------------------------
(***************************************************************************)
(* Filters: what a client asks for (src/src/subscription.rs), and the      *)
(* index ranges that Db::query (src/src/db.rs) reads for it.  A filter is  *)
(* a record with the fields that the client gave.  A prefix of an id or of *)
(* a pubkey is the set of the ids or pubkeys that begin with it, and for   *)
(* authors the query also asks whether it is of full length.               *)
(***************************************************************************)
EXTENDS Nostr, Sequences

CONSTANTS
    Expirations,    \* the times of an event's expiration tags
    AllowedKinds,   \* config.allowed_kinds, in its order
    DefaultLimit,   \* config.default_query_limit
    MaxFilterList   \* MAX_FILTER_LIST

ASSUME FilterAssumption ==
    /\ Expirations \in [Event -> SUBSET Nat]
    /\ AllowedKinds \in Seq(Nat)
    /\ DefaultLimit \in Nat
    /\ MaxFilterList \in Nat

\* Every field may be missing; ids and authors are lists of prefixes, tags has
\* a list of values for each tag name that the client gave.
IsFilter(f) ==
    /\ DOMAIN f \subseteq {"ids", "authors", "kinds", "since", "until", "limit", "tags"}
    /\ "ids" \in DOMAIN f => f.ids \in Seq(SUBSET Event)
    /\ "authors" \in DOMAIN f => f.authors \in Seq([full : BOOLEAN, of : SUBSET Pubkey])
    /\ "kinds" \in DOMAIN f => f.kinds \in Seq(Nat)
    /\ \A k \in {"since", "until", "limit"} \intersect DOMAIN f : f[k] \in Nat
    /\ "tags" \in DOMAIN f =>
          DOMAIN f.tags \subseteq TagName /\ \A t \in DOMAIN f.tags : f.tags[t] \in Seq(TagValue)

Given(f, k) == k \in DOMAIN f

TagNames(f) == IF Given(f, "tags") THEN DOMAIN f.tags ELSE {}

Elements(s) == {s[i] : i \in DOMAIN s}

\* is_oversized
Oversized(f) ==
    \/ \E k \in {"ids", "authors", "kinds"} \intersect DOMAIN f : Len(f[k]) > MaxFilterList
    \/ \E t \in TagNames(f) : Len(f.tags[t]) > MaxFilterList

Expired(e, now) == \E ts \in Expirations[e] : now >= ts

\* matches_event, but for the expiry.
Fits(f, e) ==
    /\ Given(f, "ids") => e \in UNION Elements(f.ids)
    /\ Given(f, "authors") => \E a \in Elements(f.authors) : Author[e] \in a.of
    /\ Given(f, "kinds") => Kind[e] \in Elements(f.kinds)
    /\ Given(f, "since") => CreatedAt[e] >= f.since
    /\ Given(f, "until") => CreatedAt[e] <= f.until
    /\ \A t \in TagNames(f) : \E v \in Elements(f.tags[t]) : <<t, v>> \in Tags[e]

MatchesEvent(f, e, now) == Fits(f, e) /\ ~ Expired(e, now)

-----------------------------------------------------------------------------
(* The four ways of Db::query to read for a filter *)

\* Mutant: one full author is enough for the index of authors.
ByAuthorAny(f) ==
    /\ ~ Given(f, "ids")
    /\ Given(f, "authors")
    /\ \E a \in Elements(f.authors) : a.full

ByIds(f) == Given(f, "ids")

ByTag(f) == ~ Given(f, "ids") /\ TagNames(f) # {} /\ ~ Given(f, "authors")

ByAuthor(f) ==
    /\ ~ Given(f, "ids")
    /\ Given(f, "authors")
    /\ \A a \in Elements(f.authors) : a.full

ByKind(f) == ~ ByIds(f) /\ ~ ByTag(f) /\ ~ ByAuthor(f)

Limit(f) == IF Given(f, "limit") THEN f.limit ELSE DefaultLimit

KindsOf(f) == IF Given(f, "kinds") THEN f.kinds ELSE AllowedKinds

\* Whether the query looks at the events that it finds in an index (matches_event).
Checked(f) ==
    \/ ByIds(f)
    \/ TagNames(f) # {}
    \/ Given(f, "authors") /\ ~ ByAuthor(f)

\* Mutant: since is forgotten.
InTimeUntil(f, e) == Given(f, "until") => CreatedAt[e] <= f.until

InTime(f, e) ==
    /\ Given(f, "since") => CreatedAt[e] >= f.since
    /\ Given(f, "until") => CreatedAt[e] <= f.until

\* The events of S that each range leads to, in the order in which the ranges
\* are read.  Of several tags the query reads the one that its HashMap has first;
\* in the index of authors a string that is too short finds nothing.
IdRanges(f, S) == [i \in DOMAIN f.ids |-> f.ids[i] \intersect S]

TagRanges(f, t, S) ==
    [i \in DOMAIN f.tags[t] |-> {e \in S : <<t, f.tags[t][i]>> \in Tags[e] /\ InTime(f, e)}]

AuthorRanges(f, S) ==
    LET ks == KindsOf(f)
        n  == Len(ks)
        AuthorAt(i) == f.authors[((i - 1) \div n) + 1]
        KindAt(i)   == ks[((i - 1) % n) + 1]
    IN  [i \in 1 .. Len(f.authors) * n |->
            {e \in S : /\ AuthorAt(i).full /\ Author[e] \in AuthorAt(i).of
                        /\ Kind[e] = KindAt(i)
                        /\ InTime(f, e)}]

KindRanges(f, S) ==
    [i \in DOMAIN KindsOf(f) |-> {e \in S : Kind[e] = KindsOf(f)[i] /\ InTime(f, e)}]

Ranges(f, t, S) ==
    CASE ByIds(f)    -> IdRanges(f, S)
      [] ByTag(f)    -> TagRanges(f, t, S)
      [] ByAuthor(f) -> AuthorRanges(f, S)
      [] ByKind(f)   -> KindRanges(f, S)

\* Mutant: a range is read from its beginning.
PrecedesForwards(f, e, g) ==
    IF ByIds(f) THEN e < g
    ELSE CreatedAt[e] < CreatedAt[g] \/ (CreatedAt[e] = CreatedAt[g] /\ e < g)

\* The order within a range: by id, or backwards in the order of the index.
Precedes(f, e, g) ==
    IF ByIds(f) THEN e < g
    ELSE CreatedAt[e] > CreatedAt[g] \/ (CreatedAt[e] = CreatedAt[g] /\ e > g)

=============================================================================
