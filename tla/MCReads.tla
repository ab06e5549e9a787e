------------------------------- MODULE MCReads -------------------------------
(***************************************************************************)
(* A small world for Reads.  Events 1 and 2 are an older and a newer note  *)
(* of p with the tag t, 3 and 4 its older and newer profile, 5 a deletion  *)
(* request of q with two tags, which expires at time 1.  Deletion requests *)
(* are no longer accepted, but one is in the file.                         *)
(***************************************************************************)
EXTENDS Reads

CONSTANTS p, q, x, y

MCEvent == 1..5
MCPubkey == {p, q}
MCTagName == {"e", "t"}
MCTagValue == {x, y}
MCAuthor == <<p, p, p, p, q>>
MCKind == <<1, 1, 0, 0, 5>>
MCCreatedAt == <<1, 2, 1, 2, 2>>
MCTags == <<{<<"t", x>>}, {<<"t", x>>}, {}, {}, {<<"t", x>>, <<"e", y>>}>>
MCExpirations == <<{}, {}, {}, {}, {1}>>
MCAllowedKinds == <<0, 1>>

Full(pk) == [full |-> TRUE, of |-> {pk}]
Prefix   == [full |-> FALSE, of |-> MCPubkey]

MCFilters ==
    {[ids |-> <<{5}, {1, 2, 4}, {2}>>, since |-> 1, limit |-> 2],
     [tags |-> [t \in {"e", "t"} |-> <<y, x>>], until |-> 2, limit |-> 1],
     [authors |-> <<Full(q), Full(p)>>, kinds |-> <<5, 1>>],
     [authors |-> <<Full(p), Full(p)>>, kinds |-> <<1>>, since |-> 2],
     [authors |-> <<Full(p)>>, tags |-> [t \in {"t"} |-> <<x>>]],
     [authors |-> <<Full(p), Prefix>>, kinds |-> <<5, 1>>, limit |-> 2],
     [limit |-> 2],
     [kinds |-> <<0, 0>>]}

MCRequests == {<<f>> : f \in MCFilters} \union {<<[kinds |-> <<0>>], [kinds |-> <<0>>]>>}
=============================================================================
