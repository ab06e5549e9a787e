-------------------------------- MODULE MCDb --------------------------------
(***************************************************************************)
(* A small world for Db.  Events 1 to 3 compete for the profile of p (1    *)
(* and 3 were created in the same second, and 1 wins by its id), 4 is a    *)
(* deletion request of p for the oldest of them, 5 the profile of q.       *)
(***************************************************************************)
EXTENDS Db

CONSTANTS p, q, x

MCEvent == 1..5
MCPubkey == {p, q}
MCTagName == {"e", "t"}
MCTagValue == {2, x}
MCAuthor == <<p, p, p, p, q>>
MCKind == <<0, 0, 0, 5, 0>>
MCCreatedAt == <<2, 1, 2, 2, 1>>
MCTags == <<{}, {<<"t", x>>}, {<<"t", x>>}, {<<"e", 2>>}, {<<"t", x>>}>>
=============================================================================
