------------------------------ MODULE MCWriter ------------------------------
(***************************************************************************)
(* A small world for Writer.  Events 1 to 3 compete for the profile of p:  *)
(* 1 and 2 were created in the same second and 1 wins, 3 is newer; 4 is a  *)
(* note of p.  A client may send an event twice in one message.            *)
(***************************************************************************)
EXTENDS Writer

CONSTANTS p, x

MCEvent     == 1..4
MCPubkey    == {p}
MCTagName   == {"e"}
MCTagValue  == {x}
MCAuthor    == [e \in MCEvent |-> p]
MCKind      == <<0, 0, 0, 1>>
MCCreatedAt == <<1, 1, 2, 1>>
MCTags      == [e \in MCEvent |-> {}]

MCMessages  == {<<e>> : e \in MCEvent} \union {<<e, f>> : e, f \in MCEvent}
=============================================================================
