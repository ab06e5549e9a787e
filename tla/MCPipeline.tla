----------------------------- MODULE MCPipeline -----------------------------
(***************************************************************************)
(* Small worlds for Pipeline.  Event 1 is a note of p, 2 and 3 its older   *)
(* and newer profile, 4 a deletion request of p for the newer profile, 5   *)
(* an ephemeral event of p.                                                *)
(***************************************************************************)
EXTENDS Pipeline

CONSTANTS a, b, p, s1

MCEvent == 1..5
MCPubkey == {p}
MCTagName == {"e"}
MCTagValue == 1..3
MCAuthor == [e \in MCEvent |-> p]
MCKind == <<1, 0, 0, 5, 20001>>
MCCreatedAt == <<1, 1, 2, 2, 1>>
MCTags == <<{}, {}, {}, {<<"e", 3>>}, {}>>
MCConn == {a, b}
MCSubId == {s1}

\* Two clients that publish, and contend for the writer.
TwoPublishers == [c \in MCConn |-> IF c = a THEN {3, 4} ELSE {2, 3}]
NoListener == [c \in MCConn |-> {}]

\* One client that publishes, both profiles too, in any order, and one that listens.
BothProfiles == [c \in MCConn |-> IF c = a THEN {2, 3, 5} ELSE {}]

\* The same with one profile, and the request to delete it.
OneDeleted == [c \in MCConn |-> IF c = a THEN {3, 4, 5} ELSE {}]

OneListener == [c \in MCConn |-> IF c = b THEN {{1, 2, 3, 5}} ELSE {}]

\* The same event from two clients, one of which asks for it too, also in its
\* drain loop and behind the event itself.
SameFromBoth == [c \in MCConn |-> {3}]

\* One client that publishes, for the other to see; that one sends too, ephemeral
\* events that may push the profile out of its own queue.
OneProfile == [c \in MCConn |-> IF c = a THEN {3} ELSE {5}]
OneReader  == [c \in MCConn |-> IF c = b THEN {{3}} ELSE {}]
=============================================================================
