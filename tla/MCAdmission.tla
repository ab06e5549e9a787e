---------------------------- MODULE MCAdmission ----------------------------
(***************************************************************************)
(* A small world for Admission: p sends over both connections, and over    *)
(* one of them there are also events that are not genuine; q sends over    *)
(* the other.  The admin puts p on the whitelist and takes it off.         *)
(***************************************************************************)
EXTENDS Admission

CONSTANTS a, b, p, q

MCConn   == {a, b}
MCPubkey == {p, q}
MCManaged == {p}

Own(pk)    == [author |-> pk, genuine |-> TRUE, protected |-> FALSE]
Guarded(pk) == [author |-> pk, genuine |-> TRUE, protected |-> TRUE]
Forged(pk) == [author |-> pk, genuine |-> FALSE, protected |-> FALSE]

MCSends == [c \in MCConn |-> IF c = a THEN {Own(p), Forged(p)} ELSE {Own(p), Own(q)}]

\* One client that sends events of its own, with a `-' tag.
OneSender == [c \in MCConn |-> IF c = a THEN {Guarded(p)} ELSE {}]
=============================================================================
