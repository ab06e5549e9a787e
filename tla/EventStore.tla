----------------------------- MODULE EventStore -----------------------------
(***************************************************************************)
(* What the event database promises, without tables, indexes, transactions *)
(* or crashes: a set of events, next to it the set of pubkeys that may     *)
(* write, and one request at a time.  A request takes effect at once and   *)
(* as a whole, or not at all, and what it does to the events follows from  *)
(* the request alone: of the events to publish none is left out, and the   *)
(* best event of each replaceable place wins whatever the order of arrival;*)
(* an author, and nobody else, removes events of its own.  The answer says *)
(* which of the two it was.                                                *)
(***************************************************************************)
EXTENDS Nostr

VARIABLES
    stored,   \* the events a reader finds
    allowed,  \* the whitelisted pubkeys
    asked,    \* the request under way: to "publish", to "delete", or "nothing"
    asker,    \* the pubkey whose events are, or were last, to be deleted
    named,    \* the events to publish or to delete
    answer    \* how the last request ended: "ok", "err", or "none" if it has not

request == <<asked, asker, named>>

Init ==
    /\ stored \in SUBSET Event
    /\ OnePerSlot(stored)
    /\ allowed \in SUBSET Pubkey
    /\ asked = "nothing"
    /\ asker \in Pubkey
    /\ named = {}
    /\ answer = "none"

AskPublish(B) ==
    /\ asked = "nothing"
    /\ asked' = "publish"
    /\ named' = B
    /\ answer' = "none"
    /\ UNCHANGED <<stored, allowed, asker>>

AskDelete(pk, T) ==
    /\ asked = "nothing"
    /\ asked' = "delete"
    /\ asker' = pk
    /\ named' = T
    /\ answer' = "none"
    /\ UNCHANGED <<stored, allowed>>

EndRequest(a) ==
    /\ asked' = "nothing"
    /\ named' = {}
    /\ answer' = a
    /\ UNCHANGED <<allowed, asker>>

Publish ==
    /\ asked = "publish"
    /\ stored' = Resolve(stored \union named)
    /\ EndRequest("ok")

Delete ==
    /\ asked = "delete"
    /\ stored' = stored \ Deletable(asker, named)
    /\ EndRequest("ok")

\* An error: nothing has happened.
Refuse ==
    /\ asked # "nothing"
    /\ EndRequest("err")
    /\ UNCHANGED stored

\* A crash: nothing has happened and there is no answer, and of an earlier one
\* there is no memory.
Forget ==
    /\ EndRequest("none")
    /\ UNCHANGED stored

Allow(pk) ==
    /\ asked = "nothing"
    /\ allowed' = allowed \union {pk}
    /\ UNCHANGED <<stored, request, answer>>

Disallow(pk) ==
    /\ asked = "nothing"
    /\ allowed' = allowed \ {pk}
    /\ UNCHANGED <<stored, request, answer>>

Next ==
    \/ \E B \in SUBSET Event : AskPublish(B)
    \/ \E pk \in Pubkey, T \in SUBSET Event : AskDelete(pk, T)
    \/ Publish
    \/ Delete
    \/ Refuse
    \/ Forget
    \/ \E pk \in Pubkey : Allow(pk) \/ Disallow(pk)

Spec == Init /\ [][Next]_<<stored, allowed, request, answer>>
=============================================================================
