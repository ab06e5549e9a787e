----------------------------- MODULE WriterRound -----------------------------
(***************************************************************************)
(* What one round of the writer task amounts to for everyone else: it      *)
(* gathers messages, and then either all of them are taken into account in *)
(* one transaction and answered as BatchRule says, or none is, and all are *)
(* answered with the error.  Deletions of others come in between.          *)
(***************************************************************************)
EXTENDS BatchRule, FiniteSets

CONSTANTS
    Message,     \* the messages that may be submitted: records with a field events
    BatchSize    \* batch_size

VARIABLES
    stored,      \* the committed events
    phase,       \* what the writer is doing
    gathered,    \* the messages of the round
    answers      \* the results for each of them

Init ==
    /\ stored \in SUBSET Event
    /\ OnePerSlot(stored)
    /\ phase = "recv"
    /\ gathered = <<>>
    /\ answers = <<>>

Collect(m) ==
    /\ \/ phase = "recv"
       \/ phase = "collect" /\ Cardinality(Entries(gathered)) < BatchSize
    /\ phase' = "collect"
    /\ gathered' = Append(gathered, m)
    /\ UNCHANGED <<stored, answers>>

Commit ==
    /\ phase = "collect"
    /\ stored' = Resolve(stored \union KeptEvents(gathered))
    /\ answers' = Verdicts(stored, gathered)
    /\ phase' = "answer"
    /\ UNCHANGED gathered

Fail ==
    /\ phase = "collect"
    /\ answers' = Failures(gathered)
    /\ phase' = "answer"
    /\ UNCHANGED <<stored, gathered>>

Answer ==
    /\ phase = "answer"
    /\ phase' = "recv"
    /\ gathered' = <<>>
    /\ answers' = <<>>
    /\ UNCHANGED stored

\* A deletion has a transaction of its own.
Delete(pk, T) ==
    /\ stored' = stored \ Deletable(pk, T)
    /\ UNCHANGED <<phase, gathered, answers>>

Next ==
    \/ \E pk \in Pubkey, T \in SUBSET Event : Delete(pk, T)
    \/ \E m \in Message : Collect(m)
    \/ Commit
    \/ Fail
    \/ Answer

Spec == Init /\ [][Next]_<<stored, phase, gathered, answers>>
=============================================================================
