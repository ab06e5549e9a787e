----------------------------- MODULE AbuseBook -----------------------------
(***************************************************************************)
(* What the relay's abuse control promises, without records that are made, *)
(* restarted and pruned: strikes of a pubkey are counted from the first    *)
(* one for as long as a window lasts, and enough of them block the pubkey  *)
(* for a time.  A restart of the relay forgets everything.                 *)
(***************************************************************************)
EXTENDS Naturals, Sequences

CONSTANTS
    Pubkey,
    Window,       \* abuse_strike_window_secs
    StrikeLimit,  \* abuse_strike_limit
    SuspendFor    \* abuse_suspend_secs

VARIABLES
    now,      \* the time
    strikes,  \* the strikes of each pubkey in its window, 0 when it has none
    opened,   \* when the window was opened, 0 when there is none
    blocked,  \* until when it is blocked, 0 when it is not
    recent    \* the times of its last strikes, up to Enough of them

Nothing == [pk \in Pubkey |-> 0]

\* A limit of 0 is reached at the first strike.
Enough == IF StrikeLimit = 0 THEN 1 ELSE StrikeLimit

\* One more time, and no more than the last Enough of them.
Remember(s) ==
    LET t == Append(s, now) IN IF Len(t) > Enough THEN Tail(t) ELSE t

Init ==
    /\ now \in Nat
    /\ recent = [pk \in Pubkey |-> <<>>]
    /\ strikes = Nothing
    /\ opened = Nothing
    /\ blocked = Nothing

Tick ==
    LET Over(pk) == strikes[pk] > 0 /\ now + 1 > opened[pk] + Window
    IN  /\ now' = now + 1
        /\ strikes' = [pk \in Pubkey |-> IF Over(pk) THEN 0 ELSE strikes[pk]]
        /\ opened' = [pk \in Pubkey |-> IF Over(pk) THEN 0 ELSE opened[pk]]
        /\ blocked' = [pk \in Pubkey |-> IF blocked[pk] > now + 1 THEN blocked[pk] ELSE 0]
        /\ UNCHANGED recent

Strike(pk) ==
    /\ strikes' = [strikes EXCEPT ![pk] = @ + 1]
    /\ opened' = [opened EXCEPT ![pk] = IF strikes[pk] = 0 THEN now ELSE @]
    /\ blocked' = [blocked EXCEPT ![pk] =
                     IF strikes[pk] + 1 >= StrikeLimit /\ SuspendFor > 0 THEN now + SuspendFor ELSE @]
    /\ recent' = [recent EXCEPT ![pk] = Remember(@)]
    /\ UNCHANGED now

Restart ==
    /\ strikes' = Nothing
    /\ opened' = Nothing
    /\ blocked' = Nothing
    /\ recent' = [pk \in Pubkey |-> <<>>]
    /\ UNCHANGED now

Next ==
    \/ Tick
    \/ \E pk \in Pubkey : Strike(pk)
    \/ Restart

Spec == Init /\ [][Next]_<<now, strikes, opened, blocked, recent>>
=============================================================================
