----------------------------- MODULE Admission -----------------------------
(***************************************************************************)
(* What handle_event (src/src/connection.rs) asks before it lets an event  *)
(* in: suspension, the event itself, authentication, the whitelist and the *)
(* rate limit, and what it does about an author that is too fast           *)
(* (src/src/relay.rs).  The tasks of the connections run on several        *)
(* threads and share the rate limits and the records of abuse, each under  *)
(* a lock of its own: what one check found may be out of date at the next. *)
(* A call reads the clock and takes its lock in one step, as a unit of     *)
(* time here is far longer than the wait for a lock.  The whitelist is in  *)
(* the database, where the admin changes it at any time (src/src/admin.rs).*)
(***************************************************************************)
EXTENDS Naturals, Sequences, FiniteSets

CONSTANTS
    Conn,         \* the connections
    Pubkey,       \* the authors
    Sends,        \* Sends[c]: the events that the client of c may send
    RequireAuth,  \* config.require_auth
    Interval,     \* config.min_event_interval_ms
    Window,       \* config.abuse_strike_window_secs
    StrikeLimit,  \* config.abuse_strike_limit
    SuspendFor,   \* config.abuse_suspend_secs
    Managed,      \* bound: the pubkeys that the admin adds to the whitelist and removes
    PruneAbove,   \* records of abuse that are kept without pruning
    MaxTime       \* bound on the clock

\* An event that validate accepts is genuine; is_protected depends on its tags.
Message == [author : Pubkey, genuine : BOOLEAN, protected : BOOLEAN]

\* What stands for the event of a connection that has none at the moment.
NoEvent == [author |-> CHOOSE pk \in Pubkey : TRUE, genuine |-> FALSE, protected |-> FALSE]

\* The pubkeys that the client of c holds the keys of.
Keys(c) == {m.author : m \in {n \in Sends[c] : n.genuine}}

ASSUME AdmissionAssumption ==
    /\ Sends \in [Conn -> SUBSET Message]
    /\ RequireAuth \in BOOLEAN
    /\ Interval \in Nat
    /\ Window \in Nat
    /\ StrikeLimit \in Nat
    /\ SuspendFor \in Nat
    /\ Managed \subseteq Pubkey
    /\ PruneAbove \in Nat
    /\ MaxTime \in Nat

VARIABLES
    now,      \* the clock
    allowed,  \* the whitelist of the database
    limits,   \* rate_limits: when each pubkey was last let in; partial
    records,  \* abuse_records; partial
    pc,       \* the next call of handle_event, "ready" between messages
    event,    \* the event it is about
    authed,   \* authed_pubkeys of a connection
    count,    \* violation_count of a connection, 0 before first_violation is set
    first,    \* first_violation of a connection
    recent,   \* history: the times of the last strikes of a pubkey, up to Enough of them
    outlaw    \* history: a connection's event is of an author that has not been on
              \* the whitelist since the event came in

shared == <<limits, records, recent>>
local  == <<pc, event, authed, count, first>>
vars == <<now, allowed, shared, local, outlaw>>

Record == [violations : Nat, first : Nat, until : Nat]

TypeOK ==
    /\ now \in 0..MaxTime
    /\ DOMAIN limits \subseteq Pubkey
    /\ \A pk \in DOMAIN limits : limits[pk] \in 0..now
    /\ DOMAIN records \subseteq Pubkey
    /\ \A pk \in DOMAIN records :
          records[pk] \in Record /\ records[pk].violations > 0 /\ records[pk].first <= now
    /\ allowed \in SUBSET Pubkey
    /\ outlaw \in [Conn -> BOOLEAN]
    /\ pc \in [Conn -> {"off", "ready", "list", "rate", "abuse", "violation"}]
    /\ event \in [Conn -> Message \union {NoEvent}]
    /\ authed \in [Conn -> SUBSET Pubkey]
    /\ count \in [Conn -> 0..StrikeLimit]
    /\ first \in [Conn -> 0..now]
    /\ recent \in [Pubkey -> Seq(Nat)]

Empty == [pk \in {} |-> 0]

Init ==
    /\ now = 0
    /\ allowed \in {Pubkey, Pubkey \ Managed}
    /\ outlaw = [c \in Conn |-> FALSE]
    /\ limits = Empty
    /\ records = Empty
    /\ pc = [c \in Conn |-> "off"]
    /\ event = [c \in Conn |-> NoEvent]
    /\ authed = [c \in Conn |-> {}]
    /\ count = [c \in Conn |-> 0]
    /\ first = [c \in Conn |-> 0]
    /\ recent = [pk \in Pubkey |-> <<>>]

\* A partial function with one more value, or another one.
With(f, k, v) == [x \in DOMAIN f \union {k} |-> IF x = k THEN v ELSE f[x]]

-----------------------------------------------------------------------------
(* The shared state of the relay *)

\* is_suspended; until is 0 when there is no suspended_until.
Suspended(pk) == pk \in DOMAIN records /\ records[pk].until > now

\* check_rate_limit
TooFast(pk) == pk \in DOMAIN limits /\ now - limits[pk] < Interval

InWindow(r) == now - r.first <= Window

\* Mutant: the record keeps when its window ends, and not when it began.
CurrentUntilEnd(pk) ==
    IF pk \in DOMAIN records THEN records[pk]
    ELSE [violations |-> 0, first |-> now + Window, until |-> 0]

\* Mutant: a window is never over.
CurrentForever(pk) ==
    IF pk \in DOMAIN records THEN records[pk]
    ELSE [violations |-> 0, first |-> now, until |-> 0]

\* The record of pk once its window is known to be open: a new one, or one
\* that starts again.
Current(pk) ==
    IF pk \notin DOMAIN records THEN [violations |-> 0, first |-> now, until |-> 0]
    ELSE IF InWindow(records[pk]) THEN records[pk]
    ELSE [records[pk] EXCEPT !.violations = 0, !.first = now]

Struck(r) ==
    [violations |-> r.violations + 1,
     first      |-> r.first,
     until      |-> IF r.violations + 1 >= StrikeLimit THEN now + SuspendFor ELSE r.until]

\* Mutant: a long list keeps the suspended ones only.
WorthwhileSuspended(r) == r.until > now

\* What a long list of records keeps.
Worthwhile(r) == r.until > now \/ InWindow(r)

Pruned(rs) ==
    IF Cardinality(DOMAIN rs) > PruneAbove
    THEN [pk \in {k \in DOMAIN rs : Worthwhile(rs[k])} |-> rs[pk]]
    ELSE rs

-----------------------------------------------------------------------------
(* The life of a connection *)

Connect(c) ==
    /\ pc[c] = "off"
    /\ pc' = [pc EXCEPT ![c] = "ready"]
    /\ UNCHANGED <<now, allowed, shared, event, authed, count, first, outlaw>>

\* handle_event returns, and the connection goes on.
Return(c) ==
    /\ pc' = [pc EXCEPT ![c] = "ready"]
    /\ event' = [event EXCEPT ![c] = NoEvent]
    /\ outlaw' = [outlaw EXCEPT ![c] = FALSE]

\* The ConnectionState goes when the task ends.
Forget(C) ==
    /\ event' = [c \in Conn |-> IF c \in C THEN NoEvent ELSE event[c]]
    /\ pc' = [c \in Conn |-> IF c \in C THEN "off" ELSE pc[c]]
    /\ authed' = [c \in Conn |-> IF c \in C THEN {} ELSE authed[c]]
    /\ count' = [c \in Conn |-> IF c \in C THEN 0 ELSE count[c]]
    /\ first' = [c \in Conn |-> IF c \in C THEN 0 ELSE first[c]]
    /\ outlaw' = [c \in Conn |-> outlaw[c] /\ c \notin C]

Leave(c) ==
    /\ pc[c] = "ready"
    /\ Forget({c})
    /\ UNCHANGED <<now, allowed, shared>>

\* handle_auth, with an event that validate_auth_event accepts.
Authenticate(c, pk) ==
    /\ pc[c] = "ready"
    /\ authed' = [authed EXCEPT ![c] = @ \union {pk}]
    /\ UNCHANGED <<now, allowed, shared, pc, event, count, first, outlaw>>

-----------------------------------------------------------------------------
(* handle_event, from one access of shared state to the next.  An event    *)
(* that is refused changes nothing, but for the one that comes too fast.   *)

NeedsAuth(m) == RequireAuth \/ m.protected

\* What comes next for an event that is genuine and authenticated.
Proceed(c, m) ==
    /\ event' = [event EXCEPT ![c] = m]
    /\ pc' = [pc EXCEPT ![c] = IF RequireAuth THEN "list" ELSE "rate"]
    /\ outlaw' = [outlaw EXCEPT ![c] = RequireAuth /\ m.author \notin allowed]

\* Mutant: the event is verified after the rate limit.
BeginUnverified(c, m) ==
    /\ pc[c] = "ready"
    /\ ~ Suspended(m.author)
    /\ NeedsAuth(m) => m.author \in authed[c]
    /\ Proceed(c, m)
    /\ UNCHANGED <<now, allowed, shared, authed, count, first>>

\* An event that passes everything up to the whitelist.
Begin(c, m) ==
    /\ pc[c] = "ready"
    /\ ~ Suspended(m.author)
    /\ m.genuine
    /\ NeedsAuth(m) => m.author \in authed[c]
    /\ Proceed(c, m)
    /\ UNCHANGED <<now, allowed, shared, authed, count, first>>

\* Mutant: who has authenticated is taken to be on the whitelist.
ListedWhenAuthenticated(c) ==
    /\ pc[c] = "list"
    /\ pc' = [pc EXCEPT ![c] = "rate"]
    /\ UNCHANGED <<now, allowed, shared, event, authed, count, first, outlaw>>

\* is_whitelisted
Listed(c) ==
    /\ pc[c] = "list"
    /\ event[c].author \in allowed
    /\ pc' = [pc EXCEPT ![c] = "rate"]
    /\ UNCHANGED <<now, allowed, shared, event, authed, count, first, outlaw>>

\* The pubkey is not on the whitelist, or the database has an error.
NotListed(c) ==
    /\ pc[c] = "list"
    /\ Return(c)
    /\ UNCHANGED <<now, allowed, shared, authed, count, first>>

\* The event is in, and its author has to wait for the next one.
Admit(c) ==
    /\ pc[c] = "rate"
    /\ Interval = 0 \/ ~ TooFast(event[c].author)
    /\ limits' = IF Interval = 0 THEN limits ELSE With(limits, event[c].author, now)
    /\ Return(c)
    /\ UNCHANGED <<now, allowed, records, recent, authed, count, first>>

Refuse(c) ==
    /\ pc[c] = "rate"
    /\ Interval > 0 /\ TooFast(event[c].author)
    /\ pc' = [pc EXCEPT ![c] = "abuse"]
    /\ UNCHANGED <<now, allowed, shared, event, authed, count, first, outlaw>>

\* The strikes that suspend: with a limit of 0 the first one does, as with 1.
Enough == IF StrikeLimit = 0 THEN 1 ELSE StrikeLimit

\* The history keeps no more of the times than it takes to suspend.
Remember(s) ==
    LET t == Append(s, now) IN IF Len(t) > Enough THEN Tail(t) ELSE t

RecordAbuse(c) ==
    LET pk == event[c].author
    IN  /\ pc[c] = "abuse"
        /\ records' = Pruned(With(records, pk, Struck(Current(pk))))
        /\ recent' = [recent EXCEPT ![pk] = Remember(@)]
        /\ pc' = [pc EXCEPT ![c] = "violation"]
        /\ UNCHANGED <<now, allowed, limits, event, authed, count, first, outlaw>>

\* record_violation, and the end of the connection when it has had enough.
RecordViolation(c) ==
    LET fresh == count[c] = 0 \/ now - first[c] > Window
        n     == IF fresh THEN 1 ELSE count[c] + 1
    IN  /\ pc[c] = "violation"
        /\ IF n >= StrikeLimit
           THEN Forget({c})
           ELSE /\ count' = [count EXCEPT ![c] = n]
                /\ first' = [first EXCEPT ![c] = IF fresh THEN now ELSE @]
                /\ Return(c)
                /\ UNCHANGED authed
        /\ UNCHANGED <<now, allowed, shared>>

-----------------------------------------------------------------------------
(* The rest of the world *)

\* handle_admin, with the right token: an author that is added is no outlaw.
AdminAdd(pk) ==
    /\ allowed' = allowed \union {pk}
    /\ outlaw' = [c \in Conn |-> outlaw[c] /\ event[c].author # pk]
    /\ UNCHANGED <<now, shared, local>>

AdminRemove(pk) ==
    /\ allowed' = allowed \ {pk}
    /\ UNCHANGED <<now, shared, local, outlaw>>

Tick == now < MaxTime /\ now' = now + 1 /\ UNCHANGED <<allowed, shared, local, outlaw>>

\* The process ends, and nothing of this is on disk, but for the whitelist.
Crash ==
    /\ Forget(Conn)
    /\ limits' = Empty
    /\ records' = Empty
    /\ recent' = [pk \in Pubkey |-> <<>>]
    /\ UNCHANGED <<now, allowed>>

Next ==
    \/ \E c \in Conn :
          \/ Connect(c)
          \/ Leave(c)
          \/ \E pk \in Keys(c) : Authenticate(c, pk)
          \/ \E m \in Sends[c] : Begin(c, m)
          \/ Listed(c)
          \/ NotListed(c)
          \/ Admit(c)
          \/ Refuse(c)
          \/ RecordAbuse(c)
          \/ RecordViolation(c)
    \/ \E pk \in Managed : AdminAdd(pk) \/ AdminRemove(pk)
    \/ Tick
    \/ Crash

Spec == Init /\ [][Next]_vars

-----------------------------------------------------------------------------
(* Properties *)

\* Until when pk is suspended, 0 when there is no such time.
Until(pk) == IF pk \in DOMAIN records THEN records[pk].until ELSE 0

\* A suspension is earned: it begins, and is prolonged, only at a strike that is
\* the last of so many within one window as it takes, and from then on it lasts
\* for the configured time.  (The strikes of events that were under way when
\* their author was suspended still count; one of them may open a new window
\* before the suspension is over, and neither ends nor prolongs it.)
SuspensionEarned ==
    [][\A pk \in Pubkey : Until(pk)' \notin {0, Until(pk)} =>
          LET t == recent'[pk]
          IN  /\ Len(t) = Enough
              /\ t[Enough] = now
              /\ now - t[1] <= Window
              /\ Until(pk)' = now + SuspendFor]_vars

\* Where authentication is required, an event gets to the rate limit, and beyond
\* it, only if its author was on the whitelist at some moment since the event
\* came in: a removal takes effect on every event that comes after it, over any
\* connection, however long ago the pubkey authenticated there.
OnlyListedCharged ==
    \A c \in Conn : pc[c] \in {"rate", "abuse", "violation"} => ~ outlaw[c]

\* Nobody is charged for what others send: the rate limit and the strikes of a
\* pubkey change only for a genuine event of its own, over a connection where
\* it is authenticated if that is required.  (Whatever an unverified event
\* asks about its author is only read, as the comment in handle_event says.)
OnlyAuthorsCharged ==
    [][\A pk \in Pubkey :
          \/ pk \in DOMAIN limits' /\ (pk \in DOMAIN limits => limits'[pk] # limits[pk])
          \/ pk \in DOMAIN records' /\ (pk \in DOMAIN records => records'[pk] # records[pk])
          => \E c \in Conn :
                /\ pc[c] \in {"rate", "abuse"} /\ pc'[c] # pc[c]
                /\ event[c].author = pk /\ event[c].genuine
                /\ NeedsAuth(event[c]) => pk \in authed[c]]_vars

\* The records, as they are made on demand, restarted when their window is
\* over, and pruned when they are many, keep the book that AbuseBook describes:
\* pruning and the late restart never forget a strike or a suspension that
\* still counts.
Counting(pk) == pk \in DOMAIN records /\ InWindow(records[pk])

Book == INSTANCE AbuseBook
    WITH strikes <- [pk \in Pubkey |-> IF Counting(pk) THEN records[pk].violations ELSE 0],
         opened  <- [pk \in Pubkey |-> IF Counting(pk) THEN records[pk].first ELSE 0],
         blocked <- [pk \in Pubkey |-> IF Suspended(pk) THEN records[pk].until ELSE 0]
RefinesBook == Book!Spec

\* The window rolls: whenever strikes enough to suspend came within a window,
\* the pubkey is suspended from the last of them on.  (Not so: see the run.)
RollingWindow ==
    \A pk \in Pubkey :
        LET t == recent[pk]
        IN  /\ Len(t) = Enough
            /\ t[Enough] - t[1] <= Window
            /\ now < t[Enough] + SuspendFor
            => Suspended(pk)
=============================================================================
