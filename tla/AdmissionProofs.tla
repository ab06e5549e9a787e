-------------------------- MODULE AdmissionProofs --------------------------
(***************************************************************************)
(* Proofs about Admission, for any connections, pubkeys and limits: an     *)
(* event that has got past the checks of handle_event is genuine, comes    *)
(* over a connection that is authenticated as far as it must be, and is of *)
(* an author who was on the whitelist since it came in.  Hence nobody is   *)
(* charged for what others send, and an author off the whitelist gets      *)
(* nowhere.                                                                *)
(***************************************************************************)
EXTENDS Admission, SequenceTheorems, TLAPS

Past == {"list", "rate", "abuse", "violation"}

\* The state of the connections has its shape.
Shape ==
    /\ pc \in [Conn -> {"off", "ready"} \union Past]
    /\ event = [c \in Conn |-> event[c]]
    /\ authed = [c \in Conn |-> authed[c]]
    /\ outlaw \in [Conn -> BOOLEAN]

\* What Begin has found out about an event stays true while the event is under
\* way: a connection never loses a key before it ends.
Verified ==
    \A c \in Conn : pc[c] \in Past =>
        event[c].genuine /\ (NeedsAuth(event[c]) => event[c].author \in authed[c])

\* Whose author is on the whitelist now has been on it since the event came in.
Lawful ==
    \A c \in Conn :
        \/ pc[c] = "list" /\ (event[c].author \in allowed => ~ outlaw[c])
        \/ pc[c] # "list" /\ ~ outlaw[c]

IInv == Shape /\ Verified /\ Lawful

-----------------------------------------------------------------------------
(* The invariant holds at the start, and every step keeps it. *)

LEMMA InitInvariant == Init => IInv
BY DEF Init, IInv, Shape, Verified, Lawful, Past

\* A connection whose task ends, or whose event is done with, has nothing under way.
LEMMA ForgetKeeps ==
    ASSUME NEW C, IInv, Forget(C), allowed' = allowed
    PROVE  IInv'
<1>1. Shape'
  BY DEF IInv, Shape, Forget, Past
<1>2. Verified'
  BY DEF IInv, Shape, Verified, Forget, Past, NeedsAuth
<1>3. Lawful'
  BY DEF IInv, Shape, Lawful, Forget, Past
<1> QED
  BY <1>1, <1>2, <1>3 DEF IInv

LEMMA ReturnKeeps ==
    ASSUME NEW c \in Conn, IInv, Return(c), allowed' = allowed, authed' = authed
    PROVE  IInv'
<1>1. Shape'
  BY DEF IInv, Shape, Return, Past
<1>2. Verified'
  BY DEF IInv, Shape, Verified, Return, Past, NeedsAuth
<1>3. Lawful'
  BY DEF IInv, Shape, Lawful, Return, Past
<1> QED
  BY <1>1, <1>2, <1>3 DEF IInv

\* A call that goes on to the next one, with the same event and whitelist.
LEMMA MovesOnKeeps ==
    ASSUME IInv, NEW c \in Conn, NEW next \in Past \ {"list"},
           pc[c] \in Past, pc[c] = "list" => event[c].author \in allowed,
           pc' = [pc EXCEPT ![c] = next],
           UNCHANGED <<allowed, event, authed, outlaw>>
    PROVE  IInv'
<1>1. Shape'
  BY DEF IInv, Shape, Past
<1>2. Verified'
  BY DEF IInv, Shape, Verified, Past, NeedsAuth
<1>3. Lawful'
  BY DEF IInv, Shape, Lawful, Past
<1> QED
  BY <1>1, <1>2, <1>3 DEF IInv

LEMMA StepKeepsInvariant == IInv /\ [Next]_vars => IInv'
<1> SUFFICES ASSUME IInv, [Next]_vars PROVE IInv'
  OBVIOUS
<1>1. ASSUME NEW c \in Conn, Connect(c) PROVE IInv'
  BY <1>1 DEF IInv, Shape, Verified, Lawful, Past, NeedsAuth, Connect
<1>2. ASSUME NEW c \in Conn, Leave(c) PROVE IInv'
  BY <1>2, ForgetKeeps DEF Leave
<1>3. ASSUME NEW c \in Conn, NEW pk \in Keys(c), Authenticate(c, pk) PROVE IInv'
  BY <1>3 DEF IInv, Shape, Verified, Lawful, Past, NeedsAuth, Authenticate
<1>4. ASSUME NEW c \in Conn, NEW m \in Sends[c], Begin(c, m) PROVE IInv'
  <2>1. Shape'
    BY <1>4 DEF IInv, Shape, Past, Begin, Proceed
  <2>2. Verified'
    BY <1>4 DEF IInv, Shape, Verified, Past, NeedsAuth, Begin, Proceed
  <2>3. Lawful'
    BY <1>4 DEF IInv, Shape, Lawful, Past, Begin, Proceed
  <2> QED
    BY <2>1, <2>2, <2>3 DEF IInv
<1>5. ASSUME NEW c \in Conn, Listed(c) PROVE IInv'
  BY <1>5, MovesOnKeeps DEF Listed, Past, shared
<1>6. ASSUME NEW c \in Conn, NotListed(c) PROVE IInv'
  BY <1>6, ReturnKeeps DEF NotListed
<1>7. ASSUME NEW c \in Conn, Admit(c) PROVE IInv'
  BY <1>7, ReturnKeeps DEF Admit
<1>8. ASSUME NEW c \in Conn, Refuse(c) PROVE IInv'
  BY <1>8, MovesOnKeeps DEF Refuse, Past
<1>9. ASSUME NEW c \in Conn, RecordAbuse(c) PROVE IInv'
  BY <1>9, MovesOnKeeps DEF RecordAbuse, Past
<1>10. ASSUME NEW c \in Conn, RecordViolation(c) PROVE IInv'
  BY <1>10, ForgetKeeps, ReturnKeeps DEF RecordViolation
<1>11. ASSUME NEW pk \in Managed, AdminAdd(pk) PROVE IInv'
  BY <1>11 DEF IInv, Shape, Verified, Lawful, Past, NeedsAuth, AdminAdd, local
<1>12. ASSUME NEW pk \in Managed, AdminRemove(pk) PROVE IInv'
  BY <1>12 DEF IInv, Shape, Verified, Lawful, Past, NeedsAuth, AdminRemove, local
<1>13. CASE Tick
  BY <1>13 DEF IInv, Shape, Verified, Lawful, Past, NeedsAuth, Tick, local
<1>14. CASE Crash
  BY <1>14, ForgetKeeps DEF Crash
<1>15. CASE UNCHANGED vars
  BY <1>15 DEF IInv, Shape, Verified, Lawful, Past, NeedsAuth, vars, local
<1> QED
  BY <1>1, <1>2, <1>3, <1>4, <1>5, <1>6, <1>7, <1>8, <1>9, <1>10, <1>11, <1>12, <1>13,
     <1>14, <1>15 DEF Next

\* In every reachable state, what the checks have let through is verified, and
\* lawful.
THEOREM AdmissionInvariant == Spec => []IInv
<1> QED
  BY InitInvariant, StepKeepsInvariant, PTL DEF Spec

\* Where authentication is required nobody off the whitelist reaches the rate
\* limit, whatever the admin does and however many connections there are.
THEOREM ListedOnly == Spec => []OnlyListedCharged
<1>1. IInv => OnlyListedCharged
  BY DEF IInv, Lawful, OnlyListedCharged
<1> QED
  BY <1>1, AdmissionInvariant, PTL

-----------------------------------------------------------------------------
(* Who is charged *)

\* Whether a step changes the rate limit or the strikes of pk.
Charged(pk) ==
    \/ pk \in DOMAIN limits' /\ (pk \in DOMAIN limits => limits'[pk] # limits[pk])
    \/ pk \in DOMAIN records' /\ (pk \in DOMAIN records => records'[pk] # records[pk])

Guilty(pk) ==
    \E c \in Conn :
        /\ pc[c] \in {"rate", "abuse"} /\ pc'[c] # pc[c]
        /\ event[c].author = pk /\ event[c].genuine
        /\ NeedsAuth(event[c]) => pk \in authed[c]

LEMMA WithChanges ==
    ASSUME NEW f, NEW k, NEW v, NEW x \in DOMAIN With(f, k, v), x # k
    PROVE  x \in DOMAIN f /\ With(f, k, v)[x] = f[x]
BY DEF With

\* Pruning takes records away and changes none.
LEMMA PrunedKeeps ==
    ASSUME NEW f, NEW x \in DOMAIN Pruned(f)
    PROVE  x \in DOMAIN f /\ Pruned(f)[x] = f[x]
BY DEF Pruned

LEMMA AdmitCharges ==
    ASSUME IInv, NEW c \in Conn, Admit(c), NEW pk, Charged(pk)
    PROVE  Guilty(pk)
<1>1. pk = event[c].author
  BY WithChanges DEF Admit, Charged
<1>2. pc[c] = "rate" /\ pc'[c] = "ready"
  BY DEF Admit, Return, IInv, Shape
<1> QED
  BY <1>1, <1>2 DEF Guilty, IInv, Verified, Past

LEMMA RecordAbuseCharges ==
    ASSUME IInv, NEW c \in Conn, RecordAbuse(c), NEW pk, Charged(pk)
    PROVE  Guilty(pk)
<1> DEFINE a == event[c].author
           r == With(records, a, Struck(Current(a)))
<1>1. records' = Pruned(r) /\ limits' = limits
  BY DEF RecordAbuse
<1>2. pk = a
  <2> SUFFICES ASSUME pk # a PROVE FALSE
    OBVIOUS
  <2>1. pk \in DOMAIN Pruned(r) /\ (pk \in DOMAIN records => Pruned(r)[pk] # records[pk])
    BY <1>1 DEF Charged
  <2>2. pk \in DOMAIN r /\ Pruned(r)[pk] = r[pk]
    BY <2>1, PrunedKeeps
  <2>3. pk \in DOMAIN records /\ r[pk] = records[pk]
    BY <2>2, WithChanges
  <2> QED
    BY <2>1, <2>2, <2>3
<1>3. pc[c] = "abuse" /\ pc'[c] = "violation"
  BY DEF RecordAbuse, IInv, Shape
<1> QED
  BY <1>2, <1>3 DEF Guilty, IInv, Verified, Past

LEMMA StepChargesGuilty == IInv /\ [Next]_vars => \A pk \in Pubkey : Charged(pk) => Guilty(pk)
<1> SUFFICES ASSUME IInv, [Next]_vars, NEW pk \in Pubkey, Charged(pk) PROVE Guilty(pk)
  OBVIOUS
<1>1. ~ (limits' = limits /\ records' = records)
  BY DEF Charged
<1>2. ~ (limits' = Empty /\ records' = Empty)
  BY DEF Charged, Empty
<1>3. \E c \in Conn : Admit(c) \/ RecordAbuse(c)
  BY <1>1, <1>2 DEF Next, vars, shared, Connect, Leave, Authenticate, Begin, Listed, NotListed,
     Refuse, RecordViolation, AdminAdd, AdminRemove, Tick, Crash
<1> QED
  BY <1>3, AdmitCharges, RecordAbuseCharges

\* The rate limit and the strikes of a pubkey change only for a genuine event of
\* its own, over a connection that is authenticated if it has to be.
THEOREM AuthorsCharged == Spec => OnlyAuthorsCharged
<1>1. IInv /\ [Next]_vars => [\A pk \in Pubkey : Charged(pk) => Guilty(pk)]_vars
  BY StepChargesGuilty
<1> QED
  BY <1>1, AdmissionInvariant, PTL DEF Spec, OnlyAuthorsCharged, Charged, Guilty

-----------------------------------------------------------------------------
(* Types, and what the records and the last strikes have to do with each   *)
(* other.                                                                  *)

\* The part of TypeOK about what the connections share, and about their own.
SharedTypes ==
    /\ now \in 0..MaxTime
    /\ DOMAIN limits \subseteq Pubkey
    /\ \A pk \in DOMAIN limits : limits[pk] \in 0..now
    /\ DOMAIN records \subseteq Pubkey
    /\ \A pk \in DOMAIN records :
          records[pk] \in Record /\ records[pk].violations > 0 /\ records[pk].first <= now
    /\ recent \in [Pubkey -> Seq(Nat)]

LocalTypes ==
    /\ allowed \in SUBSET Pubkey
    /\ outlaw \in [Conn -> BOOLEAN]
    /\ pc \in [Conn -> {"off", "ready", "list", "rate", "abuse", "violation"}]
    /\ event \in [Conn -> Message \union {NoEvent}]
    /\ authed \in [Conn -> SUBSET Pubkey]
    /\ count \in [Conn -> 0..StrikeLimit]
    /\ first \in [Conn -> 0..now]

LEMMA TypeParts == TypeOK <=> SharedTypes /\ LocalTypes
BY DEF TypeOK, SharedTypes, LocalTypes

\* The strikes of a record, as far as the history goes back.
Known(pk) == IF records[pk].violations < Enough THEN records[pk].violations ELSE Enough

\* The strikes that a record counts are the last ones of its pubkey, and all of
\* them are in its window; no suspension lasts longer than it may.
StrikesKept(pk) ==
    /\ Len(recent[pk]) <= Enough
    /\ pk \in DOMAIN records =>
          /\ Known(pk) <= Len(recent[pk])
          /\ \A i \in (Len(recent[pk]) - Known(pk) + 1)..Len(recent[pk]) :
                records[pk].first <= recent[pk][i] /\ recent[pk][i] <= records[pk].first + Window
          /\ records[pk].until <= now + SuspendFor

BookInv == IInv /\ TypeOK /\ \A pk \in Pubkey : StrikesKept(pk)

LEMMA EnoughFacts ==
    /\ Enough \in Nat /\ Enough > 0
    /\ \A n \in Nat : n > 0 => (n >= StrikeLimit <=> n >= Enough)
BY AdmissionAssumption DEF Enough

\* An event that is under way is one that somebody may send.
LEMMA UnderWay ==
    ASSUME IInv, TypeOK, NEW c \in Conn, pc[c] \in Past
    PROVE  event[c] \in Message /\ event[c].author \in Pubkey
<1>1. event[c].genuine
  BY DEF IInv, Verified
<1>2. event[c] # NoEvent
  BY <1>1 DEF NoEvent
<1> QED
  BY <1>2 DEF TypeOK, Message

LEMMA ForgetTypes ==
    ASSUME TypeOK, NEW C, Forget(C), now' = now, allowed' = allowed
    PROVE  LocalTypes'
<1>1. 0 \in 0..StrikeLimit /\ 0 \in 0..now
  BY AdmissionAssumption DEF TypeOK
<1> QED
  BY <1>1 DEF TypeOK, Forget, LocalTypes

LEMMA ReturnTypes ==
    ASSUME TypeOK, NEW c \in Conn, Return(c), now' = now, allowed' = allowed,
           authed' = authed, count' \in [Conn -> 0..StrikeLimit], first' \in [Conn -> 0..now]
    PROVE  LocalTypes'
BY DEF TypeOK, Return, LocalTypes

\* Where a call has left a connection, with the rest of its state as it was.
LEMMA MovesOnTypes ==
    ASSUME TypeOK, NEW c \in Conn, NEW next \in Past, pc' = [pc EXCEPT ![c] = next],
           UNCHANGED <<now, allowed, event, authed, count, first, outlaw>>
    PROVE  LocalTypes'
BY DEF TypeOK, LocalTypes, Past

LEMMA LocalTypesStep == IInv /\ TypeOK /\ [Next]_vars => LocalTypes'
<1> SUFFICES ASSUME IInv, TypeOK, [Next]_vars PROVE LocalTypes'
  OBVIOUS
<1>1. ASSUME NEW c \in Conn, Connect(c) PROVE LocalTypes'
  BY <1>1 DEF Connect, TypeOK, LocalTypes
<1>2. ASSUME NEW c \in Conn, Leave(c) PROVE LocalTypes'
  BY <1>2, ForgetTypes DEF Leave
<1>3. ASSUME NEW c \in Conn, NEW pk \in Keys(c), Authenticate(c, pk) PROVE LocalTypes'
  <2>1. pk \in Pubkey
    BY AdmissionAssumption DEF Keys, Message
  <2> QED
    BY <1>3, <2>1 DEF Authenticate, TypeOK, LocalTypes
<1>4. ASSUME NEW c \in Conn, NEW m \in Sends[c], Begin(c, m) PROVE LocalTypes'
  <2>1. m \in Message
    BY AdmissionAssumption
  <2>2. (RequireAuth /\ m.author \notin allowed) \in BOOLEAN
    OBVIOUS
  <2>3. outlaw' \in [Conn -> BOOLEAN]
    BY <1>4, <2>2 DEF Begin, Proceed, TypeOK
  <2>4. event' \in [Conn -> Message \union {NoEvent}]
    BY <1>4, <2>1 DEF Begin, Proceed, TypeOK
  <2>5. pc' \in [Conn -> {"off", "ready", "list", "rate", "abuse", "violation"}]
    BY <1>4 DEF Begin, Proceed, TypeOK
  <2> QED
    BY <1>4, <2>3, <2>4, <2>5 DEF Begin, TypeOK, LocalTypes
<1>5. ASSUME NEW c \in Conn, Listed(c) PROVE LocalTypes'
  BY <1>5, MovesOnTypes DEF Listed, Past
<1>6. ASSUME NEW c \in Conn, NotListed(c) PROVE LocalTypes'
  BY <1>6, ReturnTypes DEF NotListed, TypeOK
<1>7. ASSUME NEW c \in Conn, Admit(c) PROVE LocalTypes'
  BY <1>7, ReturnTypes DEF Admit, TypeOK
<1>8. ASSUME NEW c \in Conn, Refuse(c) PROVE LocalTypes'
  BY <1>8, MovesOnTypes DEF Refuse, Past
<1>9. ASSUME NEW c \in Conn, RecordAbuse(c) PROVE LocalTypes'
  BY <1>9, MovesOnTypes DEF RecordAbuse, Past
<1>10. ASSUME NEW c \in Conn, RecordViolation(c) PROVE LocalTypes'
  <2> DEFINE fresh == count[c] = 0 \/ now - first[c] > Window
             n     == IF fresh THEN 1 ELSE count[c] + 1
  <2>1. now' = now /\ allowed' = allowed
    BY <1>10 DEF RecordViolation
  <2>2. CASE n >= StrikeLimit
    BY <1>10, <2>1, <2>2, ForgetTypes DEF RecordViolation
  <2>3. CASE ~ (n >= StrikeLimit)
    <3>1. /\ count' = [count EXCEPT ![c] = n]
          /\ first' = [first EXCEPT ![c] = IF fresh THEN now ELSE @]
          /\ Return(c)
          /\ authed' = authed
      BY <1>10, <2>3 DEF RecordViolation
    <3>2. n \in Nat
      BY DEF TypeOK
    <3>3. n \in 0..StrikeLimit
      BY <2>3, <3>2, AdmissionAssumption
    <3>4. now \in 0..now
      BY DEF TypeOK
    <3>5. count' \in [Conn -> 0..StrikeLimit]
      BY <3>1, <3>3 DEF TypeOK
    <3>6. first' \in [Conn -> 0..now]
      BY <3>1, <3>4 DEF TypeOK
    <3> QED
      BY <2>1, <3>1, <3>5, <3>6, ReturnTypes
  <2> QED
    BY <2>2, <2>3
<1>11. ASSUME NEW pk \in Managed, AdminAdd(pk) PROVE LocalTypes'
  <2>1. outlaw' \in [Conn -> BOOLEAN]
    BY <1>11 DEF AdminAdd
  <2> QED
    BY <1>11, <2>1, AdmissionAssumption DEF AdminAdd, TypeOK, LocalTypes, local
<1>12. ASSUME NEW pk \in Managed, AdminRemove(pk) PROVE LocalTypes'
  BY <1>12 DEF AdminRemove, TypeOK, LocalTypes, local
<1>13. CASE Tick
  <2>1. \A t \in 0..now : t \in 0..now'
    BY <1>13 DEF Tick, TypeOK
  <2> QED
    BY <1>13, <2>1 DEF Tick, TypeOK, LocalTypes, local
<1>14. CASE Crash
  BY <1>14, ForgetTypes DEF Crash
<1>15. CASE UNCHANGED vars
  BY <1>15 DEF vars, TypeOK, LocalTypes, local
<1> QED
  BY <1>1, <1>2, <1>3, <1>4, <1>5, <1>6, <1>7, <1>8, <1>9, <1>10, <1>11, <1>12, <1>13,
     <1>14, <1>15 DEF Next

\* The steps that move the clock or the shared state.
LEMMA WhoShares ==
    ASSUME [Next]_vars
    PROVE  \/ UNCHANGED <<now, limits, records, recent>>
           \/ \E c \in Conn : Admit(c) \/ RecordAbuse(c)
           \/ Tick
           \/ Crash
BY DEF Next, vars, shared, Connect, Leave, Authenticate, Begin, Listed, NotListed,
   Refuse, RecordViolation, AdminAdd, AdminRemove

\* The record that a strike is added to is in its window: the one there is, or a
\* new start, which leaves a suspension as it is.
LEMMA CurrentFacts ==
    ASSUME TypeOK, NEW pk
    PROVE  /\ Current(pk) \in Record
           /\ Current(pk).first <= now /\ InWindow(Current(pk))
           /\ Current(pk).until = Until(pk)
           /\ Counting(pk) => Current(pk) = records[pk]
           /\ ~ Counting(pk) => Current(pk).violations = 0 /\ Current(pk).first = now
<1> USE AdmissionAssumption
<1>1. now \in Nat /\ now - now <= Window
  BY DEF TypeOK
<1>2. CASE pk \notin DOMAIN records
  BY <1>1, <1>2 DEF Current, Record, InWindow, Until, Counting
<1>3. CASE pk \in DOMAIN records /\ InWindow(records[pk])
  BY <1>3 DEF Current, Record, InWindow, Until, Counting, TypeOK
<1>4. CASE pk \in DOMAIN records /\ ~ InWindow(records[pk])
  <2>1. records[pk] \in Record
    BY <1>4 DEF TypeOK
  <2>2. Current(pk) = [records[pk] EXCEPT !.violations = 0, !.first = now]
    BY <1>4 DEF Current
  <2>3. Current(pk) = [violations |-> 0, first |-> now, until |-> records[pk].until]
    BY <2>1, <2>2 DEF Record
  <2>4. /\ Current(pk) \in Record
        /\ Current(pk).violations = 0 /\ Current(pk).first = now
        /\ Current(pk).until = records[pk].until
    BY <1>1, <2>1, <2>3 DEF Record
  <2> QED
    BY <1>1, <1>4, <2>4 DEF InWindow, Until, Counting
<1> QED
  BY <1>2, <1>3, <1>4

LEMMA StruckFacts ==
    ASSUME TypeOK, NEW pk
    PROVE  LET s == Struck(Current(pk))
           IN  /\ s \in Record
               /\ s.violations = Current(pk).violations + 1
               /\ s.first = Current(pk).first
               /\ s.until = IF s.violations >= StrikeLimit THEN now + SuspendFor ELSE Until(pk)
               /\ InWindow(s)
<1>1. now \in Nat /\ SuspendFor \in Nat
  BY AdmissionAssumption DEF TypeOK
<1> QED
  BY <1>1, CurrentFacts DEF Struck, Record, InWindow

\* What a strike does to the records: the one of the author has one more, and of
\* the others only those go that no longer count.
LEMMA StrikeRecords ==
    ASSUME TypeOK, NEW c \in Conn, RecordAbuse(c)
    PROVE  LET a == event[c].author
           IN  /\ a \in DOMAIN records' /\ records'[a] = Struck(Current(a))
               /\ \A k \in DOMAIN records' : k # a => k \in DOMAIN records /\ records'[k] = records[k]
               /\ \A k \in DOMAIN records : k \notin DOMAIN records' => ~ Worthwhile(records[k])
<1> DEFINE a == event[c].author
           s == Struck(Current(a))
           r == With(records, a, s)
<1>1. records' = Pruned(r)
  BY DEF RecordAbuse
<1>2. DOMAIN r = DOMAIN records \union {a} /\ r[a] = s
      /\ \A k \in DOMAIN r : k # a => k \in DOMAIN records /\ r[k] = records[k]
  BY DEF With
<1>3. Worthwhile(s)
  BY StruckFacts DEF Worthwhile
<1> HIDE DEF r, s
<1>4. a \in DOMAIN records' /\ records'[a] = s
  BY <1>1, <1>2, <1>3 DEF Pruned
<1>5. \A k \in DOMAIN records' : k # a => k \in DOMAIN records /\ records'[k] = records[k]
  BY <1>1, <1>2, PrunedKeeps
<1>6. \A k \in DOMAIN records : k \notin DOMAIN records' => ~ Worthwhile(records[k])
  BY <1>1, <1>2, <1>4 DEF Pruned
<1> QED
  BY <1>4, <1>5, <1>6 DEF s

\* One more time in the history of a pubkey.
LEMMA RememberFacts ==
    ASSUME now \in Nat, NEW s \in Seq(Nat), Len(s) <= Enough, NEW t, t = Remember(s)
    PROVE  /\ t \in Seq(Nat) /\ Len(t) \in Nat
           /\ Len(t) = IF Len(s) < Enough THEN Len(s) + 1 ELSE Enough
           /\ t[Len(t)] = now
           /\ \A i \in 1..(Len(t) - 1) : /\ i + (Len(s) + 1 - Len(t)) \in 1..Len(s)
                                         /\ t[i] = s[i + (Len(s) + 1 - Len(t))]
<1> DEFINE u == Append(s, now)
<1>1. /\ u \in Seq(Nat) /\ u # <<>>
      /\ Len(s) \in Nat /\ Len(u) = Len(s) + 1
      /\ \A i \in 1..Len(s) : u[i] = s[i]
      /\ u[Len(s) + 1] = now
  BY AppendProperties, LenProperties
<1> HIDE DEF u
<1>2. CASE Len(s) < Enough
  <2>1. t = u
    BY <1>1, <1>2, EnoughFacts DEF Remember, u
  <2>2. Len(s) \in Nat /\ Len(t) = Len(s) + 1 /\ t[Len(t)] = now /\ t \in Seq(Nat)
    BY <1>1, <2>1
  <2>3. \A i \in 1..(Len(t) - 1) : i + (Len(s) + 1 - Len(t)) = i /\ i \in 1..Len(s)
    <3>1. Len(s) \in Nat /\ Len(t) = Len(s) + 1
      BY <2>2
    <3> QED
      BY ONLY <3>1
  <2>4. \A i \in 1..(Len(t) - 1) : t[i] = s[i]
    BY ONLY <1>1, <2>1, <2>3
  <2>5. Len(t) \in Nat /\ Len(t) = IF Len(s) < Enough THEN Len(s) + 1 ELSE Enough
    BY ONLY <1>2, <2>2
  <2> QED
    BY ONLY <2>2, <2>3, <2>4, <2>5
<1>3. CASE ~ (Len(s) < Enough)
  <2>1. t = Tail(u)
    BY <1>1, <1>3, EnoughFacts DEF Remember, u
  <2>2. /\ Tail(u) \in Seq(Nat) /\ Len(Tail(u)) = Len(s)
        /\ \A i \in 1..Len(s) : Tail(u)[i] = u[i + 1]
    BY <1>1, HeadTailProperties
  <2>3. Len(s) = Enough /\ Enough > 0
    BY <1>1, <1>3, EnoughFacts
  <2>4. /\ Len(s) \in Nat /\ Len(s) \in 1..Len(s)
        /\ Len(t) = Len(s) /\ t \in Seq(Nat) /\ t[Len(t)] = u[Len(s) + 1]
    BY ONLY <1>1, <2>1, <2>2, <2>3, EnoughFacts
  <2>5. \A i \in 1..(Len(t) - 1) : /\ i + (Len(s) + 1 - Len(t)) = i + 1
                                 /\ i \in 1..Len(s) /\ i + 1 \in 1..Len(s)
    <3>1. Len(s) \in Nat /\ Len(t) = Len(s)
      BY <2>4
    <3> QED
      BY ONLY <3>1
  <2>6. \A i \in 1..(Len(t) - 1) : t[i] = s[i + 1]
    BY ONLY <1>1, <2>1, <2>2, <2>5
  <2>7. Len(t) \in Nat /\ Len(t) = IF Len(s) < Enough THEN Len(s) + 1 ELSE Enough
    BY ONLY <1>3, <2>3, <2>4
  <2> QED
    BY ONLY <1>1, <2>4, <2>5, <2>6, <2>7
<1> QED
  BY <1>2, <1>3

LEMMA SharedTypesStep == BookInv /\ [Next]_vars => SharedTypes'
<1> SUFFICES ASSUME BookInv, [Next]_vars PROVE SharedTypes'
  OBVIOUS
<1>0. TypeOK /\ IInv /\ SharedTypes
  BY TypeParts DEF BookInv
<1>1. CASE UNCHANGED <<now, limits, records, recent>>
  BY <1>0, <1>1 DEF SharedTypes
<1>2. ASSUME NEW c \in Conn, Admit(c) PROVE SharedTypes'
  <2> DEFINE a == event[c].author
  <2>1. a \in Pubkey
    BY <1>0, <1>2, UnderWay DEF Admit, Past
  <2>2. now' = now /\ records' = records /\ recent' = recent
    BY <1>2 DEF Admit
  <2>3. limits' = limits \/ limits' = With(limits, a, now)
    BY <1>2 DEF Admit
  <2>4. CASE limits' = limits
    BY <1>0, <2>2, <2>4 DEF SharedTypes
  <2>5. CASE limits' = With(limits, a, now)
    <3>1. DOMAIN limits' \subseteq Pubkey /\ \A pk \in DOMAIN limits' : limits'[pk] \in 0..now
      BY <1>0, <2>1, <2>5 DEF SharedTypes, With
    <3> QED
      BY <1>0, <2>2, <3>1 DEF SharedTypes
  <2> QED
    BY <2>3, <2>4, <2>5
<1>3. ASSUME NEW c \in Conn, RecordAbuse(c) PROVE SharedTypes'
  <2> DEFINE a == event[c].author
  <2>1. a \in Pubkey
    BY <1>0, <1>3, UnderWay DEF RecordAbuse, Past
  <2>2. now' = now /\ limits' = limits
    BY <1>3 DEF RecordAbuse
  <2>3. recent' \in [Pubkey -> Seq(Nat)]
    <3>1. recent[a] \in Seq(Nat) /\ Len(recent[a]) <= Enough /\ now \in Nat
      BY <1>0, <2>1 DEF BookInv, StrikesKept, SharedTypes
    <3>2. recent[a] \in Seq(Nat) => Remember(recent[a]) \in Seq(Nat)
      BY <3>1, RememberFacts
    <3> QED
      BY <1>0, <1>3, <3>2 DEF RecordAbuse, SharedTypes
  <2>4. records'[a] = Struck(Current(a))
    BY <1>0, <1>3, StrikeRecords
  <2>5. records'[a] \in Record /\ records'[a].violations > 0 /\ records'[a].first <= now
    BY <1>0, <2>4, StruckFacts, CurrentFacts DEF Record
  <2>6. \A k \in DOMAIN records' : k # a => k \in DOMAIN records /\ records'[k] = records[k]
    BY <1>0, <1>3, StrikeRecords
  <2>7. DOMAIN records' \subseteq Pubkey
    BY <1>0, <2>1, <2>6 DEF SharedTypes
  <2>8. ASSUME NEW k \in DOMAIN records'
        PROVE  records'[k] \in Record /\ records'[k].violations > 0 /\ records'[k].first <= now
    BY <1>0, <2>5, <2>6 DEF SharedTypes
  <2> QED
    BY <1>0, <2>2, <2>3, <2>7, <2>8 DEF SharedTypes
<1>4. CASE Tick
  BY <1>0, <1>4, AdmissionAssumption DEF Tick, SharedTypes, shared, Record
<1>5. CASE Crash
  BY <1>0, <1>5 DEF Crash, SharedTypes, Empty
<1> QED
  BY <1>1, <1>2, <1>3, <1>4, <1>5, WhoShares

\* The last strikes before another one, as far as the record counts them: they
\* are in the window that the next one falls into.
LEMMA BeforeStrike ==
    ASSUME TypeOK, NEW pk \in Pubkey, StrikesKept(pk), NEW v, v = Current(pk).violations,
           NEW n, n = Len(recent[pk])
    PROVE  /\ v \in Nat /\ n \in Nat
           /\ v < Enough => v <= n
           /\ v >= Enough => Enough <= n
           /\ \A i \in 1..n : n - v < i =>
                 /\ Current(pk).first <= recent[pk][i]
                 /\ recent[pk][i] <= Current(pk).first + Window
<1>1. v \in Nat /\ n \in Nat
  BY CurrentFacts, LenProperties DEF Record, TypeOK
<1>2. CASE Counting(pk)
  <2>1. Current(pk) = records[pk] /\ pk \in DOMAIN records
    BY <1>2, CurrentFacts DEF Counting
  <2>2. /\ Known(pk) = IF v < Enough THEN v ELSE Enough
        /\ n <= Enough /\ Known(pk) <= n
        /\ \A i \in (n - Known(pk) + 1)..n :
              /\ Current(pk).first <= recent[pk][i]
              /\ recent[pk][i] <= Current(pk).first + Window
    BY <2>1 DEF Known, StrikesKept
  <2>3. \A i \in 1..n : n - v < i => i \in (n - Known(pk) + 1)..n
    BY <1>1, <2>2, EnoughFacts
  <2> QED
    BY <1>1, <2>2, <2>3, EnoughFacts
<1>3. CASE ~ Counting(pk)
  <2>1. v = 0
    BY <1>3, CurrentFacts
  <2> QED
    BY <1>1, <2>1, EnoughFacts
<1> QED
  BY <1>2, <1>3

\* How far back the strikes reach that a record counts, after one more: m times
\* are remembered where there were n, and k of them known where there were v.
LEMMA OneMore ==
    ASSUME NEW n \in Nat, NEW m \in Nat, NEW v \in Nat, NEW k, NEW e \in Nat,
           e > 0, n <= e, v < e => v <= n, v >= e => e <= n,
           m = IF n < e THEN n + 1 ELSE e,
           k = IF v + 1 < e THEN v + 1 ELSE e
    PROVE  /\ m <= e /\ k <= m
           /\ \A i \in (m - k + 1)..m :
                 i # m => i \in 1..(m - 1) /\ n - v < i + (n + 1 - m)
<1>1. k \in Nat /\ k <= v + 1 /\ k <= m /\ m <= e
  OBVIOUS
<1> QED
  BY <1>1

LEMMA StrikeKeeps ==
    ASSUME BookInv, NEW c \in Conn, RecordAbuse(c), NEW pk \in Pubkey
    PROVE  StrikesKept(pk)'
<1> DEFINE a == event[c].author
<1>0. TypeOK /\ IInv /\ StrikesKept(pk)
  BY DEF BookInv
<1>1. now' = now /\ recent' = [recent EXCEPT ![a] = Remember(@)]
  BY DEF RecordAbuse
<1>2. recent \in [Pubkey -> Seq(Nat)] /\ now \in Nat
  BY <1>0 DEF TypeOK
<1>3. CASE pk # a
  <2>1. recent'[pk] = recent[pk]
    BY <1>1, <1>2, <1>3
  <2>2. pk \in DOMAIN records' => pk \in DOMAIN records /\ records'[pk] = records[pk]
    BY <1>0, <1>3, StrikeRecords
  <2> QED
    BY <1>0, <1>1, <2>1, <2>2 DEF StrikesKept, Known
<1>4. CASE pk = a
  <2> DEFINE s == recent[pk]
             t == recent'[pk]
             n == Len(s)
             m == Len(t)
             v == Current(pk).violations
             f == Current(pk).first
  <2>1. s \in Seq(Nat) /\ n \in Nat /\ n <= Enough /\ t = Remember(s)
    BY <1>0, <1>1, <1>2, <1>4, LenProperties DEF StrikesKept
  <2>2. /\ m \in Nat /\ m = IF n < Enough THEN n + 1 ELSE Enough
        /\ t[m] = now
        /\ \A i \in 1..(m - 1) : i + (n + 1 - m) \in 1..n /\ t[i] = s[i + (n + 1 - m)]
    <3> HIDE DEF s, t
    <3> QED
      BY <1>2, <2>1, RememberFacts
  <2>3. /\ v \in Nat
        /\ v < Enough => v <= n
        /\ v >= Enough => Enough <= n
        /\ \A i \in 1..n : n - v < i => f <= s[i] /\ s[i] <= f + Window
    BY <1>0, BeforeStrike
  <2>4. /\ pk \in DOMAIN records' /\ records'[pk] = Struck(Current(pk))
        /\ records'[pk].violations = v + 1 /\ records'[pk].first = f
    BY <1>0, <1>4, StrikeRecords, StruckFacts
  <2>5. f \in Nat /\ f <= now /\ now <= f + Window
    BY <1>0, <1>2, CurrentFacts, AdmissionAssumption DEF Record, InWindow
  <2>6. records'[pk].until <= now + SuspendFor
    <3>1. Until(pk) <= now + SuspendFor
      BY <1>0, <1>2, AdmissionAssumption DEF Until, StrikesKept
    <3>2. \/ records'[pk].until = now + SuspendFor
          \/ records'[pk].until = Until(pk)
      BY <1>0, <2>4, StruckFacts
    <3> QED
      BY <1>2, <3>1, <3>2, AdmissionAssumption
  <2>7. Known(pk)' = IF v + 1 < Enough THEN v + 1 ELSE Enough
    BY <2>4 DEF Known, Enough
  <2> HIDE DEF s, t, n, m, v, f
  <2>8. /\ m <= Enough /\ Known(pk)' <= m
        /\ \A i \in (m - Known(pk)' + 1)..m :
              i # m => i \in 1..(m - 1) /\ n - v < i + (n + 1 - m)
    <3>1. Enough \in Nat /\ Enough > 0
      BY EnoughFacts
    <3> QED
      BY ONLY <2>1, <2>2, <2>3, <2>7, <3>1, OneMore
  <2>9. ASSUME NEW i \in (m - Known(pk)' + 1)..m PROVE f <= t[i] /\ t[i] <= f + Window
    <3>1. CASE i = m
      BY <1>2, <2>2, <2>5, <3>1
    <3>2. CASE i # m
      <4> DEFINE j == i + (n + 1 - m)
      <4>1. i \in 1..(m - 1)
        BY <2>8, <3>2
      <4>2. j \in 1..n /\ t[i] = s[j]
        BY <2>2, <4>1
      <4>3. n - v < j
        BY <2>8, <3>2
      <4> QED
        BY <2>3, <4>2, <4>3
    <3> QED
      BY <3>1, <3>2
  <2>10. Enough' = Enough /\ Window' = Window /\ (now + SuspendFor)' = now + SuspendFor
    BY <1>1 DEF Enough
  <2> QED
    BY <2>4, <2>6, <2>8, <2>9, <2>10 DEF StrikesKept, t, m
<1> QED
  BY <1>3, <1>4

LEMMA StrikesKeptStep == BookInv /\ [Next]_vars => \A pk \in Pubkey : StrikesKept(pk)'
<1> SUFFICES ASSUME BookInv, [Next]_vars, NEW pk \in Pubkey PROVE StrikesKept(pk)'
  OBVIOUS
<1>0. TypeOK /\ StrikesKept(pk)
  BY DEF BookInv
<1>1. CASE records' = records /\ recent' = recent /\ now' \in Nat /\ now <= now'
  <2>1. pk \in DOMAIN records => records[pk].until \in Nat
    BY <1>0 DEF TypeOK, Record
  <2>2. pk \in DOMAIN records => records[pk].until <= now' + SuspendFor
    BY <1>0, <1>1, <2>1, AdmissionAssumption DEF StrikesKept, TypeOK
  <2>3. Known(pk)' = Known(pk)
    BY <1>1 DEF Known, Enough
  <2> QED
    BY <1>0, <1>1, <2>2, <2>3 DEF StrikesKept, Enough
<1>2. CASE \E c \in Conn : RecordAbuse(c)
  BY <1>2, StrikeKeeps
<1>3. CASE Crash
  <2>1. recent'[pk] = <<>> /\ records' = Empty
    BY <1>3 DEF Crash
  <2> QED
    BY <2>1, EnoughFacts DEF StrikesKept, Empty, Enough
<1>4. now \in Nat
  BY <1>0 DEF TypeOK
<1> QED
  BY <1>1, <1>2, <1>3, <1>4, WhoShares DEF Admit, Tick, shared

LEMMA BookInit == Init => BookInv
<1> SUFFICES ASSUME Init PROVE BookInv
  OBVIOUS
<1>1. IInv
  BY InitInvariant
<1>2. 0 \in 0..MaxTime /\ 0 \in 0..StrikeLimit /\ 0 \in 0..0
  BY AdmissionAssumption
<1>3. SharedTypes
  BY <1>2 DEF Init, SharedTypes, Empty
<1>4. LocalTypes
  BY <1>2, AdmissionAssumption DEF Init, LocalTypes
<1>5. \A pk \in Pubkey : StrikesKept(pk)
  BY EnoughFacts DEF Init, StrikesKept, Empty
<1> QED
  BY <1>1, <1>3, <1>4, <1>5, TypeParts DEF BookInv

LEMMA BookStep == BookInv /\ [Next]_vars => BookInv'
<1> SUFFICES ASSUME BookInv, [Next]_vars PROVE BookInv'
  OBVIOUS
<1>1. IInv'
  BY StepKeepsInvariant DEF BookInv
<1>2. TypeOK'
  <2>1. SharedTypes' /\ LocalTypes'
    BY SharedTypesStep, LocalTypesStep DEF BookInv
  <2> QED
    BY <2>1 DEF TypeOK, SharedTypes, LocalTypes
<1>3. \A pk \in Pubkey : StrikesKept(pk)'
  BY StrikesKeptStep
<1> QED
  BY <1>1, <1>2, <1>3 DEF BookInv

\* In every reachable state the records and the history of the strikes agree.
THEOREM BooksAgree == Spec => []BookInv
<1> QED
  BY BookInit, BookStep, PTL DEF Spec

\* Whatever the clients and the admin do, a limit is never exceeded by a counter
\* of a connection, and no time on record lies ahead of the clock.
THEOREM AdmissionTypes == Spec => []TypeOK
<1>1. BookInv => TypeOK
  BY DEF BookInv
<1> QED
  BY <1>1, BooksAgree, PTL

-----------------------------------------------------------------------------
(* Suspensions *)

\* What a step that starts or prolongs the suspension of pk has to show for it.
Earned(pk) ==
    LET t == recent'[pk]
    IN  /\ Len(t) = Enough
        /\ t[Enough] = now
        /\ now - t[1] <= Window
        /\ Until(pk)' = now + SuspendFor

LEMMA StrikeEarns ==
    ASSUME BookInv, BookInv', NEW c \in Conn, RecordAbuse(c), NEW pk \in Pubkey,
           Until(pk)' \notin {0, Until(pk)}
    PROVE  Earned(pk)
<1> DEFINE a == event[c].author
           t == recent'[pk]
<1>0. TypeOK /\ StrikesKept(pk)' /\ StrikesKept(pk) /\ now \in Nat /\ recent \in [Pubkey -> Seq(Nat)]
  BY DEF BookInv, TypeOK
<1>1. pk = a
  <2> SUFFICES ASSUME pk # a PROVE FALSE
    OBVIOUS
  <2>1. pk \in DOMAIN records'
    BY DEF Until
  <2>2. pk \in DOMAIN records /\ records'[pk] = records[pk]
    BY <1>0, <2>1, StrikeRecords
  <2> QED
    BY <2>1, <2>2 DEF Until
<1>2. /\ pk \in DOMAIN records' /\ records'[pk] = Struck(Current(pk))
      /\ records'[pk] \in Record /\ records'[pk].violations > 0
      /\ InWindow(records'[pk])
      /\ Until(pk)' = records'[pk].until
  BY <1>0, <1>1, StrikeRecords, StruckFacts, CurrentFacts DEF Record, Until
<1>3. records'[pk].violations >= StrikeLimit /\ Until(pk)' = now + SuspendFor
  BY <1>0, <1>2, StruckFacts
<1>4. records'[pk].violations >= Enough
  BY <1>2, <1>3, EnoughFacts DEF Record
<1>5. Known(pk)' = Enough
  BY <1>2, <1>4, EnoughFacts DEF Known, Record, Enough
<1>6. /\ Len(t) <= Enough /\ Enough <= Len(t)
      /\ \A i \in (Len(t) - Enough + 1)..Len(t) : records'[pk].first <= t[i]
  BY <1>0, <1>2, <1>5 DEF StrikesKept, Enough
<1>7. /\ Len(t) \in Nat /\ t \in Seq(Nat)
      /\ t[Len(t)] = now
  <2>1. t = Remember(recent[pk])
    BY <1>0, <1>1 DEF RecordAbuse
  <2>2. recent[pk] \in Seq(Nat) /\ Len(recent[pk]) <= Enough
    BY <1>0 DEF StrikesKept
  <2> HIDE DEF t
  <2> QED
    BY <1>0, <2>1, <2>2, RememberFacts
<1> HIDE DEF t
<1>8. Len(t) = Enough /\ 1 \in (Len(t) - Enough + 1)..Len(t)
  BY <1>6, <1>7, EnoughFacts
<1>9. t[1] \in Nat /\ records'[pk].first \in Nat /\ records'[pk].first <= t[1]
  BY <1>2, <1>6, <1>7, <1>8, LenProperties DEF Record
<1>10. now - t[1] <= Window
  BY <1>0, <1>2, <1>9, AdmissionAssumption DEF InWindow
<1> QED
  BY <1>3, <1>7, <1>8, <1>10 DEF Earned, t

LEMMA StepEarns ==
    BookInv /\ BookInv' /\ [Next]_vars =>
        \A pk \in Pubkey : Until(pk)' \notin {0, Until(pk)} => Earned(pk)
<1> SUFFICES ASSUME BookInv, BookInv', [Next]_vars,
                    NEW pk \in Pubkey, Until(pk)' \notin {0, Until(pk)}
             PROVE  Earned(pk)
  OBVIOUS
<1>1. records' # records /\ records' # Empty
  BY DEF Until, Empty
<1>2. \E c \in Conn : RecordAbuse(c)
  BY <1>1, WhoShares DEF Admit, Tick, shared, Crash
<1> QED
  BY <1>2, StrikeEarns

\* A suspension begins, and is prolonged, only at the last of as many strikes in
\* one window as the limit says, and for no longer than is configured: not by the
\* strikes of several windows, nor by those of anybody else, nor by pruning.
THEOREM SuspensionsEarned == Spec => SuspensionEarned
<1>1. BookInv /\ BookInv' /\ [Next]_vars =>
        [\A pk \in Pubkey : Until(pk)' \notin {0, Until(pk)} => Earned(pk)]_vars
  BY StepEarns
<1> QED
  BY <1>1, BooksAgree, PTL DEF Spec, SuspensionEarned, Earned

-----------------------------------------------------------------------------
(* The book of abuse *)

\* What AbuseBook sees of the records: its three variables.
StrikesOf == [pk \in Pubkey |-> IF Counting(pk) THEN records[pk].violations ELSE 0]
OpenedOf  == [pk \in Pubkey |-> IF Counting(pk) THEN records[pk].first ELSE 0]
BlockedOf == [pk \in Pubkey |-> IF Suspended(pk) THEN records[pk].until ELSE 0]
bookVars == <<now, StrikesOf, OpenedOf, BlockedOf, recent>>

LEMMA BookStarts == Init => Book!Init
BY DEF Init, Book!Init, Book!Nothing, Counting, Suspended, Empty

LEMMA TickTicks ==
    ASSUME TypeOK, Tick
    PROVE  Book!Tick
<1> USE AdmissionAssumption
<1>0. now \in Nat /\ now' = now + 1 /\ records' = records /\ recent' = recent
  BY DEF Tick, TypeOK, shared
<1>1. ASSUME NEW pk \in DOMAIN records
      PROVE  /\ records[pk].violations \in Nat /\ records[pk].violations > 0
             /\ records[pk].first \in Nat /\ records[pk].first <= now
             /\ records[pk].until \in Nat
  BY DEF TypeOK, Record
<1>2. ASSUME NEW pk \in Pubkey
      PROVE  /\ StrikesOf[pk] > 0 <=> Counting(pk)
             /\ Counting(pk)' <=> Counting(pk) /\ ~ (now + 1 > OpenedOf[pk] + Window)
             /\ Suspended(pk)' <=> BlockedOf[pk] > now + 1
  BY <1>0, <1>1 DEF StrikesOf, OpenedOf, BlockedOf, Counting, Suspended, InWindow
<1>3. StrikesOf' = [pk \in Pubkey |->
          IF StrikesOf[pk] > 0 /\ now + 1 > OpenedOf[pk] + Window THEN 0 ELSE StrikesOf[pk]]
  BY <1>0, <1>2 DEF StrikesOf
<1>4. OpenedOf' = [pk \in Pubkey |->
          IF StrikesOf[pk] > 0 /\ now + 1 > OpenedOf[pk] + Window THEN 0 ELSE OpenedOf[pk]]
  BY <1>0, <1>2 DEF OpenedOf
<1>5. BlockedOf' = [pk \in Pubkey |-> IF BlockedOf[pk] > now + 1 THEN BlockedOf[pk] ELSE 0]
  BY <1>0, <1>1, <1>2 DEF BlockedOf, Suspended
<1> QED
  BY <1>0, <1>3, <1>4, <1>5 DEF Book!Tick, StrikesOf, OpenedOf, BlockedOf

LEMMA StrikeStrikes ==
    ASSUME BookInv, NEW c \in Conn, RecordAbuse(c), NEW a, a = event[c].author
    PROVE  a \in Pubkey /\ Book!Strike(a)
<1> USE AdmissionAssumption
<1> DEFINE s == Struck(Current(a))
<1>0. /\ TypeOK /\ IInv /\ now \in Nat /\ now' = now
      /\ recent' = [recent EXCEPT ![a] = Remember(@)]
      /\ \A pk \in Pubkey : StrikesKept(pk)
  BY DEF BookInv, TypeOK, RecordAbuse
<1>1. a \in Pubkey
  BY <1>0, UnderWay DEF RecordAbuse, Past
<1>2. ASSUME NEW pk \in Pubkey, pk # a
      PROVE  /\ Counting(pk)' <=> Counting(pk)
             /\ Suspended(pk)' <=> Suspended(pk)
             /\ pk \in DOMAIN records' => records'[pk] = records[pk]
  BY <1>0, <1>2, StrikeRecords DEF Counting, Suspended, InWindow, Worthwhile
<1>3. /\ a \in DOMAIN records' /\ records'[a] = s
      /\ s.violations = Current(a).violations + 1 /\ s.first = Current(a).first
      /\ s.until = IF s.violations >= StrikeLimit THEN now + SuspendFor ELSE Until(a)
      /\ InWindow(s)
  BY <1>0, StrikeRecords, StruckFacts
<1>4. Counting(a)'
  BY <1>0, <1>3 DEF Counting, InWindow
<1>5. /\ Current(a).violations = StrikesOf[a]
      /\ Current(a).first = IF StrikesOf[a] = 0 THEN now ELSE OpenedOf[a]
  <2>1. CASE Counting(a)
    <3>1. Current(a) = records[a] /\ StrikesOf[a] = records[a].violations
          /\ OpenedOf[a] = records[a].first
      BY <1>0, <1>1, <2>1, CurrentFacts DEF StrikesOf, OpenedOf
    <3>2. records[a] \in Record /\ records[a].violations > 0
      BY <1>0, <2>1 DEF Counting, TypeOK
    <3> QED
      BY <3>1, <3>2 DEF Record
  <2>2. CASE ~ Counting(a)
    BY <1>0, <1>1, <2>2, CurrentFacts DEF StrikesOf
  <2> QED
    BY <2>1, <2>2
<1> HIDE DEF s
<1>6. StrikesOf' = [StrikesOf EXCEPT ![a] = @ + 1]
  <2>1. StrikesOf'[a] = StrikesOf[a] + 1
    BY <1>1, <1>3, <1>4, <1>5 DEF StrikesOf
  <2>2. \A pk \in Pubkey : pk # a => StrikesOf'[pk] = StrikesOf[pk]
    BY <1>2 DEF StrikesOf, Counting
  <2> QED
    BY <1>1, <2>1, <2>2 DEF StrikesOf
<1>7. OpenedOf' = [OpenedOf EXCEPT ![a] = IF StrikesOf[a] = 0 THEN now ELSE @]
  <2>1. OpenedOf'[a] = IF StrikesOf[a] = 0 THEN now ELSE OpenedOf[a]
    BY <1>1, <1>3, <1>4, <1>5 DEF OpenedOf
  <2>2. \A pk \in Pubkey : pk # a => OpenedOf'[pk] = OpenedOf[pk]
    BY <1>2 DEF OpenedOf, Counting
  <2> QED
    BY <1>1, <2>1, <2>2 DEF OpenedOf
<1>8. BlockedOf' = [BlockedOf EXCEPT ![a] =
          IF StrikesOf[a] + 1 >= StrikeLimit /\ SuspendFor > 0 THEN now + SuspendFor ELSE @]
  <2>1. Until(a) \in Nat /\ Until(a) <= now + SuspendFor
    BY <1>0, <1>1 DEF Until, StrikesKept, TypeOK, Record
  <2>2. BlockedOf[a] = IF Until(a) > now THEN Until(a) ELSE 0
    BY <1>0, <1>1 DEF BlockedOf, Suspended, Until
  <2>3. BlockedOf'[a] = IF s.until > now THEN s.until ELSE 0
    BY <1>0, <1>1, <1>3 DEF BlockedOf, Suspended
  <2>4. s.until = IF StrikesOf[a] + 1 >= StrikeLimit THEN now + SuspendFor ELSE Until(a)
    BY <1>3, <1>5
  <2>5. BlockedOf'[a] = IF StrikesOf[a] + 1 >= StrikeLimit /\ SuspendFor > 0
                        THEN now + SuspendFor ELSE BlockedOf[a]
    BY <1>0, <2>1, <2>2, <2>3, <2>4
  <2>6. \A pk \in Pubkey : pk # a => BlockedOf'[pk] = BlockedOf[pk]
    BY <1>2 DEF BlockedOf, Suspended
  <2> QED
    BY <1>1, <2>5, <2>6 DEF BlockedOf
<1>9. recent' = [recent EXCEPT ![a] = Book!Remember(@)]
  BY <1>0 DEF Remember, Book!Remember, Enough, Book!Enough
<1> QED
  BY <1>0, <1>1, <1>6, <1>7, <1>8, <1>9 DEF Book!Strike, StrikesOf, OpenedOf, BlockedOf

LEMMA CrashRestarts == Crash => Book!Restart
BY DEF Crash, Book!Restart, Book!Nothing, Counting, Suspended, Empty

LEMMA StepKeepsBook == BookInv /\ [Next]_vars => Book!Next \/ UNCHANGED bookVars
<1> SUFFICES ASSUME BookInv, [Next]_vars PROVE Book!Next \/ UNCHANGED bookVars
  OBVIOUS
<1>1. CASE UNCHANGED <<now, limits, records, recent>>
  BY <1>1 DEF bookVars, StrikesOf, OpenedOf, BlockedOf, Counting, Suspended, InWindow
<1>2. ASSUME NEW c \in Conn, Admit(c) PROVE UNCHANGED bookVars
  BY <1>2 DEF Admit, bookVars, StrikesOf, OpenedOf, BlockedOf, Counting, Suspended, InWindow
<1>3. ASSUME NEW c \in Conn, RecordAbuse(c) PROVE Book!Next
  <2>1. PICK a : a = event[c].author
    OBVIOUS
  <2>2. a \in Pubkey /\ Book!Strike(a)
    BY <1>3, <2>1, StrikeStrikes
  <2> QED
    BY <2>2 DEF Book!Next
<1>4. CASE Tick
  BY <1>4, TickTicks DEF BookInv, Book!Next
<1>5. CASE Crash
  BY <1>5, CrashRestarts DEF Book!Next
<1> QED
  BY <1>1, <1>2, <1>3, <1>4, <1>5, WhoShares

\* The records of the relay, made on demand, restarted late and pruned, keep the
\* book that AbuseBook describes: no strike and no suspension that still counts
\* is ever lost, but by a restart of the relay.
THEOREM BookKept == Spec => RefinesBook
<1>1. BookInv /\ [Next]_vars => [Book!Next]_<<now, StrikesOf, OpenedOf, BlockedOf, recent>>
  BY StepKeepsBook DEF bookVars
<1> QED
  BY <1>1, BookStarts, BooksAgree, PTL DEF Spec, RefinesBook, Book!Spec, StrikesOf, OpenedOf, BlockedOf
=============================================================================
