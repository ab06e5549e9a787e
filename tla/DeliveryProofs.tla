--------------------------- MODULE DeliveryProofs ---------------------------
(***************************************************************************)
(* Proofs about Pipeline, continued: between the query of a REQ and the    *)
(* live events no stored event falls through, and of the connections that  *)
(* submit one event a single one is to broadcast it.  Both are about the   *)
(* results "stored" that no broadcast has followed yet.                    *)
(***************************************************************************)
EXTENDS PipelineProofs

\* The result for the event at position i of c is settled, but still with the
\* writer; or it has come back, and its turn has not come.
Settled(c, i) ==
    /\ wpc = "answer"
    /\ \E m \in DOMAIN gathered :
          gathered[m].conn = c /\ i \in DOMAIN gathered[m].events /\ verdicts[m][i] = "stored"

Returned(c, i) == i \in replied[c] + 1 .. Len(resp[c]) /\ resp[c][i] = "stored"

Token(c, i) == Settled(c, i) \/ Returned(c, i)

\* Two connections, or positions, with the same event to broadcast: a deletion
\* request let the event be stored again.
Single ==
    \A c, d \in Conn : \A i \in DOMAIN pending[c], j \in DOMAIN pending[d] :
        Token(c, i) /\ Token(d, j) /\ pending[c][i] = pending[d][j]
            => (c = d /\ i = j) \/ Covered(pending[c][i], removed)

\* Who has a subscription is followed by the broadcast channel.
Followed == \A c \in Conn : \A s \in SubId : subs[c][s] # {} => c \in Listening

DInv == Single /\ Followed /\ NoGap

-----------------------------------------------------------------------------
(* Results under way *)

LEMMA TokensAre ==
    ASSUME TypeOK
    PROVE  \A t : t \in Tokens <=> \E c \in Conn, i \in Nat : t = <<c, i>> /\ Token(c, i)
<1> DEFINE A == {<<gathered[x[1]].conn, x[2]>> :
                    x \in {y \in Entries(gathered) : wpc = "answer" /\ verdicts[y[1]][y[2]] = "stored"}}
           B == UNION {{<<c, i>> : i \in {j \in replied[c] + 1 .. Len(resp[c]) : resp[c][j] = "stored"}} :
                          c \in Conn}
<1>1. Tokens = A \union B
  BY DEF Tokens
<1>2. ASSUME NEW t
      PROVE  t \in A <=> \E c \in Conn, i \in Nat : t = <<c, i>> /\ Settled(c, i)
  <2>1. ASSUME NEW x \in Entries(gathered), wpc = "answer", verdicts[x[1]][x[2]] = "stored"
        PROVE  gathered[x[1]].conn \in Conn /\ x[2] \in Nat /\ Settled(gathered[x[1]].conn, x[2])
    <3>1. x[1] \in DOMAIN gathered /\ x[2] \in DOMAIN gathered[x[1]].events /\ x[2] \in Nat
      BY GatheredBatch, EntryFacts
    <3>2. gathered[x[1]].conn \in Conn
      BY <3>1, GatheredBatch DEF Message
    <3> QED
      BY <2>1, <3>1, <3>2 DEF Settled
  <2>2. ASSUME NEW c \in Conn, NEW i \in Nat, Settled(c, i)
        PROVE  <<c, i>> \in A
    <3>1. PICK m \in DOMAIN gathered :
             gathered[m].conn = c /\ i \in DOMAIN gathered[m].events /\ verdicts[m][i] = "stored"
      BY <2>2 DEF Settled
    <3>2. <<m, i>> \in Entries(gathered) /\ wpc = "answer"
      BY <2>2, <3>1 DEF Entries, Settled
    <3> DEFINE x == <<m, i>>
    <3>3. x[1] = m /\ x[2] = i
      OBVIOUS
    <3>4. x \in {y \in Entries(gathered) : wpc = "answer" /\ verdicts[y[1]][y[2]] = "stored"}
      BY <3>1, <3>2
    <3> QED
      BY <3>1, <3>3, <3>4
  <2> QED
    BY <2>1, <2>2
<1>3. ASSUME NEW t
      PROVE  t \in B <=> \E c \in Conn, i \in Nat : t = <<c, i>> /\ Returned(c, i)
  <2>1. \A c \in Conn : replied[c] \in Nat /\ Len(resp[c]) \in Nat
    BY LenProperties DEF TypeOK
  <2>2. \A c \in Conn : \A i \in replied[c] + 1 .. Len(resp[c]) : i \in Nat
    BY <2>1
  <2> QED
    BY <2>2 DEF Returned
<1> HIDE DEF A, B
<1> QED
  BY <1>1, <1>2, <1>3 DEF Token

\* A result under way is for an event that its connection has pending, and that
\* is covered.
LEMMA TokenFacts ==
    ASSUME IInv, NEW c \in Conn, NEW i \in Nat, Token(c, i)
    PROVE  /\ i \in DOMAIN pending[c]
           /\ pending[c][i] \in Event
           /\ Covered(pending[c][i], Known)
           /\ pc[c] \in {"await", "reply"}
           /\ Settled(c, i) => pc[c] = "await"
           /\ Returned(c, i) => pc[c] = "reply"
<1> USE DEF IInv
<1>1. CASE Settled(c, i)
  <2>1. PICK m \in DOMAIN gathered :
           gathered[m].conn = c /\ i \in DOMAIN gathered[m].events /\ verdicts[m][i] = "stored"
    BY <1>1 DEF Settled
  <2>2. pc[c] = "await" /\ gathered[m].events = pending[c] /\ wpc = "answer"
    BY <1>1, <2>1 DEF Mail, Settled
  <2>3. Covered(pending[c][i], Known)
    BY <2>1, <2>2 DEF Promised
  <2>4. resp[c] = <<>>
    BY <2>2 DEF Fitting
  <2>5. ~ Returned(c, i)
    BY <2>4 DEF Returned, TypeOK
  <2> QED
    BY <2>1, <2>2, <2>3, <2>5, LenProperties, ElementOfSeq DEF TypeOK
<1>2. CASE Returned(c, i)
  <2>1. replied[c] \in Nat /\ Len(resp[c]) \in Nat /\ DOMAIN resp[c] = 1..Len(resp[c])
    BY LenProperties DEF TypeOK
  <2>2. i \in DOMAIN resp[c] /\ resp[c][i] = "stored"
    BY <1>2, <2>1 DEF Returned
  <2>3. resp[c] # <<>>
    BY <2>2
  <2>4. pc[c] = "reply" /\ i \in DOMAIN pending[c]
    BY <2>2, <2>3 DEF Fitting
  <2>5. Covered(pending[c][i], Known)
    BY <2>2 DEF Promised
  <2>6. ~ Settled(c, i)
    BY <2>4 DEF Settled, Mail
  <2> QED
    BY <2>4, <2>5, <2>6, LenProperties, ElementOfSeq DEF TypeOK
<1> QED
  BY <1>1, <1>2 DEF Token

AllInFlight ==
    \A e : e \in InFlight <=> \E c \in Conn, i \in Nat : Token(c, i) /\ pending[c][i] = e

LEMMA InFlightIs == TypeOK => AllInFlight
<1> SUFFICES ASSUME TypeOK
             PROVE  AllInFlight
  OBVIOUS
<1>1. ASSUME NEW t \in Tokens
      PROVE  \E c \in Conn, i \in Nat : Token(c, i) /\ pending[c][i] = pending[t[1]][t[2]]
  <2>1. PICK c \in Conn, i \in Nat : t = <<c, i>> /\ Token(c, i)
    BY TokensAre
  <2>2. t[1] = c /\ t[2] = i
    BY <2>1
  <2> QED
    BY <2>1, <2>2
<1>2. ASSUME NEW c \in Conn, NEW i \in Nat, Token(c, i)
      PROVE  pending[c][i] \in InFlight
  <2> DEFINE t == <<c, i>>
  <2>1. t \in Tokens /\ t[1] = c /\ t[2] = i
    BY <1>2, TokensAre
  <2> HIDE DEF t
  <2> QED
    BY <2>1 DEF InFlight
<1>3. \A e \in InFlight : \E t \in Tokens : e = pending[t[1]][t[2]]
  BY DEF InFlight
<1> QED
  BY <1>1, <1>2, <1>3 DEF AllInFlight

\* No result under way is lost, and none comes up.
TokensSame ==
    \A c \in Conn : \A i \in Nat :
        (Token(c, i)' <=> Token(c, i)) /\ (Token(c, i) => pending'[c][i] = pending[c][i])

\* None comes up.
TokensFewer ==
    \A c \in Conn : \A i \in Nat :
        Token(c, i)' => Token(c, i) /\ pending'[c][i] = pending[c][i]

LEMMA SameInFlight ==
    ASSUME TypeOK, TypeOK', TokensSame
    PROVE  TokensFewer /\ InFlight' = InFlight
<1>1. AllInFlight
  BY InFlightIs
<1>2. AllInFlight'
  BY InFlightIs, PTL
<1>3. TokensFewer
  BY DEF TokensSame, TokensFewer
<1>4. ASSUME NEW e \in InFlight
      PROVE  e \in InFlight'
  <2>1. PICK c \in Conn, i \in Nat : Token(c, i) /\ pending[c][i] = e
    BY <1>1 DEF AllInFlight
  <2>2. Token(c, i)' /\ pending'[c][i] = e
    BY <2>1 DEF TokensSame
  <2> QED
    BY <1>2, <2>2 DEF AllInFlight
<1>5. ASSUME NEW e \in InFlight'
      PROVE  e \in InFlight
  <2>1. PICK c \in Conn, i \in Nat : Token(c, i)' /\ pending'[c][i] = e
    BY <1>2 DEF AllInFlight
  <2>2. Token(c, i) /\ pending[c][i] = e
    BY <1>3, <2>1 DEF TokensFewer
  <2> QED
    BY <1>1, <2>2 DEF AllInFlight
<1> QED
  BY <1>3, <1>4, <1>5

LEMMA FewerSingle ==
    ASSUME IInv, IInv', Single, TokensFewer, removed \subseteq removed'
    PROVE  Single'
<1> SUFFICES ASSUME NEW c \in Conn, NEW d \in Conn,
                    NEW i \in DOMAIN pending'[c], NEW j \in DOMAIN pending'[d],
                    Token(c, i)', Token(d, j)', pending'[c][i] = pending'[d][j]
             PROVE  (c = d /\ i = j) \/ Covered(pending'[c][i], removed')
  BY DEF Single
<1>1. i \in Nat /\ j \in Nat
  <2>1. pending' \in [Conn -> Seq(Event)]
    BY DEF IInv, TypeOK
  <2>2. \A b \in Conn : DOMAIN pending'[b] = 1..Len(pending'[b]) /\ Len(pending'[b]) \in Nat
    BY <2>1, LenProperties
  <2> QED
    BY <2>2
<1>2. /\ Token(c, i) /\ pending'[c][i] = pending[c][i]
      /\ Token(d, j) /\ pending'[d][j] = pending[d][j]
  BY <1>1 DEF TokensFewer
<1>3. i \in DOMAIN pending[c] /\ j \in DOMAIN pending[d]
  BY <1>1, <1>2, TokenFacts
<1>4. (c = d /\ i = j) \/ Covered(pending[c][i], removed)
  BY <1>2, <1>3 DEF Single
<1> QED
  BY <1>2, <1>4, CoveredMonotone

\* A task that has nothing to broadcast leaves the results under way alone.
LEMMA MovesTokens ==
    ASSUME IInv, NEW c \in Conn, Moves(c),
           SameTask(c) \/ (\A i \in Nat : ~ Token(c, i) /\ ~ Returned(c, i)')
    PROVE  TokensSame
<1>1. wpc' = wpc /\ gathered' = gathered /\ verdicts' = verdicts
  BY DEF Moves, writerVars
<1>2. \A d \in Conn : \A i \in Nat : Settled(d, i)' <=> Settled(d, i)
  BY <1>1 DEF Settled
<1>3. ASSUME NEW d \in Conn, SameTask(d), NEW i \in Nat
      PROVE  (Token(d, i)' <=> Token(d, i)) /\ pending'[d][i] = pending[d][i]
  BY <1>2, <1>3 DEF SameTask, Token, Returned
<1>4. ASSUME \A i \in Nat : ~ Token(c, i) /\ ~ Returned(c, i)', NEW i \in Nat
      PROVE  ~ Token(c, i) /\ ~ Token(c, i)'
  BY <1>2, <1>4 DEF Token
<1>5. \A d \in Conn \ {c} : SameTask(d)
  BY DEF Moves
<1> QED
  BY <1>3, <1>4, <1>5 DEF TokensSame

-----------------------------------------------------------------------------
(* What reaches a subscription *)

\* Where an event may be that a subscription wants.
Near(c, s) == got[c][s] \union Waiting(c) \union InFlight \union lost[c] \union orphaned

LEMMA NearKeeps ==
    ASSUME NoGap,
           \A c \in Conn, s \in SubId :
              \/ stored' \intersect subs'[c][s] \subseteq Near(c, s)'
              \/ /\ subs'[c][s] = subs[c][s] /\ stored' \subseteq stored
                 /\ Near(c, s) \intersect subs[c][s] \subseteq Near(c, s)'
    PROVE  NoGap'
<1> SUFFICES ASSUME NEW c \in Conn, NEW s \in SubId, NEW e \in stored' \intersect subs'[c][s]
             PROVE  e \in Near(c, s)'
  BY DEF NoGap, Near
<1>1. CASE stored' \intersect subs'[c][s] \subseteq Near(c, s)'
  BY <1>1
<1>2. CASE /\ subs'[c][s] = subs[c][s] /\ stored' \subseteq stored
           /\ Near(c, s) \intersect subs[c][s] \subseteq Near(c, s)'
  <2>1. e \in stored \intersect subs[c][s]
    BY <1>2
  <2>2. e \in Near(c, s)
    BY <2>1 DEF NoGap, Near
  <2> QED
    BY <1>2, <2>1, <2>2
<1> QED
  BY <1>1, <1>2

\* A step that does nothing to the subscriptions and the broadcast channel.
LEMMA QuietNear ==
    ASSUME NoGap, stored' \subseteq stored, UNCHANGED <<subs, got, bq, lost, orphaned>>,
           InFlight' = InFlight
    PROVE  NoGap'
<1>1. \A c \in Conn : Waiting(c)' = Waiting(c)
  BY DEF Waiting
<1>2. \A c \in Conn, s \in SubId : Near(c, s)' = Near(c, s)
  BY <1>1 DEF Near
<1> QED
  BY <1>2, NearKeeps

\* What a broadcast puts on the channel of a listener stays there, or is lost by
\* lagging; and so does what was there before.
LEMMA AnnounceReaches ==
    ASSUME TypeOK, NEW e \in Event, NEW R, Announce(e, R), NEW d \in Conn, d \in R,
           NEW s \in SubId, NEW x \in subs[d][s],
           x \in Waiting(d) \union lost[d] \union {e}
    PROVE  x \in Waiting(d)' \union lost'[d]
<1>1. /\ bq'[d] = Append(Spared(d), e) /\ lost'[d] = lost[d] \union Dropped(d)
      /\ bq[d] \in Seq(Event)
  BY DEF Announce, TypeOK
<1>2. /\ Spared(d) \in Seq(Event)
      /\ \A i \in DOMAIN bq[d] : \/ \E j \in DOMAIN Spared(d) : Spared(d)[j] = bq[d][i]
                                 \/ Full(d) /\ bq[d][i] = Head(bq[d])
  <2>1. CASE ~ Full(d)
    BY <1>1, <2>1 DEF Spared
  <2>2. CASE Full(d)
    <3>1. bq[d] # <<>>
      BY <2>2, EmptySeq, PipelineAssumption DEF Full
    <3>2. /\ Tail(bq[d]) \in Seq(Event) /\ Len(Tail(bq[d])) = Len(bq[d]) - 1
          /\ \A i \in 1..Len(Tail(bq[d])) : Tail(bq[d])[i] = bq[d][i + 1]
          /\ Head(bq[d]) = bq[d][1]
      BY <1>1, <3>1, HeadTailProperties
    <3>3. DOMAIN bq[d] = 1..Len(bq[d]) /\ DOMAIN Tail(bq[d]) = 1..Len(Tail(bq[d])) /\ Len(bq[d]) \in Nat
      BY <1>1, <3>2, LenProperties
    <3>4. ASSUME NEW i \in DOMAIN bq[d], i # 1
          PROVE  i - 1 \in DOMAIN Tail(bq[d]) /\ Tail(bq[d])[i - 1] = bq[d][i]
      BY <3>2, <3>3, <3>4
    <3>5. Spared(d) = Tail(bq[d])
      BY <2>2 DEF Spared
    <3> QED
      BY <2>2, <3>2, <3>4, <3>5
  <2> QED
    BY <2>1, <2>2
<1> DEFINE q == Spared(d)
<1>3. /\ DOMAIN Append(q, e) = 1..(Len(q) + 1) /\ DOMAIN q = 1..Len(q) /\ Len(q) \in Nat
      /\ \A i \in 1..Len(q) : Append(q, e)[i] = q[i]
      /\ Append(q, e)[Len(q) + 1] = e
  <2> HIDE DEF q
  <2>1. q \in Seq(Event)
    BY <1>2 DEF q
  <2> QED
    BY <2>1, AppendProperties, LenProperties
<1>4. e \in Waiting(d)'
  <2>1. Len(q) + 1 \in DOMAIN bq'[d] /\ bq'[d][Len(q) + 1] = e
    BY <1>1, <1>3
  <2> QED
    BY <2>1 DEF Waiting
<1>5. \A j \in DOMAIN q : q[j] \in Waiting(d)'
  <2> SUFFICES ASSUME NEW j \in DOMAIN q
               PROVE  q[j] \in Waiting(d)'
    OBVIOUS
  <2>1. j \in DOMAIN bq'[d] /\ bq'[d][j] = q[j]
    BY <1>1, <1>3
  <2> QED
    BY <2>1 DEF Waiting
<1>6. CASE x \in Waiting(d)
  <2>1. PICK i \in DOMAIN bq[d] : bq[d][i] = x
    BY <1>6 DEF Waiting
  <2>2. CASE \E j \in DOMAIN Spared(d) : Spared(d)[j] = bq[d][i]
    BY <1>5, <2>1, <2>2
  <2>3. CASE Full(d) /\ bq[d][i] = Head(bq[d])
    BY <1>1, <2>1, <2>3 DEF Dropped
  <2> QED
    BY <1>2, <2>1, <2>2, <2>3
<1>7. CASE x \in lost[d]
  BY <1>1, <1>7
<1> QED
  BY <1>4, <1>6, <1>7

LEMMA SilenceReaches ==
    ASSUME NEW R, Silence(R), NEW d \in Conn, d \in R
    PROVE  Waiting(d)' = Waiting(d) /\ lost'[d] = lost[d]
BY DEF Silence, Waiting

\* When a task ends, the subscriptions of the others still get what they wait for.
LEMMA CloseNear ==
    ASSUME TypeOK, Followed, NoGap, NEW C, CloseTasks(C), Silence(Listening \ C),
           InFlight' = InFlight, UNCHANGED <<stored, orphaned>>
    PROVE  NoGap'
<1>1. ASSUME NEW d \in Conn, NEW s \in SubId
      PROVE  \/ stored' \intersect subs'[d][s] \subseteq Near(d, s)'
             \/ /\ subs'[d][s] = subs[d][s] /\ stored' \subseteq stored
                /\ Near(d, s) \intersect subs[d][s] \subseteq Near(d, s)'
  <2>1. CASE d \in C
    BY <2>1 DEF CloseTasks, NoSubs
  <2>2. CASE d \notin C
    <3>1. subs'[d][s] = subs[d][s] /\ got'[d][s] = got[d][s]
      BY <2>2 DEF CloseTasks
    <3>2. CASE subs[d][s] = {}
      BY <3>1, <3>2
    <3>3. CASE subs[d][s] # {}
      <4>1. d \in Listening \ C
        BY <2>2, <3>3 DEF Followed
      <4> QED
        BY <3>1, <4>1, SilenceReaches DEF Near
    <3> QED
      BY <3>2, <3>3
  <2> QED
    BY <2>1, <2>2
<1> QED
  BY <1>1, NearKeeps

-----------------------------------------------------------------------------
(* Subscriptions and the channel *)

LEMMA FollowedKeeps ==
    ASSUME Followed,
           \A c \in Conn :
              \/ subs'[c] = subs[c] /\ (pc[c] # "off" => pc'[c] # "off")
              \/ \A s \in SubId : subs'[c][s] = {}
    PROVE  Followed'
BY DEF Followed, Listening

LEMMA CloseFollowed ==
    ASSUME Followed, NEW C, CloseTasks(C)
    PROVE  Followed'
<1>1. \A c \in Conn : \/ subs'[c] = subs[c] /\ pc'[c] = pc[c]
                      \/ \A s \in SubId : subs'[c][s] = {}
  BY DEF CloseTasks, NoSubs
<1> QED
  BY <1>1, FollowedKeeps

LEMMA NextFollowed ==
    ASSUME TypeOK, Followed, Next
    PROVE  Followed'
<1>1. ASSUME NEW c \in Conn,
             \/ Connect(c) \/ DrainDone(c) \/ DrainEnded(c) \/ TakeOther(c) \/ RecvBroadcast(c)
             \/ \E e \in Offers[c] : TakeEvent(c, e) \/ TakeEphemeral(c, e)
             \/ Purge(c) \/ Submit(c) \/ Reply(c)
      PROVE  Followed'
  <2>1. subs' = subs
    BY <1>1 DEF Connect, DrainDone, DrainEnded, TakeOther, RecvBroadcast, TakeEvent, TakeEphemeral,
                Purge, Submit, Reply, subVars
  <2>2. pc' = pc \/ \E p \in {"select", "drain", "purge", "await"} : pc' = [pc EXCEPT ![c] = p]
    BY <1>1 DEF Connect, DrainDone, DrainEnded, TakeOther, RecvBroadcast, TakeEvent, TakeEphemeral,
                Purge, Submit, Reply, taskVars
  <2>3. \A d \in Conn : pc[d] # "off" => pc'[d] # "off"
    BY <2>2 DEF TypeOK
  <2> QED
    BY <2>1, <2>3, FollowedKeeps
<1>2. ASSUME NEW c \in Conn, NEW s \in SubId, NEW f \in Asks[c], TakeReq(c, s, f)
      PROVE  Followed'
  <2>1. /\ pc[c] \in {"select", "drain"} /\ pc' = pc
        /\ subs' = [subs EXCEPT ![c][s] = f]
    BY <1>2 DEF TakeReq, TakesMessage
  <2>2. c \in Listening
    BY <2>1 DEF Listening
  <2>3. Listening' = Listening
    BY <2>1 DEF Listening
  <2> QED
    BY <2>1, <2>2, <2>3 DEF Followed, TypeOK
<1>3. ASSUME NEW c \in Conn, NEW s \in SubId, TakeClose(c, s)
      PROVE  Followed'
  <2>1. pc' = pc /\ subs' = [subs EXCEPT ![c][s] = {}]
    BY <1>3 DEF TakeClose
  <2>2. Listening' = Listening
    BY <2>1 DEF Listening
  <2> QED
    BY <2>1, <2>2 DEF Followed, TypeOK
<1>4. ASSUME NEW c \in Conn, Leave(c) \/ ReplyFails(c) \/ FlushFails(c)
      PROVE  Followed'
  BY <1>4, CloseFollowed DEF Leave, ReplyFails, FlushFails
<1>5. ASSUME NEW c \in Conn, Finish(c)
      PROVE  Followed'
  <2>1. CASE ending[c]
    BY <1>5, <2>1, CloseFollowed DEF Finish
  <2>2. CASE ~ ending[c]
    <3>1. subs' = subs /\ pc' = [pc EXCEPT ![c] = "select"]
      BY <1>5, <2>2 DEF Finish, subVars
    <3>2. \A d \in Conn : pc[d] # "off" => pc'[d] # "off"
      BY <3>1 DEF TypeOK
    <3> QED
      BY <3>1, <3>2, FollowedKeeps
  <2> QED
    BY <2>1, <2>2
<1>6. CASE WriterStep
  <2>1. subs' = subs
    BY <1>6 DEF WriterStep, WriterRecv, WriterCommit, WriterFail, WriterAnswer, subVars
  <2>2. pc' = pc \/ \A c \in Conn : pc'[c] \in {"reply", pc[c]}
    BY <1>6 DEF WriterStep, WriterRecv, WriterCommit, WriterFail, WriterAnswer, taskVars
  <2> QED
    BY <2>1, <2>2, FollowedKeeps
<1>7. CASE Crash
  BY <1>7, CloseFollowed DEF Crash
<1> QED
  BY <1>1, <1>2, <1>3, <1>4, <1>5, <1>6, <1>7 DEF Next, ClientStep, TaskStep

-----------------------------------------------------------------------------
(* The steps of the tasks *)

\* A step that leaves the results under way alone.
LEMMA SameKeeps ==
    ASSUME IInv, IInv', Single, TokensSame, removed \subseteq removed'
    PROVE  Single' /\ InFlight' = InFlight
BY SameInFlight, FewerSingle DEF IInv

\* Who is not replying has nothing to broadcast.
LEMMA IdleTokens ==
    ASSUME IInv, NEW c \in Conn,
           pc[c] \notin {"await", "reply"} \/ (pc[c] = "reply" /\ replied[c] = Len(pending[c]))
    PROVE  \A i \in Nat : ~ Token(c, i)
<1> SUFFICES ASSUME NEW i \in Nat, Token(c, i)
             PROVE  FALSE
  OBVIOUS
<1>1. Returned(c, i) /\ pc[c] = "reply" /\ replied[c] = Len(pending[c])
  BY TokenFacts DEF Token
<1>2. /\ DOMAIN resp[c] = 1..Len(resp[c]) /\ DOMAIN pending[c] = 1..Len(pending[c])
      /\ Len(resp[c]) \in Nat /\ Len(pending[c]) \in Nat
  BY LenProperties DEF IInv, TypeOK
<1>3. Len(resp[c]) = Len(pending[c])
  BY <1>1, <1>2 DEF IInv, Fitting
<1> QED
  BY <1>1, <1>2, <1>3 DEF Returned

\* A connection that has no results has none under way.
LEMMA NoneReturned ==
    ASSUME TypeOK, NEW c \in Conn, resp[c] = <<>>, NEW i \in Nat
    PROVE  ~ Returned(c, i)
BY DEF Returned, TypeOK

LEMMA ClosedTokens ==
    ASSUME IInv, IInv', NEW c \in Conn, CloseTasks({c}), UNCHANGED <<queue, writerVars>>,
           pc[c] \notin {"await", "reply"} \/ (pc[c] = "reply" /\ replied[c] = Len(pending[c]))
    PROVE  TokensSame
<1>1. pc[c] # "await" /\ Moves(c)
  BY CloseMoves
<1>2. resp'[c] = <<>> /\ replied'[c] = 0
  BY DEF CloseTasks
<1>3. \A i \in Nat : ~ Returned(c, i)'
  BY <1>2 DEF Returned
<1> QED
  BY <1>1, <1>3, IdleTokens, MovesTokens

LEMMA ClientDelivery ==
    ASSUME IInv, IInv', DInv, NEW c \in Conn, ClientStep(c) \/ RecvBroadcast(c), ~ ReplyFails(c)
    PROVE  Single' /\ NoGap'
<1> USE DEF DInv
<1>1. Moves(c) /\ removed' = removed /\ stored' = stored
  BY ClientMoves, KnownClient DEF IInv
<1>2. ASSUME UNCHANGED <<pc, pending, resp, replied>>
      PROVE  TokensSame
  BY <1>1, <1>2, MovesTokens DEF SameTask
<1>3. ASSUME TokensSame
      PROVE  Single' /\ InFlight' = InFlight
  BY <1>1, <1>3, SameKeeps
<1>4. CASE Connect(c) \/ DrainDone(c) \/ DrainEnded(c) \/ \E e \in Offers[c] : TakeEvent(c, e)
  <2>1. /\ pc[c] \in {"off", "select", "drain"} /\ UNCHANGED <<resp, replied>>
        /\ UNCHANGED <<subs, got, bq, lost, orphaned>>
    BY <1>4 DEF Connect, DrainDone, DrainEnded, TakeEvent, subVars, castVars
  <2>2. resp[c] = <<>>
    BY <2>1 DEF IInv, Fitting
  <2>3. \A i \in Nat : ~ Token(c, i)
    BY <2>1, IdleTokens
  <2>4. \A i \in Nat : ~ Returned(c, i)'
    <3>1. resp'[c] = <<>> /\ replied'[c] \in Nat
      BY <2>1, <2>2 DEF IInv, TypeOK
    <3> QED
      BY <3>1 DEF Returned
  <2>5. TokensSame
    BY <1>1, <2>3, <2>4, MovesTokens
  <2> QED
    BY <1>1, <1>3, <2>1, <2>5, QuietNear
<1>5. CASE TakeOther(c)
  <2>1. UNCHANGED <<pc, pending, resp, replied, subs, got, bq, lost, orphaned>>
    BY <1>5 DEF TakeOther, subVars, castVars
  <2> QED
    BY <1>1, <1>2, <1>3, <2>1, QuietNear
<1>6. ASSUME NEW e \in Offers[c], TakeEphemeral(c, e)
      PROVE  Single' /\ NoGap'
  <2>1. /\ Announce(e, Listening) /\ e \in Event
        /\ UNCHANGED <<pc, pending, resp, replied, subs, got, orphaned>>
    BY <1>6, PipelineAssumption DEF TakeEphemeral
  <2>2. Single' /\ InFlight' = InFlight
    BY <1>2, <1>3, <2>1
  <2>3. \A d \in Conn, s \in SubId : Near(d, s) \intersect subs[d][s] \subseteq Near(d, s)'
    <3> SUFFICES ASSUME NEW d \in Conn, NEW s \in SubId, NEW x \in Near(d, s) \intersect subs[d][s]
                 PROVE  x \in Near(d, s)'
      OBVIOUS
    <3>1. d \in Listening
      BY DEF Followed
    <3>2. x \in Waiting(d) \union lost[d] => x \in Waiting(d)' \union lost'[d]
      BY <2>1, <3>1, AnnounceReaches DEF IInv
    <3> QED
      BY <2>1, <2>2, <3>2 DEF Near
  <2>4. NoGap'
    BY <1>1, <2>1, <2>3, NearKeeps
  <2> QED
    BY <2>2, <2>4
<1>7. ASSUME NEW s \in SubId, NEW f \in Asks[c], TakeReq(c, s, f)
      PROVE  Single' /\ NoGap'
  <2>1. /\ subs' = [subs EXCEPT ![c][s] = f]
        /\ \/ /\ got' = [got EXCEPT ![c][s] = stored \intersect f]
              /\ UNCHANGED lost
           \/ /\ got' = [got EXCEPT ![c][s] = {}]
              /\ lost' = [lost EXCEPT ![c] = @ \union (stored \intersect f)]
        /\ UNCHANGED <<pc, pending, resp, replied, bq, orphaned>>
    BY <1>7 DEF TakeReq
  <2>2. Single' /\ InFlight' = InFlight
    BY <1>2, <1>3, <2>1
  <2>3. \A d \in Conn : lost[d] \subseteq lost'[d] /\ Waiting(d)' = Waiting(d)
    <3>1. \A d \in Conn : Waiting(d)' = Waiting(d)
      BY <2>1 DEF Waiting
    <3>2. CASE UNCHANGED lost
      BY <3>1, <3>2
    <3>3. CASE lost' = [lost EXCEPT ![c] = @ \union (stored \intersect f)]
      BY <3>1, <3>3 DEF IInv, TypeOK
    <3> QED
      BY <2>1, <3>2, <3>3
  <2>4. subs'[c][s] = f /\ stored \intersect f \subseteq got'[c][s] \union lost'[c]
    <3>1. CASE got' = [got EXCEPT ![c][s] = stored \intersect f]
      BY <2>1, <3>1 DEF IInv, TypeOK
    <3>2. CASE lost' = [lost EXCEPT ![c] = @ \union (stored \intersect f)]
      BY <2>1, <3>2 DEF IInv, TypeOK
    <3> QED
      BY <2>1, <3>1, <3>2
  <2>5. ASSUME NEW d \in Conn, NEW t \in SubId, ~ (d = c /\ t = s)
        PROVE  subs'[d][t] = subs[d][t] /\ got'[d][t] = got[d][t]
    <3>1. subs'[d][t] = subs[d][t]
      BY <2>1, <2>5 DEF IInv, TypeOK
    <3>2. CASE got' = [got EXCEPT ![c][s] = stored \intersect f]
      BY <2>5, <3>1, <3>2 DEF IInv, TypeOK
    <3>3. CASE got' = [got EXCEPT ![c][s] = {}]
      BY <2>5, <3>1, <3>3 DEF IInv, TypeOK
    <3> QED
      BY <2>1, <3>2, <3>3
  <2>6. ASSUME NEW d \in Conn, NEW t \in SubId, ~ (d = c /\ t = s)
        PROVE  Near(d, t) \intersect subs[d][t] \subseteq Near(d, t)'
    BY <2>1, <2>2, <2>3, <2>5, <2>6 DEF Near
  <2>7. stored' \intersect subs'[c][s] \subseteq Near(c, s)'
    BY <1>1, <2>4 DEF Near
  <2>8. NoGap'
    BY <1>1, <2>5, <2>6, <2>7, NearKeeps
  <2> QED
    BY <2>2, <2>8
<1>8. ASSUME NEW s \in SubId, TakeClose(c, s)
      PROVE  Single' /\ NoGap'
  <2>1. /\ subs' = [subs EXCEPT ![c][s] = {}] /\ got' = [got EXCEPT ![c][s] = {}]
        /\ UNCHANGED <<pc, pending, resp, replied, bq, lost, orphaned>>
    BY <1>8 DEF TakeClose
  <2>2. Single' /\ InFlight' = InFlight
    BY <1>2, <1>3, <2>1
  <2>3. subs'[c][s] = {}
    BY <2>1 DEF IInv, TypeOK
  <2>4. ASSUME NEW d \in Conn, NEW t \in SubId, ~ (d = c /\ t = s)
        PROVE  subs'[d][t] = subs[d][t] /\ Near(d, t)' = Near(d, t)
    <3>1. /\ subs \in [Conn -> [SubId -> SUBSET Event]]
          /\ got \in [Conn -> [SubId -> SUBSET Event]]
      BY DEF IInv, TypeOK
    <3>2. subs'[d][t] = subs[d][t] /\ got'[d][t] = got[d][t]
      BY ONLY <2>1, <2>4, <3>1
    <3> QED
      BY <2>1, <2>2, <3>2 DEF Near, Waiting
  <2>5. NoGap'
    BY <1>1, <2>3, <2>4, NearKeeps
  <2> QED
    BY <2>2, <2>5
<1>9. CASE Leave(c) \/ FlushFails(c)
  <2>1. /\ CloseTasks({c}) /\ Silence(Listening \ {c}) /\ UNCHANGED <<queue, writerVars, orphaned>>
        /\ \/ pc[c] \in {"select", "drain"}
           \/ pc[c] = "reply" /\ replied[c] = Len(pending[c])
    BY <1>9 DEF Leave, FlushFails
  <2>2. TokensSame
    BY <2>1, ClosedTokens
  <2>3. Single' /\ InFlight' = InFlight
    BY <1>3, <2>2
  <2> QED
    BY <1>1, <2>1, <2>3, CloseNear DEF IInv
<1>10. CASE RecvBroadcast(c)
  <2>1. /\ bq[c] # <<>> /\ bq' = [bq EXCEPT ![c] = Tail(@)]
        /\ got' = [got EXCEPT ![c] = [s \in SubId |-> @[s] \union ({Head(bq[c])} \intersect subs[c][s])]]
        /\ UNCHANGED <<pc, pending, resp, replied, subs, lost, orphaned>>
    BY <1>10 DEF RecvBroadcast, taskVars
  <2>2. Single' /\ InFlight' = InFlight
    BY <1>2, <1>3, <2>1
  <2>3. /\ bq'[c] = Tail(bq[c]) /\ \A d \in Conn \ {c} : bq'[d] = bq[d] /\ got'[d] = got[d]
        /\ \A s \in SubId : got'[c][s] = got[c][s] \union ({Head(bq[c])} \intersect subs[c][s])
    BY <2>1 DEF IInv, TypeOK
  <2>4. Waiting(c) = {Head(bq[c])} \union Waiting(c)'
    BY <2>1, <2>3, TakenWaiting DEF IInv
  <2>5. \A d \in Conn \ {c} : Waiting(d)' = Waiting(d)
    BY <2>3 DEF Waiting
  <2>6. \A d \in Conn, s \in SubId : Near(d, s) \intersect subs[d][s] \subseteq Near(d, s)'
    BY <2>1, <2>2, <2>3, <2>4, <2>5 DEF Near
  <2>7. NoGap'
    BY <1>1, <2>1, <2>6, NearKeeps
  <2> QED
    BY <2>2, <2>7
<1> QED
  BY <1>4, <1>5, <1>6, <1>7, <1>8, <1>9, <1>10 DEF ClientStep

-----------------------------------------------------------------------------
(* A reply announces what was stored; a failing one leaves the rest behind. *)

\* The result whose turn it is, and those behind it.
LEMMA NextToken ==
    ASSUME IInv, NEW c \in Conn, Replying(c)
    PROVE  /\ \A i \in Nat : Token(c, i) <=>
                 \/ i = replied[c] + 1 /\ NextResult(c) = "stored"
                 \/ i \in replied[c] + 2 .. Len(pending[c]) /\ resp[c][i] = "stored"
           /\ replied[c] \in Nat /\ Len(resp[c]) = Len(pending[c]) /\ Len(pending[c]) \in Nat
           /\ replied[c] + 1 <= Len(pending[c])
           /\ NextReply(c) \in Event
<1>1. pc[c] = "reply" /\ replied[c] < Len(pending[c]) /\ replied[c] \in Nat
  BY DEF Replying, IInv, TypeOK
<1>2. /\ DOMAIN resp[c] = 1..Len(resp[c]) /\ DOMAIN pending[c] = 1..Len(pending[c])
      /\ Len(resp[c]) \in Nat /\ Len(pending[c]) \in Nat
  BY LenProperties DEF IInv, TypeOK
<1>3. Len(resp[c]) = Len(pending[c])
  BY <1>1, <1>2 DEF IInv, Fitting
<1>4. \A i \in Nat : ~ Settled(c, i)
  BY <1>1 DEF Settled, IInv, Mail
<1>5. replied[c] + 1 \in 1..Len(pending[c])
  BY <1>1, <1>2
<1>6. NextReply(c) \in Event
  BY <1>5, ElementOfSeq DEF NextReply, IInv, TypeOK
<1>7. ASSUME NEW i \in Nat
      PROVE  i \in replied[c] + 1 .. Len(resp[c]) <=>
                i = replied[c] + 1 \/ i \in replied[c] + 2 .. Len(pending[c])
  BY <1>1, <1>2, <1>3
<1> QED
  BY <1>1, <1>2, <1>3, <1>4, <1>6, <1>7 DEF Token, Returned, NextResult

LEMMA OtherTokens ==
    ASSUME NEW c \in Conn, Moves(c)
    PROVE  /\ \A d \in Conn \ {c} : \A i \in Nat :
                 (Token(d, i)' <=> Token(d, i)) /\ pending'[d] = pending[d]
           /\ \A i \in Nat : Settled(c, i)' <=> Settled(c, i)
<1>1. wpc' = wpc /\ gathered' = gathered /\ verdicts' = verdicts
  BY DEF Moves, writerVars
<1>2. \A d \in Conn : \A i \in Nat : Settled(d, i)' <=> Settled(d, i)
  BY <1>1 DEF Settled
<1>3. ASSUME NEW d \in Conn \ {c}, NEW i \in Nat
      PROVE  (Token(d, i)' <=> Token(d, i)) /\ pending'[d] = pending[d]
  <2>1. SameTask(d)
    BY DEF Moves
  <2> QED
    BY <1>2, <2>1 DEF SameTask, Token, Returned
<1> QED
  BY <1>2, <1>3

\* After a step of c in which its turn passes, the event is broadcast if it was
\* stored, and what was behind it is under way still, or left behind.
LEMMA TurnKeeps ==
    ASSUME IInv, IInv', DInv, NEW c \in Conn, Replying(c), Moves(c), removed' = removed,
           stored' = stored, orphaned \subseteq orphaned', NEW R,
           IF NextResult(c) = "stored" THEN Announce(NextReply(c), R)
                                       ELSE Silence(R) \/ UNCHANGED castVars,
           \A i \in Nat : Token(c, i)' => Token(c, i) /\ pending'[c][i] = pending[c][i],
           \A i \in replied[c] + 2 .. Len(pending[c]) :
              resp[c][i] = "stored" =>
                 \/ Token(c, i)' /\ pending'[c][i] = pending[c][i]
                 \/ pending[c][i] \in Wanted => pending[c][i] \in orphaned',
           \A d \in Conn, s \in SubId :
              \/ subs'[d][s] = {}
              \/ d \in R /\ subs'[d][s] = subs[d][s] /\ got'[d][s] = got[d][s]
    PROVE  Single' /\ NoGap'
<1>1. TokensFewer
  BY OtherTokens DEF TokensFewer
<1>2. Single'
  BY <1>1, FewerSingle DEF DInv
<1>3. AllInFlight /\ (\A i \in Nat : Token(c, i) <=>
                         \/ i = replied[c] + 1 /\ NextResult(c) = "stored"
                         \/ i \in replied[c] + 2 .. Len(pending[c]) /\ resp[c][i] = "stored")
  BY InFlightIs, NextToken DEF IInv
<1>4. AllInFlight'
  <2>1. TypeOK'
    BY DEF IInv
  <2> QED
    BY <2>1, InFlightIs, PTL
<1>5. ASSUME NEW d \in Conn, d \in R, NEW s \in SubId,
             subs'[d][s] = subs[d][s], got'[d][s] = got[d][s],
             NEW x \in Near(d, s) \intersect subs[d][s]
      PROVE  x \in Near(d, s)'
  <2>1. x \in Waiting(d) \union lost[d] => x \in Waiting(d)' \union lost'[d]
    <3>1. CASE NextResult(c) = "stored"
      BY <1>5, <3>1, NextToken, AnnounceReaches DEF IInv
    <3>2. CASE NextResult(c) # "stored" /\ Silence(R)
      BY <1>5, <3>2, SilenceReaches
    <3>3. CASE NextResult(c) # "stored" /\ UNCHANGED castVars
      BY <3>3 DEF castVars, Waiting
    <3> QED
      BY <3>1, <3>2, <3>3
  <2>2. CASE x \in InFlight
    <3>1. PICK b \in Conn, i \in Nat : Token(b, i) /\ pending[b][i] = x
      BY <1>3, <2>2 DEF AllInFlight
    <3>2. CASE b # c
      <4>1. Token(b, i)' /\ pending'[b][i] = x
        BY <3>1, <3>2, OtherTokens
      <4>2. x \in InFlight'
        BY <1>4, <4>1 DEF AllInFlight
      <4> QED
        BY <4>2 DEF Near
    <3>3. CASE b = c /\ i = replied[c] + 1 /\ NextResult(c) = "stored"
      <4>1. x = NextReply(c)
        BY <3>1, <3>3 DEF NextReply
      <4>2. x \in Waiting(d)' \union lost'[d]
        BY <1>5, <3>3, <4>1, NextToken, AnnounceReaches DEF IInv
      <4> QED
        BY <4>2 DEF Near
    <3>4. CASE b = c /\ i \in replied[c] + 2 .. Len(pending[c]) /\ resp[c][i] = "stored"
      <4>1. CASE Token(c, i)' /\ pending'[c][i] = pending[c][i]
        <5>1. x \in InFlight'
          BY <1>4, <3>1, <3>4, <4>1 DEF AllInFlight
        <5> QED
          BY <5>1 DEF Near
      <4>2. CASE pending[c][i] \in Wanted => pending[c][i] \in orphaned'
        <5>1. x \in Wanted
          BY DEF Wanted
        <5> QED
          BY <3>1, <3>4, <4>2, <5>1 DEF Near
      <4> QED
        BY <3>4, <4>1, <4>2
    <3> QED
      BY <1>3, <3>1, <3>2, <3>3, <3>4
  <2> QED
    BY <1>5, <2>1, <2>2 DEF Near
<1>6. NoGap'
  BY <1>5, NearKeeps DEF DInv
<1> QED
  BY <1>2, <1>6

LEMMA ReplyFailsDelivery ==
    ASSUME IInv, IInv', DInv, NEW c \in Conn, ReplyFails(c)
    PROVE  Single' /\ NoGap'
<1>1. Moves(c) /\ removed' = removed /\ stored' = stored
  BY ClientMoves, KnownClient DEF IInv, ClientStep
<1>2. /\ Replying(c) /\ CloseTasks({c})
      /\ IF NextResult(c) = "stored" THEN Announce(NextReply(c), Listening \ {c})
                                     ELSE Silence(Listening \ {c})
      /\ orphaned' = orphaned \union
            ({pending[c][j] : j \in {k \in replied[c] + 2 .. Len(pending[c]) : resp[c][k] = "stored"}}
                \intersect Wanted)
  BY DEF ReplyFails
<1>3. \A i \in Nat : ~ Token(c, i)'
  <2>1. \A i \in Nat : ~ Settled(c, i)'
    BY <1>1, <1>2, OtherTokens DEF Replying, Settled, IInv, Mail
  <2>2. resp'[c] = <<>> /\ replied'[c] = 0
    BY <1>2 DEF CloseTasks
  <2>3. \A i \in Nat : ~ Returned(c, i)'
    BY <2>2 DEF Returned
  <2> QED
    BY <2>1, <2>3 DEF Token
<1>4. \A i \in replied[c] + 2 .. Len(pending[c]) :
         resp[c][i] = "stored" /\ pending[c][i] \in Wanted => pending[c][i] \in orphaned'
  BY <1>2
<1>5. \A d \in Conn, s \in SubId :
         \/ subs'[d][s] = {}
         \/ d \in Listening \ {c} /\ subs'[d][s] = subs[d][s] /\ got'[d][s] = got[d][s]
  <2> SUFFICES ASSUME NEW d \in Conn, NEW s \in SubId, subs'[d][s] # {}
               PROVE  d \in Listening \ {c} /\ subs'[d][s] = subs[d][s] /\ got'[d][s] = got[d][s]
    OBVIOUS
  <2>1. d # c /\ subs'[d] = subs[d] /\ got'[d] = got[d]
    BY <1>2 DEF CloseTasks, NoSubs
  <2> QED
    BY <2>1 DEF DInv, Followed
<1> QED
  BY <1>1, <1>2, <1>3, <1>4, <1>5, TurnKeeps

LEMMA ReplyDelivery ==
    ASSUME IInv, IInv', DInv, NEW c \in Conn, Reply(c)
    PROVE  Single' /\ NoGap'
<1>1. Moves(c)
  BY TaskMoves DEF IInv
<1>2. /\ Replying(c)
      /\ IF NextResult(c) = "stored" THEN Announce(NextReply(c), Listening) ELSE UNCHANGED castVars
      /\ replied' = [replied EXCEPT ![c] = @ + 1]
      /\ UNCHANGED <<stored, removed, orphaned, pc, pending, resp, subs, got>>
  BY DEF Reply, subVars
<1>3. /\ replied[c] \in Nat /\ Len(resp[c]) = Len(pending[c]) /\ Len(pending[c]) \in Nat
      /\ replied'[c] = replied[c] + 1
  BY <1>2, NextToken DEF IInv, TypeOK
<1>4. \A i \in Nat : ~ Settled(c, i) /\ ~ Settled(c, i)'
  BY <1>1, <1>2, OtherTokens DEF Replying, Settled, IInv, Mail
<1>5. \A i \in Nat : Returned(c, i)' <=> i \in replied[c] + 2 .. Len(pending[c]) /\ resp[c][i] = "stored"
  BY <1>2, <1>3 DEF Returned
<1>6. \A i \in Nat : Returned(c, i)' => Returned(c, i)
  BY <1>3, <1>5 DEF Returned
<1>7. \A i \in Nat : Token(c, i)' => Token(c, i) /\ pending'[c][i] = pending[c][i]
  BY <1>2, <1>4, <1>6 DEF Token
<1>8. \A i \in replied[c] + 2 .. Len(pending[c]) :
         resp[c][i] = "stored" => Token(c, i)' /\ pending'[c][i] = pending[c][i]
  BY <1>2, <1>3, <1>5 DEF Token
<1>9. \A d \in Conn, s \in SubId :
         \/ subs'[d][s] = {}
         \/ d \in Listening /\ subs'[d][s] = subs[d][s] /\ got'[d][s] = got[d][s]
  BY <1>2 DEF DInv, Followed
<1> QED
  BY <1>1, <1>2, <1>7, <1>8, <1>9, TurnKeeps

LEMMA TaskDelivery ==
    ASSUME IInv, IInv', DInv, NEW c \in Conn, TaskStep(c)
    PROVE  Single' /\ NoGap'
<1> USE DEF DInv
<1>1. CASE Purge(c)
  <2>1. Moves(c)
    BY <1>1, TaskMoves DEF IInv
  <2>2. /\ stored' \subseteq stored /\ removed \subseteq removed'
        /\ UNCHANGED <<pc, pending, resp, replied, subs, got, bq, lost, orphaned>>
    BY <1>1 DEF Purge, subVars, castVars
  <2>3. TokensSame
    BY <2>1, <2>2, MovesTokens DEF SameTask
  <2>4. Single' /\ InFlight' = InFlight
    BY <2>2, <2>3, SameKeeps
  <2> QED
    BY <2>2, <2>4, QuietNear
<1>2. CASE Submit(c)
  <2>1. /\ UNCHANGED <<stored, removed, pending, resp, replied, subs, got, bq, lost, orphaned>>
        /\ UNCHANGED <<wpc, gathered, verdicts>>
    BY <1>2 DEF Submit, subVars, castVars, writerVars
  <2>2. \A d \in Conn : \A i \in Nat : Token(d, i)' <=> Token(d, i)
    BY <2>1 DEF Token, Settled, Returned
  <2>3. TokensSame
    BY <2>1, <2>2 DEF TokensSame
  <2>4. Single' /\ InFlight' = InFlight
    BY <2>1, <2>3, SameKeeps
  <2> QED
    BY <2>1, <2>4, QuietNear
<1>3. CASE Reply(c)
  BY <1>3, ReplyDelivery
<1>4. CASE Finish(c)
  <2>1. /\ pc[c] = "reply" /\ replied[c] = Len(pending[c])
        /\ UNCHANGED <<stored, removed, queue, writerVars, orphaned>>
    BY <1>4 DEF Finish
  <2>2. CASE ending[c]
    <3>1. CloseTasks({c}) /\ Silence(Listening \ {c})
      BY <1>4, <2>2 DEF Finish
    <3>2. TokensSame
      BY <2>1, <3>1, ClosedTokens
    <3>3. Single' /\ InFlight' = InFlight
      BY <2>1, <3>2, SameKeeps
    <3> QED
      BY <2>1, <3>1, <3>3, CloseNear DEF IInv
  <2>3. CASE ~ ending[c]
    <3>1. /\ resp' = [resp EXCEPT ![c] = <<>>] /\ replied' = [replied EXCEPT ![c] = 0]
          /\ UNCHANGED <<subs, got, bq, lost>>
      BY <1>4, <2>3 DEF Finish, subVars, castVars
    <3>2. resp'[c] = <<>> /\ replied'[c] = 0
      BY <3>1 DEF IInv, TypeOK
    <3>3. \A i \in Nat : ~ Returned(c, i)'
      BY <3>2 DEF Returned
    <3>4. Moves(c)
      BY <1>4, TaskMoves DEF IInv
    <3>5. TokensSame
      BY <2>1, <3>3, <3>4, IdleTokens, MovesTokens
    <3>6. Single' /\ InFlight' = InFlight
      BY <2>1, <3>5, SameKeeps
    <3> QED
      BY <2>1, <3>1, <3>6, QuietNear
  <2> QED
    BY <2>2, <2>3
<1> QED
  BY <1>1, <1>2, <1>3, <1>4 DEF TaskStep

-----------------------------------------------------------------------------
(* The writer *)

\* Collecting messages, or failing to write them, makes nothing to broadcast.
LEMMA EmptyRound ==
    ASSUME IInv, IInv', DInv, WriterRecv \/ WriterFail
    PROVE  Single' /\ NoGap'
<1>1. /\ UNCHANGED <<stored, removed, pending, resp, replied, subs, got, bq, lost, orphaned>>
      /\ wpc # "answer"
  BY DEF WriterRecv, WriterFail, Round!Collect, Round!Fail, taskVars, subVars, castVars
<1>2. \A d \in Conn : \A i \in Nat : ~ Settled(d, i)
  BY <1>1 DEF Settled
<1>3. \A d \in Conn : \A i \in Nat : ~ Settled(d, i)'
  <2>1. CASE WriterRecv
    <3>1. wpc' = "collect"
      BY <2>1 DEF WriterRecv, Round!Collect
    <3> QED
      BY <3>1 DEF Settled
  <2>2. CASE WriterFail
    <3>1. gathered' = gathered /\ verdicts' = Failures(gathered)
      BY <2>2, RoundRule DEF WriterFail, Round!Fail
    <3>2. \A m \in DOMAIN gathered : \A i \in DOMAIN gathered[m].events : verdicts'[m][i] = "error"
      BY <3>1 DEF Failures
    <3> QED
      BY <3>1, <3>2 DEF Settled
  <2> QED
    BY <2>1, <2>2
<1>4. \A d \in Conn : \A i \in Nat : Token(d, i)' <=> Token(d, i)
  BY <1>1, <1>2, <1>3 DEF Token, Returned
<1>5. TokensSame
  BY <1>1, <1>4 DEF TokensSame
<1>6. Single' /\ InFlight' = InFlight
  BY <1>1, <1>5, SameKeeps DEF DInv
<1> QED
  BY <1>1, <1>6, QuietNear DEF DInv

\* The results go to the connections that wait for them.
LEMMA AnswerDelivery ==
    ASSUME IInv, IInv', DInv, WriterAnswer
    PROVE  Single' /\ NoGap'
<1>1. /\ UNCHANGED <<stored, removed, pending, replied, subs, got, bq, lost, orphaned>>
      /\ wpc = "answer" /\ wpc' # "answer"
      /\ \A c \in Conn : (~ \E m \in DOMAIN gathered : gathered[m].conn = c) => resp'[c] = resp[c]
  BY DEF WriterAnswer, Round!Answer, subVars, castVars
<1>2. \A m \in DOMAIN gathered : resp'[gathered[m].conn] = verdicts[m]
  BY AnswerKeeps DEF IInv
<1>3. \A c \in Conn : \A i \in Nat : ~ Settled(c, i)'
  BY <1>1 DEF Settled
<1>4. ASSUME NEW c \in Conn, NEW i \in Nat, ~ \E m \in DOMAIN gathered : gathered[m].conn = c
      PROVE  Token(c, i)' <=> Token(c, i)
  BY <1>1, <1>3, <1>4 DEF Token, Returned, Settled
<1>5. ASSUME NEW c \in Conn, NEW i \in Nat, NEW m \in DOMAIN gathered, gathered[m].conn = c
      PROVE  Token(c, i)' <=> Token(c, i)
  <2>1. pc[c] = "await" /\ \A n \in DOMAIN gathered : gathered[n].conn = c => n = m
    BY <1>5 DEF IInv, Mail
  <2>2. resp[c] = <<>> /\ replied[c] = 0 /\ DOMAIN verdicts[m] = DOMAIN gathered[m].events
    BY <1>1, <2>1 DEF IInv, Fitting
  <2>3. Settled(c, i) <=> i \in DOMAIN gathered[m].events /\ verdicts[m][i] = "stored"
    BY <1>1, <1>5, <2>1 DEF Settled
  <2>4. resp'[c] \in Seq(Result) /\ resp'[c] = verdicts[m] /\ replied'[c] = 0
    BY <1>1, <1>2, <1>5, <2>2 DEF IInv, TypeOK
  <2>5. DOMAIN resp'[c] = 1..Len(resp'[c]) /\ Len(resp'[c]) \in Nat
    BY <2>4, LenProperties
  <2>6. Returned(c, i)' <=> i \in DOMAIN verdicts[m] /\ verdicts[m][i] = "stored"
    <3>1. Returned(c, i)' <=> i \in replied'[c] + 1 .. Len(resp'[c]) /\ resp'[c][i] = "stored"
      BY DEF Returned
    <3> QED
      BY <2>4, <2>5, <3>1
  <2>7. ~ Returned(c, i)
    BY <2>1, <2>2, NoneReturned DEF IInv
  <2> QED
    BY <1>3, <2>1, <2>2, <2>3, <2>6, <2>7 DEF Token
<1>6. TokensSame
  BY <1>1, <1>4, <1>5 DEF TokensSame
<1>7. Single' /\ InFlight' = InFlight
  BY <1>1, <1>6, SameKeeps DEF DInv
<1> QED
  BY <1>1, <1>7, QuietNear DEF DInv

\* What a transaction adds to the database is to be broadcast, each event by one
\* connection.
LEMMA CommitDelivery ==
    ASSUME IInv, IInv', DInv, WriterCommit
    PROVE  Single' /\ NoGap'
<1> DEFINE G == gathered
<1>1. /\ UNCHANGED <<removed, pending, resp, replied, subs, got, bq, lost, orphaned, gathered>>
      /\ wpc # "answer" /\ wpc' = "answer"
      /\ stored' = Resolve(stored \union KeptEvents(gathered))
      /\ verdicts' = Verdicts(stored, gathered)
  BY RoundRule DEF WriterCommit, Round!Commit, taskVars, subVars, castVars
<1>2. /\ IsBatch(G)
      /\ \A m \in DOMAIN G : G[m].conn \in Conn /\ pending[G[m].conn] = G[m].events
  BY GatheredBatch DEF IInv, Mail, Message
<1>3. ASSUME NEW x \in Entries(G)
      PROVE  /\ x = <<x[1], x[2]>> /\ x[1] \in DOMAIN G /\ x[2] \in DOMAIN G[x[1]].events
             /\ x[2] \in Nat /\ Ev(G, x) = pending[G[x[1]].conn][x[2]]
             /\ verdicts'[x[1]][x[2]] = Outcome(stored, G, x)
  <2>1. /\ x = <<x[1], x[2]>> /\ x[1] \in DOMAIN G /\ x[2] \in DOMAIN G[x[1]].events /\ x[2] \in Nat
    BY <1>2, EntryFacts
  <2>2. Ev(G, x) = pending[G[x[1]].conn][x[2]]
    BY <1>2, <2>1 DEF Ev
  <2>3. verdicts'[x[1]][x[2]] = Outcome(stored, G, <<x[1], x[2]>>)
    BY <1>1, <2>1 DEF Verdicts
  <2> QED
    BY <2>1, <2>2, <2>3
<1>4. ASSUME NEW c \in Conn, NEW i \in Nat, Settled(c, i)'
      PROVE  \E x \in Entries(G) : /\ Outcome(stored, G, x) = "stored" /\ G[x[1]].conn = c /\ x[2] = i
                                   /\ Ev(G, x) = pending[c][i]
  <2>1. PICK m \in DOMAIN G : G[m].conn = c /\ i \in DOMAIN G[m].events /\ verdicts'[m][i] = "stored"
    BY <1>1, <1>4 DEF Settled
  <2> DEFINE x == <<m, i>>
  <2>2. x \in Entries(G) /\ x[1] = m /\ x[2] = i
    BY <1>2, <2>1, EntryFacts
  <2> HIDE DEF x
  <2> QED
    BY <1>3, <2>1, <2>2
<1>5. ASSUME NEW x \in Entries(G), Outcome(stored, G, x) = "stored"
      PROVE  \E c \in Conn, i \in Nat : Token(c, i)' /\ pending'[c][i] = Ev(G, x)
  <2>1. PICK c \in Conn : c = G[x[1]].conn
    BY <1>2, <1>3
  <2>2. Settled(c, x[2])'
    BY <1>1, <1>3, <1>5, <2>1 DEF Settled
  <2>3. x[2] \in Nat /\ pending'[c][x[2]] = Ev(G, x)
    BY <1>1, <1>3, <2>1
  <2>4. PICK i \in Nat : i = x[2]
    BY <2>3
  <2>5. Token(c, i)'
    BY <2>2, <2>4 DEF Token
  <2> QED
    BY <2>3, <2>4, <2>5
<1>6. \A c \in Conn : \A i \in Nat : /\ Returned(c, i)' <=> Returned(c, i)
                                     /\ Token(c, i) <=> Returned(c, i)
  BY <1>1 DEF Returned, Token, Settled
<1>7. AllInFlight /\ AllInFlight'
  <2>1. TypeOK /\ TypeOK'
    BY DEF IInv
  <2> QED
    BY <2>1, InFlightIs, PTL
<1>8. InFlight \subseteq InFlight'
  <2> SUFFICES ASSUME NEW e \in InFlight
               PROVE  e \in InFlight'
    OBVIOUS
  <2>1. PICK c \in Conn, i \in Nat : Token(c, i) /\ pending[c][i] = e
    BY <1>7 DEF AllInFlight
  <2>2. Token(c, i)' /\ pending'[c][i] = e
    BY <1>1, <1>6, <2>1 DEF Token
  <2> QED
    BY <1>7, <2>2 DEF AllInFlight
<1>9. ASSUME NEW c \in Conn, NEW i \in Nat, NEW d \in Conn, NEW j \in Nat,
             Settled(c, i)', Returned(d, j), pending[c][i] = pending[d][j]
      PROVE  Covered(pending[c][i], removed)
  <2>1. ~ Covered(pending[c][i], stored)
    BY <1>4, <1>9, StoredIsNew
  <2>2. Covered(pending[d][j], Known)
    BY <1>6, <1>9, TokenFacts
  <2> QED
    BY <1>9, <2>1, <2>2, CoveredSplits DEF Known
<1>10. Single'
  <2> SUFFICES ASSUME NEW c \in Conn, NEW d \in Conn,
                      NEW i \in DOMAIN pending[c], NEW j \in DOMAIN pending[d],
                      Token(c, i)', Token(d, j)', pending[c][i] = pending[d][j]
               PROVE  (c = d /\ i = j) \/ Covered(pending[c][i], removed)
    BY <1>1 DEF Single
  <2>1. i \in Nat /\ j \in Nat
    <3>1. \A b \in Conn : DOMAIN pending[b] = 1..Len(pending[b]) /\ Len(pending[b]) \in Nat
      BY LenProperties DEF IInv, TypeOK
    <3> QED
      BY <3>1
  <2>2. (Settled(c, i)' \/ Returned(c, i)) /\ (Settled(d, j)' \/ Returned(d, j))
    BY <1>6, <2>1 DEF Token
  <2>3. CASE Settled(c, i)' /\ Settled(d, j)'
    <3>1. PICK x \in Entries(G) : /\ Outcome(stored, G, x) = "stored" /\ G[x[1]].conn = c /\ x[2] = i
                                  /\ Ev(G, x) = pending[c][i]
      BY <1>4, <2>1, <2>3
    <3>2. PICK y \in Entries(G) : /\ Outcome(stored, G, y) = "stored" /\ G[y[1]].conn = d /\ y[2] = j
                                  /\ Ev(G, y) = pending[d][j]
      BY <1>4, <2>1, <2>3
    <3>3. x = y
      BY <1>2, <3>1, <3>2, StoredOnce
    <3> QED
      BY <3>1, <3>2, <3>3
  <2>4. CASE Returned(c, i) /\ Returned(d, j)
    <3>1. Token(c, i) /\ Token(d, j)
      BY <1>6, <2>1, <2>4
    <3> QED
      BY <3>1 DEF DInv, Single
  <2>5. CASE Settled(c, i)' /\ Returned(d, j)
    BY <1>9, <2>1, <2>5
  <2>6. CASE Returned(c, i) /\ Settled(d, j)'
    BY <1>9, <2>1, <2>6
  <2> QED
    BY <2>2, <2>3, <2>4, <2>5, <2>6
<1>11. \A c \in Conn, s \in SubId : subs'[c][s] = subs[c][s] /\ Near(c, s) \subseteq Near(c, s)'
  BY <1>1, <1>8 DEF Near, Waiting
<1>12. ASSUME NEW c \in Conn, NEW s \in SubId, NEW e \in stored' \intersect subs'[c][s]
       PROVE  e \in Near(c, s)'
  <2>1. CASE e \in stored
    BY <1>11, <2>1 DEF DInv, NoGap, Near
  <2>2. CASE e \notin stored
    <3>1. PICK x \in Entries(G) : Ev(G, x) = e /\ Outcome(stored, G, x) = "stored"
      BY <1>1, <2>2, AddedIsStored
    <3>2. e \in InFlight'
      BY <1>5, <1>7, <3>1 DEF AllInFlight
    <3> QED
      BY <3>2 DEF Near
  <2> QED
    BY <2>1, <2>2
<1>13. NoGap'
  BY <1>12, NearKeeps DEF DInv
<1> QED
  BY <1>10, <1>13

LEMMA CrashDelivery ==
    ASSUME Crash
    PROVE  Single' /\ NoGap'
<1>1. /\ wpc' # "answer"
      /\ \A c \in Conn : resp'[c] = <<>> /\ replied'[c] = 0 /\ \A s \in SubId : subs'[c][s] = {}
  BY DEF Crash, CloseTasks, NoSubs
<1>2. \A c \in Conn : \A i \in Nat : ~ Settled(c, i)' /\ ~ Returned(c, i)'
  BY <1>1 DEF Settled, Returned
<1>3. NoGap'
  BY <1>1 DEF NoGap
<1>4. \A c \in Conn : \A i : ~ Token(c, i)'
  BY <1>1 DEF Token, Settled, Returned
<1>5. Single'
  BY <1>4 DEF Single
<1> QED
  BY <1>3, <1>5

-----------------------------------------------------------------------------
(* The invariant *)

LEMMA InitDelivery == Init => DInv
<1> SUFFICES ASSUME Init
             PROVE  DInv
  OBVIOUS
<1>1. \A c \in Conn : \A i : ~ Token(c, i)
  BY DEF Init, Token, Settled, Returned
<1>2. Single
  BY <1>1 DEF Single
<1>3. Followed /\ NoGap
  BY DEF Init, Followed, NoGap, NoSubs
<1> QED
  BY <1>2, <1>3 DEF DInv

LEMMA NextDelivery ==
    ASSUME IInv, DInv, [Next]_vars
    PROVE  IInv' /\ DInv'
<1>1. IInv'
  BY NextInvariant
<1>2. CASE Next
  <2>1. Followed'
    BY <1>2, NextFollowed DEF IInv, DInv
  <2>2. Single' /\ NoGap'
    BY <1>1, <1>2, ClientDelivery, ReplyFailsDelivery, TaskDelivery, EmptyRound, CommitDelivery,
       AnswerDelivery, CrashDelivery DEF Next, WriterStep
  <2> QED
    BY <1>1, <2>1, <2>2 DEF DInv
<1>3. CASE UNCHANGED vars
  <2>1. /\ UNCHANGED <<stored, removed, pending, resp, replied, subs, got, bq, lost, orphaned>>
        /\ UNCHANGED <<wpc, gathered, verdicts, pc>>
    BY <1>3 DEF vars
  <2>2. \A c \in Conn : \A i \in Nat : Token(c, i)' <=> Token(c, i)
    BY <2>1 DEF Token, Settled, Returned
  <2>3. TokensSame
    BY <2>1, <2>2 DEF TokensSame
  <2>4. Single' /\ InFlight' = InFlight
    BY <1>1, <2>1, <2>3, SameKeeps DEF DInv
  <2>5. NoGap'
    BY <2>1, <2>4, QuietNear DEF DInv
  <2>6. Followed'
    BY <2>1, FollowedKeeps DEF DInv
  <2> QED
    BY <1>1, <2>4, <2>5, <2>6 DEF DInv
<1> QED
  BY <1>2, <1>3

\* The inductive invariant: next to that of PipelineProofs, that the results
\* which wait to be broadcast name each event once, and cover every gap.
THEOREM DeliveryInvariant == Spec => [](IInv /\ DInv)
BY InitInvariant, InitDelivery, NextDelivery, PTL DEF Spec

\* Between the query of a REQ and the live events nothing falls through: a stored
\* event that a subscription matches was sent to it, waits in its queue or waits
\* to be broadcast, but for what lagging, a failed query or a sender that left
\* took from it.
THEOREM NothingFallsThrough == Spec => []NoGap
<1>1. DInv => NoGap
  BY DEF DInv
<1> QED
  BY <1>1, DeliveryInvariant, PTL

\* Of the connections that submit an event, in one batch or in several, a single
\* one is to broadcast it, unless a deletion request let it be stored again.
THEOREM AnnouncedByOne == Spec => []OneAnnouncer
<1>1. IInv /\ DInv => OneAnnouncer
  <2> SUFFICES ASSUME IInv, DInv, NEW e \in Event, ~ Covered(e, removed)
               PROVE  ~ Cardinality(Announcers(e)) > 1
    BY DEF OneAnnouncer
  <2>1. ASSUME NEW t \in Announcers(e), NEW u \in Announcers(e)
        PROVE  t = u
    <3>1. t \in Tokens /\ u \in Tokens /\ pending[t[1]][t[2]] = e /\ pending[u[1]][u[2]] = e
      BY DEF Announcers
    <3>2. PICK c \in Conn, i \in Nat : t = <<c, i>> /\ Token(c, i)
      BY <3>1, TokensAre DEF IInv
    <3>3. PICK d \in Conn, j \in Nat : u = <<d, j>> /\ Token(d, j)
      BY <3>1, TokensAre DEF IInv
    <3>4. pending[c][i] = e /\ pending[d][j] = e
      BY <3>1, <3>2, <3>3
    <3>5. i \in DOMAIN pending[c] /\ j \in DOMAIN pending[d]
      BY <3>2, <3>3, TokenFacts
    <3>6. c = d /\ i = j
      BY <3>2, <3>3, <3>4, <3>5 DEF DInv, Single
    <3> QED
      BY <3>2, <3>3, <3>6
  <2>2. CASE Announcers(e) = {}
    BY <2>2, FS_EmptySet
  <2>3. CASE Announcers(e) # {}
    <3>1. PICK t : Announcers(e) = {t}
      BY <2>1, <2>3
    <3>2. Cardinality(Announcers(e)) = 1
      BY <3>1, FS_Singleton
    <3> QED
      BY <3>2
  <2> QED
    BY <2>2, <2>3
<1> QED
  BY <1>1, DeliveryInvariant, PTL
=============================================================================
