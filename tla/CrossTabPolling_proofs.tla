---------------------- MODULE CrossTabPolling_proofs ----------------------
(***************************************************************************)
(* Proofs about CrossTabPolling, for every set of tabs and topics: however *)
(* tabs come, go and claim leadership, each follower watches for the loss  *)
(* of its leader, only leaders poll, and a visible leader never stops.     *)
(***************************************************************************)
EXTENDS CrossTabPolling, FiniteSetTheorems, WellFoundedInduction, TLAPS

(***************************************************************************)
(* The inductive invariants.                                               *)
(***************************************************************************)

\* What the Map of listeners can hold.
Listened == {l \in Seq(Topic) : IsInjective(l)}

\* Fetches; what the server has answered is a version it has had.
Dated == [topics : SUBSET Topic, value : {P!Waiting} \cup 1 .. version]

PollTypes ==
  /\ subs \in [Tab -> SUBSET Topic]
  /\ timer \in [Tab -> BOOLEAN]
  /\ pending \in [Tab -> Dated \cup {NoFetch}]
  /\ orphans \in [Tab -> SUBSET Dated]
  /\ hidden \in [Tab -> BOOLEAN]

Channels == [Tab -> [Tab -> Seq(Message)]]

TypeInv ==
  /\ PollTypes
  /\ life \in [Tab -> {"new", "open", "gone"}]
  /\ leader \in [Tab -> BOOLEAN] /\ watchdog \in [Tab -> BOOLEAN]
  /\ listeners \in [Tab -> Listened]
  /\ snapshot \in [Tab -> [Topic -> 0 .. version]]
  /\ shown \in [Tab -> [Topic -> 0 .. version]]
  /\ kept \in [Tab -> SUBSET Topic]
  /\ chan \in Channels
  /\ version \in Nat \ {0}

\* A tab that is not open, or not open any more, takes no part.
ClosedIsIdle ==
  \A t \in Tab : life[t] # "open" => ~leader[t] /\ ~watchdog[t] /\ listeners[t] = << >>

ElectionInv == TypeInv /\ ClosedIsIdle /\ FollowersWatch

PollingInv == ElectionInv /\ OnlyLeadersPoll /\ PollsWhileVisible

(***************************************************************************)
(* Lemmas about sequences of topics.                                       *)
(***************************************************************************)

\* No topic is twice in a Map, so there is a bound to its size.
LEMMA ListenedSize ==
  ASSUME NEW l \in Listened
  PROVE  l \in SeqOf(Topic, Cardinality(Topic))
<1> DEFINE n == Len(l)
           c == Cardinality(Topic)
<1>1. l \in [1 .. n -> Topic] /\ n \in Nat
  BY DEF Listened
<1>2. IsFiniteSet(Topic) /\ c \in Nat
  BY CrossTabAssumption, FS_CardinalityType
<1>3. IsFiniteSet(1 .. n) /\ Cardinality(1 .. n) = n
  <2>1. 1 \in Int /\ n \in Int
    BY <1>1
  <2>2. /\ IsFiniteSet(1 .. n)
        /\ Cardinality(1 .. n) = IF 1 > n THEN 0 ELSE n - 1 + 1
    BY <2>1, FS_Interval
  <2> QED BY <1>1, <2>2
<1>4. n <= c
  <2> SUFFICES ASSUME n > c PROVE FALSE
    BY <1>1, <1>2
  <2>1. \E x, y \in 1 .. n : x # y /\ l[x] = l[y]
    BY <1>1, <1>2, <1>3, FS_PigeonHole
  <2> QED BY <1>1, <2>1 DEF Listened, IsInjective
<1>5. n \in 0 .. c
  BY <1>1, <1>2, <1>4
<1> QED BY <1>1, <1>5 DEF SeqOf

LEMMA AppendListened ==
  ASSUME NEW l \in Listened, NEW k \in Topic
  PROVE  /\ ToSet(Append(l, k)) = ToSet(l) \cup {k}
         /\ k \notin ToSet(l) => Append(l, k) \in Listened
<1>1. /\ l \in Seq(Topic) /\ Append(l, k) \in Seq(Topic)
      /\ DOMAIN l = 1 .. Len(l) /\ DOMAIN Append(l, k) = 1 .. Len(l) + 1
      /\ Append(l, k)[Len(l) + 1] = k
      /\ \A i \in 1 .. Len(l) : Append(l, k)[i] = l[i]
  BY DEF Listened
<1>2. ToSet(Append(l, k)) = ToSet(l) \cup {k}
  BY <1>1 DEF ToSet
<1>3. ASSUME k \notin ToSet(l) PROVE IsInjective(Append(l, k))
  BY <1>1, <1>3 DEF ToSet, IsInjective, Listened
<1> QED BY <1>1, <1>2, <1>3 DEF Listened

LEMMA RemoveListened ==
  ASSUME NEW l \in Listened, NEW i \in DOMAIN l
  PROVE  /\ RemoveAt(l, i) \in Listened
         /\ ToSet(RemoveAt(l, i)) = ToSet(l) \ {l[i]}
<1> DEFINE r == RemoveAt(l, i)
           n == Len(l)
<1>1. l \in Seq(Topic) /\ n \in Nat /\ DOMAIN l = 1 .. n /\ i \in 1 .. n /\ IsInjective(l)
  BY DEF Listened
<1>2. /\ r \in Seq(Topic) /\ DOMAIN r = 1 .. n - 1
      /\ \A j \in 1 .. n - 1 : r[j] = IF j < i THEN l[j] ELSE l[j + 1]
  <2>1. PICK before : before = SubSeq(l, 1, i - 1)
    OBVIOUS
  <2>2. PICK behind : behind = SubSeq(l, i + 1, n)
    OBVIOUS
  <2>3. /\ before \in Seq(Topic) /\ Len(before) = i - 1
        /\ \A j \in 1 .. i - 1 : before[j] = l[j]
    BY <1>1, <2>1
  <2>4. /\ behind \in Seq(Topic) /\ Len(behind) = n - i
        /\ \A j \in 1 .. n - i : behind[j] = l[i + j]
    BY <1>1, <2>2
  <2>5. r = before \o behind
    BY <2>1, <2>2 DEF RemoveAt
  <2> HIDE DEF r
  <2>6. r \in Seq(Topic) /\ Len(r) = n - 1
    <3>1. before \in Seq(Topic) /\ behind \in Seq(Topic)
      BY <2>3, <2>4
    <3>2. r \in Seq(Topic) /\ Len(r) = Len(before) + Len(behind)
      BY <2>5, <3>1
    <3> QED BY <1>1, <2>3, <2>4, <3>2
  <2>7. ASSUME NEW j \in 1 .. n - 1
        PROVE  r[j] = IF j < i THEN l[j] ELSE l[j + 1]
    <3>1. CASE j < i
      <4>1. j \in 1 .. Len(before)
        BY <1>1, <2>3, <3>1
      <4>2. r[j] = before[j]
        BY <2>3, <2>4, <2>5, <4>1
      <4> QED BY <2>3, <3>1, <4>1, <4>2
    <3>2. CASE j >= i
      <4>1. PICK k \in 1 .. n - i : k = j - (i - 1)
        BY <1>1, <3>2
      <4>2. r[j] = behind[k]
        BY <1>1, <2>3, <2>4, <2>5, <3>2, <4>1
      <4>3. i + k = j + 1 /\ ~(j < i)
        BY <1>1, <3>2, <4>1
      <4> QED BY <2>4, <4>1, <4>2, <4>3
    <3> QED BY <1>1, <3>1, <3>2
  <2> QED BY <2>6, <2>7
<1> HIDE DEF r
\* Where a topic that is left was before.
<1> DEFINE At(j) == IF j < i THEN j ELSE j + 1
<1>3. \A j \in 1 .. n - 1 : At(j) \in 1 .. n /\ At(j) # i /\ r[j] = l[At(j)]
  BY <1>1, <1>2
<1>4. \A j, k \in 1 .. n - 1 : At(j) = At(k) => j = k
  BY <1>1
<1> HIDE DEF At
<1>5. \A j, k \in 1 .. n : l[j] = l[k] => j = k
  BY <1>1 DEF IsInjective
<1>6. IsInjective(r)
  <2> SUFFICES ASSUME NEW j \in 1 .. n - 1, NEW k \in 1 .. n - 1, r[j] = r[k]
               PROVE  j = k
    BY <1>2 DEF IsInjective
  <2> QED BY <1>3, <1>4, <1>5
<1>7. ToSet(r) \subseteq ToSet(l) \ {l[i]}
  <2> SUFFICES ASSUME NEW j \in 1 .. n - 1
               PROVE  r[j] \in ToSet(l) \ {l[i]}
    BY <1>2 DEF ToSet
  <2> QED BY <1>1, <1>3, <1>5 DEF ToSet
<1>8. ASSUME NEW j \in 1 .. n, j # i PROVE l[j] \in ToSet(r)
  <2>1. CASE j < i
    <3>1. j \in 1 .. n - 1 /\ r[j] = l[j]
      BY <1>1, <1>2, <2>1
    <3> QED BY <1>2, <3>1 DEF ToSet
  <2>2. CASE j > i
    <3>1. j - 1 \in 1 .. n - 1 /\ r[j - 1] = l[j]
      BY <1>1, <1>2, <2>2
    <3> QED BY <1>2, <3>1 DEF ToSet
  <2> QED BY <1>1, <1>8, <2>1, <2>2
<1>9. ToSet(l) \ {l[i]} \subseteq ToSet(r)
  BY <1>1, <1>8 DEF ToSet
<1> QED BY <1>2, <1>6, <1>7, <1>9 DEF Listened, r

(***************************************************************************)
(* Lemmas about the channels and the polling client: types.                *)
(***************************************************************************)

LEMMA DatedIsFetch == version \in Nat => Dated \subseteq P!Fetch /\ NoFetch \notin Dated
BY CrossTabAssumption DEF Dated, P!Fetch, P!Waiting

\* Only a change of the data changes what there can be in fetches and messages.
LEMMA SameVersion ==
  ASSUME UNCHANGED version
  PROVE  Dated' = Dated /\ Message' = Message /\ Channels' = Channels
BY DEF Dated, Message, Channels, Data, TopicSync, Heartbeat, Abdicate

LEMMA MessageType ==
  ASSUME TypeInv
  PROVE  /\ Heartbeat \in Message /\ Abdicate \in Message
         /\ \A l \in Listened : TopicSync(l) \in Message
         /\ \A S \in SUBSET Topic, v \in 1 .. version : Data(S, v) \in Message
BY ListenedSize DEF Message

LEMMA PostType ==
  ASSUME NEW c \in Channels, NEW t \in Tab, NEW m \in Message
  PROVE  Post(c, t, m) \in Channels
<1> DEFINE row == [r \in Tab |-> IF r \in Open \ {t} THEN Append(c[t][r], m) ELSE c[t][r]]
<1>1. row \in [Tab -> Seq(Message)]
  BY DEF Channels
<1>2. Post(c, t, m) = [c EXCEPT ![t] = row]
  BY DEF Post, Channels
<1> QED BY <1>1, <1>2 DEF Channels

LEMMA DispatchType ==
  ASSUME TypeInv, NEW t \in Tab, NEW S \in SUBSET Topic, NEW v \in 1 .. version,
         Dispatch(t, S, v), UNCHANGED version
  PROVE  /\ snapshot' \in [Tab -> [Topic -> 0 .. version']]
         /\ shown' \in [Tab -> [Topic -> 0 .. version']]
         /\ kept' \in [Tab -> SUBSET Topic]
<1>1. v \in 0 .. version /\ snapshot[t] \in [Topic -> 0 .. version] /\ shown[t] \in [Topic -> 0 .. version]
  BY DEF TypeInv
<1> DEFINE new == Changed(t, S, v)
<1>2. /\ [k \in Topic |-> IF k \in new THEN v ELSE snapshot[t][k]] \in [Topic -> 0 .. version]
      /\ [k \in Topic |-> IF k \in new THEN v ELSE shown[t][k]] \in [Topic -> 0 .. version]
  BY <1>1
<1> HIDE DEF new
<1> QED BY <1>2 DEF Dispatch, TypeInv, new

\* A poll of topics in S.
LEMMA PollType ==
  ASSUME PollTypes, NEW t \in Tab, NEW S \in SUBSET Topic, P!Poll(t, S)
  PROVE  pending' \in [Tab -> Dated \cup {NoFetch}]
<1>1. [topics |-> S, value |-> P!Waiting] \in Dated
  BY DEF Dated
<1> QED BY <1>1 DEF P!Poll, PollTypes

LEMMA SubscribeMoreType ==
  ASSUME PollTypes, NEW t \in Tab, NEW l \in Seq(Topic),
         P!SubscribeMore(t, l), UNCHANGED version
  PROVE  PollTypes'
<1> DEFINE new == {i \in DOMAIN l : l[i] \notin subs[t]}
           fetched == subs[t] \cup {l[i] : i \in {j \in new : \A h \in new : j <= h}}
<1>1. fetched \in SUBSET Topic /\ P!Range(l) \in SUBSET Topic
  BY DEF PollTypes, P!Range
<1>2. pending' \in [Tab -> Dated \cup {NoFetch}]
  <2>1. pending' = pending \/ P!Poll(t, fetched)
    BY DEF P!SubscribeMore
  <2> QED BY <1>1, <2>1, PollType DEF PollTypes
<1>3. subs' \in [Tab -> SUBSET Topic]
  BY <1>1 DEF P!SubscribeMore, PollTypes
<1> QED BY <1>2, <1>3 DEF P!SubscribeMore, PollTypes, Dated

LEMMA StopType ==
  ASSUME PollTypes, NEW t \in Tab, P!Stop(t), UNCHANGED version
  PROVE  PollTypes'
BY DEF P!Stop, PollTypes, Dated

LEMMA GoneType ==
  ASSUME PollTypes, NEW t \in Tab, P!Gone(t), UNCHANGED version
  PROVE  PollTypes'
BY DEF P!Gone, PollTypes, Dated

LEMMA UnsubscribeType ==
  ASSUME PollTypes, NEW t \in Tab, NEW k \in Topic, P!Unsubscribe(t, k), UNCHANGED version
  PROVE  PollTypes'
<1>1. CASE subs[t] = {k}
  <2>1. P!Stop(t)
    BY <1>1 DEF P!Unsubscribe
  <2> QED BY <2>1, StopType
<1>2. CASE subs[t] # {k}
  BY <1>2 DEF P!Unsubscribe, PollTypes, Dated
<1> QED BY <1>1, <1>2

LEMMA PollingType ==
  ASSUME PollTypes, NEW t \in Tab, UNCHANGED version,
         P!Refresh(t) \/ P!Timer(t) \/ P!Hide(t) \/ P!Show(t)
  PROVE  PollTypes'
<1>1. subs[t] \in SUBSET Topic
  BY DEF PollTypes
<1>2. pending' = pending \/ P!Poll(t, subs[t])
  BY DEF P!Refresh, P!Timer, P!Hide, P!Show
<1>3. pending' \in [Tab -> Dated \cup {NoFetch}]
  BY <1>1, <1>2, PollType DEF PollTypes
<1> QED BY <1>3 DEF P!Refresh, P!Timer, P!Hide, P!Show, PollTypes, Dated

LEMMA AnswerType ==
  ASSUME TypeInv, NEW t \in Tab, NEW f, NEW S, P!Answer(t, f, S, version), UNCHANGED version
  PROVE  PollTypes'
<1>1. f \in Dated
  BY DEF TypeInv, PollTypes, P!Answer, P!Fetches
<1> DEFINE g == [topics |-> S, value |-> version]
<1>2. g \in Dated
  BY <1>1 DEF TypeInv, P!Answer, Dated
<1>3. /\ \/ pending' = [pending EXCEPT ![t] = g] /\ UNCHANGED orphans
         \/ orphans' = [orphans EXCEPT ![t] = (@ \ {f}) \cup {g}] /\ UNCHANGED pending
      /\ UNCHANGED << subs, timer, hidden >>
  BY DEF P!Answer
<1> HIDE DEF g
<1>4. pending' \in [Tab -> Dated \cup {NoFetch}]
  BY <1>2, <1>3 DEF TypeInv, PollTypes
<1>5. orphans' \in [Tab -> SUBSET Dated]
  <2>1. orphans \in [Tab -> SUBSET Dated]
    BY DEF TypeInv, PollTypes
  <2>2. (orphans[t] \ {f}) \cup {g} \in SUBSET Dated
    BY <1>2, <2>1
  <2> QED BY <1>3, <2>1, <2>2
<1> QED BY <1>3, <1>4, <1>5, SameVersion DEF TypeInv, PollTypes

LEMMA EndType ==
  ASSUME PollTypes, NEW t \in Tab, NEW f, P!End(t, f), UNCHANGED version
  PROVE  PollTypes'
BY DEF P!End, PollTypes, Dated

(***************************************************************************)
(* Types.                                                                  *)
(***************************************************************************)

LEMMA TypeInit == Init => TypeInv
<1> SUFFICES ASSUME Init PROVE TypeInv
  OBVIOUS
<1>1. << >> \in Listened
  BY DEF Listened, IsInjective
<1>2. PollTypes
  BY DEF Init, P!Init, PollTypes
<1>3. chan \in Channels
  BY DEF Init, Channels
<1> QED BY <1>1, <1>2, <1>3 DEF Init, TypeInv

\* Variables that a step leaves alone keep their types.
LEMMA BecomeLeaderType ==
  ASSUME TypeInv, NEW t \in Tab, NEW c \in Channels, BecomeLeader(t, c), UNCHANGED version
  PROVE  /\ PollTypes'
         /\ leader' \in [Tab -> BOOLEAN] /\ watchdog' \in [Tab -> BOOLEAN]
         /\ snapshot' \in [Tab -> [Topic -> 0 .. version']]
         /\ shown' \in [Tab -> [Topic -> 0 .. version']]
         /\ kept' \in [Tab -> SUBSET Topic]
         /\ chan' \in Channels'
<1>1. PollTypes'
  <2>1. listeners[t] \in Seq(Topic) /\ PollTypes
    BY DEF TypeInv, Listened
  <2> QED BY <2>1, SubscribeMoreType DEF BecomeLeader
<1>2. chan' \in Channels
  BY MessageType, PostType DEF BecomeLeader
<1>3. snapshot' \in [Tab -> [Topic -> 0 .. version]] /\ kept' \in [Tab -> SUBSET Topic]
  BY DEF BecomeLeader, TypeInv
<1> QED BY <1>1, <1>2, <1>3, SameVersion DEF BecomeLeader, TypeInv

LEMMA TypeCreate ==
  ASSUME TypeInv, NEW t \in Tab, Create(t)
  PROVE  TypeInv'
<1>1. BecomeLeader(t, chan) /\ UNCHANGED version /\ chan \in Channels
  BY DEF Create, TypeInv
<1>2. life' \in [Tab -> {"new", "open", "gone"}]
  BY DEF Create, TypeInv
<1> QED BY <1>1, <1>2, BecomeLeaderType DEF Create, TypeInv, Listened

LEMMA TypePromote ==
  ASSUME TypeInv, NEW t \in Tab, Promote(t)
  PROVE  TypeInv'
<1>1. BecomeLeader(t, chan) /\ UNCHANGED version /\ chan \in Channels
  BY DEF Promote, TypeInv
<1> QED BY <1>1, BecomeLeaderType DEF Promote, TypeInv, Listened

LEMMA TypeSendHeartbeat ==
  ASSUME TypeInv, NEW t \in Tab, SendHeartbeat(t)
  PROVE  TypeInv'
<1>1. chan' \in Channels
  BY MessageType, PostType DEF SendHeartbeat, TypeInv
<1> QED BY <1>1, SameVersion DEF SendHeartbeat, TypeInv, PollTypes, pollingVars,
                                electionVars, dataVars, Listened

\* Each message is taken out of a channel.
LEMMA HeadType ==
  ASSUME TypeInv, NEW s \in Tab, NEW t \in Tab, chan[s][t] # << >>
  PROVE  /\ Head(chan[s][t]) \in Message
         /\ [chan EXCEPT ![s][t] = Tail(@)] \in Channels
BY DEF TypeInv, Channels

LEMMA KindOfMessage ==
  ASSUME NEW m \in Message
  PROVE  /\ m.kind = "data" => m.topics \in SUBSET Topic /\ m.value \in 1 .. version
         /\ m.kind = "topic-sync" => m.topics \in Seq(Topic)
<1>1. \A l \in SeqOf(Topic, Cardinality(Topic)) : l \in Seq(Topic)
  BY DEF SeqOf
<1> QED BY <1>1 DEF Message, Heartbeat, Abdicate, Data, TopicSync

LEMMA TypeReceive ==
  ASSUME TypeInv, NEW s \in Tab, NEW t \in Tab, Receive(s, t)
  PROVE  TypeInv'
<1> DEFINE m == Head(chan[s][t])
           c == [chan EXCEPT ![s][t] = Tail(@)]
<1>1. m \in Message /\ c \in Channels
  BY HeadType DEF Receive
<1>2. UNCHANGED << life, listeners, version >>
  BY DEF Receive, counts
<1>3. Dated' = Dated /\ Message' = Message /\ Channels' = Channels
  BY <1>2, SameVersion
<1>4. \/ m.kind = "heartbeat"  /\ OnHeartbeat(s, t, c)
      \/ m.kind = "abdicate"   /\ OnAbdicate(t, c)
      \/ m.kind = "data"       /\ OnData(t, m, c)
      \/ m.kind = "topic-sync" /\ OnTopicSync(t, m, c)
  BY DEF Receive
<1> HIDE DEF m, c
<1>5. CASE OnHeartbeat(s, t, c)
  <2>1. PollTypes'
    <3>1. UNCHANGED pollingVars \/ P!Stop(t)
      BY <1>5 DEF OnHeartbeat, Resign
    <3> QED BY <1>2, <1>3, <3>1, StopType DEF TypeInv, PollTypes, pollingVars
  <2>2. leader' \in [Tab -> BOOLEAN] /\ watchdog' \in [Tab -> BOOLEAN]
    BY <1>5 DEF OnHeartbeat, Resign, TypeInv
  <2>3. chan' \in Channels
    BY <1>1, <1>5, MessageType, PostType DEF OnHeartbeat
  <2> QED BY <1>2, <1>3, <1>5, <2>1, <2>2, <2>3 DEF OnHeartbeat, dataVars, TypeInv, Listened
<1>6. CASE OnAbdicate(t, c)
  <2>1. CASE leader[t]
    BY <1>1, <1>2, <1>3, <1>6, <2>1 DEF OnAbdicate, pollingVars, electionVars, dataVars,
                                        TypeInv, PollTypes, Listened
  <2>2. CASE ~leader[t]
    BY <1>1, <1>2, <1>3, <1>6, <2>2, BecomeLeaderType DEF OnAbdicate, TypeInv, Listened
  <2> QED BY <2>1, <2>2
<1>7. CASE m.kind = "data" /\ OnData(t, m, c)
  <2>1. m.topics \in SUBSET Topic /\ m.value \in 1 .. version
    BY <1>1, <1>7, KindOfMessage
  <2>2. /\ snapshot' \in [Tab -> [Topic -> 0 .. version']]
        /\ shown' \in [Tab -> [Topic -> 0 .. version']]
        /\ kept' \in [Tab -> SUBSET Topic]
    <3>1. UNCHANGED dataVars \/ Dispatch(t, m.topics, m.value)
      BY <1>7 DEF OnData
    <3> QED BY <1>2, <2>1, <3>1, DispatchType DEF dataVars, TypeInv
  <2> QED BY <1>1, <1>2, <1>3, <1>7, <2>2 DEF OnData, pollingVars, electionVars,
                                              TypeInv, PollTypes, Listened
<1>8. CASE m.kind = "topic-sync" /\ OnTopicSync(t, m, c)
  <2>1. m.topics \in Seq(Topic)
    BY <1>1, <1>8, KindOfMessage
  <2>2. PollTypes'
    <3>1. UNCHANGED pollingVars \/ P!SubscribeMore(t, m.topics)
      BY <1>8 DEF OnTopicSync
    <3> QED BY <1>2, <1>3, <2>1, <3>1, SubscribeMoreType DEF TypeInv, PollTypes, pollingVars
  <2> QED BY <1>1, <1>2, <1>3, <1>8, <2>2 DEF OnTopicSync, electionVars, dataVars,
                                              TypeInv, Listened
<1> QED BY <1>4, <1>5, <1>6, <1>7, <1>8

LEMMA TypeGone ==
  ASSUME TypeInv, NEW t \in Tab, NEW c \in Channels, Gone(t, c)
  PROVE  TypeInv'
<1>1. UNCHANGED version /\ PollTypes'
  BY GoneType DEF Gone, TypeInv
<1>2. chan' \in Channels
  BY DEF Gone, Channels
<1>3. << >> \in Listened
  BY DEF Listened, IsInjective
<1>4. /\ snapshot' \in [Tab -> [Topic -> 0 .. version]]
      /\ shown' \in [Tab -> [Topic -> 0 .. version]]
      /\ kept' \in [Tab -> SUBSET Topic]
  BY DEF Gone, TypeInv
<1> HIDE DEF Listened
<1>5. /\ life' \in [Tab -> {"new", "open", "gone"}] /\ listeners' \in [Tab -> Listened]
      /\ leader' \in [Tab -> BOOLEAN] /\ watchdog' \in [Tab -> BOOLEAN]
  BY <1>3 DEF Gone, TypeInv
<1> QED BY <1>1, <1>2, <1>4, <1>5, SameVersion DEF TypeInv, Listened

LEMMA TypeDestroy ==
  ASSUME TypeInv, NEW t \in Tab, Destroy(t)
  PROVE  TypeInv'
<1>1. (IF leader[t] THEN Post(chan, t, Abdicate) ELSE chan) \in Channels
  BY MessageType, PostType DEF TypeInv
<1> QED BY <1>1, TypeGone DEF Destroy

LEMMA TypeCrash ==
  ASSUME TypeInv, NEW t \in Tab, Crash(t)
  PROVE  TypeInv'
BY TypeGone DEF Crash, TypeInv

LEMMA TypeSubscribe ==
  ASSUME TypeInv, NEW t \in Tab, NEW k \in Topic, Subscribe(t, k)
  PROVE  TypeInv'
<1>1. UNCHANGED << electionVars, dataVars, life, version >>
  BY DEF Subscribe
<1>2. listeners' \in [Tab -> Listened]
  BY AppendListened DEF Subscribe, AddListener, TypeInv
<1>3. PollTypes'
  <2>1. UNCHANGED pollingVars \/ P!SubscribeMore(t, << k >>)
    BY DEF Subscribe
  <2>2. << k >> \in Seq(Topic)
    OBVIOUS
  <2> QED BY <1>1, <2>1, <2>2, SubscribeMoreType, SameVersion DEF TypeInv, PollTypes, pollingVars
<1>4. chan' \in Channels
  <2>1. TopicSync(listeners'[t]) \in Message
    BY <1>2, MessageType
  <2> QED BY <2>1, PostType DEF Subscribe, TypeInv
<1> QED BY <1>1, <1>2, <1>3, <1>4, SameVersion DEF electionVars, dataVars, TypeInv, Listened

LEMMA TypeUnsubscribe ==
  ASSUME TypeInv, NEW t \in Tab, NEW k \in Topic, Unsubscribe(t, k)
  PROVE  TypeInv'
<1>1. UNCHANGED << electionVars, snapshot, life, chan, version >>
  BY DEF Unsubscribe
<1>2. listeners' \in [Tab -> Listened]
  BY RemoveListened DEF Unsubscribe, TypeInv
<1>3. PollTypes'
  BY <1>1, UnsubscribeType DEF Unsubscribe, TypeInv
<1>4. shown' \in [Tab -> [Topic -> 0 .. version]]
  BY DEF Unsubscribe, TypeInv
<1>5. kept' \in [Tab -> SUBSET Topic]
  BY DEF Unsubscribe, TypeInv
<1> QED BY <1>1, <1>2, <1>3, <1>4, <1>5, SameVersion DEF electionVars, TypeInv, Listened

LEMMA TypeRefresh ==
  ASSUME TypeInv, NEW t \in Tab, Refresh(t)
  PROVE  TypeInv'
<1>1. UNCHANGED << electionVars, dataVars, life, listeners, version >>
  BY DEF Refresh
<1>2. PollTypes'
  <2>1. UNCHANGED pollingVars \/ P!Refresh(t)
    BY DEF Refresh
  <2> QED BY <1>1, <2>1, PollingType, SameVersion DEF TypeInv, PollTypes, pollingVars
<1>3. chan' \in Channels
  <2>1. TopicSync(listeners[t]) \in Message
    BY MessageType DEF TypeInv
  <2> QED BY <2>1, PostType DEF Refresh, TypeInv
<1> QED BY <1>1, <1>2, <1>3, SameVersion DEF electionVars, dataVars, TypeInv, Listened

\* Steps of the polling client alone.
LEMMA TypePolling ==
  ASSUME TypeInv, NEW t \in Tab,
         \/ Timer(t) \/ Visibility(t)
         \/ \E f \in P!Fetches(t) : Answer(t, f) \/ Fail(t, f)
  PROVE  TypeInv'
<1>1. UNCHANGED << electionVars, dataVars, life, listeners, chan, version >>
  BY DEF Timer, Visibility, Answer, Fail, counts
<1>2. PollTypes'
  <2>1. CASE Timer(t) \/ Visibility(t)
    BY <1>1, <2>1, PollingType DEF Timer, Visibility, TypeInv
  <2>2. ASSUME NEW f \in P!Fetches(t), Answer(t, f) PROVE PollTypes'
    BY <1>1, <2>2, AnswerType DEF Answer
  <2>3. ASSUME NEW f \in P!Fetches(t), Fail(t, f) PROVE PollTypes'
    BY <1>1, <2>3, EndType DEF Fail, TypeInv
  <2> QED BY <2>1, <2>2, <2>3
<1> QED BY <1>1, <1>2, SameVersion DEF electionVars, dataVars, TypeInv, Listened

LEMMA TypeArrive ==
  ASSUME TypeInv, NEW t \in Tab, NEW f \in P!Fetches(t), Arrive(t, f)
  PROVE  TypeInv'
<1>1. UNCHANGED << electionVars, life, listeners, version >>
  BY DEF Arrive
<1>2. f \in Dated /\ f.topics \in SUBSET Topic /\ f.value \in 1 .. version
  BY DEF Arrive, P!Fetches, TypeInv, PollTypes, Dated
<1>3. PollTypes'
  BY <1>1, EndType DEF Arrive, TypeInv
<1>4. chan' \in Channels
  BY <1>2, MessageType, PostType DEF Arrive, TypeInv
<1>5. /\ snapshot' \in [Tab -> [Topic -> 0 .. version']]
      /\ shown' \in [Tab -> [Topic -> 0 .. version']]
      /\ kept' \in [Tab -> SUBSET Topic]
  BY <1>1, <1>2, DispatchType DEF Arrive
<1> QED BY <1>1, <1>3, <1>4, <1>5, SameVersion DEF electionVars, TypeInv, Listened

\* What was sent before a change of the data is as good as it was.
LEMMA TypeChange ==
  ASSUME TypeInv, Change
  PROVE  TypeInv'
<1>1. /\ version \in Nat /\ version' \in Nat \ {0} /\ 1 .. version \subseteq 1 .. version'
      /\ 0 .. version \subseteq 0 .. version'
  BY DEF TypeInv, Change
<1>2. Dated \subseteq Dated'
  BY <1>1 DEF Dated
<1>3. Message \subseteq Message'
  BY <1>1 DEF Message, Data, TopicSync, Heartbeat, Abdicate
<1>4. Channels \subseteq Channels'
  <2>1. \A l \in Seq(Message) : l \in Seq(Message')
    BY <1>3
  <2> QED BY <2>1 DEF Channels
<1>5. PollTypes'
  BY <1>2 DEF Change, pollingVars, TypeInv, PollTypes
<1>6. chan' \in Channels'
  BY <1>4 DEF Change, TypeInv
<1>7. /\ snapshot' \in [Tab -> [Topic -> 0 .. version']]
      /\ shown' \in [Tab -> [Topic -> 0 .. version']]
      /\ kept' \in [Tab -> SUBSET Topic]
  BY <1>1 DEF Change, TypeInv, dataVars
<1> QED BY <1>1, <1>5, <1>6, <1>7 DEF Change, electionVars, TypeInv, Listened

LEMMA TypeStep == TypeInv /\ [Next]_vars => TypeInv'
<1> SUFFICES ASSUME TypeInv, [Next]_vars PROVE TypeInv'
  OBVIOUS
<1>1. ASSUME NEW t \in Tab, Create(t) PROVE TypeInv'
  BY <1>1, TypeCreate
<1>2. ASSUME NEW t \in Tab, SendHeartbeat(t) PROVE TypeInv'
  BY <1>2, TypeSendHeartbeat
<1>3. ASSUME NEW t \in Tab, Promote(t) PROVE TypeInv'
  BY <1>3, TypePromote
<1>4. ASSUME NEW t \in Tab, Destroy(t) \/ Crash(t) PROVE TypeInv'
  BY <1>4, TypeDestroy, TypeCrash
<1>5. ASSUME NEW s \in Tab, NEW t \in Tab, Receive(s, t) PROVE TypeInv'
  BY <1>5, TypeReceive
<1>6. ASSUME NEW t \in Tab, NEW k \in Topic, Subscribe(t, k) \/ Unsubscribe(t, k) PROVE TypeInv'
  BY <1>6, TypeSubscribe, TypeUnsubscribe
<1>7. ASSUME NEW t \in Tab, Refresh(t) PROVE TypeInv'
  BY <1>7, TypeRefresh
<1>8. ASSUME NEW t \in Tab, \/ Timer(t) \/ Visibility(t)
                            \/ \E f \in P!Fetches(t) : Answer(t, f) \/ Fail(t, f)
      PROVE  TypeInv'
  BY <1>8, TypePolling
<1>9. ASSUME NEW t \in Tab, NEW f \in P!Fetches(t), Arrive(t, f) PROVE TypeInv'
  BY <1>9, TypeArrive
<1>10. CASE Change
  BY <1>10, TypeChange
<1>11. CASE UNCHANGED vars
  BY <1>11, SameVersion DEF vars, pollingVars, electionVars, dataVars, TypeInv, PollTypes, Listened
<1> QED BY <1>1, <1>2, <1>3, <1>4, <1>5, <1>6, <1>7, <1>8, <1>9, <1>10, <1>11 DEF Next

LEMMA TypeInvIsTypeOK == TypeInv => TypeOK
<1> SUFFICES ASSUME TypeInv PROVE TypeOK
  OBVIOUS
<1>1. P!TypeOK
  BY DatedIsFetch DEF TypeInv, PollTypes, P!TypeOK
<1>2. \A t \in Tab : ToSet(listeners[t]) \subseteq Topic /\ IsInjective(listeners[t])
  BY DEF TypeInv, Listened, ToSet
<1>3. \A s, r \in Tab : ToSet(chan[s][r]) \subseteq Message
  BY DEF TypeInv, Channels, ToSet
<1> QED BY <1>1, <1>2, <1>3 DEF TypeInv, TypeOK

\* The state is well typed; what fetches, messages and listeners hold is a
\* version the server has had, and no topic is listened to twice.
THEOREM TypeCorrect == Spec => []TypeOK
<1>1. Init => TypeInv
  BY TypeInit
<1>2. TypeInv /\ [Next]_vars => TypeInv'
  BY TypeStep
<1> QED BY <1>1, <1>2, TypeInvIsTypeOK, PTL DEF Spec

(***************************************************************************)
(* The election.                                                           *)
(***************************************************************************)

\* The state that the election keeps.
electionState == << life, leader, watchdog, listeners >>

LEMMA SameElection ==
  ASSUME ClosedIsIdle, FollowersWatch, UNCHANGED electionState
  PROVE  ClosedIsIdle' /\ FollowersWatch'
BY DEF ClosedIsIdle, FollowersWatch, Open, electionState

LEMMA ElectionInit == Init => ElectionInv
BY TypeInit DEF Init, ElectionInv, ClosedIsIdle, FollowersWatch, Open

\* An open tab that becomes the leader, or one that opens as leader.
LEMMA ElectionBecome ==
  ASSUME ElectionInv, NEW t \in Tab, NEW c, BecomeLeader(t, c), UNCHANGED listeners,
         life' = [life EXCEPT ![t] = "open"]
  PROVE  ClosedIsIdle' /\ FollowersWatch'
BY DEF ElectionInv, TypeInv, BecomeLeader, ClosedIsIdle, FollowersWatch, Open

LEMMA ElectionReceive ==
  ASSUME ElectionInv, NEW s \in Tab, NEW t \in Tab, Receive(s, t)
  PROVE  ClosedIsIdle' /\ FollowersWatch'
<1> DEFINE m == Head(chan[s][t])
           c == [chan EXCEPT ![s][t] = Tail(@)]
<1>1. t \in Open /\ UNCHANGED << life, listeners >>
  BY DEF Receive
<1>2. life' = [life EXCEPT ![t] = "open"]
  BY <1>1 DEF Open, ElectionInv, TypeInv
<1>3. OnHeartbeat(s, t, c) \/ OnAbdicate(t, c) \/ OnData(t, m, c) \/ OnTopicSync(t, m, c)
  BY DEF Receive
<1> HIDE DEF m, c
<1>4. CASE OnHeartbeat(s, t, c)
  \* A leader stays one with its watchdog off, or resigns with it armed.
  <2>1. /\ leader \in [Tab -> BOOLEAN] /\ watchdog \in [Tab -> BOOLEAN]
        /\ ClosedIsIdle /\ FollowersWatch
    BY DEF ElectionInv, TypeInv
  <2>2. /\ leader' \in [Tab -> BOOLEAN] /\ watchdog' \in [Tab -> BOOLEAN]
        /\ watchdog'[t] = ~leader'[t]
        /\ \A u \in Tab \ {t} : leader'[u] = leader[u] /\ watchdog'[u] = watchdog[u]
    <3>1. CASE leader[t] /\ s < t
      BY <1>4, <2>1, <3>1 DEF OnHeartbeat, Resign
    <3>2. CASE ~(leader[t] /\ s < t)
      BY <1>4, <2>1, <3>2 DEF OnHeartbeat
    <3> QED BY <3>1, <3>2
  <2>3. Open' = Open /\ life[t] = "open"
    BY <1>1 DEF Open
  <2>4. FollowersWatch'
    <3> SUFFICES ASSUME NEW u \in Open PROVE watchdog'[u] = ~leader'[u]
      BY <2>3 DEF FollowersWatch
    <3>1. u # t => watchdog[u] = ~leader[u]
      BY <2>1 DEF FollowersWatch
    <3> QED BY <2>2, <3>1 DEF Open
  <2>5. ClosedIsIdle'
    BY <1>1, <2>1, <2>2, <2>3 DEF ClosedIsIdle
  <2> QED BY <2>4, <2>5
<1>5. CASE OnAbdicate(t, c)
  <2>1. CASE leader[t]
    BY <1>1, <1>5, <2>1, SameElection DEF OnAbdicate, electionVars, electionState, ElectionInv
  <2>2. CASE ~leader[t]
    BY <1>1, <1>2, <1>5, <2>2, ElectionBecome DEF OnAbdicate
  <2> QED BY <2>1, <2>2
<1>6. CASE OnData(t, m, c) \/ OnTopicSync(t, m, c)
  BY <1>1, <1>6, SameElection DEF OnData, OnTopicSync, electionVars, electionState, ElectionInv
<1> QED BY <1>3, <1>4, <1>5, <1>6

LEMMA ElectionGone ==
  ASSUME ElectionInv, NEW t \in Tab, NEW c, Gone(t, c)
  PROVE  ClosedIsIdle' /\ FollowersWatch'
BY DEF Gone, ElectionInv, TypeInv, ClosedIsIdle, FollowersWatch, Open

\* Only open tabs have listeners, before and after.
LEMMA ElectionListeners ==
  ASSUME ElectionInv, NEW t \in Tab, NEW k \in Topic, Subscribe(t, k) \/ Unsubscribe(t, k)
  PROVE  ClosedIsIdle' /\ FollowersWatch'
<1>1. UNCHANGED << life, leader, watchdog >>
  BY DEF Subscribe, Unsubscribe, electionVars
<1>2. t \in Open
  BY DEF Subscribe, Unsubscribe, ElectionInv, ClosedIsIdle, Open
<1>3. \A u \in Tab \ {t} : listeners'[u] = listeners[u]
  BY DEF Subscribe, Unsubscribe, AddListener, ElectionInv, TypeInv
<1> QED BY <1>1, <1>2, <1>3 DEF ElectionInv, ClosedIsIdle, FollowersWatch, Open

LEMMA ElectionStep == ElectionInv /\ [Next]_vars => ElectionInv'
<1> SUFFICES ASSUME ElectionInv, [Next]_vars PROVE ClosedIsIdle' /\ FollowersWatch'
  BY TypeStep DEF ElectionInv
<1>1. ASSUME NEW t \in Tab, Create(t) PROVE ClosedIsIdle' /\ FollowersWatch'
  BY <1>1, ElectionBecome DEF Create
<1>2. ASSUME NEW t \in Tab, Promote(t) PROVE ClosedIsIdle' /\ FollowersWatch'
  <2>1. life' = [life EXCEPT ![t] = "open"]
    BY <1>2 DEF Promote, Open, ElectionInv, TypeInv
  <2> QED BY <1>2, <2>1, ElectionBecome DEF Promote
<1>3. ASSUME NEW s \in Tab, NEW t \in Tab, Receive(s, t) PROVE ClosedIsIdle' /\ FollowersWatch'
  BY <1>3, ElectionReceive
<1>4. ASSUME NEW t \in Tab, Destroy(t) \/ Crash(t) PROVE ClosedIsIdle' /\ FollowersWatch'
  BY <1>4, ElectionGone DEF Destroy, Crash
<1>5. ASSUME NEW t \in Tab, NEW k \in Topic, Subscribe(t, k) \/ Unsubscribe(t, k)
      PROVE  ClosedIsIdle' /\ FollowersWatch'
  BY <1>5, ElectionListeners
<1>6. ASSUME NEW t \in Tab, SendHeartbeat(t) \/ Refresh(t) \/ Timer(t) \/ Visibility(t)
      PROVE  ClosedIsIdle' /\ FollowersWatch'
  BY <1>6, SameElection DEF SendHeartbeat, Refresh, Timer, Visibility, electionVars,
                            electionState, ElectionInv
<1>7. ASSUME NEW t \in Tab, NEW f \in P!Fetches(t), Answer(t, f) \/ Arrive(t, f) \/ Fail(t, f)
      PROVE  ClosedIsIdle' /\ FollowersWatch'
  BY <1>7, SameElection DEF Answer, Arrive, Fail, electionVars, electionState, ElectionInv
<1>8. CASE Change \/ UNCHANGED vars
  BY <1>8, SameElection DEF Change, vars, electionVars, electionState, ElectionInv
<1> QED BY <1>1, <1>2, <1>3, <1>4, <1>5, <1>6, <1>7, <1>8 DEF Next

\* No interleaving of heartbeats, abdications and watchdogs leaves an open
\* tab that neither leads nor watches for the loss of its leader.
THEOREM WatchCorrect == Spec => []FollowersWatch
<1>1. Init => ElectionInv
  BY ElectionInit
<1>2. ElectionInv /\ [Next]_vars => ElectionInv'
  BY ElectionStep
<1>3. ElectionInv => FollowersWatch
  BY DEF ElectionInv
<1> QED BY <1>1, <1>2, <1>3, PTL DEF Spec

(***************************************************************************)
(* Polling.  The invariants of all tabs, taken apart by tab.               *)
(***************************************************************************)

PollsAsItShould(t) ==
  /\ leader[t] => ToSet(listeners[t]) \subseteq subs[t]
  /\ ~leader[t] => subs[t] = {}
  /\ subs[t] = {} => pending[t] = NoFetch /\ ~timer[t]
  /\ subs[t] # {} /\ ~hidden[t] => pending[t] # NoFetch \/ timer[t]

LEMMA PollingByTab ==
  ElectionInv => (OnlyLeadersPoll /\ PollsWhileVisible <=> \A t \in Tab : PollsAsItShould(t))
<1> SUFFICES ASSUME ElectionInv
             PROVE  OnlyLeadersPoll /\ PollsWhileVisible <=> \A t \in Tab : PollsAsItShould(t)
  OBVIOUS
<1>1. \A t \in Tab : t \in Leaders <=> leader[t]
  BY DEF ElectionInv, ClosedIsIdle, Leaders, Open
<1> QED BY <1>1 DEF OnlyLeadersPoll, PollsWhileVisible, P!PollsWhileVisible, P!HasClient,
                    PollsAsItShould

\* What the invariants say about tab t depends on.
stateOf(t) == << leader[t], listeners[t], subs[t], pending[t], timer[t], hidden[t] >>

LEMMA SamePolling ==
  ASSUME NEW t \in Tab, PollsAsItShould(t), UNCHANGED stateOf(t)
  PROVE  PollsAsItShould(t)'
BY DEF PollsAsItShould, stateOf

\* After a poll a fetch is under way.
LEMMA PollFetches ==
  ASSUME TypeInv, NEW t \in Tab, NEW S \in SUBSET Topic, P!Poll(t, S)
  PROVE  /\ pending'[t] # NoFetch
         /\ \A u \in Tab \ {t} : pending'[u] = pending[u]
<1>1. [topics |-> S, value |-> P!Waiting] \in Dated
  BY DEF Dated
<1>2. NoFetch \notin Dated
  BY DatedIsFetch DEF TypeInv
<1> QED BY <1>1, <1>2 DEF P!Poll, TypeInv, PollTypes

\* A client that is subscribed to something, new or not, fetches.
LEMMA SubscribeMoreFetches ==
  ASSUME TypeInv, NEW t \in Tab, NEW l \in Seq(Topic), P!SubscribeMore(t, l)
  PROVE  /\ subs'[t] = subs[t] \cup ToSet(l)
         /\ subs'[t] # {} => pending'[t] # NoFetch
         /\ subs'[t] = {} => pending'[t] = pending[t]
         /\ \A u \in Tab \ {t} : subs'[u] = subs[u] /\ pending'[u] = pending[u]
         /\ UNCHANGED << timer, hidden >>
<1> DEFINE new == {i \in DOMAIN l : l[i] \notin subs[t]}
           first == {j \in new : \A h \in new : j <= h}
           fetched == subs[t] \cup {l[i] : i \in first}
           less == {ss \in Nat \X Nat : ss[1] < ss[2]}
<1>1. subs[t] \in SUBSET Topic /\ P!Range(l) = ToSet(l) /\ ToSet(l) \in SUBSET Topic
  BY DEF TypeInv, PollTypes, P!Range, ToSet
<1>2. subs' = [subs EXCEPT ![t] = subs[t] \cup ToSet(l)] /\ UNCHANGED << timer, hidden >>
  BY <1>1 DEF P!SubscribeMore
<1>3. new # {} => first # {}
  <2> SUFFICES ASSUME new # {} PROVE first # {}
    OBVIOUS
  <2>1. new \subseteq Nat
    OBVIOUS
  <2>2. IsWellFoundedOn(less, Nat)
    BY NatLessThanWellFounded DEF OpToRel
  <2>3. PICK j \in new : \A h \in new : << h, j >> \notin less
    <3> HIDE DEF new, less
    <3> QED BY <2>1, <2>2, WFMin
  <2>4. ASSUME NEW h \in new PROVE j <= h
    <3>1. h \in Nat /\ j \in Nat /\ << h, j >> \notin less
      BY <2>1, <2>3
    <3>2. ~(h < j)
      BY <3>1
    <3> QED BY <3>1, <3>2
  <2> QED BY <2>4
<1>4. subs[t] \cup ToSet(l) # {} => fetched # {}
  BY <1>3 DEF ToSet
<1>5. fetched \in SUBSET Topic
  BY <1>1
<1>6. IF fetched = {} THEN UNCHANGED pending ELSE P!Poll(t, fetched)
  BY DEF P!SubscribeMore
<1>7. fetched # {} => subs[t] \cup ToSet(l) # {}
  BY DEF ToSet
<1> HIDE DEF fetched, new, first
<1>8. /\ fetched # {} => pending'[t] # NoFetch
      /\ fetched = {} => pending'[t] = pending[t]
      /\ \A u \in Tab \ {t} : pending'[u] = pending[u]
  BY <1>5, <1>6, PollFetches
<1>9. subs'[t] = subs[t] \cup ToSet(l) /\ \A u \in Tab \ {t} : subs'[u] = subs[u]
  BY <1>2 DEF TypeInv, PollTypes
<1> QED BY <1>2, <1>4, <1>7, <1>8, <1>9

LEMMA PollingInit == Init => PollingInv
<1> SUFFICES ASSUME Init PROVE PollingInv
  OBVIOUS
<1>1. \A t \in Tab : PollsAsItShould(t)
  BY DEF Init, P!Init, PollsAsItShould
<1> QED BY <1>1, ElectionInit, PollingByTab DEF PollingInv

LEMMA PollingBecome ==
  ASSUME PollingInv, NEW t \in Tab, NEW c, BecomeLeader(t, c), UNCHANGED listeners
  PROVE  \A u \in Tab : PollsAsItShould(u)'
<1>1. /\ listeners[t] \in Seq(Topic) /\ leader \in [Tab -> BOOLEAN]
      /\ \A u \in Tab : PollsAsItShould(u)
  BY PollingByTab DEF PollingInv, ElectionInv, TypeInv, Listened
<1>2. /\ P!SubscribeMore(t, listeners[t])
      /\ leader'[t] /\ \A u \in Tab \ {t} : leader'[u] = leader[u]
  BY <1>1 DEF BecomeLeader
<1>3. PollsAsItShould(t)'
  BY <1>1, <1>2, SubscribeMoreFetches DEF PollsAsItShould, PollingInv, ElectionInv
<1>4. ASSUME NEW u \in Tab \ {t} PROVE UNCHANGED stateOf(u)
  BY <1>1, <1>2, SubscribeMoreFetches DEF stateOf, PollingInv, ElectionInv
<1> QED BY <1>1, <1>3, <1>4, SamePolling

\* A leader that resigns stops its client; nothing it had is left behind.
LEMMA PollingResign ==
  ASSUME PollingInv, NEW t \in Tab, Resign(t), UNCHANGED listeners
  PROVE  \A u \in Tab : PollsAsItShould(u)'
<1>1. \A u \in Tab : PollsAsItShould(u)
  BY PollingByTab DEF PollingInv
<1>2. PollsAsItShould(t)'
  BY DEF Resign, P!Stop, PollsAsItShould, PollingInv, ElectionInv, TypeInv, PollTypes
<1>3. ASSUME NEW u \in Tab \ {t} PROVE UNCHANGED stateOf(u)
  BY DEF Resign, P!Stop, stateOf, PollingInv, ElectionInv, TypeInv, PollTypes
<1> QED BY <1>1, <1>2, <1>3, SamePolling

\* More topics for a leader.
LEMMA PollingMore ==
  ASSUME PollingInv, NEW t \in Tab, leader[t], UNCHANGED leader,
         NEW l \in Seq(Topic), P!SubscribeMore(t, l),
         ToSet(listeners'[t]) \subseteq ToSet(listeners[t]) \cup ToSet(l),
         \A u \in Tab \ {t} : listeners'[u] = listeners[u]
  PROVE  \A u \in Tab : PollsAsItShould(u)'
<1>1. \A u \in Tab : PollsAsItShould(u)
  BY PollingByTab DEF PollingInv
<1>2. PollsAsItShould(t)'
  BY <1>1, SubscribeMoreFetches DEF PollsAsItShould, PollingInv, ElectionInv
<1>3. ASSUME NEW u \in Tab \ {t} PROVE UNCHANGED stateOf(u)
  BY SubscribeMoreFetches DEF stateOf, PollingInv, ElectionInv
<1> QED BY <1>1, <1>2, <1>3, SamePolling

LEMMA PollingReceive ==
  ASSUME PollingInv, NEW s \in Tab, NEW t \in Tab, Receive(s, t)
  PROVE  \A u \in Tab : PollsAsItShould(u)'
<1> DEFINE m == Head(chan[s][t])
           c == [chan EXCEPT ![s][t] = Tail(@)]
<1>1. UNCHANGED listeners /\ \A u \in Tab : PollsAsItShould(u)
  BY PollingByTab DEF Receive, PollingInv
<1>2. m \in Message
  BY HeadType DEF Receive, PollingInv, ElectionInv
<1>3. \/ OnHeartbeat(s, t, c) \/ OnAbdicate(t, c) \/ OnData(t, m, c)
      \/ m.kind = "topic-sync" /\ OnTopicSync(t, m, c)
  BY DEF Receive
<1> HIDE DEF m, c
<1>4. CASE UNCHANGED << pollingVars, leader >>
  <2>1. \A u \in Tab : UNCHANGED stateOf(u)
    BY <1>1, <1>4 DEF pollingVars, stateOf
  <2> QED BY <1>1, <2>1, SamePolling
<1>5. CASE OnHeartbeat(s, t, c)
  BY <1>1, <1>4, <1>5, PollingResign DEF OnHeartbeat
<1>6. CASE OnAbdicate(t, c)
  BY <1>1, <1>4, <1>6, PollingBecome DEF OnAbdicate, electionVars
<1>7. CASE OnData(t, m, c)
  BY <1>4, <1>7 DEF OnData, electionVars
<1>8. CASE m.kind = "topic-sync" /\ OnTopicSync(t, m, c)
  <2>1. m.topics \in Seq(Topic) /\ UNCHANGED leader
    BY <1>2, <1>8, KindOfMessage DEF OnTopicSync, electionVars
  <2>2. CASE leader[t]
    <3>1. P!SubscribeMore(t, m.topics)
      BY <1>8, <2>2 DEF OnTopicSync
    <3>2. ToSet(listeners'[t]) \subseteq ToSet(listeners[t]) \cup ToSet(m.topics)
      BY <1>1
    <3> QED BY <1>1, <2>1, <2>2, <3>1, <3>2, PollingMore
  <2>3. CASE ~leader[t]
    BY <1>4, <1>8, <2>1, <2>3 DEF OnTopicSync
  <2> QED BY <2>2, <2>3
<1> QED BY <1>3, <1>5, <1>6, <1>7, <1>8

LEMMA PollingGone ==
  ASSUME PollingInv, NEW t \in Tab, NEW c, Gone(t, c)
  PROVE  \A u \in Tab : PollsAsItShould(u)'
<1>1. \A u \in Tab : PollsAsItShould(u)
  BY PollingByTab DEF PollingInv
<1>2. PollsAsItShould(t)'
  BY DEF Gone, P!Gone, PollsAsItShould, PollingInv, ElectionInv, TypeInv, PollTypes
<1>3. ASSUME NEW u \in Tab \ {t} PROVE UNCHANGED stateOf(u)
  BY DEF Gone, P!Gone, stateOf, PollingInv, ElectionInv, TypeInv, PollTypes
<1> QED BY <1>1, <1>2, <1>3, SamePolling

LEMMA PollingSubscribe ==
  ASSUME PollingInv, NEW t \in Tab, NEW k \in Topic, Subscribe(t, k)
  PROVE  \A u \in Tab : PollsAsItShould(u)'
<1>1. UNCHANGED leader /\ leader \in [Tab -> BOOLEAN] /\ \A u \in Tab : PollsAsItShould(u)
  BY PollingByTab DEF Subscribe, electionVars, PollingInv, ElectionInv, TypeInv
<1>2. /\ ToSet(listeners'[t]) \subseteq ToSet(listeners[t]) \cup {k}
      /\ \A u \in Tab \ {t} : listeners'[u] = listeners[u]
  BY AppendListened DEF Subscribe, AddListener, PollingInv, ElectionInv, TypeInv
<1>3. << k >> \in Seq(Topic) /\ ToSet(<< k >>) = {k}
  BY DEF ToSet
<1>4. CASE leader[t]
  BY <1>1, <1>2, <1>3, <1>4, PollingMore DEF Subscribe
<1>5. CASE ~leader[t]
  <2>1. UNCHANGED pollingVars
    BY <1>5 DEF Subscribe
  <2>2. PollsAsItShould(t)'
    BY <1>1, <1>5, <2>1 DEF pollingVars, PollsAsItShould
  <2>3. ASSUME NEW u \in Tab \ {t} PROVE UNCHANGED stateOf(u)
    BY <1>1, <1>2, <2>1 DEF pollingVars, stateOf
  <2> QED BY <1>1, <2>2, <2>3, SamePolling
<1> QED BY <1>4, <1>5

\* The leader drops the topic together with its last listener.
LEMMA PollingUnsubscribe ==
  ASSUME PollingInv, NEW t \in Tab, NEW k \in Topic, Unsubscribe(t, k)
  PROVE  \A u \in Tab : PollsAsItShould(u)'
<1>1. UNCHANGED leader /\ \A u \in Tab : PollsAsItShould(u)
  BY PollingByTab DEF Unsubscribe, electionVars, PollingInv
<1>2. /\ ToSet(listeners'[t]) = ToSet(listeners[t]) \ {k}
      /\ \A u \in Tab \ {t} : listeners'[u] = listeners[u]
  BY RemoveListened DEF Unsubscribe, PollingInv, ElectionInv, TypeInv
<1>3. PollTypes
  BY DEF PollingInv, ElectionInv, TypeInv
<1>4. ASSUME NEW u \in Tab \ {t} PROVE UNCHANGED stateOf(u)
  BY <1>1, <1>2, <1>3 DEF Unsubscribe, P!Unsubscribe, P!Stop, stateOf, PollTypes
<1>5. PollsAsItShould(t)'
  <2>1. CASE subs[t] = {k}
    <3>1. subs'[t] = {} /\ pending'[t] = NoFetch /\ timer'[t] = FALSE
      BY <1>3, <2>1 DEF Unsubscribe, P!Unsubscribe, P!Stop, PollTypes
    <3> QED BY <1>1, <1>2, <2>1, <3>1 DEF PollsAsItShould
  <2>2. CASE subs[t] # {k}
    <3>1. subs'[t] = subs[t] \ {k} /\ UNCHANGED << timer, pending, hidden >>
      BY <1>3, <2>2 DEF Unsubscribe, P!Unsubscribe, PollTypes
    <3> QED BY <1>1, <1>2, <2>2, <3>1 DEF PollsAsItShould
  <2> QED BY <2>1, <2>2
<1> QED BY <1>1, <1>4, <1>5, SamePolling

\* refresh, the timer and visibilitychange.
LEMMA PollingClient ==
  ASSUME PollingInv, NEW t \in Tab, UNCHANGED << leader, listeners >>,
         P!Refresh(t) \/ P!Timer(t) \/ P!Hide(t) \/ P!Show(t)
  PROVE  \A u \in Tab : PollsAsItShould(u)'
<1>1. PollTypes /\ TypeInv /\ subs[t] \in SUBSET Topic /\ \A u \in Tab : PollsAsItShould(u)
  BY PollingByTab DEF PollingInv, ElectionInv, TypeInv, PollTypes
<1>2. /\ UNCHANGED subs
      /\ pending' = pending \/ P!Poll(t, subs[t])
      /\ subs[t] # {} /\ ~P!Hide(t) => P!Poll(t, subs[t])
      /\ subs[t] = {} => pending' = pending
  BY <1>1 DEF P!Refresh, P!Timer, P!Hide, P!Show, P!HasClient, PollsAsItShould
<1>3. /\ subs[t] # {} /\ ~P!Hide(t) => pending'[t] # NoFetch
      /\ \A u \in Tab \ {t} : pending'[u] = pending[u]
  BY <1>1, <1>2, PollFetches
<1>4. PollsAsItShould(t)'
  <2>1. CASE P!Hide(t)
    BY <1>1, <2>1 DEF P!Hide, PollsAsItShould, PollTypes
  <2>2. CASE ~P!Hide(t)
    <3>1. timer'[t] => timer[t]
      BY <1>1, <2>2 DEF P!Refresh, P!Timer, P!Show, PollTypes
    <3> QED BY <1>1, <1>2, <1>3, <2>2, <3>1 DEF PollsAsItShould
  <2> QED BY <2>1, <2>2
<1>5. ASSUME NEW u \in Tab \ {t} PROVE UNCHANGED stateOf(u)
  <2>1. timer'[u] = timer[u] /\ hidden'[u] = hidden[u]
    BY <1>1 DEF P!Refresh, P!Timer, P!Hide, P!Show, PollTypes
  <2> QED BY <1>2, <1>3, <2>1 DEF stateOf
<1> QED BY <1>1, <1>4, <1>5, SamePolling

\* A fetch of the client is answered, or ends with the next poll scheduled;
\* one of a client that was stopped touches no client.
LEMMA PollingFetch ==
  ASSUME PollingInv, NEW t \in Tab, NEW f \in P!Fetches(t), UNCHANGED << leader, listeners >>,
         P!End(t, f) \/ \E S : P!Answer(t, f, S, version)
  PROVE  \A u \in Tab : PollsAsItShould(u)'
<1>1. PollTypes /\ \A u \in Tab : PollsAsItShould(u)
  BY PollingByTab DEF PollingInv, ElectionInv, TypeInv
<1>2. NoFetch \notin Dated /\ f \in Dated
  BY <1>1, DatedIsFetch DEF PollingInv, ElectionInv, TypeInv, PollTypes, P!Fetches
<1>3. UNCHANGED << subs, hidden >> /\ \A u \in Tab \ {t} : UNCHANGED << pending[u], timer[u] >>
  BY <1>1 DEF P!End, P!Answer, PollTypes
<1>4. \/ UNCHANGED << pending[t], timer[t] >>
      \/ pending[t] # NoFetch /\ (pending'[t] # NoFetch \/ timer'[t])
                             /\ (timer'[t] => timer[t] \/ pending[t] # NoFetch)
  <2>1. CASE P!End(t, f)
    BY <1>1, <1>2, <2>1 DEF P!End, PollTypes
  <2>2. ASSUME NEW S, P!Answer(t, f, S, version)
        PROVE  \/ UNCHANGED << pending[t], timer[t] >>
               \/ pending[t] # NoFetch /\ pending'[t] # NoFetch /\ UNCHANGED timer[t]
    <3> DEFINE g == [topics |-> S, value |-> version]
    <3>1. g \in Dated
      BY <1>2, <2>2 DEF P!Answer, Dated, PollingInv, ElectionInv, TypeInv
    <3>2. /\ \/ f = pending[t] /\ pending' = [pending EXCEPT ![t] = g]
             \/ UNCHANGED pending
          /\ UNCHANGED timer
      BY <2>2 DEF P!Answer
    <3> HIDE DEF g
    <3> QED BY <1>1, <1>2, <3>1, <3>2 DEF PollTypes
  <2> QED BY <2>1, <2>2
<1>5. PollsAsItShould(t)'
  BY <1>1, <1>3, <1>4 DEF PollsAsItShould
<1>6. ASSUME NEW u \in Tab \ {t} PROVE UNCHANGED stateOf(u)
  BY <1>3 DEF stateOf
<1> QED BY <1>1, <1>5, <1>6, SamePolling

LEMMA PollingStep == PollingInv /\ [Next]_vars => PollingInv'
<1> SUFFICES ASSUME PollingInv, [Next]_vars PROVE \A u \in Tab : PollsAsItShould(u)'
  <2>1. PollingInv /\ [Next]_vars => ElectionInv'
    BY ElectionStep DEF PollingInv
  <2>2. ASSUME ElectionInv', \A u \in Tab : PollsAsItShould(u)'
        PROVE  OnlyLeadersPoll' /\ PollsWhileVisible'
    <3>1. \A t \in Tab : t \in Leaders' <=> leader'[t]
      BY <2>2 DEF ElectionInv, ClosedIsIdle, Leaders, Open
    <3> QED BY <2>2, <3>1 DEF OnlyLeadersPoll, PollsWhileVisible, P!PollsWhileVisible, P!HasClient,
                              PollsAsItShould
  <2> QED BY <2>1, <2>2 DEF PollingInv
<1>1. CASE UNCHANGED << pollingVars, leader, listeners >>
  <2>1. \A u \in Tab : UNCHANGED stateOf(u)
    BY <1>1 DEF pollingVars, stateOf
  <2> QED BY <2>1, SamePolling, PollingByTab DEF PollingInv
<1>2. ASSUME NEW t \in Tab, Create(t) \/ Promote(t) PROVE \A u \in Tab : PollsAsItShould(u)'
  BY <1>2, PollingBecome DEF Create, Promote
<1>3. ASSUME NEW s \in Tab, NEW t \in Tab, Receive(s, t)
      PROVE  \A u \in Tab : PollsAsItShould(u)'
  BY <1>3, PollingReceive
<1>4. ASSUME NEW t \in Tab, Destroy(t) \/ Crash(t) PROVE \A u \in Tab : PollsAsItShould(u)'
  BY <1>4, PollingGone DEF Destroy, Crash
<1>5. ASSUME NEW t \in Tab, NEW k \in Topic, Subscribe(t, k) \/ Unsubscribe(t, k)
      PROVE  \A u \in Tab : PollsAsItShould(u)'
  BY <1>5, PollingSubscribe, PollingUnsubscribe
<1>6. ASSUME NEW t \in Tab, Refresh(t) \/ Timer(t) \/ Visibility(t)
      PROVE  \A u \in Tab : PollsAsItShould(u)'
  BY <1>1, <1>6, PollingClient DEF Refresh, Timer, Visibility, electionVars
<1>7. ASSUME NEW t \in Tab, NEW f \in P!Fetches(t), Answer(t, f) \/ Arrive(t, f) \/ Fail(t, f)
      PROVE  \A u \in Tab : PollsAsItShould(u)'
  BY <1>7, PollingFetch DEF Answer, Arrive, Fail, electionVars
<1>8. ASSUME NEW t \in Tab, SendHeartbeat(t) PROVE \A u \in Tab : PollsAsItShould(u)'
  BY <1>1, <1>8 DEF SendHeartbeat, electionVars
<1>9. CASE Change \/ UNCHANGED vars
  BY <1>1, <1>9 DEF Change, vars, electionVars
<1> QED BY <1>2, <1>3, <1>4, <1>5, <1>6, <1>7, <1>8, <1>9 DEF Next

\* A tab that resigned or closed has no client left, and the leader asks for
\* all the topics its listeners need.
THEOREM OnlyLeadersPollCorrect == Spec => []OnlyLeadersPoll
<1>1. PollingInv => OnlyLeadersPoll
  BY DEF PollingInv
<1> QED BY <1>1, PollingInit, PollingStep, PTL DEF Spec

\* However fetches end, timers fire and tabs hide and show: the client of a
\* visible tab has a fetch under way or a poll scheduled.
THEOREM PollsWhileVisibleCorrect == Spec => []PollsWhileVisible
<1>1. PollingInv => PollsWhileVisible
  BY DEF PollingInv
<1> QED BY <1>1, PollingInit, PollingStep, PTL DEF Spec
=============================================================================
