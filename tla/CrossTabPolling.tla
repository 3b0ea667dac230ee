-------------------------- MODULE CrossTabPolling --------------------------
(***************************************************************************)
(* createCrossTabPollingManager: of the tabs that have the dashboard open, *)
(* one, the leader, polls the server (PollingManager) and passes the data  *)
(* on to the others over a BroadcastChannel.                               *)
(*                                                                         *)
(* Ids of tabs are numbers: the lower one stays the leader.  The channel   *)
(* delivers the messages of one sender in order; those of two senders can  *)
(* arrive in any order.  A page that is closed does not call destroy.      *)
(***************************************************************************)
EXTENDS Integers, Sequences, FiniteSets, SequencesExt

CONSTANTS
  Tab,         \* tab ids
  Topic,
  NoFetch,
  MaxSubscribes, \* bound: calls of subscribe
  MaxEvents    \* bound: changes of the data, late heartbeats, failed fetches
               \* and resolvers, hidden tabs, calls of refresh

ASSUME CrossTabAssumption ==
  /\ Tab \subseteq Nat /\ IsFiniteSet(Tab)
  /\ IsFiniteSet(Topic)
  /\ {MaxSubscribes, MaxEvents} \subseteq Nat
  /\ NoFetch \notin [topics : SUBSET Topic, value : Int]

VARIABLES
  subs, timer, pending, orphans, hidden,
  life,       \* "new", "open", "gone"
  leader,     \* isLeader; a leader has an inner manager and sends heartbeats
  watchdog,   \* the watchdog timer is armed
  listeners,  \* topics with local listeners, in the order of the Map
  snapshot,   \* version in snapshots, 0 if there is none
  shown,      \* version the listeners of a topic got last, 0 if none; of
              \* several listeners the one that has listened longest
  kept,       \* topics whose snapshot stems from listeners that have left
  chan,       \* chan[s][r]: messages from tab s under way to tab r
  version,    \* of the data on the server
  subscribes, \* how many calls of subscribe there have been
  events      \* how many of the events there have been

pollingVars == << subs, timer, pending, orphans, hidden >>
electionVars == << leader, watchdog >>
dataVars == << snapshot, shown, kept >>
counts == << subscribes, events >>
vars == << pollingVars, electionVars, dataVars, life, listeners, chan, version, counts >>

P == INSTANCE PollingManager

Init ==
  /\ P!Init
  /\ life = [t \in Tab |-> "new"]
  /\ leader = [t \in Tab |-> FALSE]
  /\ watchdog = [t \in Tab |-> FALSE]
  /\ listeners = [t \in Tab |-> << >>]
  /\ snapshot = [t \in Tab |-> [k \in Topic |-> 0]]
  /\ shown = [t \in Tab |-> [k \in Topic |-> 0]]
  /\ kept = [t \in Tab |-> {}]
  /\ chan = [s \in Tab |-> [r \in Tab |-> << >>]]
  /\ version = 1
  /\ subscribes = 0
  /\ events = 0

Event == events < MaxEvents /\ events' = events + 1

Open == {t \in Tab : life[t] = "open"}
Leaders == {t \in Open : leader[t]}

(***************************************************************************)
(* Channel and dispatch.                                                   *)
(***************************************************************************)

Heartbeat == [kind |-> "heartbeat"]
Abdicate == [kind |-> "abdicate"]
Data(S, v) == [kind |-> "data", topics |-> S, value |-> v]
TopicSync(topics) == [kind |-> "topic-sync", topics |-> topics]

\* post, in the channels c: to all other open tabs.
Post(c, t, m) ==
  [c EXCEPT ![t] = [r \in Tab |-> IF r \in Open \ {t} THEN Append(@[r], m) ELSE @[r]]]

\* Topics of S that are dispatched: listened to, and not what came last.
Changed(t, S, v) == {k \in S \cap ToSet(listeners[t]) : snapshot[t][k] # v}

\* dispatchLocally
Dispatch(t, S, v) ==
  LET new == Changed(t, S, v)
  IN /\ snapshot' = [snapshot EXCEPT ![t] = [k \in Topic |-> IF k \in new THEN v ELSE @[k]]]
     /\ shown' = [shown EXCEPT ![t] = [k \in Topic |-> IF k \in new THEN v ELSE @[k]]]
     /\ kept' = [kept EXCEPT ![t] = @ \ new]

(***************************************************************************)
(* Election.                                                               *)
(***************************************************************************)

\* becomeLeader of a tab that is not, with the channels c.
BecomeLeader(t, c) ==
  /\ leader' = [leader EXCEPT ![t] = TRUE]
  /\ watchdog' = [watchdog EXCEPT ![t] = FALSE]
  /\ snapshot' = [snapshot EXCEPT ![t] = [k \in Topic |-> 0]]
  /\ kept' = [kept EXCEPT ![t] = {}]
  /\ P!SubscribeMore(t, listeners[t])
  /\ chan' = Post(c, t, Heartbeat)
  /\ UNCHANGED shown

\* Mutant: the watchdog of the tab that resigns stays off.
ResignUnwatched(t) ==
  /\ leader' = [leader EXCEPT ![t] = FALSE]
  /\ P!Stop(t)
  /\ UNCHANGED watchdog

\* Mutant: the inner manager is not destroyed.
ResignPolling(t) ==
  /\ leader' = [leader EXCEPT ![t] = FALSE]
  /\ watchdog' = [watchdog EXCEPT ![t] = TRUE]
  /\ UNCHANGED pollingVars

\* resignLeadership and resetWatchdog.
Resign(t) ==
  /\ leader' = [leader EXCEPT ![t] = FALSE]
  /\ watchdog' = [watchdog EXCEPT ![t] = TRUE]
  /\ P!Stop(t)

\* createCrossTabPollingManager: every tab claims leadership.
Create(t) ==
  /\ life[t] = "new"
  /\ life' = [life EXCEPT ![t] = "open"]
  /\ BecomeLeader(t, chan)
  /\ UNCHANGED << listeners, version, counts >>

\* The interval of the leader.  A bound: not while a heartbeat is under way
\* from or to the tab.
SendHeartbeat(t) ==
  /\ t \in Leaders
  /\ \A r \in Tab : Heartbeat \notin ToSet(chan[t][r]) \cup ToSet(chan[r][t])
  /\ chan' = Post(chan, t, Heartbeat)
  /\ UNCHANGED << pollingVars, electionVars, dataVars, life, listeners, version, counts >>

\* The watchdog fires: there is no leader any more, or its heartbeats are
\* late (timers of a hidden tab are throttled).
Promote(t) ==
  /\ t \in Open /\ watchdog[t]
  /\ IF Leaders = {} THEN UNCHANGED events ELSE Event
  /\ BecomeLeader(t, chan)
  /\ UNCHANGED << life, listeners, version, subscribes >>

\* Mutant: a leader pays no attention to other leaders.
IgnoreOtherLeaders(s, t, c) ==
  /\ watchdog' = [watchdog EXCEPT ![t] = ~leader[t]]
  /\ chan' = c
  /\ UNCHANGED << pollingVars, leader, dataVars >>

\* Of two leaders the one with the lower id stays, and says so.
OnHeartbeat(s, t, c) ==
  /\ IF leader[t] /\ s < t
     THEN Resign(t)
     ELSE /\ watchdog' = [watchdog EXCEPT ![t] = ~leader[t]]
          /\ UNCHANGED << pollingVars, leader >>
  /\ chan' = IF leader[t] /\ s > t THEN Post(c, t, Heartbeat) ELSE c
  /\ UNCHANGED dataVars

OnAbdicate(t, c) ==
  IF leader[t]
  THEN chan' = c /\ UNCHANGED << pollingVars, electionVars, dataVars >>
  ELSE BecomeLeader(t, c)

OnData(t, m, c) ==
  /\ IF leader[t] THEN UNCHANGED dataVars ELSE Dispatch(t, m.topics, m.value)
  /\ chan' = c
  /\ UNCHANGED << pollingVars, electionVars >>

\* The leader adds the topics it does not know, and refreshes.
OnTopicSync(t, m, c) ==
  /\ IF leader[t]
     THEN P!SubscribeMore(t, m.topics)
     ELSE UNCHANGED pollingVars
  /\ chan' = c
  /\ UNCHANGED << electionVars, dataVars >>

\* onMessage
Receive(s, t) ==
  /\ t \in Open
  /\ chan[s][t] # << >>
  /\ LET m == Head(chan[s][t])
         c == [chan EXCEPT ![s][t] = Tail(@)]
     IN \/ m.kind = "heartbeat"  /\ OnHeartbeat(s, t, c)
        \/ m.kind = "abdicate"   /\ OnAbdicate(t, c)
        \/ m.kind = "data"       /\ OnData(t, m, c)
        \/ m.kind = "topic-sync" /\ OnTopicSync(t, m, c)
  /\ UNCHANGED << life, listeners, version, counts >>

\* The tab is gone, with its timers and fetches; c is what it has posted.
Gone(t, c) ==
  /\ life' = [life EXCEPT ![t] = "gone"]
  /\ leader' = [leader EXCEPT ![t] = FALSE]
  /\ watchdog' = [watchdog EXCEPT ![t] = FALSE]
  /\ listeners' = [listeners EXCEPT ![t] = << >>]
  /\ snapshot' = [snapshot EXCEPT ![t] = [k \in Topic |-> 0]]
  /\ shown' = [shown EXCEPT ![t] = [k \in Topic |-> 0]]
  /\ kept' = [kept EXCEPT ![t] = {}]
  /\ P!Gone(t)
  /\ chan' = [s \in Tab |-> [c[s] EXCEPT ![t] = << >>]]
  /\ UNCHANGED << version, counts >>

\* destroy: a leader abdicates.
Destroy(t) ==
  /\ t \in Open
  /\ Gone(t, IF leader[t] THEN Post(chan, t, Abdicate) ELSE chan)

\* The page is closed, or crashes.
Crash(t) ==
  /\ t \in Open
  /\ Gone(t, chan)

(***************************************************************************)
(* Subscriptions and data.                                                 *)
(***************************************************************************)

\* Mutant: a second listener of a topic adds the topic once more.
AppendListener(t, k) == listeners' = [listeners EXCEPT ![t] = Append(@, k)]

\* The listeners of a topic are a Set in a Map.
AddListener(t, k) ==
  listeners' = IF k \in ToSet(listeners[t]) THEN listeners
               ELSE [listeners EXCEPT ![t] = Append(@, k)]

\* subscribe to a topic
Subscribe(t, k) ==
  /\ t \in Open
  /\ subscribes < MaxSubscribes /\ subscribes' = subscribes + 1
  /\ AddListener(t, k)
  /\ IF leader[t]
     THEN P!SubscribeMore(t, << k >>) /\ UNCHANGED chan
     ELSE /\ chan' = Post(chan, t, TopicSync(listeners'[t]))
          /\ UNCHANGED pollingVars
  /\ UNCHANGED << electionVars, dataVars, life, version, events >>

\* unsubscribe of the last listener of a topic; a leader drops the topic,
\* whoever else needs it.  The snapshot stays.
Unsubscribe(t, k) ==
  /\ \E i \in DOMAIN listeners[t] :
       /\ listeners[t][i] = k
       /\ listeners' = [listeners EXCEPT ![t] = RemoveAt(@, i)]
  /\ shown' = [shown EXCEPT ![t][k] = 0]
  /\ kept' = [kept EXCEPT ![t] = IF snapshot[t][k] = 0 THEN @ ELSE @ \cup {k}]
  /\ P!Unsubscribe(t, k)
  /\ UNCHANGED << electionVars, snapshot, life, chan, version, counts >>

\* refresh
Refresh(t) ==
  /\ t \in Open
  /\ Event
  /\ IF leader[t]
     THEN P!Refresh(t) /\ UNCHANGED chan
     ELSE /\ chan' = Post(chan, t, TopicSync(listeners[t]))
          /\ UNCHANGED pollingVars
  /\ UNCHANGED << electionVars, dataVars, life, listeners, version, subscribes >>

\* The timer of the polling client.  A bound: not while data is under way.
Timer(t) ==
  /\ \A r \in Tab : \A i \in DOMAIN chan[t][r] : chan[t][r][i].kind # "data"
  /\ P!Timer(t)
  /\ UNCHANGED << electionVars, dataVars, life, listeners, chan, version, counts >>

\* visibilitychange
Visibility(t) ==
  /\ t \in Open
  /\ \/ P!Hide(t) /\ Event
     \/ P!Show(t) /\ UNCHANGED events
  /\ UNCHANGED << electionVars, dataVars, life, listeners, chan, version, subscribes >>

\* The server answers (resolveTopics); some of the resolvers may fail.
Answer(t, f) ==
  /\ \/ P!Answer(t, f, f.topics, version) /\ UNCHANGED events
     \/ /\ Event
        /\ \E k \in f.topics : P!Answer(t, f, f.topics \ {k}, version)
  /\ UNCHANGED << electionVars, dataVars, life, listeners, chan, version, subscribes >>

\* wrappedFetcher gets the answer: it is posted and dispatched, even if the
\* tab is not the leader any more.
Arrive(t, f) ==
  /\ f.value # P!Waiting
  /\ P!End(t, f)
  /\ chan' = Post(chan, t, Data(f.topics, f.value))
  /\ Dispatch(t, f.topics, f.value)
  /\ UNCHANGED << electionVars, life, listeners, version, counts >>

\* The fetch fails.
Fail(t, f) ==
  /\ Event
  /\ P!End(t, f)
  /\ UNCHANGED << electionVars, dataVars, life, listeners, chan, version, subscribes >>

\* The data on the server changes.
Change ==
  /\ Event
  /\ version' = version + 1
  /\ UNCHANGED << pollingVars, electionVars, dataVars, life, listeners, chan, subscribes >>

Next ==
  \/ \E t \in Tab :
       \/ Create(t) \/ SendHeartbeat(t) \/ Promote(t) \/ Destroy(t) \/ Crash(t)
       \/ \E s \in Tab : Receive(s, t)
       \/ \E k \in Topic : Subscribe(t, k) \/ Unsubscribe(t, k)
       \/ Refresh(t) \/ Timer(t) \/ Visibility(t)
       \/ \E f \in P!Fetches(t) : Answer(t, f) \/ Arrive(t, f) \/ Fail(t, f)
  \/ Change

Spec == Init /\ [][Next]_vars

\* Timers fire, messages are delivered and requests are answered.  Users,
\* failures and changes of the data are free.
Fairness ==
  \A t \in Tab :
    /\ WF_vars(SendHeartbeat(t))
    /\ WF_vars(Leaders = {} /\ Promote(t))
    /\ \A s \in Tab : WF_vars(Receive(s, t))
    /\ WF_vars(Timer(t))
    /\ WF_vars(\E f \in P!Fetches(t) : Answer(t, f))
    /\ WF_vars(\E f \in P!Fetches(t) : Arrive(t, f))

FairSpec == Spec /\ Fairness

(***************************************************************************)
(* Properties.                                                             *)
(***************************************************************************)

Message ==
  {Heartbeat, Abdicate} \cup {TopicSync(s) : s \in SeqOf(Topic, Cardinality(Topic))}
    \cup {Data(S, v) : S \in SUBSET Topic, v \in 1 .. version}

\* Types; data comes from the server.
TypeOK ==
  /\ P!TypeOK
  /\ life \in [Tab -> {"new", "open", "gone"}]
  /\ leader \in [Tab -> BOOLEAN] /\ watchdog \in [Tab -> BOOLEAN]
  /\ \A t \in Tab : ToSet(listeners[t]) \subseteq Topic /\ IsInjective(listeners[t])
  /\ snapshot \in [Tab -> [Topic -> 0 .. version]]
  /\ shown \in [Tab -> [Topic -> 0 .. version]]
  /\ kept \in [Tab -> SUBSET Topic]
  /\ \A s, r \in Tab : ToSet(chan[s][r]) \subseteq Message

\* "If a follower stops hearing heartbeats it promotes itself": a tab that
\* is not the leader always has its watchdog armed, a leader never.
FollowersWatch == \A t \in Open : watchdog[t] = ~leader[t]

\* "only the leader tab actively polls the server", and it asks for all the
\* topics that its own listeners need.
OnlyLeadersPoll ==
  \A t \in Tab :
    IF t \in Leaders THEN ToSet(listeners[t]) \subseteq subs[t]
                     ELSE subs[t] = {} /\ pending[t] = NoFetch /\ ~timer[t]

\* A visible leader never stops polling.
PollsWhileVisible == P!PollsWhileVisible

\* However the tabs come and go, in the end there is exactly one leader.
OneLeaderInTheEnd == <>[](Open = {} \/ Cardinality(Leaders) = 1)

\* Data for topic k can be expected by tab t: both it and a visible leader
\* listen to the topic.
Served(t, k) ==
  /\ k \in ToSet(listeners[t])
  /\ \E s \in Leaders : ~hidden[s] /\ k \in ToSet(listeners[s])

\* "Adding a subscription for a new topic triggers an immediate refresh so
\* the subscriber gets data without waiting for the next interval"
\* (polling-manager.ts:8): when no fetch has failed, a leader that waits for
\* the next interval has data for all its topics.
NoTopicWaits ==
  \A t \in Leaders : timer[t] => \A k \in ToSet(listeners[t]) : snapshot[t][k] # 0

\* In the end a tab has the latest data and its listeners have been given it,
\* as long as the leader is visible and listens to the same topics.  Listeners
\* that find a snapshot of others who have left (dispatchLocally) are given
\* data only when it changes: nothing is claimed of them before that, but
\* the snapshot they wait for a change of is then the latest.
ShowsLatestInTheEnd ==
  \A t \in Tab : \A k \in Topic :
    <>[]Served(t, k) => <>[](IF k \in kept[t] THEN snapshot[t][k] = version
                                              ELSE shown[t][k] = version)
=============================================================================
