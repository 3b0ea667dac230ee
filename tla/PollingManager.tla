--------------------------- MODULE PollingManager ---------------------------
(***************************************************************************)
(* createPollingManager and createPollingClient: asks the server for the   *)
(* topics subscribed to, again and again.  There is a client as long as a  *)
(* topic is subscribed to.  A client has at most one fetch under way; a    *)
(* client that is stopped does not cancel its fetch.                       *)
(*                                                                         *)
(* Each tab has a manager.  All the data of the server is one version      *)
(* number.  The length of intervals and back-off is left out, and so are   *)
(* the listeners of the manager, which do nothing in CrossTabPolling (what *)
(* is dispatched is dispatched by the fetcher).                            *)
(***************************************************************************)
EXTENDS Integers, Sequences, Functions

CONSTANTS
  Tab,      \* tabs, each with a manager
  Topic,    \* TopicName
  NoFetch   \* "no fetch is under way"

VARIABLES
  subs,     \* topics with a subscription
  timer,    \* a poll is scheduled
  pending,  \* the fetch under way of the client
  orphans,  \* fetches of clients that have been stopped
  hidden    \* document.visibilityState = "hidden"

pollingVars == << subs, timer, pending, orphans, hidden >>

Waiting == -1   \* the server has not answered yet
Fetch == [topics : SUBSET Topic, value : Nat \cup {Waiting}]

Init ==
  /\ subs = [t \in Tab |-> {}]
  /\ timer = [t \in Tab |-> FALSE]
  /\ pending = [t \in Tab |-> NoFetch]
  /\ orphans = [t \in Tab |-> {}]
  /\ hidden = [t \in Tab |-> FALSE]

HasClient(t) == subs[t] # {}

\* poll, for the topics S: joins the fetch under way, if there is one.
Poll(t, S) ==
  pending' = IF pending[t] = NoFetch
             THEN [pending EXCEPT ![t] = [topics |-> S, value |-> Waiting]]
             ELSE pending

\* subscribe to a sequence of topics, one after the other, then refresh.  The
\* first that is new causes a fetch at once (in a hidden tab too, because the
\* client is not only started but refreshed); the others join this fetch and
\* are not part of it.
SubscribeMore(t, topics) ==
  LET new == {i \in DOMAIN topics : topics[i] \notin subs[t]}
      fetched == subs[t] \cup {topics[i] : i \in {j \in new : \A h \in new : j <= h}}
  IN /\ subs' = [subs EXCEPT ![t] = @ \cup Range(topics)]
     /\ IF fetched = {} THEN UNCHANGED pending ELSE Poll(t, fetched)
     /\ UNCHANGED << timer, orphans, hidden >>

\* stop: the fetch under way goes on without its client.
Stop(t) ==
  /\ subs' = [subs EXCEPT ![t] = {}]
  /\ timer' = [timer EXCEPT ![t] = FALSE]
  /\ pending' = [pending EXCEPT ![t] = NoFetch]
  /\ orphans' = [orphans EXCEPT ![t] =
                   IF pending[t] = NoFetch THEN @ ELSE @ \cup {pending[t]}]
  /\ UNCHANGED hidden

\* The page is gone.
Gone(t) ==
  /\ subs' = [subs EXCEPT ![t] = {}]
  /\ timer' = [timer EXCEPT ![t] = FALSE]
  /\ pending' = [pending EXCEPT ![t] = NoFetch]
  /\ orphans' = [orphans EXCEPT ![t] = {}]
  /\ hidden' = [hidden EXCEPT ![t] = FALSE]

\* unsubscribe; the last one stops the client.
Unsubscribe(t, k) ==
  IF subs[t] = {k}
  THEN Stop(t)
  ELSE /\ subs' = [subs EXCEPT ![t] = @ \ {k}]
       /\ UNCHANGED << timer, pending, orphans, hidden >>

\* refresh
Refresh(t) ==
  /\ IF HasClient(t) THEN Poll(t, subs[t]) ELSE UNCHANGED pending
  /\ UNCHANGED << subs, timer, orphans, hidden >>

\* The timer of scheduleNext.
Timer(t) ==
  /\ timer[t]
  /\ timer' = [timer EXCEPT ![t] = FALSE]
  /\ Poll(t, subs[t])
  /\ UNCHANGED << subs, orphans, hidden >>

\* handleVisibilityChange, which only a tab with a client listens to.
Hide(t) ==
  /\ ~hidden[t]
  /\ hidden' = [hidden EXCEPT ![t] = TRUE]
  /\ timer' = [timer EXCEPT ![t] = FALSE]
  /\ UNCHANGED << subs, pending, orphans >>

\* Mutant: a tab that becomes visible waits for the timer.
ShowWithoutPoll(t) ==
  /\ hidden[t]
  /\ hidden' = [hidden EXCEPT ![t] = FALSE]
  /\ UNCHANGED << subs, timer, pending, orphans >>

Show(t) ==
  /\ hidden[t]
  /\ hidden' = [hidden EXCEPT ![t] = FALSE]
  /\ IF HasClient(t) THEN Poll(t, subs[t]) ELSE UNCHANGED pending
  /\ UNCHANGED << subs, timer, orphans >>

\* Fetches of tab t that are under way.
Fetches(t) == orphans[t] \cup ({pending[t]} \ {NoFetch})

\* The server answers a fetch for the topics S, with data of version v.  A
\* topic whose resolver fails is missing in the answer.
Answer(t, f, S, v) ==
  /\ f \in Fetches(t)
  /\ f.value = Waiting
  /\ S \subseteq f.topics
  /\ LET g == [topics |-> S, value |-> v]
     IN \/ /\ f = pending[t]
           /\ pending' = [pending EXCEPT ![t] = g]
           /\ UNCHANGED orphans
        \/ /\ f \in orphans[t]
           /\ orphans' = [orphans EXCEPT ![t] = (@ \ {f}) \cup {g}]
           /\ UNCHANGED pending
  /\ UNCHANGED << subs, timer, hidden >>

\* Mutant: no poll is scheduled after one that failed.
EndWithoutSchedule(t, f) ==
  /\ \/ /\ f = pending[t]
        /\ pending' = [pending EXCEPT ![t] = NoFetch]
        /\ timer' = [timer EXCEPT ![t] = f.value # Waiting]
        /\ UNCHANGED orphans
     \/ /\ f \in orphans[t]
        /\ orphans' = [orphans EXCEPT ![t] = @ \ {f}]
        /\ UNCHANGED << pending, timer >>
  /\ UNCHANGED << subs, hidden >>

\* A fetch ends, with an answer or with an error: the client, if it is still
\* active, schedules the next poll, hidden or not.
End(t, f) ==
  /\ \/ /\ f = pending[t]
        /\ pending' = [pending EXCEPT ![t] = NoFetch]
        /\ timer' = [timer EXCEPT ![t] = TRUE]
        /\ UNCHANGED orphans
     \/ /\ f \in orphans[t]
        /\ orphans' = [orphans EXCEPT ![t] = @ \ {f}]
        /\ UNCHANGED << pending, timer >>
  /\ UNCHANGED << subs, hidden >>

TypeOK ==
  /\ subs \in [Tab -> SUBSET Topic]
  /\ timer \in [Tab -> BOOLEAN]
  /\ pending \in [Tab -> Fetch \cup {NoFetch}]
  /\ \A t \in Tab : orphans[t] \subseteq Fetch
  /\ hidden \in [Tab -> BOOLEAN]

\* A client of a visible tab never stops polling: a fetch is under way or a
\* poll is scheduled; without a client there is neither.
PollsWhileVisible ==
  \A t \in Tab :
    IF HasClient(t)
    THEN ~hidden[t] => pending[t] # NoFetch \/ timer[t]
    ELSE pending[t] = NoFetch /\ ~timer[t]
=============================================================================
