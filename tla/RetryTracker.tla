---------------------------- MODULE RetryTracker ----------------------------
(***************************************************************************)
(* createMultiplayerRetryTracker: what a tab in multiplayer mode remembers *)
(* of the edits it has sent to the relay, until it knows what became of    *)
(* them.  An edit gets a sequence number when the relay accepts it, and is *)
(* durable once an acknowledgement has reached that number.  The two may   *)
(* arrive in either order.                                                 *)
(*                                                                         *)
(* The operations change the state of the tracker; what they send is up to *)
(* the module that composes it.  Both maps of pending applies are indexed  *)
(* here by the transaction.  The length of a delay is left out, a timer is *)
(* armed or not; messages to the user are left out too.                    *)
(***************************************************************************)
EXTENDS Naturals

CONSTANTS
  Tab,   \* tabs, each with a tracker
  Tx     \* transactions

VARIABLES
  pending,  \* keys of pendingByTransactionId
  seq,      \* PendingApply.seq, 0 if undefined
  timer,    \* entries with a retryTimer
  ackSeq,   \* lastAckSeq
  stopped,
  durable,  \* history: reported to onDurable
  dropped   \* history: reported to onDropped

trackerVars == << pending, seq, timer, ackSeq, stopped, durable, dropped >>

Init ==
  /\ pending = [t \in Tab |-> {}]
  /\ seq = [t \in Tab |-> [x \in Tx |-> 0]]
  /\ timer = [t \in Tab |-> {}]
  /\ ackSeq = [t \in Tab |-> 0]
  /\ stopped = [t \in Tab |-> FALSE]
  /\ durable = [t \in Tab |-> {}]
  /\ dropped = [t \in Tab |-> {}]

\* deletePending, for a set of entries.
Forget(t, S) ==
  /\ pending' = [pending EXCEPT ![t] = @ \ S]
  /\ timer' = [timer EXCEPT ![t] = @ \ S]
  /\ seq' = [seq EXCEPT ![t] = [x \in Tx |-> IF x \in S THEN 0 ELSE @[x]]]

\* scheduleRetry; an armed timer is replaced.
Arm(t, x) == timer' = [timer EXCEPT ![t] = @ \cup {x}]

\* track: an edit that is tracked already is only sent again.
Track(t, x) ==
  /\ pending' = IF stopped[t] THEN pending ELSE [pending EXCEPT ![t] = @ \cup {x}]
  /\ UNCHANGED << seq, timer, ackSeq, stopped, durable, dropped >>

\* The relay gave the entry number s: durable at once if the acknowledgement
\* was faster, else the retry timer is armed.
Sequenced(t, x, s) ==
  /\ IF ackSeq[t] >= s
     THEN /\ Forget(t, {x})
          /\ durable' = [durable EXCEPT ![t] = @ \cup {x}]
     ELSE /\ seq' = [seq EXCEPT ![t][x] = s]
          /\ Arm(t, x)
          /\ UNCHANGED << pending, durable >>
  /\ UNCHANGED << ackSeq, stopped, dropped >>

\* Mutant: no look whether the edit is pending here.
EveryBroadcastIsOwn(t, x, s) == Sequenced(t, x, s)

\* handleBroadcast; broadcasts of other tabs' edits are not pending here.
HandleBroadcast(t, x, s) ==
  IF x \in pending[t] THEN Sequenced(t, x, s) ELSE UNCHANGED trackerVars

\* Mutant: "settled" is taken for durable.
SettledIsDurable(t, x, s) ==
  /\ IF x \in pending[t]
     THEN /\ Forget(t, {x})
          /\ durable' = [durable EXCEPT ![t] = @ \cup {x}]
     ELSE UNCHANGED << pending, timer, seq, durable >>
  /\ UNCHANGED << ackSeq, stopped, dropped >>

\* handleApplied with status "settled": sequenced before, maybe not yet saved.
HandleSettled(t, x, s) ==
  IF x \in pending[t] THEN Sequenced(t, x, s) ELSE UNCHANGED trackerVars

\* handleApplied with status "dropped", "rejected" or "failed".
HandleRefused(t, x) ==
  /\ IF x \in pending[t]
     THEN /\ Forget(t, {x})
          /\ dropped' = [dropped EXCEPT ![t] = @ \cup {x}]
     ELSE UNCHANGED << pending, timer, seq, dropped >>
  /\ UNCHANGED << ackSeq, stopped, durable >>

Acked(t, s) == {x \in pending[t] : seq[t][x] # 0 /\ s >= seq[t][x]}

\* Mutant: entries the relay has not numbered yet count as acknowledged.
AckTakesAll(t, s) ==
  /\ ackSeq' = [ackSeq EXCEPT ![t] = IF s >= @ THEN s ELSE @]
  /\ LET done == {x \in pending[t] : ackSeq'[t] >= seq[t][x]}
     IN Forget(t, done) /\ durable' = [durable EXCEPT ![t] = @ \cup done]
  /\ UNCHANGED << stopped, dropped >>

\* handleAck: acknowledgements are cumulative, an old one changes nothing.
HandleAck(t, s) ==
  /\ ackSeq' = [ackSeq EXCEPT ![t] = IF s >= @ THEN s ELSE @]
  /\ LET done == Acked(t, ackSeq'[t])
     IN Forget(t, done) /\ durable' = [durable EXCEPT ![t] = @ \cup done]
  /\ UNCHANGED << stopped, dropped >>

\* handleErrorMessage about an apply: it is sent again later.
HandleError(t, x) ==
  /\ IF x \in pending[t] /\ ~stopped[t] THEN Arm(t, x) ELSE UNCHANGED timer
  /\ UNCHANGED << pending, seq, ackSeq, stopped, durable, dropped >>

\* Mutant: a retry is not armed again.
RetryOnce(t, x) ==
  /\ x \in timer[t]
  /\ timer' = [timer EXCEPT ![t] = @ \ {x}]
  /\ UNCHANGED << pending, seq, ackSeq, stopped, durable, dropped >>

\* The retry timer fires and the apply is sent again.  The timer is armed
\* again only if the relay has numbered the apply.
Retry(t, x) ==
  /\ x \in timer[t]
  /\ timer' = IF seq[t][x] = 0 THEN [timer EXCEPT ![t] = @ \ {x}] ELSE timer
  /\ UNCHANGED << pending, seq, ackSeq, stopped, durable, dropped >>

\* handleReload, and destroy: everything pending is forgotten, for good.
StopTracking(t) ==
  /\ stopped' = [stopped EXCEPT ![t] = TRUE]
  /\ Forget(t, pending[t])
  /\ UNCHANGED << ackSeq, durable, dropped >>

TypeOK ==
  /\ pending \in [Tab -> SUBSET Tx]
  /\ seq \in [Tab -> [Tx -> Nat]]
  /\ timer \in [Tab -> SUBSET Tx]
  /\ ackSeq \in [Tab -> Nat]
  /\ stopped \in [Tab -> BOOLEAN]
  /\ durable \in [Tab -> SUBSET Tx]
  /\ dropped \in [Tab -> SUBSET Tx]

\* An entry that the relay has numbered is only forgotten through an
\* acknowledgement, and that may be lost: its timer is always armed.  Nothing
\* that is not pending is sent again, and a stopped tracker sends nothing.
RetryArmed ==
  \A t \in Tab :
    /\ \A x \in pending[t] : seq[t][x] # 0 => x \in timer[t] /\ seq[t][x] > ackSeq[t]
    /\ timer[t] \subseteq pending[t]
    /\ stopped[t] => pending[t] = {}
=============================================================================
