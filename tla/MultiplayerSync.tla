-------------------------- MODULE MultiplayerSync --------------------------
(***************************************************************************)
(* Multiplayer saving: tabs that send every edit to a relay over a socket  *)
(* that reconnects, and track it (RetryTracker) until it is durable.       *)
(*                                                                         *)
(* The relay and the socket (PartySocket) are not part of the repository.  *)
(* The relay does what the comments of the message types say: it numbers   *)
(* an edit once, broadcasts it, saves the numbered edits in order, and     *)
(* answers an edit it has seen before with what became of it.  The socket  *)
(* queues what is sent while it is not open.  A connection is in order in  *)
(* both directions; when it breaks, what is under way is lost.             *)
(*                                                                         *)
(* A tab of the model is one session: opening a project creates a client   *)
(* with a new id.  It starts when the data has been loaded and connect     *)
(* creates the socket.  Presence and the texts shown to the user are left  *)
(* out.                                                                    *)
(***************************************************************************)
EXTENDS Integers, Sequences, FiniteSets, SequencesExt

CONSTANTS
  Tab,          \* sessions of the builder
  MaxEdits,     \* bound: edits made
  MaxFaults,    \* bound: broken connections, edits put off, reloads,
                \* failed reloads and closed tabs
  MaxInFlight   \* bound: messages about an edit under way when it is retried

\* Edits are numbered in the order they are made.
Tx == 1 .. MaxEdits

ASSUME MultiplayerAssumption ==
  /\ MaxEdits \in Nat
  /\ MaxFaults \in Nat
  /\ MaxInFlight \in Nat

VARIABLES
  pending, seq, timer, ackSeq, stopped, durable, dropped,
  socket,     \* "connecting", "open" or "ended"
  up,         \* edits sent to the relay; queued while the socket is not open
  down,       \* messages of the relay under way to the tab
  status,     \* $syncStatus
  edited,     \* edits made in the tab since it loaded the data it shows
  reloading,  \* loadBuilderData of onReload is running
  author,     \* author[x] is the tab that made edit x
  fate,       \* what became of an edit at the relay
  number,     \* sequence number of an edit at the relay, 0 if it has none
  lastSeq,    \* sequence numbers given so far
  settled,    \* numbers up to this one are saved, refused or given up
  limited,    \* history: edits the relay has put off with an error
  offline,    \* history: edits made while the socket was not open and
              \* others were pending
  faults      \* how many of these there have been

trackerVars == << pending, seq, timer, ackSeq, stopped, durable, dropped >>
tabVars == << status, edited, reloading >>
history == << limited, offline >>
relayVars == << fate, number, lastSeq, settled >>
vars == << trackerVars, tabVars, relayVars, socket, up, down, author, history, faults >>

R == INSTANCE RetryTracker

Init ==
  /\ R!Init
  /\ socket = [t \in Tab |-> "connecting"]
  /\ up = [t \in Tab |-> << >>]
  /\ down = [t \in Tab |-> << >>]
  /\ status = [t \in Tab |-> "idle"]
  /\ edited = [t \in Tab |-> {}]
  /\ reloading = [t \in Tab |-> FALSE]
  /\ author = << >>
  /\ fate = [x \in Tx |-> "new"]
  /\ number = [x \in Tx |-> 0]
  /\ lastSeq = 0
  /\ settled = 0
  /\ limited = {}
  /\ offline = {}
  /\ faults = 0

Fault == faults < MaxFaults /\ faults' = faults + 1

(***************************************************************************)
(* The tab.                                                                *)
(***************************************************************************)

\* updateUnsaved, called after every operation of the tracker.
UpdateUnsaved(t) ==
  status' = [status EXCEPT ![t] = IF pending'[t] = {} THEN "idle" ELSE "syncing"]

\* sendApply.
Send(t, x) == up' = [up EXCEPT ![t] = Append(@, x)]

\* emit of a transaction on server data, with the next clientSeq.
Edit(t) ==
  LET x == Len(author) + 1
  IN /\ x \in Tx
     /\ socket[t] \in {"connecting", "open"}
     /\ author' = Append(author, t)
     /\ edited' = [edited EXCEPT ![t] = @ \cup {x}]
     /\ R!Track(t, x)
     /\ IF stopped[t] THEN UNCHANGED up ELSE Send(t, x)
     /\ UpdateUnsaved(t)
     /\ offline' = IF socket[t] = "open" \/ pending[t] = {} THEN offline ELSE offline \cup {x}
     /\ UNCHANGED << relayVars, socket, down, reloading, limited, faults >>

\* Mutant: what is pending is not sent again over the new connection.
NothingToResend(t) == << >>

\* Mutant: the newest edit is sent first.
NewestFirst(t) == SetToSortSeq(pending[t], >)

\* What handleReconnect sends: a Map is iterated in the order of insertion.
Resend(t) ==
  LET S == pending[t]
  IN CHOOSE s \in [1 .. Cardinality(S) -> S] :
       ToSet(s) = S /\ \A i, j \in DOMAIN s : i < j => s[i] < s[j]

\* The socket opens and sends what it has queued; onOpen then sends
\* everything pending again, so an edit may be sent twice.
Open(t) ==
  /\ socket[t] = "connecting"
  /\ socket' = [socket EXCEPT ![t] = "open"]
  /\ up' = [up EXCEPT ![t] = @ \o Resend(t)]
  /\ UNCHANGED << trackerVars, tabVars, relayVars, down, author, history, faults >>

\* The connection breaks, and the socket connects again.
Drop(t) ==
  /\ socket[t] = "open"
  /\ Fault
  /\ socket' = [socket EXCEPT ![t] = "connecting"]
  /\ up' = [up EXCEPT ![t] = << >>]
  /\ down' = [down EXCEPT ![t] = << >>]
  /\ UNCHANGED << trackerVars, tabVars, relayVars, author, history >>

\* How many messages about edit x are under way.
InFlight(t, x) ==
  Cardinality({i \in DOMAIN up[t] : up[t][i] = x})
    + Cardinality({i \in DOMAIN down[t] : down[t][i].tx = x})

\* A retry timer fires.
Retry(t, x) ==
  /\ InFlight(t, x) < MaxInFlight
  /\ R!Retry(t, x)
  /\ Send(t, x)
  /\ UNCHANGED << tabVars, relayVars, socket, down, author, history, faults >>

\* dispatchWebSocketMessage and the callbacks of connect.
Receive(t) ==
  /\ socket[t] = "open"
  /\ down[t] # << >>
  /\ LET m == Head(down[t])
     IN /\ down' = [down EXCEPT ![t] = Tail(@)]
        /\ \/ m.type = "broadcast" /\ R!HandleBroadcast(t, m.tx, m.seq)
           \/ m.type = "ack"       /\ R!HandleAck(t, m.seq)
           \/ m.type = "settled"   /\ R!HandleSettled(t, m.tx, m.seq)
           \/ m.type = "refused"   /\ R!HandleRefused(t, m.tx)
           \/ m.type = "error"     /\ R!HandleError(t, m.tx)
           \/ m.type = "reload"    /\ R!StopTracking(t)
        /\ reloading' = [reloading EXCEPT ![t] = @ \/ m.type = "reload"]
  /\ UpdateUnsaved(t)
  /\ UNCHANGED << relayVars, socket, up, edited, author, history, faults >>

\* onReload: the saved data replaces what the tab shows.
FinishReload(t) ==
  /\ reloading[t]
  /\ reloading' = [reloading EXCEPT ![t] = FALSE]
  /\ edited' = [edited EXCEPT ![t] = {}]
  /\ UNCHANGED << trackerVars, relayVars, socket, up, down, status, author, history, faults >>

\* loadBuilderData failed: only logged, the tab keeps what it shows.
FailReload(t) ==
  /\ reloading[t]
  /\ Fault
  /\ reloading' = [reloading EXCEPT ![t] = FALSE]
  /\ UNCHANGED << trackerVars, relayVars, socket, up, down, status, edited, author, history >>

\* close: what the socket has not sent yet is lost.
Close(t) ==
  /\ socket[t] # "ended"
  /\ Fault
  /\ socket' = [socket EXCEPT ![t] = "ended"]
  /\ R!StopTracking(t)
  /\ UpdateUnsaved(t)
  /\ up' = [up EXCEPT ![t] = << >>]
  /\ down' = [down EXCEPT ![t] = << >>]
  /\ edited' = [edited EXCEPT ![t] = {}]
  /\ reloading' = [reloading EXCEPT ![t] = FALSE]
  /\ UNCHANGED << relayVars, author, history >>

(***************************************************************************)
(* The relay.                                                              *)
(***************************************************************************)

\* A message; tx and seq are 0 where the type has no such field.
Msg(type, x, s) == [type |-> type, tx |-> x, seq |-> s]

\* To every tab that is connected, the author included.
Broadcast(m) ==
  down' = [t \in Tab |-> IF socket[t] = "open" THEN Append(down[t], m) ELSE down[t]]

Reply(t, ms) == down' = [down EXCEPT ![t] = @ \o ms]

\* The relay takes the next edit from the connection of t.
Take(t) ==
  /\ socket[t] = "open"
  /\ up[t] # << >>
  /\ up' = [up EXCEPT ![t] = Tail(@)]

\* An edit seen for the first time is numbered and broadcast, ...
RelayAccept(t) ==
  /\ Take(t)
  /\ LET x == Head(up[t])
     IN /\ fate[x] = "new"
        /\ lastSeq' = lastSeq + 1
        /\ fate' = [fate EXCEPT ![x] = "sequenced"]
        /\ number' = [number EXCEPT ![x] = lastSeq']
        /\ Broadcast(Msg("broadcast", x, lastSeq'))
  /\ UNCHANGED << trackerVars, tabVars, settled, socket, author, history, faults >>

\* ... or refused ("dropped"), ...
RelayRefuse(t) ==
  /\ Take(t)
  /\ LET x == Head(up[t])
     IN /\ fate[x] = "new"
        /\ fate' = [fate EXCEPT ![x] = "refused"]
        /\ Reply(t, << Msg("refused", x, 0) >>)
  /\ UNCHANGED << trackerVars, tabVars, number, lastSeq, settled, socket, author, history, faults >>

\* ... or put off because of the rate or of the backlog.
RelayLimit(t) ==
  /\ Take(t)
  /\ Fault
  /\ LET x == Head(up[t])
     IN /\ fate[x] = "new"
        /\ limited' = limited \cup {x}
        /\ Reply(t, << Msg("error", x, 0) >>)
  /\ UNCHANGED << trackerVars, tabVars, relayVars, socket, author, offline >>

\* An edit it has seen before: what became of it.
RelayRepeat(t) ==
  /\ Take(t)
  /\ LET x == Head(up[t])
     IN /\ fate[x] # "new"
        /\ Reply(t, CASE fate[x] = "sequenced" -> << Msg("settled", x, number[x]) >>
                      [] fate[x] = "saved" -> << Msg("settled", x, number[x]),
                                                 Msg("ack", 0, settled) >>
                      [] fate[x] \in {"refused", "lost"} -> << Msg("refused", x, 0) >>)
  /\ UNCHANGED << trackerVars, tabVars, relayVars, socket, author, history, faults >>

\* The next numbered edit is saved, and all connected tabs are told; or it
\* is "rejected" or "failed", and its author is told as well.
RelaySave(x) ==
  /\ fate[x] = "sequenced"
  /\ number[x] = settled + 1
  /\ settled' = number[x]
  /\ LET ack == Msg("ack", 0, number[x])
     IN \/ /\ fate' = [fate EXCEPT ![x] = "saved"]
           /\ Broadcast(ack)
        \/ /\ fate' = [fate EXCEPT ![x] = "refused"]
           /\ down' = [t \in Tab |->
                CASE socket[t] # "open" -> down[t]
                  [] author[x] = t      -> down[t] \o << Msg("refused", x, 0), ack >>
                  [] OTHER              -> Append(down[t], ack)]
  /\ UNCHANGED << trackerVars, tabVars, number, lastSeq, socket, up, author, history, faults >>

\* The relay gives up what it has not saved and asks all tabs to reload.
RelayReload ==
  /\ Fault
  /\ fate' = [x \in Tx |-> IF fate[x] = "sequenced" THEN "lost" ELSE fate[x]]
  /\ settled' = lastSeq
  /\ Broadcast(Msg("reload", 0, 0))
  /\ UNCHANGED << trackerVars, tabVars, number, lastSeq, socket, up, author, history >>

Next ==
  \/ \E t \in Tab :
       \/ Edit(t) \/ Open(t) \/ Drop(t) \/ Receive(t) \/ Close(t)
       \/ FinishReload(t) \/ FailReload(t)
       \/ RelayAccept(t) \/ RelayRefuse(t) \/ RelayLimit(t) \/ RelayRepeat(t)
       \/ \E x \in Tx : Retry(t, x)
  \/ \E x \in Tx : RelaySave(x)
  \/ RelayReload

Spec == Init /\ [][Next]_vars

(***************************************************************************)
(* Properties.                                                             *)
(***************************************************************************)

Mine(t) == {x \in 1 .. Len(author) : author[x] = t}

\* Types; a tracker only ever deals with the edits of its own tab, although
\* it is told about those of all tabs.
TypeOK ==
  /\ R!TypeOK
  /\ socket \in [Tab -> {"connecting", "open", "ended"}]
  /\ up \in [Tab -> Seq(Tx)]
  /\ \A t \in Tab : \A i \in DOMAIN down[t] :
       down[t][i] \in [type : {"broadcast", "ack", "settled", "refused", "error", "reload"},
                       tx : Tx \cup {0}, seq : 0 .. MaxEdits]
  /\ status \in [Tab -> {"idle", "syncing"}]
  /\ reloading \in [Tab -> BOOLEAN]
  /\ author \in Seq(Tab) /\ Len(author) <= MaxEdits
  /\ fate \in [Tx -> {"new", "sequenced", "saved", "refused", "lost"}]
  /\ number \in [Tx -> Nat] /\ settled \in 0 .. lastSeq
  /\ limited \subseteq Tx /\ offline \subseteq Tx
  /\ \A t \in Tab : pending[t] \cup timer[t] \cup durable[t] \cup dropped[t]
                      \cup edited[t] \subseteq Mine(t)

\* What the tracker reports (onDurable, onDropped) is so: a durable edit has
\* been saved, or its refusal was overtaken by the acknowledgement of its
\* number; a dropped one was not saved.
ReportsAreTrue ==
  \A t \in Tab :
    /\ \A x \in durable[t] : fate[x] \in {"saved", "refused", "lost"}
    /\ \A x \in dropped[t] : fate[x] \in {"refused", "lost"}

\* A tab that is connected never waits for nothing: for every pending edit
\* there is a message under way in one of the directions, or its retry timer
\* is armed.  (A tab that is not connected sends everything again when it is.)
NothingHangs ==
  \A t \in Tab : socket[t] = "open" =>
    \A x \in pending[t] : InFlight(t, x) > 0 \/ x \in timer[t]

\* See RetryTracker.
RetryArmed == R!RetryArmed

Settled(x) == fate[x] \in {"saved", "refused", "lost"}

\* A tab shows "idle" only when nothing it has edited is still to be decided,
\* as long as it has not been asked to reload.
IdleMeansSettled ==
  \A t \in Tab : status[t] = "idle" /\ ~stopped[t] => \A x \in edited[t] : Settled(x)

\* The edits of a tab get their numbers in the order they were made, through
\* lost connections and double sending.  Two ways to overtake are known: an
\* edit the relay has put off is sent again after later ones, and an edit made
\* while the socket reconnects is in the socket's queue, ahead of those lost
\* with the old connection, which are only sent again by onOpen.
SequencedInOrder ==
  \A t \in Tab : \A x, y \in Mine(t) :
    x < y /\ number[y] # 0 =>
      \/ x \in limited \/ y \in limited \cup offline
      \/ fate[x] = "refused"
      \/ number[x] \in 1 .. number[y] - 1

\* "keeps unsaved state until all local applies are durable"
\* (multiplayer-sync.test.ts:43): a tab that is idle, and has finished the
\* reload it was asked for, has no edit that is still to be decided.
UnsavedUntilSettled ==
  \A t \in Tab :
    status[t] = "idle" /\ ~reloading[t] => \A x \in edited[t] : Settled(x)
=============================================================================
