----------------------- MODULE SingleplayerSync_proofs -----------------------
(***************************************************************************)
(* Proofs about SingleplayerSync, for every number of tabs, handlers,      *)
(* edits, loads and faults: its types, and that a tab which believes that  *)
(* its queue is polled has a loop that polls it.                           *)
(***************************************************************************)
EXTENDS SingleplayerSync, TLAPS

\* The proved facts about the patch service, which receives its requests from
\* the queues here and not from a fixed set.
SP == INSTANCE PatchService_proofs WITH Cyclic <- CyclicEdits, AssetTx <- {},
        PreviewTx <- {}, Importer <- {}, Request <- {}

(***************************************************************************)
(* The inductive invariant.                                                *)
(***************************************************************************)

\* A loop that is working has a command, one that has sent it sent edits of a
\* project whose version it knows.
Shape(s) ==
  /\ s.pc \in {"run", "wait", "backoff"} => s.rest # << >>
  /\ s.pc \in {"wait", "backoff"} =>
       Head(s.rest).type = "transactions" /\ s.version # Q!Undefined

\* Without a controller nothing is polling, so that the next startPolling
\* starts a loop; with one its loop is there.  Loops are started in order.
Polled(t) ==
  /\ controller[t] <= started[t]
  /\ controller[t] = 0 => ~isPolling[t]
  /\ controller[t] # 0 => Q!Serving(t, controller[t])
  /\ \A l \in Loop : l > started[t] => loop[t][l].pc = "off"

QueueInv ==
  /\ Q!TypeOK
  /\ \A t \in Tab : Polled(t) /\ \A l \in Loop : Shape(loop[t][l])

TabType ==
  /\ session \in [Tab -> {"closed", "loading", "open"}]
  /\ loaded \in [Tab -> [version : Nat, log : Seq(Tx)]]
  /\ edited \in [Tab -> SUBSET Tx]
  /\ doc \in [Tab -> Seq(Tx)]
  /\ view \in Seq(Seq(Tx))
  /\ loads \in [Tab -> 0 .. MaxLoads]

NetType ==
  /\ conn \in [Tab -> [Loop -> Handler \cup {NoHandler}]]
  /\ faults \in 0 .. MaxFaults

CoreInv == QueueInv /\ SP!TypeInv /\ TabType /\ NetType

(***************************************************************************)
(* The queue.                                                              *)
(***************************************************************************)

LEMMA QueueIs ==
  ASSUME QueueInv, NEW t \in Tab
  PROVE  /\ queue[t] \in Seq(Q!Command) /\ status[t] \in Q!Status
         /\ loop[t] \in [Loop -> Q!LoopState] /\ started[t] \in 0 .. MaxLoads
         /\ controller[t] \in 0 .. MaxLoads /\ isPolling[t] \in BOOLEAN
         /\ completed[t] \in SUBSET Tx
BY DEF QueueInv, Q!TypeOK, Loop, Q!Loop

LEMMA LoopIs ==
  ASSUME QueueInv, NEW t \in Tab, NEW l \in Loop
  PROVE  /\ loop[t][l] \in Q!LoopState /\ Shape(loop[t][l])
         /\ loop[t][l].rest \in Seq(Q!Command)
         /\ loop[t][l].rest # << >> => Head(loop[t][l].rest) \in Q!Command
BY QueueIs DEF QueueInv, Q!LoopState

\* A step of one loop, started already, that is not stopped by it.
LEMMA LoopMoves ==
  ASSUME QueueInv, NEW t \in Tab, NEW l \in Loop, NEW s \in Q!LoopState,
         loop' = [loop EXCEPT ![t][l] = s], loop[t][l].pc # "off", s.pc # "off",
         s.aborted = loop[t][l].aborted, Shape(s),
         queue' \in [Tab -> Seq(Q!Command)], status' \in [Tab -> Q!Status],
         completed' \in [Tab -> SUBSET Tx], UNCHANGED << started, controller >>,
         isPolling' = isPolling \/ isPolling' = [isPolling EXCEPT ![t] = FALSE]
  PROVE  QueueInv'
<1>1. loop \in [Tab -> [Loop -> Q!LoopState]] /\ isPolling \in [Tab -> BOOLEAN]
  BY DEF QueueInv, Q!TypeOK, Loop, Q!Loop
<1>2. loop' \in [Tab -> [Loop -> Q!LoopState]] /\ isPolling' \in [Tab -> BOOLEAN]
  BY <1>1
<1>3. Q!TypeOK'
  BY <1>2 DEF QueueInv, Q!TypeOK, Loop, Q!Loop
<1>4. ASSUME NEW u \in Tab, NEW k \in Loop
      PROVE  /\ Shape(loop'[u][k])
             /\ loop'[u][k].pc = "off" <=> loop[u][k].pc = "off"
             /\ loop'[u][k].aborted = loop[u][k].aborted
  <2>1. CASE u = t /\ k = l
    BY <1>1, <2>1
  <2>2. CASE ~(u = t /\ k = l)
    <3>1. loop'[u][k] = loop[u][k]
      BY <1>1, <2>2
    <3> QED BY <3>1, LoopIs
  <2> QED BY <2>1, <2>2
<1>5. ASSUME NEW u \in Tab PROVE Polled(u)'
  <2>1. isPolling'[u] => isPolling[u]
    BY <1>1
  <2>2. Polled(u) /\ controller[u] \in 0 .. MaxLoads
    BY QueueIs DEF QueueInv
  <2>3. controller[u] # 0 => controller[u] \in Loop
    BY <2>2, SyncAssumption DEF Loop
  <2>4. controller[u] # 0 => Q!Serving(u, controller[u])'
    BY <1>4, <2>2, <2>3 DEF Polled, Q!Serving
  <2> QED BY <1>4, <2>1, <2>2, <2>4 DEF Polled
<1> QED BY <1>3, <1>4, <1>5 DEF QueueInv


LEMMA TailOf ==
  ASSUME NEW E, NEW seq \in Seq(E), seq # << >>
  PROVE  /\ Tail(seq) \in Seq(E)
         /\ Len(seq) # 1 => Tail(seq) # << >>
<1>1. Tail(seq) \in Seq(E) /\ Len(Tail(seq)) = Len(seq) - 1 /\ Len(seq) \in Nat
  OBVIOUS
<1>2. Len(<< >>) = 0
  OBVIOUS
<1>3. Len(seq) # 1 => Len(Tail(seq)) # 0
  BY <1>1
<1> QED BY <1>1, <1>2, <1>3

\* The next command of a loop that has one.
LEMMA Advanced ==
  ASSUME NEW s \in Q!LoopState, s.rest # << >>
  PROVE  /\ Q!Advance(s) \in Q!LoopState /\ Shape(Q!Advance(s)) /\ Q!Advance(s).pc # "off"
         /\ Q!Advance(s).aborted = s.aborted
         /\ Q!Advance(s).pc \in {"pause", "run"} /\ Q!Advance(s).rest = Tail(s.rest)
         /\ Q!Advance(s).pc = "run" => Tail(s.rest) # << >>
<1>1. PICK pc \in {"pause", "run"} : pc = IF Len(s.rest) = 1 THEN "pause" ELSE "run"
  OBVIOUS
<1>0. s.rest \in Seq(Q!Command)
  BY DEF Q!LoopState
<1>2. PICK rest \in Seq(Q!Command) : rest = Tail(s.rest)
  BY <1>0, TailOf
<1>3. pc = "run" => rest # << >>
  BY <1>0, <1>1, <1>2, TailOf
<1>4. 0 \in 0 .. MaxRetryRecovery /\ 0 \in 0 .. MaxAllowedApiErrors
  BY SyncAssumption
<1>5. PICK n : n = [s EXCEPT !.rest = rest, !.pc = pc, !.attempts = 0, !.apiErrors = 0]
  OBVIOUS
<1>6. n \in Q!LoopState /\ n.pc = pc /\ n.rest = rest /\ n.aborted = s.aborted
  BY <1>4, <1>5 DEF Q!LoopState
<1>7. n = Q!Advance(s)
  BY <1>1, <1>2, <1>5 DEF Q!Advance
<1> QED BY <1>1, <1>2, <1>3, <1>6, <1>7 DEF Shape

LEMMA QueuePoll ==
  ASSUME QueueInv, NEW t \in Tab, NEW l \in Loop, Q!Poll(t, l)
  PROVE  QueueInv'
<1>1. PICK s : s = [loop[t][l] EXCEPT !.pc = "run", !.rest = queue[t]]
  OBVIOUS
<1>2. loop[t][l].pc = "pause" /\ UNCHANGED << started, controller, isPolling, completed >>
  BY DEF Q!Poll
<1>3. /\ queue \in [Tab -> Seq(Q!Command)] /\ status \in [Tab -> Q!Status]
      /\ completed \in [Tab -> SUBSET Tx] /\ loop \in [Tab -> [Loop -> Q!LoopState]]
  BY DEF QueueInv, Q!TypeOK, Loop, Q!Loop
<1>4. status' \in [Tab -> Q!Status]
  BY <1>3 DEF Q!Poll, Q!Status
<1>5. CASE queue[t] = << >>
  <2>1. UNCHANGED << queue, loop >>
    BY <1>5 DEF Q!Poll
  <2>2. Q!TypeOK'
    BY <1>2, <1>3, <1>4, <2>1 DEF QueueInv, Q!TypeOK
  <2> QED BY <1>2, <2>1, <2>2 DEF QueueInv, Polled, Q!Serving
<1>6. CASE queue[t] # << >>
  <2>1. loop' = [loop EXCEPT ![t][l] = s] /\ queue' = [queue EXCEPT ![t] = << >>]
    <3>1. /\ loop' = [loop EXCEPT ![t][l].pc = "run", ![t][l].rest = queue[t]]
          /\ queue' = [queue EXCEPT ![t] = << >>]
      BY <1>6 DEF Q!Poll
    <3>2. loop \in [Tab -> [Loop -> Q!LoopState]]
      BY <1>3
    <3>3. PICK row \in [Loop -> Q!LoopState] : row = loop[t]
      BY <3>2
    <3>4. loop' = [loop EXCEPT ![t][l] = [row[l] EXCEPT !.pc = "run", !.rest = queue[t]]]
      BY <3>1, <3>2, <3>3
    <3> QED BY <1>1, <3>1, <3>3, <3>4
  <2>2. s \in Q!LoopState /\ s.pc = "run" /\ s.rest = queue[t] /\ s.aborted = loop[t][l].aborted
    <3>1. PICK old \in Q!LoopState : old = loop[t][l]
      BY LoopIs
    <3>2. PICK commands \in Seq(Q!Command) : commands = queue[t]
      BY QueueIs
    <3> QED BY <1>1, <3>1, <3>2 DEF Q!LoopState
  <2>3. Shape(s)
    BY <1>6, <2>2 DEF Shape
  <2>4. queue' \in [Tab -> Seq(Q!Command)]
    BY <1>3, <2>1
  <2> QED BY <1>2, <1>3, <1>4, <2>1, <2>2, <2>3, <2>4, LoopMoves
<1> QED BY <1>5, <1>6

\* A loop that ends, because it was stopped or because it cannot go on.
LEMMA LoopEnds ==
  ASSUME QueueInv, NEW t \in Tab, NEW l \in Loop, loop[t][l].pc # "off",
         loop' = [loop EXCEPT ![t][l].pc = "done", ![t][l].rest = << >>],
         status' \in [Tab -> Q!Status], UNCHANGED << queue, started, controller, completed >>,
         isPolling' = isPolling \/ isPolling' = [isPolling EXCEPT ![t] = FALSE]
  PROVE  QueueInv'
<1>1. PICK s : s = [loop[t][l] EXCEPT !.pc = "done", !.rest = << >>]
  OBVIOUS
<1>2. /\ queue \in [Tab -> Seq(Q!Command)] /\ completed \in [Tab -> SUBSET Tx]
      /\ loop \in [Tab -> [Loop -> Q!LoopState]]
  BY DEF QueueInv, Q!TypeOK, Loop, Q!Loop
<1>3. loop' = [loop EXCEPT ![t][l] = s]
  BY <1>1, <1>2
<1>4. s \in Q!LoopState /\ s.pc = "done" /\ s.aborted = loop[t][l].aborted
  <2>1. PICK old \in Q!LoopState : old = loop[t][l]
    BY LoopIs
  <2>2. << >> \in Seq(Q!Command)
    OBVIOUS
  <2> QED BY <1>1, <2>1, <2>2 DEF Q!LoopState
<1>5. Shape(s)
  BY <1>4 DEF Shape
<1>6. queue' \in [Tab -> Seq(Q!Command)] /\ completed' \in [Tab -> SUBSET Tx]
  BY <1>2
<1>7. s.pc # "off"
  BY <1>4
<1> QED BY <1>3, <1>4, <1>5, <1>6, <1>7, LoopMoves

LEMMA QueueEnds ==
  ASSUME QueueInv, NEW t \in Tab, NEW l \in Loop,
         Q!Abort(t, l) \/ Q!Outdated(t, l) \/ Q!ReplyFatal(t, l)
  PROVE  QueueInv'
<1>1. loop[t][l].pc # "off"
  BY DEF Q!Abort, Q!Outdated, Q!ReplyFatal
<1>2. status' \in [Tab -> Q!Status]
  <2>1. status \in [Tab -> Q!Status]
    BY DEF QueueInv, Q!TypeOK
  <2> QED BY <2>1 DEF Q!Abort, Q!Outdated, Q!ReplyFatal, Q!Stop, Q!Status
<1> QED BY <1>1, <1>2, LoopEnds DEF Q!Abort, Q!Outdated, Q!ReplyFatal, Q!Stop

LEMMA QueueSetDetails ==
  ASSUME QueueInv, NEW t \in Tab, NEW l \in Loop, Q!SetDetails(t, l)
  PROVE  QueueInv'
<1>1. PICK a : a = Q!Advance(loop[t][l])
  OBVIOUS
<1>2. PICK s : s = [a EXCEPT !.version = Q!Current(t, l).version]
  OBVIOUS
<1>3. /\ queue \in [Tab -> Seq(Q!Command)] /\ status \in [Tab -> Q!Status]
      /\ completed \in [Tab -> SUBSET Tx] /\ loop \in [Tab -> [Loop -> Q!LoopState]]
  BY DEF QueueInv, Q!TypeOK, Loop, Q!Loop
<1>4. loop[t][l].pc = "run" /\ loop[t][l].rest # << >>
  BY LoopIs DEF Shape, Q!SetDetails
<1>5. /\ a \in Q!LoopState /\ Shape(a) /\ a.pc # "off" /\ a.aborted = loop[t][l].aborted
      /\ a.pc \in {"pause", "run"}
  BY <1>1, <1>4, LoopIs, Advanced
<1>6. Q!Current(t, l).version \in Nat
  BY <1>4, LoopIs DEF Q!Current, Q!Command, Q!SetDetails
<1>7. /\ s \in Q!LoopState /\ s.pc = a.pc /\ s.aborted = a.aborted /\ s.rest = a.rest
  BY <1>2, <1>5, <1>6 DEF Q!LoopState
<1>8. Shape(s)
  BY <1>5, <1>7 DEF Shape
<1>9. loop' = [loop EXCEPT ![t][l] = s]
  BY <1>1, <1>2, <1>3 DEF Q!SetDetails
<1>10. UNCHANGED << queue, status, started, controller, isPolling, completed >>
  BY DEF Q!SetDetails
<1> QED BY <1>3, <1>4, <1>5, <1>7, <1>8, <1>9, <1>10, LoopMoves

LEMMA QueueSend ==
  ASSUME QueueInv, NEW t \in Tab, NEW l \in Loop, Q!Send(t, l)
  PROVE  /\ QueueInv'
         /\ Q!Current(t, l).txs \in Seq(Tx) /\ loop[t][l].version \in Nat
<1>1. PICK s : s = [loop[t][l] EXCEPT !.pc = "wait"]
  OBVIOUS
<1>2. /\ queue \in [Tab -> Seq(Q!Command)] /\ status \in [Tab -> Q!Status]
      /\ completed \in [Tab -> SUBSET Tx] /\ loop \in [Tab -> [Loop -> Q!LoopState]]
  BY DEF QueueInv, Q!TypeOK, Loop, Q!Loop
<1>3. loop[t][l].pc \in {"run", "backoff"} /\ loop[t][l].rest # << >>
  BY LoopIs DEF Shape, Q!Send
<1>4. Head(loop[t][l].rest).type = "transactions" /\ loop[t][l].version # Q!Undefined
  BY LoopIs DEF Shape, Q!Send, Q!Current
<1>5. /\ s \in Q!LoopState /\ s.rest = loop[t][l].rest /\ s.version = loop[t][l].version
      /\ s.aborted = loop[t][l].aborted /\ s.pc = "wait"
  <2>1. PICK old \in Q!LoopState : old = loop[t][l]
    BY LoopIs
  <2> QED BY <1>1, <2>1 DEF Q!LoopState
<1>6. Shape(s)
  BY <1>3, <1>4, <1>5 DEF Shape
<1>7. loop' = [loop EXCEPT ![t][l] = s]
  BY <1>1, <1>2 DEF Q!Send
<1>8. UNCHANGED << queue, status, started, controller, isPolling, completed >>
  BY DEF Q!Send
<1>9. QueueInv'
  BY <1>2, <1>3, <1>5, <1>6, <1>7, <1>8, LoopMoves
<1>10. Q!Current(t, l).txs \in Seq(Tx)
  <2>1. Head(loop[t][l].rest) \in Q!Command
    BY <1>3, LoopIs
  <2> QED BY <1>4, <2>1 DEF Q!Command, Q!Current
<1>11. loop[t][l].version \in Nat
  BY <1>2, <1>4 DEF Q!LoopState
<1> QED BY <1>9, <1>10, <1>11

LEMMA QueueBackoff ==
  ASSUME QueueInv, NEW t \in Tab, NEW l \in Loop, loop[t][l].pc = "wait",
         NEW errors \in 0 .. MaxAllowedApiErrors, Q!Backoff(t, l, errors)
  PROVE  QueueInv'
<1>1. PICK old : old = loop[t][l]
  OBVIOUS
<1>2. /\ queue \in [Tab -> Seq(Q!Command)] /\ status \in [Tab -> Q!Status]
      /\ completed \in [Tab -> SUBSET Tx] /\ loop \in [Tab -> [Loop -> Q!LoopState]]
  BY DEF QueueInv, Q!TypeOK, Loop, Q!Loop
<1>3. old \in Q!LoopState /\ old.attempts \in 0 .. MaxRetryRecovery /\ Shape(old)
  BY <1>1, LoopIs DEF Q!LoopState
<1>4. PICK n \in 0 .. MaxRetryRecovery :
        n = IF old.attempts < MaxRetryRecovery THEN old.attempts + 1 ELSE old.attempts
  BY <1>3, SyncAssumption
<1>5. PICK s : s = [old EXCEPT !.pc = "backoff", !.apiErrors = errors, !.attempts = n]
  OBVIOUS
<1>6. /\ s \in Q!LoopState /\ s.rest = old.rest /\ s.version = old.version
      /\ s.aborted = old.aborted /\ s.pc = "backoff"
  BY <1>3, <1>5 DEF Q!LoopState
<1>7. Shape(s)
  BY <1>1, <1>3, <1>6 DEF Shape
<1>8. loop' = [loop EXCEPT ![t][l] = s]
  <2>1. loop' = [loop EXCEPT ![t][l].pc = "backoff", ![t][l].apiErrors = errors,
                             ![t][l].attempts = n]
    BY <1>1, <1>2, <1>4 DEF Q!Backoff
  <2> QED BY <1>1, <1>2, <1>5, <2>1
<1>9. status' \in [Tab -> Q!Status]
  BY <1>2 DEF Q!Backoff, Q!Status
<1>10. UNCHANGED << queue, started, controller, isPolling, completed >>
  BY DEF Q!Backoff
<1>11. s.pc # "off" /\ loop[t][l].pc # "off" /\ s.aborted = loop[t][l].aborted
  BY <1>1, <1>6
<1> QED BY <1>2, <1>6, <1>7, <1>8, <1>9, <1>10, <1>11, LoopMoves

LEMMA QueueReplyOk ==
  ASSUME QueueInv, NEW t \in Tab, NEW l \in Loop, NEW version \in Nat, Q!ReplyOk(t, l, version)
  PROVE  QueueInv'
<1>1. PICK a : a = Q!Advance(loop[t][l])
  OBVIOUS
<1>2. PICK s : s = [a EXCEPT !.version = version]
  OBVIOUS
<1>3. /\ queue \in [Tab -> Seq(Q!Command)] /\ status \in [Tab -> Q!Status]
      /\ completed \in [Tab -> SUBSET Tx] /\ loop \in [Tab -> [Loop -> Q!LoopState]]
  BY DEF QueueInv, Q!TypeOK, Loop, Q!Loop
<1>4. loop[t][l].pc = "wait" /\ loop[t][l].rest # << >>
      /\ Head(loop[t][l].rest).type = "transactions"
  BY LoopIs DEF Shape, Q!ReplyOk
<1>5. /\ a \in Q!LoopState /\ Shape(a) /\ a.pc # "off" /\ a.aborted = loop[t][l].aborted
      /\ a.pc \in {"pause", "run"}
  BY <1>1, <1>4, LoopIs, Advanced
<1>6. Range(Q!Current(t, l).txs) \subseteq Tx
  <2>1. Head(loop[t][l].rest) \in Q!Command
    BY <1>4, LoopIs
  <2>2. Head(loop[t][l].rest).txs \in Seq(Tx)
    BY <1>4, <2>1 DEF Q!Command
  <2> QED BY <2>2 DEF Q!Current, Range
<1>7. /\ s \in Q!LoopState /\ s.pc = a.pc /\ s.aborted = a.aborted /\ s.rest = a.rest
  BY <1>2, <1>5 DEF Q!LoopState
<1>8. Shape(s)
  BY <1>5, <1>7 DEF Shape
<1>9. loop' = [loop EXCEPT ![t][l] = s]
  BY <1>1, <1>2, <1>3 DEF Q!ReplyOk
<1>10. UNCHANGED << queue, status, started, controller, isPolling >>
  BY DEF Q!ReplyOk
<1>11. completed' \in [Tab -> SUBSET Tx]
  <2>1. \A f : Q!Range(f) = Range(f)
    BY DEF Q!Range, Range
  <2>2. completed' = [completed EXCEPT ![t] = @ \cup Range(Q!Current(t, l).txs)]
    BY <2>1 DEF Q!ReplyOk
  <2> QED BY <1>3, <1>6, <2>2
<1> QED BY <1>3, <1>4, <1>5, <1>7, <1>8, <1>9, <1>10, <1>11, LoopMoves


LEMMA QueueReplies ==
  ASSUME QueueInv, NEW t \in Tab, NEW l \in Loop, Q!NetworkError(t, l) \/ Q!ReplyError(t, l)
  PROVE  QueueInv'
<1>1. loop[t][l].pc = "wait" /\ loop[t][l].apiErrors \in 0 .. MaxAllowedApiErrors
  BY LoopIs DEF Q!NetworkError, Q!ReplyError, Q!LoopState
<1>2. CASE Q!NetworkError(t, l)
  BY <1>1, <1>2, QueueBackoff DEF Q!NetworkError
<1>3. CASE Q!ReplyError(t, l)
  <2>1. CASE Q!Stop(t, l)
    <3>1. status' \in [Tab -> Q!Status]
      BY <2>1 DEF QueueInv, Q!TypeOK, Q!Stop, Q!Status
    <3> QED BY <1>1, <2>1, <3>1, LoopEnds DEF Q!Stop
  <2>2. CASE ~Q!Stop(t, l)
    <3>1. PICK errors \in 0 .. MaxAllowedApiErrors :
            errors = loop[t][l].apiErrors + 1 /\ Q!Backoff(t, l, loop[t][l].apiErrors + 1)
      BY <1>1, <1>3, <2>2, SyncAssumption DEF Q!ReplyError
    <3> QED BY <1>1, <3>1, QueueBackoff
  <2> QED BY <2>1, <2>2
<1> QED BY <1>2, <1>3

\* Calls of the application that leave the loops alone.
LEMMA QueueTakes ==
  ASSUME QueueInv, UNCHANGED << loop, started, controller, isPolling, completed >>,
         queue' \in [Tab -> Seq(Q!Command)], status' \in [Tab -> Q!Status]
  PROVE  QueueInv'
BY DEF QueueInv, Q!TypeOK, Polled, Q!Serving

LEMMA CommandsType ==
  /\ \A version \in Nat : [type |-> "setDetails", version |-> version] \in Q!Command
  /\ \A txs \in Seq(Tx) : [type |-> "transactions", txs |-> txs] \in Q!Command
BY DEF Q!Command

LEMMA EnqueueType ==
  ASSUME NEW commands \in Seq(Q!Command), NEW x \in Tx
  PROVE  Q!Enqueue(commands, x) \in Seq(Q!Command)
<1>1. CASE Len(commands) > 0 /\ commands[Len(commands)].type = "transactions"
  <2>1. PICK n \in DOMAIN commands : n = Len(commands)
    BY <1>1
  <2>2. PICK old : old = commands[n]
    OBVIOUS
  <2>3. old \in [type : {"transactions"}, txs : Seq(Tx)]
    BY <1>1, <2>1, <2>2 DEF Q!Command
  <2>10. PICK before \in Seq(Tx) : before = old.txs
    BY <2>3
  <2>11. Append(before, x) \in Seq(Tx)
    OBVIOUS
  <2>4. PICK txs \in Seq(Tx) : txs = Append(old.txs, x)
    BY <2>10, <2>11
  <2>5. PICK new : new = [old EXCEPT !.txs = txs]
    OBVIOUS
  <2>6. new \in Q!Command
    BY <2>3, <2>5 DEF Q!Command
  <2>7. Q!Enqueue(commands, x) = [commands EXCEPT ![n] = new]
    BY <1>1, <2>1, <2>2, <2>4, <2>5 DEF Q!Enqueue
  <2> QED BY <2>6, <2>7
<1>2. CASE ~(Len(commands) > 0 /\ commands[Len(commands)].type = "transactions")
  <2>1. << x >> \in Seq(Tx)
    OBVIOUS
  <2>2. PICK c \in Q!Command : c = [type |-> "transactions", txs |-> << x >>]
    BY <2>1, CommandsType
  <2>3. Q!Enqueue(commands, x) = Append(commands, c)
    BY <1>2, <2>2 DEF Q!Enqueue
  <2>4. Append(commands, c) \in Seq(Q!Command)
    OBVIOUS
  <2> QED BY <2>3, <2>4
<1> QED BY <1>1, <1>2

LEMMA QueueSendTransaction ==
  ASSUME QueueInv, NEW t \in Tab, NEW x \in Tx, Q!SendTransaction(t, x)
  PROVE  QueueInv'
<1>1. queue \in [Tab -> Seq(Q!Command)] /\ status \in [Tab -> Q!Status]
  BY DEF QueueInv, Q!TypeOK
<1>2. queue' \in [Tab -> Seq(Q!Command)] /\ status' \in [Tab -> Q!Status]
  BY <1>1, EnqueueType DEF Q!SendTransaction, Q!Status
<1> QED BY <1>2, QueueTakes DEF Q!SendTransaction

\* Tab t starts loop k, in state s, with the commands of its queue.
StartsLoop(t, k, s, commands) ==
  /\ k = started[t] + 1 /\ loop[t][k].pc = "off"
  /\ s.pc = "run" /\ ~s.aborted /\ s.rest = commands /\ s.version = Q!Undefined /\ Shape(s)
  /\ started' = [started EXCEPT ![t] = k] /\ controller' = [controller EXCEPT ![t] = k]
  /\ isPolling' = [isPolling EXCEPT ![t] = TRUE]
  /\ loop' = [loop EXCEPT ![t][k] = s]
  /\ queue' = [queue EXCEPT ![t] = << >>] /\ status' = [status EXCEPT ![t] = "syncing"]

\* Without a controller the details start a loop, because nothing is polling.
LEMMA DetailsStart ==
  ASSUME QueueInv, NEW t \in Tab, NEW version \in Nat, Q!EnqueueProjectDetails(t, version),
         controller[t] = 0, NEW commands \in Seq(Q!Command),
         commands = Append(queue[t], [type |-> "setDetails", version |-> version])
  PROVE  \E k \in Loop, s \in Q!LoopState : StartsLoop(t, k, s, commands)
<1>1. ~isPolling[t] /\ started[t] < MaxLoads /\ Polled(t) /\ started[t] \in Nat
  BY QueueIs, SyncAssumption DEF QueueInv, Polled, Q!EnqueueProjectDetails
<1>2. PICK k \in Loop : k = started[t] + 1
  BY <1>1, SyncAssumption DEF Loop
<1>3. loop[t][k].pc = "off"
  BY <1>1, <1>2 DEF Polled
<1>4. PICK s : s = [Q!Off EXCEPT !.pc = "run", !.rest = commands]
  OBVIOUS
<1>5. /\ started' = [started EXCEPT ![t] = k] /\ controller' = [controller EXCEPT ![t] = k]
      /\ isPolling' = [isPolling EXCEPT ![t] = TRUE]
      /\ loop' = [loop EXCEPT ![t][k] = s]
      /\ queue' = [queue EXCEPT ![t] = << >>] /\ status' = [status EXCEPT ![t] = "syncing"]
  BY <1>1, <1>2, <1>4 DEF Q!EnqueueProjectDetails
<1>6. /\ s \in Q!LoopState /\ s.pc = "run" /\ ~s.aborted /\ s.rest = commands
      /\ s.version = Q!Undefined
  <2>1. 0 \in 0 .. MaxRetryRecovery /\ 0 \in 0 .. MaxAllowedApiErrors
        /\ << >> \in Seq(Q!Command)
    BY SyncAssumption
  <2>2. Q!Off \in Q!LoopState /\ ~Q!Off.aborted /\ Q!Off.version = Q!Undefined
    BY <2>1 DEF Q!Off, Q!LoopState
  <2> QED BY <1>4, <2>2 DEF Q!LoopState
<1>7. Shape(s)
  BY <1>6 DEF Shape
<1>8. StartsLoop(t, k, s, commands)
  BY <1>2, <1>3, <1>5, <1>6, <1>7 DEF StartsLoop
<1> QED BY <1>6, <1>8

\* A controller is made together with its loop, because nothing is polling.
LEMMA QueueDetails ==
  ASSUME QueueInv, NEW t \in Tab, NEW version \in Nat, Q!EnqueueProjectDetails(t, version)
  PROVE  QueueInv'
<1>1. PICK commands : commands = Append(queue[t], [type |-> "setDetails", version |-> version])
  OBVIOUS
<1>2. /\ queue \in [Tab -> Seq(Q!Command)] /\ status \in [Tab -> Q!Status]
      /\ completed \in [Tab -> SUBSET Tx] /\ loop \in [Tab -> [Loop -> Q!LoopState]]
      /\ started \in [Tab -> 0 .. MaxLoads] /\ controller \in [Tab -> 0 .. MaxLoads]
      /\ isPolling \in [Tab -> BOOLEAN] /\ completed' = completed
  BY DEF QueueInv, Q!TypeOK, Loop, Q!Loop, Q!EnqueueProjectDetails
<1>3. commands \in Seq(Q!Command) /\ commands # << >>
  <2>1. [type |-> "setDetails", version |-> version] \in Q!Command
    BY CommandsType
  <2>2. queue[t] \in Seq(Q!Command)
    BY <1>2
  <2> QED BY <1>1, <2>1, <2>2
<1>4. CASE controller[t] # 0
  <2>1. queue' = [queue EXCEPT ![t] = commands]
        /\ UNCHANGED << status, loop, started, controller, isPolling >>
    BY <1>1, <1>4 DEF Q!EnqueueProjectDetails
  <2> QED BY <1>2, <1>3, <2>1, QueueTakes
<1>5. CASE controller[t] = 0
  <2>1. Polled(t)
    BY DEF QueueInv
  <2>starts. PICK k \in Loop, s \in Q!LoopState : StartsLoop(t, k, s, commands)
    BY <1>1, <1>3, <1>5, DetailsStart
  <2>2. /\ k = started[t] + 1 /\ loop[t][k].pc = "off"
        /\ s.pc = "run" /\ ~s.aborted /\ s.rest = commands /\ s.version = Q!Undefined /\ Shape(s)
        /\ started' = [started EXCEPT ![t] = k] /\ controller' = [controller EXCEPT ![t] = k]
        /\ isPolling' = [isPolling EXCEPT ![t] = TRUE]
        /\ loop' = [loop EXCEPT ![t][k] = s]
        /\ queue' = [queue EXCEPT ![t] = << >>] /\ status' = [status EXCEPT ![t] = "syncing"]
    BY <2>starts DEF StartsLoop
  <2>3. /\ queue' \in [Tab -> Seq(Q!Command)] /\ status' \in [Tab -> Q!Status]
        /\ loop' \in [Tab -> [Loop -> Q!LoopState]] /\ isPolling' \in [Tab -> BOOLEAN]
    BY <1>2, <2>2 DEF Q!Status
  <2>4. started' \in [Tab -> 0 .. MaxLoads] /\ controller' \in [Tab -> 0 .. MaxLoads]
    <3>1. k \in 0 .. MaxLoads
      BY <2>2, SyncAssumption DEF Loop
    <3> QED BY <1>2, <2>2, <3>1
  <2>5. Q!TypeOK'
    BY <1>2, <2>3, <2>4 DEF Q!TypeOK, Loop, Q!Loop
  <2>6. ASSUME NEW u \in Tab, NEW l \in Loop PROVE Shape(loop'[u][l])
    <3>1. CASE u = t /\ l = k
      BY <1>2, <2>2, <3>1
    <3>2. CASE ~(u = t /\ l = k)
      <4>1. loop'[u][l] = loop[u][l]
        BY <1>2, <2>2, <3>2
      <4> QED BY <4>1, LoopIs
    <3> QED BY <3>1, <3>2
  <2>7. ASSUME NEW u \in Tab PROVE Polled(u)'
    <3>1. CASE u = t
      <4>1. controller'[t] = k /\ started'[t] = k /\ k # 0 /\ k \in Nat /\ started[t] \in Nat
        BY <1>2, <2>2, SyncAssumption DEF Loop
      <4>2. Q!Serving(t, k)'
        BY <1>2, <2>2 DEF Q!Serving
      <4>3. ASSUME NEW l \in Loop, l > k PROVE loop'[t][l].pc = "off"
        <5>1. l > started[t] /\ l # k
          BY <2>2, <4>1, <4>3, SyncAssumption DEF Loop
        <5>2. loop'[t][l] = loop[t][l]
          BY <1>2, <2>2, <5>1
        <5> QED BY <2>1, <5>1, <5>2 DEF Polled
      <4>4. controller'[t] <= started'[t] /\ controller'[t] # 0
        BY <4>1
      <4>5. Q!Serving(t, controller[t])'
        BY <4>1, <4>2 DEF Q!Serving
      <4>6. \A l \in Loop : l > started'[t] => loop'[t][l].pc = "off"
        BY <4>1, <4>3
      <4> QED BY <3>1, <4>4, <4>5, <4>6 DEF Polled
    <3>2. CASE u # t
      <4>1. /\ loop'[u] = loop[u] /\ started'[u] = started[u] /\ controller'[u] = controller[u]
            /\ isPolling'[u] = isPolling[u]
        BY <1>2, <2>2, <3>2
      <4>2. Polled(u)
        BY DEF QueueInv
      <4> QED BY <4>1, <4>2 DEF Polled, Q!Serving
    <3> QED BY <3>1, <3>2
  <2> QED BY <2>5, <2>6, <2>7 DEF QueueInv
<1> QED BY <1>4, <1>5

\* Stopping marks the loop of the controller as aborted and changes nothing
\* else of the loops.
LEMMA StopMarks ==
  ASSUME QueueInv, NEW t \in Tab, Q!StopPolling(t)
  PROVE  /\ loop' \in [Tab -> [Loop -> Q!LoopState]]
         /\ \A u \in Tab, l \in Loop :
              /\ loop'[u][l].pc = loop[u][l].pc /\ loop'[u][l].rest = loop[u][l].rest
              /\ loop'[u][l].version = loop[u][l].version
         /\ \A u \in Tab \ {t} : loop'[u] = loop[u]
         /\ \A l \in Loop : Q!Serving(t, l)' => Q!Serving(t, l) /\ l # controller[t]
<1>1. /\ loop \in [Tab -> [Loop -> Q!LoopState]]
      /\ controller \in [Tab -> 0 .. MaxLoads]
  BY DEF QueueInv, Q!TypeOK, Loop, Q!Loop
<1>2. CASE controller[t] = 0
  <2>1. loop' = loop
    BY <1>2 DEF Q!StopPolling
  <2>2. \A l \in Loop : l # 0
    BY DEF Loop
  <2> QED BY <1>1, <1>2, <2>1, <2>2 DEF Q!Serving
<1>3. CASE controller[t] # 0
  <2>1. PICK k \in Loop : k = controller[t]
    BY <1>1, <1>3, SyncAssumption DEF Loop
  <2>2. PICK old \in Q!LoopState : old = loop[t][k]
    BY LoopIs
  <2>3. PICK s : s = [old EXCEPT !.aborted = TRUE]
    OBVIOUS
  <2>4. /\ s \in Q!LoopState /\ s.pc = old.pc /\ s.rest = old.rest /\ s.version = old.version
        /\ s.aborted
    BY <2>2, <2>3 DEF Q!LoopState
  <2>5. loop' = [loop EXCEPT ![t][k] = s]
    BY <1>1, <1>3, <2>1, <2>2, <2>3 DEF Q!StopPolling
  <2>6. loop' \in [Tab -> [Loop -> Q!LoopState]]
    BY <1>1, <2>4, <2>5
  <2>7. \A u \in Tab, l \in Loop : loop'[u][l] = IF u = t /\ l = k THEN s ELSE loop[u][l]
    BY <1>1, <2>5
  <2>8. \A u \in Tab \ {t} : loop'[u] = loop[u]
    BY <1>1, <2>5
  <2>9. \A l \in Loop : Q!Serving(t, l)' => Q!Serving(t, l) /\ l # controller[t]
    BY <2>1, <2>4, <2>7 DEF Q!Serving
  <2> QED BY <2>2, <2>4, <2>6, <2>7, <2>8, <2>9
<1> QED BY <1>2, <1>3

LEMMA QueueStopPolling ==
  ASSUME QueueInv, NEW t \in Tab, Q!StopPolling(t)
  PROVE  QueueInv'
<1>1. /\ loop \in [Tab -> [Loop -> Q!LoopState]]
      /\ controller \in [Tab -> 0 .. MaxLoads] /\ isPolling \in [Tab -> BOOLEAN]
  BY DEF QueueInv, Q!TypeOK, Loop, Q!Loop
<1>2. /\ controller' = [controller EXCEPT ![t] = 0] /\ isPolling' = [isPolling EXCEPT ![t] = FALSE]
      /\ UNCHANGED << queue, status, started, completed >>
  BY DEF Q!StopPolling
<1>3. /\ loop' \in [Tab -> [Loop -> Q!LoopState]]
      /\ \A u \in Tab, l \in Loop :
           /\ loop'[u][l].pc = loop[u][l].pc /\ loop'[u][l].rest = loop[u][l].rest
           /\ loop'[u][l].version = loop[u][l].version
           /\ u # t => loop'[u][l].aborted = loop[u][l].aborted
  BY StopMarks
<1>4. controller' \in [Tab -> 0 .. MaxLoads] /\ isPolling' \in [Tab -> BOOLEAN]
  <2>1. 0 \in 0 .. MaxLoads
    BY SyncAssumption
  <2> QED BY <1>1, <1>2, <2>1
<1>5. Q!TypeOK'
  BY <1>2, <1>3, <1>4 DEF QueueInv, Q!TypeOK, Loop, Q!Loop
<1>6. ASSUME NEW u \in Tab, NEW l \in Loop PROVE Shape(loop'[u][l])
  <2>1. Shape(loop[u][l])
    BY LoopIs
  <2> QED BY <1>3, <2>1 DEF Shape
<1>7. ASSUME NEW u \in Tab PROVE Polled(u)'
  <2>1. Polled(u) /\ started[u] \in Nat
    BY QueueIs, SyncAssumption DEF QueueInv
  <2>2. CASE u = t
    <3>1. controller'[t] = 0 /\ ~isPolling'[t]
      BY <1>1, <1>2
    <3>2. 0 <= started[u]
      BY <2>1
    <3> QED BY <1>2, <1>3, <2>1, <2>2, <3>1, <3>2 DEF Polled
  <2>3. CASE u # t
    <3>1. controller'[u] = controller[u] /\ isPolling'[u] = isPolling[u]
      BY <1>1, <1>2, <2>3
    <3>2. controller[u] # 0 => controller[u] \in Loop
      BY <1>1, SyncAssumption DEF Loop
    <3> QED BY <1>2, <1>3, <2>1, <2>3, <3>1, <3>2 DEF Polled, Q!Serving
  <2> QED BY <2>2, <2>3
<1> QED BY <1>5, <1>6, <1>7 DEF QueueInv

LEMMA OffIs == Q!Off \in Q!LoopState /\ Shape(Q!Off) /\ Q!Off.pc = "off"
<1>1. 0 \in 0 .. MaxRetryRecovery /\ 0 \in 0 .. MaxAllowedApiErrors /\ << >> \in Seq(Q!Command)
  BY SyncAssumption
<1> QED BY <1>1 DEF Q!Off, Q!LoopState, Shape

LEMMA QueueReload ==
  ASSUME QueueInv, NEW t \in Tab, Q!ReloadPage(t)
  PROVE  QueueInv'
<1>1. /\ loop \in [Tab -> [Loop -> Q!LoopState]] /\ queue \in [Tab -> Seq(Q!Command)]
      /\ status \in [Tab -> Q!Status]
      /\ controller \in [Tab -> 0 .. MaxLoads] /\ isPolling \in [Tab -> BOOLEAN]
  BY DEF QueueInv, Q!TypeOK, Loop, Q!Loop
<1>2. /\ controller' = [controller EXCEPT ![t] = 0] /\ isPolling' = [isPolling EXCEPT ![t] = FALSE]
      /\ queue' = [queue EXCEPT ![t] = << >>] /\ status' = [status EXCEPT ![t] = "idle"]
      /\ loop' = [loop EXCEPT ![t] = [l \in Loop |-> Q!Off]]
      /\ UNCHANGED << started, completed >>
  BY DEF Q!ReloadPage, Loop, Q!Loop
<1>3. /\ loop' \in [Tab -> [Loop -> Q!LoopState]] /\ queue' \in [Tab -> Seq(Q!Command)]
      /\ status' \in [Tab -> Q!Status]
      /\ controller' \in [Tab -> 0 .. MaxLoads] /\ isPolling' \in [Tab -> BOOLEAN]
  <2>1. 0 \in 0 .. MaxLoads /\ << >> \in Seq(Q!Command) /\ "idle" \in Q!Status
    BY SyncAssumption DEF Q!Status
  <2> QED BY <1>1, <1>2, <2>1, OffIs
<1>4. Q!TypeOK'
  BY <1>2, <1>3 DEF QueueInv, Q!TypeOK, Loop, Q!Loop
<1>5. \A l \in Loop : loop'[t][l] = Q!Off
  BY <1>1, <1>2
<1>6. ASSUME NEW u \in Tab, NEW l \in Loop PROVE Shape(loop'[u][l])
  <2>1. CASE u = t
    BY <1>5, <2>1, OffIs
  <2>2. CASE u # t
    <3>1. loop'[u][l] = loop[u][l]
      BY <1>1, <1>2, <2>2
    <3> QED BY <3>1, LoopIs
  <2> QED BY <2>1, <2>2
<1>7. ASSUME NEW u \in Tab PROVE Polled(u)'
  <2>1. Polled(u) /\ started[u] \in Nat
    BY QueueIs, SyncAssumption DEF QueueInv
  <2>2. CASE u = t
    <3>1. controller'[t] = 0 /\ ~isPolling'[t] /\ 0 <= started[u]
      BY <1>1, <1>2, <2>1
    <3> QED BY <1>2, <1>5, <2>1, <2>2, <3>1, OffIs DEF Polled
  <2>3. CASE u # t
    <3>1. controller'[u] = controller[u] /\ isPolling'[u] = isPolling[u] /\ loop'[u] = loop[u]
      BY <1>1, <1>2, <2>3
    <3> QED BY <1>2, <2>1, <3>1 DEF Polled, Q!Serving
  <2> QED BY <2>2, <2>3
<1> QED BY <1>4, <1>6, <1>7 DEF QueueInv

(***************************************************************************)
(* The service.                                                            *)
(***************************************************************************)

LEMMA ServiceAssumptions ==
  SP!ConstantsAssumption /\ SP!RequestAssumption /\ SP!RetryAssumption
BY SyncAssumption DEF SP!ConstantsAssumption, SP!RequestAssumption, SP!RetryAssumption, Tx, NoTx

\* The service composed here is the one the facts are about.
LEMMA TypeIs == S!TypeOK <=> SP!TypeOK
BY DEF S!TypeOK, S!Row, S!Edit, S!HandlerState, S!HandlerPc, S!Kind, S!Reply, S!ImporterState,
       S!ImporterPc, SP!TypeOK, SP!Row, SP!Edit, SP!HandlerState, SP!HandlerPc, SP!Kind,
       SP!Reply, SP!ImporterState, SP!ImporterPc

LEMMA InitIs == S!Init <=> SP!Init
BY DEF S!Init, S!EmptyRow, S!Idle, SP!Init, SP!EmptyRow, SP!Idle

LEMMA AnswerIs ==
  ASSUME NEW h, NEW reply
  PROVE  S!Answer(h, reply) <=> SP!Answer(h, reply)
BY DEF S!Answer, S!Idle, S!EmptyRow, SP!Answer, SP!Idle, SP!EmptyRow

LEMMA OperatorsAre ==
  ASSUME NEW s
  PROVE  /\ S!Saved(s) = SP!Saved(s) /\ S!NewRow(s) = SP!NewRow(s)
         /\ S!Shared(s) <=> SP!Shared(s)
         /\ S!Range(s) = SP!Range(s) /\ S!LastTx(s) = SP!LastTx(s)
         /\ S!LastPreview(s) = SP!LastPreview(s)
BY DEF S!Saved, S!NewRow, S!Shared, S!LastTx, S!LastPreview, S!Range,
       SP!Saved, SP!NewRow, SP!Shared, SP!LastTx, SP!LastPreview, SP!Range

LEMMA ProgressIs ==
  ASSUME NEW h
  PROVE  S!Progress(h) => SP!Progress(h)
<1>1. S!LoadState(h) => SP!LoadState(h)
  BY DEF S!LoadState, SP!LoadState
<1>2. S!LoadBuild(h) => SP!LoadBuild(h)
  BY DEF S!LoadBuild, SP!LoadBuild, S!Shared, SP!Shared
<1>3. S!AlreadySaved(h) => SP!AlreadySaved(h)
  BY OperatorsAre DEF S!AlreadySaved, SP!AlreadySaved
<1>4. S!VersionMismatch(h) => SP!VersionMismatch(h)
  BY OperatorsAre, AnswerIs DEF S!VersionMismatch, SP!VersionMismatch
<1>5. S!RejectCyclic(h) => SP!RejectCyclic(h)
  BY OperatorsAre, AnswerIs DEF S!RejectCyclic, SP!RejectCyclic
<1>6. S!ComputeUpdate(h) => SP!ComputeUpdate(h)
  BY OperatorsAre DEF S!ComputeUpdate, SP!ComputeUpdate
<1>7. S!ApplyAssets(h) => SP!ApplyAssets(h)
  BY OperatorsAre DEF S!ApplyAssets, SP!ApplyAssets
<1>8. S!Commit(h) => SP!Commit(h)
  BY OperatorsAre DEF S!Commit, SP!Commit
<1>9. S!LoseRace(h) => SP!LoseRace(h)
  BY AnswerIs DEF S!LoseRace, SP!LoseRace
<1>10. S!UpdatePreview(h) => SP!UpdatePreview(h)
  BY OperatorsAre DEF S!UpdatePreview, SP!UpdatePreview
<1>11. S!NextEntry(h) => SP!NextEntry(h)
  BY DEF S!NextEntry, SP!NextEntry
<1>12. S!Finish(h) => SP!Finish(h)
  BY OperatorsAre, AnswerIs DEF S!Finish, SP!Finish
<1> QED BY <1>1, <1>2, <1>3, <1>4, <1>5, <1>6, <1>7, <1>8, <1>9, <1>10, <1>11, <1>12
        DEF S!Progress, SP!Progress

LEMMA OthersAre ==
  ASSUME NEW h
  PROVE  /\ S!Refuse(h) => SP!Refuse(h)
         /\ S!Fail(h) => SP!Fail(h)
         /\ S!End(h) => SP!End(h)
<1>1. S!Refuse(h) => SP!Refuse(h)
  BY AnswerIs DEF S!Refuse, SP!Refuse
<1>2. S!End(h) => SP!End(h)
  BY DEF S!End, SP!End, S!Idle, S!EmptyRow, SP!Idle, SP!EmptyRow
<1>3. S!Fail(h) => SP!Fail(h)
  BY AnswerIs, OperatorsAre DEF S!Fail, SP!Fail
<1> QED BY <1>1, <1>2, <1>3

\* A handler goes on, fails, ends, or its process dies.
LEMMA ServiceStep ==
  ASSUME SP!TypeInv, NEW h \in Handler,
         S!Progress(h) \/ S!Refuse(h) \/ S!Fail(h) \/ S!End(h)
  PROVE  SP!TypeInv'
<1>1. SP!Next
  BY ProgressIs, OthersAre DEF SP!Next
<1> QED BY <1>1, ServiceAssumptions, SP!TypeStep DEF SP!vars

\* The request of a loop arrives.
LEMMA ServiceReceive ==
  ASSUME SP!TypeInv, NEW h \in Handler, NEW txs \in Seq(Tx), NEW version \in Nat,
         S!Receive(h, [kind |-> "browser", entries |-> txs, denied |-> {}, version |-> version])
  PROVE  SP!TypeInv'
<1>1. PICK s : s = [SP!Idle EXCEPT !.pc = "loadState", !.kind = "browser", !.entries = txs,
                                   !.denied = {}, !.version = version]
  OBVIOUS
<1>2. SP!Idle \in SP!HandlerState
  BY ServiceAssumptions, SP!IdleType
<1>3. s \in SP!HandlerState
  BY <1>1, <1>2 DEF SP!HandlerState, SP!HandlerPc, SP!Kind
<1>4. s.pc = "loadState"
  BY <1>1 DEF SP!Idle
<1>5. SP!Shape(s)
  BY <1>4 DEF SP!Shape, SP!Working
<1>6. handler' = [handler EXCEPT ![h] = s]
  BY <1>1 DEF S!Receive, S!Idle, S!EmptyRow, SP!Idle, SP!EmptyRow
<1>7. handler' \in [Handler -> SP!HandlerState] /\ \A g \in Handler : SP!Shape(handler'[g])
  BY <1>3, <1>5, <1>6, ServiceAssumptions, SP!HandlerType
<1>8. UNCHANGED << build, assets, preview, importer >>
  BY DEF S!Receive
<1> QED BY <1>7, <1>8 DEF SP!TypeInv, SP!TypeOK

(***************************************************************************)
(* The composition.                                                        *)
(***************************************************************************)

LEMMA ServiceKept ==
  ASSUME SP!TypeInv, UNCHANGED serviceVars
  PROVE  SP!TypeInv'
BY DEF serviceVars, SP!TypeInv, SP!TypeOK

LEMMA QueueKept ==
  ASSUME QueueInv, UNCHANGED queueVars
  PROVE  QueueInv'
BY DEF queueVars, QueueInv, Q!TypeOK, Polled, Q!Serving

LEMMA TabKept ==
  ASSUME TabType, UNCHANGED tabVars
  PROVE  TabType'
BY DEF tabVars, TabType

LEMMA NetKept ==
  ASSUME NetType, NEW t \in Tab, NEW l \in Loop, NEW c \in Handler \cup {NoHandler},
         conn' = [conn EXCEPT ![t][l] = c],
         faults' = faults \/ (faults < MaxFaults /\ faults' = faults + 1)
  PROVE  NetType'
BY SyncAssumption DEF NetType

LEMMA ConnIs ==
  ASSUME NetType, NEW t \in Tab, NEW l \in Loop, conn[t][l] # NoHandler
  PROVE  conn[t][l] \in Handler
BY DEF NetType

LEMMA CoreInit == Init => CoreInv
<1> SUFFICES ASSUME Init PROVE CoreInv
  OBVIOUS
<1>1. SP!TypeInv
  BY ServiceAssumptions, SP!TypeInit, InitIs DEF Init
<1>2. Q!TypeOK /\ \A t \in Tab, l \in Loop : loop[t][l] = Q!Off
  <2>1. << >> \in Seq(Q!Command) /\ 0 \in 0 .. MaxLoads /\ "idle" \in Q!Status
    BY SyncAssumption DEF Q!Status
  <2> QED BY <2>1, OffIs DEF Init, Q!Init, Q!TypeOK, Loop, Q!Loop
<1>3. \A t \in Tab : Polled(t)
  <2>1. \A t \in Tab : started[t] = 0 /\ controller[t] = 0 /\ ~isPolling[t]
    BY DEF Init, Q!Init
  <2> QED BY <1>2, <2>1, OffIs DEF Polled
<1>4. QueueInv
  BY <1>2, <1>3, OffIs DEF QueueInv
<1>5. TabType
  <2>1. << >> \in Seq(Tx) /\ << >> \in Seq(Seq(Tx)) /\ 0 \in 0 .. MaxLoads
    BY SyncAssumption
  <2> QED BY <2>1 DEF Init, TabType
<1>6. NetType
  BY SyncAssumption DEF Init, NetType
<1> QED BY <1>1, <1>4, <1>5, <1>6 DEF CoreInv

LEMMA CoreLoad ==
  ASSUME CoreInv, NEW t \in Tab, Load(t)
  PROVE  CoreInv'
<1>1. build.version \in Nat /\ build.log \in Seq(Tx)
  <2>1. SP!Row = [version : Nat, lastTx : Tx \cup {NoTx}, log : Seq(Tx)]
    BY DEF SP!Row, SP!Edit
  <2> QED BY <2>1 DEF CoreInv, SP!TypeInv, SP!TypeOK
<1>2. loads' \in [Tab -> 0 .. MaxLoads]
  BY SyncAssumption DEF CoreInv, TabType, Load
<1>3. [version |-> build.version, log |-> build.log] \in [version : Nat, log : Seq(Tx)]
  BY <1>1
<1>4. loaded' \in [Tab -> [version : Nat, log : Seq(Tx)]]
  BY <1>3 DEF CoreInv, TabType, Load
<1>5. TabType'
  BY <1>2, <1>4 DEF CoreInv, TabType, Load
<1>6. NetType'
  BY DEF CoreInv, NetType, Load, netVars
<1> QED BY <1>5, <1>6, ServiceKept, QueueKept DEF CoreInv, Load

LEMMA CoreOpen ==
  ASSUME CoreInv, NEW t \in Tab, Open(t)
  PROVE  CoreInv'
<1>1. PICK was \in [version : Nat, log : Seq(Tx)] : was = loaded[t]
  BY DEF CoreInv, TabType
<1>2. QueueInv'
  BY <1>1, QueueDetails DEF CoreInv, Open
<1>3. TabType'
  BY <1>1 DEF CoreInv, TabType, Open
<1>4. NetType'
  BY DEF CoreInv, NetType, Open, netVars
<1> QED BY <1>2, <1>3, <1>4, ServiceKept DEF CoreInv, Open

LEMMA CoreMakeEdit ==
  ASSUME CoreInv, NEW t \in Tab, MakeEdit(t)
  PROVE  CoreInv'
<1>1. PICK x \in Tx : x = Len(view) + 1
  BY DEF MakeEdit
<1>2. QueueInv'
  BY <1>1, QueueSendTransaction DEF CoreInv, MakeEdit
<1>3. doc \in [Tab -> Seq(Tx)] /\ view \in Seq(Seq(Tx)) /\ edited \in [Tab -> SUBSET Tx]
  BY DEF CoreInv, TabType
<1>4. PICK shown \in Seq(Tx) : shown = doc[t]
  BY <1>3
<1>5. Append(shown, x) \in Seq(Tx) /\ Append(view, shown) \in Seq(Seq(Tx))
  BY <1>3
<1>6. /\ view' = Append(view, shown) /\ doc' = [doc EXCEPT ![t] = Append(shown, x)]
      /\ edited' = [edited EXCEPT ![t] = @ \cup {x}]
      /\ UNCHANGED << session, loaded, loads >>
  BY <1>1, <1>4 DEF MakeEdit
<1>7. doc' \in [Tab -> Seq(Tx)] /\ view' \in Seq(Seq(Tx)) /\ edited' \in [Tab -> SUBSET Tx]
  BY <1>3, <1>5, <1>6
<1>8. TabType'
  BY <1>6, <1>7 DEF CoreInv, TabType
<1>9. NetType'
  BY DEF CoreInv, NetType, MakeEdit, netVars
<1> QED BY <1>2, <1>8, <1>9, ServiceKept DEF CoreInv, MakeEdit

LEMMA CoreLeave ==
  ASSUME CoreInv, NEW t \in Tab, Leave(t) \/ Close(t) \/ Reload(t)
  PROVE  CoreInv'
<1>1. QueueInv'
  BY QueueKept, QueueStopPolling, QueueReload DEF CoreInv, Leave, Close, Reload
<1>2. TabType'
  BY DEF CoreInv, TabType, Leave, Close, Reload
<1>3. NetType'
  BY DEF CoreInv, NetType, Leave, Close, Reload, netVars
<1>4. SP!TypeInv'
  BY ServiceKept DEF CoreInv, Leave, Close, Reload
<1> QED BY <1>1, <1>2, <1>3, <1>4 DEF CoreInv

LEMMA CoreSendRequest ==
  ASSUME CoreInv, NEW t \in Tab, NEW l \in Loop, NEW h \in Handler, SendRequest(t, l, h)
  PROVE  CoreInv'
<1>1. QueueInv' /\ Q!Current(t, l).txs \in Seq(Tx) /\ loop[t][l].version \in Nat
  BY QueueSend DEF CoreInv, SendRequest
<1>2. SP!TypeInv'
  BY <1>1, ServiceReceive DEF CoreInv, SendRequest
<1>3. NetType'
  BY NetKept DEF CoreInv, SendRequest
<1> QED BY <1>1, <1>2, <1>3, TabKept DEF CoreInv, SendRequest

LEMMA CoreDeliver ==
  ASSUME CoreInv, NEW t \in Tab, NEW l \in Loop, Deliver(t, l)
  PROVE  CoreInv'
<1>1. PICK h \in Handler : h = conn[t][l]
  BY ConnIs DEF CoreInv, Deliver
<1>2. handler[h].version \in Nat
  BY DEF CoreInv, SP!TypeInv, SP!TypeOK, SP!HandlerState
<1>3. QueueInv'
  BY <1>1, <1>2, QueueReplyOk, QueueEnds, QueueReplies DEF CoreInv, Deliver
<1>4. SP!TypeInv'
  BY <1>1, ServiceStep DEF CoreInv, Deliver
<1>5. NetType'
  <2>1. NoHandler \in Handler \cup {NoHandler}
    OBVIOUS
  <2>2. conn' = [conn EXCEPT ![t][l] = NoHandler] /\ faults' = faults
    BY DEF Deliver
  <2> QED BY <2>1, <2>2, NetKept DEF CoreInv
<1> QED BY <1>3, <1>4, <1>5, TabKept DEF CoreInv, Deliver

LEMMA CoreBreaks ==
  ASSUME CoreInv, NEW t \in Tab, NEW l \in Loop, LoseConnection(t, l) \/ Crash(t, l)
  PROVE  CoreInv'
<1>1. PICK h \in Handler : h = conn[t][l]
  BY ConnIs DEF CoreInv, LoseConnection, Crash
<1>2. QueueInv'
  BY QueueReplies DEF CoreInv, LoseConnection, Crash
<1>3. SP!TypeInv'
  BY <1>1, ServiceStep, ServiceKept DEF CoreInv, LoseConnection, Crash
<1>4. NetType'
  <2>1. NoHandler \in Handler \cup {NoHandler}
    OBVIOUS
  <2>2. /\ conn' = [conn EXCEPT ![t][l] = NoHandler]
        /\ faults < MaxFaults /\ faults' = faults + 1
    BY DEF LoseConnection, Crash
  <2> QED BY <2>1, <2>2, NetKept DEF CoreInv
<1> QED BY <1>2, <1>3, <1>4, TabKept DEF CoreInv, LoseConnection, Crash

LEMMA CoreServes ==
  ASSUME CoreInv, NEW h \in Handler, Handle(h) \/ HandlerFault(h) \/ Orphan(h)
  PROVE  CoreInv'
<1>1. SP!TypeInv'
  BY ServiceStep DEF CoreInv, Handle, HandlerFault, Orphan
<1>2. QueueInv' /\ TabType'
  BY QueueKept, TabKept DEF CoreInv, Handle, HandlerFault, Orphan
<1>3. NetType'
  BY SyncAssumption DEF CoreInv, NetType, netVars, Handle, HandlerFault, Orphan
<1> QED BY <1>1, <1>2, <1>3 DEF CoreInv

LEMMA CoreLoopStep ==
  ASSUME CoreInv, NEW t \in Tab, NEW l \in Loop, LoopStep(t, l)
  PROVE  CoreInv'
<1>1. QueueInv'
  BY QueuePoll, QueueEnds, QueueSetDetails DEF CoreInv, LoopStep
<1>2. NetType'
  BY DEF CoreInv, NetType, netVars, LoopStep
<1> QED BY <1>1, <1>2, ServiceKept, TabKept DEF CoreInv, LoopStep

LEMMA CoreStep ==
  ASSUME CoreInv, [Next]_vars
  PROVE  CoreInv'
<1>1. CASE Next
  BY <1>1, CoreLoad, CoreOpen, CoreMakeEdit, CoreLeave, CoreSendRequest, CoreDeliver,
     CoreBreaks, CoreServes, CoreLoopStep DEF Next, User
<1>2. CASE UNCHANGED vars
  <2>1. UNCHANGED queueVars /\ UNCHANGED serviceVars /\ UNCHANGED tabVars /\ UNCHANGED netVars
    BY <1>2 DEF vars
  <2>2. NetType'
    BY <2>1 DEF CoreInv, NetType, netVars
  <2> QED BY <2>1, <2>2, QueueKept, ServiceKept, TabKept DEF CoreInv
<1> QED BY <1>1, <1>2

\* Saving end to end keeps its types, from the queue of a tab over the requests
\* under way to the row: what a loop sends is a list of transactions based on
\* a version it knows, and what a reply sets is a version.
THEOREM TypeCorrect == Spec => []TypeOK
<1>1. CoreInv => TypeOK
  BY TypeIs DEF CoreInv, QueueInv, TabType, NetType, SP!TypeInv, TypeOK
<1> QED BY <1>1, CoreInit, CoreStep, PTL DEF Spec

\* A tab that has a polling controller has a loop that was started and is not
\* aborted, in whatever order projects were opened, closed and reloaded:
\* startPolling finds isPolling false whenever it makes a new controller,
\* because stopPolling resets it and only an aborted loop resets it later.
THEOREM PollerCorrect == Spec => []PollerServesQueue
<1>1. CoreInv => PollerServesQueue
  BY DEF CoreInv, QueueInv, Polled, PollerServesQueue
<1> QED BY <1>1, CoreInit, CoreStep, PTL DEF Spec
====
