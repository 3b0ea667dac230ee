---------------------------- MODULE ProjectQueue ----------------------------
(***************************************************************************)
(* The browser side of saving in single-player mode: the command queue and *)
(* the polling loop of a tab.  Edits are queued as transactions; a loop    *)
(* takes everything queued about once a second and sends it, one command   *)
(* at a time, retrying until the server answers.                           *)
(*                                                                         *)
(* A run of pollQueue is a loop with its own details map and abort signal. *)
(* Stopping only raises the signal, which the loop looks at when it takes  *)
(* the next command, so several loops of one tab may be alive.  Loops are  *)
(* numbered in the order they were started.  A tab works on one project.   *)
(*                                                                         *)
(* JavaScript runs to completion between awaits: while a loop is in "run"  *)
(* nothing else happens in its tab.                                        *)
(***************************************************************************)
EXTENDS Integers, Sequences, Functions

CONSTANTS
  Tab,                 \* browser tabs
  Tx,                  \* transactions
  MaxLoops,            \* bound: loops a tab starts
  MaxRetryRecovery,    \* MAX_RETRY_RECOVERY
  MaxAllowedApiErrors  \* MAX_ALLOWED_API_ERRORS

VARIABLES
  queue,       \* projectCommandsQueue
  status,      \* $syncStatus
  loop,        \* the runs of pollQueue
  started,     \* how many loops a tab has started
  controller,  \* pollingAbortController: the loop it belongs to, 0 if undefined
  isPolling,
  completed    \* transactions reported to completeTransaction as saved

queueVars == << queue, status, loop, started, controller, isPolling, completed >>

Loop == 1 .. MaxLoops

Command ==
  [type : {"setDetails"}, version : Nat] \cup
  [type : {"transactions"}, txs : Seq(Tx)]

Status == {"idle", "syncing", "recovering", "failed", "fatal"}

Undefined == -1

LoopState ==
  [pc        : {"off", "run", "pause", "wait", "backoff", "done"},
   aborted   : BOOLEAN,
   rest      : Seq(Command),          \* dequeued, not finished
   version   : Nat \cup {Undefined},  \* detailsMap.get(projectId)?.version
   attempts  : 0 .. MaxRetryRecovery, \* backoff.attempts(), saturated
   apiErrors : 0 .. MaxAllowedApiErrors]

Off == [pc |-> "off", aborted |-> FALSE, rest |-> << >>, version |-> Undefined,
        attempts |-> 0, apiErrors |-> 0]

Init ==
  /\ queue = [t \in Tab |-> << >>]
  /\ status = [t \in Tab |-> "idle"]
  /\ loop = [t \in Tab |-> [l \in Loop |-> Off]]
  /\ started = [t \in Tab |-> 0]
  /\ controller = [t \in Tab |-> 0]
  /\ isPolling = [t \in Tab |-> FALSE]
  /\ completed = [t \in Tab |-> {}]

\* No loop of the tab is in the middle of synchronous code.
Quiet(t) == \A l \in Loop : loop[t][l].pc # "run"

Current(t, l) == Head(loop[t][l].rest)

\* The loop asks pollCommands for the next command; when all that was taken
\* from the queue is done, the generator pauses before it looks again.
Advance(s) ==
  [s EXCEPT !.rest = Tail(@), !.pc = IF Len(s.rest) = 1 THEN "pause" ELSE "run",
            !.attempts = 0, !.apiErrors = 0]

(***************************************************************************)
(* What the application calls.                                             *)
(***************************************************************************)

\* Mutant: merged into the first transactions command, over later details.
EnqueueAnywhere(commands, x) ==
  LET merges == {k \in DOMAIN commands : commands[k].type = "transactions"}
  IN IF merges # {}
     THEN [commands EXCEPT ![CHOOSE k \in merges : \A j \in merges : k <= j].txs
             = Append(@, x)]
     ELSE Append(commands, [type |-> "transactions", txs |-> << x >>])

\* enqueue of a transactions command: merged into the tail of the queue if
\* that is a transactions command too, never into an earlier one.
Enqueue(commands, x) ==
  LET n == Len(commands)
  IN IF n > 0 /\ commands[n].type = "transactions"
     THEN [commands EXCEPT ![n].txs = Append(@, x)]
     ELSE Append(commands, [type |-> "transactions", txs |-> << x >>])

\* ServerSyncStorage.sendTransaction
SendTransaction(t, x) ==
  /\ Quiet(t)
  /\ status' = [status EXCEPT ![t] = "syncing"]
  /\ queue' = [queue EXCEPT ![t] = Enqueue(@, x)]
  /\ UNCHANGED << loop, started, controller, isPolling, completed >>

\* enqueueProjectDetails: with a controller the running loop will find the
\* command; without one startPolling starts a loop, which runs up to its
\* first await and so takes the whole queue.
EnqueueProjectDetails(t, version) ==
  LET commands == Append(queue[t], [type |-> "setDetails", version |-> version])
      l == started[t] + 1
  IN /\ Quiet(t)
     /\ \/ /\ controller[t] # 0
           /\ queue' = [queue EXCEPT ![t] = commands]
           /\ UNCHANGED << status, loop, started, controller, isPolling >>
        \/ /\ controller[t] = 0
           /\ started[t] < MaxLoops
           /\ started' = [started EXCEPT ![t] = l]
           /\ controller' = [controller EXCEPT ![t] = l]
           /\ IF isPolling[t]
              THEN /\ queue' = [queue EXCEPT ![t] = commands]
                   /\ UNCHANGED << status, loop, isPolling >>
              ELSE /\ isPolling' = [isPolling EXCEPT ![t] = TRUE]
                   /\ loop' = [loop EXCEPT ![t][l] =
                        [Off EXCEPT !.pc = "run", !.rest = commands]]
                   /\ queue' = [queue EXCEPT ![t] = << >>]
                   /\ status' = [status EXCEPT ![t] = "syncing"]
     /\ UNCHANGED completed

\* Mutant: isPolling is left to the aborted loop to reset.
StopPollingLater(t) ==
  /\ Quiet(t)
  /\ loop' = IF controller[t] = 0 THEN loop
             ELSE [loop EXCEPT ![t][controller[t]].aborted = TRUE]
  /\ controller' = [controller EXCEPT ![t] = 0]
  /\ UNCHANGED << queue, status, started, isPolling, completed >>

\* stopPolling: the signal is raised, the loop itself goes on until it takes
\* its next command.
StopPolling(t) ==
  /\ Quiet(t)
  /\ loop' = IF controller[t] = 0 THEN loop
             ELSE [loop EXCEPT ![t][controller[t]].aborted = TRUE]
  /\ controller' = [controller EXCEPT ![t] = 0]
  /\ isPolling' = [isPolling EXCEPT ![t] = FALSE]
  /\ UNCHANGED << queue, status, started, completed >>

\* location.reload(): the page starts afresh, what was queued is gone.
ReloadPage(t) ==
  /\ Quiet(t)
  /\ queue' = [queue EXCEPT ![t] = << >>]
  /\ status' = [status EXCEPT ![t] = "idle"]
  /\ loop' = [loop EXCEPT ![t] = [l \in Loop |-> Off]]
  /\ controller' = [controller EXCEPT ![t] = 0]
  /\ isPolling' = [isPolling EXCEPT ![t] = FALSE]
  /\ UNCHANGED << started, completed >>

(***************************************************************************)
(* The polling loop.                                                       *)
(***************************************************************************)

\* pollCommands after its pause.
Poll(t, l) ==
  /\ Quiet(t)
  /\ loop[t][l].pc = "pause"
  /\ IF queue[t] = << >>
     THEN /\ status' = [status EXCEPT ![t] = "idle"]
          /\ UNCHANGED << queue, loop >>
     ELSE /\ status' = [status EXCEPT ![t] = "syncing"]
          /\ loop' = [loop EXCEPT ![t][l].pc = "run", ![t][l].rest = queue[t]]
          /\ queue' = [queue EXCEPT ![t] = << >>]
  /\ UNCHANGED << started, controller, isPolling, completed >>

\* The loop sees that it was aborted and drops what it had taken.
Abort(t, l) ==
  /\ loop[t][l].pc = "run"
  /\ loop[t][l].aborted
  /\ loop' = [loop EXCEPT ![t][l].pc = "done", ![t][l].rest = << >>]
  /\ isPolling' = [isPolling EXCEPT ![t] = FALSE]
  /\ UNCHANGED << queue, status, started, controller, completed >>

Stop(t, l) ==
  /\ status' = [status EXCEPT ![t] = "fatal"]
  /\ loop' = [loop EXCEPT ![t][l].pc = "done", ![t][l].rest = << >>]
  /\ UNCHANGED << queue, started, controller, isPolling, completed >>

\* A setDetails command of a project that is newer than what was loaded, or a
\* transactions command of an unknown project, ends the loop for good.
Outdated(t, l) ==
  /\ loop[t][l].pc = "run"
  /\ ~loop[t][l].aborted
  /\ IF Current(t, l).type = "setDetails"
     THEN /\ loop[t][l].version # Undefined
          /\ Current(t, l).version < loop[t][l].version
     ELSE loop[t][l].version = Undefined
  /\ Stop(t, l)

SetDetails(t, l) ==
  /\ loop[t][l].pc = "run"
  /\ ~loop[t][l].aborted
  /\ Current(t, l).type = "setDetails"
  /\ loop[t][l].version = Undefined \/ Current(t, l).version >= loop[t][l].version
  /\ loop' = [loop EXCEPT ![t][l] =
       [Advance(@) EXCEPT !.version = Current(t, l).version]]
  /\ UNCHANGED << queue, status, started, controller, isPolling, completed >>

\* build.patch.mutate: the first attempt, or one after the retry pause.  The
\* abort signal is not looked at between attempts.
Send(t, l) ==
  /\ \/ /\ loop[t][l].pc = "run"
        /\ ~loop[t][l].aborted
        /\ Current(t, l).type = "transactions"
        /\ loop[t][l].version # Undefined
     \/ /\ loop[t][l].pc = "backoff"
        /\ Quiet(t)
  /\ loop' = [loop EXCEPT ![t][l].pc = "wait"]
  /\ UNCHANGED << queue, status, started, controller, isPolling, completed >>

\* The retry generator: a short pause at first, then "Builder is offline".
Backoff(t, l, errors) ==
  /\ status' = [status EXCEPT ![t] =
       IF loop[t][l].attempts < MaxRetryRecovery THEN "recovering" ELSE "failed"]
  /\ loop' = [loop EXCEPT ![t][l].pc = "backoff", ![t][l].apiErrors = errors,
                          ![t][l].attempts = IF @ < MaxRetryRecovery THEN @ + 1 ELSE @]
  /\ UNCHANGED << queue, started, controller, isPolling, completed >>

\* Mutant: the command is put back into the queue.
NetworkErrorRequeues(t, l) ==
  /\ Quiet(t)
  /\ loop[t][l].pc = "wait"
  /\ loop' = [loop EXCEPT ![t][l] = Advance(@)]
  /\ queue' = [queue EXCEPT ![t] = Append(@, Current(t, l))]
  /\ UNCHANGED << status, started, controller, isPolling, completed >>

\* Mutant: the command is given up.
NetworkErrorGivesUp(t, l) ==
  /\ Quiet(t)
  /\ loop[t][l].pc = "wait"
  /\ loop' = [loop EXCEPT ![t][l] = Advance(@)]
  /\ UNCHANGED << queue, status, started, controller, isPolling, completed >>

\* The request failed: the loop cannot know whether it was executed.
NetworkError(t, l) ==
  /\ Quiet(t)
  /\ loop[t][l].pc = "wait"
  /\ Backoff(t, l, loop[t][l].apiErrors)

\* Mutant: every reply that is not an error shows "idle".
ReplyOkIdle(t, l, version) ==
  /\ Quiet(t)
  /\ loop[t][l].pc = "wait"
  /\ loop' = [loop EXCEPT ![t][l] = [Advance(@) EXCEPT !.version = version]]
  /\ completed' = [completed EXCEPT ![t] = @ \cup Range(Current(t, l).txs)]
  /\ status' = [status EXCEPT ![t] = "idle"]
  /\ UNCHANGED << queue, started, controller, isPolling >>

\* status "ok"
ReplyOk(t, l, version) ==
  /\ Quiet(t)
  /\ loop[t][l].pc = "wait"
  /\ loop' = [loop EXCEPT ![t][l] = [Advance(@) EXCEPT !.version = version]]
  /\ completed' = [completed EXCEPT ![t] = @ \cup Range(Current(t, l).txs)]
  /\ UNCHANGED << queue, status, started, controller, isPolling >>

\* Mutant: the transactions are completed whatever the reply is.
ReplyFatalCompletes(t, l) ==
  /\ Quiet(t)
  /\ loop[t][l].pc = "wait"
  /\ completed' = [completed EXCEPT ![t] = @ \cup Range(Current(t, l).txs)]
  /\ status' = [status EXCEPT ![t] = "fatal"]
  /\ loop' = [loop EXCEPT ![t][l].pc = "done", ![t][l].rest = << >>]
  /\ UNCHANGED << queue, started, controller, isPolling >>

\* "version_mismatched", "authorization_error" or "partial"
ReplyFatal(t, l) ==
  /\ Quiet(t)
  /\ loop[t][l].pc = "wait"
  /\ Stop(t, l)

\* Mutant: one error too many is allowed.
ReplyErrorOffByOne(t, l) ==
  /\ Quiet(t)
  /\ loop[t][l].pc = "wait"
  /\ \/ /\ loop[t][l].apiErrors > MaxAllowedApiErrors
        /\ Stop(t, l)
     \/ /\ loop[t][l].apiErrors <= MaxAllowedApiErrors
        /\ Backoff(t, l, loop[t][l].apiErrors + 1)

\* any other status: retried a bounded number of times
ReplyError(t, l) ==
  /\ Quiet(t)
  /\ loop[t][l].pc = "wait"
  /\ \/ /\ loop[t][l].apiErrors >= MaxAllowedApiErrors
        /\ Stop(t, l)
     \/ /\ loop[t][l].apiErrors < MaxAllowedApiErrors
        /\ Backoff(t, l, loop[t][l].apiErrors + 1)

(***************************************************************************)
(* Correctness.                                                            *)
(***************************************************************************)
TypeOK ==
  /\ queue \in [Tab -> Seq(Command)]
  /\ status \in [Tab -> Status]
  /\ loop \in [Tab -> [Loop -> LoopState]]
  /\ started \in [Tab -> 0 .. MaxLoops]
  /\ controller \in [Tab -> 0 .. MaxLoops]
  /\ isPolling \in [Tab -> BOOLEAN]
  /\ completed \in [Tab -> SUBSET Tx]

\* A loop that ended although nobody stopped it: the tab needs a reload.
Dead(t) == controller[t] # 0 /\ loop[t][controller[t]].pc = "done"

\* The loop was started and nobody has asked it to stop.
Serving(t, l) == loop[t][l].pc # "off" /\ ~loop[t][l].aborted
=============================================================================
