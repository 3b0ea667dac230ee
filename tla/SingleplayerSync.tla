-------------------------- MODULE SingleplayerSync --------------------------
(***************************************************************************)
(* Single-player saving end to end: browser tabs (ProjectQueue) connected  *)
(* to the patch service (PatchService) by requests that may fail.  A tab   *)
(* that gets a network error retries while the handler of the first        *)
(* request may still be running.                                           *)
(*                                                                         *)
(* A tab loads the project, edits it while it is open and leaves it.  The  *)
(* builder page leaves without stopping the queue; the project settings    *)
(* dialog of the dashboard stops it (destroyClientSync).                   *)
(***************************************************************************)
EXTENDS Integers, Sequences, Functions

CONSTANTS
  Tab,                 \* browser tabs
  Handler,             \* request handlers of the server
  NoHandler,           \* "the loop has no request that is being executed"
  CyclicEdits,         \* edits that close a cycle in the instance tree
  Destroys,            \* tabs whose closing calls destroyClientSync
  MaxEdits,            \* bound: edits made
  MaxLoads,            \* bound: loads of the project per tab
  MaxFaults,           \* bound: lost connections, crashes and failed calls
  MaxRetryRecovery,
  MaxAllowedApiErrors

\* Edits are numbered in the order they are made; the number is the
\* transaction id.
Tx == 1 .. MaxEdits
NoTx == 0

ASSUME SyncAssumption ==
  /\ NoHandler \notin Handler
  /\ Destroys \subseteq Tab
  /\ CyclicEdits \subseteq Tx
  /\ MaxEdits \in Nat
  /\ MaxLoads \in Nat
  /\ MaxFaults \in Nat
  /\ MaxRetryRecovery \in Nat
  /\ MaxAllowedApiErrors \in Nat

VARIABLES
  queue, status, loop, started, controller, isPolling, completed,
  build, assets, preview, handler, importer,
  session,     \* is the project being loaded or open in the tab
  loaded,      \* the version and content the tab loaded last
  edited,      \* the edits of a tab since its page was loaded
  doc,         \* the content a tab shows: what it loaded and its own edits
  view,        \* view[x] is the content edit x was made on
  loads,       \* how often a tab has loaded the project
  conn,        \* the handler executing the request of a loop
  faults       \* how many faults there have been

queueVars == << queue, status, loop, started, controller, isPolling, completed >>
serviceVars == << build, assets, preview, handler, importer >>
tabVars == << session, loaded, edited, doc, view, loads >>
netVars == << conn, faults >>
vars == << queueVars, serviceVars, tabVars, netVars >>

Q == INSTANCE ProjectQueue WITH MaxLoops <- MaxLoads
S == INSTANCE PatchService WITH Cyclic <- CyclicEdits, AssetTx <- {},
       PreviewTx <- {}, Importer <- {}, Request <- {}

Loop == 1 .. MaxLoads

Init ==
  /\ Q!Init
  /\ S!Init
  /\ session = [t \in Tab |-> "closed"]
  /\ loaded = [t \in Tab |-> [version |-> 0, log |-> << >>]]
  /\ edited = [t \in Tab |-> {}]
  /\ doc = [t \in Tab |-> << >>]
  /\ view = << >>
  /\ loads = [t \in Tab |-> 0]
  /\ conn = [t \in Tab |-> [l \in Loop |-> NoHandler]]
  /\ faults = 0

(***************************************************************************)
(* The user.                                                               *)
(***************************************************************************)

\* loadBuilderData: the server reads the build; the answer is under way.
Load(t) ==
  /\ session[t] = "closed"
  /\ loads[t] < MaxLoads
  /\ session' = [session EXCEPT ![t] = "loading"]
  /\ loads' = [loads EXCEPT ![t] = @ + 1]
  /\ loaded' = [loaded EXCEPT ![t] = [version |-> build.version, log |-> build.log]]
  /\ UNCHANGED << queueVars, serviceVars, netVars, edited, doc, view >>

\* onDataLoaded: the stores are filled and the queue gets the details.
Open(t) ==
  /\ session[t] = "loading"
  /\ session' = [session EXCEPT ![t] = "open"]
  /\ doc' = [doc EXCEPT ![t] = loaded[t].log]
  /\ Q!EnqueueProjectDetails(t, loaded[t].version)
  /\ UNCHANGED << serviceVars, netVars, loaded, edited, view, loads >>

\* A store transaction reaches ServerSyncStorage.
MakeEdit(t) ==
  LET x == Len(view) + 1
  IN /\ session[t] = "open"
     /\ x \in Tx
     /\ view' = Append(view, doc[t])
     /\ doc' = [doc EXCEPT ![t] = Append(@, x)]
     /\ edited' = [edited EXCEPT ![t] = @ \cup {x}]
     /\ Q!SendTransaction(t, x)
     /\ UNCHANGED << serviceVars, netVars, session, loaded, loads >>

\* The builder is unmounted: its signal is aborted, the queue goes on.
Leave(t) ==
  /\ session[t] # "closed"
  /\ Q!Quiet(t)
  /\ t \notin Destroys
  /\ session' = [session EXCEPT ![t] = "closed"]
  /\ UNCHANGED << queueVars, serviceVars, netVars, loaded, edited, doc, view, loads >>

\* The settings dialog is closed: destroyClientSync, stopPolling.
Close(t) ==
  /\ session[t] # "closed"
  /\ t \in Destroys
  /\ session' = [session EXCEPT ![t] = "closed"]
  /\ Q!StopPolling(t)
  /\ UNCHANGED << serviceVars, netVars, loaded, edited, doc, view, loads >>

\* The user accepts to reload after a fatal error.  Requests of the old page
\* are cut off, their handlers go on.
Reload(t) ==
  /\ status[t] = "fatal"
  /\ Q!ReloadPage(t)
  /\ session' = [session EXCEPT ![t] = "closed"]
  /\ edited' = [edited EXCEPT ![t] = {}]
  /\ conn' = [conn EXCEPT ![t] = [l \in Loop |-> NoHandler]]
  /\ UNCHANGED << serviceVars, faults, loaded, doc, view, loads >>

(***************************************************************************)
(* Requests and replies.                                                   *)
(***************************************************************************)

\* The loop sends its current command; a handler takes it up.
SendRequest(t, l, h) ==
  /\ Q!Send(t, l)
  /\ S!Receive(h, [kind |-> "browser", entries |-> Q!Current(t, l).txs,
                   denied |-> {}, version |-> loop[t][l].version])
  /\ conn' = [conn EXCEPT ![t][l] = h]
  /\ UNCHANGED << tabVars, faults >>

\* The reply of the handler reaches the loop.
Deliver(t, l) ==
  LET h == conn[t][l]
  IN /\ h # NoHandler
     /\ handler[h].pc = "done"
     /\ \/ handler[h].reply = "ok" /\ Q!ReplyOk(t, l, handler[h].version)
        \/ /\ handler[h].reply \in {"version_mismatched", "refused", "partial"}
           /\ Q!ReplyFatal(t, l)
        \/ handler[h].reply = "error" /\ Q!ReplyError(t, l)
     /\ S!End(h)
     /\ conn' = [conn EXCEPT ![t][l] = NoHandler]
     /\ UNCHANGED << tabVars, faults >>

\* The connection breaks; the handler does not notice.
LoseConnection(t, l) ==
  /\ faults < MaxFaults
  /\ conn[t][l] # NoHandler
  /\ Q!NetworkError(t, l)
  /\ conn' = [conn EXCEPT ![t][l] = NoHandler]
  /\ faults' = faults + 1
  /\ UNCHANGED << serviceVars, tabVars >>

\* The server process dies in the middle of a request.
Crash(t, l) ==
  /\ faults < MaxFaults
  /\ conn[t][l] # NoHandler
  /\ Q!NetworkError(t, l)
  /\ S!End(conn[t][l])
  /\ conn' = [conn EXCEPT ![t][l] = NoHandler]
  /\ faults' = faults + 1
  /\ UNCHANGED tabVars

Connected(h) == \E t \in Tab, l \in Loop : conn[t][l] = h

\* A handler whose client is gone ends.
Orphan(h) ==
  /\ ~Connected(h)
  /\ handler[h].pc = "done"
  /\ S!End(h)
  /\ UNCHANGED << queueVars, tabVars, netVars >>

(***************************************************************************)
(* Steps of the parts.                                                     *)
(***************************************************************************)
Handle(h) ==
  /\ S!Progress(h)
  /\ UNCHANGED << queueVars, tabVars, netVars >>

HandlerFault(h) ==
  /\ faults < MaxFaults
  /\ S!Refuse(h) \/ S!Fail(h)
  /\ faults' = faults + 1
  /\ UNCHANGED << queueVars, tabVars, conn >>

LoopStep(t, l) ==
  /\ Q!Poll(t, l) \/ Q!Abort(t, l) \/ Q!Outdated(t, l) \/ Q!SetDetails(t, l)
  /\ UNCHANGED << serviceVars, tabVars, netVars >>

User(t) ==
  \/ Load(t) \/ Open(t) \/ MakeEdit(t) \/ Leave(t) \/ Close(t) \/ Reload(t)

Next ==
  \/ \E t \in Tab : User(t)
  \/ \E t \in Tab, l \in Loop :
       \/ LoopStep(t, l)
       \/ Deliver(t, l)
       \/ LoseConnection(t, l)
       \/ Crash(t, l)
       \/ \E h \in Handler : SendRequest(t, l, h)
  \/ \E h \in Handler : Handle(h) \/ HandlerFault(h) \/ Orphan(h)

Spec == Init /\ [][Next]_vars

\* The event loop runs the timers and continuations of a loop, the server
\* executes requests and answers.  Users are free to do nothing.
Fairness ==
  /\ \A t \in Tab, l \in Loop :
       /\ WF_vars(LoopStep(t, l))
       /\ WF_vars(Deliver(t, l))
       /\ WF_vars(\E h \in Handler : SendRequest(t, l, h))
  /\ \A h \in Handler : WF_vars(Handle(h)) /\ WF_vars(Orphan(h))

FairSpec == Spec /\ Fairness

(***************************************************************************)
(* Correctness.                                                            *)
(***************************************************************************)
TypeOK ==
  /\ Q!TypeOK
  /\ S!TypeOK
  /\ session \in [Tab -> {"closed", "loading", "open"}]
  /\ loaded \in [Tab -> [version : Nat, log : Seq(Tx)]]
  /\ edited \in [Tab -> SUBSET Tx]
  /\ doc \in [Tab -> Seq(Tx)]
  /\ view \in Seq(Seq(Tx))
  /\ loads \in [Tab -> 0 .. MaxLoads]
  /\ conn \in [Tab -> [Loop -> Handler \cup {NoHandler}]]
  /\ faults \in 0 .. MaxFaults

\* Every edit the build holds was applied to exactly the content its author
\* saw when making it: no tab ever saves on top of changes it has not loaded,
\* or without edits it made before.
SavedOnWhatWasSeen ==
  \A k \in DOMAIN build.log : view[build.log[k]] = SubSeq(build.log, 1, k - 1)

\* The edits of a page are saved in the order they were made and each of them
\* once, also while the loop of a closed dialog still retries next to the loop
\* of the one opened after it.
SavedInOrder ==
  \A t \in Tab : \A k \in DOMAIN build.log : \A j \in 1 .. k - 1 :
    {build.log[j], build.log[k]} \subseteq edited[t] => build.log[j] < build.log[k]

\* An edit reported as saved (completeTransaction) is in the build.
CompletedIsSaved ==
  \A t \in Tab : completed[t] \subseteq Range(build.log)

\* The same for edits that can be applied at all.
CompletedIsSavedUnlessCyclic ==
  \A t \in Tab : completed[t] \ CyclicEdits \subseteq Range(build.log)

\* "Promisify idle state of the queue for a one-off notification when
\* everything is saved" (isSyncIdle): a tab that shows "idle" has no edit that
\* is not in the build.
IdleMeansSaved ==
  \A t \in Tab : status[t] = "idle" => edited[t] \subseteq Range(build.log)

\* Starting and stopping in any order never leaves a controller whose loop was
\* not started (startPolling returns early, pollQueue too when isPolling) or is
\* already aborted (stopPolling).  The loop may have ended by itself, with the
\* status "fatal".
PollerServesQueue ==
  \A t \in Tab : controller[t] # 0 => Q!Serving(t, controller[t])

\* A version mismatch is reported because "the project has been edited in a
\* different tab, browser, or by another user" (singlePlayerVersionMismatchError).
MismatchMeansForeignEdit ==
  \A t \in Tab, l \in Loop :
    /\ conn[t][l] # NoHandler
    /\ handler[conn[t][l]].reply = "version_mismatched"
    => Range(build.log) \ edited[t] # {}

\* Every edit is eventually saved, unless the tab needs a reload.
EditsSettle ==
  \A t \in Tab, x \in Tx :
    x \in edited[t] ~> (x \in Range(build.log) \/ x \notin edited[t] \/ Q!Dead(t))
=============================================================================
