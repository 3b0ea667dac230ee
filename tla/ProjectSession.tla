--------------------------- MODULE ProjectSession ---------------------------
(***************************************************************************)
(* ProjectSession of the CLI and of the MCP server: a copy of a build, in  *)
(* memory and in one file that all processes of a folder share.  Calls     *)
(* read the copy, fetch what it lacks, and commit mutations computed from  *)
(* it with the version of the copy.                                        *)
(*                                                                         *)
(* A session is a process with one ProjectSession object; its calls        *)
(* interleave at every await, except that a mutation waits for the one     *)
(* before it (enqueueMutation).  An access to the file and the code that   *)
(* goes on with its result are one step here; the check of the revision    *)
(* and the write of the file, and every request and its answer, are not.   *)
(*                                                                         *)
(* The server is external: it holds a log of saved transactions, and the   *)
(* build version is the length of this log.  The content of a namespace is *)
(* the set of the log entries it shows.  A revision is a fresh random id   *)
(* that is only compared with the one in the file, so a session remembers  *)
(* whether the file is still the one it knows.  Permissions and            *)
(* compatibility are left out; reverting to a restore point is a mutation  *)
(* that needs all namespaces.                                              *)
(***************************************************************************)
EXTENDS Integers, Sequences, FiniteSets

CONSTANTS
  Session,     \* processes
  Call,        \* calls of operations, each made once
  Namespace,   \* BuilderNamespace
  Operation,   \* the contracts of the operations
  NoSnapshot,  \* undefined
  Nobody,      \* writer of a transaction that comes from a browser
  BusyRetries, \* length of projectSessionBusyRetryDelays
  MaxEdits,    \* bound: transactions from browsers
  MaxFaults    \* bound: failed or repeated requests, killed processes, resets

ASSUME ProjectSessionAssumption ==
  /\ \A o \in Operation :
       /\ o.kind \in {"read", "mutate", "generated", "restore", "server", "refresh", "markStale"}
       /\ o.needs \subseteq Namespace /\ o.invalidates \subseteq Namespace
       /\ o.writes \in Namespace
       /\ o.retryOnConflict \in BOOLEAN
       /\ o.kind \in {"mutate", "restore"} => o.writes \in o.needs
       /\ o.kind \in {"generated", "server"} => o.writes \in o.invalidates
       /\ o.kind # "server" => o.needs # {}
  /\ Nobody \notin Call
  /\ NoSnapshot \notin
       [version : Nat,
        part : [Namespace -> [status : {"missing", "fresh", "stale", "invalidated"}, version : Nat,
                              source : {"local", "remote"}, content : SUBSET Nat]]]
  /\ BusyRetries \in Nat /\ MaxEdits \in Nat /\ MaxFaults \in Nat

VARIABLES
  log,     \* the server: saved transactions
  file,    \* the snapshot on disk
  memory,  \* #snapshot of each session
  known,   \* #revision of each session: "none", "current" or "old"
  call,    \* what each call is doing
  faults   \* faults that have happened

vars == << log, file, memory, known, call, faults >>

-----------------------------------------------------------------------------
(* Snapshots.                                                              *)

Status == {"missing", "fresh", "stale", "invalidated"}
Missing == [status |-> "missing", version |-> 0, source |-> "local", content |-> {}]

\* What the server has of a namespace at a version.
ServerContent(n, v) == {i \in 1 .. v : log[i].namespace = n}

Fetched(n, v) ==
  [status |-> "fresh", version |-> v, source |-> "remote", content |-> ServerContent(n, v)]

\* Mutant: everything is taken to be as new as the fetch.
MergeAllFresh(current, v, S) ==
  [version |-> v,
   part |-> [n \in Namespace |->
     IF n \in S THEN Fetched(n, v)
     ELSE IF current = NoSnapshot \/ current.part[n].status = "missing" THEN Missing
     ELSE [current.part[n] EXCEPT !.version = v, !.status = "fresh"]]]

\* mergeSnapshot: what was not fetched stays, under the new version.
Merge(current, v, S) ==
  [version |-> v,
   part |-> [n \in Namespace |-> IF n \in S THEN Fetched(n, v)
                                 ELSE IF current = NoSnapshot THEN Missing
                                 ELSE current.part[n]]]

\* getNamespacesNeedingRemote.
NeedingRemote(snapshot, S) ==
  IF snapshot = NoSnapshot THEN S
  ELSE {n \in S : snapshot.part[n].status # "fresh"}

\* markBuilderStateNamespacesStale and ...Invalidated; no snapshot stays so.
Mark(snapshot, S, status) ==
  IF snapshot = NoSnapshot THEN NoSnapshot
  ELSE [snapshot EXCEPT !.part = [n \in Namespace |->
          IF n \in S /\ @[n].status # "missing" THEN [@[n] EXCEPT !.status = status] ELSE @[n]]]

\* The snapshot after a commit that the server answered with version v.
Committed(base, o, v) ==
  Mark([version |-> v,
        part |-> [base.part EXCEPT ![o.writes] =
          [status |-> "fresh", version |-> v, source |-> "local", content |-> @.content \cup {v}]]],
       o.invalidates, "invalidated")

-----------------------------------------------------------------------------
(* Calls.  base is the snapshot the call works with, need what it fetches, *)
(* after the code that goes on once this is saved, shown the snapshot that *)
(* the call returns.                                                       *)

Idle == [phase |-> "idle"]
Over(c, k, committed, shown) ==
  [phase |-> "over", session |-> k.session, op |-> k.op, faulty |-> k.faulty,
   committed |-> committed, shown |-> shown]

\* The answer a call has dealt with.
Dealt(k) == [k EXCEPT !.answer = "none", !.version = 0, !.sent = 0]

Set(c, k) == call' = [call EXCEPT ![c] = k]
\* Operations that wait for the one before them.
Mutations == {"mutate", "generated", "restore"}

Active(c) == call[c].phase \notin {"idle", "over"}
Mutating(c) == Active(c) /\ call[c].op.kind \in Mutations

Begin(s, o, phase) ==
  [phase |-> phase, session |-> s, op |-> o, base |-> NoSnapshot, need |-> {},
   after |-> "ensure", attempt |-> 0, answer |-> "none", version |-> 0,
   txn |-> 1, sent |-> 0, faulty |-> FALSE, shown |-> NoSnapshot]

Init ==
  /\ log = << >>
  /\ file = NoSnapshot
  /\ memory = [s \in Session |-> NoSnapshot]
  /\ known = [s \in Session |-> "none"]
  /\ call = [c \in Call |-> Idle]
  /\ faults = 0

\* #loadLocalSnapshot: the file is read if there is no snapshot in memory.
Loaded(s) == IF memory[s] # NoSnapshot THEN memory[s] ELSE file

Load(s) ==
  /\ memory' = [memory EXCEPT ![s] = Loaded(s)]
  /\ known' = [known EXCEPT ![s] = IF memory[s] = NoSnapshot /\ file # NoSnapshot
                                   THEN "current" ELSE @]

\* Mutant: the revision is read again, but not the snapshot.
ReloadRevision(s) ==
  /\ known' = [known EXCEPT ![s] = IF file = NoSnapshot THEN "none" ELSE "current"]
  /\ UNCHANGED memory

\* #reloadLocalSnapshot.
Reload(s) ==
  /\ memory' = [memory EXCEPT ![s] = file]
  /\ known' = [known EXCEPT ![s] = IF file = NoSnapshot THEN "none" ELSE "current"]

\* fetchAndSave sends its request; current is the snapshot to merge into.
Fetch(k, current, S, after) ==
  [Dealt(k) EXCEPT !.phase = "fetch", !.base = current, !.need = S, !.after = after]

\* commitMutation is about to compute the mutation from a snapshot.
Planning(k, snapshot) ==
  [k EXCEPT !.phase = "plan", !.base = snapshot, !.need = {}, !.attempt = 0]

\* storage.save looks at the revision of the file.
TrySave(k, snapshot, s) ==
  [Dealt(k) EXCEPT !.base = snapshot, !.phase = IF known[s] = "old" THEN "busy" ELSE "save"]

Start(c, s, o) ==
  /\ call[c] = Idle
  /\ o.kind \in Mutations =>
       \A d \in Call : Mutating(d) => call[d].session # s
  /\ Set(c, Begin(s, o, CASE o.kind = "server" -> "server"
                          [] o.kind = "markStale" -> "markStale"
                          [] OTHER -> "ensure"))
  /\ UNCHANGED << log, file, memory, known, faults >>

\* ensureNamespaces; refresh fetches in any case.
Ensure(c) ==
  LET k == call[c]
      snapshot == Loaded(k.session)
      missing == IF k.op.kind = "refresh" THEN k.op.needs
                 ELSE NeedingRemote(snapshot, k.op.needs)
  IN /\ k.phase = "ensure"
     /\ Load(k.session)
     /\ Set(c, IF missing # {} THEN Fetch(k, snapshot, missing, "ensure")
               ELSE IF k.op.kind = "read" THEN Over(c, k, FALSE, snapshot)
               ELSE Planning(k, snapshot))
     /\ UNCHANGED << log, file, faults >>

\* The mutation is computed from the snapshot and sent.  A mutation that has
\* to create generated records runs on the server instead; one that changes
\* nothing, fails or is only planned ends here.
Plan(c) ==
  LET k == call[c]
  IN /\ k.phase = "plan"
     /\ \/ Set(c, [k EXCEPT !.phase = IF k.op.kind = "generated" THEN "server" ELSE "commit",
                            !.sent = 1])
        \/ Set(c, Over(c, k, FALSE, k.base))
     /\ UNCHANGED << log, file, memory, known, faults >>

-----------------------------------------------------------------------------
(* What a fetch, a commit or a save leads to.                              *)

\* The fetched namespaces are merged and the result is to be saved.
Receive(c) ==
  LET k == call[c]
  IN /\ k.phase = "fetched"
     /\ Set(c, TrySave(k, Merge(k.base, k.version, k.need), k.session))
     /\ UNCHANGED << log, file, memory, known, faults >>

\* The saved snapshot is handed to the code that waits for it.
Saved(c, k) ==
  CASE k.after = "ensure" /\ k.op.kind \in Mutations -> Planning(k, k.base)
    [] k.after = "retry" -> [Planning(k, k.base) EXCEPT !.txn = 2]
    [] OTHER -> Over(c, k, k.after \in {"committed", "sync", "reconcile"}, k.base)

\* saveSnapshot writes the file, whatever has happened since the revision was
\* compared.
Save(c) ==
  LET k == call[c]
  IN /\ k.phase = "save"
     /\ file' = k.base
     /\ memory' = [memory EXCEPT ![k.session] = k.base]
     /\ known' = [s \in Session |-> IF s = k.session THEN "current"
                                    ELSE IF known[s] = "current" THEN "old" ELSE known[s]]
     /\ Set(c, Saved(c, k))
     /\ UNCHANGED << log, faults >>

\* Mutant: no limit on the retries.
RetryForever(c) ==
  LET k == call[c]
  IN /\ k.phase = "busy" /\ k.after # "committed"
     /\ Reload(k.session)
     /\ LET again == [k EXCEPT !.attempt = @ + 1]
        IN Set(c, IF k.after = "mark" THEN [again EXCEPT !.phase = "markStale"]
                  ELSE Fetch(again, file, k.need, k.after))
     /\ UNCHANGED << log, file, faults >>

\* The file has changed: load it, and fetch or mark again.
RetryBusy(c) ==
  LET k == call[c]
  IN /\ k.phase = "busy" /\ k.after # "committed" /\ k.attempt < BusyRetries
     /\ Reload(k.session)
     /\ LET again == [k EXCEPT !.attempt = @ + 1]
        IN Set(c, IF k.after = "mark" THEN [again EXCEPT !.phase = "markStale"]
                  ELSE Fetch(again, file, k.need, k.after))
     /\ UNCHANGED << log, file, faults >>

\* A fetch has failed, or saving for good.
Broken(k) ==
  \/ k.phase = "failed"
  \/ k.phase = "busy" /\ (k.after = "committed" \/ k.attempt = BusyRetries)

\* Nothing was committed: the call ends.
GiveUp(c) ==
  LET k == call[c]
  IN /\ Broken(k)
     /\ k.after \in {"ensure", "retry", "conflict", "mark"}
     /\ Set(c, Over(c, k, FALSE, NoSnapshot))
     /\ UNCHANGED << log, file, memory, known, faults >>

\* Mutant: the snapshot of the other process is good enough.
ReconcileFromFile(c) ==
  LET k == call[c]
  IN /\ Broken(k)
     /\ k.after \in {"committed", "sync"}
     /\ Reload(k.session)
     /\ Set(c, Over(c, k, TRUE, file))
     /\ UNCHANGED << log, file, faults >>

\* #synchronizeAfterCommit: committed, but not saved here; fetch once more.
Reconcile(c) ==
  LET k == call[c]
  IN /\ Broken(k)
     /\ k.after \in {"committed", "sync"}
     /\ Reload(k.session)
     /\ Set(c, Fetch([k EXCEPT !.attempt = 0], file, k.need, "reconcile"))
     /\ UNCHANGED << log, file, faults >>

\* ... and if that fails too, nothing that was touched counts as fresh.
MarkUnreconciled(c) ==
  LET k == call[c]
  IN /\ Broken(k)
     /\ k.after = "reconcile"
     /\ memory' = [memory EXCEPT ![k.session] = Mark(@, k.need, "stale")]
     /\ Set(c, Over(c, k, TRUE, IF k.shown = NoSnapshot THEN memory'[k.session]
                               ELSE Mark(k.shown, k.need, "stale")))
     /\ UNCHANGED << log, file, known, faults >>

\* A version conflict.  A mutation fetches what it needs, to be tried once
\* more if it is safe to retry and the conflict is certain.
Conflict(c, k, certain) ==
  IF k.op.kind \in {"server", "restore"} \/ k.txn = 2
  THEN Set(c, Over(c, k, FALSE, NoSnapshot)) /\ UNCHANGED << memory, known >>
  ELSE /\ Load(k.session)
       /\ Set(c, Fetch([k EXCEPT !.attempt = 0], Loaded(k.session), k.op.needs,
                       IF k.op.retryOnConflict /\ certain THEN "retry" ELSE "conflict"))

CommitOk(c) ==
  LET k == call[c]
      next == Committed(k.base, k.op, k.version)
  IN /\ k.phase = "answered" /\ k.answer = "ok"
     /\ Set(c, TrySave([k EXCEPT !.after = "committed", !.attempt = 0, !.shown = next,
                                 !.need = k.op.needs \cup k.op.invalidates], next, k.session))
     /\ UNCHANGED << log, file, memory, known, faults >>

\* Mutant: the transaction that is sent again has a new id.
ConfirmAnew(c) ==
  LET k == call[c]
  IN /\ k.phase = "answered" /\ k.answer = "conflict" /\ k.sent = 1
     /\ Set(c, [k EXCEPT !.phase = "commit", !.sent = 2, !.txn = @ + 2])
     /\ UNCHANGED << log, file, memory, known, faults >>

\* commitWithConflictConfirmation: maybe the transaction was saved after all,
\* so the same one is sent again.
Confirm(c) ==
  LET k == call[c]
  IN /\ k.phase = "answered" /\ k.answer = "conflict" /\ k.sent = 1
     /\ Set(c, [k EXCEPT !.phase = "commit", !.sent = 2])
     /\ UNCHANGED << log, file, memory, known, faults >>

\* Mutant: a second conflict is taken for a confirmation.
ConflictConfirms(c) ==
  LET k == call[c]
  IN /\ k.phase = "answered" /\ k.answer \in {"conflict", "error"} /\ k.sent = 2
     /\ Set(c, Over(c, k, TRUE, k.base))
     /\ UNCHANGED << log, file, memory, known, faults >>

\* The second answer was no better: a conflict, certain if it says so.
CommitConflict(c) ==
  LET k == call[c]
  IN /\ k.phase = "answered" /\ k.answer \in {"conflict", "error"} /\ k.sent = 2
     /\ Conflict(c, k, k.answer = "conflict")
     /\ UNCHANGED << log, file, faults >>

CommitError(c) ==
  LET k == call[c]
  IN /\ k.phase = "answered" /\ k.answer = "error" /\ k.sent = 1
     /\ Set(c, Over(c, k, FALSE, NoSnapshot))
     /\ UNCHANGED << log, file, memory, known, faults >>

\* executeServerOperation: what the operation invalidates is fetched.
OperationOk(c) ==
  LET k == call[c]
  IN /\ k.phase = "served" /\ k.answer = "ok"
     /\ Load(k.session)
     /\ Set(c, Fetch([k EXCEPT !.attempt = 0,
                               !.shown = Mark(memory[k.session], k.op.invalidates, "invalidated")],
                     Loaded(k.session), k.op.invalidates, "sync"))
     /\ UNCHANGED << log, file, faults >>

OperationFailed(c) ==
  LET k == call[c]
  IN /\ k.phase = "served" /\ k.answer # "ok"
     /\ IF k.answer = "conflict" THEN Conflict(c, k, TRUE)
        ELSE Set(c, Over(c, k, FALSE, NoSnapshot)) /\ UNCHANGED << memory, known >>
     /\ UNCHANGED << log, file, faults >>

\* markStale marks the snapshot in memory before it is saved.
MarkStale(c) ==
  LET k == call[c]
      s == k.session
      next == Mark(memory[s], k.op.needs, "stale")
  IN /\ k.phase = "markStale"
     /\ memory' = [memory EXCEPT ![s] = next]
     /\ Set(c, IF next = NoSnapshot THEN Over(c, k, FALSE, next)
               ELSE TrySave([k EXCEPT !.after = "mark"], next, s))
     /\ UNCHANGED << log, file, known, faults >>

-----------------------------------------------------------------------------
(* Processes.                                                              *)

\* initialize: the MCP server calls it before each operation, whatever else
\* its session is doing.
Initialize(s) ==
  /\ file # NoSnapshot
  /\ Reload(s)
  /\ UNCHANGED << log, file, call, faults >>

Reset(s) ==
  /\ faults < MaxFaults /\ faults' = faults + 1
  /\ file' = NoSnapshot
  /\ memory' = [memory EXCEPT ![s] = NoSnapshot]
  /\ known' = [t \in Session |-> IF t = s THEN "none"
                                 ELSE IF known[t] = "current" THEN "old" ELSE known[t]]
  /\ UNCHANGED << log, call >>

\* A process ends, or is killed with calls under way; a new one starts with
\* nothing in memory.
Exit(s) ==
  LET killed == {c \in Call : Active(c) /\ call[c].session = s}
  IN /\ killed # {} => faults < MaxFaults
     /\ faults' = IF killed = {} THEN faults ELSE faults + 1
     /\ memory' = [memory EXCEPT ![s] = NoSnapshot]
     /\ known' = [known EXCEPT ![s] = "none"]
     /\ call' = [c \in Call |-> IF c \in killed
                                THEN Over(c, [call[c] EXCEPT !.faulty = TRUE], FALSE, NoSnapshot)
                                ELSE call[c]]
     /\ UNCHANGED << log, file >>

-----------------------------------------------------------------------------
(* The server and the network (external).                                  *)

Append1(c, txn, n) == log' = Append(log, [call |-> c, txn |-> txn, namespace |-> n])

Browser(n) ==
  /\ Len(SelectSeq(log, LAMBDA e : e.call = Nobody)) < MaxEdits
  /\ Append1(Nobody, 0, n)
  /\ UNCHANGED << file, memory, known, call, faults >>

AnswerFetch(c) ==
  /\ call[c].phase = "fetch"
  /\ Set(c, [call[c] EXCEPT !.phase = "fetched", !.version = Len(log)])
  /\ UNCHANGED << log, file, memory, known, faults >>

Answer(c, phase, answer, version, faulty) ==
  Set(c, [call[c] EXCEPT !.phase = phase, !.answer = answer, !.version = version,
                         !.faulty = @ \/ faulty])

\* The version is compared; the transaction saved last is answered again.
ServeCommit(c) ==
  LET k == call[c]
      n == Len(log)
  IN /\ k.phase = "commit"
     /\ \/ /\ k.base.version = n
           /\ Append1(c, k.txn, k.op.writes)
           /\ Answer(c, "answered", "ok", n + 1, FALSE)
        \/ /\ k.base.version # n
           /\ Answer(c, "answered",
                     IF n > 0 /\ log[n].call = c /\ log[n].txn = k.txn THEN "ok" ELSE "conflict",
                     n, FALSE)
           /\ UNCHANGED log
     /\ UNCHANGED << file, memory, known, faults >>

ServeOperation(c) ==
  /\ call[c].phase = "server"
  /\ Append1(c, call[c].txn, call[c].op.writes)
  /\ Answer(c, "served", "ok", Len(log) + 1, FALSE)
  /\ UNCHANGED << file, memory, known, faults >>

\* A request is lost, or an operation conflicts on the server.
LoseRequest(c) ==
  /\ \/ call[c].phase = "fetch" /\ Set(c, [call[c] EXCEPT !.phase = "failed"])
     \/ call[c].phase = "commit" /\ Answer(c, "answered", "error", 0, FALSE)
     \/ /\ call[c].phase = "server"
        /\ \E a \in {"error", "conflict"} : Answer(c, "served", a, 0, FALSE)
  /\ faults < MaxFaults /\ faults' = faults + 1
  /\ UNCHANGED << log, file, memory, known >>

\* The answer to a saved commit is lost; or the commit arrived twice, and the
\* answer that comes back is the conflict of the one with the other.
LoseAnswer(c) ==
  LET k == call[c]
  IN /\ \/ /\ k.phase = "commit" /\ k.base.version = Len(log)
           /\ \E a \in {"error", "conflict"} : Answer(c, "answered", a, 0, TRUE)
        \/ k.phase = "server" /\ Answer(c, "served", "error", 0, TRUE)
     /\ Append1(c, k.txn, k.op.writes)
     /\ faults < MaxFaults /\ faults' = faults + 1
     /\ UNCHANGED << file, memory, known >>

-----------------------------------------------------------------------------
CallStep(c) ==
  \/ Ensure(c) \/ Plan(c) \/ Receive(c) \/ Save(c) \/ RetryBusy(c) \/ GiveUp(c)
  \/ Reconcile(c) \/ MarkUnreconciled(c) \/ CommitOk(c) \/ Confirm(c)
  \/ CommitConflict(c) \/ CommitError(c) \/ OperationOk(c) \/ OperationFailed(c)
  \/ MarkStale(c)

ServerStep(c) ==
  AnswerFetch(c) \/ ServeCommit(c) \/ ServeOperation(c) \/ LoseRequest(c) \/ LoseAnswer(c)

Next ==
  \/ \E c \in Call : CallStep(c) \/ ServerStep(c)
  \/ \E c \in Call, s \in Session, o \in Operation : Start(c, s, o)
  \/ \E s \in Session : Initialize(s) \/ Reset(s) \/ Exit(s)
  \/ \E n \in Namespace : Browser(n)

Spec == Init /\ [][Next]_vars

-----------------------------------------------------------------------------
(* Properties.                                                             *)

SnapshotOK(x) ==
  x # NoSnapshot =>
    /\ x.version \in 0 .. Len(log)
    /\ \A n \in Namespace :
         /\ x.part[n].status \in Status
         /\ x.part[n].version \in 0 .. x.version
         /\ x.part[n].content \subseteq 1 .. x.version

\* All variables have their types; in particular a call never retries a busy
\* file more often than there are delays.
TypeOK ==
  /\ \A i \in DOMAIN log : log[i].call \in Call \cup {Nobody} /\ log[i].namespace \in Namespace
  /\ SnapshotOK(file)
  /\ \A s \in Session : SnapshotOK(memory[s]) /\ known[s] \in {"none", "current", "old"}
  /\ \A c \in Call : call[c].phase # "idle" =>
       /\ call[c].session \in Session /\ call[c].op \in Operation /\ SnapshotOK(call[c].shown)
       /\ call[c].phase # "over" =>
            /\ call[c].attempt \in 0 .. BusyRetries /\ call[c].txn \in 1 .. 2
            /\ call[c].need \subseteq Namespace /\ SnapshotOK(call[c].base)
  /\ faults \in 0 .. MaxFaults

Snapshots ==
  {file} \cup {memory[s] : s \in Session} \cup
  {call[c].shown : c \in {d \in Call : call[d].phase # "idle"}}

\* Whatever was merged, saved over, retried or reconciled: content that is said
\* to come from the server is what the server had at the version said, and no
\* snapshot shows a transaction the server does not hold.
ContentIsTrue ==
  \A x \in Snapshots \ {NoSnapshot} : \A n \in Namespace :
    LET p == x.part[n]
    IN /\ p.source = "remote" => p.content = ServerContent(n, p.version)
       /\ p.content \subseteq ServerContent(n, p.version)

SavedBy(c) == {i \in DOMAIN log : log[i].call = c}

\* A call that reports its change as committed has been saved by the server,
\* and one that reports it as not committed has not, unless an answer of the
\* server got lost or its process was killed.
ReportsAreTrue ==
  \A c \in Call : call[c].phase = "over" =>
    /\ call[c].committed => SavedBy(c) # {}
    /\ SavedBy(c) # {} => call[c].committed \/ call[c].faulty

\* However often a transaction is sent, a call is saved twice only if another
\* transaction came between the two.
NotSavedTwiceInARow ==
  \A i \in 2 .. Len(log) : log[i].call = log[i - 1].call => log[i].call = Nobody

\* The snapshot a committed call returns shows its change, or does not pass
\* off the namespace of the change as fresh: also when the file was changed by
\* another process, or the fetch after the commit failed.
WrittenIsShown ==
  \A c \in Call : call[c].phase = "over" /\ call[c].committed /\ call[c].shown # NoSnapshot =>
    LET p == call[c].shown.part[call[c].op.writes]
    IN p.status = "fresh" => SavedBy(c) \cap p.content # {}

\* A session that passes the comparison of revisions has in memory what is in
\* the file, but for what it has marked since.
KnownFileIsInMemory ==
  \A s \in Session : known[s] = "current" =>
    /\ memory[s] # NoSnapshot /\ file # NoSnapshot
    /\ memory[s].version = file.version
    /\ \A n \in Namespace :
         LET p == memory[s].part[n]
             q == file.part[n]
         IN /\ p.content = q.content /\ p.version = q.version
            /\ p.status = "fresh" => q.status = "fresh"
=============================================================================
