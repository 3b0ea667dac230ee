---------------------------- MODULE PatchService ----------------------------
(***************************************************************************)
(* The server side of saving a project: the handlers of build.patch (the   *)
(* browser and the collaboration relay) and of the API commit used by the  *)
(* CLI, and the import of a project bundle, all writing one Build row.     *)
(*                                                                         *)
(* A handler is a chain of awaited database calls; between two of them any *)
(* other handler may run, the process may die, or the call may fail, also  *)
(* after it took effect.  One action is one such call or one decision of   *)
(* the synchronous code between calls.                                     *)
(*                                                                         *)
(* The content of the build is abstracted to the sequence of transactions  *)
(* it was made from: applying the patches of a transaction appends it, an  *)
(* import (which replaces the content) appends itself.                     *)
(***************************************************************************)
EXTENDS Naturals, Sequences, Functions

CONSTANTS
  Tx,          \* transactions (their ids)
  Cyclic,      \* those createBuildPatchUpdate answers with an error: their
               \*   patches close a cycle in the instance tree
  AssetTx,     \* those with "assets" or "assetFolders" patches
  PreviewTx,   \* those that change the social image of the home page
  Importer,    \* imports of a project bundle (their transaction ids)
  Handler,     \* request handlers of the server
  Request,     \* the requests clients send, each any number of times
  NoTx         \* null

\* "browser" and "relay" are the two sources of build.patch, "api" is the
\* commit of the public API.
Kind == {"browser", "relay", "api"}

\* The transactions of a request, split by what authorization says of them:
\* entries may be applied, in this order; denied are rejected.
RequestType ==
  [kind : Kind, entries : Seq(Tx), denied : SUBSET Tx, version : Nat]

ASSUME ConstantsAssumption ==
  /\ Cyclic \cup AssetTx \cup PreviewTx \subseteq Tx
  /\ Importer \cap Tx = {}
  /\ NoTx \notin Tx \cup Importer
  /\ Request \subseteq RequestType

ASSUME RequestAssumption ==
  \A r \in Request :
    /\ r.entries # << >> \/ r.denied # {}
    /\ r.kind = "api" => r.entries # << >> /\ r.denied = {}

\* A transaction has a random id and is sent in one request, again and again
\* if need be, but always with the same entries and version: pollQueue repeats
\* one command until it is answered, the CLI gives every commit a new id.  Of
\* the relay, which is not in this repository, it is an assumption.
ASSUME RetryAssumption ==
  /\ \A r \in Request : IsInjective(r.entries)
  /\ \A q, r \in Request : Range(q.entries) \cap Range(r.entries) # {} => q = r

VARIABLES
  build,       \* the Build row: version, lastTransactionId and content
  assets,      \* the transactions and imports the asset rows come from
  preview,     \* the transaction or import that set the preview image
  handler,     \* what each handler is doing
  importer     \* what each import is doing

vars == << build, assets, preview, handler, importer >>

Edit == Tx \cup Importer

Row == [version : Nat, lastTx : Edit \cup {NoTx}, log : Seq(Edit)]

EmptyRow == [version |-> 0, lastTx |-> NoTx, log |-> << >>]

(***************************************************************************)
(* The local state of a handler.                                           *)
(***************************************************************************)
HandlerPc == {"idle", "loadState", "loadBuild", "patch", "assets", "commit",
              "preview", "next", "done"}

Reply == {"none", "ok", "partial", "version_mismatched", "refused", "error"}

HandlerState ==
  [pc       : HandlerPc,
   kind     : Kind,
   entries  : Seq(Tx),          \* authorized entries
   denied   : SUBSET Tx,        \* rejected entries
   version  : Nat,              \* clientVersion of the current attempt
   seen     : Nat,              \* version read by loadBuildState
   row      : Row,              \* the build in memory: build, currentBuild
   cur      : Seq(Tx),          \* transactions of the current attempt
   todo     : Seq(Tx),          \* entries still to apply one by one
   single   : BOOLEAN,          \* in the per-entry loop
   accepted : SUBSET Tx,        \* entries reported as accepted
   reply    : Reply]

Idle ==
  [pc |-> "idle", kind |-> "api", entries |-> << >>, denied |-> {},
   version |-> 0, seen |-> 0, row |-> EmptyRow, cur |-> << >>,
   todo |-> << >>, single |-> FALSE, accepted |-> {}, reply |-> "none"]

ImporterPc == {"idle", "commit", "reset", "delete", "insert", "preview", "done"}

ImporterState == [pc : ImporterPc, version : Nat]

Init ==
  /\ build = EmptyRow
  /\ assets = {}
  /\ preview = NoTx
  /\ handler = [h \in Handler |-> Idle]
  /\ importer = [i \in Importer |-> [pc |-> "idle", version |-> 0]]

LastTx(txs) == txs[Len(txs)]

\* All authorized entries share one writer context, so they are tried as one
\* batch.  Relay entries each get a context of their own.
Shared(s) == s.kind # "relay" \/ Len(s.entries) = 1

\* The handler answers; nothing of its local state matters any more but what
\* the reply says.
Answer(h, status) ==
  handler' = [handler EXCEPT ![h] =
    [Idle EXCEPT !.pc = "done", !.reply = status,
                 !.kind = handler[h].kind, !.entries = handler[h].entries,
                 !.denied = handler[h].denied, !.version = handler[h].version,
                 !.accepted = handler[h].accepted]]

\* The current attempt succeeded: its entries are accepted.
Saved(s) == [s EXCEPT !.pc = "next", !.accepted = @ \cup Range(s.cur)]

(***************************************************************************)
(* Handler actions.                                                        *)
(***************************************************************************)

\* A request arrives.  The API commit goes straight to patchBuild.
Receive(h, r) ==
  /\ handler[h].pc = "idle"
  /\ handler' = [handler EXCEPT ![h] =
       [Idle EXCEPT !.pc = IF r.kind = "api" THEN "loadBuild" ELSE "loadState",
                    !.kind = r.kind, !.entries = r.entries,
                    !.denied = r.denied, !.version = r.version]]
  /\ UNCHANGED << build, assets, preview, importer >>

\* assertBrowserPatchContext, assertRelayPatchContext: the app version of the
\* client is not the server's, or the caller is not signed in any more.
Refuse(h) ==
  /\ handler[h].pc = "loadState"
  /\ Answer(h, "refused")
  /\ UNCHANGED << build, assets, preview, importer >>

\* Mutant: the client's version is replaced by the stored one.
LoadStateTrustingTheServer(h) ==
  /\ handler[h].pc = "loadState"
  /\ handler' =
       IF handler[h].entries = << >>
       THEN [handler EXCEPT ![h].pc = "next", ![h].version = build.version]
       ELSE [handler EXCEPT ![h].pc = "loadBuild", ![h].seen = build.version,
                            ![h].version = build.version]
  /\ UNCHANGED << build, assets, preview, importer >>

\* loadBuildState reads only the version; then the entries are authorized.
\* Nothing else is read when every entry is rejected.
LoadState(h) ==
  /\ handler[h].pc = "loadState"
  /\ handler' =
       IF handler[h].entries = << >>
       THEN [handler EXCEPT ![h].pc = "next", ![h].version = build.version]
       ELSE [handler EXCEPT ![h].pc = "loadBuild", ![h].seen = build.version]
  /\ UNCHANGED << build, assets, preview, importer >>

\* loadBuildForPatch reads the content with a second query and keeps the
\* version of the first one.  The API path reads the whole row at once.
LoadBuild(h) ==
  /\ handler[h].pc = "loadBuild"
  /\ LET s == handler[h]
         r == IF s.kind = "api" THEN build ELSE [build EXCEPT !.version = s.seen]
     IN handler' = [handler EXCEPT ![h] =
          IF Shared(s)
          THEN [s EXCEPT !.pc = "patch", !.row = r, !.cur = s.entries]
          ELSE [s EXCEPT !.pc = "next", !.row = r, !.todo = s.entries,
                         !.single = TRUE]]
  /\ UNCHANGED << build, assets, preview, importer >>

\* Mutant: the first transaction of the attempt is compared, not the last.
AlreadySavedByFirst(h) ==
  /\ handler[h].pc = "patch"
  /\ handler[h].version # handler[h].row.version
  /\ Head(handler[h].cur) = handler[h].row.lastTx
  /\ handler' = [handler EXCEPT ![h] =
       [Saved(handler[h]) EXCEPT !.version = handler[h].row.version]]
  /\ UNCHANGED << build, assets, preview, importer >>

\* createBuildPatchUpdate: the client is behind and the last transaction is
\* the last one the build holds, so this is a retry of what was saved.
AlreadySaved(h) ==
  /\ handler[h].pc = "patch"
  /\ handler[h].version # handler[h].row.version
  /\ LastTx(handler[h].cur) = handler[h].row.lastTx
  /\ handler' = [handler EXCEPT ![h] =
       [Saved(handler[h]) EXCEPT !.version = handler[h].row.version]]
  /\ UNCHANGED << build, assets, preview, importer >>

\* createBuildPatchUpdate: somebody else changed the build.
VersionMismatch(h) ==
  /\ handler[h].pc = "patch"
  /\ handler[h].version # handler[h].row.version
  /\ LastTx(handler[h].cur) # handler[h].row.lastTx
  /\ Answer(h, "version_mismatched")
  /\ UNCHANGED << build, assets, preview, importer >>

\* createBuildPatchUpdate returns an error.  A batch is then tried entry by
\* entry, an entry of the loop is reported as failed and skipped.
RejectCyclic(h) ==
  /\ handler[h].pc = "patch"
  /\ handler[h].version = handler[h].row.version
  /\ Range(handler[h].cur) \cap Cyclic # {}
  /\ \/ /\ handler[h].kind = "api"
        /\ Answer(h, "error")
     \/ /\ handler[h].kind # "api"
        /\ ~handler[h].single
        /\ handler' = [handler EXCEPT ![h].pc = "next", ![h].single = TRUE,
                                      ![h].todo = handler[h].entries]
     \/ /\ handler[h].single
        /\ handler' = [handler EXCEPT ![h].pc = "next"]
  /\ UNCHANGED << build, assets, preview, importer >>

\* createBuildPatchUpdate returns the new content of the build.
ComputeUpdate(h) ==
  /\ handler[h].pc = "patch"
  /\ handler[h].version = handler[h].row.version
  /\ Range(handler[h].cur) \cap Cyclic = {}
  /\ handler' = [handler EXCEPT ![h].pc =
       IF Range(handler[h].cur) \cap AssetTx = {} THEN "commit" ELSE "assets"]
  /\ UNCHANGED << build, assets, preview, importer >>

\* Mutant: the asset patches are started but not awaited, and fail.
ApplyAssetsUnawaited(h) ==
  /\ handler[h].pc = "assets"
  /\ handler' = [handler EXCEPT ![h].pc = "commit"]
  /\ UNCHANGED << build, assets, preview, importer >>

\* Mutant: the preview image is updated together with the assets.
ApplyAssetsAndPreview(h) ==
  /\ handler[h].pc = "assets"
  /\ assets' = assets \cup (Range(handler[h].cur) \cap AssetTx)
  /\ preview' = LastTx(handler[h].cur)
  /\ handler' = [handler EXCEPT ![h].pc = "commit"]
  /\ UNCHANGED << build, importer >>

\* patchAssetFoldersWithClient, patchAssets, deleteAssetFoldersWithClient.
ApplyAssets(h) ==
  /\ handler[h].pc = "assets"
  /\ assets' = assets \cup (Range(handler[h].cur) \cap AssetTx)
  /\ handler' = [handler EXCEPT ![h].pc = "commit"]
  /\ UNCHANGED << build, preview, importer >>

\* Mutant: every attempt writes all entries of the request.
NewRowOfAllEntries(s) == [version |-> s.version + 1, lastTx |-> LastTx(s.cur),
                          log |-> s.row.log \o s.entries]

\* The row this attempt writes.
NewRow(s) == [version |-> s.version + 1, lastTx |-> LastTx(s.cur),
              log |-> s.row.log \o s.cur]

\* Mutant: the update does not match on the version.
CommitUnmatched(h) ==
  /\ handler[h].pc = "commit"
  /\ LET s == [handler[h] EXCEPT !.row = NewRow(handler[h]),
                                 !.version = handler[h].version + 1]
     IN /\ build' = NewRow(handler[h])
        /\ handler' = [handler EXCEPT ![h] =
             IF Range(s.cur) \cap PreviewTx = {}
             THEN Saved(s) ELSE [s EXCEPT !.pc = "preview"]]
  /\ UNCHANGED << assets, preview, importer >>

\* Mutant: currentBuild gets the new version but keeps its content.
CommitKeepingContent(h) ==
  /\ handler[h].pc = "commit"
  /\ build.version = handler[h].version
  /\ LET s == [handler[h] EXCEPT !.row.version = handler[h].version + 1,
                                 !.version = handler[h].version + 1]
     IN /\ build' = NewRow(handler[h])
        /\ handler' = [handler EXCEPT ![h] =
             IF Range(s.cur) \cap PreviewTx = {}
             THEN Saved(s) ELSE [s EXCEPT !.pc = "preview"]]
  /\ UNCHANGED << assets, preview, importer >>

\* update ... match version = clientVersion, and it matched.
Commit(h) ==
  /\ handler[h].pc = "commit"
  /\ build.version = handler[h].version
  /\ LET s == [handler[h] EXCEPT !.row = NewRow(handler[h]),
                                 !.version = handler[h].version + 1]
     IN /\ build' = NewRow(handler[h])
        /\ handler' = [handler EXCEPT ![h] =
             IF Range(s.cur) \cap PreviewTx = {}
             THEN Saved(s) ELSE [s EXCEPT !.pc = "preview"]]
  /\ UNCHANGED << assets, preview, importer >>

\* Mutant: it is not checked whether the update matched a row.
LoseRaceUnnoticed(h) ==
  /\ handler[h].pc = "commit"
  /\ build.version # handler[h].version
  /\ handler' = [handler EXCEPT ![h] = Saved(handler[h])]
  /\ UNCHANGED << build, assets, preview, importer >>

\* The update matched no row: another writer was first.
LoseRace(h) ==
  /\ handler[h].pc = "commit"
  /\ build.version # handler[h].version
  /\ Answer(h, "version_mismatched")
  /\ UNCHANGED << build, assets, preview, importer >>

\* Mutant: the position of the transaction instead of the transaction.
LastPreviewIndex(txs) ==
  LET changes == {k \in DOMAIN txs : txs[k] \in PreviewTx}
  IN CHOOSE k \in changes : \A j \in changes : j <= k

\* The transaction of an attempt that determines the preview image.
LastPreview(txs) ==
  LET changes == {k \in DOMAIN txs : txs[k] \in PreviewTx}
  IN txs[CHOOSE k \in changes : \A j \in changes : j <= k]

UpdatePreview(h) ==
  /\ handler[h].pc = "preview"
  /\ preview' = LastPreview(handler[h].cur)
  /\ handler' = [handler EXCEPT ![h] = Saved(handler[h])]
  /\ UNCHANGED << build, assets, importer >>

\* The per-entry loop goes on.
NextEntry(h) ==
  /\ handler[h].pc = "next"
  /\ handler[h].todo # << >>
  /\ handler' = [handler EXCEPT ![h].pc = "patch",
                                ![h].cur = << Head(handler[h].todo) >>,
                                ![h].todo = Tail(handler[h].todo)]
  /\ UNCHANGED << build, assets, preview, importer >>

\* The reply is "ok" when no entry was rejected or failed.
Finish(h) ==
  /\ handler[h].pc = "next"
  /\ handler[h].todo = << >>
  /\ Answer(h, IF /\ handler[h].denied = {}
                  /\ Range(handler[h].entries) \subseteq handler[h].accepted
               THEN "ok" ELSE "partial")
  /\ UNCHANGED << build, assets, preview, importer >>

\* A database call fails, possibly after it took effect, the patched data does
\* not parse (validateTouchedMap), or permission is found missing on the way:
\* toPatchResult turns what was thrown into a reply.
Fail(h) ==
  /\ \/ /\ handler[h].pc \in {"loadState", "loadBuild", "assets", "commit", "preview"}
        /\ Answer(h, "error")
     \/ /\ handler[h].pc = "patch"
        /\ handler[h].version = handler[h].row.version
        /\ Answer(h, "error")
     \/ /\ handler[h].pc \in {"assets", "preview"}
        /\ Answer(h, "refused")
  /\ \/ UNCHANGED << build, assets, preview >>
     \/ /\ handler[h].pc = "assets"
        /\ \E part \in SUBSET (Range(handler[h].cur) \cap AssetTx) :
             assets' = assets \cup part
        /\ UNCHANGED << build, preview >>
     \/ /\ handler[h].pc = "commit"
        /\ build.version = handler[h].version
        /\ build' = NewRow(handler[h])
        /\ UNCHANGED << assets, preview >>
     \/ /\ handler[h].pc = "preview"
        /\ preview' = LastPreview(handler[h].cur)
        /\ UNCHANGED << build, assets >>
  /\ UNCHANGED importer

\* The reply was sent, or the process died at this point.
End(h) ==
  /\ handler[h].pc # "idle"
  /\ handler' = [handler EXCEPT ![h] = Idle]
  /\ UNCHANGED << build, assets, preview, importer >>

\* What a handler does when nothing fails.
Progress(h) ==
  \/ LoadState(h) \/ LoadBuild(h)
  \/ AlreadySaved(h) \/ VersionMismatch(h) \/ RejectCyclic(h) \/ ComputeUpdate(h)
  \/ ApplyAssets(h) \/ Commit(h) \/ LoseRace(h) \/ UpdatePreview(h)
  \/ NextEntry(h) \/ Finish(h)

(***************************************************************************)
(* importPublishedProjectBundle.  It swaps the Build row first and only    *)
(* then replaces the rows of assets and folders and the preview image.     *)
(***************************************************************************)
ImportLoad(i) ==
  /\ importer[i].pc = "idle"
  /\ importer' = [importer EXCEPT ![i] = [pc |-> "commit", version |-> build.version]]
  /\ UNCHANGED << build, assets, preview, handler >>

ImportCommit(i) ==
  /\ importer[i].pc = "commit"
  /\ build.version = importer[i].version
  /\ build' = [version |-> build.version + 1, lastTx |-> i,
               log |-> Append(build.log, i)]
  /\ importer' = [importer EXCEPT ![i].pc = "reset"]
  /\ UNCHANGED << assets, preview, handler >>

ImportReset(i) ==
  /\ importer[i].pc = "reset"
  /\ preview' = NoTx
  /\ importer' = [importer EXCEPT ![i].pc = "delete"]
  /\ UNCHANGED << build, assets, handler >>

ImportDelete(i) ==
  /\ importer[i].pc = "delete"
  /\ assets' = {}
  /\ importer' = [importer EXCEPT ![i].pc = "insert"]
  /\ UNCHANGED << build, preview, handler >>

ImportInsert(i) ==
  /\ importer[i].pc = "insert"
  /\ assets' = assets \cup {i}
  /\ importer' = [importer EXCEPT ![i].pc = "preview"]
  /\ UNCHANGED << build, preview, handler >>

ImportPreview(i) ==
  /\ importer[i].pc = "preview"
  /\ preview' = i
  /\ importer' = [importer EXCEPT ![i].pc = "done"]
  /\ UNCHANGED << build, assets, handler >>

\* "Unable to import project bundle because build changed", or a failed call.
ImportAbort(i) ==
  /\ importer[i].pc \notin {"idle", "done"}
  /\ importer' = [importer EXCEPT ![i].pc = "done"]
  /\ UNCHANGED << build, assets, preview, handler >>

ImportStep(i) ==
  \/ ImportLoad(i) \/ ImportCommit(i) \/ ImportReset(i) \/ ImportDelete(i)
  \/ ImportInsert(i) \/ ImportPreview(i) \/ ImportAbort(i)

Next ==
  \/ \E h \in Handler :
       \/ \E r \in Request : Receive(h, r)
       \/ Progress(h) \/ Refuse(h) \/ Fail(h)
       \/ End(h)
  \/ \E i \in Importer : ImportStep(i)

Spec == Init /\ [][Next]_vars

(***************************************************************************)
(* Correctness.                                                            *)
(***************************************************************************)
TypeOK ==
  /\ build \in Row
  /\ assets \subseteq Edit
  /\ preview \in Edit \cup {NoTx}
  /\ handler \in [Handler -> HandlerState]
  /\ importer \in [Importer -> ImporterState]

\* The in-memory build of a handler that could still commit is exactly the
\* stored one: version and content come from two queries (loadBuildState,
\* loadBuildForPatch), but a handler whose version check will pass never
\* computed its update from content of another version.
SnapshotMatchesVersion ==
  \A h \in Handler :
    /\ handler[h].pc \in {"patch", "assets", "commit", "next"}
    /\ handler[h].row.version = build.version
    /\ handler[h].cur # << >>
    => handler[h].row = build

\* No lost update: whatever runs at the same time, what the build holds is
\* only ever extended (patchLoadedBuild's version match, the import's too).
CommitsExtendLog ==
  [][ /\ Len(build.log) <= Len(build'.log)
      /\ \A k \in DOMAIN build.log : build'.log[k] = build.log[k] ]_vars

\* No transaction is applied twice, although every request may be retried
\* while the original one is still being executed.
AppliedOnce == IsInjective(build.log)

\* Every asset a saved transaction refers to is in the asset rows: asset
\* patches come before the Build update, so a failed one is never treated as
\* saved by the retry (comment in patchLoadedBuild).  An import replaces all
\* asset rows, so this is about builds that were not imported.
SavedAssetsApplied ==
  Range(build.log) \cap Importer = {} => Range(build.log) \cap AssetTx \subseteq assets

\* An entry reported as accepted was saved, whatever retries and per-entry
\* fallbacks led to the reply; entries that cannot be applied at all excepted.
AcceptedWasSaved ==
  \A h \in Handler : handler[h].accepted \ Cyclic \subseteq Range(build.log)

\* The project never shows the social image of a change that was not saved:
\* updatePreviewImage runs after the Build update only.
PreviewWasSaved == preview \in Range(build.log) \cup {NoTx}

(***************************************************************************)
(* The service implements the storage abstraction.                         *)
(***************************************************************************)
Group ==
  {r.entries : r \in Request} \cup {<< e >> : e \in Edit}

Log == INSTANCE BuildLog WITH log <- build.log

\* Every step of the service saves nothing or one whole group of new edits.
ImplementsBuildLog == Log!Spec
=============================================================================
