------------------------ MODULE PatchService_proofs ------------------------
(***************************************************************************)
(* Proofs about PatchService, for every set of requests, handlers and      *)
(* imports.  The argument is optimistic concurrency control: a handler     *)
(* that can still pass the version match of its update holds the stored    *)
(* row, so what it writes extends what is stored.                          *)
(***************************************************************************)
EXTENDS PatchService, WellFoundedInduction, TLAPS

(***************************************************************************)
(* The inductive invariant.                                                *)
(***************************************************************************)

\* Where a handler has transactions at hand.
Working == {"patch", "assets", "commit", "preview"}

Shape(s) ==
  /\ s.pc = "loadBuild" => s.entries # << >>
  /\ s.pc \in Working => s.cur # << >>
  /\ s.pc = "preview" => \E k \in DOMAIN s.cur : s.cur[k] \in PreviewTx

TypeInv == TypeOK /\ \A h \in Handler : Shape(handler[h])

(***************************************************************************)
(* Lemmas about operators.                                                 *)
(***************************************************************************)

LEMMA IdleType == Idle \in HandlerState
<1>1. EmptyRow \in Row
  BY DEF EmptyRow, Row
<1>2. << >> \in Seq(Tx)
  OBVIOUS
<1> QED BY <1>1, <1>2 DEF Idle, HandlerState, HandlerPc, Kind, Reply

LEMMA LastTxType ==
  ASSUME NEW txs \in Seq(Tx), txs # << >>
  PROVE  LastTx(txs) \in Tx
BY DEF LastTx

\* The last transaction with a preview image is well defined.
LEMMA LastPreviewType ==
  ASSUME NEW txs \in Seq(Tx), \E k \in DOMAIN txs : txs[k] \in PreviewTx
  PROVE  \E k \in DOMAIN txs : LastPreview(txs) = txs[k]
<1> DEFINE changes == {k \in DOMAIN txs : txs[k] \in PreviewTx}
           distances == {Len(txs) - k : k \in changes}
           less == {ss \in Nat \X Nat : ss[1] < ss[2]}
<1>1. distances \subseteq Nat /\ distances # {}
  OBVIOUS
<1>2. IsWellFoundedOn(less, Nat)
  BY NatLessThanWellFounded DEF OpToRel
<1>3. PICK d \in distances : \A e \in distances : << e, d >> \notin less
  <2> HIDE DEF distances, less
  <2> QED BY <1>1, <1>2, WFMin
<1>4. PICK k \in changes : d = Len(txs) - k
  OBVIOUS
<1>5. \A j \in changes : j <= k
  <2> TAKE j \in changes
  <2>1. j \in 1 .. Len(txs) /\ k \in 1 .. Len(txs)
    OBVIOUS
  <2>2. Len(txs) - j \in Nat /\ Len(txs) - k \in Nat
    BY <2>1
  <2>3. << Len(txs) - j, Len(txs) - k >> \notin less
    BY <1>3, <1>4
  <2>4. ~(Len(txs) - j < Len(txs) - k)
    BY <2>2, <2>3
  <2> QED BY <2>1, <2>4
<1> QED BY <1>5 DEF LastPreview

\* An answer keeps the state of the handler well typed and has no shape.
LEMMA AnswerType ==
  ASSUME TypeInv, NEW h \in Handler, NEW status \in Reply, Answer(h, status)
  PROVE  /\ handler' \in [Handler -> HandlerState]
         /\ \A g \in Handler : Shape(handler'[g])
<1>1. handler[h] \in HandlerState
  BY DEF TypeInv, TypeOK
<1>2. [Idle EXCEPT !.pc = "done", !.reply = status,
                 !.kind = handler[h].kind, !.entries = handler[h].entries,
                 !.denied = handler[h].denied, !.version = handler[h].version,
                 !.accepted = handler[h].accepted] \in HandlerState
  BY <1>1, IdleType DEF HandlerState, HandlerPc
<1>3. handler'[h].pc = "done"
  BY <1>1, <1>2 DEF Answer, TypeInv, TypeOK, Idle
<1> QED BY <1>2, <1>3 DEF Answer, TypeInv, TypeOK, Shape, Working

LEMMA SavedType ==
  ASSUME NEW s \in HandlerState
  PROVE  Saved(s) \in HandlerState /\ Saved(s).pc = "next"
<1>1. s.accepted \cup Range(s.cur) \in SUBSET Tx
  BY DEF HandlerState, Range
<1> HIDE DEF Range
<1>2. [s EXCEPT !.pc = "next", !.accepted = s.accepted \cup Range(s.cur)] \in HandlerState
  BY <1>1 DEF HandlerState, HandlerPc
<1> QED BY <1>2 DEF Saved, HandlerState

LEMMA NewRowType ==
  ASSUME NEW s \in HandlerState, s.cur # << >>
  PROVE  NewRow(s) \in Row
BY LastTxType DEF NewRow, Row, HandlerState, Edit

(***************************************************************************)
(* Types.                                                                  *)
(***************************************************************************)

\* The step of a handler that replaces its local state.
LEMMA HandlerType ==
  ASSUME TypeInv, NEW h \in Handler, NEW s \in HandlerState, Shape(s),
         handler' = [handler EXCEPT ![h] = s]
  PROVE  /\ handler' \in [Handler -> HandlerState]
         /\ \A g \in Handler : Shape(handler'[g])
BY DEF TypeInv, TypeOK

LEMMA TypeInit == Init => TypeInv
<1> SUFFICES ASSUME Init PROVE TypeInv
  OBVIOUS
<1>1. build \in Row
  BY DEF Init, EmptyRow, Row
<1>2. handler \in [Handler -> HandlerState] /\ \A h \in Handler : Shape(handler[h])
  BY IdleType DEF Init, Shape, Idle, Working
<1>3. importer \in [Importer -> ImporterState]
  BY DEF Init, ImporterState, ImporterPc
<1> QED BY <1>1, <1>2, <1>3 DEF Init, TypeInv, TypeOK

LEMMA TypeReceive ==
  ASSUME TypeInv, NEW h \in Handler, NEW r \in Request, Receive(h, r)
  PROVE  TypeInv'
<1> DEFINE s == [Idle EXCEPT !.pc = IF r.kind = "api" THEN "loadBuild" ELSE "loadState",
                    !.kind = r.kind, !.entries = r.entries,
                    !.denied = r.denied, !.version = r.version]
<1>1. r \in RequestType
  BY ConstantsAssumption
<1>2. s \in HandlerState
  BY <1>1, IdleType DEF HandlerState, HandlerPc, RequestType
<1>3. Shape(s)
  BY <1>1, RequestAssumption, IdleType DEF HandlerState, Shape, Working
<1>4. handler' = [handler EXCEPT ![h] = s]
  BY DEF Receive
<1> HIDE DEF s
<1>5. handler' \in [Handler -> HandlerState] /\ \A g \in Handler : Shape(handler'[g])
  BY <1>2, <1>3, <1>4, HandlerType
<1> QED BY <1>5 DEF TypeInv, TypeOK, Receive

LEMMA TypeRefuse ==
  ASSUME TypeInv, NEW h \in Handler, Refuse(h)
  PROVE  TypeInv'
BY AnswerType DEF TypeInv, TypeOK, Refuse, Reply

LEMMA TypeLoadState ==
  ASSUME TypeInv, NEW h \in Handler, LoadState(h)
  PROVE  TypeInv'
<1> DEFINE s == handler[h]
           n == IF s.entries = << >>
                THEN [s EXCEPT !.pc = "next", !.version = build.version]
                ELSE [s EXCEPT !.pc = "loadBuild", !.seen = build.version]
<1>1. s \in HandlerState /\ build \in Row /\ handler \in [Handler -> HandlerState]
  BY DEF TypeInv, TypeOK
<1>2. n \in HandlerState
  BY <1>1 DEF HandlerState, HandlerPc, Row
<1>3. Shape(n)
  BY <1>1 DEF HandlerState, Shape, Working
<1>4. handler' = [handler EXCEPT ![h] = n]
  BY <1>1 DEF LoadState
<1> HIDE DEF n
<1>5. handler' \in [Handler -> HandlerState] /\ \A g \in Handler : Shape(handler'[g])
  BY <1>2, <1>3, <1>4, HandlerType
<1> QED BY <1>5 DEF TypeInv, TypeOK, LoadState

LEMMA TypeLoadBuild ==
  ASSUME TypeInv, NEW h \in Handler, LoadBuild(h)
  PROVE  TypeInv'
<1> DEFINE s == handler[h]
           r == IF s.kind = "api" THEN build ELSE [build EXCEPT !.version = s.seen]
           n == IF Shared(s)
                THEN [s EXCEPT !.pc = "patch", !.row = r, !.cur = s.entries]
                ELSE [s EXCEPT !.pc = "next", !.row = r, !.todo = s.entries,
                               !.single = TRUE]
<1>1. s \in HandlerState /\ build \in Row /\ s.entries # << >>
  BY DEF TypeInv, TypeOK, Shape, LoadBuild
<1>2. r \in Row
  BY <1>1 DEF Row, HandlerState
<1>3. n \in HandlerState
  <2> HIDE DEF r
  <2> QED BY <1>1, <1>2 DEF HandlerState, HandlerPc
<1>4. Shape(n)
  <2> HIDE DEF r
  <2> QED BY <1>1 DEF HandlerState, Shape, Working
<1>5. handler' = [handler EXCEPT ![h] = n]
  BY DEF LoadBuild
<1> HIDE DEF n
<1>6. handler' \in [Handler -> HandlerState] /\ \A g \in Handler : Shape(handler'[g])
  BY <1>3, <1>4, <1>5, HandlerType
<1> QED BY <1>6 DEF TypeInv, TypeOK, LoadBuild

LEMMA TypeAlreadySaved ==
  ASSUME TypeInv, NEW h \in Handler, AlreadySaved(h)
  PROVE  TypeInv'
<1> DEFINE s == Saved(handler[h])
           n == [s EXCEPT !.version = handler[h].row.version]
<1>1. handler[h] \in HandlerState
  BY DEF TypeInv, TypeOK
<1>2. s \in HandlerState /\ s.pc = "next"
  BY <1>1, SavedType
<1>3. handler' = [handler EXCEPT ![h] = n]
  BY DEF AlreadySaved
<1>4. handler[h].row.version \in Nat
  BY <1>1 DEF HandlerState, Row
<1> HIDE DEF s
<1>5. n \in HandlerState /\ Shape(n)
  BY <1>2, <1>4 DEF HandlerState, Shape, Working
<1> HIDE DEF n
<1>6. handler' \in [Handler -> HandlerState] /\ \A g \in Handler : Shape(handler'[g])
  BY <1>3, <1>5, HandlerType
<1> QED BY <1>6 DEF TypeInv, TypeOK, AlreadySaved

LEMMA TypeVersionMismatch ==
  ASSUME TypeInv, NEW h \in Handler, VersionMismatch(h) \/ LoseRace(h)
  PROVE  TypeInv'
BY AnswerType DEF TypeInv, TypeOK, VersionMismatch, LoseRace, Reply

LEMMA TypeRejectCyclic ==
  ASSUME TypeInv, NEW h \in Handler, RejectCyclic(h)
  PROVE  TypeInv'
<1> DEFINE s == handler[h]
           n == [s EXCEPT !.pc = "next", !.single = TRUE, !.todo = s.entries]
           m == [s EXCEPT !.pc = "next"]
<1>1. s \in HandlerState /\ handler \in [Handler -> HandlerState]
  BY DEF TypeInv, TypeOK
<1>2. n \in HandlerState /\ Shape(n) /\ m \in HandlerState /\ Shape(m)
  BY <1>1 DEF HandlerState, HandlerPc, Shape, Working
<1>3. \/ Answer(h, "error")
      \/ handler' = [handler EXCEPT ![h] = n]
      \/ handler' = [handler EXCEPT ![h] = m]
  BY <1>1 DEF RejectCyclic
<1> HIDE DEF n, m
<1>4. handler' \in [Handler -> HandlerState] /\ \A g \in Handler : Shape(handler'[g])
  BY <1>2, <1>3, HandlerType, AnswerType DEF Reply
<1> QED BY <1>4 DEF TypeInv, TypeOK, RejectCyclic

LEMMA TypeComputeUpdate ==
  ASSUME TypeInv, NEW h \in Handler, ComputeUpdate(h)
  PROVE  TypeInv'
<1> DEFINE s == handler[h]
           n == [s EXCEPT !.pc = IF Range(s.cur) \cap AssetTx = {} THEN "commit" ELSE "assets"]
<1>1. s \in HandlerState /\ s.cur # << >>
  BY DEF TypeInv, TypeOK, Shape, Working, ComputeUpdate
<1>2. n \in HandlerState /\ Shape(n)
  BY <1>1 DEF HandlerState, HandlerPc, Shape, Working
<1>3. handler' = [handler EXCEPT ![h] = n]
  BY DEF ComputeUpdate
<1> HIDE DEF n
<1>4. handler' \in [Handler -> HandlerState] /\ \A g \in Handler : Shape(handler'[g])
  BY <1>2, <1>3, HandlerType
<1> QED BY <1>4 DEF TypeInv, TypeOK, ComputeUpdate

LEMMA TypeApplyAssets ==
  ASSUME TypeInv, NEW h \in Handler, ApplyAssets(h)
  PROVE  TypeInv'
<1> DEFINE s == handler[h]
           n == [s EXCEPT !.pc = "commit"]
<1>1. s \in HandlerState /\ s.cur # << >>
  BY DEF TypeInv, TypeOK, Shape, Working, ApplyAssets
<1>2. n \in HandlerState /\ Shape(n)
  BY <1>1 DEF HandlerState, HandlerPc, Shape, Working
<1>3. handler' = [handler EXCEPT ![h] = n]
  BY DEF ApplyAssets
<1> HIDE DEF n
<1>4. handler' \in [Handler -> HandlerState] /\ \A g \in Handler : Shape(handler'[g])
  BY <1>2, <1>3, HandlerType
<1>5. assets' \subseteq Edit
  BY ConstantsAssumption DEF ApplyAssets, TypeInv, TypeOK, Edit
<1> QED BY <1>4, <1>5 DEF TypeInv, TypeOK, ApplyAssets

LEMMA TypeCommit ==
  ASSUME TypeInv, NEW h \in Handler, Commit(h)
  PROVE  TypeInv'
<1> DEFINE r == NewRow(handler[h])
           s == [handler[h] EXCEPT !.row = r, !.version = handler[h].version + 1]
           n == [s EXCEPT !.pc = "preview"]
<1>1. handler[h] \in HandlerState /\ handler[h].cur # << >>
  BY DEF TypeInv, TypeOK, Shape, Working, Commit
<1>2. r \in Row
  BY <1>1, NewRowType
<1> HIDE DEF r
<1>3. s \in HandlerState /\ s.cur = handler[h].cur
  <2>1. handler[h].version + 1 \in Nat
    BY <1>1 DEF HandlerState
  <2>2. ASSUME NEW v \in Nat
        PROVE  [handler[h] EXCEPT !.row = r, !.version = v] \in HandlerState
    BY <1>1, <1>2 DEF HandlerState
  <2> QED BY <1>1, <2>1, <2>2 DEF HandlerState
<1>4. \/ handler' = [handler EXCEPT ![h] = Saved(s)]
      \/ handler' = [handler EXCEPT ![h] = n] /\ Range(s.cur) \cap PreviewTx # {}
  BY DEF Commit, r
<1> HIDE DEF s
<1>5. Saved(s) \in HandlerState /\ Shape(Saved(s))
  BY <1>3, SavedType DEF Shape, Working
<1>6. ASSUME Range(s.cur) \cap PreviewTx # {}
      PROVE  n \in HandlerState /\ Shape(n)
  <2>1. PICK k \in DOMAIN s.cur : s.cur[k] \in PreviewTx
    BY <1>6 DEF Range
  <2>2. n \in HandlerState /\ n.cur = s.cur /\ n.pc = "preview"
    BY <1>3 DEF HandlerState, HandlerPc
  <2> QED BY <1>1, <1>3, <2>1, <2>2 DEF Shape
<1> HIDE DEF n
<1>7. handler' \in [Handler -> HandlerState] /\ \A g \in Handler : Shape(handler'[g])
  BY <1>4, <1>5, <1>6, HandlerType
<1>8. build' = r
  BY DEF Commit, r
<1> QED BY <1>2, <1>7, <1>8 DEF TypeInv, TypeOK, Commit

LEMMA PreviewType ==
  ASSUME TypeInv, NEW h \in Handler, handler[h].pc = "preview"
  PROVE  LastPreview(handler[h].cur) \in Range(handler[h].cur) \cap Tx
<1>1. handler[h] \in HandlerState /\ Shape(handler[h])
  BY DEF TypeInv, TypeOK
<1>2. PICK k \in DOMAIN handler[h].cur : LastPreview(handler[h].cur) = handler[h].cur[k]
  BY <1>1, LastPreviewType DEF HandlerState, Shape
<1> QED BY <1>1, <1>2 DEF HandlerState, Range

LEMMA TypeUpdatePreview ==
  ASSUME TypeInv, NEW h \in Handler, UpdatePreview(h)
  PROVE  TypeInv'
<1>1. handler[h] \in HandlerState
  BY DEF TypeInv, TypeOK
<1>2. Saved(handler[h]) \in HandlerState /\ Shape(Saved(handler[h]))
  BY <1>1, SavedType DEF Shape, Working
<1>3. handler' \in [Handler -> HandlerState] /\ \A g \in Handler : Shape(handler'[g])
  BY <1>2, HandlerType DEF UpdatePreview
<1>4. preview' \in Tx
  BY PreviewType DEF UpdatePreview
<1> QED BY <1>3, <1>4 DEF TypeInv, TypeOK, UpdatePreview, Edit

LEMMA TypeNextEntry ==
  ASSUME TypeInv, NEW h \in Handler, NextEntry(h)
  PROVE  TypeInv'
<1> DEFINE s == handler[h]
           n == [s EXCEPT !.pc = "patch", !.cur = << Head(s.todo) >>, !.todo = Tail(s.todo)]
<1>1. s \in HandlerState /\ s.todo # << >> /\ handler \in [Handler -> HandlerState]
  BY DEF TypeInv, TypeOK, NextEntry
<1>2. Head(s.todo) \in Tx /\ Tail(s.todo) \in Seq(Tx)
  BY <1>1 DEF HandlerState
<1>3. << Head(s.todo) >> \in Seq(Tx) /\ << Head(s.todo) >> # << >>
  BY <1>2
<1>4. n \in HandlerState /\ Shape(n)
  BY <1>1, <1>2, <1>3 DEF HandlerState, HandlerPc, Shape, Working
<1>5. handler' = [handler EXCEPT ![h] = n]
  BY <1>1 DEF NextEntry
<1> HIDE DEF n
<1>6. handler' \in [Handler -> HandlerState] /\ \A g \in Handler : Shape(handler'[g])
  BY <1>4, <1>5, HandlerType
<1> QED BY <1>6 DEF TypeInv, TypeOK, NextEntry

LEMMA TypeFinish ==
  ASSUME TypeInv, NEW h \in Handler, Finish(h)
  PROVE  TypeInv'
BY AnswerType DEF TypeInv, TypeOK, Finish, Reply

LEMMA TypeFail ==
  ASSUME TypeInv, NEW h \in Handler, Fail(h)
  PROVE  TypeInv'
<1>1. handler' \in [Handler -> HandlerState] /\ \A g \in Handler : Shape(handler'[g])
  BY AnswerType DEF Fail, Reply
<1>2. build' \in Row
  <2>1. CASE handler[h].pc = "commit"
    <3>1. handler[h] \in HandlerState /\ handler[h].cur # << >> /\ build \in Row
      BY <2>1 DEF TypeInv, TypeOK, Shape, Working
    <3> QED BY <3>1, NewRowType DEF Fail
  <2>2. CASE handler[h].pc # "commit"
    BY <2>2 DEF Fail, TypeInv, TypeOK
  <2> QED BY <2>1, <2>2
<1>3. assets' \subseteq Edit
  BY ConstantsAssumption DEF Fail, TypeInv, TypeOK, Edit
<1>4. preview' \in Edit \cup {NoTx}
  BY PreviewType DEF Fail, TypeInv, TypeOK, Edit
<1> QED BY <1>1, <1>2, <1>3, <1>4 DEF TypeInv, TypeOK, Fail

LEMMA TypeEnd ==
  ASSUME TypeInv, NEW h \in Handler, End(h)
  PROVE  TypeInv'
<1>1. Idle \in HandlerState /\ Shape(Idle)
  BY IdleType DEF Idle, Shape, Working
<1>2. handler' \in [Handler -> HandlerState] /\ \A g \in Handler : Shape(handler'[g])
  BY <1>1, HandlerType DEF End
<1> QED BY <1>2 DEF TypeInv, TypeOK, End

LEMMA TypeImport ==
  ASSUME TypeInv, NEW i \in Importer, ImportStep(i)
  PROVE  TypeInv'
<1>1. importer[i] \in ImporterState /\ build \in Row
  BY DEF TypeInv, TypeOK
<1>2. importer' \in [Importer -> ImporterState]
  <2>1. importer \in [Importer -> ImporterState] /\ build.version \in Nat
    BY <1>1 DEF TypeInv, TypeOK, Row
  <2>2. CASE ImportLoad(i)
    BY <2>1, <2>2 DEF ImportLoad, ImporterState, ImporterPc
  <2>3. CASE ~ImportLoad(i)
    <3>1. PICK pc \in ImporterPc : importer' = [importer EXCEPT ![i].pc = pc]
      BY <2>3 DEF ImportStep, ImportCommit, ImportReset, ImportDelete, ImportInsert,
           ImportPreview, ImportAbort, ImporterPc
    <3>2. [importer[i] EXCEPT !.pc = pc] \in ImporterState
      BY <1>1 DEF ImporterState
    <3> QED BY <2>1, <3>1, <3>2
  <2> QED BY <2>2, <2>3
<1>3. build' \in Row
  <2>1. CASE ImportCommit(i)
    <3>1. build.log \in Seq(Edit) /\ build.version \in Nat /\ i \in Edit
      BY <1>1 DEF Row, Edit
    <3>2. Append(build.log, i) \in Seq(Edit) /\ build.version + 1 \in Nat
      BY <3>1
    <3> QED BY <2>1, <3>1, <3>2 DEF ImportCommit, Row
  <2>2. CASE ~ImportCommit(i)
    BY <1>1, <2>2 DEF ImportStep, ImportLoad, ImportReset, ImportDelete, ImportInsert,
         ImportPreview, ImportAbort
  <2> QED BY <2>1, <2>2
<1>4. assets' \subseteq Edit /\ preview' \in Edit \cup {NoTx}
  BY DEF ImportStep, ImportLoad, ImportCommit, ImportReset, ImportDelete,
       ImportInsert, ImportPreview, ImportAbort, TypeInv, TypeOK, Edit
<1>5. handler' = handler
  BY DEF ImportStep, ImportLoad, ImportCommit, ImportReset, ImportDelete,
       ImportInsert, ImportPreview, ImportAbort
<1> QED BY <1>2, <1>3, <1>4, <1>5 DEF TypeInv, TypeOK

LEMMA TypeStep ==
  ASSUME TypeInv, [Next]_vars
  PROVE  TypeInv'
<1>1. CASE Next
  BY <1>1, TypeReceive, TypeRefuse, TypeLoadState, TypeLoadBuild, TypeAlreadySaved,
     TypeVersionMismatch, TypeRejectCyclic, TypeComputeUpdate, TypeApplyAssets,
     TypeCommit, TypeUpdatePreview, TypeNextEntry, TypeFinish, TypeFail, TypeEnd,
     TypeImport
     DEF Next, Progress
<1>2. CASE UNCHANGED vars
  BY <1>2 DEF vars, TypeInv, TypeOK, Shape
<1> QED BY <1>1, <1>2

\* The service keeps its types: the row, what every handler holds in memory
\* and what every import does.
THEOREM TypeCorrect == Spec => []TypeOK
<1>1. Init => TypeInv
  BY TypeInit
<1>2. TypeInv /\ [Next]_vars => TypeInv'
  BY TypeStep
<1>3. TypeInv => TypeOK
  BY DEF TypeInv
<1> QED BY <1>1, <1>2, <1>3, PTL DEF Spec

(***************************************************************************)
(* The row in memory and the row that is stored.                           *)
(***************************************************************************)

\* The handler has a row it computes updates from.
HasRow(s) ==
  /\ s.pc \in Working \cup {"next"}
  /\ s.cur # << >> \/ s.todo # << >>

\* What a handler knows of the stored row b: the version it read is not in the
\* future, the content it holds is that of b unless b has moved on, and the
\* version its update matches on is that of the content.  A handler that has
\* not read anything has nothing at hand.
Fresh(s, b) ==
  /\ s.pc = "loadState" => s.cur = << >> /\ s.todo = << >>
  /\ s.pc = "loadBuild" => s.seen <= b.version
  /\ HasRow(s) => /\ s.row.version <= b.version
                  /\ s.row.version = b.version => s.row = b
  /\ s.pc \in {"assets", "commit"} => s.version = s.row.version

\* The inductive invariant of optimistic concurrency control.
CasInv == \A h \in Handler : Fresh(handler[h], build)

\* One write: the version is raised by one and the content extended.
Grows(b, c) ==
  /\ c.version = b.version + 1
  /\ \E e \in Seq(Edit) : c.log = b.log \o e

\* A row that is not rewritten in place keeps every handler fresh.
LEMMA FreshKept ==
  ASSUME NEW s \in HandlerState, NEW b \in Row, NEW c \in Row, Fresh(s, b),
         c = b \/ Grows(b, c)
  PROVE  Fresh(s, c)
<1>1. CASE c = b
  BY <1>1
<1>2. CASE Grows(b, c)
  <2>1. c.version = b.version + 1 /\ b.version \in Nat /\ s.seen \in Nat /\ s.row.version \in Nat
    BY <1>2 DEF Grows, Row, HandlerState
  <2> QED BY <2>1 DEF Fresh
<1> QED BY <1>1, <1>2

\* A handler that replaces its state by a fresh one leaves all of them fresh.
LEMMA FreshHandler ==
  ASSUME TypeInv, CasInv, NEW h \in Handler, NEW s, NEW c \in Row,
         handler' = [handler EXCEPT ![h] = s], build' = c,
         c = build \/ Grows(build, c), Fresh(s, c)
  PROVE  CasInv'
<1>1. ASSUME NEW g \in Handler PROVE Fresh(handler'[g], c)
  <2>1. CASE g = h
    BY <2>1 DEF TypeInv, TypeOK
  <2>2. CASE g # h
    <3>1. handler'[g] = handler[g] /\ handler[g] \in HandlerState /\ build \in Row
      BY <2>2 DEF TypeInv, TypeOK
    <3> QED BY <3>1, FreshKept DEF CasInv
  <2> QED BY <2>1, <2>2
<1> QED BY <1>1 DEF CasInv

LEMMA FreshAnswer ==
  ASSUME TypeInv, CasInv, NEW h \in Handler, NEW status, Answer(h, status),
         NEW c \in Row, build' = c, c = build \/ Grows(build, c)
  PROVE  CasInv'
<1> DEFINE s == [Idle EXCEPT !.pc = "done", !.reply = status,
                 !.kind = handler[h].kind, !.entries = handler[h].entries,
                 !.denied = handler[h].denied, !.version = handler[h].version,
                 !.accepted = handler[h].accepted]
<1>1. s.pc = "done"
  BY DEF Idle
<1>2. handler' = [handler EXCEPT ![h] = s]
  BY DEF Answer
<1> HIDE DEF s
<1>3. Fresh(s, c)
  BY <1>1 DEF Fresh, HasRow, Working
<1> QED BY <1>2, <1>3, FreshHandler

LEMMA CasInit == Init => CasInv
BY DEF Init, CasInv, Fresh, HasRow, Idle, Working

\* The row an attempt writes extends the stored one if their versions match.
LEMMA CommitGrows ==
  ASSUME TypeInv, CasInv, NEW h \in Handler, handler[h].pc = "commit",
         build.version = handler[h].version
  PROVE  NewRow(handler[h]) \in Row /\ Grows(build, NewRow(handler[h]))
<1>1. handler[h] \in HandlerState /\ handler[h].cur # << >>
  BY DEF TypeInv, TypeOK, Shape, Working
<1>2. NewRow(handler[h]) \in Row
  BY <1>1, NewRowType
<1>3. handler[h].row = build
  BY <1>1 DEF CasInv, Fresh, HasRow, Working
<1>4. NewRow(handler[h]).version = build.version + 1
      /\ NewRow(handler[h]).log = build.log \o handler[h].cur
  BY <1>3 DEF NewRow
<1>5. handler[h].cur \in Seq(Edit)
  BY <1>1 DEF HandlerState, Edit
<1> QED BY <1>2, <1>4, <1>5 DEF Grows

LEMMA CasReceive ==
  ASSUME TypeInv, CasInv, NEW h \in Handler, NEW r \in Request, Receive(h, r)
  PROVE  CasInv'
<1> DEFINE s == [Idle EXCEPT !.pc = IF r.kind = "api" THEN "loadBuild" ELSE "loadState",
                    !.kind = r.kind, !.entries = r.entries,
                    !.denied = r.denied, !.version = r.version]
<1>1. /\ s.pc \in {"loadBuild", "loadState"} /\ s.seen = 0
      /\ s.cur = << >> /\ s.todo = << >>
  BY DEF Idle
<1>2. handler' = [handler EXCEPT ![h] = s] /\ build' = build /\ build \in Row
  BY DEF Receive, TypeInv, TypeOK
<1> HIDE DEF s
<1>3. Fresh(s, build)
  BY <1>1, <1>2 DEF Fresh, HasRow, Working, Row
<1> QED BY <1>2, <1>3, FreshHandler

LEMMA CasLoadState ==
  ASSUME TypeInv, CasInv, NEW h \in Handler, LoadState(h)
  PROVE  CasInv'
<1> DEFINE s == handler[h]
           n == [s EXCEPT !.pc = "next", !.version = build.version]
           m == [s EXCEPT !.pc = "loadBuild", !.seen = build.version]
<1>1. build \in Row /\ s \in HandlerState /\ handler \in [Handler -> HandlerState]
  BY DEF TypeInv, TypeOK
<1>2. Fresh(m, build)
  BY <1>1 DEF Fresh, HasRow, HandlerState, Working, Row
<1>3. CASE s.entries = << >>
  <2>1. handler' = [handler EXCEPT ![h] = n] /\ build' = build
    BY <1>1, <1>3 DEF LoadState
  <2>2. s.cur = << >> /\ s.todo = << >>
    BY DEF LoadState, CasInv, Fresh
  <2>3. Fresh(n, build)
    BY <1>1, <2>2 DEF Fresh, HasRow, HandlerState
  <2> QED BY <1>1, <2>1, <2>3, FreshHandler
<1>4. CASE s.entries # << >>
  <2>1. handler' = [handler EXCEPT ![h] = m] /\ build' = build
    BY <1>1, <1>4 DEF LoadState
  <2> HIDE DEF m
  <2> QED BY <1>1, <1>2, <2>1, FreshHandler
<1> QED BY <1>3, <1>4

LEMMA CasLoadBuild ==
  ASSUME TypeInv, CasInv, NEW h \in Handler, LoadBuild(h)
  PROVE  CasInv'
<1> DEFINE s == handler[h]
           r == IF s.kind = "api" THEN build ELSE [build EXCEPT !.version = s.seen]
           n == IF Shared(s)
                THEN [s EXCEPT !.pc = "patch", !.row = r, !.cur = s.entries]
                ELSE [s EXCEPT !.pc = "next", !.row = r, !.todo = s.entries,
                               !.single = TRUE]
<1>1. s \in HandlerState /\ build \in Row /\ s.seen <= build.version
  BY DEF TypeInv, TypeOK, CasInv, Fresh, LoadBuild
<1>2. r.version <= build.version /\ (r.version = build.version => r = build)
  BY <1>1 DEF Row, HandlerState
<1> HIDE DEF r
<1>3. n.row = r /\ n.pc \in {"patch", "next"}
  BY <1>1 DEF HandlerState
<1>4. handler' = [handler EXCEPT ![h] = n] /\ build' = build
  BY DEF LoadBuild, r
<1> HIDE DEF n
<1>5. Fresh(n, build)
  BY <1>2, <1>3 DEF Fresh
<1> QED BY <1>1, <1>4, <1>5, FreshHandler

LEMMA CasAlreadySaved ==
  ASSUME TypeInv, CasInv, NEW h \in Handler, AlreadySaved(h)
  PROVE  CasInv'
<1> DEFINE s == handler[h]
           n == [Saved(s) EXCEPT !.version = s.row.version]
<1>1. s \in HandlerState /\ build \in Row /\ Fresh(s, build) /\ s.pc = "patch" /\ s.cur # << >>
  BY DEF TypeInv, TypeOK, CasInv, AlreadySaved, Shape, Working
<1>2. n.row = s.row /\ n.pc = "next"
  BY <1>1 DEF Saved, HandlerState
<1>3. handler' = [handler EXCEPT ![h] = n] /\ build' = build
  BY DEF AlreadySaved
<1> HIDE DEF n
<1>4. Fresh(n, build)
  BY <1>1, <1>2 DEF Fresh, HasRow, Working
<1> QED BY <1>1, <1>3, <1>4, FreshHandler

LEMMA CasRejectCyclic ==
  ASSUME TypeInv, CasInv, NEW h \in Handler, RejectCyclic(h)
  PROVE  CasInv'
<1> DEFINE s == handler[h]
           n == [s EXCEPT !.pc = "next", !.single = TRUE, !.todo = s.entries]
           m == [s EXCEPT !.pc = "next"]
<1>1. /\ s \in HandlerState /\ build \in Row /\ Fresh(s, build) /\ s.pc = "patch" /\ s.cur # << >>
      /\ handler \in [Handler -> HandlerState] /\ build' = build
  BY DEF TypeInv, TypeOK, CasInv, RejectCyclic, Shape, Working
<1>2. n.row = s.row /\ n.pc = "next" /\ m.row = s.row /\ m.pc = "next"
  BY <1>1 DEF HandlerState
<1>3. \/ Answer(h, "error")
      \/ handler' = [handler EXCEPT ![h] = n]
      \/ handler' = [handler EXCEPT ![h] = m]
  BY <1>1 DEF RejectCyclic
<1> HIDE DEF n, m
<1>4. Fresh(n, build) /\ Fresh(m, build)
  BY <1>1, <1>2 DEF Fresh, HasRow, Working
<1>5. CASE Answer(h, "error")
  BY <1>1, <1>5, FreshAnswer
<1>6. CASE handler' = [handler EXCEPT ![h] = n]
  BY <1>1, <1>4, <1>6, FreshHandler
<1>7. CASE handler' = [handler EXCEPT ![h] = m]
  BY <1>1, <1>4, <1>7, FreshHandler
<1> QED BY <1>3, <1>5, <1>6, <1>7

LEMMA CasComputeUpdate ==
  ASSUME TypeInv, CasInv, NEW h \in Handler, ComputeUpdate(h)
  PROVE  CasInv'
<1> DEFINE s == handler[h]
           n == [s EXCEPT !.pc = IF Range(s.cur) \cap AssetTx = {} THEN "commit" ELSE "assets"]
<1>1. /\ s \in HandlerState /\ build \in Row /\ Fresh(s, build) /\ s.pc = "patch"
      /\ s.cur # << >> /\ s.version = s.row.version
  BY DEF TypeInv, TypeOK, CasInv, ComputeUpdate, Shape, Working
<1>2. n.row = s.row /\ n.pc \in {"assets", "commit"} /\ n.version = s.version
  BY <1>1 DEF HandlerState
<1>3. handler' = [handler EXCEPT ![h] = n] /\ build' = build
  BY DEF ComputeUpdate
<1> HIDE DEF n
<1>4. Fresh(n, build)
  BY <1>1, <1>2 DEF Fresh, HasRow, Working
<1> QED BY <1>1, <1>3, <1>4, FreshHandler

LEMMA CasApplyAssets ==
  ASSUME TypeInv, CasInv, NEW h \in Handler, ApplyAssets(h)
  PROVE  CasInv'
<1> DEFINE s == handler[h]
           n == [s EXCEPT !.pc = "commit"]
<1>1. /\ s \in HandlerState /\ build \in Row /\ Fresh(s, build) /\ s.pc = "assets"
      /\ s.cur # << >>
  BY DEF TypeInv, TypeOK, CasInv, ApplyAssets, Shape, Working
<1>2. n.row = s.row /\ n.pc = "commit" /\ n.version = s.version
  BY <1>1 DEF HandlerState
<1>3. handler' = [handler EXCEPT ![h] = n] /\ build' = build
  BY DEF ApplyAssets
<1> HIDE DEF n
<1>4. Fresh(n, build)
  BY <1>1, <1>2 DEF Fresh, HasRow, Working
<1> QED BY <1>1, <1>3, <1>4, FreshHandler

\* The step that matters: the handler writes, everybody else falls behind.
LEMMA CasCommit ==
  ASSUME TypeInv, CasInv, NEW h \in Handler, Commit(h)
  PROVE  CasInv'
<1> DEFINE r == NewRow(handler[h])
           s == [handler[h] EXCEPT !.row = r, !.version = handler[h].version + 1]
           n == [s EXCEPT !.pc = "preview"]
<1>1. handler[h] \in HandlerState /\ build' = r
  BY DEF TypeInv, TypeOK, Commit
<1>2. r \in Row /\ Grows(build, r)
  BY CommitGrows DEF Commit
<1> HIDE DEF r
<1>3. s.row = r
  BY <1>1 DEF HandlerState
<1>4. \/ handler' = [handler EXCEPT ![h] = Saved(s)]
      \/ handler' = [handler EXCEPT ![h] = n]
  BY DEF Commit, r
<1>5. Saved(s).row = r /\ Saved(s).pc = "next" /\ n.row = r /\ n.pc = "preview"
  BY <1>1, <1>3 DEF Saved, HandlerState
<1> HIDE DEF s, n
<1>6. Fresh(Saved(s), r) /\ Fresh(n, r)
  BY <1>2, <1>5 DEF Fresh, Row
<1>7. CASE handler' = [handler EXCEPT ![h] = Saved(s)]
  BY <1>1, <1>2, <1>6, <1>7, FreshHandler
<1>8. CASE handler' = [handler EXCEPT ![h] = n]
  BY <1>1, <1>2, <1>6, <1>8, FreshHandler
<1> QED BY <1>4, <1>7, <1>8

LEMMA CasUpdatePreview ==
  ASSUME TypeInv, CasInv, NEW h \in Handler, UpdatePreview(h)
  PROVE  CasInv'
<1> DEFINE s == handler[h]
           n == Saved(s)
<1>1. s \in HandlerState /\ build \in Row /\ Fresh(s, build) /\ s.pc = "preview" /\ s.cur # << >>
  BY DEF TypeInv, TypeOK, CasInv, UpdatePreview, Shape, Working
<1>2. n.row = s.row /\ n.pc = "next"
  BY <1>1 DEF Saved, HandlerState
<1>3. handler' = [handler EXCEPT ![h] = n] /\ build' = build
  BY DEF UpdatePreview
<1> HIDE DEF n
<1>4. Fresh(n, build)
  BY <1>1, <1>2 DEF Fresh, HasRow, Working
<1> QED BY <1>1, <1>3, <1>4, FreshHandler

LEMMA CasNextEntry ==
  ASSUME TypeInv, CasInv, NEW h \in Handler, NextEntry(h)
  PROVE  CasInv'
<1> DEFINE s == handler[h]
           n == [s EXCEPT !.pc = "patch", !.cur = << Head(s.todo) >>, !.todo = Tail(s.todo)]
<1>1. /\ s \in HandlerState /\ build \in Row /\ Fresh(s, build) /\ s.pc = "next"
      /\ s.todo # << >> /\ handler \in [Handler -> HandlerState]
  BY DEF TypeInv, TypeOK, CasInv, NextEntry
<1>2. n.row = s.row /\ n.pc = "patch"
  BY <1>1 DEF HandlerState
<1>3. handler' = [handler EXCEPT ![h] = n] /\ build' = build
  BY <1>1 DEF NextEntry
<1> HIDE DEF n
<1>4. Fresh(n, build)
  BY <1>1, <1>2 DEF Fresh, HasRow, Working
<1> QED BY <1>1, <1>3, <1>4, FreshHandler

\* A failed call may have written the row, which then also extends it.
LEMMA CasFail ==
  ASSUME TypeInv, CasInv, NEW h \in Handler, Fail(h)
  PROVE  CasInv' /\ (build' = build \/ Grows(build, build'))
<1>1. build \in Row
  BY DEF TypeInv, TypeOK
<1>2. build' \in Row /\ (build' = build \/ Grows(build, build'))
  BY <1>1, CommitGrows DEF Fail
<1>3. Answer(h, "error") \/ Answer(h, "refused")
  BY DEF Fail
<1> QED BY <1>2, <1>3, FreshAnswer

LEMMA CasEnd ==
  ASSUME TypeInv, CasInv, NEW h \in Handler, End(h)
  PROVE  CasInv'
<1>1. build \in Row /\ build' = build /\ handler' = [handler EXCEPT ![h] = Idle]
  BY DEF TypeInv, TypeOK, End
<1>2. Fresh(Idle, build)
  BY DEF Fresh, HasRow, Working, Idle
<1> QED BY <1>1, <1>2, FreshHandler

LEMMA CasImport ==
  ASSUME TypeInv, CasInv, NEW i \in Importer, ImportStep(i)
  PROVE  CasInv' /\ (build' = build \/ Grows(build, build'))
<1>1. handler' = handler
  BY DEF ImportStep, ImportLoad, ImportCommit, ImportReset, ImportDelete,
       ImportInsert, ImportPreview, ImportAbort
<1>2. build \in Row /\ build' \in Row
  BY TypeImport DEF TypeInv, TypeOK
<1>3. build' = build \/ Grows(build, build')
  <2>1. CASE ImportCommit(i)
    <3>1. build'.version = build.version + 1 /\ build'.log = build.log \o << i >>
      BY <1>2, <2>1 DEF ImportCommit, Row
    <3>2. << i >> \in Seq(Edit)
      BY DEF Edit
    <3> QED BY <3>1, <3>2 DEF Grows
  <2>2. CASE ~ImportCommit(i)
    BY <2>2 DEF ImportStep, ImportLoad, ImportReset, ImportDelete,
         ImportInsert, ImportPreview, ImportAbort
  <2> QED BY <2>1, <2>2
<1>4. ASSUME NEW g \in Handler PROVE Fresh(handler[g], build')
  <2>1. handler[g] \in HandlerState /\ Fresh(handler[g], build)
    BY DEF TypeInv, TypeOK, CasInv
  <2> QED BY <1>2, <1>3, <2>1, FreshKept
<1> QED BY <1>1, <1>3, <1>4 DEF CasInv

LEMMA CasStep ==
  ASSUME TypeInv, CasInv, [Next]_vars
  PROVE  CasInv' /\ (build' = build \/ Grows(build, build'))
<1>1. CASE \E h \in Handler : (\E r \in Request : Receive(h, r)) \/ Refuse(h) \/ End(h)
  <2>1. build \in Row /\ build' = build
    BY <1>1 DEF TypeInv, TypeOK, Receive, Refuse, End
  <2> QED BY <1>1, <2>1, CasReceive, CasEnd, FreshAnswer DEF Refuse
<1>2. CASE \E h \in Handler : Progress(h)
  <2> PICK h \in Handler : Progress(h)
    BY <1>2
  <2>1. CASE Commit(h)
    <3>1. build' = NewRow(handler[h])
      BY <2>1 DEF Commit
    <3> QED BY <2>1, <3>1, CasCommit, CommitGrows DEF Commit
  <2>2. CASE VersionMismatch(h) \/ LoseRace(h) \/ Finish(h)
    <3>1. build \in Row /\ build' = build /\ \E status : Answer(h, status)
      BY <2>2 DEF TypeInv, TypeOK, VersionMismatch, LoseRace, Finish
    <3> QED BY <3>1, FreshAnswer
  <2>3. CASE \/ LoadState(h) \/ LoadBuild(h) \/ AlreadySaved(h) \/ RejectCyclic(h)
             \/ ComputeUpdate(h) \/ ApplyAssets(h) \/ UpdatePreview(h) \/ NextEntry(h)
    <3>1. build' = build
      BY <2>3 DEF LoadState, LoadBuild, AlreadySaved, RejectCyclic, ComputeUpdate,
           ApplyAssets, UpdatePreview, NextEntry
    <3> QED BY <2>3, <3>1, CasLoadState, CasLoadBuild, CasAlreadySaved, CasRejectCyclic,
         CasComputeUpdate, CasApplyAssets, CasUpdatePreview, CasNextEntry
  <2> QED BY <2>1, <2>2, <2>3 DEF Progress
<1>3. CASE \E h \in Handler : Fail(h)
  BY <1>3, CasFail
<1>4. CASE \E i \in Importer : ImportStep(i)
  BY <1>4, CasImport
<1>5. CASE UNCHANGED vars
  BY <1>5 DEF vars, CasInv
<1> QED BY <1>1, <1>2, <1>3, <1>4, <1>5 DEF Next

\* A handler whose version match can still succeed holds exactly the stored
\* row, although it read version and content separately (loadBuildState,
\* loadBuildForPatch).
THEOREM SnapshotCorrect == Spec => []SnapshotMatchesVersion
<1>1. Init => TypeInv /\ CasInv
  BY TypeInit, CasInit
<1>2. TypeInv /\ CasInv /\ [Next]_vars => (TypeInv /\ CasInv)'
  BY TypeStep, CasStep
<1>3. TypeInv /\ CasInv => SnapshotMatchesVersion
  BY DEF CasInv, Fresh, HasRow, Working, SnapshotMatchesVersion
<1> QED BY <1>1, <1>2, <1>3, PTL DEF Spec

\* No lost update: every step of every handler and import keeps what the build
\* holds, at most putting new edits behind it.
THEOREM NoLostUpdate == Spec => CommitsExtendLog
<1> DEFINE Extends == /\ Len(build.log) <= Len(build'.log)
                      /\ \A k \in DOMAIN build.log : build'.log[k] = build.log[k]
<1>1. Init => TypeInv /\ CasInv
  BY TypeInit, CasInit
<1>2. TypeInv /\ CasInv /\ [Next]_vars => (TypeInv /\ CasInv)'
  BY TypeStep, CasStep
<1>3. TypeInv /\ CasInv /\ [Next]_vars => [Extends]_vars
  <2> SUFFICES ASSUME TypeInv, CasInv, [Next]_vars PROVE Extends
    OBVIOUS
  <2>1. build' = build \/ Grows(build, build')
    BY CasStep
  <2>2. build.log \in Seq(Edit)
    BY DEF TypeInv, TypeOK, Row
  <2>3. CASE build' = build
    BY <2>2, <2>3
  <2>4. CASE Grows(build, build')
    <3>1. PICK e \in Seq(Edit) : build'.log = build.log \o e
      BY <2>4 DEF Grows
    <3> QED BY <2>2, <3>1
  <2> QED BY <2>1, <2>3, <2>4
<1> QED BY <1>1, <1>2, <1>3, PTL DEF Spec, CommitsExtendLog

(***************************************************************************)
(* What is stored beside the row: asset rows and the preview image.        *)
(***************************************************************************)

\* A handler about to set the preview image has saved its transactions, and
\* one about to write the row has applied their asset patches.
Beside(s) ==
  /\ s.pc = "preview" => Range(s.cur) \subseteq Range(build.log)
  /\ /\ s.pc = "commit"
     /\ Range(build.log) \cap Importer = {}
     => Range(s.cur) \cap AssetTx \subseteq assets

\* An import replaces assets and preview image only after it wrote the row.
SideInv ==
  /\ PreviewWasSaved
  /\ SavedAssetsApplied
  /\ \A h \in Handler : Beside(handler[h])
  /\ \A i \in Importer :
       importer[i].pc \in {"reset", "delete", "insert", "preview"}
       => i \in Range(build.log)

LEMMA RangeConcat ==
  ASSUME NEW S, NEW a \in Seq(S), NEW b \in Seq(S)
  PROVE  Range(a \o b) = Range(a) \cup Range(b)
<1>1. ASSUME NEW x \in Range(a \o b) PROVE x \in Range(a) \cup Range(b)
  <2>1. PICK k \in 1 .. Len(a) + Len(b) : x = (a \o b)[k]
    BY <1>1 DEF Range
  <2>2. CASE k <= Len(a)
    BY <2>1, <2>2 DEF Range
  <2>3. CASE k > Len(a)
    <3>1. x = b[k - Len(a)] /\ k - Len(a) \in 1 .. Len(b)
      BY <2>1, <2>3
    <3> QED BY <3>1 DEF Range
  <2> QED BY <2>1, <2>2, <2>3
<1>2. ASSUME NEW x \in Range(a) PROVE x \in Range(a \o b)
  <2>1. PICK k \in 1 .. Len(a) : x = a[k]
    BY <1>2 DEF Range
  <2>2. k \in DOMAIN (a \o b) /\ (a \o b)[k] = x
    BY <2>1
  <2> QED BY <2>2 DEF Range
<1>3. ASSUME NEW x \in Range(b) PROVE x \in Range(a \o b)
  <2>1. PICK k \in 1 .. Len(b) : x = b[k]
    BY <1>3 DEF Range
  <2>2. Len(a) + k \in DOMAIN (a \o b) /\ (a \o b)[Len(a) + k] = x
    BY <2>1
  <2> QED BY <2>2 DEF Range
<1> QED BY <1>1, <1>2, <1>3

LEMMA RangeConcatOne ==
  ASSUME NEW S, NEW a \in Seq(S), NEW x \in S
  PROVE  Range(a \o << x >>) = Range(a) \cup {x}
<1>1. PICK b \in Seq(S) : b = << x >>
  <2>1. << x >> \in Seq(S)
    OBVIOUS
  <2> QED BY <2>1
<1>2. Range(b) = {x}
  BY <1>1 DEF Range
<1>3. Range(a \o b) = Range(a) \cup Range(b)
  BY RangeConcat
<1> QED BY <1>1, <1>2, <1>3

LEMMA SideInit == Init => SideInv
BY DEF Init, SideInv, PreviewWasSaved, SavedAssetsApplied, Beside, EmptyRow, Range, Idle

\* Once written, an edit stays.
LEMMA LogKept ==
  ASSUME TypeInv, CasInv, [Next]_vars
  PROVE  Range(build.log) \subseteq Range(build'.log)
<1>1. build' = build \/ Grows(build, build')
  BY CasStep
<1>2. build.log \in Seq(Edit)
  BY DEF TypeInv, TypeOK, Row
<1>3. CASE Grows(build, build')
  <2>1. PICK e \in Seq(Edit) : build'.log = build.log \o e
    BY <1>3 DEF Grows
  <2>2. Range(build.log \o e) = Range(build.log) \cup Range(e)
    BY <1>2, RangeConcat
  <2> QED BY <2>1, <2>2
<1> QED BY <1>1, <1>3

\* The step of one handler, if the others cannot be disturbed by it.
LEMMA BesideOthers ==
  ASSUME TypeInv, CasInv, SideInv, [Next]_vars, NEW h \in Handler,
         assets \subseteq assets',
         \A g \in Handler \ {h} : handler'[g] = handler[g]
  PROVE  \A g \in Handler \ {h} : Beside(handler[g])'
BY LogKept DEF SideInv, Beside

LEMMA SideProgress ==
  ASSUME TypeInv, CasInv, SideInv, NEW h \in Handler,
         Progress(h) \/ Fail(h) \/ Refuse(h) \/ End(h)
         \/ \E r \in Request : Receive(h, r)
  PROVE  SideInv'
<1> DEFINE s == handler[h]
<1>0. [Next]_vars
  BY DEF Next
<1>1. /\ s \in HandlerState /\ Beside(s) /\ handler \in [Handler -> HandlerState]
      /\ build.log \in Seq(Edit) /\ s.cur \in Seq(Edit)
  BY DEF SideInv, TypeInv, TypeOK, HandlerState, Row, Edit
<1>2. importer' = importer /\ \A g \in Handler \ {h} : handler'[g] = handler[g]
  BY <1>1 DEF Progress, LoadState, LoadBuild, AlreadySaved, VersionMismatch, RejectCyclic,
       ComputeUpdate, ApplyAssets, Commit, LoseRace, UpdatePreview, NextEntry, Finish,
       Fail, Refuse, End, Receive, Answer
<1>3. assets \subseteq assets'
  BY DEF Progress, LoadState, LoadBuild, AlreadySaved, VersionMismatch, RejectCyclic,
       ComputeUpdate, ApplyAssets, Commit, LoseRace, UpdatePreview, NextEntry, Finish,
       Fail, Refuse, End, Receive
<1>4. \A i \in Importer :
        importer'[i].pc \in {"reset", "delete", "insert", "preview"}
        => i \in Range(build'.log)
  BY <1>0, <1>2, LogKept DEF SideInv
<1>5. \/ build' = build
      \/ s.pc = "commit" /\ s.cur # << >> /\ build'.log = build.log \o s.cur
  <2>1. CASE build' # build
    <3>1. build' = NewRow(s) /\ s.pc = "commit" /\ build.version = s.version
      BY <2>1 DEF Progress, LoadState, LoadBuild, AlreadySaved, VersionMismatch, RejectCyclic,
         ComputeUpdate, ApplyAssets, Commit, LoseRace, UpdatePreview, NextEntry, Finish,
         Fail, Refuse, End, Receive
    <3>2. s.row = build /\ s.cur # << >>
      BY <1>1, <3>1 DEF CasInv, Fresh, HasRow, Working, TypeInv, Shape
    <3> QED BY <3>1, <3>2 DEF NewRow
  <2> QED BY <2>1
<1>6. Range(build'.log) = Range(build.log)
      \/ (s.pc = "commit" /\ Range(build'.log) = Range(build.log) \cup Range(s.cur))
  <2>1. Range(build.log \o s.cur) = Range(build.log) \cup Range(s.cur)
    BY <1>1, RangeConcat
  <2> QED BY <1>5, <2>1
<1>7. SavedAssetsApplied'
  BY <1>1, <1>3, <1>6 DEF SideInv, SavedAssetsApplied, Beside
<1>8. PreviewWasSaved'
  <2>1. preview' = preview \/ (s.pc = "preview" /\ preview' = LastPreview(s.cur))
    BY DEF Progress, LoadState, LoadBuild, AlreadySaved, VersionMismatch, RejectCyclic,
         ComputeUpdate, ApplyAssets, Commit, LoseRace, UpdatePreview, NextEntry, Finish,
         Fail, Refuse, End, Receive
  <2>2. s.pc = "preview" => LastPreview(s.cur) \in Range(build.log)
    BY <1>1, PreviewType DEF Beside
  <2> QED BY <1>0, <2>1, <2>2, LogKept DEF SideInv, PreviewWasSaved
<1>9. Beside(handler[h])'
  <2>1. CASE ComputeUpdate(h)
    <3>1. handler'[h] = [s EXCEPT !.pc =
            IF Range(s.cur) \cap AssetTx = {} THEN "commit" ELSE "assets"]
      BY <1>1, <2>1 DEF ComputeUpdate
    <3>2. handler'[h].cur = s.cur /\ handler'[h].pc \in {"commit", "assets"}
          /\ (handler'[h].pc = "commit" => Range(s.cur) \cap AssetTx = {})
      BY <1>1, <3>1 DEF HandlerState
    <3> QED BY <3>2 DEF Beside
  <2>2. CASE ApplyAssets(h)
    <3>1. handler'[h].cur = s.cur /\ handler'[h].pc = "commit"
          /\ Range(s.cur) \cap AssetTx \subseteq assets'
      BY <1>1, <2>2 DEF ApplyAssets, HandlerState
    <3> QED BY <3>1 DEF Beside
  <2>3. CASE Commit(h)
    <3>1. handler'[h].cur = s.cur /\ handler'[h].pc \in {"next", "preview"}
      BY <1>1, <2>3 DEF Commit, Saved, HandlerState
    <3>2. build'.log = build.log \o s.cur
      BY <1>1, <2>3 DEF Commit, NewRow, CasInv, Fresh, HasRow, Working, TypeInv, Shape
    <3>3. Range(s.cur) \subseteq Range(build'.log)
      BY <1>1, <3>2, RangeConcat
    <3> QED BY <3>1, <3>3 DEF Beside
  <2>4. CASE ~(ComputeUpdate(h) \/ ApplyAssets(h) \/ Commit(h))
    <3>1. ASSUME NEW status, Answer(h, status) PROVE handler'[h].pc = "done"
      BY <1>1, <3>1 DEF Answer, Idle
    <3>2. ASSUME LoadBuild(h) \/ NextEntry(h) \/ LoadState(h)
          PROVE  handler'[h].pc \in {"loadBuild", "patch", "next"}
      <4>1. CASE LoadBuild(h)
        <5> DEFINE r == IF s.kind = "api" THEN build ELSE [build EXCEPT !.version = s.seen]
                   n == IF Shared(s)
                        THEN [s EXCEPT !.pc = "patch", !.row = r, !.cur = s.entries]
                        ELSE [s EXCEPT !.pc = "next", !.row = r, !.todo = s.entries,
                                       !.single = TRUE]
        <5>1. handler'[h] = n
          BY <1>1, <4>1 DEF LoadBuild
        <5> HIDE DEF r
        <5>2. n.pc \in {"patch", "next"}
          BY <1>1 DEF HandlerState
        <5> QED BY <5>1, <5>2
      <4>2. CASE NextEntry(h)
        BY <1>1, <4>2 DEF NextEntry, HandlerState
      <4>3. CASE LoadState(h)
        BY <1>1, <4>3 DEF LoadState, HandlerState
      <4> QED BY <3>2, <4>1, <4>2, <4>3
    <3>3. ASSUME AlreadySaved(h) \/ UpdatePreview(h)
          PROVE  handler'[h].pc = "next"
      BY <1>1, <3>3 DEF AlreadySaved, UpdatePreview, Saved, HandlerState
    <3>4. ASSUME RejectCyclic(h), ~Answer(h, "error") PROVE handler'[h].pc = "next"
      BY <1>1, <3>4 DEF RejectCyclic, HandlerState
    <3>5. ASSUME End(h) \/ \E r \in Request : Receive(h, r)
          PROVE  handler'[h].pc \in {"idle", "loadBuild", "loadState"}
      <4>1. CASE End(h)
        BY <1>1, <4>1 DEF End, Idle
      <4>2. CASE \E r \in Request : Receive(h, r)
        <5>1. PICK r \in Request : Receive(h, r)
          BY <4>2
        <5> DEFINE n == [Idle EXCEPT !.pc = IF r.kind = "api" THEN "loadBuild" ELSE "loadState",
                    !.kind = r.kind, !.entries = r.entries,
                    !.denied = r.denied, !.version = r.version]
        <5>2. n.pc \in {"loadBuild", "loadState"}
          BY DEF Idle
        <5>3. handler'[h] = n
          BY <1>1, <5>1 DEF Receive
        <5> QED BY <5>2, <5>3
      <4> QED BY <3>5, <4>1, <4>2
    <3>6. ASSUME VersionMismatch(h) \/ LoseRace(h) \/ Finish(h) \/ Fail(h) \/ Refuse(h)
          PROVE  \E status : Answer(h, status)
      BY <3>6 DEF VersionMismatch, LoseRace, Finish, Fail, Refuse
    <3>7. handler'[h].pc \notin {"preview", "commit"}
      BY <2>4, <3>1, <3>2, <3>3, <3>4, <3>5, <3>6 DEF Progress
    <3> QED BY <3>7 DEF Beside
  <2> QED BY <2>1, <2>2, <2>3, <2>4
<1>10. \A g \in Handler : Beside(handler[g])'
  BY <1>0, <1>2, <1>3, <1>9, BesideOthers
<1> QED BY <1>4, <1>7, <1>8, <1>10 DEF SideInv

LEMMA SideImport ==
  ASSUME TypeInv, CasInv, SideInv, NEW i \in Importer, ImportStep(i)
  PROVE  SideInv'
<1>0. [Next]_vars
  BY DEF Next
<1>1. /\ handler' = handler /\ importer[i] \in ImporterState
      /\ importer \in [Importer -> ImporterState]
      /\ build.log \in Seq(Edit) /\ << i >> \in Seq(Edit)
  BY DEF ImportStep, ImportLoad, ImportCommit, ImportReset, ImportDelete,
       ImportInsert, ImportPreview, ImportAbort, TypeInv, TypeOK, Row, Edit
<1>2. Range(build.log) \subseteq Range(build'.log)
  BY <1>0, LogKept
<1>3. ImportCommit(i) => i \in Range(build'.log)
  <2> SUFFICES ASSUME ImportCommit(i) PROVE i \in Range(build'.log)
    OBVIOUS
  <2>1. build'.log = build.log \o << i >>
    BY <1>1 DEF ImportCommit
  <2>2. build.log \in Seq(Edit) /\ i \in Edit
    BY <1>1 DEF Edit
  <2>3. Range(build.log \o << i >>) = Range(build.log) \cup {i}
    BY <2>2, RangeConcatOne
  <2> QED BY <2>1, <2>3
<1>4. \A j \in Importer :
        importer'[j].pc \in {"reset", "delete", "insert", "preview"}
        => j \in Range(build'.log)
  <2> TAKE j \in Importer
  <2>1. CASE j # i
    BY <1>1, <1>2, <2>1 DEF SideInv, ImportStep, ImportLoad, ImportCommit, ImportReset,
       ImportDelete, ImportInsert, ImportPreview, ImportAbort
  <2>2. CASE j = i
    <3>1. ImportLoad(i) \/ ImportPreview(i) \/ ImportAbort(i)
          => importer'[i].pc \in {"commit", "done"}
      BY <1>1 DEF ImportLoad, ImportPreview, ImportAbort, ImporterState
    <3>2. ImportReset(i) \/ ImportDelete(i) \/ ImportInsert(i) => i \in Range(build.log)
      BY DEF SideInv, ImportReset, ImportDelete, ImportInsert
    <3> QED BY <1>2, <1>3, <2>2, <3>1, <3>2 DEF ImportStep
  <2> QED BY <2>1, <2>2
<1>5. PreviewWasSaved'
  <2>1. preview' = preview \/ preview' = NoTx \/ (importer[i].pc = "preview" /\ preview' = i)
    BY DEF ImportStep, ImportLoad, ImportCommit, ImportReset, ImportDelete,
       ImportInsert, ImportPreview, ImportAbort
  <2> QED BY <1>2, <2>1 DEF SideInv, PreviewWasSaved
<1>6. \/ ImportCommit(i)
      \/ build' = build /\ assets' = assets
      \/ i \in Range(build'.log)
  BY <1>2 DEF SideInv, ImportStep, ImportLoad, ImportReset, ImportDelete,
       ImportInsert, ImportPreview, ImportAbort
<1>7. i \in Range(build'.log) \/ (build' = build /\ assets' = assets)
  BY <1>3, <1>6
<1>8. SavedAssetsApplied'
  BY <1>7 DEF SideInv, SavedAssetsApplied
<1>9. \A g \in Handler : Beside(handler[g])'
  BY <1>1, <1>2, <1>7 DEF SideInv, Beside
<1> QED BY <1>4, <1>5, <1>8, <1>9 DEF SideInv

LEMMA SideStep ==
  ASSUME TypeInv, CasInv, SideInv, [Next]_vars
  PROVE  SideInv'
<1>1. CASE Next
  BY <1>1, SideProgress, SideImport DEF Next
<1>2. CASE UNCHANGED vars
  BY <1>2 DEF vars, SideInv, Beside, PreviewWasSaved, SavedAssetsApplied
<1> QED BY <1>1, <1>2

\* The preview image is never that of a change that was not saved.
THEOREM PreviewCorrect == Spec => []PreviewWasSaved
<1>1. Init => TypeInv /\ CasInv /\ SideInv
  BY TypeInit, CasInit, SideInit
<1>2. TypeInv /\ CasInv /\ SideInv /\ [Next]_vars => (TypeInv /\ CasInv /\ SideInv)'
  BY TypeStep, CasStep, SideStep
<1>3. SideInv => PreviewWasSaved
  BY DEF SideInv
<1> QED BY <1>1, <1>2, <1>3, PTL DEF Spec

\* As long as nothing is imported, a saved transaction has its assets.
THEOREM AssetsCorrect == Spec => []SavedAssetsApplied
<1>1. Init => TypeInv /\ CasInv /\ SideInv
  BY TypeInit, CasInit, SideInit
<1>2. TypeInv /\ CasInv /\ SideInv /\ [Next]_vars => (TypeInv /\ CasInv /\ SideInv)'
  BY TypeStep, CasStep, SideStep
<1>3. SideInv => SavedAssetsApplied
  BY DEF SideInv
<1> QED BY <1>1, <1>2, <1>3, PTL DEF Spec
=============================================================================
