----------------------- MODULE PatchServiceLog_proofs -----------------------
(***************************************************************************)
(* Proofs about what PatchService saves: nothing twice, everything that is *)
(* reported as accepted, and only by steps of BuildLog.                    *)
(*                                                                         *)
(* A handler may save or skip the transactions of its request one by one,  *)
(* and any number of handlers may work on the same request.  The order of  *)
(* the transactions in their request decides: what the build holds of a    *)
(* request is in this order, without gaps but for cyclic transactions, so  *)
(* that the last transaction of the build, the only one the code compares, *)
(* says of all the others whether they are saved.                          *)
(***************************************************************************)
EXTENDS PatchService_proofs

(***************************************************************************)
(* The order of the transactions of a request.                             *)
(***************************************************************************)

\* x comes before y in their request.
Before(x, y) ==
  \E r \in Request : \E i, j \in DOMAIN r.entries :
    i < j /\ r.entries[i] = x /\ r.entries[j] = y

Precedes(x, y) == x = y \/ Before(x, y)

\* In the order of a request.
Rising(txs) == \A i, j \in DOMAIN txs : i < j => Before(txs[i], txs[j])

\* Nothing comes twice, and nothing behind what it comes before.
Ordered(log) == \A i, j \in DOMAIN log : i < j => ~Precedes(log[j], log[i])

LEMMA RequestIs ==
  ASSUME NEW r \in Request
  PROVE  /\ r.entries \in Seq(Tx) /\ r.version \in Nat /\ Rising(r.entries)
         /\ Range(r.entries) \subseteq Tx
<1>1. r.entries \in Seq(Tx) /\ r.version \in Nat
  BY ConstantsAssumption DEF RequestType
<1>2. Rising(r.entries)
  BY DEF Rising, Before
<1>3. Range(r.entries) \subseteq Tx
  BY <1>1 DEF Range
<1> QED BY <1>1, <1>2, <1>3

\* Both are in the same request, which is determined by either of them.
LEMMA BeforeIn ==
  ASSUME NEW x, NEW y, Before(x, y), NEW r \in Request,
         x \in Range(r.entries) \/ y \in Range(r.entries)
  PROVE  /\ x \in Range(r.entries) /\ y \in Range(r.entries)
         /\ \E i, j \in DOMAIN r.entries : i < j /\ r.entries[i] = x /\ r.entries[j] = y
<1>1. PICK q \in Request : \E i, j \in DOMAIN q.entries :
        i < j /\ q.entries[i] = x /\ q.entries[j] = y
  BY DEF Before
<1>2. x \in Range(q.entries) /\ y \in Range(q.entries)
  BY <1>1 DEF Range
<1>3. q = r
  BY <1>2, RetryAssumption
<1> QED BY <1>1, <1>2, <1>3

LEMMA BeforeStrict ==
  ASSUME NEW x
  PROVE  ~Before(x, x)
<1> SUFFICES ASSUME Before(x, x) PROVE FALSE
  OBVIOUS
<1>1. PICK r \in Request : \E i, j \in DOMAIN r.entries :
        i < j /\ r.entries[i] = x /\ r.entries[j] = x
  BY DEF Before
<1>2. PICK i, j \in DOMAIN r.entries : i < j /\ r.entries[i] = x /\ r.entries[j] = x
  BY <1>1
<1>3. i = j
  BY <1>2, RetryAssumption DEF IsInjective
<1>4. i \in Nat
  BY RequestIs
<1> QED BY <1>2, <1>3, <1>4

LEMMA BeforeTransitive ==
  ASSUME NEW x, NEW y, NEW z, Before(x, y), Before(y, z)
  PROVE  Before(x, z)
<1>0. PICK r \in Request : \E i, j \in DOMAIN r.entries :
        i < j /\ r.entries[i] = x /\ r.entries[j] = y
  BY DEF Before
<1>1. PICK i, j \in DOMAIN r.entries : i < j /\ r.entries[i] = x /\ r.entries[j] = y
  BY <1>0
<1>2. y \in Range(r.entries)
  BY <1>1 DEF Range
<1>3. PICK k \in DOMAIN r.entries, l \in DOMAIN r.entries :
        k < l /\ r.entries[k] = y /\ r.entries[l] = z
  BY <1>2, BeforeIn
<1>4. j = k
  BY <1>1, <1>3, RetryAssumption DEF IsInjective
<1>5. i \in Nat /\ j \in Nat /\ l \in Nat
  BY RequestIs
<1>6. i < l
  BY <1>1, <1>3, <1>4, <1>5
<1> QED BY <1>1, <1>3, <1>6 DEF Before

\* Only transactions have an order.
LEMMA BeforeTx ==
  ASSUME NEW x, NEW y, Before(x, y)
  PROVE  x \in Tx /\ y \in Tx
BY RequestIs DEF Before, Range

LEMMA LastOfLog ==
  ASSUME NEW S, NEW txs \in Seq(S), txs # << >>
  PROVE  LastTx(txs) \in Range(txs) /\ Len(txs) \in DOMAIN txs /\ txs[Len(txs)] = LastTx(txs)
<1>1. Len(txs) \in DOMAIN txs
  OBVIOUS
<1> QED BY <1>1 DEF LastTx, Range

\* What follows the last entry of an ordered log in its request is not in it.
LEMMA AfterLast ==
  ASSUME NEW log \in Seq(Edit), log # << >>, Ordered(log), NEW y, Before(LastTx(log), y),
         NEW x \in Range(log)
  PROVE  ~Precedes(y, x)
<1> PICK e : e = LastTx(log)
  OBVIOUS
<1>1. PICK i \in DOMAIN log : log[i] = x
  BY DEF Range
<1>2. x = e \/ ~Precedes(e, x)
  <2>1. i = Len(log) \/ i < Len(log)
    OBVIOUS
  <2> QED BY <1>1, <2>1, LastOfLog DEF Ordered
<1>3. ~Before(e, e) /\ ~Before(y, y)
  BY BeforeStrict
<1>4. Before(y, x) => Before(e, x)
  BY BeforeTransitive
<1> QED BY <1>2, <1>3, <1>4 DEF Precedes

(***************************************************************************)
(* The inductive invariant.                                                *)
(***************************************************************************)

Attempting == {"patch", "assets", "commit"}
Started == Attempting \cup {"preview", "next"}
Loading == {"loadState", "loadBuild"}

\* The transactions a handler has not dealt with.
Left(s) == (IF s.pc \in Attempting THEN Range(s.cur) ELSE {}) \cup Range(s.todo)

\* How a handler goes through its entries: as one batch, or one by one.
Loop(s) ==
  /\ s.pc \in Loading =>
       s.cur = << >> /\ s.todo = << >> /\ ~s.single /\ s.row.lastTx = NoTx
  /\ s.pc \in Started =>
       /\ Range(s.cur) \cup Range(s.todo) \subseteq Range(s.entries)
       /\ Rising(s.cur) /\ Rising(s.todo)
       /\ ~s.single => s.todo = << >>
  /\ s.pc \in Working =>
       /\ \A x \in Range(s.cur), y \in Range(s.todo) : Before(x, y)
       /\ IF s.single THEN \E e \in Tx : s.cur = << e >> ELSE s.cur = s.entries

\* What a handler that works on request r knows of the stored build: before
\* it saved anything, or was told what is saved, it has the version of the
\* request; afterwards, unless it has fallen behind, what it has left comes
\* behind everything that is stored.
Owns(s, r) ==
  /\ s.entries = r.entries
  /\ s.pc \in Loading => s.version = r.version
  /\ s.version # r.version =>
       /\ s.version <= build.version
       /\ Left(s) # {} /\ s.version = build.version =>
            /\ r.version < build.version
            /\ \A y \in Left(s) : \A x \in Range(build.log) : ~Precedes(y, x)

\* What a handler has dealt with, and what it has accepted, is saved.
Dealt(s) ==
  /\ s.pc \in Started =>
       /\ (Range(s.entries) \ Left(s)) \ Cyclic \subseteq Range(build.log)
       /\ s.row.lastTx \in Range(build.log) \cup {NoTx}
  /\ s.accepted \ Cyclic \subseteq Range(build.log)

Accountable(s) ==
  /\ Dealt(s)
  /\ s.pc \in Loading \cup Started => Loop(s) /\ \E r \in Request : Owns(s, r)

\* What the stored build says of all requests and imports.
History ==
  /\ Ordered(build.log)
  /\ build.lastTx = IF build.log = << >> THEN NoTx ELSE LastTx(build.log)
  /\ \A r \in Request :
       Range(r.entries) \cap Range(build.log) # {} => r.version < build.version
  /\ \A x, y : Before(x, y) /\ y \in Range(build.log) /\ x \notin Cyclic => x \in Range(build.log)
  /\ \A i \in Importer : importer[i].pc \in {"idle", "commit"} => i \notin Range(build.log)

LogInv == History /\ \A h \in Handler : Accountable(handler[h])

ServiceInv == TypeInv /\ CasInv /\ LogInv

(***************************************************************************)
(* Handlers that do not take the step.                                     *)
(***************************************************************************)

LEMMA AccountableKept ==
  ASSUME NEW s \in HandlerState, build \in Row, build' \in Row, Accountable(s),
         build' = build \/ Grows(build, build')
  PROVE  Accountable(s)'
<1>1. CASE build' = build
  BY <1>1 DEF Accountable, Dealt, Owns
<1>2. CASE Grows(build, build')
  <2>1. PICK e \in Seq(Edit) : build'.version = build.version + 1 /\ build'.log = build.log \o e
    BY <1>2 DEF Grows
  <2>2. Range(build.log) \subseteq Range(build'.log)
    BY <2>1, RangeConcat DEF Row
  <2>3. build.version \in Nat /\ s.version \in Nat
    BY DEF Row, HandlerState
  <2>4. \A r : Owns(s, r) => Owns(s, r)'
    BY <2>1, <2>3 DEF Owns
  <2>5. Dealt(s) => Dealt(s)'
    BY <2>2 DEF Dealt
  <2> QED BY <2>4, <2>5 DEF Accountable
<1> QED BY <1>1, <1>2

\* A handler that replaces its state, while the build stays or grows.
LEMMA AccountableHandler ==
  ASSUME ServiceInv, NEW h \in Handler, NEW s, handler' = [handler EXCEPT ![h] = s],
         build' \in Row, build' = build \/ Grows(build, build'), Accountable(s)'
  PROVE  \A g \in Handler : Accountable(handler[g])'
<1> SUFFICES ASSUME NEW g \in Handler PROVE Accountable(handler[g])'
  OBVIOUS
<1>1. handler \in [Handler -> HandlerState] /\ build \in Row
  BY DEF ServiceInv, TypeInv, TypeOK
<1>2. CASE g = h
  BY <1>1, <1>2
<1>3. CASE g # h
  <2> PICK k : k = handler[g]
    OBVIOUS
  <2>1. k \in HandlerState /\ Accountable(k) /\ handler'[g] = k
    BY <1>1, <1>3 DEF ServiceInv, LogInv
  <2>2. Accountable(k)'
    BY <1>1, <2>1, AccountableKept
  <2> QED BY <2>1, <2>2
<1> QED BY <1>2, <1>3

LEMMA HistoryKept ==
  ASSUME History, UNCHANGED build,
         \A i \in Importer : importer'[i].pc \in {"idle", "commit"} => importer[i].pc \in {"idle", "commit"}
  PROVE  History'
BY DEF History

\* A step of a handler that writes nothing.
LEMMA HandlerLog ==
  ASSUME ServiceInv, NEW h \in Handler, NEW s, handler' = [handler EXCEPT ![h] = s],
         UNCHANGED << build, importer >>, Accountable(s)
  PROVE  LogInv'
<1>1. Accountable(s)'
  BY DEF Accountable, Dealt, Owns
<1>2. build' \in Row
  BY DEF ServiceInv, TypeInv, TypeOK
<1>3. \A g \in Handler : Accountable(handler[g])'
  BY <1>1, <1>2, AccountableHandler
<1>4. History'
  BY HistoryKept DEF ServiceInv, LogInv
<1> QED BY <1>3, <1>4 DEF LogInv

\* A handler that answers, or is over, has nothing left to do.
LEMMA AnswerAccountable ==
  ASSUME ServiceInv, NEW h \in Handler, NEW status, Answer(h, status),
         build' \in Row, build' = build \/ Grows(build, build')
  PROVE  \A g \in Handler : Accountable(handler[g])'
<1>1. PICK s : s = [Idle EXCEPT !.pc = "done", !.reply = status,
                 !.kind = handler[h].kind, !.entries = handler[h].entries,
                 !.denied = handler[h].denied, !.version = handler[h].version,
                 !.accepted = handler[h].accepted]
  OBVIOUS
<1>2. s.pc = "done" /\ s.accepted = handler[h].accepted
  BY <1>1 DEF Idle
<1>3. handler' = [handler EXCEPT ![h] = s]
  BY <1>1 DEF Answer
<1>4. Accountable(handler[h]) /\ handler[h] \in HandlerState /\ build \in Row
  BY DEF ServiceInv, LogInv, TypeInv, TypeOK
<1>5. PICK k : k = handler[h]
  OBVIOUS
<1>6. Accountable(k)'
  BY <1>4, <1>5, AccountableKept
<1>7. Accountable(s)'
  BY <1>2, <1>5, <1>6 DEF Accountable, Dealt, Loading, Started, Attempting
<1> QED BY <1>3, <1>7, AccountableHandler


(***************************************************************************)
(* Handler steps that write nothing.                                       *)
(***************************************************************************)

\* What a handler is known to be.
LEMMA HandlerFacts ==
  ASSUME ServiceInv, NEW h \in Handler
  PROVE  /\ handler[h] \in HandlerState /\ build \in Row /\ History
         /\ Fresh(handler[h], build) /\ Shape(handler[h]) /\ Accountable(handler[h])
         /\ handler \in [Handler -> HandlerState]
BY DEF ServiceInv, TypeInv, TypeOK, CasInv, LogInv

LEMMA RangeEmpty == Range(<< >>) = {}
BY DEF Range

LEMMA LogReceive ==
  ASSUME ServiceInv, NEW h \in Handler, NEW r \in Request, Receive(h, r)
  PROVE  LogInv'
<1>1. PICK s : s = [Idle EXCEPT !.pc = IF r.kind = "api" THEN "loadBuild" ELSE "loadState",
                    !.kind = r.kind, !.entries = r.entries,
                    !.denied = r.denied, !.version = r.version]
  OBVIOUS
<1>2. /\ s.pc \in {"loadBuild", "loadState"} /\ s.entries = r.entries /\ s.version = r.version
      /\ s.cur = << >> /\ s.todo = << >> /\ ~s.single /\ s.accepted = {}
      /\ s.row = EmptyRow
  BY <1>1 DEF Idle
<1>3. s.row.lastTx = NoTx
  BY <1>2 DEF EmptyRow
<1>4. Dealt(s)
  BY <1>2 DEF Dealt, Started, Attempting
<1>5. Loop(s)
  BY <1>2, <1>3 DEF Loop, Started, Attempting, Working
<1>6. Owns(s, r)
  BY <1>2 DEF Owns
<1>7. Accountable(s)
  BY <1>4, <1>5, <1>6 DEF Accountable
<1>8. handler' = [handler EXCEPT ![h] = s] /\ UNCHANGED << build, importer >>
  BY <1>1 DEF Receive
<1> QED BY <1>7, <1>8, HandlerLog

LEMMA LogLoadState ==
  ASSUME ServiceInv, NEW h \in Handler, LoadState(h)
  PROVE  LogInv'
<1>1. PICK s : s = handler[h]
  OBVIOUS
<1>2. PICK n : n = IF s.entries = << >>
                   THEN [s EXCEPT !.pc = "next", !.version = build.version]
                   ELSE [s EXCEPT !.pc = "loadBuild", !.seen = build.version]
  OBVIOUS
<1>3. /\ s \in HandlerState /\ build \in Row /\ Accountable(s) /\ s.pc = "loadState"
      /\ handler \in [Handler -> HandlerState]
  BY <1>1, HandlerFacts DEF LoadState
<1>4. /\ n.entries = s.entries /\ n.cur = s.cur /\ n.todo = s.todo /\ n.row = s.row
      /\ n.single = s.single /\ n.accepted = s.accepted
  BY <1>2, <1>3 DEF HandlerState
<1>5. \/ n.pc = "loadBuild" /\ n.version = s.version
      \/ n.pc = "next" /\ n.version = build.version /\ s.entries = << >>
  BY <1>2, <1>3 DEF HandlerState
<1>6. Loop(s) /\ Dealt(s)
  BY <1>3 DEF Accountable, Loading
<1>7. s.cur = << >> /\ s.todo = << >> /\ ~s.single /\ s.row.lastTx = NoTx
  BY <1>3, <1>6 DEF Loop, Loading
<1>8. PICK r \in Request : Owns(s, r)
  BY <1>3 DEF Accountable, Loading
<1>9. Dealt(n)
  BY <1>4, <1>5, <1>6, <1>7, RangeEmpty DEF Dealt, Started, Attempting
<1>10. Loop(n)
  BY <1>4, <1>5, <1>7, RangeEmpty DEF Loop, Started, Attempting, Loading, Working, Rising
<1>11. Owns(n, r)
  <2>1. Left(n) = {}
    BY <1>4, <1>5, <1>7, RangeEmpty DEF Left, Attempting
  <2>2. build.version <= build.version
    BY <1>3 DEF Row
  <2> QED BY <1>3, <1>4, <1>5, <1>8, <2>1, <2>2 DEF Owns, Loading
<1>12. Accountable(n)
  BY <1>9, <1>10, <1>11 DEF Accountable
<1>13. handler' = [handler EXCEPT ![h] = n] /\ UNCHANGED << build, importer >>
  BY <1>1, <1>2, <1>3 DEF LoadState
<1> QED BY <1>12, <1>13, HandlerLog

LEMMA LogLoadBuild ==
  ASSUME ServiceInv, NEW h \in Handler, LoadBuild(h)
  PROVE  LogInv'
<1>1. PICK s : s = handler[h]
  OBVIOUS
<1>2. PICK b : b = IF s.kind = "api" THEN build ELSE [build EXCEPT !.version = s.seen]
  OBVIOUS
<1>3. PICK n : n = IF Shared(s)
                   THEN [s EXCEPT !.pc = "patch", !.row = b, !.cur = s.entries]
                   ELSE [s EXCEPT !.pc = "next", !.row = b, !.todo = s.entries, !.single = TRUE]
  OBVIOUS
<1>4. s \in HandlerState /\ build \in Row /\ Accountable(s) /\ History /\ s.pc = "loadBuild"
  BY <1>1, HandlerFacts DEF LoadBuild
<1>5. n.entries = s.entries /\ n.row = b /\ n.accepted = s.accepted /\ n.version = s.version
  BY <1>3, <1>4 DEF HandlerState
<1>6. Loop(s) /\ Dealt(s)
  BY <1>4 DEF Accountable, Loading
<1>7. s.cur = << >> /\ s.todo = << >> /\ ~s.single
  BY <1>4, <1>6 DEF Loop, Loading
<1>8. \/ n.pc = "patch" /\ n.cur = n.entries /\ n.todo = << >> /\ ~n.single
      \/ n.pc = "next" /\ n.cur = << >> /\ n.todo = n.entries /\ n.single
  BY <1>3, <1>4, <1>7 DEF HandlerState
<1>9. PICK r \in Request : Owns(s, r)
  BY <1>4 DEF Accountable, Loading
<1>10. s.version = r.version /\ s.entries = r.entries /\ Rising(s.entries)
  BY <1>4, <1>9, RequestIs DEF Owns, Loading
<1>11. Dealt(n)
  <2>1. Left(n) = Range(n.entries)
    BY <1>8, RangeEmpty DEF Left, Attempting
  <2>2. b.lastTx = build.lastTx
    BY <1>2, <1>4 DEF Row
  <2>3. build.lastTx \in Range(build.log) \cup {NoTx}
    <3>1. CASE build.log = << >>
      BY <1>4, <3>1 DEF History
    <3>2. CASE build.log # << >>
      <4>1. build.lastTx = LastTx(build.log) /\ build.log \in Seq(Edit)
        BY <1>4, <3>2 DEF History, Row
      <4> QED BY <3>2, <4>1, LastOfLog
    <3> QED BY <3>1, <3>2
  <2> QED BY <1>5, <1>6, <2>1, <2>2, <2>3 DEF Dealt
<1>12. Loop(n)
  <2>1. Rising(<< >>)
    BY DEF Rising
  <2>2. n.pc \in Working => n.pc = "patch"
    BY <1>8 DEF Working
  <2>3. n.pc \notin Loading
    BY <1>8 DEF Loading
  <2>4. Range(n.cur) \cup Range(n.todo) \subseteq Range(n.entries) /\ Rising(n.cur) /\ Rising(n.todo)
    BY <1>5, <1>8, <1>10, <2>1, RangeEmpty
  <2>5. ~n.single => n.todo = << >>
    BY <1>8
  <2>6. n.pc \in Working => n.todo = << >> /\ ~n.single /\ n.cur = n.entries
    BY <1>8, <2>2
  <2> QED BY <2>3, <2>4, <2>5, <2>6, RangeEmpty DEF Loop
<1>13. Owns(n, r)
  BY <1>5, <1>10 DEF Owns
<1>14. Accountable(n)
  BY <1>11, <1>12, <1>13 DEF Accountable
<1>15. handler' = [handler EXCEPT ![h] = n] /\ UNCHANGED << build, importer >>
  BY <1>1, <1>2, <1>3 DEF LoadBuild
<1> QED BY <1>14, <1>15, HandlerLog


\* Steps that only move on with the same transactions at hand.
LEMMA LogCompute ==
  ASSUME ServiceInv, NEW h \in Handler, ComputeUpdate(h) \/ ApplyAssets(h)
  PROVE  LogInv'
<1>1. PICK s : s = handler[h]
  OBVIOUS
<1>2. PICK pc \in Attempting : handler' = [handler EXCEPT ![h] = [s EXCEPT !.pc = pc]]
  <2>1. CASE ApplyAssets(h)
    BY <1>1, <2>1, HandlerFacts DEF ApplyAssets, Attempting
  <2>2. CASE ComputeUpdate(h)
    <3>1. PICK pc \in Attempting :
            pc = IF Range(s.cur) \cap AssetTx = {} THEN "commit" ELSE "assets"
      BY DEF Attempting
    <3>2. handler' = [handler EXCEPT ![h] = [s EXCEPT !.pc = pc]]
      BY <1>1, <2>2, <3>1, HandlerFacts DEF ComputeUpdate
    <3> QED BY <3>2
  <2> QED BY <2>1, <2>2
<1>3. PICK n : n = [s EXCEPT !.pc = pc]
  OBVIOUS
<1>4. s \in HandlerState /\ Accountable(s) /\ s.pc \in Attempting
  BY <1>1, HandlerFacts DEF ApplyAssets, ComputeUpdate, Attempting
<1>5. /\ n.entries = s.entries /\ n.row = s.row /\ n.accepted = s.accepted
      /\ n.version = s.version /\ n.cur = s.cur /\ n.todo = s.todo /\ n.single = s.single
      /\ n.pc \in Attempting
  BY <1>3, <1>4 DEF HandlerState
<1>6. Left(n) = Left(s)
  BY <1>4, <1>5 DEF Left
<1>7. \A pcs \in {"patch", "assets", "commit"} : pcs \in Started /\ pcs \in Working /\ pcs \notin Loading
  BY DEF Started, Attempting, Working, Loading
<1>8. n.pc \in Started /\ n.pc \in Working /\ n.pc \notin Loading /\ s.pc \in Started /\ s.pc \in Working
  BY <1>4, <1>5, <1>7 DEF Attempting
<1>9. Dealt(n) /\ Loop(n)
  BY <1>4, <1>5, <1>6, <1>8 DEF Accountable, Dealt, Loop
<1>10. \A r \in Request : Owns(s, r) => Owns(n, r)
  BY <1>5, <1>6, <1>8 DEF Owns
<1>11. Accountable(n)
  BY <1>4, <1>8, <1>9, <1>10 DEF Accountable
<1>12. handler' = [handler EXCEPT ![h] = n] /\ UNCHANGED << build, importer >>
  BY <1>2, <1>3 DEF ComputeUpdate, ApplyAssets
<1> QED BY <1>11, <1>12, HandlerLog

\* An attempt that is over, successful or not, leaves what is to be done.
LEMMA AttemptOver ==
  ASSUME NEW s \in HandlerState, NEW n, s.pc \in Working, Accountable(s), n.pc = "next",
         n.entries = s.entries, n.row = s.row, n.cur = s.cur, n.todo = s.todo,
         n.single = s.single, n.version = s.version,
         (Range(s.cur) \ Left(n)) \ Cyclic \subseteq Range(build.log),
         n.accepted \ Cyclic \subseteq Range(build.log)
  PROVE  Accountable(n)
<1>1. s.pc \in Started /\ s.pc \notin Loading
  BY DEF Started, Attempting, Working, Loading
<1>2. n.pc \in Started /\ n.pc \notin Loading /\ n.pc \notin Working
  BY DEF Started, Attempting, Loading, Working
<1>3. Left(n) = Range(n.todo) /\ Left(n) \subseteq Left(s) /\ Left(s) \subseteq Range(s.cur) \cup Range(s.todo)
  BY DEF Left, Attempting
<1>4. Dealt(n)
  BY <1>1, <1>2, <1>3 DEF Accountable, Dealt
<1>5. Loop(n)
  BY <1>1, <1>2 DEF Accountable, Loop
<1>6. \A r \in Request : Owns(s, r) => Owns(n, r)
  BY <1>2, <1>3 DEF Owns
<1> QED BY <1>1, <1>2, <1>4, <1>5, <1>6 DEF Accountable

\* What is at hand is not what is still to be done.
LEMMA AtHand ==
  ASSUME NEW s, s.pc \in Working, Loop(s)
  PROVE  Range(s.cur) \cap Range(s.todo) = {}
BY BeforeStrict DEF Loop

LEMMA LogRejectCyclic ==
  ASSUME ServiceInv, NEW h \in Handler, RejectCyclic(h)
  PROVE  LogInv'
<1>1. PICK s : s = handler[h]
  OBVIOUS
<1>2. PICK n : n = [s EXCEPT !.pc = "next", !.single = TRUE, !.todo = s.entries]
  OBVIOUS
<1>3. PICK m : m = [s EXCEPT !.pc = "next"]
  OBVIOUS
<1>4. s \in HandlerState /\ Accountable(s) /\ s.pc = "patch" /\ Range(s.cur) \cap Cyclic # {}
      /\ handler \in [Handler -> HandlerState] /\ build \in Row /\ UNCHANGED << build, importer >>
  BY <1>1, HandlerFacts DEF RejectCyclic
<1>5. Loop(s) /\ Dealt(s) /\ s.pc \in Working /\ s.pc \in Started /\ s.pc \in Attempting
  BY <1>4 DEF Accountable, Started, Attempting, Working
<1>6. \/ Answer(h, "error")
      \/ ~s.single /\ handler' = [handler EXCEPT ![h] = n]
      \/ s.single /\ handler' = [handler EXCEPT ![h] = m]
  BY <1>1, <1>2, <1>3, <1>4 DEF RejectCyclic
<1>7. CASE Answer(h, "error")
  <2>1. \A g \in Handler : Accountable(handler[g])'
    BY <1>4, <1>7, AnswerAccountable
  <2>2. History'
    BY <1>4, HandlerFacts, HistoryKept
  <2> QED BY <2>1, <2>2 DEF LogInv
<1>8. CASE ~s.single /\ handler' = [handler EXCEPT ![h] = n]
  <2>1. /\ n.entries = s.entries /\ n.row = s.row /\ n.accepted = s.accepted
        /\ n.version = s.version /\ n.cur = s.cur /\ n.todo = s.entries /\ n.single
        /\ n.pc = "next"
    BY <1>2, <1>4 DEF HandlerState
  <2>2. s.cur = s.entries /\ s.todo = << >>
    BY <1>5, <1>8 DEF Loop
  <2>3. Left(n) = Range(s.entries) /\ Left(s) = Range(s.entries)
    BY <1>4, <2>1, <2>2, RangeEmpty DEF Left, Attempting
  <2>4. n.pc \in Started /\ n.pc \notin Loading /\ n.pc \notin Working
    BY <2>1 DEF Started, Attempting, Loading, Working
  <2>5. Dealt(n) /\ Loop(n)
    BY <1>5, <2>1, <2>2, <2>3, <2>4 DEF Dealt, Loop
  <2>6. \A r \in Request : Owns(s, r) => Owns(n, r)
    BY <2>1, <2>3, <2>4 DEF Owns
  <2>7. Accountable(n)
    BY <1>4, <1>5, <2>4, <2>5, <2>6 DEF Accountable
  <2> QED BY <1>4, <1>8, <2>7, HandlerLog
<1>9. CASE s.single /\ handler' = [handler EXCEPT ![h] = m]
  <2>1. /\ m.entries = s.entries /\ m.row = s.row /\ m.accepted = s.accepted
        /\ m.version = s.version /\ m.cur = s.cur /\ m.todo = s.todo /\ m.single = s.single
        /\ m.pc = "next"
    BY <1>3, <1>4 DEF HandlerState
  <2>2. PICK e \in Tx : s.cur = << e >>
    BY <1>5, <1>9 DEF Loop
  <2>3. Range(s.cur) = {e}
    BY <2>2 DEF Range
  <2>4. Range(s.cur) \subseteq Cyclic
    BY <1>4, <2>3
  <2>5. Accountable(m)
    BY <1>4, <1>5, <2>1, <2>4, AttemptOver DEF Dealt
  <2> QED BY <1>4, <1>9, <2>5, HandlerLog
<1> QED BY <1>6, <1>7, <1>8, <1>9

LEMMA LogUpdatePreview ==
  ASSUME ServiceInv, NEW h \in Handler, UpdatePreview(h)
  PROVE  LogInv'
<1>1. PICK s : s = handler[h]
  OBVIOUS
<1>2. PICK n : n = Saved(s)
  OBVIOUS
<1>3. s \in HandlerState /\ Accountable(s) /\ s.pc = "preview"
  BY <1>1, HandlerFacts DEF UpdatePreview
<1>4. /\ n.entries = s.entries /\ n.row = s.row /\ n.accepted = s.accepted \cup Range(s.cur)
      /\ n.version = s.version /\ n.cur = s.cur /\ n.todo = s.todo /\ n.single = s.single
      /\ n.pc = "next"
  BY <1>2, <1>3 DEF HandlerState, Saved
<1>5. Loop(s) /\ Dealt(s) /\ s.pc \in Working /\ s.pc \in Started
  BY <1>3 DEF Accountable, Started, Attempting, Working
<1>6. Left(s) = Range(s.todo)
  BY <1>3 DEF Left, Attempting
<1>7. Range(s.cur) \ Cyclic \subseteq Range(build.log)
  <2>1. Range(s.cur) \subseteq Range(s.entries) \ Left(s)
    BY <1>5, <1>6, AtHand DEF Loop
  <2> QED BY <1>5, <2>1 DEF Dealt
<1>8. n.accepted \ Cyclic \subseteq Range(build.log)
  BY <1>4, <1>5, <1>7 DEF Dealt
<1>9. Accountable(n)
  BY <1>3, <1>4, <1>5, <1>7, <1>8, AttemptOver
<1>10. handler' = [handler EXCEPT ![h] = n] /\ UNCHANGED << build, importer >>
  BY <1>1, <1>2 DEF UpdatePreview
<1> QED BY <1>9, <1>10, HandlerLog


\* The retry of what is saved: the last transaction of the attempt is the
\* last one the build held when it was read, so those before it are saved.
LEMMA LogAlreadySaved ==
  ASSUME ServiceInv, NEW h \in Handler, AlreadySaved(h)
  PROVE  LogInv'
<1>1. PICK s : s = handler[h]
  OBVIOUS
<1>2. PICK n : n = [Saved(s) EXCEPT !.version = s.row.version]
  OBVIOUS
<1>3. PICK e : e = LastTx(s.cur)
  OBVIOUS
<1>4. /\ s \in HandlerState /\ Accountable(s) /\ s.pc = "patch" /\ e = s.row.lastTx
      /\ build \in Row /\ History /\ Fresh(s, build) /\ s.cur # << >>
  BY <1>1, <1>3, HandlerFacts DEF AlreadySaved, Shape, Working
<1>5. /\ n.entries = s.entries /\ n.row = s.row /\ n.accepted = s.accepted \cup Range(s.cur)
      /\ n.version = s.row.version /\ n.cur = s.cur /\ n.todo = s.todo /\ n.single = s.single
      /\ n.pc = "next"
  BY <1>2, <1>4 DEF HandlerState, Saved
<1>6. Loop(s) /\ Dealt(s) /\ s.pc \in Working /\ s.pc \in Started
  BY <1>4 DEF Accountable, Started, Attempting, Working
<1>7. /\ s.cur \in Seq(Tx) /\ e \in Range(s.cur) /\ e \in Tx /\ Len(s.cur) \in DOMAIN s.cur
      /\ s.cur[Len(s.cur)] = e
  BY <1>3, <1>4, LastOfLog, LastTxType DEF HandlerState
<1>8. e \in Range(build.log)
  BY <1>4, <1>6, <1>7, ConstantsAssumption DEF Dealt
<1>9. Range(s.cur) \ Cyclic \subseteq Range(build.log)
  <2> SUFFICES ASSUME NEW x \in Range(s.cur), x \notin Cyclic PROVE x \in Range(build.log)
    OBVIOUS
  <2>1. PICK i \in DOMAIN s.cur : s.cur[i] = x
    BY DEF Range
  <2>2. i = Len(s.cur) \/ i < Len(s.cur)
    BY <1>7
  <2>3. x = e \/ Before(x, e)
    BY <1>6, <1>7, <2>1, <2>2 DEF Loop, Rising
  <2> QED BY <1>4, <1>8, <2>3 DEF History
<1>10. n.accepted \ Cyclic \subseteq Range(build.log)
  BY <1>5, <1>6, <1>9 DEF Dealt
<1>11. n.pc \in Started /\ n.pc \notin Loading /\ n.pc \notin Working
  BY <1>5 DEF Started, Attempting, Loading, Working
<1>12. Left(n) = Range(s.todo) /\ Left(s) = Range(s.cur) \cup Range(s.todo)
  BY <1>4, <1>5 DEF Left, Attempting
<1>13. Dealt(n)
  BY <1>5, <1>6, <1>9, <1>10, <1>12 DEF Dealt
<1>14. Loop(n)
  BY <1>5, <1>6, <1>11 DEF Loop
<1>15. PICK r \in Request : Owns(s, r)
  BY <1>4, <1>6 DEF Accountable
<1>16. Owns(n, r)
  <2>1. s.entries = r.entries /\ e \in Range(r.entries)
    BY <1>6, <1>7, <1>15 DEF Owns, Loop
  <2>2. r.version < build.version
    BY <1>4, <1>8, <2>1 DEF History
  <2>3. s.row.version <= build.version /\ (s.row.version = build.version => s.row = build)
    BY <1>4, <1>6 DEF Fresh, HasRow
  <2>4. ASSUME s.row.version = build.version, NEW y \in Left(n), NEW x \in Range(build.log)
        PROVE  ~Precedes(y, x)
    <3>1. build.lastTx = e /\ e # NoTx
      BY <1>4, <1>7, <2>3, <2>4, ConstantsAssumption
    <3>2. build.log # << >> /\ LastTx(build.log) = e
      BY <1>4, <3>1 DEF History
    <3>3. Before(e, y)
      BY <1>6, <1>7, <1>12 DEF Loop
    <3> QED BY <1>4, <3>2, <3>3, AfterLast DEF History, Row
  <2> QED BY <1>5, <1>11, <2>1, <2>2, <2>3, <2>4 DEF Owns
<1>17. Accountable(n)
  BY <1>13, <1>14, <1>16 DEF Accountable
<1>18. handler' = [handler EXCEPT ![h] = n] /\ UNCHANGED << build, importer >>
  BY <1>1, <1>2 DEF AlreadySaved
<1> QED BY <1>17, <1>18, HandlerLog

LEMMA HeadAndTail ==
  ASSUME NEW S, NEW txs \in Seq(S), txs # << >>
  PROVE  /\ Range(txs) = {Head(txs)} \cup Range(Tail(txs))
         /\ Rising(txs) => Rising(Tail(txs)) /\ \A y \in Range(Tail(txs)) : Before(Head(txs), y)
<1>1. /\ Tail(txs) \in Seq(S) /\ Len(Tail(txs)) = Len(txs) - 1
      /\ DOMAIN txs = 1 .. Len(txs) /\ DOMAIN Tail(txs) = 1 .. Len(txs) - 1
      /\ Len(txs) \in Nat /\ Len(txs) >= 1 /\ Head(txs) = txs[1]
  <2>1. /\ Tail(txs) \in Seq(S) /\ Len(Tail(txs)) = Len(txs) - 1 /\ Head(txs) = txs[1]
        /\ DOMAIN txs = 1 .. Len(txs) /\ Len(txs) \in Nat
    OBVIOUS
  <2>2. Len(txs) # 0
    OBVIOUS
  <2>3. DOMAIN Tail(txs) = 1 .. Len(Tail(txs))
    BY <2>1
  <2> QED BY <2>1, <2>2, <2>3
<1>2. \A i \in 1 .. Len(txs) - 1 : Tail(txs)[i] = txs[i + 1] /\ i + 1 \in 1 .. Len(txs)
  OBVIOUS
<1>3. \A j \in 1 .. Len(txs) : j = 1 \/ (j - 1 \in 1 .. Len(txs) - 1 /\ Tail(txs)[j - 1] = txs[j])
  OBVIOUS
<1>4. Range(txs) \subseteq {Head(txs)} \cup Range(Tail(txs))
  <2> SUFFICES ASSUME NEW j \in 1 .. Len(txs) PROVE txs[j] \in {Head(txs)} \cup Range(Tail(txs))
    BY <1>1 DEF Range
  <2>1. CASE j = 1
    BY <1>1, <2>1
  <2>2. CASE j # 1
    <3>1. j - 1 \in DOMAIN Tail(txs) /\ Tail(txs)[j - 1] = txs[j]
      BY <1>1, <1>3, <2>2
    <3> QED BY <3>1 DEF Range
  <2> QED BY <2>1, <2>2
<1>5. Head(txs) \in Range(txs)
  BY <1>1 DEF Range
<1>6. Range(Tail(txs)) \subseteq Range(txs)
  BY <1>1, <1>2 DEF Range
<1>7. ASSUME Rising(txs) PROVE Rising(Tail(txs))
  BY <1>1, <1>2, <1>7 DEF Rising
<1>8. ASSUME Rising(txs), NEW y \in Range(Tail(txs)) PROVE Before(Head(txs), y)
  <2>1. PICK i \in 1 .. Len(txs) - 1 : Tail(txs)[i] = y
    BY <1>1 DEF Range
  <2>2. txs[i + 1] = y /\ i + 1 \in 1 .. Len(txs) /\ 1 \in 1 .. Len(txs) /\ 1 < i + 1
    BY <1>1, <1>2, <2>1
  <2> QED BY <1>1, <1>8, <2>2 DEF Rising
<1> QED BY <1>4, <1>5, <1>6, <1>7, <1>8

LEMMA LogNextEntry ==
  ASSUME ServiceInv, NEW h \in Handler, NextEntry(h)
  PROVE  LogInv'
<1>1. PICK s : s = handler[h]
  OBVIOUS
<1>2. PICK n : n = [s EXCEPT !.pc = "patch", !.cur = << Head(s.todo) >>, !.todo = Tail(s.todo)]
  OBVIOUS
<1>3. /\ s \in HandlerState /\ Accountable(s) /\ s.pc = "next" /\ s.todo # << >>
      /\ handler \in [Handler -> HandlerState]
  BY <1>1, HandlerFacts DEF NextEntry
<1>4. PICK e : e = Head(s.todo)
  OBVIOUS
<1>5. /\ n.entries = s.entries /\ n.row = s.row /\ n.accepted = s.accepted
      /\ n.version = s.version /\ n.cur = << e >> /\ n.todo = Tail(s.todo)
      /\ n.single = s.single /\ n.pc = "patch"
  BY <1>2, <1>3, <1>4 DEF HandlerState
<1>6. Loop(s) /\ Dealt(s) /\ s.pc \in Started
  BY <1>3 DEF Accountable, Started, Attempting
<1>7. s.single /\ s.todo \in Seq(Tx) /\ Rising(s.todo) /\ Range(s.todo) \subseteq Range(s.entries)
  BY <1>3, <1>6 DEF Loop, HandlerState
<1>8. /\ Range(s.todo) = {e} \cup Range(n.todo) /\ Rising(n.todo)
      /\ \A y \in Range(n.todo) : Before(e, y)
  BY <1>3, <1>4, <1>5, <1>7, HeadAndTail
<1>9. Range(n.cur) = {e} /\ Rising(n.cur) /\ e \in Tx
  <2>1. Range(n.cur) = {e} /\ Rising(n.cur)
    BY <1>5 DEF Range, Rising
  <2> QED BY <1>3, <1>4, <1>7, <2>1
<1>10. n.pc \in Started /\ n.pc \notin Loading /\ n.pc \in Working
  BY <1>5 DEF Started, Attempting, Loading, Working
<1>11. Left(n) = Range(s.todo) /\ Left(s) = Range(s.todo)
  BY <1>3, <1>5, <1>8, <1>9 DEF Left, Attempting
<1>12. Dealt(n)
  BY <1>5, <1>6, <1>11 DEF Dealt
<1>13. Loop(n)
  <2>1. Range(n.cur) \cup Range(n.todo) \subseteq Range(n.entries)
    BY <1>5, <1>7, <1>8, <1>9
  <2>2. \A x \in Range(n.cur), y \in Range(n.todo) : Before(x, y)
    BY <1>8, <1>9
  <2>3. n.single /\ \E x \in Tx : n.cur = << x >>
    BY <1>5, <1>7, <1>9
  <2> QED BY <1>8, <1>9, <1>10, <2>1, <2>2, <2>3 DEF Loop
<1>14. \A r \in Request : Owns(s, r) => Owns(n, r)
  BY <1>5, <1>10, <1>11 DEF Owns
<1>15. Accountable(n)
  BY <1>3, <1>6, <1>12, <1>13, <1>14 DEF Accountable
<1>16. handler' = [handler EXCEPT ![h] = n] /\ UNCHANGED << build, importer >>
  BY <1>1, <1>2, <1>3 DEF NextEntry
<1> QED BY <1>15, <1>16, HandlerLog

LEMMA LogAnswer ==
  ASSUME ServiceInv, NEW h \in Handler,
         VersionMismatch(h) \/ LoseRace(h) \/ Finish(h) \/ Refuse(h)
  PROVE  LogInv'
<1>1. \E status : Answer(h, status)
  BY DEF VersionMismatch, LoseRace, Finish, Refuse
<1>2. UNCHANGED << build, importer >> /\ build \in Row
  BY HandlerFacts DEF VersionMismatch, LoseRace, Finish, Refuse
<1>3. \A g \in Handler : Accountable(handler[g])'
  BY <1>1, <1>2, AnswerAccountable
<1>4. History'
  BY <1>2, HandlerFacts, HistoryKept
<1> QED BY <1>3, <1>4 DEF LogInv

LEMMA LogEnd ==
  ASSUME ServiceInv, NEW h \in Handler, End(h)
  PROVE  LogInv'
<1>1. Idle.pc = "idle" /\ Idle.accepted = {}
  BY DEF Idle
<1>2. Accountable(Idle)
  BY <1>1 DEF Accountable, Dealt, Loading, Started, Attempting
<1> QED BY <1>2, HandlerLog DEF End


(***************************************************************************)
(* Steps that write the row.                                               *)
(***************************************************************************)

\* What is put behind an ordered log must be in order and come before nothing
\* that is in the log.
LEMMA OrderedConcat ==
  ASSUME NEW log \in Seq(Edit), NEW new \in Seq(Edit), Ordered(log), Rising(new),
         \A y \in Range(new), x \in Range(log) : ~Precedes(y, x)
  PROVE  Ordered(log \o new)
<1> PICK both : both = log \o new
  OBVIOUS
<1>1. /\ both \in Seq(Edit) /\ DOMAIN both = 1 .. Len(log) + Len(new)
      /\ DOMAIN log = 1 .. Len(log) /\ DOMAIN new = 1 .. Len(new)
      /\ Len(log) \in Nat /\ Len(new) \in Nat
  OBVIOUS
<1>2. \A i \in DOMAIN both :
        \/ i \in DOMAIN log /\ both[i] = log[i]
        \/ i > Len(log) /\ i - Len(log) \in DOMAIN new /\ both[i] = new[i - Len(log)]
  OBVIOUS
<1> SUFFICES ASSUME NEW i \in DOMAIN both, NEW j \in DOMAIN both, i < j
             PROVE  ~Precedes(both[j], both[i])
  BY DEF Ordered
<1>3. CASE j \in DOMAIN log
  <2>1. i \in DOMAIN log
    BY <1>1, <1>3
  <2>2. both[i] = log[i] /\ both[j] = log[j]
    BY <1>1, <1>2, <1>3, <2>1
  <2> QED BY <1>3, <2>1, <2>2 DEF Ordered
<1>4. CASE j \notin DOMAIN log /\ i \in DOMAIN log
  <2>1. both[i] \in Range(log) /\ both[j] \in Range(new)
    BY <1>1, <1>2, <1>4 DEF Range
  <2> QED BY <2>1
<1>5. CASE j \notin DOMAIN log /\ i \notin DOMAIN log
  <2>1. PICK k \in DOMAIN new : k = i - Len(log) /\ both[i] = new[k]
    BY <1>2, <1>5
  <2>2. PICK l \in DOMAIN new : l = j - Len(log) /\ both[j] = new[l]
    BY <1>2, <1>5
  <2>3. k < l
    BY <1>1, <2>1, <2>2
  <2>4. Before(new[k], new[l])
    BY <2>3 DEF Rising
  <2> QED BY <2>1, <2>2, <2>4, BeforeStrict, BeforeTransitive DEF Precedes
<1> QED BY <1>3, <1>4, <1>5

\* A handler whose version is the stored one has nothing left that is saved,
\* or that comes before what is saved.
LEMMA NothingBehind ==
  ASSUME ServiceInv, NEW h \in Handler, handler[h].pc \in Started,
         handler[h].version = build.version, NEW r \in Request, Owns(handler[h], r),
         NEW y \in Left(handler[h])
  PROVE  r.version <= build.version /\ \A x \in Range(build.log) : ~Precedes(y, x)
<1>1. PICK s : s = handler[h]
  OBVIOUS
<1>2. s \in HandlerState /\ build \in Row /\ History /\ Accountable(s)
  BY <1>1, HandlerFacts
<1>3. r.version \in Nat /\ build.version \in Nat
  BY <1>2, RequestIs DEF Row
<1>4. CASE s.version # r.version
  BY <1>1, <1>3, <1>4 DEF Owns
<1>5. CASE s.version = r.version
  <2>1. Range(r.entries) \cap Range(build.log) = {}
    BY <1>1, <1>2, <1>3, <1>5 DEF History
  <2>2. Loop(s) /\ s.entries = r.entries
    BY <1>1, <1>2 DEF Accountable, Owns
  <2>3. y \in Range(r.entries)
    BY <1>1, <2>2 DEF Loop, Left
  <2>4. \A x \in Range(build.log) : ~Precedes(y, x)
    BY <2>1, <2>3, BeforeIn DEF Precedes
  <2> QED BY <1>1, <1>3, <1>5, <2>4
<1> QED BY <1>1, <1>4, <1>5

\* The row a handler writes puts its attempt, all of it new, behind the log.
LEMMA Written ==
  ASSUME ServiceInv, NEW h \in Handler, handler[h].pc = "commit",
         build.version = handler[h].version, build' = NewRow(handler[h]),
         UNCHANGED importer
  PROVE  /\ History'
         /\ build' \in Row /\ Grows(build, build') /\ build'.version = build.version + 1
         /\ build'.log = build.log \o handler[h].cur
         /\ Range(handler[h].cur) \cap Range(build.log) = {}
         /\ build'.lastTx \in Range(build'.log)
<1>1. PICK s : s = handler[h]
  OBVIOUS
<1>2. /\ s \in HandlerState /\ Accountable(s) /\ build \in Row /\ History /\ Fresh(s, build)
      /\ s.cur # << >> /\ s.pc = "commit" /\ s.version = build.version
  BY <1>1, HandlerFacts DEF Shape, Working
<1>3. Loop(s) /\ Dealt(s) /\ s.pc \in Working /\ s.pc \in Started
  BY <1>2 DEF Accountable, Started, Attempting, Working
<1>4. PICK r \in Request : Owns(s, r)
  BY <1>2, <1>3 DEF Accountable
<1>5. s.row = build
  BY <1>2, <1>3 DEF Fresh, HasRow
<1>6. build' \in Row /\ Grows(build, build')
  BY <1>1, <1>2, CommitGrows DEF ServiceInv
<1>7. /\ build'.version = build.version + 1 /\ build'.log = build.log \o s.cur
      /\ build'.lastTx = LastTx(s.cur)
  BY <1>1, <1>2, <1>5 DEF NewRow
<1>8. build.log \in Seq(Edit) /\ s.cur \in Seq(Edit) /\ s.cur \in Seq(Tx) /\ build.version \in Nat
  BY <1>2 DEF Row, HandlerState, Edit
<1>9. Range(build'.log) = Range(build.log) \cup Range(s.cur)
  BY <1>7, <1>8, RangeConcat
<1>10. Left(s) = Range(s.cur) \cup Range(s.todo)
  BY <1>2 DEF Left, Attempting
<1>11. \A y \in Range(s.cur) : \A x \in Range(build.log) : ~Precedes(y, x)
  BY <1>1, <1>2, <1>3, <1>4, <1>10, NothingBehind
<1>12. r.version <= build.version
  <2>1. LastTx(s.cur) \in Range(s.cur)
    BY <1>2, <1>8, LastOfLog
  <2> QED BY <1>1, <1>2, <1>3, <1>4, <1>10, <2>1, NothingBehind
<1>13. Range(s.cur) \cap Range(build.log) = {}
  BY <1>11 DEF Precedes
<1>14. LastTx(s.cur) \in Range(build'.log)
  BY <1>2, <1>8, <1>9, LastOfLog
<1>15. Ordered(build'.log)
  BY <1>2, <1>3, <1>7, <1>8, <1>11, OrderedConcat DEF History, Loop
<1>16. build'.lastTx = IF build'.log = << >> THEN NoTx ELSE LastTx(build'.log)
  <2>1. \A a, b \in Seq(Edit) : b # << >> => a \o b # << >> /\ (a \o b)[Len(a \o b)] = b[Len(b)]
    OBVIOUS
  <2>2. build'.log # << >> /\ LastTx(build'.log) = LastTx(s.cur)
    BY <1>2, <1>7, <1>8, <2>1 DEF LastTx
  <2> QED BY <1>7, <2>2
<1>17. ASSUME NEW q \in Request, Range(q.entries) \cap Range(build'.log) # {}
       PROVE  q.version < build'.version
  <2>1. q.version \in Nat
    BY RequestIs
  <2>2. CASE Range(q.entries) \cap Range(build.log) # {}
    <3>1. q.version < build.version
      BY <1>2, <2>2 DEF History
    <3> QED BY <1>7, <1>8, <2>1, <3>1
  <2>3. CASE Range(q.entries) \cap Range(s.cur) # {}
    <3>1. Range(q.entries) \cap Range(r.entries) # {}
      BY <1>3, <1>4, <2>3 DEF Loop, Owns
    <3>2. q = r
      BY <3>1, RetryAssumption
    <3> QED BY <1>7, <1>8, <1>12, <2>1, <3>2
  <2> QED BY <1>9, <1>17, <2>2, <2>3
<1>18. ASSUME NEW x, NEW y, Before(x, y), y \in Range(build'.log), x \notin Cyclic
       PROVE  x \in Range(build'.log)
  <2>1. CASE y \in Range(build.log)
    BY <1>2, <1>9, <1>18, <2>1 DEF History
  <2>2. CASE y \in Range(s.cur)
    <3>1. x \in Range(s.entries)
      <4>1. y \in Range(r.entries) /\ s.entries = r.entries
        BY <1>3, <1>4, <2>2 DEF Loop, Owns
      <4> QED BY <1>18, <4>1, BeforeIn
    <3>2. x \in Range(s.cur) \cup Range(s.todo) \cup Range(build.log)
      BY <1>3, <1>10, <1>18, <3>1 DEF Dealt
    <3>3. x \notin Range(s.todo)
      BY <1>3, <1>18, <2>2, BeforeTransitive, BeforeStrict DEF Loop
    <3> QED BY <1>9, <3>2, <3>3
  <2> QED BY <1>9, <1>18, <2>1, <2>2
<1>19. \A i \in Importer : importer'[i].pc \in {"idle", "commit"} => i \notin Range(build'.log)
  <2>1. Range(s.cur) \cap Importer = {}
    <3>1. Range(s.cur) \subseteq Tx
      BY <1>8 DEF Range
    <3> QED BY <3>1, ConstantsAssumption
  <2> QED BY <1>2, <1>9, <2>1 DEF History
<1>20. History'
  BY <1>15, <1>16, <1>17, <1>18, <1>19 DEF History
<1> QED BY <1>1, <1>6, <1>7, <1>13, <1>14, <1>20

LEMMA LogCommit ==
  ASSUME ServiceInv, NEW h \in Handler, Commit(h)
  PROVE  LogInv'
<1>1. PICK s : s = handler[h]
  OBVIOUS
<1>2. PICK row : row = NewRow(s)
  OBVIOUS
<1>3. PICK v : v = s.version + 1
  OBVIOUS
<1>4. PICK t : t = [s EXCEPT !.row = row, !.version = v]
  OBVIOUS
<1>5. PICK n : handler' = [handler EXCEPT ![h] = n] /\ (n = Saved(t) \/ n = [t EXCEPT !.pc = "preview"])
  BY <1>1, <1>2, <1>3, <1>4 DEF Commit
<1>6. /\ s \in HandlerState /\ Accountable(s) /\ build \in Row /\ s.pc = "commit"
      /\ build.version = s.version /\ build' = row /\ UNCHANGED importer
  BY <1>1, <1>2, HandlerFacts DEF Commit
<1>7. Loop(s) /\ Dealt(s) /\ s.pc \in Working /\ s.pc \in Started
  BY <1>6 DEF Accountable, Started, Attempting, Working
<1>8. /\ History' /\ build' \in Row /\ Grows(build, build') /\ build'.version = v
      /\ build'.log = build.log \o s.cur /\ row.lastTx \in Range(build'.log)
  BY <1>1, <1>2, <1>3, <1>6, Written
<1>9. build.log \in Seq(Edit) /\ s.cur \in Seq(Edit) /\ build.version \in Nat
  BY <1>6 DEF Row, HandlerState, Edit
<1>10. Range(build'.log) = Range(build.log) \cup Range(s.cur)
  BY <1>8, <1>9, RangeConcat
<1>11. /\ t.entries = s.entries /\ t.row = row /\ t.accepted = s.accepted
       /\ t.version = v /\ t.cur = s.cur /\ t.todo = s.todo /\ t.single = s.single
       /\ t = [t EXCEPT !.pc = "commit"]
  BY <1>4, <1>6 DEF HandlerState
<1>12. /\ n.entries = s.entries /\ n.row = row /\ n.version = v /\ n.cur = s.cur
       /\ n.todo = s.todo /\ n.single = s.single
       /\ n.pc \in {"next", "preview"} /\ n.accepted \subseteq s.accepted \cup Range(s.cur)
  BY <1>4, <1>5, <1>6, <1>11 DEF HandlerState, Saved
<1>13. Left(n) = Range(s.todo) /\ Left(s) = Range(s.cur) \cup Range(s.todo)
  BY <1>6, <1>12 DEF Left, Attempting
<1>14. n.pc \in Started /\ n.pc \notin Loading
  BY <1>12 DEF Started, Loading
<1>15. Dealt(n)'
  BY <1>7, <1>8, <1>10, <1>12, <1>13 DEF Dealt
<1>16. Loop(n)
  BY <1>7, <1>12, <1>14 DEF Loop
<1>17. PICK r \in Request : Owns(s, r)
  BY <1>6, <1>7 DEF Accountable
<1>18. ASSUME NEW y \in Range(s.todo)
       PROVE  r.version < build'.version /\ \A x \in Range(build'.log) : ~Precedes(y, x)
  <2>1. r.version <= build.version /\ \A x \in Range(build.log) : ~Precedes(y, x)
    BY <1>1, <1>6, <1>7, <1>13, <1>17, NothingBehind
  <2>2. r.version < v
    BY <1>3, <1>6, <1>9, <2>1, RequestIs
  <2>3. \A x \in Range(s.cur) : ~Precedes(y, x)
    BY <1>7, BeforeStrict, BeforeTransitive DEF Loop, Precedes
  <2> QED BY <1>8, <1>10, <2>1, <2>2, <2>3
<1>19. Owns(n, r)'
  <2>1. n.version <= build'.version
    BY <1>3, <1>6, <1>8, <1>9, <1>12
  <2>2. n.entries = r.entries
    BY <1>12, <1>17 DEF Owns
  <2> QED BY <1>13, <1>14, <1>18, <2>1, <2>2 DEF Owns
<1>20. Accountable(n)'
  BY <1>15, <1>16, <1>19 DEF Accountable
<1>21. \A g \in Handler : Accountable(handler[g])'
  BY <1>5, <1>8, <1>20, AccountableHandler
<1> QED BY <1>8, <1>21 DEF LogInv


\* A failed call may have written the row before the handler answers.
LEMMA LogFail ==
  ASSUME ServiceInv, NEW h \in Handler, Fail(h)
  PROVE  LogInv'
<1>1. UNCHANGED importer /\ \E status : Answer(h, status)
  BY DEF Fail
<1>2. CASE build' = build
  <2>1. \A g \in Handler : Accountable(handler[g])'
    BY <1>1, <1>2, HandlerFacts, AnswerAccountable
  <2>2. History'
    BY <1>1, <1>2, HandlerFacts, HistoryKept
  <2> QED BY <2>1, <2>2 DEF LogInv
<1>3. CASE build' # build
  <2>1. handler[h].pc = "commit" /\ build.version = handler[h].version /\ build' = NewRow(handler[h])
    BY <1>3 DEF Fail
  <2>2. History' /\ build' \in Row /\ Grows(build, build')
    BY <1>1, <2>1, Written
  <2>3. \A g \in Handler : Accountable(handler[g])'
    BY <1>1, <2>2, AnswerAccountable
  <2> QED BY <2>2, <2>3 DEF LogInv
<1> QED BY <1>2, <1>3

\* An import puts itself behind the log.
LEMMA Imported ==
  ASSUME ServiceInv, NEW i \in Importer, ImportCommit(i)
  PROVE  /\ History' /\ build'.log = build.log \o << i >> /\ i \notin Range(build.log)
<1>1. /\ build \in Row /\ importer \in [Importer -> ImporterState] /\ History
      /\ << i >> \in Seq(Edit) /\ i \in Edit
  BY DEF ServiceInv, TypeInv, TypeOK, LogInv, Edit
<1>2. build.log \in Seq(Edit) /\ build.version \in Nat
  BY <1>1 DEF Row
<1>3. /\ build'.log = build.log \o << i >> /\ build'.lastTx = i
      /\ build'.version = build.version + 1
  BY <1>1, <1>2 DEF ImportCommit
<1>4. i \notin Range(build.log) /\ i \notin Tx /\ importer[i].pc = "commit"
  BY <1>1, ConstantsAssumption DEF History, ImportCommit
<1>5. Range(<< i >>) = {i} /\ Rising(<< i >>)
  BY DEF Range, Rising
<1>6. Range(build'.log) = Range(build.log) \cup {i}
  <2>1. build.log \in Seq(Edit) /\ i \in Edit
    BY <1>1, <1>2
  <2>2. Range(build.log \o << i >>) = Range(build.log) \cup {i}
    BY <2>1, RangeConcatOne
  <2> QED BY <1>3, <2>2
<1>7. \A x : ~Before(i, x) /\ ~Before(x, i)
  BY <1>4, BeforeTx
<1>8. Ordered(build'.log)
  <2>1. \A y \in Range(<< i >>), x \in Range(build.log) : ~Precedes(y, x)
    BY <1>4, <1>5, <1>7 DEF Precedes
  <2> QED BY <1>1, <1>2, <1>3, <1>5, <2>1, OrderedConcat DEF History
<1>9. build'.lastTx = IF build'.log = << >> THEN NoTx ELSE LastTx(build'.log)
  <2>1. \A a, b \in Seq(Edit) : b # << >> => a \o b # << >> /\ (a \o b)[Len(a \o b)] = b[Len(b)]
    OBVIOUS
  <2>2. << i >> # << >> /\ << i >>[Len(<< i >>)] = i
    OBVIOUS
  <2>3. build'.log # << >> /\ LastTx(build'.log) = i
    BY <1>1, <1>2, <1>3, <2>1, <2>2 DEF LastTx
  <2> QED BY <1>3, <2>3
<1>10. ASSUME NEW q \in Request, Range(q.entries) \cap Range(build'.log) # {}
       PROVE  q.version < build'.version
  <2>1. Range(q.entries) \cap Range(build.log) # {}
    BY <1>4, <1>6, <1>10, RequestIs
  <2>2. q.version < build.version /\ q.version \in Nat
    BY <1>1, <2>1, RequestIs DEF History
  <2> QED BY <1>2, <1>3, <2>2
<1>11. ASSUME NEW x, NEW y, Before(x, y), y \in Range(build'.log), x \notin Cyclic
       PROVE  x \in Range(build'.log)
  BY <1>1, <1>6, <1>7, <1>11 DEF History
<1>12. \A j \in Importer : importer'[j].pc \in {"idle", "commit"} => j \notin Range(build'.log)
  <2> TAKE j \in Importer
  <2>1. CASE j = i
    BY <1>1, <2>1 DEF ImportCommit, ImporterState
  <2>2. CASE j # i
    BY <1>1, <1>6, <2>2 DEF ImportCommit, History
  <2> QED BY <2>1, <2>2
<1>13. History'
  BY <1>8, <1>9, <1>10, <1>11, <1>12 DEF History
<1> QED BY <1>3, <1>4, <1>13

LEMMA LogImport ==
  ASSUME ServiceInv, NEW i \in Importer, ImportStep(i)
  PROVE  LogInv'
<1>1. /\ handler' = handler /\ build \in Row /\ build' \in Row
      /\ build' = build \/ Grows(build, build')
  BY TypeImport, CasImport DEF ServiceInv, TypeInv, TypeOK, ImportStep, ImportLoad,
     ImportCommit, ImportReset, ImportDelete, ImportInsert, ImportPreview, ImportAbort
<1>2. \A g \in Handler : Accountable(handler[g])'
  <2> TAKE g \in Handler
  <2>1. PICK k : k = handler[g]
    OBVIOUS
  <2>2. Accountable(k)'
    BY <1>1, <2>1, HandlerFacts, AccountableKept
  <2> QED BY <1>1, <2>1, <2>2
<1>3. History'
  <2>1. CASE ImportCommit(i)
    BY <2>1, Imported
  <2>2. CASE ~ImportCommit(i)
    <3>1. build' = build
      BY <2>2 DEF ImportStep, ImportLoad, ImportReset, ImportDelete, ImportInsert,
         ImportPreview, ImportAbort
    <3>2. importer \in [Importer -> ImporterState] /\ History
      BY DEF ServiceInv, TypeInv, TypeOK, LogInv
    <3>3. \A j \in Importer \ {i} : importer'[j] = importer[j]
      BY <2>2, <3>2 DEF ImportStep, ImportLoad, ImportReset, ImportDelete, ImportInsert,
         ImportPreview, ImportAbort
    <3>4. importer'[i].pc \in {"idle", "commit"} => importer[i].pc \in {"idle", "commit"}
      BY <2>2, <3>2 DEF ImportStep, ImportLoad, ImportReset, ImportDelete, ImportInsert,
         ImportPreview, ImportAbort, ImporterState
    <3> QED BY <3>1, <3>2, <3>3, <3>4, HistoryKept
  <2> QED BY <2>1, <2>2
<1> QED BY <1>2, <1>3 DEF LogInv

(***************************************************************************)
(* The invariant of the service.                                           *)
(***************************************************************************)

LEMMA LogInit == Init => LogInv
<1> SUFFICES ASSUME Init PROVE LogInv
  OBVIOUS
<1>1. build.log = << >> /\ build.lastTx = NoTx
  BY DEF Init, EmptyRow
<1>2. Ordered(<< >>) /\ Range(<< >>) = {}
  BY RangeEmpty DEF Ordered
<1>3. History
  BY <1>1, <1>2 DEF History
<1>4. \A h \in Handler : handler[h] = Idle
  BY DEF Init
<1>5. Idle.pc = "idle" /\ Idle.accepted = {}
  BY DEF Idle
<1>6. Accountable(Idle)
  BY <1>5 DEF Accountable, Dealt, Loading, Started, Attempting
<1> QED BY <1>3, <1>4, <1>6 DEF LogInv

LEMMA ServiceInit == Init => ServiceInv
BY TypeInit, CasInit, LogInit DEF ServiceInv

LEMMA ServiceStep ==
  ASSUME ServiceInv, [Next]_vars
  PROVE  ServiceInv'
<1>1. (TypeInv /\ CasInv)'
  BY TypeStep, CasStep DEF ServiceInv
<1>2. ASSUME NEW h \in Handler, Progress(h)
      PROVE  LogInv'
  BY <1>2, LogLoadState, LogLoadBuild, LogAlreadySaved, LogAnswer, LogRejectCyclic,
     LogCompute, LogCommit, LogUpdatePreview, LogNextEntry DEF Progress
<1>3. ASSUME NEW h \in Handler, (\E r \in Request : Receive(h, r)) \/ Refuse(h) \/ Fail(h) \/ End(h)
      PROVE  LogInv'
  BY <1>3, LogReceive, LogAnswer, LogFail, LogEnd
<1>4. ASSUME NEW i \in Importer, ImportStep(i)
      PROVE  LogInv'
  BY <1>4, LogImport
<1>5. ASSUME UNCHANGED vars
      PROVE  LogInv'
  BY <1>5 DEF vars, ServiceInv, LogInv, History, Accountable, Dealt, Owns
<1>6. LogInv'
  BY <1>2, <1>3, <1>4, <1>5 DEF Next
<1> QED BY <1>1, <1>6 DEF ServiceInv

(***************************************************************************)
(* Theorems.                                                               *)
(***************************************************************************)

\* Nothing is saved twice, however often a request is sent: a transaction of
\* the build comes before what is behind it, in its request or by time.
THEOREM AppliedOnceCorrect == Spec => []AppliedOnce
<1>1. ServiceInv => AppliedOnce
  <2> SUFFICES ASSUME ServiceInv, NEW i \in DOMAIN build.log, NEW j \in DOMAIN build.log,
                      build.log[i] = build.log[j]
               PROVE  i = j
    BY DEF AppliedOnce, IsInjective
  <2>1. i \in Nat /\ j \in Nat
    BY DEF ServiceInv, TypeInv, TypeOK, Row
  <2>2. ~(i < j) /\ ~(j < i)
    BY DEF ServiceInv, LogInv, History, Ordered, Precedes
  <2> QED BY <2>1, <2>2
<1> QED BY <1>1, ServiceInit, ServiceStep, PTL DEF Spec

\* What a reply reports as accepted is saved.
THEOREM AcceptedCorrect == Spec => []AcceptedWasSaved
<1>1. ServiceInv => AcceptedWasSaved
  BY DEF ServiceInv, LogInv, Accountable, Dealt, AcceptedWasSaved
<1> QED BY <1>1, ServiceInit, ServiceStep, PTL DEF Spec

\* What a handler saves is a group of the storage abstraction.
LEMMA WrittenGroup ==
  ASSUME ServiceInv, NEW h \in Handler, handler[h].pc = "commit"
  PROVE  handler[h].cur \in Group /\ handler[h].cur # << >> /\ IsInjective(handler[h].cur)
<1>1. PICK s : s = handler[h]
  OBVIOUS
<1>2. s \in HandlerState /\ Accountable(s) /\ s.pc = "commit" /\ s.cur # << >>
  BY <1>1, HandlerFacts DEF Shape, Working
<1>3. Loop(s) /\ s.pc \in Working /\ s.pc \in Started
  BY <1>2 DEF Accountable, Started, Attempting, Working
<1>4. PICK r \in Request : s.entries = r.entries
  BY <1>2, <1>3 DEF Accountable, Owns
<1>5. s.cur = r.entries \/ \E e \in Edit : s.cur = << e >>
  BY <1>3, <1>4 DEF Loop, Edit
<1>6. IsInjective(s.cur)
  BY <1>4, <1>5, RetryAssumption DEF IsInjective
<1> QED BY <1>1, <1>2, <1>5, <1>6 DEF Group

\* Every step saves nothing, or one group of edits that are all new.
LEMMA LogStep ==
  ASSUME ServiceInv, [Next]_vars
  PROVE  [Log!Next]_(build.log)
<1>1. ASSUME NEW h \in Handler, handler[h].pc = "commit", build.version = handler[h].version,
             build' = NewRow(handler[h]), UNCHANGED importer
      PROVE  Log!Next
  <2>1. /\ build'.log = build.log \o handler[h].cur
        /\ Range(handler[h].cur) \cap Range(build.log) = {}
    BY <1>1, Written
  <2>2. PICK group \in Group : group = handler[h].cur /\ group # << >> /\ IsInjective(group)
    BY <1>1, WrittenGroup
  <2>3. /\ Log!IsInjective(group) <=> IsInjective(group)
        /\ \A f : Log!Range(f) = Range(f)
    BY DEF Log!IsInjective, Log!Range, IsInjective, Range
  <2>4. Log!Save(group)
    BY <2>1, <2>2, <2>3 DEF Log!Save
  <2> QED BY <2>4 DEF Log!Next
<1>2. ASSUME NEW i \in Importer, ImportCommit(i)
      PROVE  Log!Next
  <2>1. build'.log = build.log \o << i >> /\ i \notin Range(build.log)
    BY <1>2, Imported
  <2>2. << i >> \in Group /\ << i >> # << >> /\ IsInjective(<< i >>) /\ Range(<< i >>) = {i}
    BY DEF Group, Edit, IsInjective, Range
  <2>3. Log!Save(<< i >>)
    BY <2>1, <2>2 DEF Log!Save, Log!IsInjective, Log!Range, IsInjective, Range
  <2> QED BY <2>2, <2>3 DEF Log!Next
<1>3. ASSUME NEW h \in Handler, Progress(h)
      PROVE  build' = build \/ Log!Next
  <2>1. CASE Commit(h)
    BY <1>1, <2>1 DEF Commit
  <2>2. CASE ~Commit(h)
    BY <1>3, <2>2 DEF Progress, LoadState, LoadBuild, AlreadySaved, VersionMismatch,
       RejectCyclic, ComputeUpdate, ApplyAssets, LoseRace, UpdatePreview, NextEntry, Finish
  <2> QED BY <2>1, <2>2
<1>4. ASSUME NEW h \in Handler, Fail(h)
      PROVE  build' = build \/ Log!Next
  BY <1>1, <1>4 DEF Fail
<1>5. ASSUME NEW h \in Handler, (\E r \in Request : Receive(h, r)) \/ Refuse(h) \/ End(h)
      PROVE  build' = build
  BY <1>5 DEF Receive, Refuse, End
<1>6. ASSUME NEW i \in Importer, ImportStep(i)
      PROVE  build' = build \/ Log!Next
  BY <1>2, <1>6 DEF ImportStep, ImportLoad, ImportReset, ImportDelete, ImportInsert,
     ImportPreview, ImportAbort
<1>7. CASE UNCHANGED vars
  BY <1>7 DEF vars
<1> QED BY <1>3, <1>4, <1>5, <1>6, <1>7 DEF Next

\* The service implements the storage abstraction.
THEOREM LogCorrect == Spec => ImplementsBuildLog
<1>1. Init => Log!Init
  BY DEF Init, EmptyRow, Log!Init
<1>2. ServiceInv /\ [Next]_vars => [Log!Next]_(build.log)
  BY LogStep
<1> QED BY <1>1, <1>2, ServiceInit, ServiceStep, PTL DEF Spec, ImplementsBuildLog, Log!Spec
=============================================================================
