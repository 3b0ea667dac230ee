---------------------- MODULE SingleplayerOrder_proofs ----------------------
(***************************************************************************)
(* Proofs about what SingleplayerSync saves when the settings dialog stops *)
(* its queue and when edits cannot be applied: the edits of a page are     *)
(* saved in the order they were made, each of them once, and what a tab    *)
(* reports as saved is saved, unless it cannot be.                         *)
(*                                                                         *)
(* After a dialog was closed its loop still retries next to the loop of    *)
(* the one opened after it, edits may be dropped in between, and a request *)
(* with an edit that cannot be applied is saved in parts.  What remains is *)
(* the order in which a page lets its edits go: a list of edits that was   *)
(* sent is a batch, and whatever is not sent yet was made after it.  Of    *)
(* the batches, several with the same version, only one can be saved: the  *)
(* others then fail the version match.                                     *)
(***************************************************************************)
EXTENDS SingleplayerSave_proofs

(***************************************************************************)
(* The inductive invariant.                                                *)
(***************************************************************************)
Attempting == {"patch", "commit"}
Loading == {"loadState", "loadBuild"}
Started == Attempting \cup {"next"}
Waiting == {"wait", "backoff"}

\* The edits of a request its handler has still to decide on.
Left(s) ==
  CASE s.pc \in Loading -> Range(s.entries)
    [] s.pc \in Attempting -> Range(s.cur) \cup Range(s.todo)
    [] s.pc = "next" -> Range(s.todo)
    [] OTHER -> {}

\* Of the edits of a page some are newer than all that are saved.
Newest(t, xs) == \A x \in xs \cap edited[t], y \in Stored \cap edited[t] : y < x

\* Whoever holds the current version may save the edits.
Ahead(version, t, xs) ==
  /\ version <= build.version
  /\ version = build.version => Newest(t, xs)

\* The lists of edits that are or were sent, and maybe will be again.
Batch ==
  {handler[h].entries : h \in Handler} \cup
  UNION {{Head(loop[t][l].rest).txs : l \in {k \in Loop : loop[t][k].pc \in Waiting}} : t \in Tab}

\* The edits a page has let go.
Out == Stored \cup UNION {Range(b) : b \in Batch}

\* The commands of a loop that were not sent.
Behind(s) == IF s.pc \in Waiting THEN Tail(s.rest) ELSE s.rest

\* The edits a page may still send: those queued and those of its loop.
Unsent(t) ==
  {x \in Tx : \/ Holds(queue[t], x)
              \/ \E l \in Loop : Q!Serving(t, l) /\ Holds(Behind(loop[t][l]), x)}

InOrder(commands) ==
  /\ \A k \in DOMAIN commands : IsEdits(commands[k]) => Increasing(commands[k].txs)
  /\ \A i, k \in DOMAIN commands : i < k /\ IsEdits(commands[i]) /\ IsEdits(commands[k]) =>
       \A x \in Range(commands[i].txs), y \in Range(commands[k].txs) : x < y

\* The versions in a queue were loaded.
Dated(commands) ==
  \A k \in DOMAIN commands : ~IsEdits(commands[k]) => commands[k].version <= build.version

\* Commands a tab has made, in the order it made them.
Of(t, commands) ==
  /\ InOrder(commands) /\ Dated(commands)
  /\ \A x \in Tx : Holds(commands, x) => x \in edited[t]

LoopOrder(t, s) ==
  /\ Of(t, s.rest)
  /\ \A x, y \in Tx : Holds(s.rest, x) /\ Holds(queue[t], y) => x < y
  /\ s.version <= build.version
  /\ s.pc \in Waiting => Ahead(s.version, t, Range(Head(s.rest).txs))

\* Only the loop of the controller goes on to take commands, and all it will
\* send was made after everything that was sent.
TabOrder(t) ==
  /\ loaded[t].version <= build.version
  /\ completed[t] \ CyclicEdits \subseteq Stored
  /\ Of(t, queue[t])
  /\ \A l \in Loop : LoopOrder(t, loop[t][l]) /\ (Q!Serving(t, l) => l = controller[t])
  /\ \A x \in Unsent(t), y \in Out \cap edited[t] : y < x

\* A batch is saved from its first edit on.
Closed(b) ==
  \A i, j \in DOMAIN b : i < j /\ b[j] \in Stored /\ b[i] \notin CyclicEdits => b[i] \in Stored

\* No edit is in two batches: what is sent again is the same batch.
BatchOrder ==
  /\ \A b \in Batch : Range(b) \subseteq Made /\ Increasing(b) /\ Closed(b)
  /\ \A b, c \in Batch : Range(b) \cap Range(c) # {} => b = c

\* What a handler is doing: the request at once, or its entries one by one.
Goes(s) ==
  /\ s.pc \notin {"assets", "preview"}
  /\ s.pc \in Loading \cup Started => s.kind = "browser"
  /\ s.pc \in Loading => ~s.single /\ s.accepted = {} /\ s.cur = << >> /\ s.todo = << >>
  /\ s.pc \in Started =>
       /\ Range(s.cur) \cup Range(s.todo) \subseteq Range(s.entries)
       /\ Increasing(s.cur) /\ Increasing(s.todo)
       /\ IF s.single THEN s.row.version = s.version ELSE s.todo = << >>
  /\ s.pc \in Attempting =>
       /\ \A x \in Range(s.cur), y \in Range(s.todo) : x < y
       /\ IF s.single THEN \E e \in Tx : s.cur = << e >> ELSE s.cur = s.entries

\* What it has decided on is saved, unless it cannot be.
Dealt(s) ==
  /\ s.pc \in Started => (Range(s.entries) \ Left(s)) \ CyclicEdits \subseteq Stored
  /\ s.row.lastTx \in Stored \cup {NoTx}
  /\ s.accepted \ CyclicEdits \subseteq Stored
  /\ s.pc = "done" /\ s.reply = "ok" => Range(s.entries) \subseteq s.accepted

HandlerOrder(s) ==
  /\ Goes(s) /\ Dealt(s)
  /\ s.version <= build.version
  /\ \A t \in Tab : Ahead(s.version, t, Left(s))

\* Every page makes its own edits.
PageOrder ==
  \A t \in Tab : edited[t] \subseteq Made /\ \A u \in Tab \ {t} : edited[t] \cap edited[u] = {}

BuildOrder ==
  /\ Stored \subseteq Made
  /\ build.lastTx \in Stored \cup {NoTx}
  /\ \A t \in Tab : \A j, k \in DOMAIN build.log :
       j < k /\ build.log[j] \in edited[t] /\ build.log[k] \in edited[t] =>
         build.log[j] < build.log[k]

OrderInv ==
  /\ BuildOrder /\ PageOrder /\ BatchOrder
  /\ \A t \in Tab : TabOrder(t)
  /\ \A h \in Handler : HandlerOrder(handler[h])
  /\ ConnInv

OrderingInv == CoreInv /\ SP!CasInv /\ OrderInv

(***************************************************************************)
(* Lists of commands.                                                      *)
(***************************************************************************)

LEMMA HeadAndRest ==
  ASSUME NEW commands \in Seq(Q!Command), commands # << >>
  PROVE  /\ Tail(commands) \in Seq(Q!Command) /\ Head(commands) \in Q!Command
         /\ Head(commands) = commands[1] /\ 1 \in DOMAIN commands
         /\ \A k \in DOMAIN Tail(commands) :
              /\ k + 1 \in DOMAIN commands /\ Tail(commands)[k] = commands[k + 1]
              /\ k + 1 > 1 /\ k \in Nat
         /\ \A x : Holds(commands, x) <=> \/ IsEdits(Head(commands)) /\ x \in Range(Head(commands).txs)
                                          \/ Holds(Tail(commands), x)
<1>1. PICK rest \in Seq(Q!Command) : rest = Tail(commands)
  BY TailOf
<1>2. /\ Len(commands) \in Nat /\ DOMAIN commands = 1 .. Len(commands) /\ Head(commands) = commands[1]
      /\ 1 \in DOMAIN commands
  BY HeadIn
<1>3. /\ Len(rest) = Len(commands) - 1 /\ DOMAIN rest = 1 .. Len(rest)
      /\ \A k \in 1 .. Len(rest) : rest[k] = commands[k + 1]
  BY <1>1
<1>4. ASSUME NEW k \in DOMAIN rest
      PROVE  k \in Nat /\ k + 1 \in DOMAIN commands /\ rest[k] = commands[k + 1] /\ k + 1 > 1
  BY <1>2, <1>3
<1>5. ASSUME NEW k \in DOMAIN commands, k # 1
      PROVE  k - 1 \in DOMAIN rest /\ rest[k - 1] = commands[k]
  BY <1>2, <1>3, <1>5
<1>6. ASSUME NEW x
      PROVE  Holds(commands, x) <=> \/ IsEdits(Head(commands)) /\ x \in Range(Head(commands).txs)
                                    \/ Holds(rest, x)
  BY <1>2, <1>4, <1>5 DEF Holds
<1> QED BY <1>1, <1>2, <1>4, <1>6

\* A command leaves the list from its head.
LEMMA TailInOrder ==
  ASSUME NEW commands \in Seq(Q!Command), commands # << >>, InOrder(commands)
  PROVE  /\ InOrder(Tail(commands))
         /\ IsEdits(Head(commands)) => Increasing(Head(commands).txs)
         /\ IsEdits(Head(commands)) =>
              \A x \in Range(Head(commands).txs) : \A y : Holds(Tail(commands), y) => x < y
<1>1. PICK rest \in Seq(Q!Command) : rest = Tail(commands)
  BY TailOf
<1>2. /\ Head(commands) = commands[1] /\ 1 \in DOMAIN commands
      /\ \A k \in DOMAIN rest : /\ k + 1 \in DOMAIN commands /\ rest[k] = commands[k + 1]
                                /\ k + 1 > 1 /\ k \in Nat
  BY <1>1, HeadAndRest
<1>3. \A i, k \in DOMAIN rest : i < k => i + 1 < k + 1
  BY <1>2
<1>4. InOrder(rest)
  BY <1>2, <1>3 DEF InOrder
<1>5. ASSUME IsEdits(Head(commands)), NEW x \in Range(Head(commands).txs), NEW y, Holds(rest, y)
      PROVE  x < y
  <2>1. PICK k \in DOMAIN rest : IsEdits(rest[k]) /\ y \in Range(rest[k].txs)
    BY <1>5 DEF Holds
  <2>2. k + 1 \in DOMAIN commands /\ rest[k] = commands[k + 1] /\ 1 < k + 1
    BY <1>2
  <2> QED BY <1>2, <1>5, <2>1, <2>2 DEF InOrder
<1> QED BY <1>1, <1>2, <1>4, <1>5 DEF InOrder

LEMMA TailDated ==
  ASSUME NEW commands \in Seq(Q!Command), commands # << >>, Dated(commands)
  PROVE  /\ Dated(Tail(commands))
         /\ ~IsEdits(Head(commands)) => Head(commands).version <= build.version
BY HeadAndRest DEF Dated

LEMMA TailOfPage ==
  ASSUME NEW t \in Tab, NEW commands \in Seq(Q!Command), commands # << >>, Of(t, commands)
  PROVE  Of(t, Tail(commands))
BY HeadAndRest, TailInOrder, TailDated DEF Of

LEMMA NothingOrdered == \A t \in Tab : Of(t, << >>)
BY NothingHeld DEF Of, InOrder, Dated

\* The details of a project are put behind what is queued.
LEMMA DetailsOrdered ==
  ASSUME NEW t \in Tab, NEW commands \in Seq(Q!Command), Of(t, commands),
         NEW c \in Q!Command, ~IsEdits(c), c.version <= build.version,
         NEW n, n = Append(commands, c)
  PROVE  Of(t, n) /\ n \in Seq(Q!Command) /\ \A x : Holds(n, x) <=> Holds(commands, x)
<1>1. /\ n \in Seq(Q!Command) /\ n[Len(commands) + 1] = c
      /\ \A k \in DOMAIN commands : n[k] = commands[k]
      /\ \A k \in DOMAIN n : k \in DOMAIN commands \/ k = Len(commands) + 1
      /\ \A x : Holds(n, x) <=> Holds(commands, x)
  <2>1. n \in Seq(Q!Command) /\ n[Len(commands) + 1] = c
    BY Appended
  <2>2. \A k \in DOMAIN commands : n[k] = commands[k]
    BY Appended
  <2>3. \A k \in DOMAIN n : k \in DOMAIN commands \/ k = Len(commands) + 1
    BY Appended
  <2>4. \A x : Holds(n, x) <=> Holds(commands, x) \/ (IsEdits(c) /\ x \in Range(c.txs))
    BY Appended
  <2> QED BY <2>1, <2>2, <2>3, <2>4
<1>2. \A k \in DOMAIN n : IsEdits(n[k]) => k \in DOMAIN commands /\ n[k] = commands[k]
  BY <1>1
<1>3. InOrder(n)
  BY <1>2 DEF Of, InOrder
<1>4. Dated(n)
  BY <1>1 DEF Of, Dated
<1> QED BY <1>1, <1>3, <1>4 DEF Of

\* An edit newer than all that is queued is put behind it, or into the command
\* at its end.
LEMMA EditOrdered ==
  ASSUME NEW q \in Seq(Q!Command), InOrder(q), NEW x \in Tx,
         \A y \in Tx : Holds(q, y) => y < x, NEW n, n = Q!Enqueue(q, x)
  PROVE  /\ n \in Seq(Q!Command) /\ InOrder(n) /\ (Dated(q) => Dated(n))
         /\ \A y : Holds(n, y) <=> Holds(q, y) \/ y = x
<1>1. /\ Len(q) \in Nat /\ DOMAIN q = 1 .. Len(q) /\ (q # << >> => Len(q) > 0 /\ Len(q) \in DOMAIN q)
      /\ q = << >> => Len(q) = 0
  <2>1. q = << >> => Len(q) = 0
    OBVIOUS
  <2> QED BY <2>1, HeadIn
<1>2. n \in Seq(Q!Command)
  BY EnqueueType
<1>3. ASSUME NEW k \in DOMAIN q, IsEdits(q[k]), NEW y \in Range(q[k].txs)
      PROVE  y < x /\ y \in Tx
  <2>1. q[k].txs \in Seq(Tx)
    BY <1>3, CommandIs
  <2>2. y \in Tx
    BY <1>3, <2>1 DEF Range
  <2> QED BY <1>3, <2>2 DEF Holds
<1>4. CASE q # << >> /\ IsEdits(q[Len(q)])
  <2>1. PICK txs \in Seq(Tx) : txs = q[Len(q)].txs
    BY <1>1, <1>4, CommandIs
  <2>2. PICK more \in Seq(Tx) : more = Append(txs, x) /\ Range(more) = Range(txs) \cup {x}
    <3>1. Append(txs, x) \in Seq(Tx) /\ Range(Append(txs, x)) = Range(txs) \cup {x}
      BY RangeOfAppend
    <3> QED BY <3>1
  <2>3. Increasing(more)
    <3>1. txs \in Seq(Nat) /\ x \in Nat
      BY NumbersOf, SyncAssumption DEF Tx
    <3>2. Increasing(txs) /\ \A y \in Range(txs) : y < x
      BY <1>1, <1>3, <1>4, <2>1 DEF InOrder
    <3> QED BY <2>2, <3>1, <3>2, IncreasingAppend
  <2>4. PICK c : c = [q[Len(q)] EXCEPT !.txs = more]
    OBVIOUS
  <2>5. n = [q EXCEPT ![Len(q)] = c]
    BY <1>1, <1>4, <2>1, <2>2, <2>4 DEF Q!Enqueue, IsEdits
  <2>6. c.txs = more /\ IsEdits(c)
    <3>1. q[Len(q)] \in [type : {"transactions"}, txs : Seq(Tx)]
      BY <1>1, <1>4 DEF Q!Command, IsEdits
    <3> QED BY <2>4, <3>1 DEF IsEdits
  <2>7. /\ DOMAIN n = DOMAIN q /\ n[Len(q)] = c
        /\ \A k \in DOMAIN q : k # Len(q) => n[k] = q[k]
    BY <1>1, <1>4, <2>5
  <2>8. \A k \in DOMAIN q : k = Len(q) \/ k < Len(q)
    BY <1>1
  <2>9. InOrder(n)
    <3>1. \A k \in DOMAIN n : IsEdits(n[k]) => Increasing(n[k].txs)
      BY <2>3, <2>6, <2>7 DEF InOrder
    <3>2. ASSUME NEW i \in DOMAIN n, NEW k \in DOMAIN n, i < k, IsEdits(n[i]), IsEdits(n[k]),
                 NEW y \in Range(n[i].txs), NEW z \in Range(n[k].txs)
          PROVE  y < z
      <4>1. i # Len(q) /\ n[i] = q[i]
        BY <1>1, <2>7, <2>8, <3>2
      <4>2. CASE k # Len(q)
        BY <2>7, <3>2, <4>1, <4>2 DEF InOrder
      <4>3. CASE k = Len(q) /\ z # x
        <5>1. z \in Range(q[k].txs) /\ IsEdits(q[k])
          BY <1>4, <2>1, <2>2, <2>6, <2>7, <3>2, <4>3
        <5> QED BY <2>7, <3>2, <4>1, <5>1 DEF InOrder
      <4>4. CASE z = x
        BY <1>3, <2>7, <3>2, <4>1, <4>4
      <4> QED BY <4>2, <4>3, <4>4
    <3> QED BY <3>1, <3>2 DEF InOrder
  <2>10. \A y : Holds(n, y) <=> Holds(q, y) \/ y = x
    <3>1. ASSUME NEW y, Holds(n, y) PROVE Holds(q, y) \/ y = x
      <4>1. PICK k \in DOMAIN n : IsEdits(n[k]) /\ y \in Range(n[k].txs)
        BY <3>1 DEF Holds
      <4>2. CASE k = Len(q)
        BY <1>1, <1>4, <2>1, <2>2, <2>6, <2>7, <4>1, <4>2 DEF Holds
      <4>3. CASE k # Len(q)
        BY <2>7, <4>1, <4>3 DEF Holds
      <4> QED BY <4>2, <4>3
    <3>2. ASSUME NEW y, Holds(q, y) PROVE Holds(n, y)
      <4>1. PICK k \in DOMAIN q : IsEdits(q[k]) /\ y \in Range(q[k].txs)
        BY <3>2 DEF Holds
      <4>2. CASE k = Len(q)
        BY <1>1, <1>4, <2>1, <2>2, <2>6, <2>7, <4>1, <4>2 DEF Holds
      <4>3. CASE k # Len(q)
        BY <2>7, <4>1, <4>3 DEF Holds
      <4> QED BY <4>2, <4>3
    <3>3. Holds(n, x)
      BY <1>1, <1>4, <2>2, <2>6, <2>7 DEF Holds
    <3> QED BY <3>1, <3>2, <3>3
  <2>11. Dated(q) => Dated(n)
    BY <2>6, <2>7 DEF Dated
  <2> QED BY <1>2, <2>9, <2>10, <2>11
<1>5. CASE ~(q # << >> /\ IsEdits(q[Len(q)]))
  <2>1. PICK single \in Seq(Tx) : single = << x >> /\ DOMAIN single = {1} /\ single[1] = x
    <3>1. << x >> \in Seq(Tx) /\ DOMAIN << x >> = {1} /\ << x >>[1] = x
      OBVIOUS
    <3> QED BY <3>1
  <2>2. Range(single) = {x} /\ Increasing(single)
    BY <2>1 DEF Range, Increasing
  <2>3. PICK c \in Q!Command : c = [type |-> "transactions", txs |-> single]
    BY CommandsType
  <2>4. IsEdits(c) /\ c.txs = single
    BY <2>3 DEF IsEdits
  <2>5. n = Append(q, c)
    <3>1. ~(Len(q) > 0 /\ q[Len(q)].type = "transactions")
      BY <1>1, <1>5 DEF IsEdits
    <3> QED BY <2>1, <2>3, <3>1 DEF Q!Enqueue
  <2>6. /\ n[Len(q) + 1] = c
        /\ \A k \in DOMAIN q : n[k] = q[k]
        /\ \A k \in DOMAIN n : k \in DOMAIN q \/ k = Len(q) + 1
        /\ \A y : Holds(n, y) <=> Holds(q, y) \/ (IsEdits(c) /\ y \in Range(c.txs))
    <3>1. n[Len(q) + 1] = c
      BY <2>5, Appended
    <3>2. \A k \in DOMAIN q : n[k] = q[k]
      BY <2>5, Appended
    <3>3. \A k \in DOMAIN n : k \in DOMAIN q \/ k = Len(q) + 1
      BY <2>5, Appended
    <3>4. \A y : Holds(n, y) <=> Holds(q, y) \/ (IsEdits(c) /\ y \in Range(c.txs))
      BY <2>5, Appended
    <3> QED BY <3>1, <3>2, <3>3, <3>4
  <2>7. \A k \in DOMAIN q : ~(Len(q) + 1 < k)
    BY <1>1
  <2>8. InOrder(n)
    <3>1. \A k \in DOMAIN n : IsEdits(n[k]) => Increasing(n[k].txs)
      BY <2>2, <2>4, <2>6 DEF InOrder
    <3>2. ASSUME NEW i \in DOMAIN n, NEW k \in DOMAIN n, i < k, IsEdits(n[i]), IsEdits(n[k]),
                 NEW y \in Range(n[i].txs), NEW z \in Range(n[k].txs)
          PROVE  y < z
      <4>1. i \in DOMAIN q /\ n[i] = q[i]
        <5>1. ~(Len(q) + 1 < Len(q) + 1)
          BY <1>1
        <5> QED BY <2>6, <2>7, <3>2, <5>1
      <4>2. CASE k \in DOMAIN q
        BY <2>6, <3>2, <4>1, <4>2 DEF InOrder
      <4>3. CASE k = Len(q) + 1
        <5>1. z = x
          BY <2>2, <2>4, <2>6, <3>2, <4>3
        <5> QED BY <1>3, <3>2, <4>1, <5>1
      <4> QED BY <2>6, <4>2, <4>3
    <3> QED BY <3>1, <3>2 DEF InOrder
  <2>9. \A y : Holds(n, y) <=> Holds(q, y) \/ y = x
    BY <2>2, <2>4, <2>6
  <2>10. Dated(q) => Dated(n)
    BY <2>4, <2>6 DEF Dated
  <2> QED BY <1>2, <2>8, <2>9, <2>10
<1> QED BY <1>4, <1>5

(***************************************************************************)
(* What goes on to hold while others make and save edits.                  *)
(***************************************************************************)

\* Beside Later: an edit that was made already is not made again by a page.
Onward ==
  /\ Later
  /\ \A u \in Tab : edited'[u] \cap Made \subseteq edited[u]

LEMMA OnwardAhead ==
  ASSUME Onward, Stored \subseteq Made, NEW t \in Tab, NEW version \in Int,
         NEW xs, xs \subseteq Made, Ahead(version, t, xs)
  PROVE  Ahead(version, t, xs)'
<1>1. /\ build.version \in Nat /\ build'.version \in Nat /\ version <= build.version
      /\ \/ build'.version = build.version /\ Stored' = Stored
         \/ build'.version > build.version
  BY DEF Onward, Later, Ahead
<1>2. version <= build'.version
  BY <1>1
<1>3. ASSUME version = build'.version PROVE Newest(t, xs)'
  <2>1. version = build.version /\ Stored' = Stored
    BY <1>1, <1>3
  <2>2. Newest(t, xs)
    BY <2>1 DEF Ahead
  <2>3. edited'[t] \cap Made \subseteq edited[t]
    BY DEF Onward
  <2> QED BY <2>1, <2>2, <2>3 DEF Newest
<1> QED BY <1>2, <1>3 DEF Ahead

LEMMA OnwardOf ==
  ASSUME Onward, NEW t \in Tab, edited[t] \subseteq edited'[t],
         NEW commands \in Seq(Q!Command), Of(t, commands)
  PROVE  Of(t, commands)'
<1>1. InOrder(commands)'
  BY DEF Of, InOrder, IsEdits, Increasing, Range
<1>2. Dated(commands)'
  <2>1. /\ build.version \in Nat /\ build'.version \in Nat
        /\ build.version <= build'.version
    BY DEF Onward, Later
  <2>2. ASSUME NEW k \in DOMAIN commands, ~IsEdits(commands[k])
        PROVE  commands[k].version <= build'.version
    <3>1. commands[k] \in Q!Command
      OBVIOUS
    <3>2. commands[k].version \in Nat
      BY <2>2, <3>1, CommandIs
    <3>3. commands[k].version <= build.version
      BY <2>2 DEF Of, Dated
    <3> QED BY <2>1, <3>2, <3>3
  <2> QED BY <2>2 DEF Dated, IsEdits
<1>3. \A x \in Tx : Holds(commands, x)' => x \in edited'[t]
  BY DEF Of, Holds, IsEdits, Range
<1> QED BY <1>1, <1>2, <1>3 DEF Of, Tx

\* The edits of a command a loop has sent.
LEMMA SentIs ==
  ASSUME NEW t \in Tab, NEW s \in Q!LoopState, Shape(s), s.pc \in Waiting, Of(t, s.rest)
  PROVE  /\ s.rest \in Seq(Q!Command) /\ s.rest # << >> /\ IsEdits(Head(s.rest))
         /\ Head(s.rest).txs \in Seq(Tx) /\ Range(Head(s.rest).txs) \subseteq edited[t]
         /\ Increasing(Head(s.rest).txs) /\ s.version \in Nat
<1>1. s.rest \in Seq(Q!Command) /\ s.rest # << >> /\ IsEdits(Head(s.rest)) /\ s.version \in Nat
  BY StateTypes DEF Shape, Waiting, IsEdits, Q!LoopState
<1>2. Head(s.rest) \in Q!Command
  BY <1>1, HeadAndRest
<1>3. Head(s.rest).txs \in Seq(Tx)
  BY <1>1, <1>2, CommandIs
<1>4. Range(Head(s.rest).txs) \subseteq Tx
  BY <1>3 DEF Range
<1>5. \A x \in Range(Head(s.rest).txs) : Holds(s.rest, x)
  BY <1>1, HeadAndRest
<1>6. Increasing(Head(s.rest).txs)
  BY <1>1, TailInOrder DEF Of
<1> QED BY <1>1, <1>3, <1>4, <1>5, <1>6 DEF Of

LEMMA OnwardLoop ==
  ASSUME Onward, Stored \subseteq Made, NEW t \in Tab, edited[t] \subseteq Made,
         edited[t] \subseteq edited'[t], NEW s \in Q!LoopState, Shape(s), LoopOrder(t, s),
         \A x, y \in Tx : Holds(s.rest, x) /\ Holds(queue'[t], y) => x < y
  PROVE  LoopOrder(t, s)'
<1>1. s.rest \in Seq(Q!Command) /\ s.version \in Int
  BY StateTypes
<1>2. Of(t, s.rest)'
  BY <1>1, OnwardOf DEF LoopOrder
<1>3. s.version <= build'.version
  BY <1>1 DEF LoopOrder, Onward, Later
<1>4. ASSUME s.pc \in Waiting PROVE Ahead(s.version, t, Range(Head(s.rest).txs))'
  <2>1. PICK xs : xs = Range(Head(s.rest).txs)
    OBVIOUS
  <2>2. xs \subseteq Made
    BY <1>4, <2>1, SentIs DEF LoopOrder
  <2>3. Ahead(s.version, t, xs)
    BY <1>4, <2>1 DEF LoopOrder
  <2>4. Ahead(s.version, t, xs)'
    BY <1>1, <2>2, <2>3, OnwardAhead
  <2> QED BY <2>1, <2>4 DEF Range
<1>5. \A x, y \in Tx : Holds(s.rest, x)' /\ Holds(queue[t], y)' => x < y
  BY DEF Holds, IsEdits, Range
<1> QED BY <1>2, <1>3, <1>4, <1>5 DEF LoopOrder, Waiting, Tx

\* The edits a handler has still to decide on are those of its request.
LEMMA LeftIn ==
  ASSUME NEW s \in SP!HandlerState, Goes(s)
  PROVE  Left(s) \subseteq Range(s.entries) /\ Left(s) \subseteq Tx
<1>1. s.cur \in Seq(Tx) /\ s.todo \in Seq(Tx) /\ s.entries \in Seq(Tx)
  BY DEF SP!HandlerState
<1>2. Left(s) \subseteq Range(s.entries)
  BY DEF Left, Goes, Started, Attempting
<1>3. Range(s.entries) \subseteq Tx
  BY <1>1 DEF Range
<1> QED BY <1>2, <1>3

LEMMA OnwardHandler ==
  ASSUME Onward, Stored \subseteq Made, NEW s \in SP!HandlerState, HandlerOrder(s),
         Range(s.entries) \subseteq Made
  PROVE  HandlerOrder(s)'
<1>1. s.version \in Nat
  BY DEF SP!HandlerState
<1>2. Goes(s)'
  BY DEF HandlerOrder, Goes, Loading, Started, Attempting, Increasing, Range, Tx
<1>3. PICK left : left = Left(s)
  OBVIOUS
<1>4. left \subseteq Made
  BY <1>3, LeftIn DEF HandlerOrder
<1>5. Left(s)' = left
  BY <1>3 DEF Left, Loading, Attempting, Range
<1>6. \A t \in Tab : Ahead(s.version, t, left)'
  BY <1>1, <1>3, <1>4, OnwardAhead DEF HandlerOrder
<1>7. s.version <= build'.version
  BY <1>1 DEF HandlerOrder, Onward, Later
<1>8. Stored \subseteq Stored'
  BY DEF Onward, Later
<1>9. Dealt(s)'
  BY <1>3, <1>5, <1>8 DEF HandlerOrder, Dealt, Started, Attempting, Range, NoTx
<1> QED BY <1>2, <1>5, <1>6, <1>7, <1>9 DEF HandlerOrder

\* The edits of requests and of commands that were sent.
LEMMA BatchIs ==
  /\ \A b : b \in Batch <=>
       \/ \E h \in Handler : b = handler[h].entries
       \/ \E t \in Tab, l \in Loop : loop[t][l].pc \in Waiting /\ b = Head(loop[t][l].rest).txs
  /\ \A b : b \in Batch' <=>
       \/ \E h \in Handler : b = handler'[h].entries
       \/ \E t \in Tab, l \in Loop : loop'[t][l].pc \in Waiting /\ b = Head(loop'[t][l].rest).txs
<1>1. ASSUME NEW b
      PROVE  b \in Batch <=>
               \/ \E h \in Handler : b = handler[h].entries
               \/ \E t \in Tab, l \in Loop : loop[t][l].pc \in Waiting /\ b = Head(loop[t][l].rest).txs
  BY DEF Batch
<1>2. ASSUME NEW b
      PROVE  b \in Batch' <=>
               \/ \E h \in Handler : b = handler'[h].entries
               \/ \E t \in Tab, l \in Loop : loop'[t][l].pc \in Waiting /\ b = Head(loop'[t][l].rest).txs
  BY DEF Batch, Loop, Waiting
<1> QED BY <1>1, <1>2

LEMMA BatchShrinks ==
  ASSUME \A h \in Handler : handler'[h].entries \in {handler[h].entries, << >>},
         \A t \in Tab, l \in Loop : loop'[t][l].pc \in Waiting =>
           loop[t][l].pc \in Waiting /\ Head(loop'[t][l].rest).txs = Head(loop[t][l].rest).txs
  PROVE  Batch' \subseteq Batch \cup {<< >>}
BY BatchIs

\* While no new batch is sent.
LEMMA BatchKept ==
  ASSUME BatchOrder, Made \subseteq Made', Batch' \subseteq Batch \cup {<< >>},
         \A b \in Batch : Closed(b)', Stored' \subseteq Out
  PROVE  BatchOrder' /\ Out' \subseteq Out
<1>1. /\ Range(<< >>) = {} /\ Increasing(<< >>) /\ Closed(<< >>)'
  BY DEF Range, Increasing, Closed
<1>2. ASSUME NEW b \in Batch' PROVE b \in Batch \/ b = << >>
  OBVIOUS
<1>3. ASSUME NEW b \in Batch' PROVE Range(b) \subseteq Made' /\ Increasing(b) /\ Closed(b)'
  BY <1>1, <1>2 DEF BatchOrder
<1>4. ASSUME NEW b \in Batch', NEW c \in Batch', Range(b) \cap Range(c) # {} PROVE b = c
  BY <1>1, <1>2, <1>4 DEF BatchOrder
<1>5. BatchOrder'
  BY <1>3, <1>4 DEF BatchOrder, Increasing, Range
<1>6. ASSUME NEW x, NEW b \in Batch', x \in Range(b) PROVE x \in Out
  BY <1>1, <1>2, <1>6 DEF Out
<1>7. Out' \subseteq Out
  BY <1>6 DEF Out, Range
<1> QED BY <1>5, <1>7

LEMMA ClosedSame ==
  ASSUME BatchOrder, UNCHANGED build
  PROVE  (\A b \in Batch : Closed(b)') /\ Stored' \subseteq Out
<1>1. Stored' = Stored
  BY DEF Stored, Range
<1>2. ASSUME NEW b \in Batch PROVE Closed(b)'
  <2>1. Closed(b)
    BY DEF BatchOrder
  <2> QED BY <1>1, <2>1 DEF Closed
<1> QED BY <1>1, <1>2 DEF Out

LEMMA OutMade ==
  ASSUME OrderInv
  PROVE  Out \subseteq Made
BY DEF OrderInv, Out, BatchOrder, BuildOrder

(***************************************************************************)
(* The parts of the invariant a step leaves alone.                         *)
(***************************************************************************)
LEMMA PageKept ==
  ASSUME PageOrder, Made \subseteq Made', UNCHANGED edited
  PROVE  PageOrder'
BY DEF PageOrder

LEMMA BuildKept ==
  ASSUME BuildOrder, Made \subseteq Made', UNCHANGED << build, edited >>
  PROVE  BuildOrder'
<1>1. Stored' = Stored
  BY DEF Stored, Range
<1> QED BY <1>1 DEF BuildOrder, NoTx

LEMMA OnwardSame ==
  ASSUME CoreInv, UNCHANGED << view, build, edited >>
  PROVE  Onward
BY LaterSame DEF Onward

\* A tab that has no part in the step.
LEMMA OrderTab ==
  ASSUME CoreInv, OrderInv, Onward, NEW t \in Tab,
         queue'[t] = queue[t], loop'[t] = loop[t], controller'[t] = controller[t],
         completed'[t] = completed[t], edited'[t] = edited[t],
         loaded'[t] = loaded[t] \/ loaded'[t].version = build.version,
         Out' \cap edited[t] \subseteq Out
  PROVE  TabOrder(t)'
<1>1. TabOrder(t) /\ Stored \subseteq Made /\ edited[t] \subseteq Made
  BY DEF OrderInv, PageOrder, BuildOrder
<1>2. loaded'[t].version <= build'.version
  <2>1. loaded[t].version \in Nat /\ build.version \in Nat
    BY TypesOf
  <2> QED BY <1>1, <2>1 DEF TabOrder, Onward, Later
<1>3. completed'[t] \ CyclicEdits \subseteq Stored'
  BY <1>1 DEF TabOrder, Onward, Later
<1>4. PICK q \in Seq(Q!Command) : q = queue[t]
  BY LoopTypes
<1>5. Of(t, q)'
  BY <1>1, <1>4, OnwardOf DEF TabOrder
<1>6. Of(t, queue[t])'
  BY <1>4, <1>5 DEF Of, InOrder, Dated, Holds, IsEdits, Increasing, Range
<1>7. ASSUME NEW l \in Loop
      PROVE  LoopOrder(t, loop[t][l])' /\ (Q!Serving(t, l)' => l = controller'[t])
  <2>1. PICK s \in Q!LoopState : s = loop[t][l] /\ Shape(s)
    BY LoopIs DEF CoreInv
  <2>2. LoopOrder(t, s)'
    BY <1>1, <2>1, OnwardLoop DEF TabOrder, LoopOrder
  <2>3. LoopOrder(t, loop[t][l])'
    BY <2>1, <2>2
  <2>4. Q!Serving(t, l)' => Q!Serving(t, l)
    BY DEF Q!Serving
  <2> QED BY <1>1, <2>3, <2>4 DEF TabOrder
<1>8. ASSUME NEW x \in Unsent(t)' PROVE x \in Unsent(t)
  <2>1. x \in Tx /\ (\/ Holds(queue'[t], x)
                     \/ \E l \in Loop : Q!Serving(t, l)' /\ Holds(Behind(loop'[t][l]), x))
    BY <1>8 DEF Unsent, Behind, Holds, IsEdits, Range, Waiting, Loop, Tx
  <2> QED BY <2>1 DEF Unsent, Q!Serving
<1>9. \A x \in Unsent(t)', y \in Out' \cap edited'[t] : y < x
  BY <1>1, <1>8 DEF TabOrder
<1> QED BY <1>2, <1>3, <1>6, <1>7, <1>9 DEF TabOrder, Loop

\* A handler that has no part in the step.
LEMMA HandlerOnward ==
  ASSUME CoreInv, OrderInv, Onward, NEW h \in Handler
  PROVE  \A s : s = handler[h] => HandlerOrder(s)'
<1> SUFFICES ASSUME NEW s, s = handler[h] PROVE HandlerOrder(s)'
  OBVIOUS
<1>1. s \in SP!HandlerState /\ HandlerOrder(s) /\ Stored \subseteq Made
  BY HandlerIs DEF OrderInv, BuildOrder
<1>2. s.entries \in Batch
  BY BatchIs
<1>3. Range(s.entries) \subseteq Made
  BY <1>2 DEF OrderInv, BatchOrder
<1> QED BY <1>1, <1>3, OnwardHandler

LEMMA HandlersOrdered ==
  ASSUME CoreInv, OrderInv, Onward, NEW h \in Handler, NEW n,
         handler' = [handler EXCEPT ![h] = n], HandlerOrder(n)'
  PROVE  \A g \in Handler : HandlerOrder(handler[g])'
<1> TAKE g \in Handler
<1>1. PICK m : m = handler'[g]
  OBVIOUS
<1>2. HandlerOrder(m)'
  <2>1. CASE g = h
    BY <1>1, <2>1, TypesOf
  <2>2. CASE g # h
    <3>1. m = handler[g]
      BY <1>1, <2>2, TypesOf
    <3> QED BY <3>1, HandlerOnward
  <2> QED BY <2>1, <2>2
<1> QED BY <1>1, <1>2

LEMMA HandlersOnward ==
  ASSUME CoreInv, OrderInv, Onward, UNCHANGED handler
  PROVE  \A g \in Handler : HandlerOrder(handler[g])'
<1> TAKE g \in Handler
<1>1. PICK m : m = handler[g]
  OBVIOUS
<1>2. HandlerOrder(m)'
  BY <1>1, HandlerOnward
<1> QED BY <1>1, <1>2

\* A handler that has nothing left to do.
LEMMA NothingLeft ==
  ASSUME CoreInv, NEW s, s.pc \in {"idle", "done"}, s.version \in Nat, s.version <= build.version,
         s.row.lastTx = NoTx, s.accepted \ CyclicEdits \subseteq Stored,
         s.pc = "done" /\ s.reply = "ok" => Range(s.entries) \subseteq s.accepted
  PROVE  HandlerOrder(s)
<1>1. Left(s) = {}
  BY DEF Left, Loading, Attempting
<1>2. Goes(s) /\ Dealt(s)
  BY DEF Goes, Dealt, Loading, Started, Attempting
<1>3. \A t \in Tab : Ahead(s.version, t, {})
  BY DEF Ahead, Newest
<1> QED BY <1>1, <1>2, <1>3 DEF HandlerOrder

\* What a step of a handler does to the others.
Deals(h) ==
  /\ Onward /\ BuildOrder'
  /\ (\A b \in Batch : Closed(b)') /\ Stored' \subseteq Out
  /\ \E n : /\ handler' = [handler EXCEPT ![h] = n] /\ HandlerOrder(n)' /\ n.pc # "idle"
            /\ n.entries = handler[h].entries

LEMMA DealsSame ==
  ASSUME CoreInv, OrderInv, NEW h \in Handler, NEW n \in SP!HandlerState,
         handler' = [handler EXCEPT ![h] = n], HandlerOrder(n), n.pc # "idle",
         n.entries = handler[h].entries, UNCHANGED << build, view, edited >>
  PROVE  Deals(h)
<1>1. Onward /\ Made' = Made
  BY OnwardSame DEF Made
<1>2. BuildOrder'
  BY <1>1, BuildKept DEF OrderInv
<1>3. (\A b \in Batch : Closed(b)') /\ Stored' \subseteq Out
  BY ClosedSame DEF OrderInv
<1>4. n.entries \in Batch
  BY BatchIs
<1>5. HandlerOrder(n)'
  BY <1>1, <1>4, OnwardHandler DEF OrderInv, BatchOrder, BuildOrder
<1> QED BY <1>1, <1>2, <1>3, <1>5 DEF Deals

LEMMA Answered ==
  ASSUME CoreInv, OrderInv, Later, NEW h \in Handler, NEW reply, SP!Answer(h, reply),
         reply = "ok" => Range(handler[h].entries) \subseteq handler[h].accepted
  PROVE  \E n : /\ handler' = [handler EXCEPT ![h] = n] /\ HandlerOrder(n)' /\ n.pc = "done"
                /\ n.entries = handler[h].entries
<1>1. PICK s \in SP!HandlerState : s = handler[h] /\ HandlerOrder(s)
  BY HandlerIs DEF OrderInv
<1>2. PICK n : n = [SP!Idle EXCEPT !.pc = "done", !.reply = reply, !.kind = s.kind,
                 !.entries = s.entries, !.denied = s.denied, !.version = s.version,
                 !.accepted = s.accepted]
  OBVIOUS
<1>3. handler' = [handler EXCEPT ![h] = n]
  BY <1>1, <1>2 DEF SP!Answer
<1>4. /\ n.pc = "done" /\ n.entries = s.entries /\ n.version = s.version /\ n.reply = reply
      /\ n.accepted = s.accepted /\ n.row.lastTx = NoTx
  BY <1>2 DEF SP!Idle, SP!EmptyRow
<1>5. s.version \in Nat /\ s.version <= build.version
  BY <1>1 DEF SP!HandlerState, HandlerOrder
<1>6. s.accepted \ CyclicEdits \subseteq Stored'
  BY <1>1 DEF HandlerOrder, Dealt, Later
<1>7. Left(n)' = {}
  BY <1>4 DEF Left, Loading, Attempting
<1>8. Goes(n)' /\ Dealt(n)'
  BY <1>1, <1>4, <1>6 DEF Goes, Dealt, Loading, Started, Attempting, Range, NoTx
<1>9. n.version <= build'.version
  BY <1>4, <1>5 DEF Later
<1>10. \A t \in Tab : Ahead(n.version, t, {})'
  BY <1>9 DEF Ahead, Newest
<1> QED BY <1>1, <1>3, <1>4, <1>7, <1>8, <1>9, <1>10 DEF HandlerOrder

LEMMA DealsAnswer ==
  ASSUME CoreInv, OrderInv, NEW h \in Handler, NEW reply, SP!Answer(h, reply),
         reply = "ok" => Range(handler[h].entries) \subseteq handler[h].accepted,
         UNCHANGED << build, view, edited >>
  PROVE  Deals(h)
<1>1. Onward /\ Made' = Made /\ Later
  BY OnwardSame DEF Made, Onward
<1>2. BuildOrder'
  BY <1>1, BuildKept DEF OrderInv
<1>3. (\A b \in Batch : Closed(b)') /\ Stored' \subseteq Out
  BY ClosedSame DEF OrderInv
<1>4. PICK n : /\ handler' = [handler EXCEPT ![h] = n] /\ HandlerOrder(n)' /\ n.pc = "done"
               /\ n.entries = handler[h].entries
  BY <1>1, Answered
<1> QED BY <1>1, <1>2, <1>3, <1>4 DEF Deals

\* The edits of an attempt are saved: they were made after what their page has
\* saved before, and before what is left of the request.
LEMMA OrderCommit ==
  ASSUME CoreInv, SP!CasInv, OrderInv, NEW h \in Handler, NEW s \in SP!HandlerState,
         s = handler[h], s.pc = "commit", build.version = s.version, build' = SP!NewRow(s),
         UNCHANGED << view, edited >>
  PROVE  /\ Onward /\ BuildOrder' /\ (\A b \in Batch : Closed(b)') /\ Stored' \subseteq Out
         /\ Stored' = Stored \cup Range(s.cur) /\ build'.version = s.version + 1
         /\ build'.lastTx \in Stored'
<1>1. /\ HandlerOrder(s) /\ BuildOrder /\ BatchOrder /\ s.entries \in Batch
  BY BatchIs DEF OrderInv
<1>2. PICK cur \in Seq(Tx) : cur = s.cur
  BY DEF SP!HandlerState
<1>3. /\ Range(cur) \cup Range(s.todo) \subseteq Range(s.entries) /\ Increasing(cur)
      /\ \A x \in Range(cur), y \in Range(s.todo) : x < y
      /\ Left(s) = Range(cur) \cup Range(s.todo)
  BY <1>1, <1>2 DEF HandlerOrder, Goes, Left, Loading, Attempting, Started
<1>4. cur # << >>
  BY <1>2 DEF CoreInv, SP!TypeInv, SP!Shape, SP!Working
<1>5. s.row = build
  <2>1. SP!Fresh(s, build)
    BY DEF SP!CasInv
  <2> QED BY <1>2, <1>4, <2>1 DEF SP!Fresh, SP!HasRow, SP!Working
<1>6. PICK log \in Seq(Tx) : log = build.log /\ Range(log) = Stored
  BY TypesOf DEF Stored
<1>7. PICK all \in Seq(Tx) : /\ all = log \o cur /\ Range(all) = Range(log) \cup Range(cur)
  <2>1. log \o cur \in Seq(Tx) /\ Range(log \o cur) = Range(log) \cup Range(cur)
    BY RangeOfConcat
  <2> QED BY <2>1
<1>8. build'.version = s.version + 1 /\ build'.log = all /\ build'.lastTx = cur[Len(cur)]
  BY <1>2, <1>5, <1>6, <1>7 DEF SP!NewRow, SP!LastTx
<1>9. Stored' = Range(all)
  BY <1>8 DEF Stored, Range
<1>10. Stored' = Stored \cup Range(cur)
  BY <1>6, <1>7, <1>9
<1>11. Onward /\ Made' = Made
  <2>1. Later
    BY <1>8, <1>10, TypesOf DEF Later, Made
  <2> QED BY <2>1 DEF Onward, Made
<1>12. \A t \in Tab : Newest(t, Range(cur))
  BY <1>1, <1>3 DEF HandlerOrder, Ahead, Newest
<1>13. ASSUME NEW t \in Tab, NEW j \in DOMAIN all, NEW k \in DOMAIN all, j < k,
              all[j] \in edited[t], all[k] \in edited[t]
       PROVE  all[j] < all[k]
  <2>1. /\ Len(log) \in Nat /\ Len(cur) \in Nat /\ DOMAIN all = 1 .. Len(log) + Len(cur)
        /\ DOMAIN log = 1 .. Len(log) /\ DOMAIN cur = 1 .. Len(cur)
        /\ \A i \in 1 .. Len(log) + Len(cur) : all[i] = IF i <= Len(log) THEN log[i] ELSE cur[i - Len(log)]
    BY <1>7
  <2>2. CASE k <= Len(log)
    <3>1. j \in DOMAIN log /\ k \in DOMAIN log /\ all[j] = log[j] /\ all[k] = log[k]
      BY <1>13, <2>1, <2>2
    <3> QED BY <1>1, <1>6, <1>13, <3>1 DEF BuildOrder
  <2>3. CASE j <= Len(log) /\ ~(k <= Len(log))
    <3>1. /\ j \in DOMAIN log /\ k - Len(log) \in DOMAIN cur
          /\ all[j] = log[j] /\ all[k] = cur[k - Len(log)]
      BY <1>13, <2>1, <2>3
    <3>2. all[j] \in Stored /\ all[k] \in Range(cur)
      BY <1>6, <3>1 DEF Range
    <3> QED BY <1>12, <1>13, <3>2 DEF Newest
  <2>4. CASE ~(j <= Len(log))
    <3>1. /\ j - Len(log) \in DOMAIN cur /\ k - Len(log) \in DOMAIN cur
          /\ j - Len(log) < k - Len(log)
          /\ all[j] = cur[j - Len(log)] /\ all[k] = cur[k - Len(log)]
      BY <1>13, <2>1, <2>4
    <3> QED BY <1>3, <3>1 DEF Increasing
  <2> QED BY <2>2, <2>3, <2>4
<1>14. build'.lastTx \in Stored'
  BY <1>4, <1>8, <1>10, HeadIn DEF Range
<1>15. Range(cur) \subseteq Range(s.entries) /\ Range(s.entries) \subseteq Made
  BY <1>1, <1>3 DEF BatchOrder
<1>16. BuildOrder'
  <2>1. Stored' \subseteq Made'
    BY <1>1, <1>10, <1>11, <1>15 DEF BuildOrder
  <2> QED BY <1>8, <1>13, <1>14, <2>1 DEF BuildOrder
<1>17. ASSUME NEW b \in Batch PROVE Closed(b)'
  <2> SUFFICES ASSUME NEW i \in DOMAIN b, NEW j \in DOMAIN b, i < j, b[j] \in Stored',
                      b[i] \notin CyclicEdits
               PROVE  b[i] \in Stored'
    BY DEF Closed
  <2>1. CASE b[j] \in Stored
    BY <1>1, <1>10, <2>1 DEF BatchOrder, Closed
  <2>2. CASE b[j] \in Range(cur)
    <3>1. b = s.entries
      <4>1. b[j] \in Range(b) \cap Range(s.entries)
        BY <1>15, <2>2 DEF Range
      <4>2. \A c \in Batch : Range(b) \cap Range(c) # {} => b = c
        BY <1>1 DEF BatchOrder
      <4> QED BY <1>1, <4>1, <4>2
    <3>2. b[i] < b[j] /\ b[i] \in Range(s.entries) /\ b[i] \in Tx /\ b[j] \in Tx
      <4>1. b \in Seq(Tx)
        BY <3>1 DEF SP!HandlerState
      <4> QED BY <1>1, <3>1, <4>1 DEF BatchOrder, Increasing, Range
    <3>3. b[i] \notin Range(s.todo)
      <4> SUFFICES ASSUME b[i] \in Range(s.todo) PROVE FALSE
        OBVIOUS
      <4>1. b[j] < b[i]
        BY <1>3, <2>2
      <4> QED BY <3>2, <4>1, TypesOf
    <3> QED BY <1>1, <1>3, <1>10, <3>2, <3>3 DEF HandlerOrder, Dealt, Started, Attempting
  <2> QED BY <1>10, <2>1, <2>2
<1>18. Stored' \subseteq Out
  BY <1>1, <1>10, <1>15 DEF Out
<1> QED BY <1>2, <1>8, <1>10, <1>11, <1>14, <1>16, <1>17, <1>18

LEMMA DealsCommit ==
  ASSUME CoreInv, SP!CasInv, OrderInv, NEW h \in Handler, SP!Commit(h), UNCHANGED << view, edited >>
  PROVE  Deals(h)
<1>1. PICK s \in SP!HandlerState : s = handler[h] /\ HandlerOrder(s) /\ s.pc = "commit"
  BY HandlerIs DEF OrderInv, SP!Commit
<1>2. build.version = s.version /\ build' = SP!NewRow(s)
  BY <1>1 DEF SP!Commit
<1>3. /\ Onward /\ BuildOrder' /\ (\A b \in Batch : Closed(b)') /\ Stored' \subseteq Out
      /\ Stored' = Stored \cup Range(s.cur) /\ build'.version = s.version + 1
      /\ build'.lastTx \in Stored'
  BY <1>1, <1>2, OrderCommit
<1>4. PICK n : n = [s EXCEPT !.row = SP!NewRow(s), !.version = s.version + 1, !.pc = "next",
                             !.accepted = @ \cup Range(s.cur)]
  OBVIOUS
<1>5. handler' = [handler EXCEPT ![h] = n]
  BY <1>1, <1>4 DEF SP!Commit, SP!Saved, SP!Range, Range
<1>6. /\ n.pc = "next" /\ n.entries = s.entries /\ n.version = s.version + 1 /\ n.kind = s.kind
      /\ n.single = s.single /\ n.todo = s.todo /\ n.cur = s.cur
      /\ n.accepted = s.accepted \cup Range(s.cur) /\ n.row = SP!NewRow(s)
  BY <1>4 DEF SP!HandlerState
<1>7. n.row.version = n.version /\ n.row.lastTx = build'.lastTx
  BY <1>2, <1>6 DEF SP!NewRow
<1>8. s.version \in Nat /\ s.todo \in Seq(Tx)
  BY DEF SP!HandlerState
<1>9. Goes(n)'
  <2>1. /\ s.kind = "browser" /\ Range(s.cur) \cup Range(s.todo) \subseteq Range(s.entries)
        /\ Increasing(s.cur) /\ Increasing(s.todo) /\ (~s.single => s.todo = << >>)
    BY <1>1 DEF HandlerOrder, Goes, Started, Attempting
  <2>2. Goes(n)
    BY <1>6, <1>7, <2>1 DEF Goes, Loading, Started, Attempting
  <2> QED BY <2>2 DEF Goes, Loading, Started, Attempting, Increasing, Range, Tx
<1>10. Left(n)' = Range(s.todo)
  BY <1>6 DEF Left, Loading, Attempting, Range
<1>11. Left(s) = Range(s.cur) \cup Range(s.todo)
  BY <1>1 DEF Left, Loading, Attempting
<1>12. Dealt(n)'
  <2>1. (Range(s.entries) \ Range(s.todo)) \ CyclicEdits \subseteq Stored'
    BY <1>1, <1>3, <1>11 DEF HandlerOrder, Dealt, Started, Attempting
  <2>2. (s.accepted \cup Range(s.cur)) \ CyclicEdits \subseteq Stored'
    BY <1>1, <1>3 DEF HandlerOrder, Dealt
  <2>3. (Range(n.entries) \ Left(n)') \ CyclicEdits \subseteq Stored'
    BY <1>6, <1>10, <2>1
  <2> QED BY <1>3, <1>6, <1>7, <2>2, <2>3 DEF Dealt, Range
<1>13. ASSUME NEW t \in Tab PROVE Ahead(n.version, t, Range(s.todo))'
  <2>1. Newest(t, Left(s))
    BY <1>1, <1>2 DEF HandlerOrder, Ahead
  <2>2. \A x \in Range(s.cur), y \in Range(s.todo) : x < y
    BY <1>1 DEF HandlerOrder, Goes, Attempting
  <2>3. Newest(t, Range(s.todo))'
    BY <1>3, <1>11, <2>1, <2>2 DEF Newest, Range
  <2>4. n.version <= build'.version
    BY <1>3, <1>6, <1>8
  <2> QED BY <2>3, <2>4 DEF Ahead
<1>14. n.version <= build'.version
  BY <1>3, <1>6, <1>8
<1>15. HandlerOrder(n)'
  BY <1>9, <1>10, <1>12, <1>13, <1>14 DEF HandlerOrder, Range
<1> QED BY <1>1, <1>3, <1>5, <1>6, <1>15 DEF Deals

\* The last edit of a batch was saved: so were those before it.
LEMMA DealsSaved ==
  ASSUME CoreInv, SP!CasInv, OrderInv, NEW h \in Handler, SP!AlreadySaved(h),
         UNCHANGED << view, edited >>
  PROVE  Deals(h)
<1>1. PICK s \in SP!HandlerState : s = handler[h] /\ HandlerOrder(s) /\ s.pc = "patch"
  BY HandlerIs DEF OrderInv, SP!AlreadySaved
<1>2. s.version # s.row.version /\ UNCHANGED build
  BY <1>1 DEF SP!AlreadySaved
<1>3. ~s.single /\ s.todo = << >> /\ s.cur = s.entries /\ s.kind = "browser"
  BY <1>1, <1>2 DEF HandlerOrder, Goes, Started, Attempting
<1>4. PICK txs \in Seq(Tx) : txs = s.cur /\ txs \in Batch
  BY <1>1, <1>3, BatchIs DEF SP!HandlerState
<1>5. txs # << >>
  BY <1>1, <1>4 DEF CoreInv, SP!TypeInv, SP!Shape, SP!Working
<1>6. txs[Len(txs)] \in Stored
  <2>1. txs[Len(txs)] = s.row.lastTx /\ s.row.lastTx \in Stored \cup {NoTx}
    BY <1>1, <1>4 DEF SP!AlreadySaved, SP!LastTx, HandlerOrder, Dealt
  <2>2. txs[Len(txs)] \in Tx
    BY <1>5, HeadIn
  <2> QED BY <2>1, <2>2, TypesOf DEF NoTx
<1>7. Range(txs) \ CyclicEdits \subseteq Stored
  <2> SUFFICES ASSUME NEW i \in DOMAIN txs, txs[i] \notin CyclicEdits PROVE txs[i] \in Stored
    BY DEF Range
  <2>1. Len(txs) \in DOMAIN txs /\ (i = Len(txs) \/ i < Len(txs))
    BY <1>5
  <2> QED BY <1>4, <1>6, <2>1 DEF OrderInv, BatchOrder, Closed
<1>8. s.row.version <= build.version /\ s.row.version \in Nat
  <2>1. SP!Fresh(s, build)
    BY <1>1 DEF SP!CasInv
  <2> QED BY <1>1, <1>4, <1>5, <2>1, HandlerIs DEF SP!Fresh, SP!HasRow, SP!Working
<1>9. PICK n : n = [s EXCEPT !.pc = "next", !.accepted = @ \cup Range(s.cur), !.version = s.row.version]
  OBVIOUS
<1>10. handler' = [handler EXCEPT ![h] = n]
  BY <1>1, <1>9 DEF SP!AlreadySaved, SP!Saved, SP!Range, Range
<1>11. /\ n.pc = "next" /\ n.entries = s.entries /\ n.version = s.row.version /\ n.kind = s.kind
       /\ n.single = s.single /\ n.todo = s.todo /\ n.cur = s.cur
       /\ n.accepted = s.accepted \cup Range(s.cur) /\ n.row = s.row
  BY <1>9 DEF SP!HandlerState
<1>12. n \in SP!HandlerState
  <2>1. Range(s.cur) \subseteq Tx
    BY <1>4 DEF Range
  <2> QED BY <1>8, <1>9, <2>1 DEF SP!HandlerState, SP!HandlerPc
<1>13. Left(n) = {}
  BY <1>3, <1>11 DEF Left, Loading, Attempting, Range
<1>14. Goes(n)
  BY <1>1, <1>3, <1>11 DEF HandlerOrder, Goes, Loading, Started, Attempting
<1>15. Dealt(n)
  <2>1. (s.accepted \cup Range(s.cur)) \ CyclicEdits \subseteq Stored
    BY <1>1, <1>4, <1>7 DEF HandlerOrder, Dealt
  <2> QED BY <1>1, <1>3, <1>4, <1>7, <1>11, <2>1 DEF HandlerOrder, Dealt
<1>16. \A t \in Tab : Ahead(n.version, t, {})
  BY <1>8, <1>11 DEF Ahead, Newest
<1>17. HandlerOrder(n)
  BY <1>8, <1>11, <1>13, <1>14, <1>15, <1>16 DEF HandlerOrder
<1> QED BY <1>1, <1>2, <1>10, <1>11, <1>12, <1>17, DealsSame

\* The same edits are left, or fewer.
LEMMA StillAhead ==
  ASSUME NEW s, HandlerOrder(s), NEW n, n.version = s.version, Left(n) \subseteq Left(s),
         Goes(n), Dealt(n)
  PROVE  HandlerOrder(n)
BY DEF HandlerOrder, Ahead, Newest

\* An edit cannot be applied: the batch is tried entry by entry, an entry is
\* skipped.
LEMMA DealsReject ==
  ASSUME CoreInv, OrderInv, NEW h \in Handler, SP!RejectCyclic(h), UNCHANGED << view, edited >>
  PROVE  Deals(h)
<1>1. PICK s \in SP!HandlerState : s = handler[h] /\ HandlerOrder(s) /\ s.pc = "patch"
  BY HandlerIs DEF OrderInv, SP!RejectCyclic
<1>2. s.kind = "browser" /\ s.version = s.row.version /\ UNCHANGED build /\ Goes(s)
  BY <1>1 DEF SP!RejectCyclic, HandlerOrder, Goes, Started, Attempting
<1>3. CASE ~s.single
  <2>1. PICK n : n = [s EXCEPT !.pc = "next", !.single = TRUE, !.todo = s.entries]
    OBVIOUS
  <2>2. handler' = [handler EXCEPT ![h] = n]
    <3>1. handler' = [handler EXCEPT ![h].pc = "next", ![h].single = TRUE, ![h].todo = s.entries]
      BY <1>1, <1>2, <1>3 DEF SP!RejectCyclic
    <3> QED BY <1>1, <2>1, <3>1, TypesOf
  <2>3. n \in SP!HandlerState
    BY <2>1 DEF SP!HandlerState, SP!HandlerPc
  <2>4. /\ n.pc = "next" /\ n.entries = s.entries /\ n.version = s.version /\ n.kind = s.kind
        /\ n.single /\ n.todo = s.entries /\ n.cur = s.cur
        /\ n.accepted = s.accepted /\ n.row = s.row
    BY <2>1 DEF SP!HandlerState
  <2>5. s.cur = s.entries /\ Increasing(s.entries)
    BY <1>1, <1>2, <1>3 DEF Goes, Started, Attempting
  <2>6. Left(n) = Range(s.entries) /\ Left(n) \subseteq Left(s)
    BY <1>1, <2>4, <2>5 DEF Left, Loading, Attempting
  <2>7. Goes(n)
    BY <1>1, <1>2, <2>4, <2>5 DEF Goes, Loading, Started, Attempting
  <2>8. Dealt(n)
    BY <1>1, <2>4, <2>6 DEF HandlerOrder, Dealt
  <2>9. HandlerOrder(n)
    BY <1>1, <2>4, <2>6, <2>7, <2>8, StillAhead
  <2> QED BY <1>1, <1>2, <2>2, <2>3, <2>4, <2>9, DealsSame
<1>4. CASE s.single
  <2>1. PICK n : n = [s EXCEPT !.pc = "next"]
    OBVIOUS
  <2>2. handler' = [handler EXCEPT ![h] = n]
    <3>1. handler' = [handler EXCEPT ![h].pc = "next"]
      BY <1>1, <1>2, <1>4 DEF SP!RejectCyclic
    <3> QED BY <1>1, <2>1, <3>1, TypesOf
  <2>3. n \in SP!HandlerState
    BY <2>1 DEF SP!HandlerState, SP!HandlerPc
  <2>4. /\ n.pc = "next" /\ n.entries = s.entries /\ n.version = s.version /\ n.kind = s.kind
        /\ n.single /\ n.todo = s.todo /\ n.cur = s.cur
        /\ n.accepted = s.accepted /\ n.row = s.row
    BY <1>4, <2>1 DEF SP!HandlerState
  <2>5. Range(s.cur) \subseteq CyclicEdits
    <3>1. PICK e \in Tx : s.cur = << e >>
      BY <1>1, <1>2, <1>4 DEF Goes, Attempting
    <3>2. Range(s.cur) = {e}
      BY <3>1 DEF Range
    <3>3. Range(s.cur) \cap CyclicEdits # {}
      BY <1>1 DEF SP!RejectCyclic, SP!Range, Range
    <3> QED BY <3>2, <3>3
  <2>6. Left(n) = Range(s.todo) /\ Left(s) = Range(s.cur) \cup Range(s.todo)
    BY <1>1, <2>4 DEF Left, Loading, Attempting
  <2>7. Goes(n)
    BY <1>1, <1>2, <1>4, <2>4 DEF Goes, Loading, Started, Attempting
  <2>8. Dealt(n)
    <3>1. (Range(s.entries) \ Left(s)) \ CyclicEdits \subseteq Stored
      BY <1>1 DEF HandlerOrder, Dealt, Started, Attempting
    <3>2. (Range(s.entries) \ Left(n)) \ CyclicEdits \subseteq Stored
      BY <2>5, <2>6, <3>1
    <3> QED BY <1>1, <2>4, <3>2 DEF HandlerOrder, Dealt
  <2>9. HandlerOrder(n)
    BY <1>1, <2>4, <2>6, <2>7, <2>8, StillAhead
  <2> QED BY <1>1, <1>2, <2>2, <2>3, <2>4, <2>9, DealsSame
<1> QED BY <1>3, <1>4

LEMMA DealsCompute ==
  ASSUME CoreInv, OrderInv, NEW h \in Handler, SP!ComputeUpdate(h), UNCHANGED << view, edited >>
  PROVE  Deals(h)
<1>1. PICK s \in SP!HandlerState : s = handler[h] /\ HandlerOrder(s) /\ s.pc = "patch"
  BY HandlerIs DEF OrderInv, SP!ComputeUpdate
<1>2. PICK n : n = [s EXCEPT !.pc = "commit"]
  OBVIOUS
<1>3. handler' = [handler EXCEPT ![h] = n] /\ UNCHANGED build
  <2>1. handler' = [handler EXCEPT ![h].pc = "commit"] /\ UNCHANGED build
    BY DEF SP!ComputeUpdate
  <2> QED BY <1>1, <1>2, <2>1, TypesOf
<1>4. n \in SP!HandlerState
  BY <1>2 DEF SP!HandlerState, SP!HandlerPc
<1>5. /\ n.pc = "commit" /\ n.entries = s.entries /\ n.version = s.version /\ n.kind = s.kind
      /\ n.single = s.single /\ n.todo = s.todo /\ n.cur = s.cur
      /\ n.accepted = s.accepted /\ n.row = s.row
  BY <1>2 DEF SP!HandlerState
<1>6. Left(n) = Left(s)
  BY <1>1, <1>5 DEF Left, Loading, Attempting
<1>7. Goes(n)
  BY <1>1, <1>5 DEF HandlerOrder, Goes, Loading, Started, Attempting
<1>8. Dealt(n)
  BY <1>1, <1>5, <1>6 DEF HandlerOrder, Dealt, Started, Attempting
<1>9. HandlerOrder(n)
  BY <1>1, <1>5, <1>6, <1>7, <1>8, StillAhead
<1> QED BY <1>1, <1>3, <1>4, <1>5, <1>9, DealsSame

LEMMA HeadOfMore ==
  ASSUME NEW seq \in Seq(Tx), seq # << >>, Increasing(seq)
  PROVE  /\ Head(seq) \in Tx /\ Tail(seq) \in Seq(Tx) /\ Increasing(Tail(seq))
         /\ Range(seq) = {Head(seq)} \cup Range(Tail(seq))
         /\ \A y \in Range(Tail(seq)) : Head(seq) < y
<1>1. PICK rest \in Seq(Tx) : rest = Tail(seq)
  BY TailOf
<1>2. /\ Len(seq) \in Nat /\ DOMAIN seq = 1 .. Len(seq) /\ Head(seq) = seq[1] /\ 1 \in DOMAIN seq
      /\ Head(seq) \in Range(seq)
  BY HeadIn
<1>3. /\ Len(rest) = Len(seq) - 1 /\ DOMAIN rest = 1 .. Len(rest)
      /\ \A k \in 1 .. Len(rest) : rest[k] = seq[k + 1]
  BY <1>1
<1>4. ASSUME NEW k \in DOMAIN rest
      PROVE  k \in Nat /\ k + 1 \in DOMAIN seq /\ rest[k] = seq[k + 1] /\ 1 < k + 1
  BY <1>2, <1>3
<1>5. ASSUME NEW k \in DOMAIN seq, k # 1 PROVE k - 1 \in DOMAIN rest /\ rest[k - 1] = seq[k]
  BY <1>2, <1>3, <1>5
<1>6. Increasing(rest)
  <2>1. \A i, j \in DOMAIN rest : i < j => i + 1 < j + 1
    BY <1>4
  <2> QED BY <1>4, <2>1 DEF Increasing
<1>7. Range(seq) = {seq[1]} \cup Range(rest)
  <2>1. Range(rest) \subseteq Range(seq)
    BY <1>4 DEF Range
  <2>2. \A k \in DOMAIN seq : seq[k] \in {seq[1]} \cup Range(rest)
    BY <1>5 DEF Range
  <2> QED BY <1>2, <2>1, <2>2 DEF Range
<1>8. \A y \in Range(rest) : seq[1] < y
  BY <1>2, <1>4 DEF Increasing, Range
<1>9. Head(seq) \in Tx
  BY <1>2 DEF Range
<1> QED BY <1>1, <1>2, <1>6, <1>7, <1>8, <1>9

LEMMA DealsNext ==
  ASSUME CoreInv, OrderInv, NEW h \in Handler, SP!NextEntry(h), UNCHANGED << view, edited >>
  PROVE  Deals(h)
<1>1. PICK s \in SP!HandlerState : s = handler[h] /\ HandlerOrder(s) /\ s.pc = "next"
  BY HandlerIs DEF OrderInv, SP!NextEntry
<1>2. UNCHANGED build /\ s.todo # << >> /\ Goes(s)
  BY <1>1 DEF SP!NextEntry, HandlerOrder
<1>3. PICK todo \in Seq(Tx) : todo = s.todo /\ Increasing(todo)
  BY <1>1, <1>2 DEF Goes, Started, SP!HandlerState
<1>4. PICK e \in Tx : e = Head(todo)
  BY <1>2, <1>3, HeadOfMore
<1>5. PICK rest \in Seq(Tx) : /\ rest = Tail(todo) /\ Increasing(rest)
                              /\ Range(todo) = {e} \cup Range(rest)
                              /\ \A y \in Range(rest) : e < y
  <2>1. /\ Tail(todo) \in Seq(Tx) /\ Increasing(Tail(todo))
        /\ Range(todo) = {Head(todo)} \cup Range(Tail(todo))
        /\ \A y \in Range(Tail(todo)) : Head(todo) < y
    BY <1>2, <1>3, HeadOfMore
  <2> QED BY <1>4, <2>1
<1>6. PICK cur \in Seq(Tx) : cur = << e >> /\ Range(cur) = {e} /\ Increasing(cur)
  <2>1. << e >> \in Seq(Tx) /\ Range(<< e >>) = {e} /\ Increasing(<< e >>)
    BY DEF Range, Increasing
  <2> QED BY <2>1
<1>7. PICK n : n = [s EXCEPT !.pc = "patch", !.cur = cur, !.todo = rest]
  OBVIOUS
<1>8. handler' = [handler EXCEPT ![h] = n]
  <2>1. handler' = [handler EXCEPT ![h].pc = "patch", ![h].cur = cur, ![h].todo = rest]
    BY <1>1, <1>3, <1>4, <1>5, <1>6 DEF SP!NextEntry
  <2> QED BY <1>1, <1>7, <2>1, TypesOf
<1>9. n \in SP!HandlerState
  BY <1>7 DEF SP!HandlerState, SP!HandlerPc
<1>10. /\ n.pc = "patch" /\ n.entries = s.entries /\ n.version = s.version /\ n.kind = s.kind
       /\ n.single = s.single /\ n.todo = rest /\ n.cur = cur
       /\ n.accepted = s.accepted /\ n.row = s.row
  BY <1>7 DEF SP!HandlerState
<1>11. s.single /\ s.kind = "browser" /\ s.row.version = s.version /\ Range(todo) \subseteq Range(s.entries)
  BY <1>1, <1>2, <1>3 DEF Goes, Started
<1>12. Left(n) = Left(s)
  BY <1>1, <1>3, <1>5, <1>6, <1>10 DEF Left, Loading, Attempting
<1>13. Goes(n)
  BY <1>5, <1>6, <1>10, <1>11 DEF Goes, Loading, Started, Attempting
<1>14. Dealt(n)
  BY <1>1, <1>10, <1>12 DEF HandlerOrder, Dealt, Started
<1>15. HandlerOrder(n)
  BY <1>1, <1>10, <1>12, <1>13, <1>14, StillAhead
<1> QED BY <1>1, <1>2, <1>8, <1>9, <1>10, <1>15, DealsSame

LEMMA DealsLoadState ==
  ASSUME CoreInv, OrderInv, NEW h \in Handler, SP!LoadState(h), UNCHANGED << view, edited >>
  PROVE  Deals(h)
<1>1. PICK s \in SP!HandlerState : s = handler[h] /\ HandlerOrder(s) /\ s.pc = "loadState"
  BY HandlerIs DEF OrderInv, SP!LoadState
<1>2. /\ UNCHANGED build /\ s.kind = "browser" /\ ~s.single /\ s.accepted = {}
      /\ s.cur = << >> /\ s.todo = << >>
  BY <1>1 DEF SP!LoadState, HandlerOrder, Goes, Loading
<1>3. build.version \in Nat /\ Range(<< >>) = {} /\ Increasing(<< >>)
  BY TypesOf DEF Range, Increasing
<1>4. CASE s.entries = << >>
  <2>1. PICK n : n = [s EXCEPT !.pc = "next", !.version = build.version]
    OBVIOUS
  <2>2. handler' = [handler EXCEPT ![h] = n]
    <3>1. handler' = [handler EXCEPT ![h].pc = "next", ![h].version = build.version]
      BY <1>1, <1>4 DEF SP!LoadState
    <3> QED BY <1>1, <2>1, <3>1, TypesOf
  <2>3. n \in SP!HandlerState
    BY <1>3, <2>1 DEF SP!HandlerState, SP!HandlerPc
  <2>4. /\ n.pc = "next" /\ n.entries = s.entries /\ n.version = build.version /\ n.kind = s.kind
        /\ n.single = s.single /\ n.todo = s.todo /\ n.cur = s.cur
        /\ n.accepted = s.accepted /\ n.row = s.row
    BY <2>1 DEF SP!HandlerState
  <2>5. Left(n) = {}
    BY <1>2, <1>3, <2>4 DEF Left, Loading, Attempting
  <2>6. Goes(n)
    BY <1>2, <1>3, <2>4 DEF Goes, Loading, Started, Attempting
  <2>7. Dealt(n)
    BY <1>1, <1>2, <1>3, <1>4, <2>4 DEF HandlerOrder, Dealt
  <2>8. \A t \in Tab : Ahead(n.version, t, {})
    BY <1>3, <2>4 DEF Ahead, Newest
  <2>9. HandlerOrder(n)
    BY <1>3, <2>4, <2>5, <2>6, <2>7, <2>8 DEF HandlerOrder
  <2> QED BY <1>1, <1>2, <2>2, <2>3, <2>4, <2>9, DealsSame
<1>5. CASE s.entries # << >>
  <2>1. PICK n : n = [s EXCEPT !.pc = "loadBuild", !.seen = build.version]
    OBVIOUS
  <2>2. handler' = [handler EXCEPT ![h] = n]
    <3>1. handler' = [handler EXCEPT ![h].pc = "loadBuild", ![h].seen = build.version]
      BY <1>1, <1>5 DEF SP!LoadState
    <3> QED BY <1>1, <2>1, <3>1, TypesOf
  <2>3. n \in SP!HandlerState
    BY <1>3, <2>1 DEF SP!HandlerState, SP!HandlerPc
  <2>4. /\ n.pc = "loadBuild" /\ n.entries = s.entries /\ n.version = s.version /\ n.kind = s.kind
        /\ n.single = s.single /\ n.todo = s.todo /\ n.cur = s.cur
        /\ n.accepted = s.accepted /\ n.row = s.row
    BY <2>1 DEF SP!HandlerState
  <2>5. Left(n) = Left(s)
    BY <1>1, <2>4 DEF Left, Loading, Attempting
  <2>6. Goes(n)
    BY <1>2, <2>4 DEF Goes, Loading, Started, Attempting
  <2>7. Dealt(n)
    BY <1>1, <2>4 DEF HandlerOrder, Dealt, Started, Attempting
  <2>8. HandlerOrder(n)
    BY <1>1, <2>4, <2>5, <2>6, <2>7, StillAhead
  <2> QED BY <1>1, <1>2, <2>2, <2>3, <2>4, <2>8, DealsSame
<1> QED BY <1>4, <1>5

LEMMA DealsLoadBuild ==
  ASSUME CoreInv, OrderInv, NEW h \in Handler, SP!LoadBuild(h), UNCHANGED << view, edited >>
  PROVE  Deals(h)
<1>1. PICK s \in SP!HandlerState : s = handler[h] /\ HandlerOrder(s) /\ s.pc = "loadBuild"
  BY HandlerIs DEF OrderInv, SP!LoadBuild
<1>2. /\ UNCHANGED build /\ s.kind = "browser" /\ ~s.single /\ s.accepted = {} /\ s.todo = << >>
  BY <1>1 DEF SP!LoadBuild, HandlerOrder, Goes, Loading
<1>3. PICK r \in SP!Row : r = [build EXCEPT !.version = s.seen] /\ r.lastTx = build.lastTx
  <2>1. build \in SP!Row /\ s.seen \in Nat
    BY <1>1, HandlerIs DEF CoreInv, SP!TypeInv, SP!TypeOK
  <2>2. /\ [build EXCEPT !.version = s.seen] \in SP!Row
        /\ [build EXCEPT !.version = s.seen].lastTx = build.lastTx
    BY <2>1 DEF SP!Row
  <2> QED BY <2>2
<1>4. PICK n : n = [s EXCEPT !.pc = "patch", !.row = r, !.cur = s.entries]
  OBVIOUS
<1>5. handler' = [handler EXCEPT ![h] = n]
  BY <1>1, <1>2, <1>3, <1>4 DEF SP!LoadBuild, SP!Shared
<1>6. n \in SP!HandlerState
  BY <1>4 DEF SP!HandlerState, SP!HandlerPc
<1>7. /\ n.pc = "patch" /\ n.entries = s.entries /\ n.version = s.version /\ n.kind = s.kind
      /\ n.single = s.single /\ n.todo = s.todo /\ n.cur = s.entries
      /\ n.accepted = s.accepted /\ n.row = r
  BY <1>4 DEF SP!HandlerState
<1>8. Increasing(s.entries)
  <2>1. s.entries \in Batch
    BY <1>1, BatchIs
  <2> QED BY <2>1 DEF OrderInv, BatchOrder
<1>9. Range(<< >>) = {} /\ Increasing(<< >>)
  BY DEF Range, Increasing
<1>10. Left(n) = Range(s.entries) /\ Left(s) = Range(s.entries)
  BY <1>1, <1>2, <1>7, <1>9 DEF Left, Loading, Attempting
<1>11. Goes(n)
  BY <1>2, <1>7, <1>8, <1>9 DEF Goes, Loading, Started, Attempting
<1>12. Dealt(n)
  BY <1>1, <1>2, <1>3, <1>7, <1>10 DEF OrderInv, BuildOrder, HandlerOrder, Dealt
<1>13. HandlerOrder(n)
  BY <1>1, <1>7, <1>10, <1>11, <1>12, StillAhead
<1> QED BY <1>1, <1>2, <1>5, <1>6, <1>7, <1>13, DealsSame

LEMMA DealsProgress ==
  ASSUME CoreInv, SP!CasInv, OrderInv, NEW h \in Handler, S!Progress(h), UNCHANGED << view, edited >>
  PROVE  Deals(h)
<1>1. SP!Progress(h)
  BY ProgressIs
<1>2. Goes(handler[h])
  BY DEF OrderInv, HandlerOrder
<1>3. ~SP!ApplyAssets(h) /\ ~SP!UpdatePreview(h)
  BY <1>2 DEF Goes, SP!ApplyAssets, SP!UpdatePreview
<1>4. ASSUME SP!VersionMismatch(h) \/ SP!LoseRace(h) PROVE Deals(h)
  <2>1. SP!Answer(h, "version_mismatched") /\ UNCHANGED build
    BY <1>4 DEF SP!VersionMismatch, SP!LoseRace
  <2> QED BY <2>1, DealsAnswer
<1>5. ASSUME SP!Finish(h) PROVE Deals(h)
  <2>1. PICK reply : /\ SP!Answer(h, reply) /\ UNCHANGED build
                     /\ reply = "ok" => Range(handler[h].entries) \subseteq handler[h].accepted
    BY <1>5 DEF SP!Finish, SP!Range, Range
  <2> QED BY <2>1, DealsAnswer
<1> QED BY <1>1, <1>3, <1>4, <1>5, DealsLoadState, DealsLoadBuild, DealsSaved, DealsReject,
           DealsCompute, DealsCommit, DealsNext DEF SP!Progress

\* A call fails, perhaps after the edits were saved.
LEMMA DealsFault ==
  ASSUME CoreInv, SP!CasInv, OrderInv, NEW h \in Handler, S!Refuse(h) \/ S!Fail(h),
         UNCHANGED << view, edited >>
  PROVE  Deals(h)
<1>1. SP!Refuse(h) \/ SP!Fail(h)
  BY OthersAre
<1>2. PICK reply : reply # "ok" /\ SP!Answer(h, reply)
  BY <1>1 DEF SP!Refuse, SP!Fail
<1>3. PICK s \in SP!HandlerState : s = handler[h] /\ Goes(s)
  BY HandlerIs DEF OrderInv, HandlerOrder
<1>4. UNCHANGED build \/ (s.pc = "commit" /\ build.version = s.version /\ build' = SP!NewRow(s))
  BY <1>1, <1>3 DEF SP!Refuse, SP!Fail, Goes
<1>5. CASE UNCHANGED build
  BY <1>2, <1>5, DealsAnswer
<1>6. CASE s.pc = "commit" /\ build.version = s.version /\ build' = SP!NewRow(s)
  <2>1. Onward /\ BuildOrder' /\ (\A b \in Batch : Closed(b)') /\ Stored' \subseteq Out
    BY <1>3, <1>6, OrderCommit
  <2>2. \E n : /\ handler' = [handler EXCEPT ![h] = n] /\ HandlerOrder(n)' /\ n.pc = "done"
               /\ n.entries = handler[h].entries
    BY <1>2, <2>1, Answered DEF Onward
  <2> QED BY <2>1, <2>2 DEF Deals
<1> QED BY <1>4, <1>5, <1>6

(***************************************************************************)
(* The steps of the composition.                                           *)
(***************************************************************************)
LEMMA OrderHandles ==
  ASSUME CoreInv, SP!CasInv, OrderInv, NEW h \in Handler, Handle(h) \/ HandlerFault(h)
  PROVE  OrderInv'
<1>1. UNCHANGED << queueVars, tabVars, conn >>
  BY DEF Handle, HandlerFault, netVars
<1>2. UNCHANGED << queue, status, loop, controller, completed, session, loaded, edited, doc, view, conn >>
  BY <1>1 DEF queueVars, tabVars
<1>3. Deals(h)
  BY <1>2, DealsProgress, DealsFault DEF Handle, HandlerFault
<1>4. PICK n : /\ handler' = [handler EXCEPT ![h] = n] /\ HandlerOrder(n)' /\ n.pc # "idle"
               /\ n.entries = handler[h].entries
  BY <1>3 DEF Deals
<1>5. Onward /\ BuildOrder' /\ (\A b \in Batch : Closed(b)') /\ Stored' \subseteq Out
  BY <1>3 DEF Deals
<1>6. Made' = Made
  BY <1>2 DEF Made
<1>7. ASSUME NEW g \in Handler PROVE handler'[g] = IF g = h THEN n ELSE handler[g]
  BY <1>4, TypesOf
<1>8. Batch' \subseteq Batch \cup {<< >>}
  BY <1>2, <1>4, <1>7, BatchShrinks
<1>9. BatchOrder' /\ Out' \subseteq Out
  BY <1>5, <1>6, <1>8, BatchKept DEF OrderInv
<1>10. PageOrder'
  BY <1>2, <1>6, PageKept DEF OrderInv
<1>11. ASSUME NEW u \in Tab PROVE TabOrder(u)'
  BY <1>2, <1>5, <1>9, OrderTab
<1>12. \A g \in Handler : HandlerOrder(handler[g])'
  BY <1>4, <1>5, HandlersOrdered
<1>13. ConnInv'
  <2>1. ASSUME NEW u \in Tab, NEW l \in Loop, conn[u][l] # NoHandler
        PROVE  /\ handler'[conn[u][l]].pc # "idle"
               /\ handler'[conn[u][l]].entries = handler[conn[u][l]].entries
    <3>1. PICK g \in Handler : g = conn[u][l]
      BY <2>1, TypesOf
    <3>2. handler[g].pc # "idle"
      BY <2>1, <3>1 DEF OrderInv, ConnInv
    <3> QED BY <1>4, <1>7, <3>1, <3>2
  <2> QED BY <1>2, <2>1, ConnKept DEF OrderInv
<1> QED BY <1>5, <1>9, <1>10, <1>11, <1>12, <1>13 DEF OrderInv

\* A request ends.
LEMMA IdleOrdered ==
  ASSUME CoreInv
  PROVE  HandlerOrder(SP!Idle) /\ SP!Idle.entries = << >>
<1>1. PICK s : s = SP!Idle
  OBVIOUS
<1>2. /\ s.pc = "idle" /\ s.version = 0 /\ s.row.lastTx = NoTx /\ s.accepted = {} /\ s.entries = << >>
  BY <1>1 DEF SP!Idle, SP!EmptyRow
<1>3. 0 <= build.version
  BY TypesOf
<1> QED BY <1>1, <1>2, <1>3, NothingLeft

LEMMA HandlersEnd ==
  ASSUME CoreInv, OrderInv, Onward, UNCHANGED build, NEW h \in Handler,
         handler' = [handler EXCEPT ![h] = SP!Idle]
  PROVE  /\ \A g \in Handler : HandlerOrder(handler[g])'
         /\ \A g \in Handler : handler'[g].entries \in {handler[g].entries, << >>}
<1>1. PICK n : n = SP!Idle
  OBVIOUS
<1>2. HandlerOrder(n) /\ n.entries = << >> /\ n \in SP!HandlerState
  BY <1>1, IdleOrdered, SP!IdleType, ServiceAssumptions
<1>3. HandlerOrder(n)'
  <2>1. Range(n.entries) \subseteq Made
    BY <1>2 DEF Range
  <2> QED BY <1>2, <2>1, OnwardHandler DEF OrderInv, BuildOrder
<1>4. ASSUME NEW g \in Handler PROVE handler'[g].entries \in {handler[g].entries, << >>}
  BY <1>1, <1>2, TypesOf
<1>5. \A g \in Handler : HandlerOrder(handler[g])'
  BY <1>1, <1>3, HandlersOrdered
<1> QED BY <1>4, <1>5

LEMMA OrderOrphan ==
  ASSUME CoreInv, OrderInv, NEW h \in Handler, Orphan(h)
  PROVE  OrderInv'
<1>1. UNCHANGED << queue, status, loop, controller, completed, session, loaded, edited, doc, view,
                   conn, build >>
  BY DEF Orphan, queueVars, tabVars, netVars, S!End
<1>2. handler' = [handler EXCEPT ![h] = SP!Idle]
  BY DEF Orphan, S!End, S!Idle, S!EmptyRow, SP!Idle, SP!EmptyRow
<1>3. Onward /\ Made' = Made
  BY <1>1, OnwardSame DEF Made
<1>4. /\ \A g \in Handler : HandlerOrder(handler[g])'
      /\ \A g \in Handler : handler'[g].entries \in {handler[g].entries, << >>}
  BY <1>1, <1>2, <1>3, HandlersEnd
<1>5. BatchOrder' /\ Out' \subseteq Out
  <2>1. Batch' \subseteq Batch \cup {<< >>}
    BY <1>1, <1>4, BatchShrinks
  <2> QED BY <1>1, <1>3, <2>1, ClosedSame, BatchKept DEF OrderInv
<1>6. ASSUME NEW u \in Tab PROVE TabOrder(u)'
  BY <1>1, <1>3, <1>5, OrderTab
<1>7. PageOrder' /\ BuildOrder'
  BY <1>1, <1>3, PageKept, BuildKept DEF OrderInv
<1>8. ConnInv'
  <2>1. ASSUME NEW u \in Tab, NEW k \in Loop, conn[u][k] # NoHandler
        PROVE  handler'[conn[u][k]] = handler[conn[u][k]] /\ handler[conn[u][k]].pc # "idle"
    <3>1. conn[u][k] # h
      BY DEF Orphan, Connected
    <3> QED BY <1>2, <2>1, <3>1, TypesOf DEF OrderInv, ConnInv
  <2> QED BY <1>1, <2>1, ConnKept DEF OrderInv
<1> QED BY <1>4, <1>5, <1>6, <1>7, <1>8 DEF OrderInv

(***************************************************************************)
(* The loops.                                                              *)
(***************************************************************************)

\* A loop of a tab goes on, its queue is left alone or taken.
LEMMA LoopTurns ==
  ASSUME CoreInv, OrderInv, UNCHANGED << build, view, edited, loaded, controller >>,
         NEW t \in Tab, NEW l \in Loop, loop[t][l].pc # "off", NEW n \in Q!LoopState, Shape(n),
         loop' = [loop EXCEPT ![t][l] = n], n.aborted = loop[t][l].aborted,
         queue'[t] \in {queue[t], << >>}, Of(t, n.rest), n.version <= build.version,
         n.pc \in Waiting => Ahead(n.version, t, Range(Head(n.rest).txs)),
         \A x, y \in Tx : Holds(n.rest, x) /\ Holds(queue'[t], y) => x < y,
         completed'[t] \ CyclicEdits \subseteq Stored,
         \A x \in Unsent(t)', y \in Out' \cap edited[t] : y < x
  PROVE  TabOrder(t)'
<1>1. Onward /\ Stored \subseteq Made /\ edited[t] \subseteq Made /\ TabOrder(t)
  BY OnwardSame DEF OrderInv, BuildOrder, PageOrder
<1>2. PICK q \in Seq(Q!Command) : q = queue'[t] /\ Of(t, q) /\ (\A y : Holds(q, y) => Holds(queue[t], y))
  <2>1. queue[t] \in Seq(Q!Command) /\ << >> \in Seq(Q!Command)
    BY LoopTypes
  <2> QED BY <1>1, <2>1, NothingOrdered, NothingHeld DEF TabOrder
<1>3. Of(t, queue[t])'
  <2>1. Of(t, q)'
    BY <1>1, <1>2, OnwardOf
  <2> QED BY <1>2, <2>1 DEF Of, InOrder, Dated, Holds, IsEdits, Increasing, Range
<1>4. LoopOrder(t, n)'
  <2>1. n.rest \in Seq(Q!Command) /\ n.version \in Int
    BY StateTypes
  <2>2. Of(t, n.rest)'
    BY <1>1, <2>1, OnwardOf
  <2>3. ASSUME n.pc \in Waiting PROVE Ahead(n.version, t, Range(Head(n.rest).txs))'
    <3>1. PICK xs : xs = Range(Head(n.rest).txs)
      OBVIOUS
    <3>2. xs \subseteq Made
      BY <1>1, <2>3, <3>1, SentIs
    <3>3. Ahead(n.version, t, xs)'
      BY <1>1, <2>1, <2>3, <3>1, <3>2, OnwardAhead
    <3> QED BY <3>1, <3>3 DEF Range
  <2>4. \A x, y \in Tx : Holds(n.rest, x)' /\ Holds(queue[t], y)' => x < y
    BY DEF Holds, IsEdits, Range
  <2> QED BY <2>2, <2>3, <2>4 DEF LoopOrder, Waiting, Tx
<1>5. ASSUME NEW k \in Loop, k # l PROVE LoopOrder(t, loop[t][k])'
  <2>1. PICK s \in Q!LoopState : s = loop[t][k] /\ Shape(s) /\ LoopOrder(t, s)
    BY <1>1, LoopIs DEF CoreInv, TabOrder
  <2>2. \A x, y \in Tx : Holds(s.rest, x) /\ Holds(queue'[t], y) => x < y
    BY <1>2, <2>1 DEF LoopOrder
  <2>3. LoopOrder(t, s)'
    BY <1>1, <2>1, <2>2, OnwardLoop
  <2>4. loop'[t][k] = s
    BY <1>5, <2>1, LoopTypes
  <2> QED BY <2>3, <2>4
<1>6. loop'[t][l] = n
  BY LoopTypes
<1>7. ASSUME NEW k \in Loop
      PROVE  LoopOrder(t, loop[t][k])' /\ (Q!Serving(t, k)' => k = controller'[t])
  <2>1. LoopOrder(t, loop[t][k])'
    BY <1>4, <1>5, <1>6
  <2>2. Q!Serving(t, k)' => Q!Serving(t, k)
    <3>1. k # l => loop'[t][k] = loop[t][k]
      BY LoopTypes
    <3> QED BY <1>6, <3>1 DEF Q!Serving
  <2> QED BY <1>1, <2>1, <2>2 DEF TabOrder
<1>8. loaded'[t].version <= build'.version /\ completed'[t] \ CyclicEdits \subseteq Stored'
  BY <1>1 DEF TabOrder, Stored, Range
<1> QED BY <1>3, <1>7, <1>8 DEF TabOrder, Loop

\* A loop that sends nothing new.
LEMMA LoopLags ==
  ASSUME CoreInv, OrderInv, UNCHANGED << build, view, edited, loaded, controller >>,
         NEW t \in Tab, NEW l \in Loop, loop[t][l].pc # "off", NEW n \in Q!LoopState, Shape(n),
         loop' = [loop EXCEPT ![t][l] = n], n.aborted = loop[t][l].aborted,
         queue'[t] \in {queue[t], << >>}, Of(t, n.rest), n.version <= build.version,
         \A x, y \in Tx : Holds(n.rest, x) /\ Holds(queue'[t], y) => x < y,
         completed'[t] \ CyclicEdits \subseteq Stored,
         n.pc \in Waiting => /\ loop[t][l].pc \in Waiting /\ n.version = loop[t][l].version
                             /\ Head(n.rest) = Head(loop[t][l].rest),
         \A x \in Tx : Holds(Behind(n), x) => Holds(queue[t], x) \/ Holds(Behind(loop[t][l]), x),
         \A g \in Handler : handler'[g].entries \in {handler[g].entries, << >>},
         \A u \in Tab \ {t} : /\ queue'[u] = queue[u] /\ loop'[u] = loop[u]
                              /\ completed'[u] = completed[u]
  PROVE  BatchOrder' /\ \A u \in Tab : TabOrder(u)'
<1>1. Onward /\ Made' = Made /\ TabOrder(t)
  BY OnwardSame DEF OrderInv, Made
<1>2. loop'[t][l] = n /\ \A u \in Tab, k \in Loop : u # t \/ k # l => loop'[u][k] = loop[u][k]
  BY LoopTypes
<1>3. BatchOrder' /\ Out' \subseteq Out
  <2>1. ASSUME NEW u \in Tab, NEW k \in Loop, loop'[u][k].pc \in Waiting
        PROVE  loop[u][k].pc \in Waiting /\ Head(loop'[u][k].rest).txs = Head(loop[u][k].rest).txs
    BY <1>2, <2>1
  <2>2. Batch' \subseteq Batch \cup {<< >>}
    BY <2>1, BatchShrinks
  <2> QED BY <1>1, <2>2, ClosedSame, BatchKept DEF OrderInv
<1>4. ASSUME NEW x \in Unsent(t)' PROVE x \in Unsent(t)
  <2>1. \A y : Holds(queue'[t], y) => Holds(queue[t], y)
    BY NothingHeld
  <2>2. x \in Tx /\ (\/ Holds(queue'[t], x)
                     \/ \E k \in Loop : Q!Serving(t, k)' /\ Holds(Behind(loop'[t][k]), x))
    BY <1>4 DEF Unsent, Behind, Holds, IsEdits, Range, Waiting, Loop, Tx
  <2>3. CASE Holds(queue'[t], x)
    BY <2>1, <2>2, <2>3 DEF Unsent
  <2>4. CASE \E k \in Loop : Q!Serving(t, k)' /\ Holds(Behind(loop'[t][k]), x)
    <3>1. PICK k \in Loop : Q!Serving(t, k)' /\ Holds(Behind(loop'[t][k]), x)
      BY <2>4
    <3>2. Q!Serving(t, k)
      BY <1>2, <3>1 DEF Q!Serving
    <3>3. Holds(queue[t], x) \/ Holds(Behind(loop[t][k]), x)
      BY <1>2, <2>2, <3>1
    <3> QED BY <2>2, <3>2, <3>3 DEF Unsent
  <2> QED BY <2>2, <2>3, <2>4
<1>5. \A x \in Unsent(t)', y \in Out' \cap edited[t] : y < x
  BY <1>1, <1>3, <1>4 DEF TabOrder
<1>6. n.pc \in Waiting => Ahead(n.version, t, Range(Head(n.rest).txs))
  BY <1>1 DEF TabOrder, LoopOrder
<1>7. TabOrder(t)'
  BY <1>5, <1>6, LoopTurns
<1>8. ASSUME NEW u \in Tab, u # t PROVE TabOrder(u)'
  <2>1. /\ queue'[u] = queue[u] /\ loop'[u] = loop[u] /\ completed'[u] = completed[u]
        /\ controller'[u] = controller[u] /\ loaded'[u] = loaded[u] /\ edited'[u] = edited[u]
        /\ Out' \cap edited[u] \subseteq Out
    BY <1>3, <1>8
  <2> QED BY <1>1, <2>1, OrderTab
<1> QED BY <1>3, <1>7, <1>8

\* The loop has done with a command.
LEMMA LoopAdvances ==
  ASSUME CoreInv, OrderInv, UNCHANGED << build, view, edited, loaded, controller, queue >>,
         NEW t \in Tab, NEW l \in Loop, loop[t][l].pc \in {"run", "wait"},
         NEW version \in Nat, version <= build.version,
         loop' = [loop EXCEPT ![t][l] = [Q!Advance(@) EXCEPT !.version = version]],
         completed'[t] \ CyclicEdits \subseteq Stored,
         \A g \in Handler : handler'[g].entries \in {handler[g].entries, << >>},
         \A u \in Tab \ {t} : /\ queue'[u] = queue[u] /\ loop'[u] = loop[u]
                              /\ completed'[u] = completed[u]
  PROVE  BatchOrder' /\ \A u \in Tab : TabOrder(u)'
<1>1. PICK s \in Q!LoopState : s = loop[t][l] /\ Shape(s) /\ LoopOrder(t, s)
  BY LoopIs DEF CoreInv, OrderInv, TabOrder
<1>2. s.rest # << >> /\ s.rest \in Seq(Q!Command)
  BY <1>1, StateTypes DEF Shape
<1>3. PICK rest \in Seq(Q!Command) :
        rest = Tail(s.rest) /\ Of(t, rest) /\ \A x : Holds(rest, x) => Holds(s.rest, x)
  BY <1>1, <1>2, TailOfPage, HeadAndRest DEF LoopOrder
<1>4. PICK a \in Q!LoopState :
        /\ a = Q!Advance(s) /\ a.pc \in {"pause", "run"} /\ a.rest = rest
        /\ a.aborted = s.aborted /\ Shape(a)
  BY <1>2, <1>3, Advanced
<1>5. PICK n : n = [a EXCEPT !.version = version]
  OBVIOUS
<1>6. n \in Q!LoopState /\ n.pc = a.pc /\ n.rest = rest /\ n.version = version /\ n.aborted = s.aborted
  BY <1>4, <1>5 DEF Q!LoopState
<1>7. loop' = [loop EXCEPT ![t][l] = n]
  BY <1>1, <1>4, <1>5, LoopTypes
<1>8. n.pc \notin Waiting /\ Shape(n)
  BY <1>4, <1>6 DEF Waiting, Shape
<1>9. ASSUME NEW x \in Tx, Holds(Behind(n), x) PROVE Holds(Behind(s), x)
  <2>1. Holds(rest, x)
    BY <1>6, <1>8, <1>9 DEF Behind
  <2> QED BY <1>3, <2>1 DEF Behind
<1>10. ASSUME NEW x \in Tx, NEW y \in Tx, Holds(n.rest, x), Holds(queue'[t], y) PROVE x < y
  BY <1>1, <1>3, <1>6, <1>10 DEF LoopOrder
<1>11. \A x \in Tx : Holds(Behind(n), x) => Holds(queue[t], x) \/ Holds(Behind(loop[t][l]), x)
  BY <1>1, <1>9
<1>12. /\ loop[t][l].pc # "off" /\ n.aborted = loop[t][l].aborted /\ queue'[t] \in {queue[t], << >>}
       /\ Of(t, n.rest) /\ n.version <= build.version
  BY <1>1, <1>3, <1>6
<1> QED BY <1>6, <1>7, <1>8, <1>10, <1>11, <1>12, LoopLags

\* The loop ends.
LEMMA LoopStops ==
  ASSUME CoreInv, OrderInv, UNCHANGED << build, view, edited, loaded, controller, queue, completed >>,
         NEW t \in Tab, NEW l \in Loop, loop[t][l].pc # "off",
         loop' = [loop EXCEPT ![t][l].pc = "done", ![t][l].rest = << >>],
         \A g \in Handler : handler'[g].entries \in {handler[g].entries, << >>}
  PROVE  BatchOrder' /\ \A u \in Tab : TabOrder(u)'
<1>1. PICK s \in Q!LoopState : s = loop[t][l] /\ TabOrder(t) /\ LoopOrder(t, s)
  BY LoopIs DEF CoreInv, OrderInv, TabOrder
<1>2. PICK n : n = [s EXCEPT !.pc = "done", !.rest = << >>]
  OBVIOUS
<1>3. n \in Q!LoopState /\ n.pc = "done" /\ n.rest = << >> /\ n.version = s.version /\ n.aborted = s.aborted
  <2>1. << >> \in Seq(Q!Command)
    OBVIOUS
  <2> QED BY <1>2, <2>1 DEF Q!LoopState
<1>4. loop' = [loop EXCEPT ![t][l] = n]
  BY <1>1, <1>2, LoopTypes
<1>5. Shape(n) /\ n.pc \notin Waiting /\ Of(t, n.rest) /\ n.version <= build.version
  BY <1>1, <1>3, NothingOrdered DEF Shape, Waiting, LoopOrder
<1>6. \A x : ~Holds(n.rest, x) /\ ~Holds(Behind(n), x)
  BY <1>3, <1>5, NothingHeld DEF Behind
<1>7. completed'[t] \ CyclicEdits \subseteq Stored
  BY <1>1 DEF TabOrder
<1>8. \A u \in Tab \ {t} : /\ queue'[u] = queue[u] /\ loop'[u] = loop[u]
                           /\ completed'[u] = completed[u]
  BY LoopTypes
<1>9. /\ n.aborted = loop[t][l].aborted /\ queue'[t] \in {queue[t], << >>}
      /\ \A x, y \in Tx : Holds(n.rest, x) /\ Holds(queue'[t], y) => x < y
      /\ \A x \in Tx : Holds(Behind(n), x) => Holds(queue[t], x) \/ Holds(Behind(loop[t][l]), x)
  BY <1>1, <1>3, <1>6
<1> QED BY <1>3, <1>4, <1>5, <1>7, <1>8, <1>9, LoopLags

LEMMA LoopBacksOff ==
  ASSUME CoreInv, OrderInv, UNCHANGED << build, view, edited, loaded >>,
         NEW t \in Tab, NEW l \in Loop, loop[t][l].pc = "wait",
         NEW errors \in 0 .. MaxAllowedApiErrors, Q!Backoff(t, l, errors),
         \A g \in Handler : handler'[g].entries \in {handler[g].entries, << >>}
  PROVE  BatchOrder' /\ \A u \in Tab : TabOrder(u)'
<1>1. PICK s \in Q!LoopState :
        /\ s = loop[t][l] /\ s.pc = "wait" /\ s.attempts \in 0 .. MaxRetryRecovery
        /\ Shape(s) /\ LoopOrder(t, s) /\ TabOrder(t)
  BY LoopIs DEF CoreInv, OrderInv, TabOrder, Q!LoopState
<1>2. PICK a \in 0 .. MaxRetryRecovery :
        a = IF s.attempts < MaxRetryRecovery THEN s.attempts + 1 ELSE s.attempts
  BY <1>1, SyncAssumption
<1>3. PICK n : n = [s EXCEPT !.pc = "backoff", !.apiErrors = errors, !.attempts = a]
  OBVIOUS
<1>4. /\ n \in Q!LoopState /\ n.pc = "backoff" /\ n.rest = s.rest /\ n.version = s.version
      /\ n.aborted = s.aborted
  BY <1>3 DEF Q!LoopState
<1>5. loop' = [loop EXCEPT ![t][l] = n]
  <2>1. loop' = [loop EXCEPT ![t][l].pc = "backoff", ![t][l].apiErrors = errors,
                             ![t][l].attempts = a]
    BY <1>1, <1>2, LoopTypes DEF Q!Backoff
  <2> QED BY <1>1, <1>3, <2>1, LoopTypes
<1>6. UNCHANGED << queue, controller, completed >>
  BY LoopTypes DEF Q!Backoff
<1>7. Shape(n) /\ Of(t, n.rest) /\ n.version <= build.version
  BY <1>1, <1>4 DEF Shape, LoopOrder
<1>8. Behind(n) = Behind(s) /\ s.pc \in Waiting
  BY <1>1, <1>4 DEF Behind, Waiting
<1>9. \A x, y \in Tx : Holds(n.rest, x) /\ Holds(queue'[t], y) => x < y
  BY <1>1, <1>4, <1>6 DEF LoopOrder
<1>10. completed'[t] \ CyclicEdits \subseteq Stored
  BY <1>1, <1>6 DEF TabOrder
<1>11. \A u \in Tab \ {t} : loop'[u] = loop[u]
  BY <1>5, LoopTypes
<1>12. \A x \in Tx : Holds(Behind(n), x) => Holds(queue[t], x) \/ Holds(Behind(loop[t][l]), x)
  BY <1>1, <1>8
<1>13. /\ UNCHANGED << build, view, edited, loaded, controller >>
       /\ loop[t][l].pc # "off" /\ n.aborted = loop[t][l].aborted
       /\ queue'[t] \in {queue[t], << >>}
       /\ n.pc \in Waiting => /\ loop[t][l].pc \in Waiting /\ n.version = loop[t][l].version
                              /\ Head(n.rest) = Head(loop[t][l].rest)
       /\ completed'[t] \ CyclicEdits \subseteq Stored
  BY <1>1, <1>4, <1>6, <1>8, <1>10
<1>14. \A u \in Tab \ {t} : /\ queue'[u] = queue[u] /\ loop'[u] = loop[u]
                             /\ completed'[u] = completed[u]
  BY <1>6, <1>11
<1> QED BY <1>4, <1>5, <1>7, <1>9, <1>12, <1>13, <1>14, LoopLags

\* A request that failed, or an answer that is not "ok".
LEMMA LoopFails ==
  ASSUME CoreInv, OrderInv, UNCHANGED << build, view, edited, loaded >>, NEW t \in Tab, NEW l \in Loop,
         Q!NetworkError(t, l) \/ Q!ReplyError(t, l) \/ Q!ReplyFatal(t, l) \/ Q!Outdated(t, l),
         \A g \in Handler : handler'[g].entries \in {handler[g].entries, << >>}
  PROVE  BatchOrder' /\ \A u \in Tab : TabOrder(u)'
<1>1. loop[t][l].pc # "off" /\ loop[t][l].apiErrors \in 0 .. MaxAllowedApiErrors
  BY LoopIs DEF CoreInv, Q!NetworkError, Q!ReplyError, Q!ReplyFatal, Q!Outdated, Q!LoopState
<1>2. CASE Q!Stop(t, l)
  BY <1>1, <1>2, LoopStops DEF Q!Stop
<1>3. CASE ~Q!Stop(t, l)
  <2>1. loop[t][l].pc = "wait"
    BY <1>3 DEF Q!NetworkError, Q!ReplyError, Q!ReplyFatal, Q!Outdated
  <2>2. PICK errors \in 0 .. MaxAllowedApiErrors : Q!Backoff(t, l, errors)
    <3>1. CASE Q!NetworkError(t, l)
      BY <1>1, <3>1 DEF Q!NetworkError
    <3>2. CASE Q!ReplyError(t, l)
      <4>1. /\ loop[t][l].apiErrors + 1 \in 0 .. MaxAllowedApiErrors
            /\ Q!Backoff(t, l, loop[t][l].apiErrors + 1)
        BY <1>1, <1>3, <3>2, SyncAssumption DEF Q!ReplyError
      <4> QED BY <4>1
    <3> QED BY <1>3, <3>1, <3>2 DEF Q!ReplyFatal, Q!Outdated
  <2> QED BY <2>1, <2>2, LoopBacksOff
<1> QED BY <1>2, <1>3

\* Of the edits reported as saved those are that can be.
LEMMA LoopCompletes ==
  ASSUME CoreInv, OrderInv, UNCHANGED << build, view, edited, loaded >>, NEW t \in Tab, NEW l \in Loop,
         NEW version \in Nat, version <= build.version, Q!ReplyOk(t, l, version),
         Range(Q!Current(t, l).txs) \ CyclicEdits \subseteq Stored,
         \A g \in Handler : handler'[g].entries \in {handler[g].entries, << >>}
  PROVE  BatchOrder' /\ \A u \in Tab : TabOrder(u)'
<1>1. /\ loop[t][l].pc = "wait" /\ UNCHANGED << queue, controller >>
      /\ loop' = [loop EXCEPT ![t][l] = [Q!Advance(@) EXCEPT !.version = version]]
  BY DEF Q!ReplyOk
<1>2. \A u \in Tab \ {t} : loop'[u] = loop[u] /\ completed'[u] = completed[u]
  BY LoopFrame
<1>3. completed'[t] \ CyclicEdits \subseteq Stored
  <2>1. completed'[t] = completed[t] \cup Range(Q!Current(t, l).txs)
    BY LoopTypes DEF Q!ReplyOk, Q!Range, Range
  <2>2. completed[t] \ CyclicEdits \subseteq Stored
    BY DEF OrderInv, TabOrder
  <2> QED BY <2>1, <2>2
<1> QED BY <1>1, <1>2, <1>3, LoopAdvances

\* A loop that has done with its commands takes the queue.
LEMMA LoopPolls ==
  ASSUME CoreInv, OrderInv, UNCHANGED << build, view, edited, loaded >>, NEW t \in Tab, NEW l \in Loop,
         Q!Poll(t, l), UNCHANGED handler
  PROVE  BatchOrder' /\ \A u \in Tab : TabOrder(u)'
<1>1. PICK s \in Q!LoopState :
        s = loop[t][l] /\ s.pc = "pause" /\ Shape(s) /\ LoopOrder(t, s) /\ TabOrder(t)
  BY LoopIs DEF CoreInv, OrderInv, TabOrder, Q!Poll
<1>2. PICK q \in Seq(Q!Command) : q = queue[t] /\ Of(t, q)
  BY <1>1, LoopTypes DEF TabOrder
<1>3. UNCHANGED << controller, completed >>
  BY DEF Q!Poll
<1>4. \A u \in Tab \ {t} : /\ queue'[u] = queue[u] /\ loop'[u] = loop[u]
                           /\ completed'[u] = completed[u]
  BY LoopFrame
<1>5. completed'[t] \ CyclicEdits \subseteq Stored
  BY <1>1, <1>3 DEF TabOrder
<1>6. \A g \in Handler : handler'[g].entries \in {handler[g].entries, << >>}
  OBVIOUS
<1>7. CASE q = << >>
  <2>1. loop' = loop /\ queue' = queue
    BY <1>2, <1>7 DEF Q!Poll
  <2>2. loop' = [loop EXCEPT ![t][l] = s]
    BY <1>1, <2>1, LoopTypes
  <2>3. /\ s.pc \notin Waiting /\ s.aborted = loop[t][l].aborted /\ queue'[t] \in {queue[t], << >>}
        /\ loop[t][l].pc # "off" /\ Of(t, s.rest) /\ s.version <= build.version
        /\ \A x, y \in Tx : Holds(s.rest, x) /\ Holds(queue'[t], y) => x < y
        /\ \A x \in Tx : Holds(Behind(s), x) => Holds(queue[t], x) \/ Holds(Behind(loop[t][l]), x)
    BY <1>1, <2>1 DEF Waiting, LoopOrder
  <2> QED BY <1>1, <1>3, <1>4, <1>5, <1>6, <2>2, <2>3, LoopLags
<1>8. CASE q # << >>
  <2>1. PICK n : n = [s EXCEPT !.pc = "run", !.rest = q]
    OBVIOUS
  <2>2. loop' = [loop EXCEPT ![t][l] = n] /\ queue' = [queue EXCEPT ![t] = << >>]
    <3>1. queue[t] # << >>
      BY <1>2, <1>8
    <3>2. /\ queue' = [queue EXCEPT ![t] = << >>]
          /\ loop' = [loop EXCEPT ![t][l].pc = "run", ![t][l].rest = q]
      BY <1>2, <3>1 DEF Q!Poll
    <3> QED BY <1>1, <2>1, <3>2, LoopTypes
  <2>3. /\ n \in Q!LoopState /\ n.pc = "run" /\ n.rest = q /\ n.version = s.version
        /\ n.aborted = s.aborted
    BY <2>1 DEF Q!LoopState
  <2>4. queue'[t] = << >>
    BY <2>2, LoopTypes
  <2>5. Shape(n) /\ n.pc \notin Waiting
    BY <1>8, <2>3 DEF Shape, Waiting
  <2>6. Behind(n) = queue[t]
    BY <1>2, <2>3, <2>5 DEF Behind
  <2>7. /\ n.aborted = loop[t][l].aborted /\ queue'[t] \in {queue[t], << >>}
        /\ loop[t][l].pc # "off" /\ Of(t, n.rest) /\ n.version <= build.version
        /\ \A x, y \in Tx : Holds(n.rest, x) /\ Holds(queue'[t], y) => x < y
        /\ \A x \in Tx : Holds(Behind(n), x) => Holds(queue[t], x) \/ Holds(Behind(loop[t][l]), x)
    BY <1>1, <1>2, <2>3, <2>4, <2>6, NothingHeld DEF LoopOrder
  <2> QED BY <1>3, <1>4, <1>5, <1>6, <2>2, <2>3, <2>5, <2>7, LoopLags
<1> QED BY <1>7, <1>8

LEMMA LoopSetsDetails ==
  ASSUME CoreInv, OrderInv, UNCHANGED << build, view, edited, loaded >>, NEW t \in Tab, NEW l \in Loop,
         Q!SetDetails(t, l), UNCHANGED handler
  PROVE  BatchOrder' /\ \A u \in Tab : TabOrder(u)'
<1>1. PICK s \in Q!LoopState : /\ s = loop[t][l] /\ s.pc = "run" /\ Shape(s) /\ LoopOrder(t, s)
                               /\ TabOrder(t)
  BY LoopIs DEF CoreInv, OrderInv, TabOrder, Q!SetDetails
<1>2. s.rest # << >> /\ s.rest \in Seq(Q!Command)
  BY <1>1, StateTypes DEF Shape
<1>3. PICK c \in Q!Command : c = Head(s.rest) /\ c.version \in Nat /\ c.version <= build.version
  <2>1. Head(s.rest) \in Q!Command
    BY <1>2, HeadAndRest
  <2>2. ~IsEdits(Head(s.rest))
    BY <1>1 DEF Q!SetDetails, Q!Current, IsEdits
  <2> QED BY <1>1, <1>2, <2>1, <2>2, CommandIs, TailDated DEF LoopOrder, Of
<1>4. loop' = [loop EXCEPT ![t][l] = [Q!Advance(@) EXCEPT !.version = c.version]]
  BY <1>1, <1>3 DEF Q!SetDetails, Q!Current
<1>5. UNCHANGED << queue, controller, completed >>
  BY DEF Q!SetDetails
<1>6. completed'[t] \ CyclicEdits \subseteq Stored
  BY <1>1, <1>5 DEF TabOrder
<1>7. \A u \in Tab \ {t} : loop'[u] = loop[u]
  BY LoopFrame
<1> QED BY <1>1, <1>3, <1>4, <1>5, <1>6, <1>7, LoopAdvances

LEMMA OrderRuns ==
  ASSUME CoreInv, OrderInv, NEW t \in Tab, NEW l \in Loop, LoopStep(t, l)
  PROVE  OrderInv'
<1>1. UNCHANGED << build, view, edited, loaded >> /\ UNCHANGED handler /\ UNCHANGED conn
  BY DEF LoopStep, serviceVars, netVars, tabVars
<1>2. BatchOrder' /\ \A u \in Tab : TabOrder(u)'
  <2>1. ASSUME Q!Abort(t, l) PROVE BatchOrder' /\ \A u \in Tab : TabOrder(u)'
    BY <1>1, <2>1, LoopStops DEF Q!Abort
  <2>2. ASSUME Q!Outdated(t, l) PROVE BatchOrder' /\ \A u \in Tab : TabOrder(u)'
    BY <1>1, <2>2, LoopFails
  <2> QED BY <1>1, <2>1, <2>2, LoopPolls, LoopSetsDetails DEF LoopStep
<1>3. Onward /\ Made' = Made
  BY <1>1, OnwardSame DEF Made
<1>4. PageOrder' /\ BuildOrder'
  BY <1>1, <1>3, PageKept, BuildKept DEF OrderInv
<1>5. \A g \in Handler : HandlerOrder(handler[g])'
  BY <1>1, <1>3, HandlersOnward
<1>6. \A u \in Tab, k \in Loop : u # t \/ k # l => loop'[u][k] = loop[u][k]
  BY LoopFrame DEF LoopStep
<1>7. conn[t][l] = NoHandler
  <2>1. loop[t][l].pc # "wait"
    BY DEF LoopStep, Q!Poll, Q!Abort, Q!Outdated, Q!SetDetails
  <2> QED BY <2>1 DEF OrderInv, ConnInv
<1>8. ConnInv'
  BY <1>1, <1>6, <1>7, ConnKept DEF OrderInv, ConnInv
<1> QED BY <1>2, <1>4, <1>5, <1>8 DEF OrderInv

\* The loop gets an answer, or learns that it will get none.
LEMMA OrderAnswered ==
  ASSUME CoreInv, OrderInv, NEW t \in Tab, NEW l \in Loop,
         Deliver(t, l) \/ LoseConnection(t, l) \/ Crash(t, l)
  PROVE  OrderInv'
<1>1. PICK h \in Handler : h = conn[t][l]
  BY ConnIs DEF CoreInv, Deliver, LoseConnection, Crash
<1>2. conn[t][l] # NoHandler /\ conn' = [conn EXCEPT ![t][l] = NoHandler]
  BY DEF Deliver, LoseConnection, Crash
<1>3. UNCHANGED << build, view, edited, loaded >>
  BY DEF Deliver, LoseConnection, Crash, S!End, serviceVars, tabVars
<1>4. Onward /\ Made' = Made
  BY <1>3, OnwardSame DEF Made
<1>5. handler' = handler \/ handler' = [handler EXCEPT ![h] = SP!Idle]
  BY <1>1 DEF Deliver, LoseConnection, Crash, serviceVars, S!End, S!Idle, S!EmptyRow, SP!Idle,
     SP!EmptyRow
<1>6. /\ \A g \in Handler : HandlerOrder(handler[g])'
      /\ \A g \in Handler : handler'[g].entries \in {handler[g].entries, << >>}
  BY <1>3, <1>4, <1>5, HandlersOnward, HandlersEnd
<1>7. BatchOrder' /\ \A u \in Tab : TabOrder(u)'
  <2>1. CASE Deliver(t, l) /\ handler[h].reply = "ok"
    <3>1. handler[h].pc = "done" /\ Q!ReplyOk(t, l, handler[h].version)
      BY <1>1, <2>1 DEF Deliver
    <3>2. PICK version \in Nat : version = handler[h].version /\ version <= build.version
      BY HandlerIs DEF OrderInv, HandlerOrder
    <3>3. Range(Q!Current(t, l).txs) \ CyclicEdits \subseteq Stored
      <4>1. Dealt(handler[h]) /\ handler[h].entries = Q!Current(t, l).txs
        BY <1>1, <1>2 DEF OrderInv, HandlerOrder, ConnInv, Q!Current
      <4> QED BY <2>1, <3>1, <4>1 DEF Dealt
    <3> QED BY <1>3, <1>6, <3>1, <3>2, <3>3, LoopCompletes
  <2>2. CASE ~(Deliver(t, l) /\ handler[h].reply = "ok")
    <3>1. Q!NetworkError(t, l) \/ Q!ReplyError(t, l) \/ Q!ReplyFatal(t, l)
      BY <1>1, <2>2 DEF Deliver, LoseConnection, Crash
    <3> QED BY <1>3, <1>6, <3>1, LoopFails
  <2> QED BY <2>1, <2>2
<1>8. PageOrder' /\ BuildOrder'
  BY <1>3, <1>4, PageKept, BuildKept DEF OrderInv
<1>9. \A u \in Tab, k \in Loop : u # t \/ k # l => loop'[u][k] = loop[u][k]
  BY LoopFrame DEF Deliver, LoseConnection, Crash
<1>10. ConnInv'
  <2>1. ASSUME NEW u \in Tab, NEW k \in Loop, conn'[u][k] # NoHandler
        PROVE  /\ conn'[u][k] = conn[u][k] /\ loop'[u][k] = loop[u][k]
               /\ handler'[conn[u][k]] = handler[conn[u][k]]
               /\ handler[conn[u][k]].pc # "idle"
    <3>1. u # t \/ k # l
      BY <1>2, <2>1, TypesOf
    <3>2. conn'[u][k] = conn[u][k]
      BY <1>2, <3>1, TypesOf
    <3>3. conn[u][k] # h /\ conn[u][k] \in Handler /\ handler[conn[u][k]].pc # "idle"
      BY <1>1, <1>2, <2>1, <3>1, <3>2, TypesOf DEF OrderInv, ConnInv
    <3> QED BY <1>5, <1>9, <3>1, <3>2, <3>3, TypesOf
  <2> QED BY <2>1, ConnKept DEF OrderInv
<1> QED BY <1>6, <1>7, <1>8, <1>10 DEF OrderInv

\* The batch a loop sends is one that was sent before, or is new and made
\* after everything the page has let go.
LEMMA SentOrdered ==
  ASSUME CoreInv, OrderInv, NEW t \in Tab, NEW l \in Loop, Q!Send(t, l),
         NEW b, b = Head(loop[t][l].rest).txs
  PROVE  /\ b \in Seq(Tx) /\ Range(b) \subseteq edited[t] /\ Increasing(b) /\ Closed(b)
         /\ Ahead(loop[t][l].version, t, Range(b))
         /\ b \in Batch \/ Range(b) \cap Out = {}
<1>1. PICK s \in Q!LoopState : s = loop[t][l] /\ Shape(s) /\ LoopOrder(t, s) /\ TabOrder(t)
  BY LoopIs DEF CoreInv, OrderInv, TabOrder
<1>2. PICK n : n = [s EXCEPT !.pc = "wait"]
  OBVIOUS
<1>3. n \in Q!LoopState /\ n.pc = "wait" /\ n.rest = s.rest /\ n.version = s.version
  BY <1>2 DEF Q!LoopState
<1>4. s.pc \in {"run", "backoff"} /\ IsEdits(Head(s.rest)) /\ s.version # Q!Undefined
  BY <1>1 DEF Q!Send, Shape, Q!Current, IsEdits
<1>5. Shape(n) /\ n.pc \in Waiting /\ Of(t, n.rest)
  BY <1>1, <1>3, <1>4 DEF Shape, Waiting, LoopOrder, IsEdits
<1>6. b \in Seq(Tx) /\ Range(b) \subseteq edited[t] /\ Increasing(b)
  BY <1>1, <1>3, <1>5, SentIs
<1>7. CASE s.pc = "backoff"
  <2>1. s.pc \in Waiting
    BY <1>7 DEF Waiting
  <2>2. b \in Batch /\ Ahead(s.version, t, Range(b))
    BY <1>1, <2>1, BatchIs DEF LoopOrder
  <2>3. Closed(b)
    BY <2>2 DEF OrderInv, BatchOrder
  <2> QED BY <1>1, <1>6, <2>2, <2>3
<1>8. CASE s.pc = "run"
  <2>1. Q!Serving(t, l) /\ Behind(s) = s.rest
    BY <1>1, <1>8 DEF Q!Send, Q!Serving, Behind, Waiting
  <2>2. \A x \in Range(b) : Holds(s.rest, x) /\ x \in Tx
    <3>1. \A x \in Range(b) : x \in Tx
      BY <1>6 DEF Range
    <3> QED BY <1>1, <1>3, <1>4, <1>5, <3>1, SentIs, HeadAndRest
  <2>3. Range(b) \subseteq Unsent(t)
    BY <1>1, <2>1, <2>2 DEF Unsent
  <2>4. \A x \in Range(b), y \in Out \cap edited[t] : y < x
    BY <1>1, <2>3 DEF TabOrder
  <2>5. ASSUME NEW x \in Range(b) PROVE x \notin Out
    <3>1. x \in edited[t] /\ ~(x < x)
      BY <1>6, <2>2, TypesOf
    <3> QED BY <2>4, <3>1
  <2>6. Ahead(s.version, t, Range(b))
    <3>1. Stored \subseteq Out
      BY DEF Out
    <3> QED BY <1>1, <2>4, <3>1 DEF Ahead, Newest, LoopOrder
  <2>7. Closed(b)
    <3>1. \A j \in DOMAIN b : b[j] \notin Stored
      BY <2>5 DEF Out, Range
    <3> QED BY <3>1 DEF Closed
  <2> QED BY <1>1, <1>6, <2>5, <2>6, <2>7
<1> QED BY <1>4, <1>7, <1>8

\* A request is sent, for the first time or again.
LEMMA OrderSends ==
  ASSUME CoreInv, OrderInv, NEW t \in Tab, NEW l \in Loop, NEW h \in Handler, SendRequest(t, l, h)
  PROVE  OrderInv'
<1>1. PICK b : b = Head(loop[t][l].rest).txs
  OBVIOUS
<1>2. Q!Send(t, l) /\ UNCHANGED << build, view, edited, loaded, queue, controller, completed >>
  BY DEF SendRequest, S!Receive, tabVars, Q!Send
<1>3. /\ b \in Seq(Tx) /\ Range(b) \subseteq edited[t] /\ Increasing(b) /\ Closed(b)
      /\ Ahead(loop[t][l].version, t, Range(b))
      /\ b \in Batch \/ Range(b) \cap Out = {}
  BY <1>1, <1>2, SentOrdered
<1>4. PICK n \in SP!HandlerState :
        /\ handler' = [handler EXCEPT ![h] = n] /\ n.pc = "loadState" /\ n.kind = "browser"
        /\ n.entries = b /\ n.version = loop[t][l].version
        /\ n.cur = << >> /\ n.todo = << >> /\ ~n.single /\ n.accepted = {}
        /\ n.row = SP!EmptyRow
  BY <1>1, Requested DEF Q!Current
<1>5. PICK s \in Q!LoopState : s = loop[t][l] /\ Shape(s) /\ LoopOrder(t, s) /\ TabOrder(t)
  BY LoopIs DEF CoreInv, OrderInv, TabOrder
<1>6. PICK m : m = [s EXCEPT !.pc = "wait"]
  OBVIOUS
<1>7. /\ m \in Q!LoopState /\ m.pc = "wait" /\ m.rest = s.rest /\ m.version = s.version
      /\ m.aborted = s.aborted
  BY <1>6 DEF Q!LoopState
<1>8. loop' = [loop EXCEPT ![t][l] = m] /\ s.pc \in {"run", "backoff"}
  BY <1>2, <1>5, <1>6, LoopTypes DEF Q!Send
<1>9. loop'[t][l] = m /\ \A u \in Tab, k \in Loop : u # t \/ k # l => loop'[u][k] = loop[u][k]
  BY <1>8, LoopTypes
<1>10. Onward /\ Made' = Made /\ Stored' = Stored
  BY <1>2, OnwardSame DEF Made, Stored, Range
<1>11. Range(b) \subseteq Made /\ \A u \in Tab \ {t} : Range(b) \cap edited[u] = {}
  BY <1>3 DEF OrderInv, PageOrder
<1>12. ASSUME NEW c \in Batch' PROVE c \in Batch \/ c = b
  <2>1. CASE \E g \in Handler : c = handler'[g].entries
    <3>1. PICK g \in Handler : c = handler'[g].entries
      BY <2>1
    <3>2. handler'[g] = IF g = h THEN n ELSE handler[g]
      BY <1>4, TypesOf
    <3> QED BY <1>4, <3>1, <3>2, BatchIs
  <2>2. CASE \E u \in Tab, k \in Loop : loop'[u][k].pc \in Waiting /\ c = Head(loop'[u][k].rest).txs
    <3>1. PICK u \in Tab, k \in Loop : loop'[u][k].pc \in Waiting /\ c = Head(loop'[u][k].rest).txs
      BY <2>2
    <3>2. CASE u = t /\ k = l
      BY <1>1, <1>5, <1>7, <1>9, <3>1, <3>2
    <3>3. CASE u # t \/ k # l
      <4>1. loop'[u][k] = loop[u][k]
        BY <1>9, <3>3
      <4> QED BY <3>1, <4>1, BatchIs
    <3> QED BY <3>2, <3>3
  <2> QED BY <2>1, <2>2, BatchIs
<1>13. Out' \subseteq Out \cup Range(b)
  <2>1. ASSUME NEW x, NEW c \in Batch', x \in Range(c) PROVE x \in Out \cup Range(b)
    BY <1>12, <2>1 DEF Out
  <2> QED BY <1>10, <2>1 DEF Out, Range
<1>14. BatchOrder'
  <2>1. ASSUME NEW c \in Batch' PROVE Range(c) \subseteq Made' /\ Increasing(c) /\ Closed(c)'
    <3>1. Range(c) \subseteq Made /\ Increasing(c) /\ Closed(c)
      BY <1>3, <1>11, <1>12 DEF OrderInv, BatchOrder
    <3> QED BY <1>10, <3>1 DEF Closed
  <2>2. ASSUME NEW c \in Batch, b \notin Batch PROVE Range(b) \cap Range(c) = {}
    <3>1. Range(c) \subseteq Out
      BY DEF Out
    <3> QED BY <1>3, <2>2, <3>1
  <2>3. ASSUME NEW c \in Batch', NEW d \in Batch', Range(c) \cap Range(d) # {} PROVE c = d
    <3>1. CASE c \in Batch /\ d \in Batch
      BY <2>3, <3>1 DEF OrderInv, BatchOrder
    <3>2. CASE ~(c \in Batch /\ d \in Batch)
      BY <1>12, <2>2, <2>3, <3>2
    <3> QED BY <3>1, <3>2
  <2> QED BY <2>1, <2>3 DEF BatchOrder, Increasing, Range
<1>15. ASSUME NEW x \in Unsent(t)', NEW y \in Out' \cap edited[t] PROVE y < x
  <2>1. x \in Tx /\ (\/ Holds(queue[t], x)
                     \/ \E k \in Loop : Q!Serving(t, k)' /\ Holds(Behind(loop'[t][k]), x))
    BY <1>2, <1>15 DEF Unsent, Behind, Holds, IsEdits, Range, Waiting, Loop, Tx
  <2>2. s.rest \in Seq(Q!Command) /\ s.rest # << >> /\ IsEdits(Head(s.rest)) /\ InOrder(s.rest)
    BY <1>5, <1>8, <1>2, StateTypes DEF Shape, LoopOrder, Of, Q!Send, Q!Current, IsEdits
  <2>3. \A z : Holds(s.rest, z) <=> z \in Range(b) \/ Holds(Tail(s.rest), z)
    BY <1>1, <1>5, <2>2, HeadAndRest
  <2>4. Behind(m) = Tail(s.rest)
    BY <1>7 DEF Behind, Waiting
  <2>5. x \in Unsent(t)
    <3>1. CASE Holds(queue[t], x)
      BY <2>1, <3>1 DEF Unsent
    <3>2. CASE \E k \in Loop : Q!Serving(t, k)' /\ Holds(Behind(loop'[t][k]), x)
      <4>1. PICK k \in Loop : Q!Serving(t, k)' /\ Holds(Behind(loop'[t][k]), x)
        BY <3>2
      <4>2. Q!Serving(t, k)
        BY <1>5, <1>7, <1>8, <1>9, <4>1 DEF Q!Serving
      <4>3. Holds(Behind(loop[t][k]), x)
        <5>1. CASE k = l
          <6>1. Holds(Tail(s.rest), x)
            BY <1>9, <2>4, <4>1, <5>1
          <6> QED BY <1>5, <2>3, <5>1, <6>1 DEF Behind
        <5>2. CASE k # l
          BY <1>9, <4>1, <5>2
        <5> QED BY <5>1, <5>2
      <4> QED BY <2>1, <4>2, <4>3 DEF Unsent
    <3> QED BY <2>1, <3>1, <3>2
  <2>6. CASE y \in Out
    BY <1>5, <1>15, <2>5, <2>6 DEF TabOrder
  <2>7. CASE y \in Range(b)
    <3>1. CASE s.pc = "backoff"
      <4>1. b \in Batch
        BY <1>1, <1>5, <3>1, BatchIs DEF Waiting
      <4> QED BY <2>6, <2>7, <4>1 DEF Out
    <3>2. CASE s.pc = "run"
      <4>1. Q!Serving(t, l)
        BY <1>2, <1>5, <3>2 DEF Q!Send, Q!Serving
      <4>2. Holds(s.rest, y) /\ y \in Tx
        BY <1>3, <2>3, <2>7 DEF Range
      <4>3. CASE Holds(queue[t], x)
        BY <1>5, <2>1, <4>2, <4>3 DEF LoopOrder
      <4>4. CASE \E k \in Loop : Q!Serving(t, k)' /\ Holds(Behind(loop'[t][k]), x)
        <5>1. PICK k \in Loop : Q!Serving(t, k)' /\ Holds(Behind(loop'[t][k]), x)
          BY <4>4
        <5>2. Q!Serving(t, k)
          BY <1>5, <1>7, <1>8, <1>9, <5>1 DEF Q!Serving
        <5>3. k = l
          BY <1>5, <4>1, <5>2 DEF TabOrder
        <5>4. Holds(Tail(s.rest), x)
          BY <1>9, <2>4, <5>1, <5>3
        <5> QED BY <1>1, <1>5, <2>2, <2>7, <5>4, TailInOrder
      <4> QED BY <2>1, <4>3, <4>4
    <3> QED BY <1>8, <3>1, <3>2
  <2> QED BY <1>13, <1>15, <2>6, <2>7
<1>16. TabOrder(t)'
  <2>1. Shape(m) /\ Of(t, m.rest) /\ m.version <= build.version /\ loop[t][l].pc # "off"
    BY <1>2, <1>5, <1>7, <1>8 DEF Shape, LoopOrder, Q!Send, Q!Current
  <2>2. m.pc \in Waiting => Ahead(m.version, t, Range(Head(m.rest).txs))
    BY <1>1, <1>3, <1>5, <1>7
  <2>3. \A x, y \in Tx : Holds(m.rest, x) /\ Holds(queue'[t], y) => x < y
    BY <1>2, <1>5, <1>7 DEF LoopOrder
  <2>4. completed'[t] \ CyclicEdits \subseteq Stored
    BY <1>2, <1>5 DEF TabOrder
  <2>5. m.aborted = loop[t][l].aborted /\ queue'[t] \in {queue[t], << >>}
    BY <1>2, <1>5, <1>7
  <2>6. \A x \in Unsent(t)', y \in Out' \cap edited[t] : y < x
    BY <1>15
  <2> QED BY <1>2, <1>7, <1>8, <2>1, <2>2, <2>3, <2>4, <2>5, <2>6, LoopTurns
<1>17. ASSUME NEW u \in Tab, u # t PROVE TabOrder(u)'
  <2>1. Out' \cap edited[u] \subseteq Out
    BY <1>11, <1>13, <1>17
  <2>2. loop'[u] = loop[u]
    BY <1>8, <1>17, LoopTypes
  <2> QED BY <1>2, <1>10, <2>1, <2>2, OrderTab
<1>18. HandlerOrder(n)'
  <2>1. Left(n) = Range(b)
    BY <1>4 DEF Left, Loading, Attempting
  <2>2. Goes(n)
    BY <1>4 DEF Goes, Loading, Started, Attempting
  <2>3. Dealt(n)
    BY <1>4 DEF Dealt, Started, Attempting, SP!EmptyRow
  <2>4. n.version <= build.version
    BY <1>4, <1>5 DEF LoopOrder
  <2>5. \A u \in Tab : Ahead(n.version, u, Range(b))
    BY <1>3, <1>4, <1>11, <2>4 DEF Ahead, Newest
  <2>6. HandlerOrder(n)
    BY <2>1, <2>2, <2>3, <2>4, <2>5 DEF HandlerOrder
  <2> QED BY <1>4, <1>10, <1>11, <2>6, OnwardHandler DEF OrderInv, BuildOrder
<1>19. \A g \in Handler : HandlerOrder(handler[g])'
  BY <1>4, <1>10, <1>18, HandlersOrdered
<1>20. PageOrder' /\ BuildOrder' /\ ConnInv'
  BY <1>2, <1>10, PageKept, BuildKept, ConnSends DEF OrderInv
<1> QED BY <1>14, <1>16, <1>17, <1>19, <1>20 DEF OrderInv

(***************************************************************************)
(* The user.                                                               *)
(***************************************************************************)

\* No user step sends anything.
LEMMA UserBatch ==
  ASSUME CoreInv, OrderInv, NEW t \in Tab, User(t), Made \subseteq Made'
  PROVE  BatchOrder' /\ Out' \subseteq Out
<1>1. UNCHANGED << build, handler >>
  BY DEF User, Load, Open, MakeEdit, Leave, Close, Reload, serviceVars
<1>2. ASSUME NEW u \in Tab, NEW l \in Loop, loop'[u][l].pc \in Waiting
      PROVE  loop[u][l].pc \in Waiting /\ Head(loop'[u][l].rest).txs = Head(loop[u][l].rest).txs
  <2>1. loop'[u][l].pc # "run" /\ loop'[u][l].pc # "off"
    BY <1>2 DEF Waiting
  <2> QED BY <1>2, <2>1, LoopUser
<1>3. Batch' \subseteq Batch \cup {<< >>}
  BY <1>1, <1>2, BatchShrinks
<1> QED BY <1>1, <1>3, ClosedSame, BatchKept DEF OrderInv

\* A loop that stays where it is, while its page may make edits.
LEMMA LoopStays ==
  ASSUME CoreInv, OrderInv, Onward, NEW t \in Tab, edited[t] \subseteq edited'[t], NEW l \in Loop,
         loop'[t][l].pc = loop[t][l].pc, loop'[t][l].rest = loop[t][l].rest,
         loop'[t][l].version = loop[t][l].version,
         \A x, y \in Tx : Holds(loop[t][l].rest, x) /\ Holds(queue'[t], y) => x < y
  PROVE  LoopOrder(t, loop[t][l])'
<1>1. PICK s \in Q!LoopState : s = loop[t][l] /\ Shape(s) /\ LoopOrder(t, s)
  BY LoopIs DEF CoreInv, OrderInv, TabOrder
<1>2. Stored \subseteq Made /\ edited[t] \subseteq Made
  BY DEF OrderInv, BuildOrder, PageOrder
<1>3. LoopOrder(t, s)'
  BY <1>1, <1>2, OnwardLoop
<1> QED BY <1>1, <1>3 DEF LoopOrder

\* The project is loaded, or left.
LEMMA OrderLoads ==
  ASSUME CoreInv, OrderInv, NEW t \in Tab, Load(t) \/ Leave(t)
  PROVE  \A u \in Tab : TabOrder(u)'
<1>1. UNCHANGED << build, view, edited, queue, loop, controller, completed >>
  BY DEF Load, Leave, queueVars, serviceVars
<1>2. Onward /\ Made' = Made
  BY <1>1, OnwardSame DEF Made
<1>3. Out' \subseteq Out
  BY <1>2, UserBatch DEF User
<1> SUFFICES ASSUME NEW u \in Tab PROVE TabOrder(u)'
  OBVIOUS
<1>4. loaded'[u] = loaded[u] \/ loaded'[u].version = build.version
  BY TypesOf DEF Load, Leave
<1> QED BY <1>1, <1>2, <1>3, <1>4, OrderTab

\* The dialog is closed: nobody is left to take commands.
LEMMA OrderCloses ==
  ASSUME CoreInv, OrderInv, NEW t \in Tab, Close(t)
  PROVE  TabOrder(t)'
<1>1. UNCHANGED << build, view, edited, queue, loaded, completed >>
  BY DEF Close, serviceVars, Q!StopPolling
<1>2. Onward /\ Made' = Made /\ TabOrder(t)
  BY <1>1, OnwardSame DEF Made, OrderInv
<1>3. Out' \subseteq Out
  BY <1>2, UserBatch DEF User
<1>4. /\ \A l \in Loop :
           /\ loop'[t][l].pc = loop[t][l].pc /\ loop'[t][l].rest = loop[t][l].rest
           /\ loop'[t][l].version = loop[t][l].version
      /\ \A l \in Loop : Q!Serving(t, l)' => Q!Serving(t, l) /\ l # controller[t]
  BY StopMarks DEF CoreInv, Close
<1>5. \A l \in Loop : ~Q!Serving(t, l)'
  BY <1>2, <1>4 DEF TabOrder
<1>6. ASSUME NEW l \in Loop PROVE LoopOrder(t, loop[t][l])'
  <2>1. \A x, y \in Tx : Holds(loop[t][l].rest, x) /\ Holds(queue'[t], y) => x < y
    BY <1>1, <1>2 DEF TabOrder, LoopOrder
  <2> QED BY <1>1, <1>2, <1>4, <2>1, LoopStays
<1>7. Of(t, queue[t])'
  BY <1>1, <1>2 DEF TabOrder, Of, InOrder, Dated, Holds, IsEdits, Increasing, Range, Tx
<1>8. ASSUME NEW x \in Unsent(t)' PROVE x \in Unsent(t)
  <2>1. x \in Tx /\ Holds(queue[t], x)
    BY <1>1, <1>5, <1>8 DEF Unsent, Holds, IsEdits, Range, Loop, Tx
  <2> QED BY <2>1 DEF Unsent
<1>9. \A x \in Unsent(t)', y \in Out' \cap edited'[t] : y < x
  BY <1>1, <1>2, <1>3, <1>8 DEF TabOrder
<1>10. loaded'[t].version <= build'.version /\ completed'[t] \ CyclicEdits \subseteq Stored'
  BY <1>1, <1>2 DEF TabOrder, Stored, Range
<1> QED BY <1>5, <1>6, <1>7, <1>9, <1>10 DEF TabOrder, Loop

\* The page is loaded again: it has made nothing yet.
LEMMA OrderReloads ==
  ASSUME CoreInv, OrderInv, NEW t \in Tab, Reload(t)
  PROVE  TabOrder(t)'
<1>1. /\ UNCHANGED << build, loaded, completed >>
      /\ loop' = [loop EXCEPT ![t] = [l \in Loop |-> Q!Off]]
      /\ queue' = [queue EXCEPT ![t] = << >>] /\ edited' = [edited EXCEPT ![t] = {}]
  BY DEF Reload, serviceVars, Q!ReloadPage, Loop, Q!Loop
<1>2. queue'[t] = << >> /\ edited'[t] = {} /\ \A l \in Loop : loop'[t][l] = Q!Off
  BY <1>1, TypesOf, LoopTypes
<1>3. TabOrder(t) /\ build.version \in Nat
  BY TypesOf DEF OrderInv
<1>4. Of(t, << >>)'
  BY NothingHeld DEF Of, InOrder, Dated, Holds, Range, Increasing, IsEdits
<1>5. LoopOrder(t, Q!Off)'
  <2>1. Q!Off.pc = "off" /\ Q!Off.rest = << >> /\ Q!Off.version = -1
    BY DEF Q!Off, Q!Undefined
  <2>2. Q!Off.version <= build'.version
    BY <1>1, <1>3, <2>1
  <2> QED BY <1>4, <2>1, <2>2 DEF LoopOrder, Waiting, Holds
<1>6. \A l \in Loop : LoopOrder(t, loop[t][l])' /\ ~Q!Serving(t, l)'
  BY <1>2, <1>5, OffIs DEF Q!Serving
<1>7. Of(t, queue[t])'
  BY <1>2, <1>4
<1>8. loaded'[t].version <= build'.version /\ completed'[t] \ CyclicEdits \subseteq Stored'
  BY <1>1, <1>3 DEF TabOrder, Stored, Range
<1>9. \A x \in Unsent(t)', y \in Out' \cap edited'[t] : y < x
  BY <1>2
<1> QED BY <1>6, <1>7, <1>8, <1>9 DEF TabOrder, Loop

\* The details of what was loaded are queued, or start a loop that takes them
\* together with all that was queued before.
LEMMA OrderOpens ==
  ASSUME CoreInv, OrderInv, NEW t \in Tab, Open(t)
  PROVE  TabOrder(t)'
<1>1. UNCHANGED << build, view, edited, loaded, completed >>
  BY DEF Open, serviceVars, Q!EnqueueProjectDetails
<1>2. Onward /\ Made' = Made /\ TabOrder(t)
  BY <1>1, OnwardSame DEF Made, OrderInv
<1>3. Out' \subseteq Out
  BY <1>2, UserBatch DEF User
<1>4. PICK version \in Nat : version = loaded[t].version /\ version <= build.version
  BY <1>2, TypesOf DEF TabOrder
<1>5. PICK q \in Seq(Q!Command) : q = queue[t] /\ Of(t, q)
  BY <1>2, LoopTypes DEF TabOrder
<1>6. PICK c \in Q!Command : c = [type |-> "setDetails", version |-> version]
  BY CommandsType
<1>7. ~IsEdits(c) /\ c.version = version
  BY <1>6 DEF IsEdits
<1>8. PICK n \in Seq(Q!Command) : n = Append(q, c)
  BY Appended
<1>9. Of(t, n) /\ \A x : Holds(n, x) <=> Holds(q, x)
  BY <1>4, <1>5, <1>7, <1>8, DetailsOrdered
<1>10. Of(t, n)' /\ Of(t, << >>)'
  <2>1. Of(t, << >>)
    BY NothingOrdered
  <2> QED BY <1>1, <1>9, <2>1 DEF Of, InOrder, Dated, Holds, IsEdits, Increasing, Range, Tx
<1>11. loaded'[t].version <= build'.version /\ completed'[t] \ CyclicEdits \subseteq Stored'
  BY <1>1, <1>2 DEF TabOrder, Stored, Range
<1>12. Q!EnqueueProjectDetails(t, version)
  BY <1>4 DEF Open
<1>13. CASE controller[t] # 0
  <2>1. queue' = [queue EXCEPT ![t] = n] /\ UNCHANGED << loop, controller >>
    BY <1>5, <1>6, <1>8, <1>12, <1>13 DEF Q!EnqueueProjectDetails
  <2>2. queue'[t] = n
    BY <2>1, LoopTypes
  <2>3. ASSUME NEW l \in Loop
        PROVE  LoopOrder(t, loop[t][l])' /\ (Q!Serving(t, l)' => l = controller'[t])
    <3>1. \A x, y \in Tx : Holds(loop[t][l].rest, x) /\ Holds(queue'[t], y) => x < y
      BY <1>2, <1>5, <1>9, <2>2 DEF TabOrder, LoopOrder
    <3>2. LoopOrder(t, loop[t][l])'
      BY <1>1, <1>2, <2>1, <3>1, LoopStays
    <3> QED BY <1>2, <2>1, <3>2 DEF TabOrder, Q!Serving
  <2>4. ASSUME NEW x \in Unsent(t)' PROVE x \in Unsent(t)
    <3>1. x \in Tx /\ (\/ Holds(queue'[t], x)
                       \/ \E l \in Loop : Q!Serving(t, l)' /\ Holds(Behind(loop'[t][l]), x))
      BY <2>4 DEF Unsent, Behind, Holds, IsEdits, Range, Waiting, Loop, Tx
    <3> QED BY <1>5, <1>9, <2>1, <2>2, <3>1 DEF Unsent, Q!Serving
  <2>5. \A x \in Unsent(t)', y \in Out' \cap edited'[t] : y < x
    BY <1>1, <1>2, <1>3, <2>4 DEF TabOrder
  <2>6. Of(t, queue[t])'
    BY <1>10, <2>2
  <2> QED BY <1>11, <2>3, <2>5, <2>6 DEF TabOrder, Loop
<1>14. CASE controller[t] = 0
  <2>starts. PICK k \in Loop, s \in Q!LoopState : StartsLoop(t, k, s, n)
    <3>1. QueueInv /\ n = Append(queue[t], [type |-> "setDetails", version |-> version])
      BY <1>5, <1>6, <1>8 DEF CoreInv
    <3> QED BY <1>4, <1>8, <1>12, <1>14, <3>1, DetailsStart
  <2>1. /\ k = started[t] + 1 /\ loop[t][k].pc = "off"
        /\ s.pc = "run" /\ ~s.aborted /\ s.rest = n /\ s.version = Q!Undefined /\ Shape(s)
        /\ started' = [started EXCEPT ![t] = k] /\ controller' = [controller EXCEPT ![t] = k]
        /\ isPolling' = [isPolling EXCEPT ![t] = TRUE]
        /\ loop' = [loop EXCEPT ![t][k] = s]
        /\ queue' = [queue EXCEPT ![t] = << >>] /\ status' = [status EXCEPT ![t] = "syncing"]
    BY <2>starts DEF StartsLoop
  <2>2. /\ queue'[t] = << >> /\ controller'[t] = k /\ loop'[t][k] = s
        /\ \A l \in Loop : l # k => loop'[t][l] = loop[t][l]
    BY <2>1, LoopTypes
  <2>3. \A l \in Loop : ~Q!Serving(t, l)
    <3>1. \A l \in Loop : l # 0
      BY DEF Loop
    <3> QED BY <1>2, <1>14, <3>1 DEF TabOrder
  <2>4. LoopOrder(t, s)'
    <3>1. s.version <= build'.version
      BY <1>1, <2>1, TypesOf DEF Q!Undefined
    <3>2. s.pc \notin Waiting /\ Of(t, s.rest)'
      BY <1>10, <2>1 DEF Waiting
    <3>3. \A x, y \in Tx : ~Holds(queue[t], y)'
      BY <2>2 DEF Holds
    <3> QED BY <3>1, <3>2, <3>3 DEF LoopOrder, Waiting, Tx
  <2>5. ASSUME NEW l \in Loop
        PROVE  LoopOrder(t, loop[t][l])' /\ (Q!Serving(t, l)' => l = controller'[t])
    <3>1. CASE l = k
      BY <2>2, <2>4, <3>1
    <3>2. CASE l # k
      <4>1. \A x, y \in Tx : Holds(loop[t][l].rest, x) /\ Holds(queue'[t], y) => x < y
        BY <2>2, NothingHeld
      <4>2. LoopOrder(t, loop[t][l])'
        BY <1>1, <1>2, <2>2, <3>2, <4>1, LoopStays
      <4> QED BY <2>2, <2>3, <3>2, <4>2 DEF Q!Serving
    <3> QED BY <3>1, <3>2
  <2>6. ASSUME NEW x \in Unsent(t)' PROVE x \in Unsent(t)
    <3>1. x \in Tx /\ (\/ Holds(queue'[t], x)
                       \/ \E l \in Loop : Q!Serving(t, l)' /\ Holds(Behind(loop'[t][l]), x))
      BY <2>6 DEF Unsent, Behind, Holds, IsEdits, Range, Waiting, Loop, Tx
    <3>2. PICK l \in Loop : Q!Serving(t, l)' /\ Holds(Behind(loop'[t][l]), x)
      BY <2>2, <3>1, NothingHeld
    <3>3. l = k
      BY <2>2, <2>5, <3>2
    <3>4. Behind(s) = n
      BY <2>1 DEF Behind, Waiting
    <3>5. Holds(q, x)
      BY <1>9, <2>2, <3>2, <3>3, <3>4
    <3> QED BY <1>5, <3>1, <3>5 DEF Unsent
  <2>7. \A x \in Unsent(t)', y \in Out' \cap edited'[t] : y < x
    BY <1>1, <1>2, <1>3, <2>6 DEF TabOrder
  <2>8. Of(t, queue[t])'
    BY <1>10, <2>2
  <2> QED BY <1>11, <2>5, <2>7, <2>8 DEF TabOrder, Loop
<1> QED BY <1>13, <1>14

\* An edit is newer than all that were made.
LEMMA OrderEdits ==
  ASSUME CoreInv, OrderInv, NEW t \in Tab, MakeEdit(t)
  PROVE  /\ Onward /\ PageOrder' /\ BuildOrder' /\ Made \subseteq Made'
         /\ TabOrder(t)'
<1>1. /\ UNCHANGED << build, loaded, completed, loop, controller >>
      /\ edited' = [edited EXCEPT ![t] = @ \cup {Len(view) + 1}]
      /\ queue' = [queue EXCEPT ![t] = Q!Enqueue(@, Len(view) + 1)]
  BY DEF MakeEdit, serviceVars, Q!SendTransaction
<1>2. PICK x \in Tx : x = Len(view) + 1
  BY DEF MakeEdit
<1>3. PICK seen \in Seq(Tx) : seen = doc[t]
  BY TypesOf
<1>4. view' = Append(view, seen)
  BY <1>3 DEF MakeEdit
<1>5. /\ Later /\ Made' = Made \cup {x} /\ x \notin Made
      /\ \A y \in Made : y < x /\ y \in Nat
  BY <1>1, <1>2, <1>3, <1>4, EditMade
<1>6. edited'[t] = edited[t] \cup {x} /\ \A u \in Tab \ {t} : edited'[u] = edited[u]
  BY <1>1, <1>2, TypesOf
<1>7. PageOrder /\ BuildOrder /\ TabOrder(t) /\ \A u \in Tab : edited[u] \subseteq Made
  BY DEF OrderInv, PageOrder
<1>8. Onward
  <2>1. \A u \in Tab : edited'[u] \cap Made \subseteq edited[u]
    BY <1>5, <1>6
  <2> QED BY <1>5, <2>1 DEF Onward
<1>9. PageOrder'
  <2>1. ASSUME NEW u \in Tab PROVE edited'[u] \subseteq Made'
    BY <1>5, <1>6, <1>7
  <2>2. ASSUME NEW u \in Tab, NEW v \in Tab \ {u} PROVE edited'[u] \cap edited'[v] = {}
    <3>1. edited[u] \cap edited[v] = {} /\ x \notin edited[u] /\ x \notin edited[v]
      BY <1>5, <1>7 DEF PageOrder
    <3> QED BY <1>6, <3>1
  <2> QED BY <2>1, <2>2 DEF PageOrder
<1>10. BuildOrder'
  <2>1. Stored' = Stored /\ Stored \subseteq Made /\ build.lastTx \in Stored \cup {NoTx}
    BY <1>1, <1>7 DEF BuildOrder, Stored, Range
  <2>2. ASSUME NEW u \in Tab, NEW k \in DOMAIN build.log, build.log[k] \in edited'[u]
        PROVE  build.log[k] \in edited[u]
    <3>1. build.log[k] \in Made
      BY <2>1 DEF Stored, Range
    <3> QED BY <1>8, <2>2, <3>1 DEF Onward
  <2> QED BY <1>1, <1>5, <1>7, <2>1, <2>2 DEF BuildOrder, NoTx
<1>11. Out' \subseteq Out /\ Out \subseteq Made
  BY <1>5, UserBatch, OutMade DEF User
<1>12. PICK q \in Seq(Q!Command) : q = queue[t] /\ Of(t, q)
  BY <1>7, LoopTypes DEF TabOrder
<1>13. PICK n : n = Q!Enqueue(q, x)
  OBVIOUS
<1>14. queue'[t] = n
  BY <1>1, <1>2, <1>12, <1>13, LoopTypes
<1>15. /\ n \in Seq(Q!Command) /\ InOrder(n) /\ Dated(n)
       /\ \A y : Holds(n, y) <=> Holds(q, y) \/ y = x
  <2>1. \A y \in Tx : Holds(q, y) => y < x
    BY <1>5, <1>7, <1>12 DEF Of
  <2> QED BY <1>12, <1>13, <2>1, EditOrdered DEF Of
<1>16. Of(t, queue[t])'
  <2>1. Of(t, n)'
    <3>1. \A y \in Tx : Holds(n, y) => y \in edited'[t]
      BY <1>6, <1>12, <1>15 DEF Of
    <3> QED BY <1>1, <1>15, <3>1 DEF Of, InOrder, Dated, Holds, IsEdits, Increasing, Range, Tx
  <2> QED BY <1>14, <2>1
<1>17. ASSUME NEW l \in Loop
       PROVE  LoopOrder(t, loop[t][l])' /\ (Q!Serving(t, l)' => l = controller'[t])
  <2>1. Of(t, loop[t][l].rest)
    BY <1>7 DEF TabOrder, LoopOrder
  <2>2. \A y, z \in Tx : Holds(loop[t][l].rest, y) /\ Holds(queue'[t], z) => y < z
    BY <1>5, <1>7, <1>12, <1>14, <1>15, <2>1 DEF TabOrder, LoopOrder, Of
  <2>3. LoopOrder(t, loop[t][l])'
    BY <1>1, <1>6, <1>8, <2>2, LoopStays
  <2> QED BY <1>1, <1>7, <2>3 DEF TabOrder, Q!Serving
<1>18. ASSUME NEW y \in Unsent(t)' PROVE y \in Unsent(t) \/ y = x
  <2>1. y \in Tx /\ (\/ Holds(queue'[t], y)
                     \/ \E l \in Loop : Q!Serving(t, l)' /\ Holds(Behind(loop'[t][l]), y))
    BY <1>18 DEF Unsent, Behind, Holds, IsEdits, Range, Waiting, Loop, Tx
  <2> QED BY <1>1, <1>12, <1>14, <1>15, <2>1 DEF Unsent, Q!Serving
<1>19. ASSUME NEW y \in Unsent(t)', NEW z \in Out' \cap edited'[t] PROVE z < y
  <2>1. z \in Out /\ z \in Made /\ z \in edited[t]
    BY <1>5, <1>6, <1>11, <1>19
  <2> QED BY <1>5, <1>7, <1>18, <1>19, <2>1 DEF TabOrder
<1>20. loaded'[t].version <= build'.version /\ completed'[t] \ CyclicEdits \subseteq Stored'
  BY <1>1, <1>7 DEF TabOrder, Stored, Range
<1>21. TabOrder(t)'
  BY <1>16, <1>17, <1>19, <1>20 DEF TabOrder, Loop
<1> QED BY <1>5, <1>8, <1>9, <1>10, <1>21

\* A step of the user.
LEMMA OrderUser ==
  ASSUME CoreInv, OrderInv, NEW t \in Tab, User(t)
  PROVE  OrderInv'
<1>1. UNCHANGED << build, handler >>
  BY DEF User, Load, Open, MakeEdit, Leave, Close, Reload, serviceVars
<1>2. Onward /\ PageOrder' /\ BuildOrder' /\ Made \subseteq Made'
  <2>1. CASE MakeEdit(t)
    BY <2>1, OrderEdits
  <2>2. CASE Reload(t)
    <3>1. edited' = [edited EXCEPT ![t] = {}] /\ UNCHANGED << build, view >>
      BY <2>2 DEF Reload, serviceVars
    <3>2. \A u \in Tab : edited'[u] \subseteq edited[u]
      BY <3>1, TypesOf
    <3>3. Later /\ Made' = Made
      BY <3>1, LaterSame DEF Made
    <3>4. Onward
      BY <3>2, <3>3 DEF Onward
    <3>5. PageOrder'
      <4>1. ASSUME NEW u \in Tab PROVE edited'[u] \subseteq Made'
        BY <3>2, <3>3 DEF OrderInv, PageOrder
      <4>2. ASSUME NEW u \in Tab, NEW v \in Tab \ {u} PROVE edited'[u] \cap edited'[v] = {}
        <5>1. edited[u] \cap edited[v] = {}
          BY DEF OrderInv, PageOrder
        <5> QED BY <3>2, <5>1
      <4> QED BY <4>1, <4>2 DEF PageOrder
    <3>6. BuildOrder'
      <4>1. Stored' = Stored
        BY <3>1 DEF Stored, Range
      <4> QED BY <3>1, <3>2, <3>3, <4>1 DEF OrderInv, BuildOrder, NoTx
    <3> QED BY <3>3, <3>4, <3>5, <3>6
  <2>3. CASE ~MakeEdit(t) /\ ~Reload(t)
    <3>1. UNCHANGED << build, view, edited >>
      BY <1>1, <2>3 DEF User, Load, Open, Leave, Close
    <3>2. Onward /\ Made' = Made
      BY <3>1, OnwardSame DEF Made
    <3> QED BY <3>1, <3>2, PageKept, BuildKept DEF OrderInv
  <2> QED BY <2>1, <2>2, <2>3
<1>3. BatchOrder' /\ Out' \subseteq Out
  BY <1>2, UserBatch
<1>4. ASSUME NEW u \in Tab PROVE TabOrder(u)'
  <2>1. CASE Load(t) \/ Leave(t)
    BY <2>1, OrderLoads
  <2>2. CASE u = t /\ ~(Load(t) \/ Leave(t))
    BY <2>2, OrderOpens, OrderEdits, OrderCloses, OrderReloads DEF User
  <2>3. CASE u # t /\ ~(Load(t) \/ Leave(t))
    <3>1. edited'[u] = edited[u] /\ loaded'[u] = loaded[u]
      BY <2>3, TypesOf DEF User, Open, MakeEdit, Close, Reload
    <3>2. /\ queue'[u] = queue[u] /\ loop'[u] = loop[u] /\ controller'[u] = controller[u]
          /\ completed'[u] = completed[u]
      <4>1. CASE Open(t)
        BY <2>3, <4>1, LoopTypes DEF Open, Q!EnqueueProjectDetails
      <4>2. CASE MakeEdit(t)
        BY <2>3, <4>2, LoopTypes DEF MakeEdit, Q!SendTransaction
      <4>3. CASE Reload(t)
        BY <2>3, <4>3, LoopTypes DEF Reload, Q!ReloadPage
      <4>4. CASE Close(t)
        BY <2>3, <4>4, LoopTypes, StopMarks DEF CoreInv, Close, Q!StopPolling
      <4> QED BY <2>3, <4>1, <4>2, <4>3, <4>4 DEF User
    <3>3. Out' \cap edited[u] \subseteq Out
      BY <1>3
    <3> QED BY <1>2, <3>1, <3>2, <3>3, OrderTab
  <2> QED BY <2>1, <2>2, <2>3
<1>5. \A g \in Handler : HandlerOrder(handler[g])'
  BY <1>1, <1>2, HandlersOnward
<1>6. ConnInv'
  BY ConnUser DEF OrderInv
<1> QED BY <1>2, <1>3, <1>4, <1>5, <1>6 DEF OrderInv

(***************************************************************************)
(* The invariant.                                                          *)
(***************************************************************************)

LEMMA OrderingInit == Init => OrderingInv
<1> SUFFICES ASSUME Init PROVE OrderingInv
  OBVIOUS
<1>1. CoreInv /\ SP!CasInv
  BY CoreInit, InitIs, ServiceAssumptions, SP!CasInit DEF Init
<1>2. /\ build.version = 0 /\ build.lastTx = NoTx /\ build.log = << >> /\ view = << >>
      /\ \A h \in Handler : handler[h] = SP!Idle
  BY <1>1, InitIs DEF Init, SP!Init, SP!EmptyRow
<1>3. Stored = {} /\ Made = {} /\ Increasing(<< >>) /\ Range(<< >>) = {} /\ Closed(<< >>)
  BY <1>2 DEF Stored, Made, Increasing, Range, Closed
<1>4. \A t \in Tab :
        /\ loaded[t] = [version |-> 0, log |-> << >>] /\ queue[t] = << >> /\ edited[t] = {}
        /\ completed[t] = {} /\ \A l \in Loop : loop[t][l] = Q!Off
  BY DEF Init, Q!Init, Loop, Q!Loop
<1>5. BuildOrder
  BY <1>2, <1>3, <1>4 DEF BuildOrder
<1>6. PageOrder
  BY <1>4 DEF PageOrder
<1>7. \A b \in Batch : b = << >>
  <2>1. \A h \in Handler : handler[h].entries = << >>
    BY <1>1, <1>2, IdleOrdered
  <2>2. \A t \in Tab, l \in Loop : loop[t][l].pc \notin Waiting
    BY <1>4, OffIs DEF Waiting
  <2> QED BY <2>1, <2>2, BatchIs
<1>8. BatchOrder
  BY <1>3, <1>7 DEF BatchOrder
<1>9. ASSUME NEW t \in Tab PROVE TabOrder(t)
  <2>1. Q!Off.pc = "off" /\ Q!Off.rest = << >> /\ Q!Off.version = -1
    BY DEF Q!Off, Q!Undefined
  <2>2. LoopOrder(t, Q!Off)
    <3>1. Q!Off.version <= build.version
      BY <1>2, <2>1
    <3> QED BY <2>1, <3>1, NothingOrdered, NothingHeld DEF LoopOrder, Waiting
  <2>3. \A l \in Loop : LoopOrder(t, loop[t][l]) /\ ~Q!Serving(t, l)
    BY <1>4, <2>1, <2>2 DEF Q!Serving
  <2>4. Of(t, queue[t]) /\ loaded[t].version <= build.version
    BY <1>2, <1>4, NothingOrdered
  <2> QED BY <1>4, <2>3, <2>4 DEF TabOrder
<1>10. \A h \in Handler : HandlerOrder(handler[h])
  BY <1>1, <1>2, IdleOrdered
<1>11. ConnInv
  BY DEF Init, ConnInv
<1> QED BY <1>1, <1>5, <1>6, <1>8, <1>9, <1>10, <1>11 DEF OrderingInv, OrderInv

LEMMA OrderingStep ==
  ASSUME OrderingInv, [Next]_vars
  PROVE  OrderingInv'
<1>1. CoreInv' /\ SP!CasInv'
  BY CoreStep, CasKept DEF OrderingInv
<1>2. CASE Next
  <2>1. OrderInv'
    BY <1>2, OrderUser, OrderRuns, OrderAnswered, OrderSends, OrderHandles, OrderOrphan
       DEF OrderingInv, Next
  <2> QED BY <1>1, <2>1 DEF OrderingInv
<1>3. CASE UNCHANGED vars
  <2>1. UNCHANGED << queue, loop, controller, completed, loaded, edited, view, conn, build, handler >>
    BY <1>3 DEF vars, queueVars, tabVars, netVars, serviceVars
  <2>2. CoreInv /\ OrderInv
    BY DEF OrderingInv
  <2>3. Onward /\ Made' = Made
    BY <2>1, <2>2, OnwardSame DEF Made
  <2>4. PageOrder' /\ BuildOrder'
    BY <2>1, <2>2, <2>3, PageKept, BuildKept DEF OrderInv
  <2>5. BatchOrder' /\ Out' \subseteq Out
    <3>1. Batch' \subseteq Batch \cup {<< >>}
      BY <2>1, BatchShrinks
    <3> QED BY <2>1, <2>2, <2>3, <3>1, ClosedSame, BatchKept DEF OrderInv
  <2>6. ASSUME NEW u \in Tab PROVE TabOrder(u)'
    <3>1. Out' \cap edited[u] \subseteq Out
      BY <2>5
    <3> QED BY <2>1, <2>2, <2>3, <3>1, OrderTab
  <2>7. \A g \in Handler : HandlerOrder(handler[g])'
    BY <2>1, <2>2, <2>3, HandlersOnward
  <2>8. ConnInv'
    BY <2>1, <2>2 DEF OrderInv, ConnInv
  <2> QED BY <1>1, <2>4, <2>5, <2>6, <2>7, <2>8 DEF OrderingInv, OrderInv
<1> QED BY <1>2, <1>3

LEMMA InvOrdered ==
  ASSUME OrderingInv
  PROVE  SavedInOrder /\ CompletedIsSavedUnlessCyclic
<1>1. SavedInOrder
  <2> SUFFICES ASSUME NEW t \in Tab, NEW k \in DOMAIN build.log, NEW j \in 1 .. k - 1,
                      {build.log[j], build.log[k]} \subseteq edited[t]
               PROVE  build.log[j] < build.log[k]
    BY DEF SavedInOrder
  <2>1. PICK log \in Seq(Tx) : log = build.log
    BY TypesOf DEF OrderingInv
  <2>2. Len(log) \in Nat /\ DOMAIN log = 1 .. Len(log) /\ k \in 1 .. Len(log)
    BY <2>1
  <2>3. j \in DOMAIN build.log /\ j < k
    BY <2>1, <2>2
  <2> QED BY <2>3 DEF OrderingInv, OrderInv, BuildOrder
<1>2. CompletedIsSavedUnlessCyclic
  BY DEF OrderingInv, OrderInv, TabOrder, CompletedIsSavedUnlessCyclic, Stored
<1> QED BY <1>1, <1>2

\* The edits of a page are saved in the order they were made and each of them
\* once, also while the aborted loop of a closed settings dialog (stopPolling)
\* still retries next to the loop of the one opened after it: of two requests
\* for the same version patchLoadedBuild matches only one, and pollCommands
\* takes commands from the queue in order.
THEOREM SavedInOrderCorrect == Spec => []SavedInOrder
<1>1. Init => OrderingInv
  BY OrderingInit
<1>2. OrderingInv /\ [Next]_vars => OrderingInv'
  BY OrderingStep
<1>3. OrderingInv => SavedInOrder
  BY InvOrdered
<1> QED BY <1>1, <1>2, <1>3, PTL DEF Spec

\* What a tab reports as saved (completeTransaction) is in the build, also when
\* its polling was stopped in between, except for edits that close a cycle: a
\* retry is answered "ok" when its last edit is the last one the build holds
\* (createBuildPatchUpdate), and of its edits only those can then be missing
\* that were rejected when the request was first saved entry by entry.
THEOREM CompletedIsSavedUnlessCyclicCorrect == Spec => []CompletedIsSavedUnlessCyclic
<1>1. Init => OrderingInv
  BY OrderingInit
<1>2. OrderingInv /\ [Next]_vars => OrderingInv'
  BY OrderingStep
<1>3. OrderingInv => CompletedIsSavedUnlessCyclic
  BY InvOrdered
<1> QED BY <1>1, <1>2, <1>3, PTL DEF Spec
====
