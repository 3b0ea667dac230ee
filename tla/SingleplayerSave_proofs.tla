---------------------- MODULE SingleplayerSave_proofs ----------------------
(***************************************************************************)
(* Proofs about what SingleplayerSync saves, for builder tabs: every edit  *)
(* is saved on exactly the content its author saw, what a tab reports as   *)
(* saved is saved, and "idle" means that nothing is left to save.          *)
(*                                                                         *)
(* A version stands for the content that was stored when it was current.   *)
(* The argument follows the version through the tab: it is right for what  *)
(* the tab loaded, right for what the commands before it will have saved,  *)
(* and right in a reply; and an update passes its version match only if    *)
(* nothing was saved in between.                                           *)
(*                                                                         *)
(* Builder tabs are those whose closing does not stop the queue, making    *)
(* edits that can be applied.  Without the first (Destroys = {}) a later   *)
(* edit may be saved although the closed dialog dropped an earlier one,    *)
(* without the second (CyclicEdits = {}) an edit may be reported as saved  *)
(* that never can be: runs dialog_drops_edits and retry_of_partial.        *)
(***************************************************************************)
EXTENDS SingleplayerSync_proofs, WellFoundedInduction

(***************************************************************************)
(* The inductive invariant.                                                *)
(***************************************************************************)

Stored == Range(build.log)
Made == DOMAIN view

Increasing(seq) == \A i, j \in DOMAIN seq : i < j => seq[i] < seq[j]

\* The edits seen by the author of the first one of a list.
Base(txs) == Range(view[Head(txs)])

\* As far as the holder of a version knows the build consists of the edits.
Based(version, edits) ==
  /\ version <= build.version
  /\ version = build.version => Stored = edits

\* A list of edits, each made on top of the ones before.
Chain(txs) ==
  /\ txs # << >>
  /\ Range(txs) \subseteq Made
  /\ Increasing(txs)
  /\ \A x \in Range(txs) : Range(view[x]) = Base(txs) \cup {y \in Range(txs) : y < x}

\* The edits a command follows are those the command before it leaves.
After(c, edits) ==
  IF c.type = "setDetails" THEN Based(c.version, edits)
  ELSE edits = Base(c.txs) \cup Range(c.txs)

IsEdits(c) == c.type = "transactions"

Follow(version, commands, edits) ==
  IF commands = << >> THEN Based(version, edits) ELSE After(commands[Len(commands)], edits)

\* Commands as enqueue leaves them: no two lists of edits in a row.
Linked(commands) ==
  \A k \in DOMAIN commands : IsEdits(commands[k]) =>
    /\ Chain(commands[k].txs)
    /\ k > 1 => /\ commands[k - 1].type = "setDetails"
                /\ Based(commands[k - 1].version, Base(commands[k].txs))

\* The commands of a loop that goes on, those queued for it, and the content
\* the tab shows.
Continuous(t, s) ==
  /\ Linked(s.rest) /\ Linked(queue[t])
  /\ s.rest # << >> /\ IsEdits(Head(s.rest)) => Based(s.version, Base(Head(s.rest).txs))
  /\ queue[t] # << >> /\ IsEdits(Head(queue[t])) =>
       Follow(s.version, s.rest, Base(Head(queue[t]).txs))
  /\ session[t] = "open" =>
       IF queue[t] = << >> THEN Follow(s.version, s.rest, Range(doc[t]))
       ELSE Follow(s.version, queue[t], Range(doc[t]))
  /\ s.pc = "pause" => s.rest = << >>

\* The edit is in a list of commands.
Holds(commands, x) ==
  \E k \in DOMAIN commands : IsEdits(commands[k]) /\ x \in Range(commands[k].txs)

\* Nothing a tab has to save is lost, unless it has to be reloaded.
Kept(t, s) ==
  /\ s.pc # "done" =>
       /\ \A x \in edited[t] : x \in Stored \/ Holds(s.rest, x) \/ Holds(queue[t], x)
       /\ status[t] = "idle" => \A x \in Tx : ~Holds(s.rest, x) /\ ~Holds(queue[t], x)
  /\ s.pc = "done" => status[t] # "idle"

\* A loop a tab counts on.
Running(t, s) ==
  /\ s.pc # "done" => Continuous(t, s)
  /\ Kept(t, s)

\* What the tab has loaded and shows.
Shows(t) ==
  /\ Based(loaded[t].version, Range(loaded[t].log))
  /\ Increasing(loaded[t].log) /\ Range(loaded[t].log) \subseteq Made
  /\ session[t] = "open" => Increasing(doc[t]) /\ Range(doc[t]) \subseteq Made

\* A tab has one loop, which is never aborted, from the first time the
\* project is open to the reload of the page.
TabInv(t) ==
  /\ Shows(t)
  /\ completed[t] \subseteq Stored
  /\ \A l \in Loop : l # controller[t] => loop[t][l].pc = "off"
  /\ controller[t] = 0 => session[t] # "open" /\ queue[t] = << >> /\ edited[t] = {}
  /\ controller[t] # 0 => Running(t, loop[t][controller[t]])

\* A request and its reply: the version is right for what the edits were made
\* on, and once they are saved for what they leave.
HandlerInv(s) ==
  /\ s.pc \in {"loadState", "loadBuild", "patch", "commit", "next"} =>
       /\ s.kind = "browser" /\ s.denied = {} /\ Chain(s.entries)
       /\ ~s.single /\ s.todo = << >>
  /\ s.pc \in {"loadState", "loadBuild", "patch", "commit"} =>
       Based(s.version, Base(s.entries)) /\ s.accepted = {}
  /\ s.pc \in {"patch", "commit"} =>
       s.cur = s.entries /\ s.row.lastTx \in Stored \cup {NoTx}
  /\ s.pc = "next" \/ (s.pc = "done" /\ s.reply = "ok") =>
       /\ Chain(s.entries)
       /\ Range(s.entries) \subseteq Stored
       /\ Based(s.version, Base(s.entries) \cup Range(s.entries))
  /\ s.pc \notin {"assets", "preview"}

\* A loop that waits for a reply waits for the one to what it sent.
ConnInv ==
  \A t \in Tab, l \in Loop : conn[t][l] # NoHandler =>
    /\ loop[t][l].pc = "wait"
    /\ handler[conn[t][l]].pc # "idle"
    /\ handler[conn[t][l]].entries = Head(loop[t][l].rest).txs
    /\ \A u \in Tab, k \in Loop : conn[u][k] = conn[t][l] => u = t /\ k = l

\* The build and its history.
StoredInv ==
  /\ Stored \subseteq Made /\ Increasing(build.log)
  /\ \A x \in Stored : Range(view[x]) = {y \in Stored : y < x}
  /\ build.lastTx = IF build.log = << >> THEN NoTx ELSE build.log[Len(build.log)]
  /\ \A x \in Made : Range(view[x]) \subseteq 1 .. x - 1 /\ Increasing(view[x])

SaveInv ==
  /\ StoredInv
  /\ \A t \in Tab : TabInv(t)
  /\ \A h \in Handler : HandlerInv(handler[h])
  /\ ConnInv

(***************************************************************************)
(* Lists of edits.                                                         *)
(***************************************************************************)

\* Increasing lists of the same numbers are the same list.
LEMMA IncreasingSame ==
  ASSUME NEW a \in Seq(Nat), NEW b \in Seq(Nat), Increasing(a), Increasing(b),
         Range(a) = Range(b)
  PROVE  a = b
<1> DEFINE Differ(i) == ~(i \in DOMAIN a /\ i \in DOMAIN b /\ a[i] = b[i])
           differ == {i \in DOMAIN a \cup DOMAIN b : Differ(i)}
           less == {ss \in Nat \X Nat : ss[1] < ss[2]}
<1>1. DOMAIN a \subseteq Nat \ {0} /\ DOMAIN b \subseteq Nat \ {0}
  OBVIOUS
<1>2. differ = {} => a = b
  <2> SUFFICES ASSUME differ = {} PROVE a = b
    OBVIOUS
  <2>1. \A i \in DOMAIN a \cup DOMAIN b : i \in DOMAIN a /\ i \in DOMAIN b /\ a[i] = b[i]
    OBVIOUS
  <2>2. DOMAIN a = DOMAIN b /\ \A i \in DOMAIN a : a[i] = b[i]
    BY <2>1
  <2> QED BY <2>2
<1> SUFFICES ASSUME differ # {} PROVE FALSE
  BY <1>2
<1>3. differ \subseteq Nat
  BY <1>1
<1>4. IsWellFoundedOn(less, Nat)
  BY NatLessThanWellFounded DEF OpToRel
<1>5. PICK i \in differ : \A j \in differ : << j, i >> \notin less
  <2> HIDE DEF differ, less
  <2> QED BY <1>3, <1>4, WFMin
<1>6. \A j \in DOMAIN a \cup DOMAIN b : j < i => j \in DOMAIN a /\ j \in DOMAIN b /\ a[j] = b[j]
  <2> TAKE j \in DOMAIN a \cup DOMAIN b
  <2> SUFFICES ASSUME j < i, Differ(j) PROVE FALSE
    OBVIOUS
  <2>1. j \in differ /\ j \in Nat /\ i \in Nat
    BY <1>1, <1>3
  <2> QED BY <1>5, <2>1
<1>7. i \in Nat /\ Differ(i) /\ i \in DOMAIN a \cup DOMAIN b
  BY <1>3
<1>8. (\A j \in DOMAIN a : a[j] \in Nat) /\ \A j \in DOMAIN b : b[j] \in Nat
  OBVIOUS
<1> HIDE DEF differ, less
\* The one list at the place of the first difference, found behind it in the other.
<1>9. ASSUME NEW p \in Seq(Nat), NEW q \in Seq(Nat), Increasing(p), Increasing(q),
             Range(p) = Range(q), i \in DOMAIN p,
             \A j \in DOMAIN p \cup DOMAIN q : j < i => j \in DOMAIN p /\ j \in DOMAIN q /\ p[j] = q[j],
             ~(i \in DOMAIN q /\ p[i] = q[i])
      PROVE  i \in DOMAIN q /\ q[i] < p[i]
  <2>1. PICK j \in DOMAIN q : q[j] = p[i]
    BY <1>9 DEF Range
  <2>2. ~(j < i)
    <3> SUFFICES ASSUME j < i PROVE FALSE
      OBVIOUS
    <3>1. j \in DOMAIN p /\ p[j] = p[i]
      BY <1>9, <2>1
    <3>2. p[j] < p[i] /\ p[i] \in Nat
      BY <1>9, <3>1 DEF Increasing
    <3> QED BY <3>1, <3>2
  <2>3. j \in 1 .. Len(q) /\ Len(q) \in Nat /\ DOMAIN q = 1 .. Len(q) /\ i # 0
    BY <1>1, <1>7
  <2>4. j # i
    BY <1>9, <2>1
  <2>5. i < j /\ i \in DOMAIN q
    BY <1>7, <2>2, <2>3, <2>4
  <2> QED BY <1>9, <2>1, <2>5 DEF Increasing
<1>10. i \in DOMAIN a => i \in DOMAIN b /\ b[i] < a[i]
  BY <1>6, <1>7, <1>9
<1>11. i \in DOMAIN b => i \in DOMAIN a /\ a[i] < b[i]
  BY <1>6, <1>7, <1>9
<1> QED BY <1>7, <1>8, <1>10, <1>11

LEMMA RangeOfAppend ==
  ASSUME NEW E, NEW seq \in Seq(E), NEW x \in E
  PROVE  Range(Append(seq, x)) = Range(seq) \cup {x}
<1>1. /\ Append(seq, x) \in Seq(E) /\ DOMAIN Append(seq, x) = 1 .. Len(seq) + 1
      /\ \A k \in 1 .. Len(seq) : Append(seq, x)[k] = seq[k]
      /\ Append(seq, x)[Len(seq) + 1] = x
      /\ DOMAIN seq = 1 .. Len(seq) /\ Len(seq) \in Nat
  OBVIOUS
<1>2. ASSUME NEW k \in 1 .. Len(seq) + 1 PROVE k \in 1 .. Len(seq) \/ k = Len(seq) + 1
  BY <1>1
<1>3. Range(Append(seq, x)) \subseteq Range(seq) \cup {x}
  BY <1>1, <1>2 DEF Range
<1>4. Range(seq) \cup {x} \subseteq Range(Append(seq, x))
  <2>1. ASSUME NEW k \in 1 .. Len(seq) PROVE k \in 1 .. Len(seq) + 1
    BY <1>1
  <2>2. Len(seq) + 1 \in 1 .. Len(seq) + 1
    BY <1>1
  <2> QED BY <1>1, <2>1, <2>2 DEF Range
<1> QED BY <1>3, <1>4

LEMMA RangeOfConcat ==
  ASSUME NEW E, NEW a \in Seq(E), NEW b \in Seq(E)
  PROVE  Range(a \o b) = Range(a) \cup Range(b)
<1>1. /\ a \o b \in Seq(E) /\ Len(a) \in Nat /\ Len(b) \in Nat
      /\ DOMAIN (a \o b) = 1 .. Len(a) + Len(b)
      /\ DOMAIN a = 1 .. Len(a) /\ DOMAIN b = 1 .. Len(b)
      /\ \A k \in 1 .. Len(a) + Len(b) : (a \o b)[k] = IF k <= Len(a) THEN a[k] ELSE b[k - Len(a)]
  OBVIOUS
<1>2. ASSUME NEW k \in 1 .. Len(a) + Len(b)
      PROVE  k \in 1 .. Len(a) \/ (k - Len(a) \in 1 .. Len(b) /\ ~(k <= Len(a)))
  BY <1>1
<1>3. Range(a \o b) \subseteq Range(a) \cup Range(b)
  <2> SUFFICES ASSUME NEW k \in 1 .. Len(a) + Len(b)
               PROVE  (a \o b)[k] \in Range(a) \cup Range(b)
    BY <1>1 DEF Range
  <2>1. CASE k \in 1 .. Len(a)
    <3>1. k <= Len(a)
      BY <1>1, <2>1
    <3> QED BY <1>1, <2>1, <3>1 DEF Range
  <2>2. CASE ~(k \in 1 .. Len(a))
    BY <1>1, <1>2, <2>2 DEF Range
  <2> QED BY <2>1, <2>2
<1>4. ASSUME NEW k \in 1 .. Len(a) PROVE a[k] \in Range(a \o b)
  <2>1. k \in 1 .. Len(a) + Len(b) /\ k <= Len(a)
    BY <1>1
  <2> QED BY <1>1, <2>1 DEF Range
<1>5. ASSUME NEW k \in 1 .. Len(b) PROVE b[k] \in Range(a \o b)
  <2>1. PICK n \in 1 .. Len(a) + Len(b) : n = k + Len(a) /\ ~(n <= Len(a)) /\ n - Len(a) = k
    BY <1>1
  <2> QED BY <1>1, <2>1 DEF Range
<1> QED BY <1>1, <1>3, <1>4, <1>5 DEF Range

LEMMA IncreasingAppend ==
  ASSUME NEW seq \in Seq(Nat), NEW x \in Nat, Increasing(seq), \A y \in Range(seq) : y < x
  PROVE  Increasing(Append(seq, x))
<1>1. /\ DOMAIN Append(seq, x) = 1 .. Len(seq) + 1
      /\ \A k \in 1 .. Len(seq) : Append(seq, x)[k] = seq[k]
      /\ Append(seq, x)[Len(seq) + 1] = x
      /\ DOMAIN seq = 1 .. Len(seq) /\ Len(seq) \in Nat
  OBVIOUS
<1> SUFFICES ASSUME NEW i \in 1 .. Len(seq) + 1, NEW j \in 1 .. Len(seq) + 1, i < j
             PROVE  Append(seq, x)[i] < Append(seq, x)[j]
  BY <1>1 DEF Increasing
<1>2. i \in 1 .. Len(seq)
  BY <1>1
<1>3. CASE j \in 1 .. Len(seq)
  BY <1>1, <1>2, <1>3 DEF Increasing
<1>4. CASE ~(j \in 1 .. Len(seq))
  <2>1. j = Len(seq) + 1
    BY <1>1, <1>4
  <2> QED BY <1>1, <1>2, <2>1 DEF Range
<1> QED BY <1>3, <1>4

LEMMA IncreasingConcat ==
  ASSUME NEW a \in Seq(Nat), NEW b \in Seq(Nat), Increasing(a), Increasing(b),
         \A x \in Range(a), y \in Range(b) : x < y
  PROVE  Increasing(a \o b)
<1>1. /\ Len(a) \in Nat /\ Len(b) \in Nat /\ DOMAIN (a \o b) = 1 .. Len(a) + Len(b)
      /\ DOMAIN a = 1 .. Len(a) /\ DOMAIN b = 1 .. Len(b)
      /\ \A k \in 1 .. Len(a) + Len(b) : (a \o b)[k] = IF k <= Len(a) THEN a[k] ELSE b[k - Len(a)]
  OBVIOUS
<1> SUFFICES ASSUME NEW i \in 1 .. Len(a) + Len(b), NEW j \in 1 .. Len(a) + Len(b), i < j
             PROVE  (a \o b)[i] < (a \o b)[j]
  BY <1>1 DEF Increasing
<1>2. CASE j <= Len(a)
  <2>1. i \in 1 .. Len(a) /\ j \in 1 .. Len(a) /\ i <= Len(a)
    BY <1>1, <1>2
  <2> QED BY <1>1, <1>2, <2>1 DEF Increasing
<1>3. CASE i <= Len(a) /\ ~(j <= Len(a))
  <2>1. i \in 1 .. Len(a) /\ j - Len(a) \in 1 .. Len(b)
    BY <1>1, <1>3
  <2> QED BY <1>1, <1>3, <2>1 DEF Range
<1>4. CASE ~(i <= Len(a))
  <2>1. /\ i - Len(a) \in 1 .. Len(b) /\ j - Len(a) \in 1 .. Len(b) /\ i - Len(a) < j - Len(a)
        /\ ~(j <= Len(a))
    BY <1>1, <1>4
  <2> QED BY <1>1, <1>4, <2>1 DEF Increasing
<1> QED BY <1>2, <1>3, <1>4

\* The head and the last of an increasing list.
LEMMA Ends ==
  ASSUME NEW seq \in Seq(Nat), seq # << >>, Increasing(seq)
  PROVE  /\ Head(seq) \in Range(seq) /\ seq[Len(seq)] \in Range(seq)
         /\ \A x \in Range(seq) : Head(seq) <= x /\ x <= seq[Len(seq)] /\ x \in Nat
<1>1. Len(seq) \in DOMAIN seq /\ 1 \in DOMAIN seq /\ Head(seq) = seq[1] /\ DOMAIN seq = 1 .. Len(seq)
  OBVIOUS
<1>2. ASSUME NEW k \in DOMAIN seq PROVE seq[1] <= seq[k] /\ seq[k] <= seq[Len(seq)] /\ seq[k] \in Nat
  <2>1. (k = 1 \/ 1 < k) /\ (k = Len(seq) \/ k < Len(seq))
    BY <1>1
  <2>2. seq[k] \in Nat /\ seq[1] \in Nat /\ seq[Len(seq)] \in Nat
    BY <1>1
  <2> QED BY <1>1, <2>1, <2>2 DEF Increasing
<1> QED BY <1>1, <1>2 DEF Range

(***************************************************************************)
(* What holds of a version, a list of edits or a queue goes on to hold.    *)
(***************************************************************************)

\* Edits are only ever made and saved; a version never comes back.
Later ==
  /\ Made \subseteq Made' /\ \A x \in Made : view'[x] = view[x]
  /\ Stored \subseteq Stored'
  /\ build.version \in Nat /\ build'.version \in Nat
  /\ \/ build'.version = build.version /\ Stored' = Stored
     \/ build'.version > build.version

LEMMA LaterBased ==
  ASSUME Later, NEW version \in Int, NEW edits, Based(version, edits)
  PROVE  Based(version, edits)'
BY DEF Later, Based

LEMMA HeadIn ==
  ASSUME NEW E, NEW seq \in Seq(E), seq # << >>
  PROVE  /\ Head(seq) \in Range(seq) /\ Head(seq) = seq[1] /\ 1 \in DOMAIN seq
         /\ Len(seq) \in DOMAIN seq /\ Len(seq) \in Nat /\ DOMAIN seq = 1 .. Len(seq)
<1>1. /\ Head(seq) = seq[1] /\ 1 \in DOMAIN seq
      /\ Len(seq) \in DOMAIN seq /\ Len(seq) \in Nat /\ DOMAIN seq = 1 .. Len(seq)
  OBVIOUS
<1> QED BY <1>1 DEF Range

LEMMA LaterChain ==
  ASSUME Later, NEW txs \in Seq(Tx), Chain(txs)
  PROVE  Chain(txs)' /\ Base(txs)' = Base(txs)
<1>1. Head(txs) \in Made
  BY HeadIn DEF Chain
<1>2. Base(txs)' = Base(txs)
  BY <1>1 DEF Base, Later, Range
<1>3. ASSUME NEW x \in Range(txs) PROVE Range(view'[x]) = Range(view[x])
  BY DEF Chain, Later
<1> QED BY <1>2, <1>3 DEF Chain, Later, Increasing, Range

LEMMA CommandIs ==
  ASSUME NEW c \in Q!Command
  PROVE  /\ IsEdits(c) => c.txs \in Seq(Tx) /\ c.type # "setDetails"
         /\ ~IsEdits(c) => c.version \in Nat /\ c.type = "setDetails"
BY DEF Q!Command, IsEdits

LEMMA LaterAfter ==
  ASSUME Later, NEW c \in Q!Command, IsEdits(c) => Chain(c.txs), NEW edits, After(c, edits)
  PROVE  After(c, edits)'
<1>1. CASE IsEdits(c)
  <2>1. Base(c.txs)' = Base(c.txs)
    BY <1>1, LaterChain, CommandIs
  <2> QED BY <1>1, <2>1, CommandIs DEF After, Range
<1>2. CASE ~IsEdits(c)
  BY <1>2, LaterBased, CommandIs DEF After
<1> QED BY <1>1, <1>2

LEMMA LaterLinked ==
  ASSUME Later, NEW commands \in Seq(Q!Command), Linked(commands)
  PROVE  Linked(commands)'
<1> SUFFICES ASSUME NEW k \in DOMAIN commands, IsEdits(commands[k])
             PROVE  /\ Chain(commands[k].txs)'
                    /\ k > 1 => /\ commands[k - 1].type = "setDetails"
                                /\ Based(commands[k - 1].version, Base(commands[k].txs))'
  BY DEF Linked, IsEdits
<1>1. commands[k] \in Q!Command /\ commands[k].txs \in Seq(Tx) /\ Chain(commands[k].txs)
  BY CommandIs DEF Linked
<1>2. PICK base : base = Base(commands[k].txs)
  OBVIOUS
<1>3. Base(commands[k].txs)' = base /\ Chain(commands[k].txs)'
  BY <1>1, <1>2, LaterChain
<1>4. ASSUME k > 1
      PROVE  commands[k - 1].type = "setDetails" /\ Based(commands[k - 1].version, base)'
  <2>1. k - 1 \in DOMAIN commands
    BY <1>4
  <2>2. commands[k - 1] \in Q!Command
    BY <2>1
  <2>3. commands[k - 1].type = "setDetails" /\ Based(commands[k - 1].version, base)
    BY <1>2, <1>4 DEF Linked
  <2>4. commands[k - 1].version \in Int
    BY <2>2, <2>3, CommandIs DEF IsEdits
  <2> QED BY <2>3, <2>4, LaterBased
<1> QED BY <1>3, <1>4

LEMMA LaterFollow ==
  ASSUME Later, NEW commands \in Seq(Q!Command), Linked(commands), NEW version \in Int,
         NEW edits, Follow(version, commands, edits)
  PROVE  Follow(version, commands, edits)'
<1>1. CASE commands = << >>
  BY <1>1, LaterBased DEF Follow
<1>2. CASE commands # << >>
  <2>1. PICK c \in Q!Command : c = commands[Len(commands)] /\ (IsEdits(c) => Chain(c.txs))
    BY <1>2, HeadIn DEF Linked
  <2> QED BY <1>2, <2>1, LaterAfter DEF Follow
<1> QED BY <1>1, <1>2

LEMMA LaterHandler ==
  ASSUME Later, NEW s \in SP!HandlerState, HandlerInv(s)
  PROVE  HandlerInv(s)'
<1>1. s.entries \in Seq(Tx) /\ s.version \in Int
  BY DEF SP!HandlerState
<1>2. PICK base : base = Base(s.entries)
  OBVIOUS
<1>3. Chain(s.entries) => Chain(s.entries)' /\ Base(s.entries)' = base
  BY <1>1, <1>2, LaterChain
<1>4. Based(s.version, base) => Based(s.version, base)'
  BY <1>1, LaterBased
<1>5. Based(s.version, base \cup Range(s.entries)) => Based(s.version, base \cup Range(s.entries))'
  BY <1>1, LaterBased
<1>6. Stored \subseteq Stored'
  BY DEF Later
<1> QED BY <1>2, <1>3, <1>4, <1>5, <1>6 DEF HandlerInv, Range

(***************************************************************************)
(* Tabs.                                                                   *)
(***************************************************************************)

LEMMA TypesOf ==
  ASSUME CoreInv
  PROVE  /\ view \in Seq(Seq(Tx)) /\ build.log \in Seq(Tx) /\ build.version \in Nat
         /\ build.lastTx \in Tx \cup {NoTx} /\ Tx \subseteq Nat \ {0}
         /\ doc \in [Tab -> Seq(Tx)] /\ edited \in [Tab -> SUBSET Tx]
         /\ session \in [Tab -> {"closed", "loading", "open"}]
         /\ loaded \in [Tab -> [version : Nat, log : Seq(Tx)]]
         /\ handler \in [Handler -> SP!HandlerState]
         /\ conn \in [Tab -> [Loop -> Handler \cup {NoHandler}]]
<1>1. SP!Row = [version : Nat, lastTx : Tx \cup {NoTx}, log : Seq(Tx)]
  BY DEF SP!Row, SP!Edit
<1>2. Tx \subseteq Nat \ {0}
  BY SyncAssumption DEF Tx
<1> QED BY <1>1, <1>2 DEF CoreInv, TabType, NetType, SP!TypeInv, SP!TypeOK

LEMMA LoopTypes ==
  ASSUME CoreInv
  PROVE  /\ queue \in [Tab -> Seq(Q!Command)] /\ status \in [Tab -> Q!Status]
         /\ loop \in [Tab -> [Loop -> Q!LoopState]] /\ completed \in [Tab -> SUBSET Tx]
         /\ controller \in [Tab -> 0 .. MaxLoads]
         /\ \A t \in Tab : controller[t] # 0 => controller[t] \in Loop
BY SyncAssumption DEF CoreInv, QueueInv, Q!TypeOK, Q!Loop, Loop

LEMMA StateTypes ==
  ASSUME NEW s \in Q!LoopState
  PROVE  s.rest \in Seq(Q!Command) /\ s.version \in Int
BY DEF Q!LoopState, Q!Undefined

LEMMA LaterContinuous ==
  ASSUME CoreInv, Later, NEW t \in Tab, NEW s \in Q!LoopState, Continuous(t, s),
         queue'[t] = queue[t], doc'[t] = doc[t], session'[t] \in {session[t], "closed", "loading"}
  PROVE  Continuous(t, s)'
<1>1. PICK q \in Seq(Q!Command) : q = queue[t]
  BY LoopTypes
<1>2. PICK d : d = Range(doc[t])
  OBVIOUS
<1>3. s.rest \in Seq(Q!Command) /\ s.version \in Int
  BY StateTypes
<1>4. Linked(s.rest) /\ Linked(q) /\ Linked(s.rest)' /\ Linked(q)'
  BY <1>1, <1>3, LaterLinked DEF Continuous
<1>5. ASSUME NEW commands \in Seq(Q!Command), Linked(commands), commands # << >>,
             IsEdits(Head(commands))
      PROVE  /\ Base(Head(commands).txs)' = Base(Head(commands).txs)
  <2>1. Head(commands) \in Q!Command /\ Chain(Head(commands).txs)
    BY <1>5, HeadIn DEF Linked
  <2> QED BY <1>5, <2>1, LaterChain, CommandIs
<1>6. s.rest # << >> /\ IsEdits(Head(s.rest)) => Based(s.version, Base(Head(s.rest).txs))'
  <2> SUFFICES ASSUME s.rest # << >>, IsEdits(Head(s.rest))
               PROVE  Based(s.version, Base(Head(s.rest).txs))'
    OBVIOUS
  <2>1. PICK base : base = Base(Head(s.rest).txs)
    OBVIOUS
  <2>2. Based(s.version, base)'
    BY <1>3, <2>1, LaterBased DEF Continuous
  <2> QED BY <1>3, <1>4, <1>5, <2>1, <2>2
<1>7. q # << >> /\ IsEdits(Head(q)) => Follow(s.version, s.rest, Base(Head(q).txs))'
  <2> SUFFICES ASSUME q # << >>, IsEdits(Head(q))
               PROVE  Follow(s.version, s.rest, Base(Head(q).txs))'
    OBVIOUS
  <2>1. PICK base : base = Base(Head(q).txs)
    OBVIOUS
  <2>2. Follow(s.version, s.rest, base)'
    BY <1>1, <1>3, <1>4, <2>1, LaterFollow DEF Continuous
  <2> QED BY <1>1, <1>4, <1>5, <2>1, <2>2
<1>8. session[t] = "open" =>
        IF q = << >> THEN Follow(s.version, s.rest, d)' ELSE Follow(s.version, q, d)'
  BY <1>1, <1>2, <1>3, <1>4, LaterFollow DEF Continuous
<1>9. s.pc = "pause" => s.rest = << >>
  BY <1>3 DEF Continuous
<1>10. queue'[t] = q /\ Range(doc'[t]) = d
  BY <1>1, <1>2
<1> QED BY <1>4, <1>6, <1>7, <1>8, <1>9, <1>10 DEF Continuous, IsEdits, Range

LEMMA LaterRunning ==
  ASSUME CoreInv, Later, NEW t \in Tab, NEW s \in Q!LoopState, Running(t, s),
         queue'[t] = queue[t], status'[t] = status[t], doc'[t] = doc[t],
         edited'[t] = edited[t], session'[t] \in {session[t], "closed", "loading"}
  PROVE  Running(t, s)'
<1>1. Kept(t, s)'
  BY DEF Running, Kept, Later, Holds, IsEdits, Range
<1>2. s.pc # "done" => Continuous(t, s)'
  BY LaterContinuous DEF Running
<1> QED BY <1>1, <1>2 DEF Running

\* A tab to which nothing happens.
LEMMA LaterTab ==
  ASSUME CoreInv, Later, NEW t \in Tab, TabInv(t),
         queue'[t] = queue[t], status'[t] = status[t], loop'[t] = loop[t],
         controller'[t] = controller[t], completed'[t] = completed[t],
         session'[t] = session[t], loaded'[t] = loaded[t], edited'[t] = edited[t],
         doc'[t] = doc[t]
  PROVE  TabInv(t)'
<1>1. Shows(t)'
  <2>1. PICK was \in [version : Nat, log : Seq(Tx)] : was = loaded[t]
    BY TypesOf
  <2>2. Based(was.version, Range(was.log))'
    BY <2>1, LaterBased DEF TabInv, Shows, Range
  <2> QED BY <2>1, <2>2 DEF TabInv, Shows, Later, Increasing, Range
<1>2. ASSUME controller[t] # 0 PROVE Running(t, loop[t][controller[t]])'
  <2>1. PICK s \in Q!LoopState : s = loop[t][controller[t]]
    BY <1>2, LoopTypes
  <2>2. Running(t, s)'
    BY <1>2, <2>1, LaterRunning DEF TabInv
  <2> QED BY <2>1, <2>2
<1> QED BY <1>1, <1>2 DEF TabInv, Later

\* The loop that is working is the one the tab counts on.
LEMMA OneLoop ==
  ASSUME CoreInv, NEW t \in Tab, TabInv(t), NEW l \in Loop, loop[t][l].pc # "off"
  PROVE  /\ controller[t] = l /\ l # 0 /\ ~loop[t][l].aborted
         /\ loop[t][l] \in Q!LoopState /\ Shape(loop[t][l]) /\ Running(t, loop[t][l])
<1>1. controller[t] = l /\ l # 0
  BY DEF TabInv, Loop
<1>2. ~loop[t][l].aborted
  BY <1>1 DEF CoreInv, QueueInv, Polled, Q!Serving
<1> QED BY <1>1, <1>2, LoopIs DEF CoreInv, TabInv

\* A step of the loop of a tab.
LEMMA TabMoves ==
  ASSUME CoreInv, Later, NEW t \in Tab, TabInv(t), NEW l \in Loop, NEW s \in Q!LoopState,
         loop[t][l].pc # "off", loop' = [loop EXCEPT ![t][l] = s],
         UNCHANGED << controller, tabVars >>, completed'[t] \subseteq Stored', Running(t, s)',
         queue[t] = << >> => queue'[t] = << >>
  PROVE  TabInv(t)'
<1>1. Shows(t)'
  <2>1. PICK was \in [version : Nat, log : Seq(Tx)] : was = loaded[t]
    BY TypesOf
  <2>2. Based(was.version, Range(was.log))'
    BY <2>1, LaterBased DEF TabInv, Shows, Range
  <2>3. loaded' = loaded /\ session' = session /\ doc' = doc
    BY DEF tabVars
  <2> QED BY <2>1, <2>2, <2>3 DEF TabInv, Shows, Later, Increasing, Range
<1>2. controller'[t] = l /\ l # 0
  BY OneLoop
<1>3. loop'[t][l] = s /\ \A k \in Loop : k # l => loop'[t][k] = loop[t][k]
  BY LoopTypes
<1>4. \A k \in Loop : k # controller'[t] => loop'[t][k].pc = "off"
  BY <1>2, <1>3, OneLoop DEF TabInv
<1> QED BY <1>1, <1>2, <1>3, <1>4 DEF TabInv

\* The loop of a tab goes on with the next command.
LEMMA TailOfLinked ==
  ASSUME NEW commands \in Seq(Q!Command), commands # << >>, Linked(commands)
  PROVE  /\ Tail(commands) \in Seq(Q!Command) /\ Linked(Tail(commands))
         /\ Head(commands) \in Q!Command
         /\ IsEdits(Head(commands)) => Chain(Head(commands).txs)
         /\ Tail(commands) = << >> => commands[Len(commands)] = Head(commands)
         /\ Tail(commands) # << >> =>
              Tail(commands)[Len(Tail(commands))] = commands[Len(commands)]
         /\ Tail(commands) # << >> /\ IsEdits(Head(Tail(commands))) =>
              After(Head(commands), Base(Head(Tail(commands)).txs))
         /\ \A x : Holds(commands, x) <=> \/ IsEdits(Head(commands)) /\ x \in Range(Head(commands).txs)
                                          \/ Holds(Tail(commands), x)
<1>1. PICK rest \in Seq(Q!Command) : rest = Tail(commands)
  BY TailOf
<1>2. /\ Len(commands) \in Nat /\ DOMAIN commands = 1 .. Len(commands) /\ Head(commands) = commands[1]
      /\ 1 \in DOMAIN commands /\ Len(commands) \in DOMAIN commands
  BY HeadIn
<1>3. /\ Len(rest) = Len(commands) - 1 /\ DOMAIN rest = 1 .. Len(rest)
      /\ \A k \in 1 .. Len(rest) : rest[k] = commands[k + 1]
  BY <1>1
<1>4. ASSUME NEW k \in DOMAIN rest
      PROVE  k \in Nat /\ k + 1 \in DOMAIN commands /\ rest[k] = commands[k + 1] /\ k + 1 > 1
             /\ (k + 1) - 1 = k /\ k \in DOMAIN commands
  BY <1>2, <1>3
<1>5. Linked(rest)
  <2> SUFFICES ASSUME NEW k \in DOMAIN rest, IsEdits(rest[k])
               PROVE  /\ Chain(rest[k].txs)
                      /\ k > 1 => /\ rest[k - 1].type = "setDetails"
                                  /\ Based(rest[k - 1].version, Base(rest[k].txs))
    BY DEF Linked
  <2>1. /\ Chain(commands[k + 1].txs) /\ commands[k].type = "setDetails"
        /\ Based(commands[k].version, Base(commands[k + 1].txs))
    BY <1>4 DEF Linked
  <2>2. ASSUME k > 1 PROVE rest[k - 1] = commands[k]
    BY <1>2, <1>3, <2>2
  <2> QED BY <1>4, <2>1, <2>2
<1>6. rest = << >> => commands[Len(commands)] = Head(commands)
  <2>1. rest = << >> => Len(rest) = 0
    OBVIOUS
  <2>2. Len(rest) = Len(commands) - 1 /\ Len(commands) \in Nat
    BY <1>2, <1>3
  <2>3. Len(rest) = 0 => Len(commands) = 1
    BY <2>2
  <2> QED BY <1>2, <2>1, <2>3
<1>7. rest # << >> => rest[Len(rest)] = commands[Len(commands)]
  BY <1>2, <1>3
<1>8. ASSUME rest # << >>, IsEdits(Head(rest))
      PROVE  After(Head(commands), Base(Head(rest).txs))
  <2>1. Head(rest) = commands[2] /\ 1 \in DOMAIN rest /\ 1 + 1 = 2
    BY <1>4, <1>8, HeadIn
  <2>2. commands[1].type = "setDetails" /\ Based(commands[1].version, Base(commands[2].txs))
    BY <1>4, <1>8, <2>1 DEF Linked
  <2> QED BY <1>2, <2>1, <2>2 DEF After
<1>9. ASSUME NEW x
      PROVE  Holds(commands, x) <=> \/ IsEdits(Head(commands)) /\ x \in Range(Head(commands).txs)
                                    \/ Holds(rest, x)
  <2>1. ASSUME NEW k \in DOMAIN commands, k # 1
        PROVE  k - 1 \in DOMAIN rest /\ rest[k - 1] = commands[k]
    BY <1>2, <1>3, <2>1
  <2> QED BY <1>2, <1>4, <2>1 DEF Holds
<1>10. Head(commands) \in Q!Command /\ (IsEdits(Head(commands)) => Chain(Head(commands).txs))
  BY <1>2 DEF Linked
<1> QED BY <1>1, <1>5, <1>6, <1>7, <1>8, <1>9, <1>10

(***************************************************************************)
(* Steps of a loop.                                                        *)
(***************************************************************************)

\* Nothing is made or saved.
LEMMA LaterSame ==
  ASSUME CoreInv, UNCHANGED << view, build >>
  PROVE  Later
<1>1. Stored' = Stored /\ Made' = Made
  BY DEF Stored, Made, Range
<1> QED BY <1>1, TypesOf DEF Later

LEMMA AdvanceRunning ==
  ASSUME CoreInv, NEW t \in Tab, NEW s \in Q!LoopState, Running(t, s), s.pc # "done",
         s.rest # << >>, NEW n \in Q!LoopState, n.rest = Tail(s.rest), n.pc \in {"pause", "run"},
         n.pc = "pause" => Tail(s.rest) = << >>,
         \A edits : After(Head(s.rest), edits) => Based(n.version, edits),
         IsEdits(Head(s.rest)) => Range(Head(s.rest).txs) \subseteq Stored
  PROVE  Running(t, n)
<1>1. PICK q \in Seq(Q!Command) : q = queue[t]
  BY LoopTypes
<1>2. PICK cs \in Seq(Q!Command) : cs = s.rest
  BY StateTypes
<1>3. PICK rest \in Seq(Q!Command) : rest = Tail(cs)
  BY <1>2, TailOf
<1>4. Continuous(t, s) /\ Kept(t, s) /\ cs # << >> /\ Linked(cs) /\ n.rest = rest
  BY <1>2, <1>3 DEF Running, Continuous
<1>5. \A edits : Follow(s.version, cs, edits) => Follow(n.version, rest, edits)
  <2>1. rest = << >> => cs[Len(cs)] = Head(cs)
    BY <1>3, <1>4, TailOfLinked
  <2>2. rest # << >> => rest[Len(rest)] = cs[Len(cs)]
    BY <1>3, <1>4, TailOfLinked
  <2> QED BY <1>2, <1>4, <2>1, <2>2 DEF Follow
<1>6. rest # << >> /\ IsEdits(Head(rest)) => Based(n.version, Base(Head(rest).txs))
  BY <1>2, <1>3, <1>4, TailOfLinked
<1>7. Linked(rest)
  BY <1>3, <1>4, TailOfLinked
<1>8. q # << >> /\ IsEdits(Head(q)) => Follow(n.version, rest, Base(Head(q).txs))
  BY <1>1, <1>2, <1>4, <1>5 DEF Continuous
<1>9. session[t] = "open" =>
        IF q = << >> THEN Follow(n.version, rest, Range(doc[t])) ELSE Follow(n.version, q, Range(doc[t]))
  BY <1>1, <1>2, <1>4, <1>5 DEF Continuous, Follow
<1>10. Continuous(t, n)
  BY <1>1, <1>2, <1>3, <1>4, <1>6, <1>7, <1>8, <1>9 DEF Continuous
<1>11. Kept(t, n)
  <2>1. \A x : Holds(cs, x) <=> (IsEdits(Head(cs)) /\ x \in Range(Head(cs).txs)) \/ Holds(rest, x)
    BY <1>3, <1>4, TailOfLinked
  <2>2. \A x : Holds(cs, x) => x \in Stored \/ Holds(rest, x)
    BY <1>2, <2>1
  <2>3. edited[t] \subseteq Tx
    BY TypesOf
  <2> QED BY <1>2, <1>4, <2>1, <2>2 DEF Kept
<1> QED BY <1>10, <1>11 DEF Running

LEMMA TailOfOne ==
  ASSUME NEW E, NEW seq \in Seq(E), Len(seq) = 1
  PROVE  Tail(seq) = << >>
<1>0. Len(<< >>) = 0
  OBVIOUS
<1>1. seq # << >>
  <2> SUFFICES ASSUME seq = << >> PROVE FALSE
    OBVIOUS
  <2>1. Len(seq) = 0
    BY <1>0
  <2> QED BY <2>1
<1>2. Tail(seq) \in Seq(E) /\ Len(Tail(seq)) = Len(seq) - 1
  BY <1>1
<1>3. Len(Tail(seq)) = 0
  BY <1>2
<1>4. \A q \in Seq(E) : Len(q) = 0 => q = << >>
  OBVIOUS
<1> QED BY <1>2, <1>3, <1>4

LEMMA SaveSetDetails ==
  ASSUME CoreInv, NEW t \in Tab, TabInv(t), NEW l \in Loop, Q!SetDetails(t, l),
         UNCHANGED << serviceVars, tabVars >>
  PROVE  TabInv(t)'
<1>1. PICK s \in Q!LoopState : s = loop[t][l] /\ Running(t, s) /\ Shape(s) /\ s.pc = "run"
  BY OneLoop DEF Q!SetDetails
<1>2. s.rest # << >> /\ s.rest \in Seq(Q!Command)
  BY <1>1, StateTypes DEF Shape
<1>3. PICK a \in Q!LoopState :
        /\ a = Q!Advance(s) /\ a.pc \in {"pause", "run"} /\ a.rest = Tail(s.rest)
        /\ a.pc = "pause" => Tail(s.rest) = << >>
  <2>1. Q!Advance(s).pc = "pause" => Len(s.rest) = 1
    BY <1>1 DEF Q!Advance, Q!LoopState
  <2>2. Len(s.rest) = 1 => Tail(s.rest) = << >>
    BY <1>2, TailOfOne
  <2> QED BY <1>2, <2>1, <2>2, Advanced
<1>4. PICK c \in Q!Command : c = Head(s.rest) /\ c.type = "setDetails" /\ c.version \in Nat
  <2>1. Head(s.rest) \in Q!Command
    BY <1>2, TailOfLinked, HeadIn
  <2>2. Head(s.rest).type = "setDetails"
    BY <1>1 DEF Q!SetDetails, Q!Current
  <2> QED BY <2>1, <2>2, CommandIs DEF IsEdits
<1>5. PICK n : n = [a EXCEPT !.version = c.version]
  OBVIOUS
<1>6. n \in Q!LoopState /\ n.pc = a.pc /\ n.rest = a.rest /\ n.version = c.version
  BY <1>4, <1>5 DEF Q!LoopState
<1>7. Running(t, n)
  BY <1>1, <1>2, <1>3, <1>4, <1>6, AdvanceRunning DEF After, IsEdits
<1>8. loop' = [loop EXCEPT ![t][l] = n]
  BY <1>1, <1>3, <1>4, <1>5, LoopTypes DEF Q!SetDetails, Q!Current
<1>9. UNCHANGED << queue, status, controller, completed, tabVars, view, build >>
  BY DEF Q!SetDetails, tabVars, serviceVars
<1>10. Later
  BY <1>9, LaterSame
<1>11. Running(t, n)'
  BY <1>6, <1>7, <1>9, <1>10, LaterRunning DEF tabVars
<1>12. completed'[t] \subseteq Stored'
  BY <1>9, <1>10 DEF TabInv, Later
<1> QED BY <1>1, <1>6, <1>8, <1>9, <1>10, <1>11, <1>12, TabMoves

LEMMA NothingHeld == \A x : ~Holds(<< >>, x)
BY DEF Holds

LEMMA SavePoll ==
  ASSUME CoreInv, NEW t \in Tab, TabInv(t), NEW l \in Loop, Q!Poll(t, l),
         UNCHANGED << serviceVars, tabVars >>
  PROVE  TabInv(t)'
<1>1. PICK s \in Q!LoopState : s = loop[t][l] /\ Running(t, s) /\ s.pc = "pause"
  BY OneLoop DEF Q!Poll
<1>2. PICK q \in Seq(Q!Command) : q = queue[t]
  BY LoopTypes
<1>3. UNCHANGED << controller, completed, tabVars, view, build, doc, edited, session >>
  BY DEF Q!Poll, tabVars, serviceVars
<1>4. Later
  BY <1>3, LaterSame
<1>5. completed'[t] \subseteq Stored'
  BY <1>3, <1>4 DEF TabInv, Later
<1>6. Continuous(t, s) /\ Kept(t, s) /\ s.rest = << >> /\ s.version \in Int
  BY <1>1, StateTypes DEF Running, Continuous
<1>7. CASE q = << >>
  <2>1. loop' = loop /\ queue' = queue /\ status' = [status EXCEPT ![t] = "idle"]
    BY <1>2, <1>7 DEF Q!Poll
  <2>2. loop' = [loop EXCEPT ![t][l] = s]
    BY <1>1, <2>1, LoopTypes
  <2>3. Continuous(t, s)'
    BY <1>3, <1>4, <1>6, <2>1, LaterContinuous
  <2>4. Kept(t, s)'
    <3>1. \A x : ~Holds(s.rest, x) /\ ~Holds(queue[t], x)
      BY <1>2, <1>6, <1>7, NothingHeld
    <3>2. edited'[t] \subseteq Stored'
      BY <1>1, <1>3, <1>6, <3>1 DEF Kept, Stored, Range
    <3>3. \A x : ~Holds(s.rest, x) /\ ~Holds(queue'[t], x)
      BY <2>1, <3>1
    <3> QED BY <1>1, <3>2, <3>3 DEF Kept
  <2> QED BY <1>1, <1>3, <1>4, <1>5, <2>1, <2>2, <2>3, <2>4, TabMoves DEF Running
<1>8. CASE q # << >>
  <2>1. PICK n : n = [s EXCEPT !.pc = "run", !.rest = q]
    OBVIOUS
  <2>2. /\ loop' = [loop EXCEPT ![t][l] = n] /\ queue' = [queue EXCEPT ![t] = << >>]
        /\ status' = [status EXCEPT ![t] = "syncing"]
    <3>1. queue[t] # << >>
      BY <1>2, <1>8
    <3>2. /\ queue' = [queue EXCEPT ![t] = << >>] /\ status' = [status EXCEPT ![t] = "syncing"]
          /\ loop' = [loop EXCEPT ![t][l].pc = "run", ![t][l].rest = q]
      BY <1>2, <3>1 DEF Q!Poll
    <3> QED BY <1>1, <2>1, <3>2, LoopTypes
  <2>3. /\ n \in Q!LoopState /\ n.pc = "run" /\ n.rest = q /\ n.version = s.version
    BY <2>1 DEF Q!LoopState
  <2>4. queue'[t] = << >> /\ status'[t] = "syncing"
    BY <2>2, LoopTypes
  <2>5. Linked(q) /\ (IsEdits(Head(q)) => Based(s.version, Base(Head(q).txs)))
    BY <1>2, <1>6, <1>8 DEF Continuous, Follow
  <2>6. session[t] = "open" => Follow(s.version, q, Range(doc[t]))
    BY <1>2, <1>6, <1>8 DEF Continuous
  <2>12. PICK d : d = Range(doc[t])
    OBVIOUS
  <2>7. /\ Linked(q)' /\ Linked(<< >>)'
        /\ IsEdits(Head(q)) => Based(s.version, Base(Head(q).txs))'
        /\ session'[t] = "open" => Follow(s.version, q, d)'
    <3>1. Linked(q)' /\ Linked(<< >>)'
      BY <1>4, <2>5, LaterLinked DEF Linked
    <3>2. Base(Head(q).txs)' = Base(Head(q).txs)
      BY <1>3 DEF Base, Range
    <3>3. IsEdits(Head(q)) => Based(s.version, Base(Head(q).txs))'
      BY <1>3, <2>5, <3>2 DEF Based, Stored, Range
    <3>5. session[t] = "open" => Follow(s.version, q, d)'
      BY <1>4, <1>6, <2>5, <2>6, <2>12, LaterFollow
    <3> QED BY <1>3, <3>1, <3>3, <3>5
  <2>8. Continuous(t, n)'
    <3>1. Range(doc'[t]) = d
      BY <1>3, <2>12
    <3> QED BY <1>8, <2>3, <2>4, <2>7, <3>1 DEF Continuous, IsEdits, Range
  <2>9. Kept(t, n)'
    BY <1>1, <1>2, <1>3, <1>6, <2>3, <2>4, NothingHeld DEF Kept, Holds, IsEdits, Stored, Range
  <2>10. queue[t] = << >> => queue'[t] = << >>
    BY <2>4
  <2>11. loop[t][l].pc # "off"
    BY <1>1
  <2> QED BY <1>3, <1>4, <1>5, <2>2, <2>3, <2>8, <2>9, <2>10, <2>11, TabMoves DEF Running
<1> QED BY <1>7, <1>8

\* The loop goes on with the same command.
LEMMA SaveSame ==
  ASSUME CoreInv, NEW t \in Tab, TabInv(t), NEW l \in Loop, NEW s \in Q!LoopState,
         s = loop[t][l], s.pc \notin {"off", "done"}, NEW n \in Q!LoopState,
         n.pc \notin {"done", "pause"}, n.rest = s.rest, n.version = s.version,
         loop' = [loop EXCEPT ![t][l] = n], status'[t] # "idle" \/ status' = status,
         UNCHANGED << queue, controller, completed, tabVars, build >>
  PROVE  TabInv(t)'
<1>1. UNCHANGED << view, build, doc, edited, session >>
  BY DEF tabVars
<1>2. Later
  BY <1>1, LaterSame
<1>3. Continuous(t, s) /\ Kept(t, s)
  BY OneLoop DEF Running
<1>4. Continuous(t, n)
  BY <1>3 DEF Continuous
<1>5. Continuous(t, n)'
  BY <1>1, <1>2, <1>4, LaterContinuous
<1>6. Kept(t, n)'
  <2>1. Stored' = Stored /\ queue' = queue
    BY <1>1 DEF Stored, Range
  <2> QED BY <1>1, <1>3, <2>1 DEF Kept
<1>7. completed'[t] \subseteq Stored'
  BY <1>2 DEF TabInv, Later
<1>8. Running(t, n)'
  BY <1>5, <1>6 DEF Running
<1>9. loop[t][l].pc # "off"
  OBVIOUS
<1> QED BY <1>2, <1>7, <1>8, <1>9, TabMoves

LEMMA SaveSend ==
  ASSUME CoreInv, NEW t \in Tab, TabInv(t), NEW l \in Loop, Q!Send(t, l), UNCHANGED << tabVars, build >>
  PROVE  /\ TabInv(t)'
         /\ Chain(Q!Current(t, l).txs) /\ Based(loop[t][l].version, Base(Q!Current(t, l).txs))
<1>1. PICK s \in Q!LoopState : s = loop[t][l] /\ Running(t, s) /\ Shape(s) /\ s.pc \in {"run", "backoff"}
  BY OneLoop DEF Q!Send
<1>2. PICK n : n = [s EXCEPT !.pc = "wait"]
  OBVIOUS
<1>3. n \in Q!LoopState /\ n.pc = "wait" /\ n.rest = s.rest /\ n.version = s.version
  BY <1>2 DEF Q!LoopState
<1>4. loop' = [loop EXCEPT ![t][l] = n]
  BY <1>1, <1>2, LoopTypes DEF Q!Send
<1>5. UNCHANGED << queue, status, controller, completed >>
  BY DEF Q!Send
<1>6. TabInv(t)'
  BY <1>1, <1>3, <1>4, <1>5, SaveSame
<1>7. s.rest # << >> /\ s.rest \in Seq(Q!Command) /\ IsEdits(Head(s.rest))
  BY <1>1, StateTypes DEF Shape, Q!Send, Q!Current, IsEdits
<1>8. Linked(s.rest) /\ Based(s.version, Base(Head(s.rest).txs))
  BY <1>1, <1>7 DEF Running, Continuous
<1>9. Chain(Head(s.rest).txs)
  BY <1>7, <1>8, TailOfLinked
<1> QED BY <1>1, <1>6, <1>8, <1>9 DEF Q!Current

\* The loop ends; the tab shows that it has to be reloaded.
LEMMA SaveStop ==
  ASSUME CoreInv, NEW t \in Tab, TabInv(t), NEW l \in Loop, Q!Stop(t, l), loop[t][l].pc # "off",
         UNCHANGED << tabVars, build >>
  PROVE  TabInv(t)'
<1>1. PICK s \in Q!LoopState : s = loop[t][l]
  BY OneLoop
<1>2. PICK n : n = [s EXCEPT !.pc = "done", !.rest = << >>]
  OBVIOUS
<1>3. n \in Q!LoopState /\ n.pc = "done"
  <2>1. << >> \in Seq(Q!Command)
    OBVIOUS
  <2> QED BY <1>2, <2>1 DEF Q!LoopState
<1>4. /\ loop' = [loop EXCEPT ![t][l].pc = "done", ![t][l].rest = << >>]
      /\ status' = [status EXCEPT ![t] = "fatal"]
      /\ UNCHANGED << queue, controller, completed >>
  BY DEF Q!Stop
<1>5. loop' = [loop EXCEPT ![t][l] = n] /\ status'[t] = "fatal"
  BY <1>1, <1>2, <1>4, LoopTypes
<1>6. Running(t, n)'
  BY <1>3, <1>5 DEF Running, Kept
<1>7. Later
  BY LaterSame DEF tabVars
<1>8. completed'[t] \subseteq Stored'
  BY <1>4, <1>7 DEF TabInv, Later
<1>9. queue[t] = << >> => queue'[t] = << >>
  BY <1>4
<1>10. UNCHANGED << controller, tabVars >>
  BY <1>4
<1> QED BY <1>3, <1>5, <1>6, <1>7, <1>8, <1>9, <1>10, TabMoves

LEMMA SaveBackoff ==
  ASSUME CoreInv, NEW t \in Tab, TabInv(t), NEW l \in Loop, loop[t][l].pc = "wait",
         NEW errors \in 0 .. MaxAllowedApiErrors, Q!Backoff(t, l, errors), UNCHANGED << tabVars, build >>
  PROVE  TabInv(t)'
<1>1. PICK s \in Q!LoopState : s = loop[t][l] /\ s.pc = "wait" /\ s.attempts \in 0 .. MaxRetryRecovery
  BY OneLoop DEF Q!LoopState
<1>2. PICK a \in 0 .. MaxRetryRecovery :
        a = IF s.attempts < MaxRetryRecovery THEN s.attempts + 1 ELSE s.attempts
  BY <1>1, SyncAssumption
<1>3. PICK n : n = [s EXCEPT !.pc = "backoff", !.apiErrors = errors, !.attempts = a]
  OBVIOUS
<1>4. n \in Q!LoopState /\ n.pc = "backoff" /\ n.rest = s.rest /\ n.version = s.version
  BY <1>3 DEF Q!LoopState
<1>5. loop' = [loop EXCEPT ![t][l] = n]
  <2>1. loop' = [loop EXCEPT ![t][l].pc = "backoff", ![t][l].apiErrors = errors,
                             ![t][l].attempts = a]
    BY <1>1, <1>2, LoopTypes DEF Q!Backoff
  <2> QED BY <1>1, <1>3, <2>1, LoopTypes
<1>6. status'[t] # "idle" /\ UNCHANGED << queue, controller, completed >>
  BY LoopTypes DEF Q!Backoff
<1> QED BY <1>1, <1>4, <1>5, <1>6, SaveSame

\* A request that failed, or an answer that is not "ok".
LEMMA SaveFails ==
  ASSUME CoreInv, NEW t \in Tab, TabInv(t), NEW l \in Loop, UNCHANGED << tabVars, build >>,
         Q!NetworkError(t, l) \/ Q!ReplyError(t, l) \/ Q!ReplyFatal(t, l) \/ Q!Outdated(t, l)
  PROVE  TabInv(t)'
<1>1. loop[t][l].pc # "off" /\ loop[t][l].apiErrors \in 0 .. MaxAllowedApiErrors
  BY LoopIs DEF CoreInv, Q!NetworkError, Q!ReplyError, Q!ReplyFatal, Q!Outdated, Q!LoopState
<1>2. CASE Q!Stop(t, l)
  BY <1>1, <1>2, SaveStop
<1>3. CASE ~Q!Stop(t, l)
  <2>1. loop[t][l].pc = "wait"
    BY <1>3 DEF Q!NetworkError, Q!ReplyError, Q!ReplyFatal, Q!Outdated
  <2>2. PICK errors \in 0 .. MaxAllowedApiErrors : Q!Backoff(t, l, errors)
    <3>1. CASE Q!NetworkError(t, l)
      BY <1>1, <3>1 DEF Q!NetworkError
    <3>2. CASE Q!ReplyError(t, l)
      <4>1. /\ loop[t][l].apiErrors + 1 \in 0 .. MaxAllowedApiErrors
            /\ Q!Backoff(t, l, loop[t][l].apiErrors + 1)
        BY <1>1, <1>3, <3>2, SyncAssumption DEF Q!ReplyError
      <4> QED BY <4>1
    <3> QED BY <1>3, <3>1, <3>2 DEF Q!ReplyFatal, Q!Outdated
  <2> QED BY <2>1, <2>2, SaveBackoff
<1> QED BY <1>2, <1>3

\* The answer "ok": the edits of the command are saved, and the version of the
\* answer is right for what follows.
LEMMA SaveReplyOk ==
  ASSUME CoreInv, NEW t \in Tab, TabInv(t), NEW l \in Loop, NEW version \in Nat,
         Q!ReplyOk(t, l, version), UNCHANGED << tabVars, build >>,
         Range(Q!Current(t, l).txs) \subseteq Stored,
         Based(version, Base(Q!Current(t, l).txs) \cup Range(Q!Current(t, l).txs))
  PROVE  TabInv(t)'
<1>1. PICK s \in Q!LoopState : s = loop[t][l] /\ Running(t, s) /\ Shape(s) /\ s.pc = "wait"
  BY OneLoop DEF Q!ReplyOk
<1>2. s.rest # << >> /\ s.rest \in Seq(Q!Command) /\ IsEdits(Head(s.rest))
  BY <1>1, StateTypes DEF Shape, IsEdits
<1>3. PICK a \in Q!LoopState :
        /\ a = Q!Advance(s) /\ a.pc \in {"pause", "run"} /\ a.rest = Tail(s.rest)
        /\ a.pc = "pause" => Tail(s.rest) = << >>
  <2>1. Q!Advance(s).pc = "pause" => Len(s.rest) = 1
    BY <1>1 DEF Q!Advance, Q!LoopState
  <2>2. Len(s.rest) = 1 => Tail(s.rest) = << >>
    BY <1>2, TailOfOne
  <2> QED BY <1>2, <2>1, <2>2, Advanced
<1>4. PICK c \in Q!Command : c = Head(s.rest) /\ c = Q!Current(t, l) /\ IsEdits(c) /\ c.type # "setDetails"
  <2>1. Head(s.rest) \in Q!Command
    BY <1>2, HeadIn
  <2> QED BY <1>1, <1>2, <2>1, CommandIs DEF Q!Current
<1>5. PICK n : n = [a EXCEPT !.version = version]
  OBVIOUS
<1>6. n \in Q!LoopState /\ n.pc = a.pc /\ n.rest = a.rest /\ n.version = version
  BY <1>5 DEF Q!LoopState
<1>7. Running(t, n)
  <2>1. \A edits : After(c, edits) => Based(version, edits)
    BY <1>4 DEF After
  <2> QED BY <1>1, <1>2, <1>3, <1>4, <1>6, <2>1, AdvanceRunning
<1>8. loop' = [loop EXCEPT ![t][l] = n]
  BY <1>1, <1>3, <1>5, LoopTypes DEF Q!ReplyOk
<1>9. UNCHANGED << queue, status, controller, tabVars, view, build >>
  BY DEF Q!ReplyOk, tabVars
<1>10. Later
  BY <1>9, LaterSame
<1>11. Running(t, n)'
  BY <1>6, <1>7, <1>9, <1>10, LaterRunning DEF tabVars
<1>12. completed'[t] \subseteq Stored'
  <2>1. completed'[t] = completed[t] \cup Range(Q!Current(t, l).txs)
    BY LoopTypes DEF Q!ReplyOk, Q!Range, Range
  <2> QED BY <1>10, <2>1 DEF TabInv, Later
<1> QED BY <1>1, <1>6, <1>8, <1>9, <1>10, <1>11, <1>12, TabMoves

\* No loop of a builder tab is ever stopped.
LEMMA SaveLoopStep ==
  ASSUME CoreInv, NEW t \in Tab, TabInv(t), NEW l \in Loop, LoopStep(t, l)
  PROVE  TabInv(t)'
<1>1. ~Q!Abort(t, l)
  BY OneLoop DEF Q!Abort
<1>2. UNCHANGED << tabVars, build >> /\ UNCHANGED << serviceVars, tabVars >>
  BY DEF LoopStep, serviceVars
<1> QED BY <1>1, <1>2, SavePoll, SaveSetDetails, SaveFails DEF LoopStep

(***************************************************************************)
(* Steps of the user.                                                      *)
(***************************************************************************)

\* The project is loaded or left; the queue goes on.
LEMMA SaveLoad ==
  ASSUME CoreInv, SaveInv, NEW t \in Tab, Load(t) \/ Leave(t)
  PROVE  TabInv(t)'
<1>1. /\ UNCHANGED << queue, status, loop, controller, completed, build, view, doc, edited >>
      /\ session'[t] \in {"closed", "loading"}
  BY TypesOf DEF Load, Leave, queueVars, serviceVars
<1>2. Later
  BY <1>1, LaterSame
<1>3. PICK was \in [version : Nat, log : Seq(Tx)] : was = loaded'[t]
  BY CoreLoad, CoreLeave, TypesOf DEF CoreInv, TabType
<1>4. Based(was.version, Range(was.log)) /\ Increasing(was.log) /\ Range(was.log) \subseteq Made
  <2>1. CASE Load(t)
    <3>1. was = [version |-> build.version, log |-> build.log]
      BY <1>3, <2>1, TypesOf DEF Load
    <3>2. was.version = build.version /\ was.log = build.log
      BY <3>1
    <3> QED BY <3>2, TypesOf DEF SaveInv, StoredInv, Based, Stored
  <2>2. CASE Leave(t)
    <3>1. was = loaded[t]
      BY <1>3, <2>2 DEF Leave
    <3> QED BY <3>1 DEF SaveInv, TabInv, Shows
  <2> QED BY <2>1, <2>2
<1>5. Based(was.version, Range(was.log))'
  BY <1>2, <1>4, LaterBased
<1>6. Shows(t)'
  BY <1>1, <1>2, <1>3, <1>4, <1>5 DEF Shows, Later, Increasing, Range
<1>7. ASSUME controller[t] # 0 PROVE Running(t, loop[t][controller[t]])'
  <2>1. PICK s \in Q!LoopState : s = loop[t][controller[t]]
    BY <1>7, LoopTypes
  <2>2. Running(t, s)'
    BY <1>1, <1>2, <1>7, <2>1, LaterRunning DEF SaveInv, TabInv
  <2> QED BY <1>1, <2>1, <2>2
<1>8. TabInv(t)
  BY DEF SaveInv
<1> QED BY <1>1, <1>2, <1>6, <1>7, <1>8 DEF TabInv, Later

\* One more command at the end.
LEMMA Appended ==
  ASSUME NEW commands \in Seq(Q!Command), NEW c \in Q!Command, NEW n, n = Append(commands, c)
  PROVE  /\ n \in Seq(Q!Command) /\ n # << >> /\ Len(n) = Len(commands) + 1
         /\ DOMAIN n = 1 .. Len(commands) + 1 /\ DOMAIN commands = 1 .. Len(commands)
         /\ Len(commands) \in Nat /\ n[Len(n)] = c /\ n[Len(commands) + 1] = c
         /\ \A k \in DOMAIN commands : n[k] = commands[k] /\ k \in DOMAIN n
         /\ \A k \in DOMAIN n : k \in DOMAIN commands \/ k = Len(commands) + 1
         /\ commands # << >> => Head(n) = Head(commands)
         /\ commands = << >> => Head(n) = c
         /\ \A x : Holds(n, x) <=> Holds(commands, x) \/ (IsEdits(c) /\ x \in Range(c.txs))
<1>1. /\ n \in Seq(Q!Command) /\ Len(n) = Len(commands) + 1
      /\ DOMAIN n = 1 .. Len(commands) + 1 /\ DOMAIN commands = 1 .. Len(commands)
      /\ Len(commands) \in Nat /\ n[Len(commands) + 1] = c
      /\ \A k \in 1 .. Len(commands) : n[k] = commands[k]
  OBVIOUS
<1>2. \A k \in DOMAIN commands : n[k] = commands[k] /\ k \in DOMAIN n
  BY <1>1
<1>3. \A k \in DOMAIN n : k \in DOMAIN commands \/ k = Len(commands) + 1
  BY <1>1
<1>4. Len(commands) + 1 \in DOMAIN n
  BY <1>1
<1>5. n # << >>
  BY <1>4
<1>6. Head(n) = n[1]
  BY <1>1, <1>5
<1>7. commands # << >> => Head(n) = Head(commands)
  BY <1>2, <1>6, HeadIn
<1>8. commands = << >> => Head(n) = c
  BY <1>1, <1>6
<1>9. \A x : Holds(n, x) <=> Holds(commands, x) \/ (IsEdits(c) /\ x \in Range(c.txs))
  BY <1>1, <1>2, <1>3, <1>4 DEF Holds
<1> QED BY <1>1, <1>2, <1>3, <1>5, <1>7, <1>8, <1>9

\* The details of the project are put behind what is queued.
LEMMA DetailsLinked ==
  ASSUME NEW commands \in Seq(Q!Command), Linked(commands), NEW c \in Q!Command, ~IsEdits(c),
         NEW n, n = Append(commands, c)
  PROVE  Linked(n)
<1> SUFFICES ASSUME NEW k \in DOMAIN n, IsEdits(n[k])
             PROVE  /\ Chain(n[k].txs)
                    /\ k > 1 => /\ n[k - 1].type = "setDetails"
                                /\ Based(n[k - 1].version, Base(n[k].txs))
  BY DEF Linked
<1>1. k \in DOMAIN commands /\ n[k] = commands[k]
  BY Appended
<1>2. k > 1 => k - 1 \in DOMAIN commands
  BY <1>1
<1>3. k > 1 => n[k - 1] = commands[k - 1]
  BY <1>2, Appended
<1> QED BY <1>1, <1>3 DEF Linked

\* The project is open: the queue gets the details of what was loaded, or a
\* loop is started with them.
LEMMA SaveOpen ==
  ASSUME CoreInv, SaveInv, NEW t \in Tab, Open(t)
  PROVE  TabInv(t)'
<1>1. /\ UNCHANGED << completed, build, view, loaded, edited >>
      /\ session' = [session EXCEPT ![t] = "open"] /\ doc' = [doc EXCEPT ![t] = loaded[t].log]
  BY DEF Open, serviceVars, Q!EnqueueProjectDetails
<1>2. Later
  BY <1>1, LaterSame
<1>3. PICK was \in [version : Nat, log : Seq(Tx)] : was = loaded[t]
  BY TypesOf
<1>4. Based(was.version, Range(was.log)) /\ Increasing(was.log) /\ Range(was.log) \subseteq Made
  BY <1>3 DEF SaveInv, TabInv, Shows
<1>5. session'[t] = "open" /\ doc'[t] = was.log /\ loaded'[t] = was
  BY <1>1, <1>3, TypesOf
<1>6. Based(was.version, Range(was.log))'
  BY <1>2, <1>4, LaterBased
<1>7. Shows(t)'
  BY <1>2, <1>4, <1>5, <1>6 DEF Shows, Later, Increasing, Range
<1>8. PICK q \in Seq(Q!Command) : q = queue[t]
  BY LoopTypes
<1>9. PICK c \in Q!Command : c = [type |-> "setDetails", version |-> was.version]
  BY CommandsType
<1>10. ~IsEdits(c) /\ c.type = "setDetails" /\ c.version = was.version
  BY <1>9 DEF IsEdits
<1>11. PICK n \in Seq(Q!Command) : n = Append(q, c)
  BY Appended
<1>12. After(c, Range(was.log))'
  BY <1>6, <1>10 DEF After, Range
<1>13. \A x : Holds(n, x) <=> Holds(q, x)
  BY <1>10, <1>11, Appended
<1>14. TabInv(t)
  BY DEF SaveInv
<1>15. CASE controller[t] # 0
  <2>1. /\ queue' = [queue EXCEPT ![t] = n]
        /\ UNCHANGED << status, loop, controller >>
    BY <1>3, <1>8, <1>9, <1>11, <1>15 DEF Open, Q!EnqueueProjectDetails
  <2>2. queue'[t] = n
    BY <2>1, LoopTypes
  <2>3. PICK s \in Q!LoopState : s = loop[t][controller[t]] /\ Running(t, s)
    BY <1>14, <1>15, LoopTypes DEF TabInv
  <2>4. Kept(t, s)'
    <3>1. Stored' = Stored /\ edited'[t] = edited[t] /\ status'[t] = status[t]
      BY <1>1, <2>1 DEF Stored, Range
    <3>2. \A x : Holds(queue'[t], x) <=> Holds(queue[t], x)
      BY <1>8, <1>13, <2>2
    <3> QED BY <2>3, <3>1, <3>2 DEF Running, Kept
  <2>5. ASSUME s.pc # "done" PROVE Continuous(t, s)'
    <3>1. Continuous(t, s) /\ s.rest \in Seq(Q!Command) /\ s.version \in Int
      BY <2>3, <2>5, StateTypes DEF Running
    <3>2. Linked(n)' /\ Linked(s.rest)'
      BY <1>2, <1>8, <1>10, <1>11, <3>1, DetailsLinked, LaterLinked DEF Continuous
    <3>3. \A txs : Base(txs)' = Base(txs)
      BY <1>1 DEF Base, Range
    <3>4. s.rest # << >> /\ IsEdits(Head(s.rest)) => Based(s.version, Base(Head(s.rest).txs))'
      BY <1>1, <3>1, <3>3 DEF Continuous, Based, Stored, Range
    <3>5. IsEdits(Head(n)) => Follow(s.version, s.rest, Base(Head(n).txs))'
      <4> SUFFICES ASSUME IsEdits(Head(n)) PROVE Follow(s.version, s.rest, Base(Head(n).txs))'
        OBVIOUS
      <4>1. q # << >> /\ Head(n) = Head(q)
        BY <1>10, <1>11, Appended
      <4>2. PICK base : base = Base(Head(q).txs)
        OBVIOUS
      <4>3. Follow(s.version, s.rest, base)
        BY <1>8, <3>1, <4>1, <4>2 DEF Continuous
      <4>4. Follow(s.version, s.rest, base)'
        BY <1>2, <3>1, <4>3, LaterFollow DEF Continuous
      <4> QED BY <3>3, <4>1, <4>2, <4>4
    <3>6. n # << >> /\ n[Len(n)] = c
      BY <1>11, Appended
    <3>7. Follow(s.version, n, Range(was.log))'
      BY <1>12, <3>6 DEF Follow
    <3> QED BY <1>5, <2>2, <3>1, <3>2, <3>4, <3>5, <3>6, <3>7 DEF Continuous, IsEdits, Range
  <2>6. Running(t, s)'
    BY <2>4, <2>5 DEF Running
  <2> QED BY <1>1, <1>2, <1>7, <1>14, <1>15, <2>1, <2>3, <2>6 DEF TabInv, Later
<1>16. CASE controller[t] = 0
  <2>1. q = << >> /\ edited[t] = {} /\ ~isPolling[t]
    BY <1>8, <1>14, <1>16 DEF TabInv, CoreInv, QueueInv, Polled
  <2>2. PICK l \in Loop : l = started[t] + 1
    <3>1. started[t] \in Nat /\ started[t] < MaxLoads /\ MaxLoads \in Nat
      BY <1>16, QueueIs, SyncAssumption DEF CoreInv, Open, Q!EnqueueProjectDetails
    <3> QED BY <3>1 DEF Loop
  <2>3. PICK s : s = [Q!Off EXCEPT !.pc = "run", !.rest = n]
    OBVIOUS
  <2>4. s \in Q!LoopState /\ s.pc = "run" /\ s.rest = n
    BY <2>3, OffIs DEF Q!LoopState
  <2>5. /\ controller' = [controller EXCEPT ![t] = l]
        /\ queue' = [queue EXCEPT ![t] = << >>] /\ status' = [status EXCEPT ![t] = "syncing"]
        /\ loop' = [loop EXCEPT ![t][l] = s]
    BY <1>3, <1>8, <1>9, <1>11, <1>16, <2>1, <2>2, <2>3 DEF Open, Q!EnqueueProjectDetails
  <2>6. /\ controller'[t] = l /\ l # 0 /\ queue'[t] = << >> /\ status'[t] = "syncing"
        /\ loop'[t][l] = s /\ \A k \in Loop : k # l => loop'[t][k] = loop[t][k]
    <3>1. l # 0
      BY DEF Loop
    <3> QED BY <2>5, <3>1, LoopTypes
  <2>7. \A k \in Loop : k # l => loop'[t][k].pc = "off"
    BY <1>14, <1>16, <2>6 DEF TabInv, Loop
  <2>8. Linked(n)' /\ Linked(<< >>)'
    <3>1. Linked(<< >>)
      BY DEF Linked
    <3> QED BY <1>2, <1>10, <1>11, <2>1, <3>1, DetailsLinked, LaterLinked
  <2>9. n # << >> /\ n[Len(n)] = c /\ Head(n) = c
    BY <1>11, <2>1, Appended
  <2>10. Follow(s.version, n, Range(was.log))'
    BY <1>12, <2>9 DEF Follow
  <2>11. Continuous(t, s)'
    BY <1>5, <1>10, <2>4, <2>6, <2>8, <2>9, <2>10 DEF Continuous, IsEdits, Range
  <2>12. Kept(t, s)'
    BY <1>1, <2>1, <2>4, <2>6 DEF Kept
  <2> QED BY <1>1, <1>2, <1>7, <1>14, <2>6, <2>7, <2>11, <2>12 DEF TabInv, Running, Later
<1> QED BY <1>15, <1>16

\* One more edit is made, on content the tab shows.
LEMMA EditMade ==
  ASSUME CoreInv, NEW x \in Tx, NEW seen \in Seq(Tx), x = Len(view) + 1,
         view' = Append(view, seen), UNCHANGED build
  PROVE  /\ Later /\ Made' = Made \cup {x} /\ view'[x] = seen /\ x \notin Made
         /\ \A y \in Made : y < x /\ y \in Nat
<1>1. /\ Len(view) \in Nat /\ DOMAIN view = 1 .. Len(view) /\ DOMAIN view' = 1 .. Len(view) + 1
      /\ view'[x] = seen /\ \A y \in 1 .. Len(view) : view'[y] = view[y]
  BY TypesOf
<1>2. 1 .. Len(view) + 1 = (1 .. Len(view)) \cup {x}
  BY <1>1
<1>3. x \notin 1 .. Len(view) /\ \A y \in 1 .. Len(view) : y < x /\ y \in Nat
  BY <1>1
<1>4. Stored' = Stored
  BY DEF Stored, Range
<1> QED BY <1>1, <1>2, <1>3, <1>4, TypesOf DEF Made, Later

LEMMA NumbersOf ==
  ASSUME NEW txs \in Seq(Tx)
  PROVE  txs \in Seq(Nat)
<1>1. Tx \subseteq Nat
  BY SyncAssumption DEF Tx
<1>2. Len(txs) \in Nat /\ txs = [k \in 1 .. Len(txs) |-> txs[k]]
  OBVIOUS
<1>3. ASSUME NEW k \in 1 .. Len(txs) PROVE txs[k] \in Nat
  <2>1. txs[k] \in Tx
    OBVIOUS
  <2> QED BY <1>1, <2>1
<1>4. PICK n \in Nat : n = Len(txs)
  BY <1>2
<1>5. \A k \in 1 .. n : txs[k] \in Nat
  BY <1>3, <1>4
<1>6. [k \in 1 .. n |-> txs[k]] \in Seq(Nat)
  BY <1>5
<1> QED BY <1>2, <1>4, <1>6

\* Edits made one after the other.
LEMMA ChainGrows ==
  ASSUME CoreInv, NEW x \in Tx, NEW seen \in Seq(Tx), x = Len(view) + 1,
         view' = Append(view, seen), UNCHANGED build,
         NEW txs \in Seq(Tx), Chain(txs), Range(seen) = Base(txs) \cup Range(txs)
  PROVE  /\ Append(txs, x) \in Seq(Tx) /\ Chain(Append(txs, x))'
         /\ Base(Append(txs, x))' = Base(txs) /\ Range(Append(txs, x)) = Range(txs) \cup {x}
<1>1. /\ Later /\ Made' = Made \cup {x} /\ view'[x] = seen /\ x \notin Made
      /\ \A y \in Made : y < x /\ y \in Nat
  BY EditMade
<1>2. PICK n \in Seq(Tx) : n = Append(txs, x)
  <2>1. Append(txs, x) \in Seq(Tx)
    OBVIOUS
  <2> QED BY <2>1
<1>3. Range(n) = Range(txs) \cup {x} /\ n # << >>
  BY <1>2, RangeOfAppend
<1>4. txs # << >> /\ Range(txs) \subseteq Made /\ Increasing(txs)
  BY DEF Chain
<1>5. Head(n) = Head(txs)
  BY <1>2, <1>4
<1>6. Head(txs) \in Made
  BY <1>4, HeadIn
<1>7. Base(n)' = Base(txs)
  <2>1. view'[Head(n)] = view[Head(txs)]
    BY <1>1, <1>5, <1>6 DEF Later
  <2> QED BY <2>1 DEF Base, Range
<1>8. Increasing(n)
  <2>2. txs \in Seq(Nat) /\ x \in Nat
    BY NumbersOf, TypesOf
  <2>3. \A y \in Range(txs) : y < x
    BY <1>1, <1>4
  <2> QED BY <1>2, <1>4, <2>2, <2>3, IncreasingAppend
<1>9. ASSUME NEW y \in Range(n)
      PROVE  Range(view'[y]) = Base(txs) \cup {z \in Range(n) : z < y}
  <2>1. CASE y = x
    <3>1. {z \in Range(n) : z < x} = Range(txs)
      BY <1>1, <1>3, <1>4
    <3> QED BY <1>1, <2>1, <3>1
  <2>2. CASE y # x
    <3>1. y \in Range(txs) /\ y < x /\ ~(x < y)
      BY <1>1, <1>3, <1>4, <2>2
    <3>2. {z \in Range(n) : z < y} = {z \in Range(txs) : z < y}
      BY <1>3, <3>1
    <3>3. view'[y] = view[y]
      BY <1>1, <1>4, <3>1 DEF Later
    <3> QED BY <3>1, <3>2, <3>3 DEF Chain
  <2> QED BY <2>1, <2>2
<1>10. Range(n) \subseteq Made'
  BY <1>1, <1>3, <1>4
<1>11. Chain(n)'
  BY <1>3, <1>7, <1>8, <1>9, <1>10 DEF Chain, Increasing, Range
<1> QED BY <1>2, <1>3, <1>7, <1>11

\* The first of a list of edits.
LEMMA ChainStarts ==
  ASSUME CoreInv, NEW x \in Tx, NEW seen \in Seq(Tx), x = Len(view) + 1,
         view' = Append(view, seen), UNCHANGED build
  PROVE  /\ << x >> \in Seq(Tx) /\ Chain(<< x >>)' /\ Base(<< x >>)' = Range(seen)
         /\ Range(<< x >>) = {x}
<1>1. /\ Later /\ Made' = Made \cup {x} /\ view'[x] = seen /\ x \in Nat
  BY EditMade, TypesOf
<1>2. PICK n \in Seq(Tx) : n = << x >> /\ n # << >> /\ Head(n) = x /\ DOMAIN n = {1} /\ n[1] = x
  <2>1. << x >> \in Seq(Tx) /\ Len(<< x >>) = 1 /\ Head(<< x >>) = x /\ << x >>[1] = x
    OBVIOUS
  <2>2. DOMAIN << x >> = {1} /\ << x >> # << >>
    OBVIOUS
  <2> QED BY <2>1, <2>2
<1>3. Range(n) = {x}
  BY <1>2 DEF Range
<1>4. Base(n)' = Range(seen)
  BY <1>1, <1>2 DEF Base, Range
<1>5. Increasing(n)
  BY <1>2 DEF Increasing
<1>6. {z \in Range(n) : z < x} = {}
  BY <1>1, <1>3
<1>7. \A y \in Range(n) : Range(view'[y]) = Range(seen) \cup {z \in Range(n) : z < y}
  BY <1>1, <1>3, <1>6
<1>8. Chain(n)'
  BY <1>1, <1>2, <1>3, <1>4, <1>5, <1>7 DEF Chain, Increasing, Range
<1> QED BY <1>2, <1>3, <1>4, <1>8

\* An edit is put into the queue, or into the command at its end.
LEMMA EditLinked ==
  ASSUME CoreInv, NEW x \in Tx, NEW seen \in Seq(Tx), x = Len(view) + 1,
         view' = Append(view, seen), UNCHANGED build,
         NEW q \in Seq(Q!Command), Linked(q), q # << >> => After(q[Len(q)], Range(seen)),
         NEW n, n = Q!Enqueue(q, x)
  PROVE  /\ n \in Seq(Q!Command) /\ n # << >> /\ Linked(n)'
         /\ After(n[Len(n)], Range(seen) \cup {x})'
         /\ q = << >> => IsEdits(Head(n)) /\ Base(Head(n).txs)' = Range(seen)
         /\ q # << >> /\ IsEdits(Head(n)) =>
              IsEdits(Head(q)) /\ Base(Head(n).txs)' = Base(Head(q).txs)
         /\ \A y : Holds(n, y) <=> Holds(q, y) \/ y = x
<1>1. Later /\ Linked(q)'
  BY EditMade, LaterLinked
<1>2. /\ Len(q) \in Nat /\ DOMAIN q = 1 .. Len(q) /\ (q # << >> => Len(q) > 0 /\ Len(q) \in DOMAIN q)
      /\ q = << >> => Len(q) = 0
  <2>1. q = << >> => Len(q) = 0
    OBVIOUS
  <2> QED BY <2>1, HeadIn
<1>3. \A k \in DOMAIN q : IsEdits(q[k]) => /\ q[k].txs \in Seq(Tx) /\ Chain(q[k].txs)
                                           /\ Base(q[k].txs)' = Base(q[k].txs)
  BY <1>1, LaterChain, CommandIs DEF Linked
<1>4. n \in Seq(Q!Command)
  BY EnqueueType
<1>5. CASE q # << >> /\ IsEdits(q[Len(q)])
  <2>1. PICK txs \in Seq(Tx) : txs = q[Len(q)].txs /\ Chain(txs)
    BY <1>2, <1>3, <1>5
  <2>2. Range(seen) = Base(txs) \cup Range(txs)
    BY <1>2, <1>5, <2>1, CommandIs DEF After
  <2>3. PICK more \in Seq(Tx) : more = Append(txs, x)
    <3>1. Append(txs, x) \in Seq(Tx)
      OBVIOUS
    <3> QED BY <3>1
  <2>4. Chain(more)' /\ Base(more)' = Base(txs) /\ Range(more) = Range(txs) \cup {x}
    BY <2>1, <2>2, <2>3, ChainGrows
  <2>5. PICK c : c = [q[Len(q)] EXCEPT !.txs = more]
    OBVIOUS
  <2>6. /\ n = [q EXCEPT ![Len(q)] = c]
    BY <1>2, <1>5, <2>1, <2>3, <2>5 DEF Q!Enqueue, IsEdits
  <2>7. /\ DOMAIN n = DOMAIN q /\ Len(n) = Len(q) /\ n[Len(q)] = c
        /\ \A k \in DOMAIN q : k # Len(q) => n[k] = q[k]
    BY <1>2, <1>5, <2>6
  <2>8. c.type = "transactions" /\ c.txs = more /\ IsEdits(c)
    <3>1. q[Len(q)] \in [type : {"transactions"}, txs : Seq(Tx)]
      BY <1>2, <1>5 DEF Q!Command, IsEdits
    <3> QED BY <2>5, <3>1 DEF IsEdits
  <2>9. n # << >> /\ Head(n) = n[1] /\ Head(q) = q[1]
    BY <1>2, <1>4, <1>5, <2>7
  <2>10. Linked(n)'
    <3> SUFFICES ASSUME NEW k \in DOMAIN n, IsEdits(n[k])
                 PROVE  /\ Chain(n[k].txs)'
                        /\ k > 1 => /\ n[k - 1].type = "setDetails"
                                    /\ Based(n[k - 1].version, Base(n[k].txs))'
      BY DEF Linked, IsEdits
    <3>1. IsEdits(q[k])
      BY <1>5, <2>7
    <3>2. Chain(q[k].txs)' /\ (k > 1 => /\ q[k - 1].type = "setDetails"
                                         /\ Based(q[k - 1].version, Base(q[k].txs))')
      BY <1>1, <2>7, <3>1 DEF Linked, IsEdits
    <3>3. k > 1 => k - 1 \in DOMAIN q /\ k - 1 # Len(q)
      BY <1>2, <2>7
    <3>4. k > 1 => n[k - 1] = q[k - 1]
      BY <2>7, <3>3
    <3>5. CASE k # Len(q)
      <4>1. n[k] = q[k]
        BY <2>7, <3>5
      <4> QED BY <3>2, <3>4, <4>1
    <3>6. CASE k = Len(q)
      <4>1. n[k].txs = more /\ q[k].txs = txs
        BY <2>1, <2>7, <2>8, <3>6
      <4>2. Base(txs)' = Base(txs)
        BY <1>1, <2>1, LaterChain
      <4>3. PICK base : base = Base(txs)
        OBVIOUS
      <4>4. k > 1 => Based(q[k - 1].version, base)'
        BY <3>2, <4>1, <4>2, <4>3
      <4> QED BY <2>4, <3>2, <3>4, <4>1, <4>3, <4>4
    <3> QED BY <3>5, <3>6
  <2>11. After(n[Len(n)], Range(seen) \cup {x})'
    <3>1. n[Len(n)] = c /\ c.type # "setDetails" /\ c.txs = more
      BY <2>7, <2>8
    <3>2. Range(seen) \cup {x} = Base(txs) \cup Range(more)
      BY <2>2, <2>4
    <3>3. PICK base : base = Base(txs)
      OBVIOUS
    <3>4. Base(more)' = base
      BY <2>4, <3>3
    <3>5. PICK edits : edits = Range(seen) \cup {x}
      OBVIOUS
    <3>6. (edits = Base(more) \cup Range(more))'
      BY <3>2, <3>3, <3>4, <3>5 DEF Range
    <3>7. After(c, edits)'
      BY <3>1, <3>6 DEF After
    <3> QED BY <3>1, <3>5, <3>7 DEF Range
  <2>12. IsEdits(Head(n)) => IsEdits(Head(q)) /\ Base(Head(n).txs)' = Base(Head(q).txs)
    <3>1. CASE Len(q) = 1
      BY <1>5, <2>1, <2>4, <2>7, <2>8, <2>9, <3>1
    <3>2. CASE Len(q) # 1
      <4>1. Head(n) = Head(q) /\ 1 \in DOMAIN q
        BY <1>2, <1>5, <2>7, <2>9, <3>2
      <4> QED BY <1>3, <2>9, <4>1
    <3> QED BY <3>1, <3>2
  <2>13. \A y : Holds(n, y) <=> Holds(q, y) \/ y = x
    <3>1. ASSUME NEW y, Holds(n, y) PROVE Holds(q, y) \/ y = x
      <4>1. PICK k \in DOMAIN n : IsEdits(n[k]) /\ y \in Range(n[k].txs)
        BY <3>1 DEF Holds
      <4> QED BY <1>2, <1>5, <2>1, <2>4, <2>7, <2>8, <4>1 DEF Holds
    <3>2. ASSUME NEW y, Holds(q, y) PROVE Holds(n, y)
      <4>1. PICK k \in DOMAIN q : IsEdits(q[k]) /\ y \in Range(q[k].txs)
        BY <3>2 DEF Holds
      <4> QED BY <1>2, <1>5, <2>1, <2>4, <2>7, <2>8, <4>1 DEF Holds
    <3>3. Holds(n, x)
      BY <1>2, <1>5, <2>4, <2>7, <2>8 DEF Holds
    <3> QED BY <3>1, <3>2, <3>3
  <2> QED BY <1>4, <1>5, <2>9, <2>10, <2>11, <2>12, <2>13
<1>6. CASE ~(q # << >> /\ IsEdits(q[Len(q)]))
  <2>1. PICK single \in Seq(Tx) : single = << x >>
    <3>1. << x >> \in Seq(Tx)
      OBVIOUS
    <3> QED BY <3>1
  <2>2. Chain(single)' /\ Base(single)' = Range(seen) /\ Range(single) = {x}
    BY <2>1, ChainStarts
  <2>3. PICK c \in Q!Command : c = [type |-> "transactions", txs |-> single]
    BY CommandsType
  <2>4. IsEdits(c) /\ c.txs = single /\ c.type # "setDetails"
    BY <2>3 DEF IsEdits
  <2>5. n = Append(q, c)
    <3>1. ~(Len(q) > 0 /\ q[Len(q)].type = "transactions")
      BY <1>2, <1>6 DEF IsEdits
    <3> QED BY <2>1, <2>3, <3>1 DEF Q!Enqueue
  <2>6. /\ n # << >> /\ Len(n) = Len(q) + 1 /\ n[Len(n)] = c /\ n[Len(q) + 1] = c
        /\ \A k \in DOMAIN q : n[k] = q[k]
        /\ \A k \in DOMAIN n : k \in DOMAIN q \/ k = Len(q) + 1
        /\ q # << >> => Head(n) = Head(q)
        /\ q = << >> => Head(n) = c
        /\ \A y : Holds(n, y) <=> Holds(q, y) \/ y \in Range(single)
    <3>1. \A y : Holds(n, y) <=> Holds(q, y) \/ (IsEdits(c) /\ y \in Range(c.txs))
      BY <2>5, Appended
    <3>2. \A y : Holds(n, y) <=> Holds(q, y) \/ y \in Range(single)
      BY <2>4, <3>1
    <3>3. n # << >> /\ Len(n) = Len(q) + 1 /\ n[Len(n)] = c /\ n[Len(q) + 1] = c
      BY <2>5, Appended
    <3>4. \A k \in DOMAIN q : n[k] = q[k]
      BY <2>5, Appended
    <3>5. \A k \in DOMAIN n : k \in DOMAIN q \/ k = Len(q) + 1
      BY <2>5, Appended
    <3>6. (q # << >> => Head(n) = Head(q)) /\ (q = << >> => Head(n) = c)
      BY <2>5, Appended
    <3> QED BY <3>2, <3>3, <3>4, <3>5, <3>6
  <2>7. Linked(n)'
    <3> SUFFICES ASSUME NEW k \in DOMAIN n, IsEdits(n[k])
                 PROVE  /\ Chain(n[k].txs)'
                        /\ k > 1 => /\ n[k - 1].type = "setDetails"
                                    /\ Based(n[k - 1].version, Base(n[k].txs))'
      BY DEF Linked, IsEdits
    <3>1. CASE k \in DOMAIN q
      <4>1. n[k] = q[k] /\ (k > 1 => n[k - 1] = q[k - 1])
        <5>1. k > 1 => k - 1 \in DOMAIN q
          BY <1>2, <3>1
        <5> QED BY <2>6, <3>1, <5>1
      <4> QED BY <1>1, <3>1, <4>1 DEF Linked, IsEdits
    <3>2. CASE k = Len(q) + 1
      <4>1. n[k] = c /\ k - 1 = Len(q)
        BY <1>2, <2>6, <3>2
      <4>2. ASSUME k > 1
            PROVE  /\ n[k - 1].type = "setDetails"
                   /\ Based(n[k - 1].version, Range(seen))'
        <5>1. q # << >> /\ Len(q) \in DOMAIN q
          BY <1>2, <4>1, <4>2
        <5>2. n[k - 1] = q[Len(q)] /\ q[Len(q)] \in Q!Command /\ ~IsEdits(q[Len(q)])
          BY <1>6, <2>6, <4>1, <5>1
        <5>3. PICK d \in Q!Command : d = n[k - 1] /\ d.type = "setDetails" /\ d.version \in Int
                                     /\ Based(d.version, Range(seen))
          BY <5>1, <5>2, CommandIs DEF After
        <5>4. PICK edits : edits = Range(seen)
          OBVIOUS
        <5>5. Based(d.version, edits)'
          BY <1>1, <5>3, <5>4, LaterBased
        <5> QED BY <5>3, <5>4, <5>5 DEF Range
      <4>3. PICK edits : edits = Range(seen)
        OBVIOUS
      <4>4. Based(n[k - 1].version, edits)' <=> Based(n[k - 1].version, Range(seen))'
        BY <4>3 DEF Range
      <4> QED BY <2>2, <2>4, <4>1, <4>2, <4>3, <4>4
    <3> QED BY <2>6, <3>1, <3>2
  <2>8. After(n[Len(n)], Range(seen) \cup {x})'
    <3>1. PICK edits : edits = Range(seen)
      OBVIOUS
    <3>2. PICK all : all = edits \cup {x}
      OBVIOUS
    <3>3. Base(single)' = edits
      BY <2>2, <3>1
    <3>4. (all = Base(single) \cup Range(single))'
      BY <2>2, <3>2, <3>3 DEF Range
    <3>5. After(c, all)'
      BY <2>4, <3>4 DEF After
    <3> QED BY <2>6, <3>1, <3>2, <3>5 DEF Range
  <2>9. q # << >> /\ IsEdits(Head(n)) => Base(Head(n).txs)' = Base(Head(q).txs)
    <3>1. q # << >> => 1 \in DOMAIN q /\ Head(q) = q[1]
      BY HeadIn
    <3> QED BY <1>3, <2>6, <3>1
  <2>10. \A y : Holds(n, y) <=> Holds(q, y) \/ y = x
    BY <2>2, <2>6
  <2> QED BY <1>4, <2>2, <2>4, <2>6, <2>7, <2>8, <2>9, <2>10
<1> QED BY <1>5, <1>6

\* What a tab shows is extended by the edit.
LEMMA ShowsEdit ==
  ASSUME CoreInv, SaveInv, NEW t \in Tab, MakeEdit(t)
  PROVE  Shows(t)'
<1>1. PICK x \in Tx : x = Len(view) + 1
  BY DEF MakeEdit
<1>2. PICK seen \in Seq(Tx) : seen = doc[t]
  BY TypesOf
<1>3. /\ view' = Append(view, seen) /\ UNCHANGED build /\ session[t] = "open"
      /\ UNCHANGED << session, loaded >> /\ doc' = [doc EXCEPT ![t] = Append(seen, x)]
  BY <1>1, <1>2 DEF MakeEdit, serviceVars
<1>4. /\ Later /\ Made' = Made \cup {x} /\ \A y \in Made : y < x
  BY <1>1, <1>2, <1>3, EditMade
<1>5. Shows(t)
  BY DEF SaveInv, TabInv
<1>6. PICK was \in [version : Nat, log : Seq(Tx)] : was = loaded[t]
  BY TypesOf
<1>7. Based(was.version, Range(was.log))'
  BY <1>4, <1>5, <1>6, LaterBased DEF Shows, Range
<1>8. Increasing(seen) /\ Range(seen) \subseteq Made
  BY <1>2, <1>3, <1>5 DEF Shows
<1>9. PICK n : n = Append(seen, x)
  OBVIOUS
<1>10. Range(n) = Range(seen) \cup {x}
  BY <1>9, RangeOfAppend
<1>11. Increasing(n)
  <2>1. seen \in Seq(Nat) /\ x \in Nat
    BY NumbersOf, TypesOf
  <2>2. \A y \in Range(seen) : y < x
    BY <1>4, <1>8
  <2> QED BY <1>8, <1>9, <2>1, <2>2, IncreasingAppend
<1>12. doc'[t] = n /\ loaded'[t] = was
  BY <1>3, <1>6, <1>9, TypesOf
<1>13. Range(n) \subseteq Made'
  BY <1>4, <1>8, <1>10
<1>14. Increasing(was.log) /\ Range(was.log) \subseteq Made'
  BY <1>4, <1>5, <1>6 DEF Shows
<1> QED BY <1>7, <1>11, <1>12, <1>13, <1>14 DEF Shows, Increasing, Range

LEMMA SaveMakeEdit ==
  ASSUME CoreInv, SaveInv, NEW t \in Tab, MakeEdit(t)
  PROVE  TabInv(t)'
<1>1. PICK x \in Tx : x = Len(view) + 1
  BY DEF MakeEdit
<1>2. PICK seen \in Seq(Tx) : seen = doc[t]
  BY TypesOf
<1>3. PICK q \in Seq(Q!Command) : q = queue[t]
  BY LoopTypes
<1>4. /\ view' = Append(view, seen) /\ UNCHANGED << build, session, loaded >> /\ session[t] = "open"
      /\ doc' = [doc EXCEPT ![t] = Append(seen, x)]
      /\ edited' = [edited EXCEPT ![t] = @ \cup {x}]
      /\ queue' = [queue EXCEPT ![t] = Q!Enqueue(q, x)]
      /\ status' = [status EXCEPT ![t] = "syncing"]
      /\ UNCHANGED << loop, controller, completed >>
  BY <1>1, <1>2, <1>3 DEF MakeEdit, serviceVars, Q!SendTransaction
<1>5. Later
  BY <1>1, <1>2, <1>4, EditMade
<1>6. TabInv(t) /\ controller[t] # 0
  BY <1>4 DEF SaveInv, TabInv
<1>7. PICK s \in Q!LoopState : s = loop[t][controller[t]] /\ Running(t, s)
  BY <1>6, LoopTypes DEF TabInv
<1>8. PICK n : n = Q!Enqueue(q, x)
  OBVIOUS
<1>9. PICK shown : shown = Append(seen, x) /\ Range(shown) = Range(seen) \cup {x}
  <2>1. Range(Append(seen, x)) = Range(seen) \cup {x}
    BY RangeOfAppend
  <2> QED BY <2>1
<1>10. /\ queue'[t] = n /\ status'[t] = "syncing" /\ doc'[t] = shown
       /\ edited'[t] = edited[t] \cup {x} /\ edited[t] \subseteq Tx
  BY <1>4, <1>8, <1>9, TypesOf, LoopTypes
<1>11. ASSUME s.pc # "done" PROVE Continuous(t, s)' /\ Kept(t, s)'
  <2>1. Continuous(t, s) /\ Kept(t, s) /\ s.rest \in Seq(Q!Command) /\ s.version \in Int
    BY <1>7, <1>11, StateTypes DEF Running
  <2>2. Linked(q) /\ (q # << >> => After(q[Len(q)], Range(seen)))
    BY <1>2, <1>3, <1>4, <2>1 DEF Continuous, Follow
  <2>3. /\ n # << >> /\ Linked(n)' /\ After(n[Len(n)], Range(seen) \cup {x})'
        /\ q = << >> => IsEdits(Head(n)) /\ Base(Head(n).txs)' = Range(seen)
        /\ q # << >> /\ IsEdits(Head(n)) =>
             IsEdits(Head(q)) /\ Base(Head(n).txs)' = Base(Head(q).txs)
        /\ \A y : Holds(n, y) <=> Holds(q, y) \/ y = x
    BY <1>1, <1>4, <1>8, <2>2, EditLinked
  <2>4. Linked(s.rest) /\ Linked(s.rest)'
    BY <1>5, <2>1, LaterLinked DEF Continuous
  <2>5. s.rest # << >> /\ IsEdits(Head(s.rest)) => Based(s.version, Base(Head(s.rest).txs))'
    <3> SUFFICES ASSUME s.rest # << >>, IsEdits(Head(s.rest))
                 PROVE  Based(s.version, Base(Head(s.rest).txs))'
      OBVIOUS
    <3>1. PICK base : base = Base(Head(s.rest).txs)
      OBVIOUS
    <3>2. Based(s.version, base)'
      BY <1>5, <2>1, <3>1, LaterBased DEF Continuous
    <3>3. Chain(Head(s.rest).txs) /\ Head(s.rest).txs \in Seq(Tx)
      BY <2>1, <2>4, HeadIn, CommandIs DEF Linked
    <3>4. Base(Head(s.rest).txs)' = base
      BY <1>5, <3>1, <3>3, LaterChain
    <3> QED BY <3>2, <3>4
  <2>6. IsEdits(Head(n)) => Follow(s.version, s.rest, Base(Head(n).txs))'
    <3> SUFFICES ASSUME IsEdits(Head(n)) PROVE Follow(s.version, s.rest, Base(Head(n).txs))'
      OBVIOUS
    <3>1. PICK base : base = IF q = << >> THEN Range(seen) ELSE Base(Head(q).txs)
      OBVIOUS
    <3>2. Base(Head(n).txs)' = base
      BY <2>3, <3>1
    <3>3. Follow(s.version, s.rest, base)
      BY <1>2, <1>3, <1>4, <2>1, <2>3, <3>1 DEF Continuous
    <3>4. Follow(s.version, s.rest, base)'
      BY <1>5, <2>1, <2>4, <3>3, LaterFollow
    <3> QED BY <3>2, <3>4
  <2>7. Follow(s.version, n, Range(shown))'
    <3>1. PICK edits : edits = Range(shown)
      OBVIOUS
    <3>2. After(n[Len(n)], edits)'
      BY <1>9, <2>3, <3>1 DEF Range
    <3>3. Follow(s.version, n, edits)'
      BY <2>3, <3>2 DEF Follow
    <3> QED BY <3>1, <3>3 DEF Range
  <2>8. Continuous(t, s)'
    BY <1>10, <2>1, <2>3, <2>4, <2>5, <2>6, <2>7 DEF Continuous, IsEdits, Range
  <2>9. \A y \in edited'[t] : y \in Stored' \/ Holds(s.rest, y) \/ Holds(queue'[t], y)
    BY <1>3, <1>5, <1>10, <1>11, <2>1, <2>3 DEF Kept, Later
  <2> QED BY <1>10, <1>11, <2>8, <2>9 DEF Kept
<1>12. Running(t, s)'
  BY <1>10, <1>11 DEF Running, Kept
<1>13. Shows(t)'
  BY ShowsEdit
<1> QED BY <1>4, <1>5, <1>6, <1>7, <1>12, <1>13 DEF TabInv, Later

\* The page is loaded anew.
LEMMA SaveReload ==
  ASSUME CoreInv, SaveInv, NEW t \in Tab, Reload(t)
  PROVE  TabInv(t)'
<1>1. /\ queue'[t] = << >> /\ controller'[t] = 0 /\ edited'[t] = {} /\ session'[t] = "closed"
      /\ \A l \in Loop : loop'[t][l] = Q!Off
      /\ UNCHANGED << build, view, loaded, completed >>
  BY TypesOf, LoopTypes DEF Reload, serviceVars, Q!ReloadPage, Loop, Q!Loop
<1>2. Later
  BY <1>1, LaterSame
<1>3. TabInv(t)
  BY DEF SaveInv
<1>4. PICK was \in [version : Nat, log : Seq(Tx)] : was = loaded[t]
  BY TypesOf
<1>5. Based(was.version, Range(was.log))'
  BY <1>2, <1>3, <1>4, LaterBased DEF TabInv, Shows, Range
<1>6. Shows(t)'
  BY <1>1, <1>2, <1>3, <1>4, <1>5 DEF TabInv, Shows, Later, Increasing, Range
<1> QED BY <1>1, <1>2, <1>3, <1>6, OffIs DEF TabInv, Later

(***************************************************************************)
(* Steps of a handler.                                                     *)
(***************************************************************************)

LEMMA HandlerIs ==
  ASSUME CoreInv, NEW h \in Handler
  PROVE  /\ handler[h] \in SP!HandlerState
         /\ handler[h].entries \in Seq(Tx) /\ handler[h].version \in Nat
         /\ handler[h].row.version \in Nat /\ handler[h].seen \in Nat
<1>1. handler[h] \in SP!HandlerState
  BY TypesOf
<1> QED BY <1>1 DEF SP!HandlerState, SP!Row

\* The other handlers go on to be right.
LEMMA OthersKept ==
  ASSUME CoreInv, SaveInv, Later, NEW h \in Handler, NEW n,
         handler' = [handler EXCEPT ![h] = n], HandlerInv(n)'
  PROVE  \A g \in Handler : HandlerInv(handler[g])'
<1> SUFFICES ASSUME NEW g \in Handler PROVE HandlerInv(handler[g])'
  OBVIOUS
<1>1. CASE g = h
  <2>1. handler'[g] = n
    BY <1>1, TypesOf
  <2> QED BY <2>1
<1>2. CASE g # h
  <2>1. PICK s \in SP!HandlerState : s = handler[g] /\ HandlerInv(s)
    BY HandlerIs DEF SaveInv
  <2>2. HandlerInv(s)'
    BY <2>1, LaterHandler
  <2>3. handler'[g] = s
    BY <1>2, <2>1, TypesOf
  <2> QED BY <2>2, <2>3
<1> QED BY <1>1, <1>2

\* A loop that waits for an answer is the only one that does.
LEMMA ConnKept ==
  ASSUME CoreInv, ConnInv,
         \A t \in Tab, l \in Loop : conn'[t][l] # NoHandler =>
           /\ conn'[t][l] = conn[t][l] /\ loop'[t][l].pc = loop[t][l].pc
           /\ loop'[t][l].rest = loop[t][l].rest
           /\ handler'[conn[t][l]].pc # "idle"
           /\ handler'[conn[t][l]].entries = handler[conn[t][l]].entries
  PROVE  ConnInv'
<1> SUFFICES ASSUME NEW t \in Tab, NEW l \in Loop, conn'[t][l] # NoHandler
             PROVE  /\ loop'[t][l].pc = "wait"
                    /\ handler'[conn'[t][l]].pc # "idle"
                    /\ handler'[conn'[t][l]].entries = Head(loop'[t][l].rest).txs
                    /\ \A u \in Tab, k \in Loop : conn'[u][k] = conn'[t][l] => u = t /\ k = l
  BY DEF ConnInv
<1>1. /\ conn'[t][l] = conn[t][l] /\ loop'[t][l].pc = loop[t][l].pc
      /\ loop'[t][l].rest = loop[t][l].rest
      /\ handler'[conn[t][l]].pc # "idle"
      /\ handler'[conn[t][l]].entries = handler[conn[t][l]].entries
  OBVIOUS
<1>2. ASSUME NEW u \in Tab, NEW k \in Loop, conn'[u][k] = conn'[t][l] PROVE u = t /\ k = l
  <2>1. conn'[u][k] = conn[u][k]
    BY <1>2
  <2> QED BY <1>1, <1>2, <2>1 DEF ConnInv
<1> QED BY <1>1, <1>2 DEF ConnInv

\* An answer other than "ok" promises nothing.
LEMMA SaveAnswer ==
  ASSUME CoreInv, NEW h \in Handler, NEW reply, reply # "ok", SP!Answer(h, reply)
  PROVE  \E n : handler' = [handler EXCEPT ![h] = n] /\ HandlerInv(n)' /\ n.pc = "done"
                /\ n.entries = handler[h].entries
<1>1. PICK n : n = [SP!Idle EXCEPT !.pc = "done", !.reply = reply,
                 !.kind = handler[h].kind, !.entries = handler[h].entries,
                 !.denied = handler[h].denied, !.version = handler[h].version,
                 !.accepted = handler[h].accepted]
  OBVIOUS
<1>2. n.pc = "done" /\ n.reply = reply /\ n.entries = handler[h].entries
  BY <1>1 DEF SP!Idle
<1>3. HandlerInv(n)'
  BY <1>2 DEF HandlerInv
<1>4. handler' = [handler EXCEPT ![h] = n]
  BY <1>1 DEF SP!Answer
<1> QED BY <1>2, <1>3, <1>4

\* The edits of a list are saved if the last one is, and nothing else is saved
\* on top of what the first one was made on if the last one was saved last.
LEMMA LastSaved ==
  ASSUME CoreInv, StoredInv, NEW txs \in Seq(Tx), Chain(txs), txs[Len(txs)] \in Stored
  PROVE  /\ Range(txs) \subseteq Stored
         /\ txs[Len(txs)] = build.lastTx => Stored = Base(txs) \cup Range(txs)
<1>1. PICK z \in Tx : z = txs[Len(txs)]
  BY TypesOf DEF Stored, Range
<1>2. txs \in Seq(Nat) /\ txs # << >> /\ Increasing(txs)
  BY NumbersOf DEF Chain
<1>3. z \in Range(txs) /\ \A x \in Range(txs) : x <= z /\ x \in Nat
  BY <1>1, <1>2, Ends
<1>4. Range(view[z]) = {y \in Stored : y < z}
  BY <1>1 DEF StoredInv
<1>5. Range(view[z]) = Base(txs) \cup {y \in Range(txs) : y < z}
  BY <1>3 DEF Chain
<1>6. ASSUME NEW x \in Range(txs), x # z PROVE x < z
  BY <1>3, <1>6
<1>7. Range(txs) \subseteq Stored
  BY <1>1, <1>4, <1>5, <1>6
<1>8. ASSUME z = build.lastTx PROVE Stored = Base(txs) \cup Range(txs)
  <2>1. z # NoTx
    BY SyncAssumption DEF Tx, NoTx
  <2>2. build.log # << >> /\ z = build.log[Len(build.log)] /\ build.log \in Seq(Nat)
    BY <1>8, <2>1, NumbersOf, TypesOf DEF StoredInv
  <2>3. \A y \in Stored : y <= z /\ y \in Nat
    BY <2>2, Ends DEF StoredInv, Stored
  <2>4. z \in Nat
    BY <1>3
  <2>5. Stored = {y \in Stored : y < z} \cup {z}
    BY <1>1, <2>3, <2>4
  <2>6. Range(txs) = {y \in Range(txs) : y < z} \cup {z}
    BY <1>3, <1>6
  <2> QED BY <1>4, <1>5, <2>5, <2>6
<1> QED BY <1>1, <1>7, <1>8

LEMMA LastStored ==
  ASSUME CoreInv, StoredInv
  PROVE  build.lastTx \in Stored \cup {NoTx}
<1>1. CASE build.log = << >>
  BY <1>1 DEF StoredInv
<1>2. CASE build.log # << >>
  <2>1. build.log \in Seq(Nat)
    BY NumbersOf, TypesOf
  <2> QED BY <1>2, <2>1, Ends DEF StoredInv, Stored
<1> QED BY <1>1, <1>2

\* The version match succeeds: what is stored is what the edits were made on.
LEMMA SaveCommit ==
  ASSUME CoreInv, SP!CasInv, SaveInv, NEW h \in Handler, handler[h].pc = "commit",
         build.version = handler[h].version, build' = SP!NewRow(handler[h]), UNCHANGED view
  PROVE  /\ Later /\ StoredInv'
         /\ Range(handler[h].entries) \subseteq Stored'
         /\ Stored' = Base(handler[h].entries) \cup Range(handler[h].entries)
         /\ build'.version = handler[h].version + 1
<1>1. PICK txs \in Seq(Tx) : txs = handler[h].entries
  BY HandlerIs
<1>2. /\ Chain(txs) /\ Based(build.version, Base(txs)) /\ handler[h].cur = txs
  BY <1>1 DEF SaveInv, HandlerInv
<1>3. Stored = Base(txs) /\ txs # << >>
  BY <1>2 DEF Based, Chain
<1>4. handler[h].row = build
  BY <1>2, <1>3, HandlerIs DEF SP!CasInv, SP!Fresh, SP!HasRow, SP!Working
<1>5. PICK log \in Seq(Tx) : log = build.log
  BY TypesOf
<1>6. /\ build'.version = build.version + 1 /\ build'.log = log \o txs
      /\ build'.lastTx = txs[Len(txs)]
  BY <1>2, <1>4, <1>5 DEF SP!NewRow, SP!LastTx
<1>7. StoredInv
  BY DEF SaveInv
<1>8. Stored' = Stored \cup Range(txs)
  <2>1. Range(log \o txs) = Range(log) \cup Range(txs)
    BY RangeOfConcat
  <2>2. PICK all : all = log \o txs
    OBVIOUS
  <2>3. Stored = Range(log) /\ build'.log = all
    BY <1>5, <1>6, <2>2 DEF Stored
  <2>4. Stored' = Range(all)
    BY <2>3 DEF Stored, Range
  <2> QED BY <2>1, <2>2, <2>3, <2>4
<1>9. Later
  BY <1>6, <1>8, TypesOf DEF Later, Made
<1>10. /\ log \in Seq(Nat) /\ txs \in Seq(Nat) /\ Increasing(log) /\ Increasing(txs)
       /\ Range(log) = Stored
  BY <1>2, <1>5, <1>7, NumbersOf DEF StoredInv, Chain, Stored
<1>11. /\ Head(txs) \in Range(txs) /\ Head(txs) \in Made
       /\ \A y \in Range(txs) : Head(txs) <= y /\ y \in Nat
  BY <1>2, <1>3, <1>10, Ends DEF Chain
<1>12. ASSUME NEW x \in Stored, NEW y \in Range(txs)
       PROVE  x < y /\ x \in Nat /\ ~(y < x)
  <2>1. x \in Range(view[Head(txs)])
    BY <1>3 DEF Base
  <2>2. x \in 1 .. Head(txs) - 1
    BY <1>7, <1>11, <2>1 DEF StoredInv
  <2> QED BY <1>11, <2>2
<1>13. Increasing(log \o txs)
  BY <1>10, <1>12, IncreasingConcat
<1>14. ASSUME NEW x \in Stored' PROVE Range(view[x]) = {y \in Stored' : y < x}
  <2>1. CASE x \in Stored
    <3>1. Range(view[x]) = {y \in Stored : y < x}
      BY <1>7, <2>1 DEF StoredInv
    <3>2. {y \in Stored \cup Range(txs) : y < x} = {y \in Stored : y < x}
      BY <1>12, <2>1
    <3> QED BY <1>8, <3>1, <3>2
  <2>2. CASE x \in Range(txs)
    <3>1. Range(view[x]) = Stored \cup {y \in Range(txs) : y < x}
      BY <1>2, <1>3, <2>2 DEF Chain
    <3>2. {y \in Stored \cup Range(txs) : y < x} = Stored \cup {y \in Range(txs) : y < x}
      BY <1>12, <2>2
    <3> QED BY <1>8, <3>1, <3>2
  <2> QED BY <1>8, <2>1, <2>2
<1>15. PICK all : all = log \o txs
  OBVIOUS
<1>16. all # << >> /\ all[Len(all)] = txs[Len(txs)]
  <2>1. /\ Len(txs) \in Nat /\ Len(log) \in Nat /\ Len(all) = Len(log) + Len(txs)
        /\ DOMAIN all = 1 .. Len(all)
        /\ \A k \in 1 .. Len(all) : all[k] = IF k <= Len(log) THEN log[k] ELSE txs[k - Len(log)]
    BY <1>15
  <2>2. Len(txs) > 0
    BY <1>3, HeadIn
  <2>3. Len(all) \in 1 .. Len(all) /\ ~(Len(all) <= Len(log)) /\ Len(all) - Len(log) = Len(txs)
    BY <2>1, <2>2
  <2> QED BY <2>1, <2>3
<1>17. Stored' \subseteq Made' /\ \A x \in Made' : Range(view[x]) \subseteq 1 .. x - 1 /\ Increasing(view[x])
  BY <1>2, <1>7, <1>8 DEF StoredInv, Chain, Made
<1>18. build'.log = all /\ build'.lastTx = all[Len(all)] /\ view' = view
  BY <1>6, <1>15, <1>16
<1>19. StoredInv'
  BY <1>13, <1>14, <1>15, <1>16, <1>17, <1>18 DEF StoredInv, Increasing, Range
<1> QED BY <1>1, <1>3, <1>6, <1>8, <1>9, <1>19

LEMMA StoredSame ==
  ASSUME StoredInv, UNCHANGED << build, view >>
  PROVE  StoredInv'
<1>1. PICK b : b = build
  OBVIOUS
<1>2. PICK v : v = view
  OBVIOUS
<1>3. build' = b /\ view' = v
  BY <1>1, <1>2
<1> QED BY <1>1, <1>2, <1>3 DEF StoredInv, Stored, Made, Increasing, Range

\* What every step of a handler keeps.
Serves(h) ==
  /\ Later /\ StoredInv'
  /\ \E n : /\ handler' = [handler EXCEPT ![h] = n] /\ HandlerInv(n)' /\ n.pc # "idle"
            /\ n.entries = handler[h].entries

\* A step after which the same holds of the handler and of the build.
LEMMA ServesSame ==
  ASSUME CoreInv, SaveInv, NEW h \in Handler, NEW n, handler' = [handler EXCEPT ![h] = n],
         UNCHANGED << build, view >>, HandlerInv(n), n.pc # "idle", n.entries = handler[h].entries,
         n.version \in Nat
  PROVE  Serves(h)
<1>1. Later
  BY LaterSame
<1>2. StoredInv'
  BY StoredSame DEF SaveInv
<1>3. PICK txs \in Seq(Tx) : txs = n.entries
  BY HandlerIs
<1>4. Chain(txs) => Chain(txs)' /\ Base(txs)' = Base(txs)
  BY <1>1, LaterChain
<1>5. Stored' = Stored
  BY DEF Stored, Range
<1>6. PICK base : base = Base(txs)
  OBVIOUS
<1>7. Based(n.version, base)' <=> Based(n.version, base)
  BY <1>5 DEF Based
<1>8. Based(n.version, base \cup Range(txs))' <=> Based(n.version, base \cup Range(txs))
  BY <1>5 DEF Based
<1>9. HandlerInv(n)'
  BY <1>3, <1>4, <1>5, <1>6, <1>7, <1>8 DEF HandlerInv, Range
<1> QED BY <1>1, <1>2, <1>9 DEF Serves

LEMMA ServesAnswer ==
  ASSUME CoreInv, SaveInv, NEW h \in Handler, NEW reply, reply # "ok", SP!Answer(h, reply),
         UNCHANGED << build, view >>
  PROVE  Serves(h)
<1>1. Later
  BY LaterSame
<1>2. StoredInv'
  BY StoredSame DEF SaveInv
<1> QED BY <1>1, <1>2, SaveAnswer DEF Serves

\* The version match made the row in memory the stored one, and the request
\* goes on to say what it said.
LEMMA ServesCommit ==
  ASSUME CoreInv, SP!CasInv, SaveInv, NEW h \in Handler, SP!Commit(h), UNCHANGED view
  PROVE  Serves(h)
<1>1. handler[h].pc = "commit" /\ build.version = handler[h].version /\ build' = SP!NewRow(handler[h])
  BY DEF SP!Commit
<1>2. /\ Later /\ StoredInv' /\ Range(handler[h].entries) \subseteq Stored'
      /\ Stored' = Base(handler[h].entries) \cup Range(handler[h].entries)
      /\ build'.version = handler[h].version + 1
  BY <1>1, SaveCommit
<1>3. PICK s \in SP!HandlerState : s = handler[h] /\ HandlerInv(s) /\ s.pc = "commit"
  BY <1>1, HandlerIs DEF SaveInv
<1>4. PICK n : n = [s EXCEPT !.row = SP!NewRow(s), !.version = s.version + 1, !.pc = "next",
                             !.accepted = @ \cup Range(s.cur)]
  OBVIOUS
<1>5. handler' = [handler EXCEPT ![h] = n]
  BY <1>3, <1>4 DEF SP!Commit, SP!Saved, SP!Range, Range
<1>6. /\ n.pc = "next" /\ n.entries = s.entries /\ n.version = s.version + 1 /\ n.kind = s.kind
      /\ n.denied = s.denied /\ n.single = s.single /\ n.todo = s.todo
  BY <1>3, <1>4 DEF SP!HandlerState
<1>7. PICK txs \in Seq(Tx) : txs = s.entries /\ Chain(txs)
  BY <1>3, HandlerIs DEF HandlerInv
<1>8. Chain(txs)' /\ Base(txs)' = Base(txs)
  BY <1>2, <1>7, LaterChain
<1>9. PICK base : base = Base(txs)
  OBVIOUS
<1>10. Based(n.version, base \cup Range(txs))'
  <2>1. build'.version = n.version /\ Stored' = base \cup Range(txs) /\ build'.version \in Nat
    BY <1>2, <1>3, <1>6, <1>7, <1>9 DEF Later
  <2> QED BY <2>1 DEF Based, Range
<1>11. HandlerInv(n)'
  BY <1>2, <1>3, <1>6, <1>7, <1>8, <1>9, <1>10 DEF HandlerInv, Range
<1> QED BY <1>2, <1>3, <1>5, <1>6, <1>11 DEF Serves

\* The last of the edits was saved already: so were the others.
LEMMA ServesSaved ==
  ASSUME CoreInv, SP!CasInv, SaveInv, NEW h \in Handler, SP!AlreadySaved(h), UNCHANGED view
  PROVE  Serves(h)
<1>1. PICK s \in SP!HandlerState : s = handler[h] /\ HandlerInv(s) /\ s.pc = "patch"
  BY HandlerIs DEF SaveInv, SP!AlreadySaved
<1>2. PICK txs \in Seq(Tx) : txs = s.entries /\ txs = s.cur /\ Chain(txs)
  BY <1>1, HandlerIs DEF HandlerInv
<1>3. txs[Len(txs)] = s.row.lastTx /\ s.row.lastTx \in Stored \cup {NoTx} /\ s.row.version \in Nat
  BY <1>1, <1>2, HandlerIs DEF HandlerInv, SP!AlreadySaved, SP!LastTx
<1>4. txs[Len(txs)] \in Stored
  <2>1. txs # << >>
    BY <1>2 DEF Chain
  <2>2. txs[Len(txs)] \in Tx
    BY <2>1, HeadIn
  <2> QED BY <1>3, <2>2, TypesOf DEF NoTx
<1>5. /\ Range(txs) \subseteq Stored
      /\ txs[Len(txs)] = build.lastTx => Stored = Base(txs) \cup Range(txs)
  BY <1>2, <1>4, LastSaved DEF SaveInv
<1>6. s.row.version <= build.version /\ (s.row.version = build.version => s.row = build)
  <2>1. SP!Fresh(s, build)
    BY <1>1 DEF SP!CasInv
  <2>2. s.cur # << >>
    BY <1>2 DEF Chain
  <2> QED BY <1>1, <2>1, <2>2 DEF SP!Fresh, SP!HasRow, SP!Working
<1>7. Based(s.row.version, Base(txs) \cup Range(txs))
  BY <1>3, <1>5, <1>6 DEF Based
<1>8. PICK n : n = [s EXCEPT !.pc = "next", !.accepted = @ \cup Range(s.cur), !.version = s.row.version]
  OBVIOUS
<1>9. handler' = [handler EXCEPT ![h] = n]
  BY <1>1, <1>8 DEF SP!AlreadySaved, SP!Saved, SP!Range, Range
<1>10. /\ n.pc = "next" /\ n.entries = txs /\ n.version = s.row.version /\ n.kind = s.kind
       /\ n.denied = s.denied /\ n.single = s.single /\ n.todo = s.todo
  BY <1>2, <1>8 DEF SP!HandlerState
<1>11. HandlerInv(n)
  BY <1>1, <1>2, <1>5, <1>7, <1>10 DEF HandlerInv
<1>12. UNCHANGED build
  BY DEF SP!AlreadySaved
<1> QED BY <1>1, <1>2, <1>3, <1>9, <1>10, <1>11, <1>12, ServesSame

\* The build is read, and the edits are found to apply.
LEMMA ServesRead ==
  ASSUME CoreInv, SaveInv, NEW h \in Handler, UNCHANGED view,
         SP!LoadState(h) \/ SP!LoadBuild(h) \/ SP!ComputeUpdate(h)
  PROVE  Serves(h)
<1>1. PICK s \in SP!HandlerState :
        s = handler[h] /\ HandlerInv(s) /\ s.pc \in {"loadState", "loadBuild", "patch"}
  BY HandlerIs DEF SaveInv, SP!LoadState, SP!LoadBuild, SP!ComputeUpdate
<1>2. s.kind = "browser" /\ s.entries # << >> /\ s.version \in Nat
  BY <1>1, HandlerIs DEF HandlerInv, Chain
<1>3. UNCHANGED build
  BY DEF SP!LoadState, SP!LoadBuild, SP!ComputeUpdate
<1>4. CASE SP!LoadState(h)
  <2>1. PICK n : n = [s EXCEPT !.pc = "loadBuild", !.seen = build.version]
    OBVIOUS
  <2>2. handler' = [handler EXCEPT ![h] = n]
    <3>1. handler' = [handler EXCEPT ![h].pc = "loadBuild", ![h].seen = build.version]
      BY <1>1, <1>2, <1>4 DEF SP!LoadState
    <3> QED BY <1>1, <2>1, <3>1, TypesOf
  <2>3. /\ n.pc = "loadBuild" /\ n.entries = s.entries /\ n.version = s.version /\ n.kind = s.kind
        /\ n.denied = s.denied /\ n.single = s.single /\ n.todo = s.todo /\ n.accepted = s.accepted
    BY <2>1 DEF SP!HandlerState
  <2>4. HandlerInv(n)
    BY <1>1, <1>4, <2>3 DEF HandlerInv, SP!LoadState
  <2> QED BY <1>1, <1>2, <1>3, <2>2, <2>3, <2>4, ServesSame
<1>5. CASE SP!LoadBuild(h)
  <2>1. PICK r : r = [build EXCEPT !.version = s.seen]
    OBVIOUS
  <2>2. r.lastTx \in Stored \cup {NoTx}
    <3>1. build \in SP!Row
      BY DEF CoreInv, SP!TypeInv, SP!TypeOK
    <3>2. r.lastTx = build.lastTx
      BY <2>1, <3>1 DEF SP!Row
    <3> QED BY <3>2, LastStored DEF SaveInv
  <2>3. PICK n : n = [s EXCEPT !.pc = "patch", !.row = r, !.cur = s.entries]
    OBVIOUS
  <2>4. handler' = [handler EXCEPT ![h] = n]
    BY <1>1, <1>2, <1>5, <2>1, <2>3 DEF SP!LoadBuild, SP!Shared
  <2>5. /\ n.pc = "patch" /\ n.entries = s.entries /\ n.version = s.version /\ n.kind = s.kind
        /\ n.denied = s.denied /\ n.single = s.single /\ n.todo = s.todo /\ n.accepted = s.accepted
        /\ n.cur = s.entries /\ n.row = r
    BY <2>3 DEF SP!HandlerState
  <2>6. HandlerInv(n)
    BY <1>1, <1>5, <2>2, <2>5 DEF HandlerInv, SP!LoadBuild
  <2> QED BY <1>1, <1>2, <1>3, <2>4, <2>5, <2>6, ServesSame
<1>6. CASE SP!ComputeUpdate(h)
  <2>1. PICK n : n = [s EXCEPT !.pc = "commit"]
    OBVIOUS
  <2>2. handler' = [handler EXCEPT ![h] = n]
    <3>1. handler' = [handler EXCEPT ![h].pc = "commit"]
      BY <1>6 DEF SP!ComputeUpdate
    <3> QED BY <1>1, <2>1, <3>1, TypesOf
  <2>3. /\ n.pc = "commit" /\ n.entries = s.entries /\ n.version = s.version /\ n.kind = s.kind
        /\ n.denied = s.denied /\ n.single = s.single /\ n.todo = s.todo /\ n.accepted = s.accepted
        /\ n.cur = s.cur /\ n.row = s.row
    BY <2>1 DEF SP!HandlerState
  <2>4. HandlerInv(n)
    BY <1>1, <1>6, <2>3 DEF HandlerInv, SP!ComputeUpdate
  <2> QED BY <1>1, <1>2, <1>3, <2>2, <2>3, <2>4, ServesSame
<1> QED BY <1>4, <1>5, <1>6

\* The handler answers.
LEMMA ServesFinish ==
  ASSUME CoreInv, SaveInv, NEW h \in Handler, UNCHANGED view, SP!Finish(h)
  PROVE  Serves(h)
<1>1. PICK s \in SP!HandlerState : s = handler[h] /\ HandlerInv(s) /\ s.pc = "next" /\ s.version \in Nat
  BY HandlerIs DEF SaveInv, SP!Finish
<1>2. PICK reply : SP!Answer(h, reply)
  BY DEF SP!Finish
<1>3. PICK n : n = [SP!Idle EXCEPT !.pc = "done", !.reply = reply, !.kind = s.kind,
                 !.entries = s.entries, !.denied = s.denied, !.version = s.version,
                 !.accepted = s.accepted]
  OBVIOUS
<1>4. handler' = [handler EXCEPT ![h] = n]
  BY <1>1, <1>2, <1>3 DEF SP!Answer
<1>5. n.pc = "done" /\ n.entries = s.entries /\ n.version = s.version
  BY <1>3 DEF SP!Idle
<1>6. HandlerInv(n)
  BY <1>1, <1>5 DEF HandlerInv
<1>7. UNCHANGED build
  BY DEF SP!Finish
<1> QED BY <1>1, <1>4, <1>5, <1>6, <1>7, ServesSame

LEMMA ServesProgress ==
  ASSUME CyclicEdits = {}, CoreInv, SP!CasInv, SaveInv, NEW h \in Handler, UNCHANGED view,
         S!Progress(h)
  PROVE  Serves(h)
<1>1. SP!Progress(h)
  BY ProgressIs
<1>2. HandlerInv(handler[h])
  BY DEF SaveInv
<1>3. ~SP!ApplyAssets(h) /\ ~SP!UpdatePreview(h) /\ ~SP!NextEntry(h) /\ ~SP!RejectCyclic(h)
  BY <1>2 DEF HandlerInv, SP!ApplyAssets, SP!UpdatePreview, SP!NextEntry, SP!RejectCyclic
<1>4. SP!VersionMismatch(h) \/ SP!LoseRace(h) => Serves(h)
  <2> SUFFICES ASSUME SP!VersionMismatch(h) \/ SP!LoseRace(h) PROVE Serves(h)
    OBVIOUS
  <2>1. SP!Answer(h, "version_mismatched") /\ UNCHANGED build
    BY DEF SP!VersionMismatch, SP!LoseRace
  <2> QED BY <2>1, ServesAnswer
<1> QED BY <1>1, <1>3, <1>4, ServesRead, ServesSaved, ServesCommit, ServesFinish DEF SP!Progress

\* A call fails, perhaps after the edits were saved.
LEMMA ServesFault ==
  ASSUME CoreInv, SP!CasInv, SaveInv, NEW h \in Handler, UNCHANGED view,
         S!Refuse(h) \/ S!Fail(h)
  PROVE  Serves(h)
<1>1. SP!Refuse(h) \/ SP!Fail(h)
  BY OthersAre
<1>2. PICK reply : reply # "ok" /\ SP!Answer(h, reply)
  BY <1>1 DEF SP!Refuse, SP!Fail
<1>3. HandlerInv(handler[h])
  BY DEF SaveInv
<1>4. UNCHANGED build \/ (/\ handler[h].pc = "commit" /\ build.version = handler[h].version
                          /\ build' = SP!NewRow(handler[h]))
  BY <1>1, <1>3 DEF SP!Refuse, SP!Fail, HandlerInv
<1>5. CASE UNCHANGED build
  BY <1>2, <1>5, ServesAnswer
<1>6. CASE /\ handler[h].pc = "commit" /\ build.version = handler[h].version
           /\ build' = SP!NewRow(handler[h])
  <2>1. Later /\ StoredInv'
    BY <1>6, SaveCommit
  <2> QED BY <1>2, <2>1, SaveAnswer DEF Serves
<1> QED BY <1>4, <1>5, <1>6

(***************************************************************************)
(* The composition.                                                        *)
(***************************************************************************)

SavingInv == CoreInv /\ SP!CasInv /\ SaveInv

LEMMA OtherTabs ==
  ASSUME CoreInv, SaveInv, Later, NEW t \in Tab, TabInv(t)',
         \A u \in Tab \ {t} :
           /\ queue'[u] = queue[u] /\ status'[u] = status[u] /\ loop'[u] = loop[u]
           /\ controller'[u] = controller[u] /\ completed'[u] = completed[u]
           /\ session'[u] = session[u] /\ loaded'[u] = loaded[u] /\ edited'[u] = edited[u]
           /\ doc'[u] = doc[u]
  PROVE  \A u \in Tab : TabInv(u)'
<1> SUFFICES ASSUME NEW u \in Tab, u # t PROVE TabInv(u)'
  OBVIOUS
<1>1. TabInv(u)
  BY DEF SaveInv
<1> QED BY <1>1, LaterTab

LEMMA HandlersKept ==
  ASSUME CoreInv, SaveInv, Later, UNCHANGED handler
  PROVE  \A g \in Handler : HandlerInv(handler[g])'
<1> SUFFICES ASSUME NEW g \in Handler PROVE HandlerInv(handler[g])'
  OBVIOUS
<1>1. PICK s \in SP!HandlerState : s = handler[g] /\ HandlerInv(s)
  BY HandlerIs DEF SaveInv
<1>2. HandlerInv(s)'
  BY <1>1, LaterHandler
<1> QED BY <1>1, <1>2

\* The user's steps leave the loops alone, but for the one a page starts and
\* those that end with it.
LEMMA LoopUser ==
  ASSUME CoreInv, NEW t \in Tab, User(t)
  PROVE  \A u \in Tab, l \in Loop :
           \/ loop'[u][l].pc = loop[u][l].pc /\ loop'[u][l].rest = loop[u][l].rest
           \/ loop[u][l].pc = "off" /\ loop'[u][l].pc = "run"
           \/ Reload(t) /\ u = t /\ loop'[u][l].pc = "off"
<1>1. CASE Reload(t)
  <2>1. loop' = [loop EXCEPT ![t] = [l \in Loop |-> Q!Off]]
    BY <1>1 DEF Reload, Q!ReloadPage, Loop, Q!Loop
  <2>2. \A l \in Loop : loop'[t][l] = Q!Off
    BY <2>1, LoopTypes
  <2>3. \A u \in Tab \ {t} : loop'[u] = loop[u]
    BY <2>1, LoopTypes
  <2> QED BY <1>1, <2>2, <2>3, OffIs
<1>2. CASE Close(t)
  BY <1>2, StopMarks DEF CoreInv, Close
<1>3. CASE Open(t) /\ controller[t] = 0
  <2>1. PICK version \in Nat : version = loaded[t].version
    BY TypesOf
  <2>2. PICK commands \in Seq(Q!Command) :
          commands = Append(queue[t], [type |-> "setDetails", version |-> version])
    <3>1. PICK c \in Q!Command : c = [type |-> "setDetails", version |-> version]
      BY CommandsType
    <3>2. queue[t] \in Seq(Q!Command)
      BY LoopTypes
    <3>3. Append(queue[t], c) \in Seq(Q!Command)
      BY <3>2
    <3> QED BY <3>1, <3>3
  <2>starts. PICK k \in Loop, s \in Q!LoopState : StartsLoop(t, k, s, commands)
    <3>1. QueueInv /\ controller[t] = 0 /\ Q!EnqueueProjectDetails(t, version)
      BY <1>3, <2>1 DEF CoreInv, Open
    <3> QED BY <2>2, <3>1, DetailsStart
  <2>3. loop[t][k].pc = "off" /\ s.pc = "run" /\ loop' = [loop EXCEPT ![t][k] = s]
    BY <2>starts DEF StartsLoop
  <2>4. loop'[t][k] = s /\ \A u \in Tab, l \in Loop : u # t \/ l # k => loop'[u][l] = loop[u][l]
    BY <2>3, LoopTypes
  <2> QED BY <2>3, <2>4
<1>4. CASE ~Reload(t) /\ ~Close(t) /\ ~(Open(t) /\ controller[t] = 0)
  <2>1. UNCHANGED loop
    BY <1>4 DEF User, Load, Open, MakeEdit, Leave, queueVars, Q!EnqueueProjectDetails,
       Q!SendTransaction
  <2> QED BY <2>1
<1> QED BY <1>1, <1>2, <1>3, <1>4

\* They leave the requests alone, or cut them off.
LEMMA ConnUser ==
  ASSUME CoreInv, ConnInv, NEW t \in Tab, User(t)
  PROVE  ConnInv'
<1>1. UNCHANGED handler
  BY DEF User, Load, Open, MakeEdit, Leave, Close, Reload, serviceVars
<1>2. ASSUME NEW u \in Tab, NEW l \in Loop, conn'[u][l] # NoHandler
      PROVE  /\ conn'[u][l] = conn[u][l] /\ loop'[u][l].pc = loop[u][l].pc
             /\ loop'[u][l].rest = loop[u][l].rest
  <2>1. conn'[u][l] = conn[u][l] /\ ~(Reload(t) /\ u = t)
    <3>1. CASE Reload(t)
      <4>1. conn' = [conn EXCEPT ![t] = [k \in Loop |-> NoHandler]]
        BY <3>1 DEF Reload
      <4> QED BY <1>2, <4>1, TypesOf
    <3>2. CASE ~Reload(t)
      BY <3>2 DEF User, Load, Open, MakeEdit, Leave, Close, netVars
    <3> QED BY <3>1, <3>2
  <2>2. loop[u][l].pc = "wait"
    BY <1>2, <2>1 DEF ConnInv
  <2> QED BY <2>1, <2>2, LoopUser
<1>3. \A u \in Tab, l \in Loop : conn[u][l] # NoHandler => handler[conn[u][l]].pc # "idle"
  BY DEF ConnInv
<1> QED BY <1>1, <1>2, <1>3, ConnKept

\* The user's steps leave the requests alone.
LEMMA SaveUser ==
  ASSUME CoreInv, SaveInv, NEW t \in Tab, Destroys = {}, User(t)
  PROVE  SaveInv'
<1>1. Load(t) \/ Open(t) \/ MakeEdit(t) \/ Leave(t) \/ Reload(t)
  BY DEF User, Close
<1>2. UNCHANGED << build, handler >>
  BY <1>1 DEF Load, Open, MakeEdit, Leave, Reload, serviceVars
<1>3. Later /\ StoredInv'
  <2>1. CASE MakeEdit(t)
    <3>1. PICK x \in Tx : x = Len(view) + 1
      BY <2>1 DEF MakeEdit
    <3>2. PICK seen \in Seq(Tx) : seen = doc[t] /\ Increasing(seen) /\ Range(seen) \subseteq Made
      BY <2>1, TypesOf DEF MakeEdit, SaveInv, TabInv, Shows
    <3>3. view' = Append(view, seen)
      BY <2>1, <3>2 DEF MakeEdit
    <3>4. /\ Later /\ Made' = Made \cup {x} /\ view'[x] = seen /\ x \notin Made
          /\ \A y \in Made : y < x /\ y \in Nat
      BY <1>2, <3>1, <3>3, EditMade
    <3>5. StoredInv
      BY DEF SaveInv
    <3>6. \A y \in Made : view'[y] = view[y]
      BY <3>4 DEF Later
    <3>7. Range(seen) \subseteq 1 .. x - 1
      <4> SUFFICES ASSUME NEW y \in Range(seen) PROVE y \in 1 .. x - 1
        OBVIOUS
      <4>1. y < x /\ y \in Nat /\ y # 0 /\ x \in Nat
        BY <3>2, <3>4, TypesOf DEF Made
      <4> QED BY <4>1
    <3>8. \A y \in Made' : Range(view'[y]) \subseteq 1 .. y - 1 /\ Increasing(view'[y])
      BY <3>2, <3>4, <3>5, <3>6, <3>7 DEF StoredInv
    <3>9. PICK b : b = build
      OBVIOUS
    <3>10. PICK saved : saved = Range(b.log)
      OBVIOUS
    <3>11. /\ saved \subseteq Made /\ Increasing(b.log)
           /\ \A y \in saved : Range(view[y]) = {z \in saved : z < y}
           /\ b.lastTx = IF b.log = << >> THEN NoTx ELSE b.log[Len(b.log)]
      BY <3>5, <3>9, <3>10 DEF StoredInv, Stored
    <3>12. /\ saved \subseteq Made' /\ \A y \in saved : Range(view'[y]) = {z \in saved : z < y}
      BY <3>4, <3>6, <3>11
    <3>13. build' = b /\ Stored' = saved
      BY <1>2, <3>9, <3>10 DEF Stored, Range
    <3> QED BY <3>4, <3>8, <3>11, <3>12, <3>13 DEF StoredInv, Increasing, Range
  <2>2. CASE ~MakeEdit(t)
    <3>1. UNCHANGED view
      BY <1>1, <2>2 DEF Load, Open, Leave, Reload
    <3> QED BY <1>2, <3>1, LaterSame, StoredSame DEF SaveInv
  <2> QED BY <2>1, <2>2
<1>4. TabInv(t)'
  BY <1>1, SaveLoad, SaveOpen, SaveMakeEdit, SaveReload
<1>5. ASSUME NEW u \in Tab \ {t}
      PROVE  /\ queue'[u] = queue[u] /\ status'[u] = status[u] /\ loop'[u] = loop[u]
             /\ controller'[u] = controller[u] /\ completed'[u] = completed[u]
             /\ session'[u] = session[u] /\ loaded'[u] = loaded[u] /\ edited'[u] = edited[u]
             /\ doc'[u] = doc[u]
  <2>1. /\ session'[u] = session[u] /\ loaded'[u] = loaded[u] /\ edited'[u] = edited[u]
        /\ doc'[u] = doc[u]
    BY <1>1, TypesOf DEF Load, Open, MakeEdit, Leave, Reload
  <2>2. /\ queue'[u] = queue[u] /\ status'[u] = status[u] /\ loop'[u] = loop[u]
        /\ controller'[u] = controller[u] /\ completed'[u] = completed[u]
    <3>1. CASE Load(t) \/ Leave(t)
      BY <3>1 DEF Load, Leave, queueVars
    <3>2. CASE Open(t)
      BY <3>2, LoopTypes DEF Open, Q!EnqueueProjectDetails
    <3>3. CASE MakeEdit(t)
      BY <3>3, LoopTypes DEF MakeEdit, Q!SendTransaction
    <3>4. CASE Reload(t)
      BY <3>4, LoopTypes DEF Reload, Q!ReloadPage
    <3> QED BY <1>1, <3>1, <3>2, <3>3, <3>4
  <2> QED BY <2>1, <2>2
<1>6. \A u \in Tab : TabInv(u)'
  BY <1>3, <1>4, <1>5, OtherTabs
<1>7. \A g \in Handler : HandlerInv(handler[g])'
  BY <1>2, <1>3, HandlersKept
<1>8. ConnInv'
  BY ConnUser DEF SaveInv
<1> QED BY <1>3, <1>6, <1>7, <1>8 DEF SaveInv

\* A handler goes on, or fails.
LEMMA SaveHandles ==
  ASSUME CyclicEdits = {}, SavingInv, NEW h \in Handler, Handle(h) \/ HandlerFault(h)
  PROVE  SaveInv'
<1>1. UNCHANGED << queueVars, tabVars, conn >>
  BY DEF Handle, HandlerFault, netVars
<1>2. UNCHANGED << queue, status, loop, controller, completed, session, loaded, edited, doc, view, conn >>
  BY <1>1 DEF queueVars, tabVars
<1>3. Serves(h)
  BY <1>2, ServesProgress, ServesFault DEF SavingInv, Handle, HandlerFault
<1>4. PICK n : /\ handler' = [handler EXCEPT ![h] = n] /\ HandlerInv(n)' /\ n.pc # "idle"
               /\ n.entries = handler[h].entries
  BY <1>3 DEF Serves
<1>5. Later /\ StoredInv'
  BY <1>3 DEF Serves
<1>6. \A g \in Handler : HandlerInv(handler[g])'
  BY <1>4, <1>5, OthersKept DEF SavingInv
<1>7. ASSUME NEW u \in Tab PROVE TabInv(u)'
  BY <1>2, <1>5, LaterTab DEF SavingInv, SaveInv
<1>8. ConnInv'
  <2>1. ASSUME NEW u \in Tab, NEW l \in Loop, conn[u][l] # NoHandler
        PROVE  /\ handler'[conn[u][l]].pc # "idle"
               /\ handler'[conn[u][l]].entries = handler[conn[u][l]].entries
    <3>1. PICK g \in Handler : g = conn[u][l]
      BY <2>1, TypesOf DEF SavingInv
    <3>2. handler[g].pc # "idle"
      BY <2>1, <3>1 DEF SavingInv, SaveInv, ConnInv
    <3>3. handler'[g] = IF g = h THEN n ELSE handler[g]
      BY <1>4, TypesOf DEF SavingInv
    <3> QED BY <1>4, <3>1, <3>2, <3>3
  <2> QED BY <1>2, <2>1, ConnKept DEF SavingInv, SaveInv
<1> QED BY <1>5, <1>6, <1>7, <1>8 DEF SaveInv

\* A step of a loop leaves the other loops and the other tabs alone.
LEMMA LoopFrame ==
  ASSUME CoreInv, NEW t \in Tab, NEW l \in Loop, NEW version,
         \/ Q!Poll(t, l) \/ Q!Abort(t, l) \/ Q!Outdated(t, l) \/ Q!SetDetails(t, l)
         \/ Q!Send(t, l) \/ Q!NetworkError(t, l)
         \/ Q!ReplyOk(t, l, version) \/ Q!ReplyFatal(t, l) \/ Q!ReplyError(t, l)
  PROVE  /\ \A u \in Tab \ {t} :
              /\ queue'[u] = queue[u] /\ status'[u] = status[u] /\ loop'[u] = loop[u]
              /\ controller'[u] = controller[u] /\ completed'[u] = completed[u]
         /\ \A u \in Tab, k \in Loop : u # t \/ k # l => loop'[u][k] = loop[u][k]
<1>1. /\ queue' = queue \/ \E v : queue' = [queue EXCEPT ![t] = v]
      /\ status' = status \/ \E v : status' = [status EXCEPT ![t] = v]
      /\ completed' = completed \/ \E v : completed' = [completed EXCEPT ![t] = v]
      /\ controller' = controller
  BY LoopTypes DEF Q!Poll, Q!Abort, Q!Outdated, Q!SetDetails, Q!Send, Q!NetworkError, Q!ReplyOk,
     Q!ReplyFatal, Q!ReplyError, Q!Stop, Q!Backoff
<1>2. loop' = loop \/ \E v : loop' = [loop EXCEPT ![t][l] = v]
  <2>1. ASSUME Q!Poll(t, l)
        PROVE  loop' = loop \/ \E v : loop' = [loop EXCEPT ![t][l] = v]
    <3>1. loop' = loop \/ loop' = [loop EXCEPT ![t][l].pc = "run", ![t][l].rest = queue[t]]
      BY <2>1 DEF Q!Poll
    <3>2. loop \in [Tab -> [Loop -> Q!LoopState]]
      BY LoopTypes
    <3>3. CASE loop' = [loop EXCEPT ![t][l].pc = "run", ![t][l].rest = queue[t]]
      <4>1. PICK row \in [Loop -> Q!LoopState] : row = loop[t]
        BY <3>2
      <4>2. loop' = [loop EXCEPT ![t][l] = [row[l] EXCEPT !.pc = "run", !.rest = queue[t]]]
        BY <3>2, <3>3, <4>1
      <4> QED BY <4>2
    <3> QED BY <3>1, <3>3
  <2>2. ASSUME Q!Abort(t, l) \/ Q!Stop(t, l)
        PROVE  \E v : loop' = [loop EXCEPT ![t][l] = v]
    <3>1. loop' = [loop EXCEPT ![t][l].pc = "done", ![t][l].rest = << >>]
      BY <2>2 DEF Q!Abort, Q!Stop
    <3>2. loop \in [Tab -> [Loop -> Q!LoopState]]
      BY LoopTypes
    <3>3. PICK row \in [Loop -> Q!LoopState] : row = loop[t]
      BY <3>2
    <3>4. loop' = [loop EXCEPT ![t][l] = [row[l] EXCEPT !.pc = "done", !.rest = << >>]]
      BY <3>1, <3>2, <3>3
    <3> QED BY <3>4
  <2>3. ASSUME Q!Send(t, l) PROVE loop' = [loop EXCEPT ![t][l] = [@ EXCEPT !.pc = "wait"]]
    BY <2>3, LoopTypes DEF Q!Send
  <2>4. ASSUME NEW errors, Q!Backoff(t, l, errors) PROVE \E v : loop' = [loop EXCEPT ![t][l] = v]
    <3>2. PICK a : a = IF loop[t][l].attempts < MaxRetryRecovery THEN loop[t][l].attempts + 1
                       ELSE loop[t][l].attempts
      OBVIOUS
    <3>3. loop' = [loop EXCEPT ![t][l].pc = "backoff", ![t][l].apiErrors = errors,
                               ![t][l].attempts = a]
      <4>1. PICK s \in Q!LoopState : s = loop[t][l]
        BY LoopTypes
      <4> QED BY <2>4, <3>2, <4>1, LoopTypes DEF Q!Backoff, Q!LoopState
    <3>4. PICK v : v = [loop[t][l] EXCEPT !.pc = "backoff", !.apiErrors = errors, !.attempts = a]
      OBVIOUS
    <3>5. loop' = [loop EXCEPT ![t][l] = v]
      BY <3>3, <3>4, LoopTypes
    <3> QED BY <3>5
  <2>5. ASSUME Q!SetDetails(t, l) \/ Q!ReplyOk(t, l, version)
        PROVE  \E v : loop' = [loop EXCEPT ![t][l] = v]
    BY <2>5, LoopTypes DEF Q!SetDetails, Q!ReplyOk
  <2> QED BY <2>1, <2>2, <2>3, <2>4, <2>5
          DEF Q!Outdated, Q!NetworkError, Q!ReplyFatal, Q!ReplyError
<1> QED BY <1>1, <1>2, LoopTypes

\* A step of a loop that waits for nothing, or no longer waits.
LEMMA SaveLoop ==
  ASSUME CoreInv, SaveInv, NEW t \in Tab, NEW l \in Loop, TabInv(t)', UNCHANGED << tabVars, build >>,
         \A u \in Tab \ {t} :
           /\ queue'[u] = queue[u] /\ status'[u] = status[u] /\ loop'[u] = loop[u]
           /\ controller'[u] = controller[u] /\ completed'[u] = completed[u],
         \A u \in Tab, k \in Loop : u # t \/ k # l => loop'[u][k] = loop[u][k]
  PROVE  /\ Later /\ StoredInv' /\ \A u \in Tab : TabInv(u)'
<1>1. Later
  BY LaterSame DEF tabVars
<1>2. StoredInv'
  BY StoredSame DEF SaveInv, tabVars
<1> QED BY <1>1, <1>2, OtherTabs DEF tabVars

LEMMA SaveRuns ==
  ASSUME CoreInv, SaveInv, NEW t \in Tab, NEW l \in Loop, LoopStep(t, l)
  PROVE  SaveInv'
<1>1. TabInv(t)'
  BY SaveLoopStep DEF SaveInv
<1>2. UNCHANGED << tabVars, build >> /\ UNCHANGED handler /\ UNCHANGED conn
  BY DEF LoopStep, serviceVars, netVars
<1>3. /\ \A u \in Tab \ {t} :
              /\ queue'[u] = queue[u] /\ status'[u] = status[u] /\ loop'[u] = loop[u]
              /\ controller'[u] = controller[u] /\ completed'[u] = completed[u]
      /\ \A u \in Tab, k \in Loop : u # t \/ k # l => loop'[u][k] = loop[u][k]
  BY LoopFrame DEF LoopStep
<1>4. Later /\ StoredInv' /\ \A u \in Tab : TabInv(u)'
  BY <1>1, <1>2, <1>3, SaveLoop
<1>5. \A g \in Handler : HandlerInv(handler[g])'
  BY <1>2, <1>4, HandlersKept
<1>6. conn[t][l] = NoHandler
  <2>1. loop[t][l].pc # "wait"
    BY DEF LoopStep, Q!Poll, Q!Abort, Q!Outdated, Q!SetDetails
  <2> QED BY <2>1 DEF SaveInv, ConnInv
<1>7. ConnInv'
  BY <1>2, <1>3, <1>6, ConnKept DEF SaveInv, ConnInv
<1> QED BY <1>4, <1>5, <1>7 DEF SaveInv

\* The loop gets an answer, or learns that it will get none.
LEMMA SaveAnswered ==
  ASSUME CoreInv, SaveInv, NEW t \in Tab, NEW l \in Loop,
         Deliver(t, l) \/ LoseConnection(t, l) \/ Crash(t, l)
  PROVE  SaveInv'
<1>1. PICK h \in Handler : h = conn[t][l]
  BY ConnIs DEF CoreInv, Deliver, LoseConnection, Crash
<1>2. conn[t][l] # NoHandler /\ conn' = [conn EXCEPT ![t][l] = NoHandler]
  BY DEF Deliver, LoseConnection, Crash
<1>3. UNCHANGED << tabVars, build >> /\ UNCHANGED view
  BY DEF Deliver, LoseConnection, Crash, S!End, serviceVars, tabVars
<1>4. TabInv(t) /\ HandlerInv(handler[h]) /\ handler[h].entries = Q!Current(t, l).txs
  BY <1>1, <1>2 DEF SaveInv, ConnInv, Q!Current
<1>5. ASSUME Deliver(t, l), handler[h].reply = "ok" PROVE TabInv(t)'
  <2>1. handler[h].pc = "done" /\ Q!ReplyOk(t, l, handler[h].version)
    BY <1>1, <1>5 DEF Deliver
  <2>2. /\ Range(Q!Current(t, l).txs) \subseteq Stored
        /\ Based(handler[h].version, Base(Q!Current(t, l).txs) \cup Range(Q!Current(t, l).txs))
    BY <1>4, <1>5, <2>1 DEF HandlerInv
  <2>3. handler[h].version \in Nat
    BY HandlerIs
  <2> QED BY <1>3, <1>4, <2>1, <2>2, <2>3, SaveReplyOk
<1>6. ASSUME ~(Deliver(t, l) /\ handler[h].reply = "ok") PROVE TabInv(t)'
  <2>1. Q!NetworkError(t, l) \/ Q!ReplyError(t, l) \/ Q!ReplyFatal(t, l)
    BY <1>1, <1>6 DEF Deliver, LoseConnection, Crash
  <2> QED BY <1>3, <1>4, <2>1, SaveFails
<1>7. TabInv(t)'
  BY <1>5, <1>6
<1>8. /\ \A u \in Tab \ {t} :
              /\ queue'[u] = queue[u] /\ status'[u] = status[u] /\ loop'[u] = loop[u]
              /\ controller'[u] = controller[u] /\ completed'[u] = completed[u]
      /\ \A u \in Tab, k \in Loop : u # t \/ k # l => loop'[u][k] = loop[u][k]
  BY LoopFrame DEF Deliver, LoseConnection, Crash
<1>9. Later /\ StoredInv' /\ \A u \in Tab : TabInv(u)'
  BY <1>3, <1>7, <1>8, SaveLoop
<1>10. handler' = handler \/ handler' = [handler EXCEPT ![h] = SP!Idle]
  BY <1>1 DEF Deliver, LoseConnection, Crash, serviceVars, S!End, S!Idle, S!EmptyRow, SP!Idle,
     SP!EmptyRow
<1>11. HandlerInv(SP!Idle)'
  BY DEF HandlerInv, SP!Idle
<1>12. \A g \in Handler : HandlerInv(handler[g])'
  BY <1>9, <1>10, <1>11, HandlersKept, OthersKept
<1>13. ConnInv'
  <2>1. ASSUME NEW u \in Tab, NEW k \in Loop, conn'[u][k] # NoHandler
        PROVE  /\ conn'[u][k] = conn[u][k] /\ loop'[u][k] = loop[u][k]
               /\ handler'[conn[u][k]] = handler[conn[u][k]]
               /\ handler[conn[u][k]].pc # "idle"
    <3>1. u # t \/ k # l
      BY <1>2, <2>1, TypesOf
    <3>2. conn'[u][k] = conn[u][k]
      BY <1>2, <3>1, TypesOf
    <3>3. conn[u][k] # h /\ conn[u][k] \in Handler /\ handler[conn[u][k]].pc # "idle"
      BY <1>1, <1>2, <2>1, <3>1, <3>2, TypesOf DEF SaveInv, ConnInv
    <3> QED BY <1>8, <1>10, <3>1, <3>2, <3>3, TypesOf
  <2> QED BY <2>1, ConnKept DEF SaveInv
<1> QED BY <1>9, <1>12, <1>13 DEF SaveInv

\* The handler that takes up the request of a loop.
LEMMA Requested ==
  ASSUME CoreInv, NEW t \in Tab, NEW l \in Loop, NEW h \in Handler, SendRequest(t, l, h)
  PROVE  \E n \in SP!HandlerState :
           /\ handler' = [handler EXCEPT ![h] = n] /\ n.pc = "loadState" /\ n.kind = "browser"
           /\ n.entries = Q!Current(t, l).txs /\ n.denied = {} /\ n.version = loop[t][l].version
           /\ n.cur = << >> /\ n.todo = << >> /\ ~n.single /\ n.accepted = {}
           /\ n.row = SP!EmptyRow
<1>1. Q!Current(t, l).txs \in Seq(Tx) /\ loop[t][l].version \in Nat
  BY QueueSend DEF CoreInv, SendRequest
<1>2. PICK n : n = [SP!Idle EXCEPT !.pc = "loadState", !.kind = "browser",
                      !.entries = Q!Current(t, l).txs, !.denied = {},
                      !.version = loop[t][l].version]
  OBVIOUS
<1>3. handler' = [handler EXCEPT ![h] = n]
  BY <1>2 DEF SendRequest, S!Receive, S!Idle, S!EmptyRow, SP!Idle, SP!EmptyRow
<1>4. SP!Idle \in SP!HandlerState
  BY ServiceAssumptions, SP!IdleType
<1>5. n \in SP!HandlerState
  BY <1>1, <1>2, <1>4 DEF SP!HandlerState, SP!HandlerPc, SP!Kind
<1>6. /\ n.pc = "loadState" /\ n.kind = "browser"
      /\ n.entries = Q!Current(t, l).txs /\ n.denied = {} /\ n.version = loop[t][l].version
      /\ n.cur = << >> /\ n.todo = << >> /\ ~n.single /\ n.accepted = {}
      /\ n.row = SP!EmptyRow
  BY <1>2 DEF SP!Idle
<1> QED BY <1>3, <1>5, <1>6

\* A handler serves one request.
LEMMA ConnSends ==
  ASSUME CoreInv, ConnInv, NEW t \in Tab, NEW l \in Loop, NEW h \in Handler, SendRequest(t, l, h)
  PROVE  ConnInv'
<1>1. PICK n : /\ handler' = [handler EXCEPT ![h] = n] /\ n.pc = "loadState"
               /\ n.entries = Q!Current(t, l).txs
  BY Requested
<1>2. handler[h].pc = "idle"
  BY DEF SendRequest, S!Receive
<1>3. \A u \in Tab, k \in Loop : u # t \/ k # l => loop'[u][k] = loop[u][k]
  BY LoopFrame DEF SendRequest
<1>4. conn' = [conn EXCEPT ![t][l] = h]
  BY DEF SendRequest
<1>5. conn'[t][l] = h /\ \A u \in Tab, k \in Loop : u # t \/ k # l => conn'[u][k] = conn[u][k]
  BY <1>4, TypesOf
<1>6. \A u \in Tab, k \in Loop : conn[u][k] # h
  BY <1>2, SyncAssumption DEF ConnInv
<1>7. loop'[t][l].pc = "wait" /\ loop'[t][l].rest = loop[t][l].rest
  <2>1. PICK s \in Q!LoopState : s = loop[t][l]
    BY LoopTypes
  <2>2. loop' = [loop EXCEPT ![t][l] = [s EXCEPT !.pc = "wait"]]
    BY <2>1, LoopTypes DEF SendRequest, Q!Send
  <2>3. loop'[t][l] = [s EXCEPT !.pc = "wait"]
    BY <2>2, LoopTypes
  <2> QED BY <2>1, <2>3 DEF Q!LoopState
<1> SUFFICES ASSUME NEW u \in Tab, NEW k \in Loop, conn'[u][k] # NoHandler
             PROVE  /\ loop'[u][k].pc = "wait"
                    /\ handler'[conn'[u][k]].pc # "idle"
                    /\ handler'[conn'[u][k]].entries = Head(loop'[u][k].rest).txs
                    /\ \A v \in Tab, j \in Loop : conn'[v][j] = conn'[u][k] => v = u /\ j = k
  BY DEF ConnInv
<1>8. CASE u = t /\ k = l
  <2>1. handler'[h] = n
    BY <1>1, TypesOf
  <2> QED BY <1>1, <1>5, <1>6, <1>7, <1>8, <2>1 DEF Q!Current
<1>9. CASE u # t \/ k # l
  <2>1. conn'[u][k] = conn[u][k] /\ loop'[u][k] = loop[u][k] /\ conn[u][k] # h
        /\ conn[u][k] \in Handler /\ conn[u][k] # NoHandler
    BY <1>3, <1>5, <1>6, <1>9, TypesOf
  <2>2. handler'[conn[u][k]] = handler[conn[u][k]]
    BY <1>1, <2>1, TypesOf
  <2>3. ASSUME NEW v \in Tab, NEW j \in Loop, conn'[v][j] = conn'[u][k] PROVE v = u /\ j = k
    <3>1. v # t \/ j # l
      BY <1>5, <2>1, <2>3
    <3>2. conn[v][j] = conn[u][k]
      BY <1>5, <2>1, <2>3, <3>1
    <3> QED BY <2>1, <3>2 DEF ConnInv
  <2> QED BY <2>1, <2>2, <2>3 DEF ConnInv
<1> QED BY <1>8, <1>9

LEMMA SaveSends ==
  ASSUME CoreInv, SaveInv, NEW t \in Tab, NEW l \in Loop, NEW h \in Handler, SendRequest(t, l, h)
  PROVE  SaveInv'
<1>1. PICK n \in SP!HandlerState :
        /\ handler' = [handler EXCEPT ![h] = n] /\ n.pc = "loadState" /\ n.kind = "browser"
        /\ n.entries = Q!Current(t, l).txs /\ n.denied = {} /\ n.version = loop[t][l].version
        /\ n.cur = << >> /\ n.todo = << >> /\ ~n.single /\ n.accepted = {}
  BY Requested
<1>2. UNCHANGED << tabVars, build >> /\ UNCHANGED view /\ handler[h].pc = "idle"
  BY DEF SendRequest, S!Receive, tabVars
<1>3. /\ TabInv(t)' /\ Chain(Q!Current(t, l).txs)
      /\ Based(loop[t][l].version, Base(Q!Current(t, l).txs))
  BY <1>2, SaveSend DEF SendRequest, SaveInv
<1>4. /\ \A u \in Tab \ {t} :
              /\ queue'[u] = queue[u] /\ status'[u] = status[u] /\ loop'[u] = loop[u]
              /\ controller'[u] = controller[u] /\ completed'[u] = completed[u]
      /\ \A u \in Tab, k \in Loop : u # t \/ k # l => loop'[u][k] = loop[u][k]
  BY LoopFrame DEF SendRequest
<1>5. Later /\ StoredInv' /\ \A u \in Tab : TabInv(u)'
  BY <1>2, <1>3, <1>4, SaveLoop
<1>6. HandlerInv(n)'
  <2>1. HandlerInv(n)
    BY <1>1, <1>3 DEF HandlerInv
  <2> QED BY <1>5, <2>1, LaterHandler
<1>7. \A g \in Handler : HandlerInv(handler[g])'
  BY <1>1, <1>5, <1>6, OthersKept
<1>8. ConnInv'
  BY ConnSends DEF SaveInv
<1> QED BY <1>5, <1>7, <1>8 DEF SaveInv

\* A handler nobody waits for ends.
LEMMA SaveOrphan ==
  ASSUME CoreInv, SaveInv, NEW h \in Handler, Orphan(h)
  PROVE  SaveInv'
<1>1. UNCHANGED << queue, status, loop, controller, completed, session, loaded, edited, doc, view,
                   conn, build >>
  BY DEF Orphan, queueVars, tabVars, netVars, S!End
<1>2. handler' = [handler EXCEPT ![h] = SP!Idle] /\ HandlerInv(SP!Idle)'
  BY DEF Orphan, S!End, S!Idle, S!EmptyRow, SP!Idle, SP!EmptyRow, HandlerInv
<1>3. Later /\ StoredInv'
  BY <1>1, LaterSame, StoredSame DEF SaveInv
<1>4. \A g \in Handler : HandlerInv(handler[g])'
  BY <1>2, <1>3, OthersKept
<1>5. ASSUME NEW u \in Tab PROVE TabInv(u)'
  BY <1>1, <1>3, LaterTab DEF SaveInv
<1>6. ConnInv'
  <2>1. ASSUME NEW u \in Tab, NEW k \in Loop, conn[u][k] # NoHandler
        PROVE  handler'[conn[u][k]] = handler[conn[u][k]] /\ handler[conn[u][k]].pc # "idle"
    <3>1. conn[u][k] # h
      BY DEF Orphan, Connected
    <3> QED BY <1>2, <2>1, <3>1, TypesOf DEF SaveInv, ConnInv
  <2> QED BY <1>1, <2>1, ConnKept DEF SaveInv
<1> QED BY <1>3, <1>4, <1>5, <1>6 DEF SaveInv

(***************************************************************************)
(* The invariant.                                                          *)
(***************************************************************************)

\* The handlers' rows stay fresh in the composition.
LEMMA CasKept ==
  ASSUME CoreInv, SP!CasInv, [Next]_vars
  PROVE  SP!CasInv'
<1>1. CASE \E h \in Handler : S!Progress(h) \/ S!Refuse(h) \/ S!Fail(h) \/ S!End(h)
  <2>1. SP!Next
    BY <1>1, ProgressIs, OthersAre DEF SP!Next
  <2> QED BY <2>1, ServiceAssumptions, SP!CasStep DEF CoreInv
<1>2. CASE \E t \in Tab, l \in Loop, h \in Handler : SendRequest(t, l, h)
  <2>1. PICK t \in Tab, l \in Loop, h \in Handler : SendRequest(t, l, h)
    BY <1>2
  <2>2. PICK n : handler' = [handler EXCEPT ![h] = n] /\ n.pc = "loadState" /\ n.cur = << >>
                 /\ n.todo = << >>
    BY <2>1, Requested
  <2>3. build \in SP!Row /\ build' = build
    BY <2>1 DEF CoreInv, SP!TypeInv, SP!TypeOK, SendRequest, S!Receive
  <2>4. SP!Fresh(n, build)
    BY <2>2 DEF SP!Fresh, SP!HasRow, SP!Working
  <2> QED BY <2>2, <2>3, <2>4, ServiceAssumptions, SP!FreshHandler DEF CoreInv
<1>3. CASE UNCHANGED << build, handler >>
  BY <1>3 DEF SP!CasInv
<1>4. \/ \E h \in Handler : S!Progress(h) \/ S!Refuse(h) \/ S!Fail(h) \/ S!End(h)
      \/ \E t \in Tab, l \in Loop, h \in Handler : SendRequest(t, l, h)
      \/ UNCHANGED << build, handler >>
  <2>1. CASE UNCHANGED vars
    BY <2>1 DEF vars, serviceVars
  <2>2. CASE \E t \in Tab : User(t)
    BY <2>2 DEF User, Load, Open, MakeEdit, Leave, Close, Reload, serviceVars
  <2>3. CASE \E t \in Tab, l \in Loop :
               \/ LoopStep(t, l) \/ Deliver(t, l) \/ LoseConnection(t, l) \/ Crash(t, l)
               \/ \E h \in Handler : SendRequest(t, l, h)
    BY <2>3, ConnIs DEF CoreInv, LoopStep, Deliver, LoseConnection, Crash, serviceVars
  <2>4. CASE \E h \in Handler : Handle(h) \/ HandlerFault(h) \/ Orphan(h)
    BY <2>4 DEF Handle, HandlerFault, Orphan
  <2> QED BY <2>1, <2>2, <2>3, <2>4 DEF Next
<1> QED BY <1>1, <1>2, <1>3, <1>4

LEMMA SavingInit == Init => SavingInv
<1> SUFFICES ASSUME Init PROVE SavingInv
  OBVIOUS
<1>1. CoreInv /\ SP!CasInv
  BY CoreInit, InitIs, ServiceAssumptions, SP!CasInit DEF Init
<1>2. /\ build.version = 0 /\ build.lastTx = NoTx /\ build.log = << >> /\ view = << >>
      /\ \A h \in Handler : handler[h] = SP!Idle
  BY <1>1, InitIs DEF Init, SP!Init, SP!EmptyRow
<1>3. Stored = {} /\ Made = {} /\ \A txs : Increasing(<< >>) /\ Range(<< >>) = {}
  BY <1>2 DEF Stored, Made, Increasing, Range
<1>4. StoredInv
  BY <1>2, <1>3 DEF StoredInv
<1>5. \A h \in Handler : HandlerInv(handler[h])
  BY <1>2 DEF HandlerInv, SP!Idle
<1>6. ASSUME NEW t \in Tab PROVE TabInv(t)
  <2>1. /\ session[t] = "closed" /\ loaded[t] = [version |-> 0, log |-> << >>]
        /\ queue[t] = << >> /\ controller[t] = 0 /\ edited[t] = {} /\ completed[t] = {}
        /\ \A l \in Loop : loop[t][l] = Q!Off
    BY DEF Init, Q!Init, Loop, Q!Loop
  <2>2. Shows(t)
    BY <1>2, <1>3, <2>1 DEF Shows, Based
  <2> QED BY <2>1, <2>2, OffIs DEF TabInv
<1>7. ConnInv
  BY DEF Init, ConnInv
<1> QED BY <1>1, <1>4, <1>5, <1>6, <1>7 DEF SavingInv, SaveInv

LEMMA SavingStep ==
  ASSUME CyclicEdits = {}, Destroys = {}, SavingInv, [Next]_vars
  PROVE  SavingInv'
<1>1. CoreInv' /\ SP!CasInv'
  BY CoreStep, CasKept DEF SavingInv
<1>2. CASE Next
  <2>1. SaveInv'
    BY <1>2, SaveUser, SaveRuns, SaveAnswered, SaveSends, SaveHandles, SaveOrphan DEF SavingInv, Next
  <2> QED BY <1>1, <2>1 DEF SavingInv
<1>3. CASE UNCHANGED vars
  <2>1. UNCHANGED << queue, status, loop, controller, completed, session, loaded, edited, doc, view,
                     conn, build, handler >>
    BY <1>3 DEF vars, queueVars, tabVars, netVars, serviceVars
  <2>2. Later /\ StoredInv'
    BY <2>1, LaterSame, StoredSame DEF SavingInv, SaveInv
  <2>3. \A g \in Handler : HandlerInv(handler[g])'
    BY <2>1, <2>2, HandlersKept DEF SavingInv
  <2>4. ASSUME NEW u \in Tab PROVE TabInv(u)'
    BY <2>1, <2>2, LaterTab DEF SavingInv, SaveInv
  <2>5. ConnInv'
    BY <2>1 DEF SavingInv, SaveInv, ConnInv
  <2> QED BY <1>1, <2>2, <2>3, <2>4, <2>5 DEF SavingInv, SaveInv
<1> QED BY <1>2, <1>3

LEMMA InvSaved ==
  ASSUME SavingInv
  PROVE  SavedOnWhatWasSeen /\ CompletedIsSaved /\ IdleMeansSaved
<1>1. PICK log \in Seq(Tx) : log = build.log /\ Increasing(log) /\ Range(log) = Stored
  BY TypesOf DEF SavingInv, SaveInv, StoredInv, Stored
<1>2. ASSUME NEW k \in DOMAIN log PROVE view[log[k]] = SubSeq(log, 1, k - 1)
  <2>1. PICK x \in Stored : x = log[k]
    BY <1>1, <1>2 DEF Range
  <2>2. /\ Stored \subseteq Made /\ Range(view[x]) = {y \in Stored : y < x}
        /\ \A z \in Made : Increasing(view[z])
    BY DEF SavingInv, SaveInv, StoredInv
  <2>3. PICK seen \in Seq(Tx) : seen = view[x]
    <3>1. x \in DOMAIN view
      BY <2>2 DEF Made
    <3> QED BY <3>1, TypesOf DEF SavingInv
  <2>4. /\ Len(log) \in Nat /\ DOMAIN log = 1 .. Len(log) /\ k \in 1 .. Len(log) /\ k \in Nat
        /\ \A j \in DOMAIN log : log[j] \in Nat
    <3>1. log \in Seq(Nat)
      BY NumbersOf
    <3> QED BY <3>1
  <2>5. PICK part \in Seq(Tx) : part = SubSeq(log, 1, k - 1)
    <3>1. k - 1 \in 0 .. Len(log)
      BY <2>4
    <3>2. SubSeq(log, 1, k - 1) \in Seq(Tx)
      BY <2>4, <3>1
    <3> QED BY <3>2
  <2>6. DOMAIN part = 1 .. k - 1 /\ \A j \in 1 .. k - 1 : part[j] = log[j] /\ j \in DOMAIN log
    BY <2>4, <2>5
  <2>7. Increasing(part)
    BY <1>1, <2>6 DEF Increasing
  <2>8. Range(part) = {y \in Stored : y < x}
    <3>1. ASSUME NEW j \in 1 .. k - 1 PROVE log[j] \in Stored /\ log[j] < x
      <4>1. j < k /\ j \in DOMAIN log
        BY <2>4, <2>6
      <4> QED BY <1>1, <2>1, <4>1 DEF Increasing, Range
    <3>2. ASSUME NEW y \in Stored, y < x PROVE \E j \in 1 .. k - 1 : y = log[j]
      <4>1. PICK j \in DOMAIN log : y = log[j]
        BY <1>1 DEF Range
      <4>2. ~(k < j) /\ j # k
        <5>1. k < j => x < y
          BY <1>1, <2>1, <4>1 DEF Increasing
        <5>2. x \in Nat /\ y \in Nat
          BY <2>1, <2>4, <4>1
        <5> QED BY <2>1, <3>2, <4>1, <5>1, <5>2
      <4>3. j \in 1 .. k - 1
        BY <2>4, <4>2
      <4> QED BY <4>1, <4>3
    <3> QED BY <2>6, <3>1, <3>2 DEF Range
  <2>9. seen \in Seq(Nat) /\ part \in Seq(Nat) /\ Increasing(seen)
    BY <2>2, <2>3, NumbersOf
  <2> QED BY <2>1, <2>2, <2>3, <2>5, <2>7, <2>8, <2>9, IncreasingSame
<1>3. SavedOnWhatWasSeen
  BY <1>1, <1>2 DEF SavedOnWhatWasSeen
<1>4. CompletedIsSaved
  BY DEF SavingInv, SaveInv, TabInv, CompletedIsSaved, Stored
<1>5. ASSUME NEW t \in Tab, status[t] = "idle" PROVE edited[t] \subseteq Stored
  <2>1. TabInv(t) /\ edited[t] \subseteq Tx
    BY TypesOf DEF SavingInv, SaveInv
  <2> QED BY <1>5, <2>1 DEF TabInv, Running, Kept
<1>6. IdleMeansSaved
  BY <1>5 DEF IdleMeansSaved, Stored
<1> QED BY <1>3, <1>4, <1>6

\* Builder tabs save every edit on exactly the content its author saw, however
\* many tabs edit, whichever requests are lost, repeated, crash or fail after
\* they took effect: patchLoadedBuild matches on the version the client loaded
\* or was answered, and a version stands for one content.
THEOREM SavedOnWhatWasSeenCorrect ==
  ASSUME CyclicEdits = {}, Destroys = {}
  PROVE  Spec => []SavedOnWhatWasSeen
<1>1. Init => SavingInv
  BY SavingInit
<1>2. SavingInv /\ [Next]_vars => SavingInv'
  BY SavingStep
<1>3. SavingInv => SavedOnWhatWasSeen
  BY InvSaved
<1> QED BY <1>1, <1>2, <1>3, PTL DEF Spec

\* What a builder tab reports as saved (completeTransaction) is in the build:
\* an "ok" is the answer to the command the loop waits with, and all edits of
\* that command were saved, by this request or by an earlier one of the same.
THEOREM CompletedIsSavedCorrect ==
  ASSUME CyclicEdits = {}, Destroys = {}
  PROVE  Spec => []CompletedIsSaved
<1>1. Init => SavingInv
  BY SavingInit
<1>2. SavingInv /\ [Next]_vars => SavingInv'
  BY SavingStep
<1>3. SavingInv => CompletedIsSaved
  BY InvSaved
<1> QED BY <1>1, <1>2, <1>3, PTL DEF Spec

\* A builder tab that shows "idle" has nothing left to save: every edit since
\* the page was loaded is in the build, in the queue or with the loop, and
\* pollCommands sets the status only when the last two are empty.
THEOREM IdleMeansSavedCorrect ==
  ASSUME CyclicEdits = {}, Destroys = {}
  PROVE  Spec => []IdleMeansSaved
<1>1. Init => SavingInv
  BY SavingInit
<1>2. SavingInv /\ [Next]_vars => SavingInv'
  BY SavingStep
<1>3. SavingInv => IdleMeansSaved
  BY InvSaved
<1> QED BY <1>1, <1>2, <1>3, PTL DEF Spec
====
