---------------------- MODULE MultiplayerSync_proofs ----------------------
(***************************************************************************)
(* Proofs about MultiplayerSync, for every number of tabs, edits, faults   *)
(* and messages under way.  The argument: what the relay decides about an  *)
(* edit is never taken back, so a message that was true when it was sent   *)
(* is true when it arrives, however late and however often.                *)
(***************************************************************************)
EXTENDS MultiplayerSync, FiniteSetTheorems, SequenceTheorems, WellFoundedInduction, TLAPS

(***************************************************************************)
(* The inductive invariants.                                               *)
(***************************************************************************)

Message ==
  [type : {"broadcast", "ack", "settled", "refused", "error", "reload"},
   tx : 0 .. MaxEdits, seq : Nat]

\* What the relay has said is so.
IsTrue(m) ==
  \/ /\ m.type \in {"broadcast", "settled"}
     /\ m.tx \in Tx /\ m.seq = number[m.tx] /\ m.seq # 0
  \/ m.type = "ack" /\ m.tx = 0 /\ m.seq <= settled
  \/ m.type = "refused" /\ m.tx \in Tx /\ m.seq = 0 /\ fate[m.tx] \in {"refused", "lost"}
  \/ m.type = "error" /\ m.tx \in limited /\ m.seq = 0
  \/ m.type = "reload" /\ m.tx = 0 /\ m.seq = 0

TrueMessage == {m \in Message : IsTrue(m)}

\* The books of the relay: each number belongs to one edit, and those up to
\* settled to edits that are decided.
RelayInv ==
  /\ fate \in [Tx -> {"new", "sequenced", "saved", "refused", "lost"}]
  /\ number \in [Tx -> Nat]
  /\ lastSeq \in Nat /\ settled \in 0 .. lastSeq
  /\ limited \subseteq Tx
  /\ \A x \in Tx : fate[x] = "new" => number[x] = 0
  /\ \A x \in Tx : fate[x] \in {"sequenced", "saved", "lost"} => number[x] # 0
  /\ \A x \in Tx : fate[x] = "sequenced" => number[x] > settled
  /\ \A x \in Tx : number[x] <= lastSeq
  /\ \A x, y \in Tx : number[x] = number[y] /\ number[x] # 0 => x = y
  /\ lastSeq = Cardinality({x \in Tx : number[x] # 0})

LinkInv ==
  /\ socket \in [Tab -> {"connecting", "open", "ended"}]
  /\ up \in [Tab -> Seq(Tx)]
  /\ down \in [Tab -> Seq(TrueMessage)]

TabInv ==
  /\ status \in [Tab -> {"idle", "syncing"}]
  /\ edited \in [Tab -> SUBSET Tx]
  /\ reloading \in [Tab -> BOOLEAN]
  /\ author \in Seq(Tab) /\ Len(author) <= MaxEdits
  /\ offline \subseteq Tx
  /\ faults \in Nat

\* A tracker knows no number that the relay has not given.
Knows(t) ==
  /\ ackSeq[t] <= settled
  /\ \A x \in Tx : seq[t][x] # 0 => x \in pending[t] /\ seq[t][x] = number[x]
  /\ \A x \in timer[t] : x \in limited \/ fate[x] # "new"

\* The books of a tab: what is not pending any more is decided.
Books(t) ==
  /\ pending[t] \cup durable[t] \cup dropped[t] \cup edited[t] \cup ToSet(up[t]) \subseteq Mine(t)
  /\ status[t] = "idle" => pending[t] = {}
  /\ \A x \in durable[t] : Settled(x)
  /\ \A x \in dropped[t] : fate[x] \in {"refused", "lost"}
  /\ ~stopped[t] => \A x \in Mine(t) : x \in pending[t] \/ Settled(x)

TrackerInv == R!TypeOK /\ R!RetryArmed /\ \A t \in Tab : Knows(t)

BooksInv == \A t \in Tab : Books(t)

CoreInv == RelayInv /\ LinkInv /\ TabInv /\ TrackerInv

(***************************************************************************)
(* Sorting: the order in which pending edits are sent again.               *)
(***************************************************************************)

Increasing(s) == \A i, j \in DOMAIN s : i < j => s[i] < s[j]

Sortable(S) == \E s \in [1 .. Cardinality(S) -> S] : ToSet(s) = S /\ Increasing(s)

LEMMA TxFinite == IsFiniteSet(Tx) /\ Tx \subseteq Nat \ {0}
<1>1. 1 \in Int /\ MaxEdits \in Int
  BY MultiplayerAssumption
<1>2. IsFiniteSet(1 .. MaxEdits)
  BY <1>1, FS_Interval
<1> QED BY <1>2 DEF Tx

LEMMA SortedExists == \A n \in Nat : \A S \in SUBSET (1 .. n) : Sortable(S)
<1> DEFINE Bad == {n \in Nat : \E S \in SUBSET (1 .. n) : ~Sortable(S)}
           less == {ss \in Nat \X Nat : ss[1] < ss[2]}
<1> SUFFICES ASSUME Bad # {} PROVE FALSE
  OBVIOUS
<1>1. PICK n \in Bad : \A m \in Bad : << m, n >> \notin less
  <2>1. Bad \subseteq Nat
    OBVIOUS
  <2>2. IsWellFoundedOn(less, Nat)
    BY NatLessThanWellFounded DEF OpToRel
  <2> HIDE DEF Bad, less
  <2> QED BY <2>1, <2>2, WFMin
<1>2. n \in Nat /\ \A m \in Nat : m < n => m \notin Bad
  BY <1>1
<1>3. PICK S \in SUBSET (1 .. n) : ~Sortable(S)
  BY <1>1
<1>4. n # 0
  <2> SUFFICES ASSUME n = 0 PROVE Sortable(S)
    BY <1>3
  <2>1. S = {}
    OBVIOUS
  <2>3. Cardinality(S) = 0
    BY <2>1, FS_EmptySet
  <2>2. << >> \in [1 .. 0 -> S] /\ ToSet(<< >>) = S /\ Increasing(<< >>)
    <3>1. DOMAIN << >> = {} /\ << >> \in [1 .. 0 -> S]
      OBVIOUS
    <3> QED BY <2>1, <3>1 DEF ToSet, Increasing
  <2> QED BY <2>2, <2>3 DEF Sortable
<1>5. n - 1 \in Nat /\ n - 1 \notin Bad
  BY <1>2, <1>4
<1>6. \A T \in SUBSET (1 .. n - 1) : Sortable(T)
  BY <1>5
<1> HIDE DEF Bad, less
<1>7. n \in S
  <2> SUFFICES ASSUME n \notin S PROVE S \in SUBSET (1 .. n - 1)
    BY <1>3, <1>6
  <2> QED BY <1>2
<1> DEFINE T == S \ {n}
           k == Cardinality(T)
<1>8. Sortable(T) /\ \A x \in T : x < n /\ x \in Nat
  <2>1. T \in SUBSET (1 .. n - 1) /\ \A x \in T : x < n /\ x \in Nat
    BY <1>2
  <2> QED BY <1>6, <2>1
<1>9. IsFiniteSet(S) /\ k \in Nat /\ Cardinality(S) = k + 1
  <2>1. IsFiniteSet(1 .. n)
    BY <1>2, FS_Interval
  <2>2. IsFiniteSet(S) /\ IsFiniteSet(T)
    BY <2>1, FS_Subset
  <2>3. Cardinality(S) \in Nat /\ k \in Nat
    BY <2>2, FS_CardinalityType
  <2>4. k = Cardinality(S) - 1
    BY <1>7, <2>2, FS_RemoveElement
  <2> QED BY <2>2, <2>3, <2>4
<1>10. PICK s \in [1 .. k -> T] : ToSet(s) = T /\ Increasing(s)
  BY <1>8 DEF Sortable
<1> DEFINE r == [i \in 1 .. k + 1 |-> IF i = k + 1 THEN n ELSE s[i]]
<1>11. r \in [1 .. k + 1 -> S]
  BY <1>7, <1>9, <1>10
<1>12. ToSet(r) = S
  <2>1. ASSUME NEW x \in T PROVE \E i \in 1 .. k : r[i] = x
    <3>1. PICK i \in 1 .. k : s[i] = x
      BY <1>10 DEF ToSet
    <3>2. i # k + 1 /\ i \in 1 .. k + 1
      BY <1>9
    <3> QED BY <3>1, <3>2
  <2>2. r[k + 1] = n
    BY <1>9
  <2>3. \A x \in S : x \in T \/ x = n
    OBVIOUS
  <2> HIDE DEF T, r
  <2>4. \A x \in S : \E i \in 1 .. k + 1 : r[i] = x
    BY <1>9, <2>1, <2>2, <2>3
  <2> QED BY <1>11, <2>4 DEF ToSet
<1>13. Increasing(r)
  <2> SUFFICES ASSUME NEW i \in 1 .. k + 1, NEW j \in 1 .. k + 1, i < j
               PROVE  r[i] < r[j]
    BY DEF Increasing
  <2>1. i \in 1 .. k /\ r[i] = s[i] /\ s[i] \in T
    <3>1. i \in 1 .. k /\ i # k + 1
      BY <1>9
    <3> QED BY <1>10, <3>1
  <2>2. CASE j = k + 1
    BY <1>8, <1>9, <2>1, <2>2
  <2>3. CASE j # k + 1
    <3>1. j \in 1 .. k /\ r[j] = s[j]
      BY <1>9, <2>3
    <3> QED BY <1>10, <2>1, <3>1 DEF Increasing
  <2> QED BY <2>2, <2>3
<1>14. Sortable(S)
  BY <1>9, <1>11, <1>12, <1>13 DEF Sortable
<1> QED BY <1>3, <1>14

\* Everything pending is sent again, in the order it was made.
LEMMA ResendIsSorted ==
  ASSUME NEW t \in Tab, pending[t] \in SUBSET Tx
  PROVE  /\ Resend(t) \in Seq(Tx)
         /\ ToSet(Resend(t)) = pending[t]
         /\ Increasing(Resend(t))
<1> DEFINE k == Cardinality(pending[t])
<1>1. Sortable(pending[t])
  BY SortedExists, MultiplayerAssumption DEF Tx
<1>2. /\ Resend(t) \in [1 .. k -> pending[t]]
      /\ ToSet(Resend(t)) = pending[t] /\ Increasing(Resend(t))
  BY <1>1 DEF Resend, Sortable, Increasing
<1>3. k \in Nat
  BY TxFinite, FS_Subset, FS_CardinalityType
<1> QED BY <1>2, <1>3

(***************************************************************************)
(* The relay.                                                              *)
(***************************************************************************)

\* What the relay decides it never takes back.
RelayGrows ==
  /\ \A x \in Tx : fate[x] # "new" => fate'[x] # "new"
  /\ \A x \in Tx : fate[x] \in {"saved", "refused", "lost"} => fate'[x] = fate[x]
  /\ \A x \in Tx : number[x] # 0 => number'[x] = number[x]
  /\ lastSeq <= lastSeq' /\ settled <= settled'
  /\ limited \subseteq limited'

LEMMA RelaySame ==
  ASSUME CoreInv, UNCHANGED << relayVars, limited >>
  PROVE  RelayInv' /\ RelayGrows
BY DEF CoreInv, RelayInv, RelayGrows, relayVars

LEMMA HeadOfUp ==
  ASSUME CoreInv, NEW t \in Tab, up[t] # << >>
  PROVE  /\ Head(up[t]) \in Tx /\ Tail(up[t]) \in Seq(Tx)
         /\ Head(up[t]) \in ToSet(up[t]) /\ ToSet(Tail(up[t])) \subseteq ToSet(up[t])
         /\ \A x \in ToSet(up[t]) : x = Head(up[t]) \/ x \in ToSet(Tail(up[t]))
<1>1. up[t] \in Seq(Tx)
  BY DEF CoreInv, LinkInv
<1> DEFINE s == up[t]
<1>2. Head(s) \in Tx /\ Tail(s) \in Seq(Tx)
  BY <1>1
<1>3. /\ 1 \in DOMAIN s /\ Head(s) = s[1] /\ Len(s) \in Nat /\ DOMAIN s = 1 .. Len(s)
      /\ DOMAIN Tail(s) = 1 .. Len(s) - 1
      /\ \A i \in 1 .. Len(s) - 1 : Tail(s)[i] = s[i + 1] /\ i + 1 \in DOMAIN s
  BY <1>1
<1>4. ASSUME NEW x \in ToSet(s), x # Head(s) PROVE x \in ToSet(Tail(s))
  <2>1. PICK i \in DOMAIN s : s[i] = x
    BY DEF ToSet
  <2>2. i - 1 \in DOMAIN Tail(s) /\ Tail(s)[i - 1] = s[i]
    BY <1>3, <1>4, <2>1
  <2> QED BY <2>1, <2>2 DEF ToSet
<1> HIDE DEF s
<1>5. Head(s) \in ToSet(s) /\ ToSet(Tail(s)) \subseteq ToSet(s)
  BY <1>3 DEF ToSet
<1> QED BY <1>2, <1>4, <1>5 DEF s

LEMMA RelayAcceptBooks ==
  ASSUME CoreInv, NEW t \in Tab, RelayAccept(t)
  PROVE  RelayInv' /\ RelayGrows
<1> DEFINE x == Head(up[t])
<1>1. x \in Tx /\ fate[x] = "new" /\ number[x] = 0
  BY HeadOfUp DEF RelayAccept, Take, CoreInv, RelayInv
<1>2. /\ fate' = [fate EXCEPT ![x] = "sequenced"] /\ lastSeq' = lastSeq + 1
      /\ number' = [number EXCEPT ![x] = lastSeq + 1]
      /\ UNCHANGED << settled, limited >>
  BY DEF RelayAccept, history
<1> HIDE DEF x
<1>3. RelayInv
  BY DEF CoreInv
<1> DEFINE S == {y \in Tx : number[y] # 0}
<1>4. {y \in Tx : number'[y] # 0} = S \cup {x}
  BY <1>1, <1>2, <1>3 DEF RelayInv
<1>5. Cardinality(S \cup {x}) = lastSeq + 1
  <2>1. IsFiniteSet(S) /\ x \notin S
    BY <1>1, TxFinite, FS_Subset
  <2>2. Cardinality(S \cup {x}) = Cardinality(S) + 1
    BY <2>1, FS_AddElement
  <2> QED BY <2>2, <1>3 DEF RelayInv
<1> HIDE DEF S
<1>6. lastSeq' = Cardinality({y \in Tx : number'[y] # 0})
  BY <1>2, <1>4, <1>5
<1>7. /\ fate' \in [Tx -> {"new", "sequenced", "saved", "refused", "lost"}]
      /\ number' \in [Tx -> Nat] /\ lastSeq' \in Nat /\ settled' \in 0 .. lastSeq'
      /\ limited' \subseteq Tx
  BY <1>1, <1>2, <1>3 DEF RelayInv
<1>8. \A y \in Tx : /\ fate'[y] = IF y = x THEN "sequenced" ELSE fate[y]
                   /\ number'[y] = IF y = x THEN lastSeq + 1 ELSE number[y]
  BY <1>2, <1>3 DEF RelayInv
<1>9. ASSUME NEW y \in Tx
      PROVE  /\ fate'[y] = "new" => number'[y] = 0
             /\ fate'[y] \in {"sequenced", "saved", "lost"} => number'[y] # 0
             /\ fate'[y] = "sequenced" => number'[y] > settled'
             /\ number'[y] <= lastSeq'
             /\ \A z \in Tx : number'[y] = number'[z] /\ number'[y] # 0 => y = z
  <2>1. /\ number[y] \in Nat /\ number[y] <= lastSeq /\ lastSeq \in Nat /\ settled \in Nat
        /\ settled <= lastSeq /\ \A z \in Tx : number[z] \in Nat /\ number[z] <= lastSeq
    BY <1>3 DEF RelayInv
  <2>2. CASE y = x
    <3>1. fate'[y] = "sequenced" /\ number'[y] = lastSeq + 1
      BY <1>8, <2>2
    <3>2. ASSUME NEW z \in Tx, number'[y] = number'[z] PROVE y = z
      <4>1. z # x => number'[z] = number[z]
        BY <1>8
      <4> QED BY <2>1, <2>2, <3>1, <3>2, <4>1
    <3> QED BY <1>2, <2>1, <3>1, <3>2
  <2>3. CASE y # x
    <3>1. fate'[y] = fate[y] /\ number'[y] = number[y]
      BY <1>8, <2>3
    <3>2. ASSUME NEW z \in Tx, number'[y] = number'[z], number'[y] # 0 PROVE y = z
      <4>1. z = x => number'[z] = lastSeq + 1
        BY <1>8
      <4>2. z # x => number'[z] = number[z]
        BY <1>8
      <4>3. number[y] = number[z] /\ number[y] # 0 => y = z
        BY <1>3 DEF RelayInv
      <4>4. z # x
        BY <2>1, <3>1, <3>2, <4>1
      <4> QED BY <3>1, <3>2, <4>2, <4>3, <4>4
    <3>3. /\ fate[y] = "new" => number[y] = 0
          /\ fate[y] \in {"sequenced", "saved", "lost"} => number[y] # 0
          /\ fate[y] = "sequenced" => number[y] > settled
      BY <1>3 DEF RelayInv
    <3> QED BY <1>2, <2>1, <3>1, <3>2, <3>3
  <2> QED BY <2>2, <2>3
<1>10. RelayGrows
  BY <1>1, <1>2, <1>3, <1>8 DEF RelayInv, RelayGrows
<1> QED BY <1>6, <1>7, <1>9, <1>10 DEF RelayInv

LEMMA RelayRefuseBooks ==
  ASSUME CoreInv, NEW t \in Tab, RelayRefuse(t)
  PROVE  RelayInv' /\ RelayGrows
<1> DEFINE x == Head(up[t])
<1>1. x \in Tx /\ fate[x] = "new"
  BY HeadOfUp DEF RelayRefuse, Take
<1>2. fate' = [fate EXCEPT ![x] = "refused"] /\ UNCHANGED << number, lastSeq, settled, limited >>
  BY DEF RelayRefuse, history
<1> HIDE DEF x
<1> QED BY <1>1, <1>2 DEF CoreInv, RelayInv, RelayGrows

LEMMA RelayLimitBooks ==
  ASSUME CoreInv, NEW t \in Tab, RelayLimit(t)
  PROVE  RelayInv' /\ RelayGrows
<1>1. Head(up[t]) \in Tx /\ limited' = limited \cup {Head(up[t])} /\ UNCHANGED relayVars
  BY HeadOfUp DEF RelayLimit, Take
<1> QED BY <1>1 DEF CoreInv, RelayInv, RelayGrows, relayVars

\* The edit with the next number is the only one that is decided.
LEMMA RelaySaveBooks ==
  ASSUME CoreInv, NEW x \in Tx, RelaySave(x)
  PROVE  RelayInv' /\ RelayGrows
<1>1. PICK f \in {"saved", "refused"} : fate' = [fate EXCEPT ![x] = f]
  BY DEF RelaySave
<1>2. /\ fate[x] = "sequenced" /\ number[x] = settled + 1 /\ settled' = settled + 1
      /\ UNCHANGED << number, lastSeq, limited >>
  BY DEF RelaySave, history
<1>3. RelayInv
  BY DEF CoreInv
<1>4. settled' \in 0 .. lastSeq'
  BY <1>2, <1>3 DEF RelayInv
<1>5. ASSUME NEW y \in Tx, fate'[y] = "sequenced" PROVE number'[y] > settled'
  <2>1. y # x /\ fate[y] = "sequenced"
    BY <1>1, <1>3, <1>5 DEF RelayInv
  <2>2. number[y] > settled /\ number[y] # number[x]
    BY <1>2, <1>3, <2>1 DEF RelayInv
  <2> QED BY <1>2, <1>3, <2>2 DEF RelayInv
<1> QED BY <1>1, <1>2, <1>3, <1>4, <1>5 DEF RelayInv, RelayGrows

LEMMA RelayReloadBooks ==
  ASSUME CoreInv, RelayReload
  PROVE  RelayInv' /\ RelayGrows
<1>1. /\ fate' = [x \in Tx |-> IF fate[x] = "sequenced" THEN "lost" ELSE fate[x]]
      /\ settled' = lastSeq /\ UNCHANGED << number, lastSeq, limited >>
  BY DEF RelayReload, history
<1> QED BY <1>1 DEF CoreInv, RelayInv, RelayGrows

\* Messages stay true while they are under way.
LEMMA TruthLasts ==
  ASSUME CoreInv, RelayInv', RelayGrows
  PROVE  TrueMessage \subseteq TrueMessage'
<1> SUFFICES ASSUME NEW m \in Message, IsTrue(m) PROVE IsTrue(m)'
  BY DEF TrueMessage
<1> QED BY DEF Message, IsTrue, CoreInv, RelayInv, RelayGrows

(***************************************************************************)
(* The links.                                                              *)
(***************************************************************************)

LEMMA AppendTrue ==
  ASSUME CoreInv, TrueMessage \subseteq TrueMessage',
         NEW t \in Tab, NEW m \in TrueMessage'
  PROVE  Append(down[t], m) \in Seq(TrueMessage') /\ down[t] \in Seq(TrueMessage')
<1>1. down[t] \in Seq(TrueMessage)
  BY DEF CoreInv, LinkInv
<1> QED BY <1>1

LEMMA MsgType ==
  ASSUME NEW type \in {"broadcast", "ack", "settled", "refused", "error", "reload"},
         NEW x \in 0 .. MaxEdits, NEW s \in Nat
  PROVE  /\ Msg(type, x, s) \in Message
         /\ Msg(type, x, s).type = type /\ Msg(type, x, s).tx = x /\ Msg(type, x, s).seq = s
BY DEF Msg, Message

LEMMA ZeroTx == 0 \in 0 .. MaxEdits /\ Tx \subseteq 0 .. MaxEdits
BY MultiplayerAssumption DEF Tx

\* The messages that the relay sends.
LEMMA AcceptIsTrue ==
  ASSUME CoreInv, NEW t \in Tab, RelayAccept(t)
  PROVE  Msg("broadcast", Head(up[t]), lastSeq') \in TrueMessage'
<1> DEFINE x == Head(up[t])
           m == Msg("broadcast", x, lastSeq')
<1>1. x \in Tx /\ x \in 0 .. MaxEdits
  BY HeadOfUp, ZeroTx DEF RelayAccept, Take
<1>2. lastSeq' = lastSeq + 1 /\ number'[x] = lastSeq' /\ lastSeq \in Nat
  BY <1>1 DEF RelayAccept, CoreInv, RelayInv
<1> HIDE DEF x
<1>3. m \in Message /\ m.type = "broadcast" /\ m.tx = x /\ m.seq = lastSeq'
  BY <1>1, <1>2, MsgType
<1> HIDE DEF m
<1> QED BY <1>1, <1>2, <1>3 DEF TrueMessage, IsTrue, m, x, Message

LEMMA RefusedIsTrue ==
  ASSUME NEW x \in Tx, fate'[x] \in {"refused", "lost"}
  PROVE  Msg("refused", x, 0) \in TrueMessage'
BY MsgType, ZeroTx DEF TrueMessage, IsTrue, Message

LEMMA AckIsTrue ==
  ASSUME NEW s \in Nat, s <= settled'
  PROVE  Msg("ack", 0, s) \in TrueMessage'
BY MsgType, ZeroTx DEF TrueMessage, IsTrue, Message

LEMMA SettledIsTrue ==
  ASSUME NEW x \in Tx, number'[x] \in Nat \ {0}
  PROVE  Msg("settled", x, number'[x]) \in TrueMessage'
BY MsgType, ZeroTx DEF TrueMessage, IsTrue, Message

LEMMA ErrorIsTrue ==
  ASSUME NEW x \in Tx, x \in limited'
  PROVE  Msg("error", x, 0) \in TrueMessage'
BY MsgType, ZeroTx DEF TrueMessage, IsTrue, Message

LEMMA ReloadIsTrue == Msg("reload", 0, 0) \in TrueMessage'
BY MsgType, ZeroTx DEF TrueMessage, IsTrue, Message

LEMMA BroadcastTrue ==
  ASSUME CoreInv, TrueMessage \subseteq TrueMessage', NEW m \in TrueMessage', Broadcast(m)
  PROVE  down' \in [Tab -> Seq(TrueMessage')]
BY AppendTrue DEF Broadcast

LEMMA ReplyTrue ==
  ASSUME CoreInv, TrueMessage \subseteq TrueMessage',
         NEW t \in Tab, NEW ms \in Seq(TrueMessage'), Reply(t, ms)
  PROVE  down' \in [Tab -> Seq(TrueMessage')]
<1>1. \A r \in Tab : down[r] \in Seq(TrueMessage')
  BY DEF CoreInv, LinkInv
<1>2. down[t] \o ms \in Seq(TrueMessage')
  BY <1>1
<1> QED BY <1>1, <1>2 DEF Reply, CoreInv, LinkInv

LEMMA LinkAccept ==
  ASSUME CoreInv, NEW t \in Tab, RelayAccept(t)
  PROVE  LinkInv'
<1>1. TrueMessage \subseteq TrueMessage'
  BY RelayAcceptBooks, TruthLasts
<1>2. down' \in [Tab -> Seq(TrueMessage')]
  BY <1>1, AcceptIsTrue, BroadcastTrue DEF RelayAccept
<1> QED BY <1>2, HeadOfUp DEF RelayAccept, Take, CoreInv, LinkInv

LEMMA LinkRefuse ==
  ASSUME CoreInv, NEW t \in Tab, RelayRefuse(t)
  PROVE  LinkInv'
<1> DEFINE x == Head(up[t])
<1>1. TrueMessage \subseteq TrueMessage'
  BY RelayRefuseBooks, TruthLasts
<1>2. x \in Tx /\ fate'[x] = "refused"
  BY HeadOfUp DEF RelayRefuse, Take, CoreInv, RelayInv
<1>3. << Msg("refused", x, 0) >> \in Seq(TrueMessage')
  BY <1>2, RefusedIsTrue
<1>4. down' \in [Tab -> Seq(TrueMessage')]
  BY <1>1, <1>3, ReplyTrue DEF RelayRefuse
<1> QED BY <1>4, HeadOfUp DEF RelayRefuse, Take, CoreInv, LinkInv

LEMMA LinkLimit ==
  ASSUME CoreInv, NEW t \in Tab, RelayLimit(t)
  PROVE  LinkInv'
<1> DEFINE x == Head(up[t])
<1>1. TrueMessage \subseteq TrueMessage'
  BY RelayLimitBooks, TruthLasts
<1>2. x \in Tx /\ x \in limited'
  BY HeadOfUp DEF RelayLimit, Take
<1>3. << Msg("error", x, 0) >> \in Seq(TrueMessage')
  BY <1>2, ErrorIsTrue
<1>4. down' \in [Tab -> Seq(TrueMessage')]
  BY <1>1, <1>3, ReplyTrue DEF RelayLimit
<1> QED BY <1>4, HeadOfUp DEF RelayLimit, Take, CoreInv, LinkInv

LEMMA LinkRepeat ==
  ASSUME CoreInv, NEW t \in Tab, RelayRepeat(t)
  PROVE  LinkInv'
<1> DEFINE x == Head(up[t])
           told == Msg("settled", x, number[x])
           ack == Msg("ack", 0, settled)
           no == Msg("refused", x, 0)
<1>1. UNCHANGED << relayVars, limited >> /\ UNCHANGED << fate, number, settled >>
  BY DEF RelayRepeat, history, relayVars
<1>2. TrueMessage \subseteq TrueMessage'
  BY <1>1, RelaySame, TruthLasts
<1>3. /\ x \in Tx /\ fate[x] \in {"sequenced", "saved", "refused", "lost"}
      /\ number[x] \in Nat /\ settled \in Nat
      /\ fate[x] \in {"sequenced", "saved"} => number[x] # 0
  BY HeadOfUp DEF RelayRepeat, Take, CoreInv, RelayInv
<1> HIDE DEF x
<1>4. /\ fate[x] \in {"sequenced", "saved"} => told \in TrueMessage'
      /\ ack \in TrueMessage'
      /\ fate[x] \in {"refused", "lost"} => no \in TrueMessage'
  BY <1>1, <1>3, SettledIsTrue, AckIsTrue, RefusedIsTrue
<1>5. \/ fate[x] = "sequenced" /\ Reply(t, << told >>)
      \/ fate[x] = "saved" /\ Reply(t, << told, ack >>)
      \/ fate[x] \in {"refused", "lost"} /\ Reply(t, << no >>)
  BY <1>3 DEF RelayRepeat, x
<1> HIDE DEF told, ack, no
<1>6. down' \in [Tab -> Seq(TrueMessage')]
  <2>1. CASE fate[x] = "sequenced" /\ Reply(t, << told >>)
    <3>1. << told >> \in Seq(TrueMessage')
      BY <1>4, <2>1
    <3> QED BY <1>2, <2>1, <3>1, ReplyTrue
  <2>2. CASE fate[x] = "saved" /\ Reply(t, << told, ack >>)
    <3>1. << told, ack >> \in Seq(TrueMessage')
      BY <1>4, <2>2
    <3> QED BY <1>2, <2>2, <3>1, ReplyTrue
  <2>3. CASE fate[x] \in {"refused", "lost"} /\ Reply(t, << no >>)
    <3>1. << no >> \in Seq(TrueMessage')
      BY <1>4, <2>3
    <3> QED BY <1>2, <2>3, <3>1, ReplyTrue
  <2> QED BY <1>5, <2>1, <2>2, <2>3
<1> QED BY <1>6, HeadOfUp DEF RelayRepeat, Take, CoreInv, LinkInv

LEMMA LinkSave ==
  ASSUME CoreInv, NEW x \in Tx, RelaySave(x)
  PROVE  LinkInv'
<1> DEFINE ack == Msg("ack", 0, number[x])
           no == Msg("refused", x, 0)
<1>1. TrueMessage \subseteq TrueMessage'
  BY RelaySaveBooks, TruthLasts
<1>2. ack \in TrueMessage'
  BY AckIsTrue DEF RelaySave, CoreInv, RelayInv
<1>3. \/ Broadcast(ack)
      \/ /\ fate' = [fate EXCEPT ![x] = "refused"]
         /\ down' = [t \in Tab |->
              CASE socket[t] # "open" -> down[t]
                [] author[x] = t      -> down[t] \o << no, ack >>
                [] OTHER              -> Append(down[t], ack)]
  BY DEF RelaySave
<1>4. fate' = [fate EXCEPT ![x] = "refused"] => no \in TrueMessage'
  BY RefusedIsTrue DEF CoreInv, RelayInv
<1> HIDE DEF ack, no
<1>5. CASE Broadcast(ack)
  BY <1>1, <1>2, <1>5, BroadcastTrue DEF RelaySave, CoreInv, LinkInv
<1>6. CASE ~Broadcast(ack)
  <2>1. << no, ack >> \in Seq(TrueMessage')
    BY <1>2, <1>3, <1>4, <1>6
  <2>2. \A t \in Tab : /\ down[t] \in Seq(TrueMessage')
                      /\ Append(down[t], ack) \in Seq(TrueMessage')
                      /\ down[t] \o << no, ack >> \in Seq(TrueMessage')
    BY <1>1, <1>2, <2>1, AppendTrue
  <2>3. down' \in [Tab -> Seq(TrueMessage')]
    BY <1>3, <1>6, <2>2
  <2> QED BY <2>3 DEF RelaySave, CoreInv, LinkInv
<1> QED BY <1>5, <1>6

LEMMA LinkReload ==
  ASSUME CoreInv, RelayReload
  PROVE  LinkInv'
<1>1. TrueMessage \subseteq TrueMessage'
  BY RelayReloadBooks, TruthLasts
<1>2. down' \in [Tab -> Seq(TrueMessage')]
  BY <1>1, ReloadIsTrue, BroadcastTrue DEF RelayReload
<1> QED BY <1>2 DEF RelayReload, CoreInv, LinkInv

(***************************************************************************)
(* The tracker.                                                            *)
(***************************************************************************)

\* A step of the relay.
LEMMA TrackerSame ==
  ASSUME CoreInv, RelayInv', RelayGrows, UNCHANGED trackerVars
  PROVE  TrackerInv'
<1>1. R!TypeOK' /\ R!RetryArmed'
  BY DEF CoreInv, TrackerInv, trackerVars, R!TypeOK, R!RetryArmed
<1>2. ASSUME NEW t \in Tab PROVE Knows(t)'
  <2>1. Knows(t) /\ seq[t] \in [Tx -> Nat] /\ ackSeq[t] \in Nat /\ timer[t] \in SUBSET Tx
    BY DEF CoreInv, TrackerInv, R!TypeOK
  <2>2. ackSeq'[t] = ackSeq[t] /\ seq'[t] = seq[t] /\ timer'[t] = timer[t] /\ pending'[t] = pending[t]
    BY DEF trackerVars
  <2>3. settled \in Nat /\ settled' \in Nat
    BY DEF CoreInv, RelayInv
  <2> QED BY <2>1, <2>2, <2>3 DEF Knows, RelayGrows
<1> QED BY <1>1, <1>2 DEF TrackerInv

\* What the operations of the tracker of tab t share: other tabs' trackers
\* are untouched.
LEMMA TrackerOthers ==
  ASSUME CoreInv, UNCHANGED << relayVars, limited >>, NEW t \in Tab,
         R!TypeOK',
         \A u \in Tab \ {t} : UNCHANGED << pending[u], seq[u], timer[u], ackSeq[u], stopped[u] >>,
         \A x \in pending'[t] : seq'[t][x] # 0 => x \in timer'[t] /\ seq'[t][x] > ackSeq'[t],
         timer'[t] \subseteq pending'[t], stopped'[t] => pending'[t] = {},
         Knows(t)'
  PROVE  TrackerInv'
<1>1. ASSUME NEW u \in Tab \ {t} PROVE Knows(u)'
  BY DEF CoreInv, TrackerInv, Knows, relayVars
<1>2. R!RetryArmed'
  BY DEF CoreInv, TrackerInv, R!RetryArmed
<1> QED BY <1>1, <1>2 DEF TrackerInv

LEMMA TrackTracker ==
  ASSUME CoreInv, UNCHANGED << relayVars, limited >>, NEW t \in Tab, NEW x \in Tx, R!Track(t, x)
  PROVE  TrackerInv'
<1>1. R!TypeOK'
  BY DEF R!Track, CoreInv, TrackerInv, R!TypeOK
<1>2. \A u \in Tab \ {t} : pending'[u] = pending[u]
  BY DEF R!Track, CoreInv, TrackerInv, R!TypeOK
<1>3. /\ pending'[t] = IF stopped[t] THEN pending[t] ELSE pending[t] \cup {x}
      /\ UNCHANGED << seq, timer, ackSeq, stopped >>
  BY DEF R!Track, CoreInv, TrackerInv, R!TypeOK
<1>4. Knows(t)'
  BY <1>3 DEF CoreInv, TrackerInv, Knows, relayVars
<1>5. \A y \in pending'[t] : seq'[t][y] # 0 => y \in timer'[t] /\ seq'[t][y] > ackSeq'[t]
  BY <1>3 DEF CoreInv, TrackerInv, Knows, R!RetryArmed, R!TypeOK
<1>6. timer'[t] \subseteq pending'[t] /\ (stopped'[t] => pending'[t] = {})
  BY <1>3 DEF CoreInv, TrackerInv, R!RetryArmed
<1> QED BY <1>1, <1>2, <1>3, <1>4, <1>5, <1>6, TrackerOthers

\* deletePending of the entries S.
LEMMA ForgetEffect ==
  ASSUME R!TypeOK, NEW t \in Tab, NEW S, R!Forget(t, S)
  PROVE  /\ pending'[t] = pending[t] \ S /\ timer'[t] = timer[t] \ S
         /\ \A x \in Tx : seq'[t][x] = IF x \in S THEN 0 ELSE seq[t][x]
         /\ \A u \in Tab \ {t} : UNCHANGED << pending[u], timer[u], seq[u] >>
         /\ pending' \in [Tab -> SUBSET Tx] /\ timer' \in [Tab -> SUBSET Tx]
         /\ seq' \in [Tab -> [Tx -> Nat]]
<1> DEFINE row == [x \in Tx |-> IF x \in S THEN 0 ELSE seq[t][x]]
<1>1. row \in [Tx -> Nat]
  BY DEF R!TypeOK
<1>2. seq' = [seq EXCEPT ![t] = row]
  BY DEF R!Forget, R!TypeOK
<1>3. \A x \in Tx : row[x] = IF x \in S THEN 0 ELSE seq[t][x]
  OBVIOUS
<1> HIDE DEF row
<1>4. seq' \in [Tab -> [Tx -> Nat]] /\ seq'[t] = row /\ \A u \in Tab \ {t} : seq'[u] = seq[u]
  BY <1>1, <1>2 DEF R!TypeOK
<1>5. /\ pending'[t] = pending[t] \ S /\ timer'[t] = timer[t] \ S
      /\ \A u \in Tab \ {t} : UNCHANGED << pending[u], timer[u] >>
      /\ pending' \in [Tab -> SUBSET Tx] /\ timer' \in [Tab -> SUBSET Tx]
  BY DEF R!Forget, R!TypeOK
<1> QED BY <1>3, <1>4, <1>5

LEMMA SequencedTracker ==
  ASSUME CoreInv, UNCHANGED << relayVars, limited >>, NEW t \in Tab, NEW x \in pending[t],
         number[x] # 0, R!Sequenced(t, x, number[x])
  PROVE  TrackerInv'
<1> DEFINE s == number[x]
<1>1. /\ R!TypeOK /\ R!RetryArmed /\ Knows(t) /\ x \in Tx /\ s \in Nat /\ ackSeq[t] \in Nat
      /\ fate[x] # "new"
  BY DEF CoreInv, TrackerInv, R!TypeOK, RelayInv
<1>2. CASE ackSeq[t] >= s
  <2>1. /\ R!Forget(t, {x}) /\ UNCHANGED << ackSeq, stopped, dropped >>
        /\ durable' = [durable EXCEPT ![t] = @ \cup {x}]
    BY <1>2 DEF R!Sequenced
  <2>2. R!TypeOK'
    BY <1>1, <2>1, ForgetEffect DEF R!TypeOK
  <2>3. Knows(t)'
    BY <1>1, <2>1, ForgetEffect DEF Knows, relayVars
  <2>4. /\ \A y \in pending'[t] : seq'[t][y] # 0 => y \in timer'[t] /\ seq'[t][y] > ackSeq'[t]
        /\ timer'[t] \subseteq pending'[t] /\ (stopped'[t] => pending'[t] = {})
    BY <1>1, <2>1, ForgetEffect DEF R!RetryArmed, R!TypeOK
  <2> QED BY <1>1, <2>1, <2>2, <2>3, <2>4, ForgetEffect, TrackerOthers
<1>3. CASE ~(ackSeq[t] >= s)
  <2>1. /\ seq' = [seq EXCEPT ![t] = [seq[t] EXCEPT ![x] = s]]
        /\ timer' = [timer EXCEPT ![t] = @ \cup {x}]
        /\ UNCHANGED << pending, ackSeq, stopped, durable, dropped >>
    BY <1>1, <1>3 DEF R!Sequenced, R!Arm, R!TypeOK
  <2>2. /\ \A y \in Tx : seq'[t][y] = IF y = x THEN s ELSE seq[t][y]
        /\ timer'[t] = timer[t] \cup {x}
        /\ \A u \in Tab \ {t} : UNCHANGED << seq[u], timer[u] >>
        /\ seq' \in [Tab -> [Tx -> Nat]] /\ timer' \in [Tab -> SUBSET Tx]
    BY <1>1, <2>1 DEF R!TypeOK
  <2>3. R!TypeOK'
    BY <1>1, <2>1, <2>2 DEF R!TypeOK
  <2>4. Knows(t)'
    BY <1>1, <2>1, <2>2 DEF Knows, relayVars
  <2>5. /\ \A y \in pending'[t] : seq'[t][y] # 0 => y \in timer'[t] /\ seq'[t][y] > ackSeq'[t]
        /\ timer'[t] \subseteq pending'[t] /\ (stopped'[t] => pending'[t] = {})
    BY <1>1, <1>3, <2>1, <2>2 DEF R!RetryArmed, R!TypeOK
  <2> QED BY <2>1, <2>2, <2>3, <2>4, <2>5, TrackerOthers
<1> QED BY <1>2, <1>3

LEMMA RefusedTracker ==
  ASSUME CoreInv, UNCHANGED << relayVars, limited >>, NEW t \in Tab, NEW x \in pending[t],
         R!HandleRefused(t, x)
  PROVE  TrackerInv'
<1>1. R!TypeOK /\ R!RetryArmed /\ Knows(t) /\ x \in Tx
  BY DEF CoreInv, TrackerInv, R!TypeOK
<1>2. /\ R!Forget(t, {x}) /\ UNCHANGED << ackSeq, stopped, durable >>
      /\ dropped' = [dropped EXCEPT ![t] = @ \cup {x}]
  BY DEF R!HandleRefused
<1>3. R!TypeOK'
  BY <1>1, <1>2, ForgetEffect DEF R!TypeOK
<1>4. Knows(t)'
  BY <1>1, <1>2, ForgetEffect DEF Knows, relayVars
<1>5. /\ \A y \in pending'[t] : seq'[t][y] # 0 => y \in timer'[t] /\ seq'[t][y] > ackSeq'[t]
      /\ timer'[t] \subseteq pending'[t] /\ (stopped'[t] => pending'[t] = {})
  BY <1>1, <1>2, ForgetEffect DEF R!RetryArmed, R!TypeOK
<1> QED BY <1>1, <1>2, <1>3, <1>4, <1>5, ForgetEffect, TrackerOthers

\* The entries an acknowledgement does not reach have higher numbers.
LEMMA AckTracker ==
  ASSUME CoreInv, UNCHANGED << relayVars, limited >>, NEW t \in Tab, NEW s \in Nat, s <= settled,
         R!HandleAck(t, s)
  PROVE  TrackerInv'
<1>1. /\ R!TypeOK /\ R!RetryArmed /\ Knows(t) /\ ackSeq[t] \in Nat /\ settled \in Nat
      /\ seq[t] \in [Tx -> Nat] /\ pending[t] \in SUBSET Tx
  BY DEF CoreInv, TrackerInv, R!TypeOK, RelayInv
<1> DEFINE done == R!Acked(t, ackSeq'[t])
<1>2. /\ R!Forget(t, done) /\ UNCHANGED << stopped, dropped >>
      /\ durable' = [durable EXCEPT ![t] = @ \cup done]
      /\ ackSeq' = [ackSeq EXCEPT ![t] = IF s >= @ THEN s ELSE @]
  BY DEF R!HandleAck
<1>3. /\ done \subseteq pending[t]
      /\ \A x \in pending[t] \ done : seq[t][x] # 0 => seq[t][x] > ackSeq'[t]
      /\ ackSeq'[t] <= settled /\ ackSeq' \in [Tab -> Nat]
      /\ \A u \in Tab \ {t} : ackSeq'[u] = ackSeq[u]
  BY <1>1, <1>2 DEF R!Acked, Knows, R!TypeOK
<1> HIDE DEF done
<1>4. R!TypeOK'
  BY <1>1, <1>2, <1>3, ForgetEffect DEF R!TypeOK
<1>5. Knows(t)'
  BY <1>1, <1>2, <1>3, ForgetEffect DEF Knows, relayVars
<1>6. /\ \A y \in pending'[t] : seq'[t][y] # 0 => y \in timer'[t] /\ seq'[t][y] > ackSeq'[t]
      /\ timer'[t] \subseteq pending'[t] /\ (stopped'[t] => pending'[t] = {})
  BY <1>1, <1>2, <1>3, ForgetEffect DEF R!RetryArmed
<1> QED BY <1>1, <1>2, <1>3, <1>4, <1>5, <1>6, ForgetEffect, TrackerOthers

LEMMA ErrorTracker ==
  ASSUME CoreInv, UNCHANGED << relayVars, limited >>, NEW t \in Tab, NEW x \in limited,
         R!HandleError(t, x)
  PROVE  TrackerInv'
<1>1. R!TypeOK /\ R!RetryArmed /\ Knows(t) /\ x \in Tx
  BY DEF CoreInv, TrackerInv, RelayInv
<1>2. UNCHANGED << pending, seq, ackSeq, stopped, durable, dropped >>
  BY DEF R!HandleError
<1>3. /\ timer'[t] = timer[t] \/ (x \in pending[t] /\ timer'[t] = timer[t] \cup {x})
      /\ \A u \in Tab \ {t} : timer'[u] = timer[u]
      /\ timer' \in [Tab -> SUBSET Tx]
  BY <1>1 DEF R!HandleError, R!Arm, R!TypeOK
<1>4. R!TypeOK' /\ Knows(t)'
  BY <1>1, <1>2, <1>3 DEF R!TypeOK, Knows, relayVars
<1> QED BY <1>1, <1>2, <1>3, <1>4, TrackerOthers DEF R!RetryArmed

LEMMA RetryTracker ==
  ASSUME CoreInv, UNCHANGED << relayVars, limited >>, NEW t \in Tab, NEW x \in Tx, R!Retry(t, x)
  PROVE  TrackerInv'
<1>1. R!TypeOK /\ R!RetryArmed /\ Knows(t)
  BY DEF CoreInv, TrackerInv
<1>2. UNCHANGED << pending, seq, ackSeq, stopped, durable, dropped >>
  BY DEF R!Retry
<1>3. /\ timer'[t] = timer[t] \/ (seq[t][x] = 0 /\ timer'[t] = timer[t] \ {x})
      /\ \A u \in Tab \ {t} : timer'[u] = timer[u]
      /\ timer' \in [Tab -> SUBSET Tx]
  BY <1>1 DEF R!Retry, R!TypeOK
<1>4. R!TypeOK' /\ Knows(t)'
  BY <1>1, <1>2, <1>3 DEF R!TypeOK, Knows, relayVars
<1> QED BY <1>1, <1>2, <1>3, <1>4, TrackerOthers DEF R!RetryArmed

LEMMA StopTracker ==
  ASSUME CoreInv, UNCHANGED << relayVars, limited >>, NEW t \in Tab, R!StopTracking(t)
  PROVE  TrackerInv'
<1>1. R!TypeOK /\ R!RetryArmed /\ Knows(t)
  BY DEF CoreInv, TrackerInv
<1>2. /\ R!Forget(t, pending[t]) /\ UNCHANGED << ackSeq, durable, dropped >>
      /\ stopped' = [stopped EXCEPT ![t] = TRUE]
  BY DEF R!StopTracking
<1>3. R!TypeOK'
  BY <1>1, <1>2, ForgetEffect DEF R!TypeOK
<1>4. Knows(t)'
  BY <1>1, <1>2, ForgetEffect DEF Knows, relayVars, R!RetryArmed
<1>5. \A u \in Tab \ {t} : stopped'[u] = stopped[u]
  BY <1>1, <1>2 DEF R!TypeOK
<1>6. pending'[t] = {} /\ timer'[t] = {}
  BY <1>1, <1>2, ForgetEffect DEF R!RetryArmed
<1> QED BY <1>1, <1>2, <1>3, <1>4, <1>5, <1>6, ForgetEffect, TrackerOthers

(***************************************************************************)
(* Every step preserves the core invariant.                                *)
(***************************************************************************)

LEMMA CoreInit == Init => CoreInv
<1> SUFFICES ASSUME Init PROVE CoreInv
  OBVIOUS
<1>1. RelayInv
  <2>1. {x \in Tx : number[x] # 0} = {}
    BY DEF Init
  <2>2. Cardinality({x \in Tx : number[x] # 0}) = 0
    BY <2>1, FS_EmptySet
  <2> QED BY <2>2 DEF Init, RelayInv
<1>2. LinkInv
  BY DEF Init, LinkInv
<1>3. TabInv
  BY MultiplayerAssumption DEF Init, TabInv
<1>4. TrackerInv
  BY DEF Init, R!Init, TrackerInv, R!TypeOK, R!RetryArmed, Knows, RelayInv
<1> QED BY <1>1, <1>2, <1>3, <1>4 DEF CoreInv

\* A step of a tab leaves the relay alone.
LEMMA TruthSame ==
  ASSUME CoreInv, UNCHANGED << relayVars, limited >>
  PROVE  RelayInv' /\ RelayGrows /\ TrueMessage' = TrueMessage
<1>1. Message' = Message /\ \A m : IsTrue(m)' <=> IsTrue(m)
  BY DEF Message, IsTrue, relayVars
<1> QED BY <1>1, RelaySame DEF TrueMessage

LEMMA CoreEdit ==
  ASSUME CoreInv, NEW t \in Tab, Edit(t)
  PROVE  CoreInv'
<1> DEFINE x == Len(author) + 1
<1>1. x \in Tx /\ UNCHANGED << relayVars, limited >>
  BY DEF Edit
<1>2. TrackerInv'
  BY <1>1, TrackTracker DEF Edit
<1>3. LinkInv'
  <2>1. UNCHANGED up \/ Send(t, x)
    BY DEF Edit
  <2>2. up' \in [Tab -> Seq(Tx)]
    <3>1. up \in [Tab -> Seq(Tx)]
      BY DEF CoreInv, LinkInv
    <3>2. Append(up[t], x) \in Seq(Tx)
      BY <1>1, <3>1
    <3> QED BY <2>1, <3>1, <3>2 DEF Send
  <2> QED BY <1>1, <2>2, TruthSame DEF Edit, CoreInv, LinkInv
<1>4. TabInv'
  <2>1. author' \in Seq(Tab) /\ Len(author') = x
    BY DEF Edit, CoreInv, TabInv
  <2>2. x <= MaxEdits
    BY <1>1, MultiplayerAssumption DEF Tx
  <2>3. status' \in [Tab -> {"idle", "syncing"}] /\ edited' \in [Tab -> SUBSET Tx] /\ offline' \subseteq Tx
    BY <1>1 DEF Edit, UpdateUnsaved, CoreInv, TabInv
  <2> QED BY <2>1, <2>2, <2>3 DEF Edit, CoreInv, TabInv
<1> QED BY <1>1, <1>2, <1>3, <1>4, TruthSame DEF CoreInv

LEMMA CoreOpen ==
  ASSUME CoreInv, NEW t \in Tab, Open(t)
  PROVE  CoreInv'
<1>1. UNCHANGED << relayVars, limited >>
  BY DEF Open, history
<1>2. TrackerInv'
  BY <1>1, TruthSame, TrackerSame DEF Open
<1>3. LinkInv'
  <2>1. Resend(t) \in Seq(Tx)
    BY ResendIsSorted DEF CoreInv, TrackerInv, R!TypeOK
  <2>2. up[t] \o Resend(t) \in Seq(Tx)
    BY <2>1 DEF CoreInv, LinkInv
  <2> QED BY <1>1, <2>2, TruthSame DEF Open, CoreInv, LinkInv
<1>4. TabInv'
  BY DEF Open, tabVars, history, CoreInv, TabInv
<1> QED BY <1>1, <1>2, <1>3, <1>4, TruthSame DEF CoreInv

LEMMA CoreDrop ==
  ASSUME CoreInv, NEW t \in Tab, Drop(t)
  PROVE  CoreInv'
<1>1. UNCHANGED << relayVars, limited >>
  BY DEF Drop, history
<1>2. TrackerInv'
  BY <1>1, TruthSame, TrackerSame DEF Drop
<1>3. LinkInv'
  BY <1>1, TruthSame DEF Drop, CoreInv, LinkInv
<1>4. TabInv'
  BY DEF Drop, Fault, tabVars, history, CoreInv, TabInv
<1> QED BY <1>1, <1>2, <1>3, <1>4, TruthSame DEF CoreInv

LEMMA CoreRetry ==
  ASSUME CoreInv, NEW t \in Tab, NEW x \in Tx, Retry(t, x)
  PROVE  CoreInv'
<1>1. UNCHANGED << relayVars, limited >>
  BY DEF Retry, history
<1>2. TrackerInv'
  BY <1>1, RetryTracker DEF Retry
<1>3. LinkInv'
  BY <1>1, TruthSame DEF Retry, Send, CoreInv, LinkInv
<1>4. TabInv'
  BY DEF Retry, tabVars, history, CoreInv, TabInv
<1> QED BY <1>1, <1>2, <1>3, <1>4, TruthSame DEF CoreInv

\* The first message that is under way to a tab.
LEMMA HeadOfDown ==
  ASSUME CoreInv, NEW t \in Tab, down[t] # << >>
  PROVE  /\ Head(down[t]) \in Message /\ IsTrue(Head(down[t]))
         /\ Tail(down[t]) \in Seq(TrueMessage)
BY DEF CoreInv, LinkInv, TrueMessage

\* What a message makes a tracker do, and what is known of the message then.
LEMMA ReceiveCases ==
  ASSUME CoreInv, NEW t \in Tab, Receive(t)
  PROVE  LET m == Head(down[t])
         IN \/ /\ m.tx \in pending[t] /\ number[m.tx] # 0
               /\ R!Sequenced(t, m.tx, number[m.tx])
               /\ m.type \in {"broadcast", "settled"}
            \/ m.type = "ack" /\ m.tx = 0 /\ m.seq \in Nat /\ m.seq <= settled /\ R!HandleAck(t, m.seq)
            \/ /\ m.tx \in pending[t] /\ fate[m.tx] \in {"refused", "lost"}
               /\ R!HandleRefused(t, m.tx) /\ m.type = "refused"
            \/ m.tx \in limited /\ R!HandleError(t, m.tx) /\ m.type = "error"
            \/ m.tx = 0 /\ R!StopTracking(t) /\ m.type = "reload"
            \/ m.tx \in Tx \ pending[t] /\ UNCHANGED trackerVars
                  /\ m.type \in {"broadcast", "settled", "refused"}
<1> DEFINE m == Head(down[t])
<1>1. m \in Message /\ IsTrue(m)
  BY HeadOfDown DEF Receive
<1>2. \/ m.type = "broadcast" /\ R!HandleBroadcast(t, m.tx, m.seq)
      \/ m.type = "ack"       /\ R!HandleAck(t, m.seq)
      \/ m.type = "settled"   /\ R!HandleSettled(t, m.tx, m.seq)
      \/ m.type = "refused"   /\ R!HandleRefused(t, m.tx)
      \/ m.type = "error"     /\ R!HandleError(t, m.tx)
      \/ m.type = "reload"    /\ R!StopTracking(t)
  BY DEF Receive
<1> HIDE DEF m
<1>3. CASE m.type \in {"broadcast", "settled"}
  <2>1. m.tx \in Tx /\ m.seq = number[m.tx] /\ number[m.tx] # 0
    BY <1>1, <1>3 DEF IsTrue
  <2>2. IF m.tx \in pending[t] THEN R!Sequenced(t, m.tx, number[m.tx]) ELSE UNCHANGED trackerVars
    BY <1>2, <1>3, <2>1 DEF R!HandleBroadcast, R!HandleSettled, R!trackerVars, trackerVars
  <2> QED BY <1>3, <2>1, <2>2 DEF m
<1>4. CASE m.type = "ack"
  BY <1>1, <1>2, <1>4 DEF IsTrue, Message, m
<1>5. CASE m.type = "refused"
  <2>1. m.tx \in Tx /\ fate[m.tx] \in {"refused", "lost"} /\ R!HandleRefused(t, m.tx)
    BY <1>1, <1>2, <1>5 DEF IsTrue
  <2>2. m.tx \notin pending[t] => UNCHANGED trackerVars
    BY <2>1 DEF R!HandleRefused, trackerVars
  <2> QED BY <1>5, <2>1, <2>2 DEF m
<1>6. CASE m.type = "error"
  BY <1>1, <1>2, <1>6 DEF IsTrue, m
<1>7. CASE m.type = "reload"
  BY <1>1, <1>2, <1>7 DEF IsTrue, m
<1> QED BY <1>2, <1>3, <1>4, <1>5, <1>6, <1>7

LEMMA CoreReceive ==
  ASSUME CoreInv, NEW t \in Tab, Receive(t)
  PROVE  CoreInv'
<1> DEFINE m == Head(down[t])
<1>1. UNCHANGED << relayVars, limited >>
  BY DEF Receive, history
<1>2. TrackerInv'
  <2> HIDE DEF m
  <2>1. \/ m.tx \in pending[t] /\ number[m.tx] # 0 /\ R!Sequenced(t, m.tx, number[m.tx])
        \/ m.seq \in Nat /\ m.seq <= settled /\ R!HandleAck(t, m.seq)
        \/ m.tx \in pending[t] /\ R!HandleRefused(t, m.tx)
        \/ m.tx \in limited /\ R!HandleError(t, m.tx)
        \/ R!StopTracking(t)
        \/ UNCHANGED trackerVars
    BY ReceiveCases DEF m
  <2>2. CASE m.tx \in pending[t] /\ number[m.tx] # 0 /\ R!Sequenced(t, m.tx, number[m.tx])
    BY <1>1, <2>2, SequencedTracker
  <2>3. CASE m.seq \in Nat /\ m.seq <= settled /\ R!HandleAck(t, m.seq)
    BY <1>1, <2>3, AckTracker
  <2>4. CASE m.tx \in pending[t] /\ R!HandleRefused(t, m.tx)
    BY <1>1, <2>4, RefusedTracker
  <2>5. CASE m.tx \in limited /\ R!HandleError(t, m.tx)
    BY <1>1, <2>5, ErrorTracker
  <2>6. CASE R!StopTracking(t)
    BY <1>1, <2>6, StopTracker
  <2>7. CASE UNCHANGED trackerVars
    BY <1>1, <2>7, TruthSame, TrackerSame
  <2> QED BY <2>1, <2>2, <2>3, <2>4, <2>5, <2>6, <2>7
<1>3. LinkInv'
  BY <1>1, HeadOfDown, TruthSame DEF Receive, CoreInv, LinkInv
<1>4. TabInv'
  BY DEF Receive, UpdateUnsaved, history, CoreInv, TabInv
<1> QED BY <1>1, <1>2, <1>3, <1>4, TruthSame DEF CoreInv

LEMMA CoreReloaded ==
  ASSUME CoreInv, NEW t \in Tab, FinishReload(t) \/ FailReload(t)
  PROVE  CoreInv'
<1>1. UNCHANGED << relayVars, limited, trackerVars >>
  BY DEF FinishReload, FailReload, history
<1>2. TrackerInv'
  BY <1>1, TruthSame, TrackerSame
<1>3. LinkInv'
  BY <1>1, TruthSame DEF FinishReload, FailReload, CoreInv, LinkInv
<1>4. TabInv'
  <2>1. edited' \in [Tab -> SUBSET Tx] /\ reloading' \in [Tab -> BOOLEAN]
    BY DEF FinishReload, FailReload, CoreInv, TabInv
  <2>2. UNCHANGED << status, author, offline >> /\ faults' \in Nat
    BY DEF FinishReload, FailReload, Fault, history, CoreInv, TabInv
  <2> QED BY <2>1, <2>2 DEF CoreInv, TabInv
<1> QED BY <1>1, <1>2, <1>3, <1>4, TruthSame DEF CoreInv

LEMMA CoreClose ==
  ASSUME CoreInv, NEW t \in Tab, Close(t)
  PROVE  CoreInv'
<1>1. UNCHANGED << relayVars, limited >>
  BY DEF Close, history
<1>2. TrackerInv'
  BY <1>1, StopTracker DEF Close
<1>3. LinkInv'
  BY <1>1, TruthSame DEF Close, CoreInv, LinkInv
<1>4. TabInv'
  <2>1. /\ status' \in [Tab -> {"idle", "syncing"}]
        /\ edited' \in [Tab -> SUBSET Tx] /\ reloading' \in [Tab -> BOOLEAN]
    BY DEF Close, UpdateUnsaved, CoreInv, TabInv
  <2>2. UNCHANGED << author, offline >> /\ faults' \in Nat
    BY DEF Close, Fault, history, CoreInv, TabInv
  <2> QED BY <2>1, <2>2 DEF CoreInv, TabInv
<1> QED BY <1>1, <1>2, <1>3, <1>4, TruthSame DEF CoreInv

LEMMA CoreRelay ==
  ASSUME CoreInv,
         \/ \E t \in Tab : RelayAccept(t) \/ RelayRefuse(t) \/ RelayLimit(t) \/ RelayRepeat(t)
         \/ \E x \in Tx : RelaySave(x)
         \/ RelayReload
  PROVE  CoreInv' /\ RelayGrows
<1>1. RelayInv' /\ RelayGrows
  BY RelayAcceptBooks, RelayRefuseBooks, RelayLimitBooks, RelaySaveBooks, RelayReloadBooks,
     RelaySame DEF RelayRepeat, history
<1>2. LinkInv'
  BY LinkAccept, LinkRefuse, LinkLimit, LinkRepeat, LinkSave, LinkReload
<1>3. UNCHANGED << trackerVars, tabVars, author, offline >> /\ faults' \in Nat
  <2>1. ASSUME NEW t \in Tab, RelayAccept(t) \/ RelayRefuse(t) \/ RelayLimit(t) \/ RelayRepeat(t)
        PROVE  UNCHANGED << trackerVars, tabVars, author, offline >> /\ (UNCHANGED faults \/ Fault)
    BY <2>1 DEF RelayAccept, RelayRefuse, RelayLimit, RelayRepeat, history
  <2>2. ASSUME NEW x \in Tx, RelaySave(x)
        PROVE  UNCHANGED << trackerVars, tabVars, author, offline >> /\ (UNCHANGED faults \/ Fault)
    BY <2>2 DEF RelaySave, history
  <2>3. ASSUME RelayReload
        PROVE  UNCHANGED << trackerVars, tabVars, author, offline >> /\ (UNCHANGED faults \/ Fault)
    BY <2>3 DEF RelayReload, history
  <2>4. UNCHANGED faults \/ Fault => faults' \in Nat
    BY DEF Fault, CoreInv, TabInv
  <2> QED BY <2>1, <2>2, <2>3, <2>4
<1>4. TrackerInv'
  BY <1>1, <1>3, TrackerSame
<1>5. TabInv'
  BY <1>3 DEF tabVars, CoreInv, TabInv
<1> QED BY <1>1, <1>2, <1>4, <1>5 DEF CoreInv

LEMMA CoreStep == CoreInv /\ [Next]_vars => CoreInv' /\ RelayGrows
<1> SUFFICES ASSUME CoreInv, [Next]_vars PROVE CoreInv' /\ RelayGrows
  OBVIOUS
<1>1. ASSUME NEW t \in Tab, Edit(t) PROVE CoreInv' /\ RelayGrows
  BY <1>1, CoreEdit, TruthSame DEF Edit
<1>2. ASSUME NEW t \in Tab, Open(t) \/ Drop(t) \/ Receive(t) \/ Close(t)
      PROVE  CoreInv' /\ RelayGrows
  BY <1>2, CoreOpen, CoreDrop, CoreReceive, CoreClose, TruthSame
     DEF Open, Drop, Receive, Close, history
<1>3. ASSUME NEW t \in Tab, FinishReload(t) \/ FailReload(t)
      PROVE  CoreInv' /\ RelayGrows
  BY <1>3, CoreReloaded, TruthSame DEF FinishReload, FailReload, history
<1>4. ASSUME NEW t \in Tab, NEW x \in Tx, Retry(t, x) PROVE CoreInv' /\ RelayGrows
  BY <1>4, CoreRetry, TruthSame DEF Retry, history
<1>5. CASE UNCHANGED vars
  <2>1. UNCHANGED << relayVars, limited, trackerVars, tabVars, socket, up, down, author, offline, faults >>
    BY <1>5 DEF vars, history
  <2>2. TrackerInv'
    BY <2>1, TruthSame, TrackerSame
  <2> QED BY <2>1, <2>2, TruthSame DEF CoreInv, LinkInv, TabInv, tabVars
<1> QED BY <1>1, <1>2, <1>3, <1>4, <1>5, CoreRelay DEF Next

(***************************************************************************)
(* The books of the tabs.                                                  *)
(***************************************************************************)

\* An edit with a number that has been acknowledged is decided.
LEMMA AckedIsSettled ==
  ASSUME RelayInv, NEW x \in Tx, number[x] # 0, number[x] <= settled
  PROVE  Settled(x)
<1>1. fate[x] # "new" /\ number[x] \in Nat /\ settled \in Nat
  BY DEF RelayInv
<1>2. fate[x] # "sequenced"
  BY <1>1 DEF RelayInv
<1> QED BY <1>1, <1>2 DEF RelayInv, Settled

LEMMA SettledLasts ==
  ASSUME RelayGrows, NEW x \in Tx
  PROVE  /\ Settled(x) => Settled(x)'
         /\ fate[x] \in {"refused", "lost"} => fate'[x] \in {"refused", "lost"}
BY DEF RelayGrows, Settled

\* What a message changes: what leaves the pending edits of a tab that goes
\* on is decided, and reported.
LEMMA ReceiveEffect ==
  ASSUME CoreInv, NEW t \in Tab, Receive(t)
  PROVE  /\ pending'[t] \subseteq pending[t]
         /\ ~stopped'[t] => ~stopped[t] /\ \A x \in pending[t] \ pending'[t] : Settled(x)
         /\ \A x \in durable'[t] \ durable[t] : x \in pending[t] /\ Settled(x)
         /\ \A x \in dropped'[t] \ dropped[t] : x \in pending[t] /\ fate[x] \in {"refused", "lost"}
         /\ \A u \in Tab \ {t} : UNCHANGED << pending[u], stopped[u], durable[u], dropped[u] >>
<1> DEFINE m == Head(down[t])
<1>1. R!TypeOK /\ RelayInv /\ Knows(t) /\ UNCHANGED relayVars
  BY DEF CoreInv, TrackerInv, Receive
<1>2. pending[t] \in SUBSET Tx /\ ackSeq[t] \in Nat /\ settled \in Nat /\ ackSeq[t] <= settled
  BY <1>1 DEF R!TypeOK, RelayInv, Knows
<1> HIDE DEF m
<1>3. \/ m.tx \in pending[t] /\ number[m.tx] # 0 /\ R!Sequenced(t, m.tx, number[m.tx])
      \/ m.seq \in Nat /\ m.seq <= settled /\ R!HandleAck(t, m.seq)
      \/ m.tx \in pending[t] /\ fate[m.tx] \in {"refused", "lost"} /\ R!HandleRefused(t, m.tx)
      \/ R!HandleError(t, m.tx)
      \/ R!StopTracking(t)
      \/ UNCHANGED trackerVars
  BY ReceiveCases DEF m
<1>4. CASE m.tx \in pending[t] /\ number[m.tx] # 0 /\ R!Sequenced(t, m.tx, number[m.tx])
  <2>1. CASE ackSeq[t] >= number[m.tx]
    <3>1. /\ R!Forget(t, {m.tx}) /\ UNCHANGED << stopped, dropped >>
          /\ durable' = [durable EXCEPT ![t] = @ \cup {m.tx}]
      BY <1>4, <2>1 DEF R!Sequenced
    <3>2. Settled(m.tx)
      <4>1. number[m.tx] \in Nat /\ number[m.tx] <= settled
        BY <1>1, <1>2, <1>4, <2>1 DEF RelayInv
      <4> QED BY <1>1, <1>2, <1>4, <4>1, AckedIsSettled
    <3> QED BY <1>1, <1>4, <3>1, <3>2, ForgetEffect DEF R!TypeOK
  <2>2. CASE ~(ackSeq[t] >= number[m.tx])
    BY <1>4, <2>2 DEF R!Sequenced
  <2> QED BY <2>1, <2>2
<1>5. CASE m.seq \in Nat /\ m.seq <= settled /\ R!HandleAck(t, m.seq)
  <2> DEFINE done == R!Acked(t, ackSeq'[t])
  <2>1. /\ R!Forget(t, done) /\ UNCHANGED << stopped, dropped >>
        /\ durable' = [durable EXCEPT ![t] = @ \cup done]
        /\ ackSeq' = [ackSeq EXCEPT ![t] = IF m.seq >= @ THEN m.seq ELSE @]
    BY <1>5 DEF R!HandleAck
  <2>2. ackSeq'[t] \in Nat /\ ackSeq'[t] <= settled
    BY <1>1, <1>2, <1>5, <2>1 DEF R!TypeOK
  <2>3. ASSUME NEW x \in done PROVE x \in pending[t] /\ Settled(x)
    <3>1. x \in pending[t] /\ x \in Tx /\ seq[t][x] # 0 /\ ackSeq'[t] >= seq[t][x]
      BY <1>2 DEF R!Acked
    <3>2. number[x] # 0 /\ number[x] \in Nat /\ number[x] <= settled
      BY <1>1, <1>2, <2>2, <3>1 DEF Knows, RelayInv
    <3> QED BY <1>1, <3>1, <3>2, AckedIsSettled
  <2> HIDE DEF done
  <2> QED BY <1>1, <2>1, <2>3, ForgetEffect DEF R!TypeOK
<1>6. CASE m.tx \in pending[t] /\ fate[m.tx] \in {"refused", "lost"} /\ R!HandleRefused(t, m.tx)
  <2>1. /\ R!Forget(t, {m.tx}) /\ UNCHANGED << stopped, durable >>
        /\ dropped' = [dropped EXCEPT ![t] = @ \cup {m.tx}]
    BY <1>6 DEF R!HandleRefused
  <2> QED BY <1>1, <1>6, <2>1, ForgetEffect DEF R!TypeOK, Settled
<1>7. CASE R!HandleError(t, m.tx)
  BY <1>7 DEF R!HandleError
<1>8. CASE R!StopTracking(t)
  <2>1. /\ R!Forget(t, pending[t]) /\ UNCHANGED << durable, dropped >>
        /\ stopped' = [stopped EXCEPT ![t] = TRUE]
    BY <1>8 DEF R!StopTracking
  <2> QED BY <1>1, <2>1, ForgetEffect DEF R!TypeOK
<1>9. CASE UNCHANGED trackerVars
  BY <1>9 DEF trackerVars
<1> QED BY <1>3, <1>4, <1>5, <1>6, <1>7, <1>8, <1>9

LEMMA MineType ==
  ASSUME TabInv
  PROVE  /\ \A t \in Tab : Mine(t) \subseteq Tx
         /\ UNCHANGED author => \A t \in Tab : Mine(t)' = Mine(t)
<1>1. 1 .. Len(author) \subseteq Tx
  BY MultiplayerAssumption DEF TabInv, Tx
<1> QED BY <1>1 DEF Mine

\* The books of a tab whose tracker does nothing.
LEMMA BooksSame ==
  ASSUME CoreInv, RelayGrows, NEW u \in Tab, Books(u),
         UNCHANGED << pending[u], durable[u], dropped[u], stopped[u], status[u], author >>,
         edited'[u] \subseteq edited[u], ToSet(up'[u]) \subseteq ToSet(up[u]) \cup pending[u]
  PROVE  Books(u)'
<1>1. Mine(u)' = Mine(u) /\ Mine(u) \subseteq Tx
  BY MineType DEF CoreInv
<1>2. ToSet(up[u])' = ToSet(up'[u])
  BY DEF ToSet
<1>3. durable[u] \subseteq Tx /\ dropped[u] \subseteq Tx
  BY DEF CoreInv, TrackerInv, R!TypeOK
<1> QED BY <1>1, <1>2, <1>3, SettledLasts DEF Books

LEMMA BooksInit == Init => BooksInv
BY DEF Init, R!Init, BooksInv, Books, Mine, ToSet

LEMMA BooksEdit ==
  ASSUME CoreInv, BooksInv, NEW t \in Tab, Edit(t)
  PROVE  BooksInv'
<1> DEFINE x == Len(author) + 1
<1>1. /\ x \in Tx /\ author \in Seq(Tab) /\ Len(author) \in Nat
      /\ author' = Append(author, t) /\ R!Track(t, x) /\ UNCHANGED << relayVars, limited >>
  BY DEF Edit, CoreInv, TabInv
<1>2. /\ x \in Mine(t)' /\ Mine(t)' \subseteq Mine(t) \cup {x}
      /\ \A u \in Tab : Mine(u) \subseteq Mine(u)'
      /\ \A u \in Tab \ {t} : Mine(u)' \subseteq Mine(u)
  <2>1. /\ Len(author') = Len(author) + 1 /\ author'[Len(author) + 1] = t
        /\ \A i \in 1 .. Len(author) : author'[i] = author[i]
    BY <1>1
  <2> QED BY <1>1, <2>1 DEF Mine
<1>3. \A y : Settled(y)' <=> Settled(y)
  BY <1>1 DEF Settled, relayVars
<1> HIDE DEF x
<1>4. /\ pending'[t] = IF stopped[t] THEN pending[t] ELSE pending[t] \cup {x}
      /\ \A u \in Tab \ {t} : pending'[u] = pending[u]
      /\ UNCHANGED << durable, dropped, stopped, fate >>
  BY <1>1 DEF R!Track, CoreInv, TrackerInv, R!TypeOK, relayVars
<1>5. /\ edited'[t] = edited[t] \cup {x} /\ \A u \in Tab \ {t} : edited'[u] = edited[u]
      /\ status'[t] = (IF pending'[t] = {} THEN "idle" ELSE "syncing")
      /\ \A u \in Tab \ {t} : status'[u] = status[u]
  BY DEF Edit, UpdateUnsaved, CoreInv, TabInv, x
<1>6. ToSet(up'[t]) \subseteq ToSet(up[t]) \cup {x} /\ \A u \in Tab \ {t} : up'[u] = up[u]
  <2>1. up' = up \/ up' = [up EXCEPT ![t] = Append(up[t], x)]
    BY DEF Edit, Send, x
  <2>2. up \in [Tab -> Seq(Tx)]
    BY DEF CoreInv, LinkInv
  <2>3. ToSet(Append(up[t], x)) \subseteq ToSet(up[t]) \cup {x}
    BY <1>1, <2>2 DEF ToSet
  <2> QED BY <2>1, <2>2, <2>3
<1>7. Books(t)'
  <2>1. Books(t)
    BY DEF BooksInv
  <2>2. /\ status'[t] = "idle" => pending'[t] = {}
        /\ pending'[t] \cup durable'[t] \cup dropped'[t] \cup edited'[t] \cup ToSet(up'[t]) \subseteq Mine(t)'
    BY <1>2, <1>4, <1>5, <1>6, <2>1 DEF Books
  <2>3. /\ \A y \in durable'[t] : Settled(y)'
        /\ \A y \in dropped'[t] : fate'[y] \in {"refused", "lost"}
        /\ ~stopped'[t] => \A y \in Mine(t)' : y \in pending'[t] \/ Settled(y)'
    BY <1>2, <1>3, <1>4, <2>1 DEF Books
  <2>4. ToSet(up[t])' = ToSet(up'[t])
    BY DEF ToSet
  <2> QED BY <2>2, <2>3, <2>4 DEF Books
<1>8. ASSUME NEW u \in Tab \ {t} PROVE Books(u)'
  <2>1. Books(u) /\ Mine(u)' = Mine(u) /\ ToSet(up[u])' = ToSet(up'[u])
    BY <1>2 DEF BooksInv, ToSet
  <2> QED BY <1>3, <1>4, <1>5, <1>6, <2>1 DEF Books
<1> QED BY <1>7, <1>8 DEF BooksInv

LEMMA BooksReceive ==
  ASSUME CoreInv, BooksInv, NEW t \in Tab, Receive(t)
  PROVE  BooksInv'
<1>1. UNCHANGED << relayVars, limited, up, edited, author >> /\ UNCHANGED fate
  BY DEF Receive, history, relayVars
<1>2. /\ \A y : Settled(y)' <=> Settled(y)
      /\ \A u \in Tab : Mine(u)' = Mine(u) /\ ToSet(up[u])' = ToSet(up[u])
  BY <1>1 DEF Settled, Mine, ToSet
<1>3. /\ status'[t] = (IF pending'[t] = {} THEN "idle" ELSE "syncing")
      /\ \A u \in Tab \ {t} : status'[u] = status[u]
  BY DEF Receive, UpdateUnsaved, CoreInv, TabInv
<1>4. Books(t)'
  BY <1>1, <1>2, <1>3, ReceiveEffect DEF BooksInv, Books
<1>5. ASSUME NEW u \in Tab \ {t} PROVE Books(u)'
  BY <1>1, <1>2, <1>3, ReceiveEffect DEF BooksInv, Books
<1> QED BY <1>4, <1>5 DEF BooksInv

LEMMA BooksClose ==
  ASSUME CoreInv, BooksInv, NEW t \in Tab, Close(t)
  PROVE  BooksInv'
<1>1. RelayGrows
  BY TruthSame DEF Close, history
<1>2. /\ R!Forget(t, pending[t]) /\ UNCHANGED << durable, dropped, author, fate >>
      /\ stopped' = [stopped EXCEPT ![t] = TRUE]
  BY DEF Close, R!StopTracking, relayVars
<1>3. pending'[t] = {} /\ stopped'[t] /\ edited'[t] = {} /\ up'[t] = << >>
  BY <1>2, ForgetEffect DEF Close, CoreInv, TrackerInv, R!TypeOK, TabInv, LinkInv
<1>4. Books(t)'
  <2>1. /\ Mine(t)' = Mine(t) /\ ToSet(up[t])' = {}
        /\ \A y : Settled(y)' <=> Settled(y)
    BY <1>2, <1>3 DEF Mine, ToSet, Settled
  <2> QED BY <1>2, <1>3, <2>1 DEF BooksInv, Books
<1>5. ASSUME NEW u \in Tab \ {t} PROVE Books(u)'
  <2>1. UNCHANGED << pending[u], durable[u], dropped[u], stopped[u], author >>
    BY <1>2, ForgetEffect DEF CoreInv, TrackerInv, R!TypeOK
  <2>2. status'[u] = status[u] /\ edited'[u] = edited[u] /\ up'[u] = up[u]
    BY DEF Close, UpdateUnsaved, CoreInv, TabInv, LinkInv
  <2> QED BY <1>1, <2>1, <2>2, BooksSame DEF BooksInv
<1> QED BY <1>4, <1>5 DEF BooksInv

LEMMA ToSetConcat ==
  ASSUME NEW S, NEW a \in Seq(S), NEW b \in Seq(S)
  PROVE  ToSet(a \o b) = ToSet(a) \cup ToSet(b)
<1>1. /\ Len(a) \in Nat /\ Len(b) \in Nat
      /\ DOMAIN a = 1 .. Len(a) /\ DOMAIN b = 1 .. Len(b)
      /\ DOMAIN (a \o b) = 1 .. Len(a) + Len(b)
  BY ConcatProperties
<1>2. \A i \in 1 .. Len(a) : (a \o b)[i] = a[i]
  BY <1>1, ConcatProperties
<1>3. \A i \in 1 .. Len(b) : (a \o b)[Len(a) + i] = b[i] /\ Len(a) + i \in DOMAIN (a \o b)
  BY <1>1, ConcatProperties
<1>4. \A i \in DOMAIN (a \o b) :
        \/ i \in 1 .. Len(a)
        \/ i - Len(a) \in 1 .. Len(b) /\ i = Len(a) + (i - Len(a))
  BY <1>1
<1>5. ToSet(a \o b) \subseteq ToSet(a) \cup ToSet(b)
  BY <1>1, <1>2, <1>3, <1>4 DEF ToSet
<1>6. ToSet(a) \subseteq ToSet(a \o b)
  <2>1. 1 .. Len(a) \subseteq DOMAIN (a \o b)
    BY <1>1
  <2> QED BY <1>1, <1>2, <2>1 DEF ToSet
<1>7. ToSet(b) \subseteq ToSet(a \o b)
  BY <1>1, <1>3 DEF ToSet
<1> QED BY <1>5, <1>6, <1>7

\* Steps that at most send again what is pending, or lose what was sent.
LEMMA BooksOther ==
  ASSUME CoreInv, BooksInv, RelayGrows,
         UNCHANGED << pending, durable, dropped, stopped, status, author >>,
         \A u \in Tab : edited'[u] \subseteq edited[u],
         \A u \in Tab : ToSet(up'[u]) \subseteq ToSet(up[u]) \cup pending[u]
  PROVE  BooksInv'
BY BooksSame DEF BooksInv

LEMMA BooksStep == CoreInv /\ BooksInv /\ [Next]_vars => BooksInv'
<1> SUFFICES ASSUME CoreInv, BooksInv, [Next]_vars PROVE BooksInv'
  OBVIOUS
<1>1. RelayGrows
  BY CoreStep
<1>2. up \in [Tab -> Seq(Tx)] /\ edited \in [Tab -> SUBSET Tx]
  BY DEF CoreInv, LinkInv, TabInv
<1>3. ASSUME NEW t \in Tab, Edit(t) \/ Receive(t) \/ Close(t) PROVE BooksInv'
  BY <1>3, BooksEdit, BooksReceive, BooksClose
<1>4. ASSUME NEW t \in Tab, Open(t) PROVE BooksInv'
  <2>1. pending[t] \in SUBSET Tx
    BY DEF CoreInv, TrackerInv, R!TypeOK
  <2>2. ToSet(up[t] \o Resend(t)) = ToSet(up[t]) \cup pending[t]
    <3>1. ToSet(Resend(t)) = pending[t] /\ Resend(t) \in Seq(Tx) /\ up[t] \in Seq(Tx)
      BY <1>2, <2>1, ResendIsSorted
    <3> QED BY <3>1, ToSetConcat
  <2>3. /\ UNCHANGED << pending, durable, dropped, stopped, status, author, edited >>
        /\ up' = [up EXCEPT ![t] = up[t] \o Resend(t)]
    BY <1>4 DEF Open, trackerVars, tabVars
  <2>4. \A u \in Tab : ToSet(up'[u]) \subseteq ToSet(up[u]) \cup pending[u]
    BY <1>2, <2>2, <2>3
  <2> QED BY <1>1, <2>3, <2>4, BooksOther
<1>5. ASSUME NEW t \in Tab, Drop(t) PROVE BooksInv'
  <2>1. \A u \in Tab : ToSet(up'[u]) \subseteq ToSet(up[u])
    BY <1>2, <1>5 DEF Drop, ToSet
  <2> QED BY <1>1, <1>5, <2>1, BooksOther DEF Drop, trackerVars, tabVars
<1>6. ASSUME NEW t \in Tab, NEW x \in Tx, Retry(t, x) PROVE BooksInv'
  <2>1. x \in pending[t] /\ UNCHANGED << pending, durable, dropped, stopped, status, author, edited >>
    BY <1>6 DEF Retry, R!Retry, tabVars, CoreInv, TrackerInv, R!RetryArmed
  <2>2. ToSet(Append(up[t], x)) \subseteq ToSet(up[t]) \cup {x}
    BY <1>2 DEF ToSet
  <2>3. \A u \in Tab : ToSet(up'[u]) \subseteq ToSet(up[u]) \cup pending[u]
    BY <1>2, <1>6, <2>1, <2>2 DEF Retry, Send
  <2> QED BY <1>1, <2>1, <2>3, BooksOther
<1>7. ASSUME NEW t \in Tab, FinishReload(t) \/ FailReload(t) PROVE BooksInv'
  <2>1. UNCHANGED << pending, durable, dropped, stopped, status, author, up >>
    BY <1>7 DEF FinishReload, FailReload, trackerVars
  <2>2. \A u \in Tab : edited'[u] \subseteq edited[u]
    BY <1>2, <1>7 DEF FinishReload, FailReload
  <2> QED BY <1>1, <2>1, <2>2, BooksOther
<1>8. ASSUME NEW t \in Tab, RelayAccept(t) \/ RelayRefuse(t) \/ RelayLimit(t) \/ RelayRepeat(t)
      PROVE  BooksInv'
  <2>1. Take(t) /\ UNCHANGED << trackerVars, tabVars, author >>
    BY <1>8 DEF RelayAccept, RelayRefuse, RelayLimit, RelayRepeat
  <2>2. \A u \in Tab : ToSet(up'[u]) \subseteq ToSet(up[u])
    BY <1>2, <2>1, HeadOfUp DEF Take
  <2> QED BY <1>1, <2>1, <2>2, BooksOther DEF trackerVars, tabVars
<1>9. ASSUME \/ \E x \in Tx : RelaySave(x)
             \/ RelayReload \/ UNCHANGED vars
      PROVE  BooksInv'
  <2>1. UNCHANGED << trackerVars, tabVars, author, up >>
    BY <1>9 DEF RelaySave, RelayReload, vars
  <2> QED BY <1>1, <2>1, BooksOther DEF trackerVars, tabVars
<1> QED BY <1>3, <1>4, <1>5, <1>6, <1>7, <1>8, <1>9 DEF Next

LEMMA Invariants == Spec => [](CoreInv /\ BooksInv)
<1>1. Init => CoreInv /\ BooksInv
  BY CoreInit, BooksInit
<1>2. CoreInv /\ BooksInv /\ [Next]_vars => (CoreInv /\ BooksInv)'
  BY CoreStep, BooksStep
<1> QED BY <1>1, <1>2, PTL DEF Spec

(***************************************************************************)
(* The theorems that follow from the books.                                *)
(***************************************************************************)

LEMMA LastSeqBound == RelayInv => lastSeq <= MaxEdits
<1> SUFFICES ASSUME RelayInv PROVE lastSeq <= MaxEdits
  OBVIOUS
<1>1. IsFiniteSet(Tx) /\ Cardinality(Tx) = MaxEdits
  <2>1. 1 \in Int /\ MaxEdits \in Int
    BY MultiplayerAssumption
  <2> QED BY <2>1, FS_Interval, MultiplayerAssumption DEF Tx
<1>2. {x \in Tx : number[x] # 0} \subseteq Tx
  OBVIOUS
<1> QED BY <1>1, <1>2, FS_Subset DEF RelayInv

LEMMA MessageBound ==
  ASSUME RelayInv, NEW m \in TrueMessage
  PROVE  m \in [type : {"broadcast", "ack", "settled", "refused", "error", "reload"},
                tx : Tx \cup {0}, seq : 0 .. MaxEdits]
<1>1. m \in Message /\ IsTrue(m)
  BY DEF TrueMessage
<1>2. lastSeq \in Nat /\ lastSeq <= MaxEdits /\ MaxEdits \in Nat /\ settled \in 0 .. lastSeq
  BY LastSeqBound, MultiplayerAssumption DEF RelayInv
<1>3. m.tx \in Tx \cup {0}
  BY <1>1 DEF IsTrue, RelayInv
<1>4. m.seq \in Nat
  BY <1>1 DEF Message
<1>5. m.seq <= lastSeq
  <2>1. \/ m.tx \in Tx /\ m.seq = number[m.tx]
        \/ m.seq <= settled
        \/ m.seq = 0
    BY <1>1 DEF IsTrue
  <2>2. m.tx \in Tx => number[m.tx] <= lastSeq
    BY DEF RelayInv
  <2> QED BY <1>2, <1>4, <2>1, <2>2
<1>6. m.seq \in 0 .. MaxEdits
  BY <1>2, <1>4, <1>5
<1> QED BY <1>1, <1>3, <1>6 DEF Message

\* TypeOK holds for every number of tabs and edits: in particular a tracker
\* (createMultiplayerRetryTracker) only ever holds edits of its own tab, and
\* no sequence number is larger than the number of edits.
THEOREM TypeCorrect == Spec => []TypeOK
<1>1. ASSUME CoreInv, BooksInv PROVE TypeOK
  <2>1. R!TypeOK
    BY <1>1 DEF CoreInv, TrackerInv
  <2>2. ASSUME NEW t \in Tab, NEW i \in DOMAIN down[t]
        PROVE  down[t][i] \in [type : {"broadcast", "ack", "settled", "refused", "error", "reload"},
                               tx : Tx \cup {0}, seq : 0 .. MaxEdits]
    <3>1. down[t][i] \in TrueMessage
      BY <1>1 DEF CoreInv, LinkInv
    <3> QED BY <1>1, <3>1, MessageBound DEF CoreInv
  <2>3. ASSUME NEW t \in Tab
        PROVE  pending[t] \cup timer[t] \cup durable[t] \cup dropped[t] \cup edited[t] \subseteq Mine(t)
    BY <1>1 DEF BooksInv, Books, CoreInv, TrackerInv, R!RetryArmed
  <2>4. /\ fate \in [Tx -> {"new", "sequenced", "saved", "refused", "lost"}]
        /\ number \in [Tx -> Nat] /\ settled \in 0 .. lastSeq /\ limited \subseteq Tx
    BY <1>1 DEF CoreInv, RelayInv
  <2>5. /\ socket \in [Tab -> {"connecting", "open", "ended"}] /\ up \in [Tab -> Seq(Tx)]
        /\ status \in [Tab -> {"idle", "syncing"}] /\ reloading \in [Tab -> BOOLEAN]
        /\ author \in Seq(Tab) /\ Len(author) <= MaxEdits /\ offline \subseteq Tx
    BY <1>1 DEF CoreInv, LinkInv, TabInv
  <2> QED BY <2>1, <2>2, <2>3, <2>4, <2>5 DEF TypeOK
<1> QED BY <1>1, Invariants, PTL

\* RetryArmed: once the relay has numbered a pending edit its retry timer is
\* armed (scheduleRetry), only pending edits are ever sent again, and a
\* stopped tracker (handleReload, destroy) sends nothing.
THEOREM RetryArmedCorrect == Spec => []RetryArmed
<1>1. CoreInv => RetryArmed
  BY DEF CoreInv, TrackerInv, RetryArmed
<1> QED BY <1>1, Invariants, PTL

\* ReportsAreTrue: what the tracker reports to onDurable and onDropped is so
\* at the relay, through lost, repeated and late messages.
THEOREM ReportsCorrect == Spec => []ReportsAreTrue
<1>1. BooksInv => ReportsAreTrue
  BY DEF BooksInv, Books, ReportsAreTrue, Settled
<1> QED BY <1>1, Invariants, PTL

\* IdleMeansSettled: a tab that shows "idle" (updateUnsaved) and has not been
\* asked to reload has no edit that is still to be decided.
THEOREM IdleCorrect == Spec => []IdleMeansSettled
<1>1. BooksInv => IdleMeansSettled
  BY DEF BooksInv, Books, IdleMeansSettled
<1> QED BY <1>1, Invariants, PTL

(***************************************************************************)
(* Nothing hangs: what is pending in a connected tab is under way, or its  *)
(* timer is armed.                                                         *)
(***************************************************************************)

\* The edits that the messages in s are about.
About(s) == {s[i].tx : i \in DOMAIN s}

UnderWay(t) == ToSet(up[t]) \cup About(down[t])

Held(t) == socket[t] = "open" => pending[t] \subseteq UnderWay(t) \cup timer[t]

HeldInv == \A t \in Tab : Held(t)

LEMMA SomeIndex ==
  ASSUME NEW S, NEW s \in Seq(S), NEW P, P = {i \in DOMAIN s : i \in P}
  PROVE  Cardinality(P) \in Nat /\ (Cardinality(P) > 0 <=> P # {})
<1>1. 1 \in Int /\ Len(s) \in Int /\ DOMAIN s = 1 .. Len(s)
  OBVIOUS
<1>2. IsFiniteSet(DOMAIN s)
  BY <1>1, FS_Interval
<1>3. P \subseteq DOMAIN s
  OBVIOUS
<1>4. IsFiniteSet(P)
  BY <1>2, <1>3, FS_Subset
<1> QED BY <1>4, FS_CardinalityType, FS_EmptySet

\* What InFlight counts.
LEMMA InFlightIs ==
  ASSUME LinkInv, NEW t \in Tab, NEW x
  PROVE  InFlight(t, x) > 0 <=> x \in UnderWay(t)
<1> DEFINE U == {i \in DOMAIN up[t] : up[t][i] = x}
           D == {i \in DOMAIN down[t] : down[t][i].tx = x}
<1>1. Cardinality(U) \in Nat /\ (Cardinality(U) > 0 <=> U # {})
  <2>1. up[t] \in Seq(Tx) /\ U = {i \in DOMAIN up[t] : i \in U}
    BY DEF LinkInv
  <2> HIDE DEF U
  <2> QED BY <2>1, SomeIndex
<1>2. Cardinality(D) \in Nat /\ (Cardinality(D) > 0 <=> D # {})
  <2>1. down[t] \in Seq(TrueMessage) /\ D = {i \in DOMAIN down[t] : i \in D}
    BY DEF LinkInv
  <2> HIDE DEF D
  <2> QED BY <2>1, SomeIndex
<1>3. InFlight(t, x) = Cardinality(U) + Cardinality(D)
  BY DEF InFlight
<1>4. x \in UnderWay(t) <=> U # {} \/ D # {}
  BY DEF UnderWay, About, ToSet
<1> HIDE DEF U, D
<1> QED BY <1>1, <1>2, <1>3, <1>4

LEMMA AboutConcat ==
  ASSUME NEW S, NEW a \in Seq(S), NEW b \in Seq(S)
  PROVE  About(a \o b) = About(a) \cup About(b)
<1>1. \A s : About(s) = {m.tx : m \in ToSet(s)}
  BY DEF About, ToSet
<1> QED BY <1>1, ToSetConcat

LEMMA AboutAppend ==
  ASSUME NEW S, NEW a \in Seq(S), NEW m
  PROVE  About(a) \subseteq About(Append(a, m)) /\ m.tx \in About(Append(a, m))
<1>1. /\ Len(a) \in Nat /\ DOMAIN a = 1 .. Len(a)
      /\ DOMAIN Append(a, m) = 1 .. Len(a) + 1
      /\ Append(a, m)[Len(a) + 1] = m
      /\ \A i \in 1 .. Len(a) : Append(a, m)[i] = a[i]
  BY AppendProperties
<1> QED BY <1>1 DEF About

LEMMA AboutTail ==
  ASSUME NEW S, NEW s \in Seq(S), s # << >>
  PROVE  About(s) \subseteq About(Tail(s)) \cup {Head(s).tx}
<1>1. /\ Head(s) = s[1] /\ Len(s) \in Nat /\ DOMAIN s = 1 .. Len(s)
      /\ DOMAIN Tail(s) = 1 .. Len(s) - 1
      /\ \A i \in 1 .. Len(s) - 1 : Tail(s)[i] = s[i + 1]
  OBVIOUS
<1>2. ASSUME NEW i \in DOMAIN s, i # 1 PROVE s[i].tx \in About(Tail(s))
  <2>1. i - 1 \in DOMAIN Tail(s) /\ Tail(s)[i - 1] = s[i]
    BY <1>1, <1>2
  <2> QED BY <2>1 DEF About
<1> QED BY <1>1, <1>2 DEF About

LEMMA HeldInit == Init => HeldInv
BY DEF Init, HeldInv, Held

LEMMA HeldSame ==
  ASSUME NEW u \in Tab, Held(u), UNCHANGED << socket[u], pending[u], timer[u] >>,
         UnderWay(u) \subseteq UnderWay(u)'
  PROVE  Held(u)'
BY DEF Held

LEMMA HeldSending ==
  ASSUME CoreInv, NEW t \in Tab, NEW x \in Tx, Send(t, x), UNCHANGED down
  PROVE  /\ UnderWay(t)' = UnderWay(t) \cup {x}
         /\ \A u \in Tab \ {t} : UnderWay(u)' = UnderWay(u)
<1>1. up'[t] = Append(up[t], x) /\ \A u \in Tab \ {t} : up'[u] = up[u]
  BY DEF Send, CoreInv, LinkInv
<1>2. ToSet(Append(up[t], x)) = ToSet(up[t]) \cup {x}
  <2>1. up[t] \in Seq(Tx)
    BY DEF CoreInv, LinkInv
  <2>2. /\ Len(up[t]) \in Nat /\ DOMAIN up[t] = 1 .. Len(up[t])
        /\ DOMAIN Append(up[t], x) = 1 .. Len(up[t]) + 1
        /\ Append(up[t], x)[Len(up[t]) + 1] = x
        /\ \A i \in 1 .. Len(up[t]) : Append(up[t], x)[i] = up[t][i]
    BY <2>1, AppendProperties
  <2> QED BY <2>2 DEF ToSet
<1> QED BY <1>1, <1>2 DEF UnderWay, About, ToSet

LEMMA HeldEdit ==
  ASSUME CoreInv, HeldInv, NEW t \in Tab, Edit(t)
  PROVE  HeldInv'
<1> DEFINE x == Len(author) + 1
<1>1. /\ x \in Tx /\ R!Track(t, x) /\ UNCHANGED << socket, down, timer, stopped >>
      /\ IF stopped[t] THEN UNCHANGED up ELSE Send(t, x)
  BY DEF Edit, R!Track
<1> HIDE DEF x
<1>2. CASE stopped[t]
  <2>1. UNCHANGED << socket, pending, timer, up, down >>
    BY <1>1, <1>2 DEF R!Track
  <2>2. \A u \in Tab : UnderWay(u)' = UnderWay(u)
    BY <2>1 DEF UnderWay, About, ToSet
  <2> QED BY <2>1, <2>2, HeldSame DEF HeldInv
<1>3. CASE ~stopped[t]
  <2>1. /\ UnderWay(t)' = UnderWay(t) \cup {x}
        /\ \A u \in Tab \ {t} : UnderWay(u)' = UnderWay(u)
    BY <1>1, <1>3, HeldSending
  <2>2. /\ pending'[t] = pending[t] \cup {x}
        /\ \A u \in Tab \ {t} : pending'[u] = pending[u]
    BY <1>1, <1>3 DEF R!Track, CoreInv, TrackerInv, R!TypeOK
  <2>3. Held(t)'
    BY <1>1, <2>1, <2>2 DEF HeldInv, Held
  <2>4. ASSUME NEW u \in Tab \ {t} PROVE Held(u)'
    BY <1>1, <2>1, <2>2, HeldSame DEF HeldInv
  <2> QED BY <2>3, <2>4 DEF HeldInv
<1> QED BY <1>2, <1>3

LEMMA HeldRetry ==
  ASSUME CoreInv, HeldInv, NEW t \in Tab, NEW x \in Tx, Retry(t, x)
  PROVE  HeldInv'
<1>1. /\ R!Retry(t, x) /\ Send(t, x) /\ UNCHANGED << socket, down, pending >>
  BY DEF Retry, R!Retry
<1>2. /\ UnderWay(t)' = UnderWay(t) \cup {x}
      /\ \A u \in Tab \ {t} : UnderWay(u)' = UnderWay(u)
  BY <1>1, HeldSending
<1>3. timer[t] \subseteq timer'[t] \cup {x} /\ \A u \in Tab \ {t} : timer'[u] = timer[u]
  BY <1>1 DEF R!Retry, CoreInv, TrackerInv, R!TypeOK
<1>4. Held(t)'
  BY <1>1, <1>2, <1>3 DEF HeldInv, Held
<1>5. ASSUME NEW u \in Tab \ {t} PROVE Held(u)'
  BY <1>1, <1>2, <1>3, HeldSame DEF HeldInv
<1> QED BY <1>4, <1>5 DEF HeldInv

\* onOpen sends everything that is pending.
LEMMA HeldOpen ==
  ASSUME CoreInv, HeldInv, NEW t \in Tab, Open(t)
  PROVE  HeldInv'
<1>1. /\ up'[t] = up[t] \o Resend(t) /\ \A u \in Tab \ {t} : up'[u] = up[u]
      /\ \A u \in Tab \ {t} : socket'[u] = socket[u]
      /\ UNCHANGED << pending, timer, down >>
  BY DEF Open, CoreInv, LinkInv, trackerVars
<1>2. ToSet(Resend(t)) = pending[t] /\ Resend(t) \in Seq(Tx) /\ up[t] \in Seq(Tx)
  BY ResendIsSorted DEF CoreInv, TrackerInv, R!TypeOK, LinkInv
<1>3. pending'[t] \subseteq ToSet(up'[t])
  BY <1>1, <1>2, ToSetConcat
<1>4. Held(t)'
  <2>1. ToSet(up'[t]) \subseteq UnderWay(t)'
    BY DEF UnderWay, ToSet
  <2> QED BY <1>3, <2>1 DEF Held
<1>5. ASSUME NEW u \in Tab \ {t} PROVE Held(u)'
  <2>1. UnderWay(u)' = UnderWay(u)
    BY <1>1 DEF UnderWay, About, ToSet
  <2> QED BY <1>1, <2>1, HeldSame DEF HeldInv
<1> QED BY <1>4, <1>5 DEF HeldInv

\* A message makes the tracker forget the edit it is about, or arm its timer.
LEMMA ReceiveArms ==
  ASSUME CoreInv, NEW t \in Tab, Receive(t)
  PROVE  /\ \A y \in pending'[t] : y \in timer[t] \/ y = Head(down[t]).tx => y \in timer'[t]
         /\ \A u \in Tab \ {t} : timer'[u] = timer[u]
<1> DEFINE m == Head(down[t])
<1> SUFFICES /\ \A y \in pending'[t] : y \in timer[t] \/ y = m.tx => y \in timer'[t]
             /\ \A u \in Tab \ {t} : timer'[u] = timer[u]
  OBVIOUS
<1>1. R!TypeOK /\ R!RetryArmed
  BY DEF CoreInv, TrackerInv
<1>2. pending[t] \in SUBSET Tx /\ 0 \notin Tx
  BY <1>1, TxFinite DEF R!TypeOK
<1> HIDE DEF m
<1>3. \/ m.tx \in pending[t] /\ R!Sequenced(t, m.tx, number[m.tx])
      \/ m.tx = 0 /\ R!HandleAck(t, m.seq)
      \/ m.tx \in pending[t] /\ R!HandleRefused(t, m.tx)
      \/ R!HandleError(t, m.tx)
      \/ R!StopTracking(t)
      \/ m.tx \in Tx \ pending[t] /\ UNCHANGED trackerVars
  BY ReceiveCases DEF m
<1>4. CASE m.tx \in pending[t] /\ R!Sequenced(t, m.tx, number[m.tx])
  <2>1. CASE ackSeq[t] >= number[m.tx]
    <3>1. R!Forget(t, {m.tx})
      BY <1>4, <2>1 DEF R!Sequenced
    <3> QED BY <1>1, <3>1, ForgetEffect
  <2>2. CASE ~(ackSeq[t] >= number[m.tx])
    <3>1. timer' = [timer EXCEPT ![t] = @ \cup {m.tx}]
      BY <1>4, <2>2 DEF R!Sequenced, R!Arm
    <3> QED BY <1>1, <3>1 DEF R!TypeOK
  <2> QED BY <2>1, <2>2
<1>5. CASE m.tx = 0 /\ R!HandleAck(t, m.seq)
  <2>1. PICK S : R!Forget(t, S)
    BY <1>5 DEF R!HandleAck
  <2> QED BY <1>1, <1>2, <1>5, <2>1, ForgetEffect
<1>6. CASE m.tx \in pending[t] /\ R!HandleRefused(t, m.tx)
  <2>1. R!Forget(t, {m.tx})
    BY <1>6 DEF R!HandleRefused
  <2> QED BY <1>1, <2>1, ForgetEffect
<1>7. CASE R!HandleError(t, m.tx)
  <2>1. IF m.tx \in pending[t] /\ ~stopped[t]
        THEN timer' = [timer EXCEPT ![t] = @ \cup {m.tx}] ELSE UNCHANGED timer
    BY <1>7 DEF R!HandleError, R!Arm
  <2>2. UNCHANGED pending /\ (stopped[t] => pending[t] = {})
    BY <1>1, <1>7 DEF R!HandleError, R!RetryArmed
  <2> QED BY <1>1, <2>1, <2>2 DEF R!TypeOK
<1>8. CASE R!StopTracking(t)
  <2>1. R!Forget(t, pending[t])
    BY <1>8 DEF R!StopTracking
  <2> QED BY <1>1, <2>1, ForgetEffect
<1>9. CASE m.tx \in Tx \ pending[t] /\ UNCHANGED trackerVars
  BY <1>9 DEF trackerVars
<1> QED BY <1>3, <1>4, <1>5, <1>6, <1>7, <1>8, <1>9

LEMMA HeldReceive ==
  ASSUME CoreInv, HeldInv, NEW t \in Tab, Receive(t)
  PROVE  HeldInv'
<1>1. /\ down[t] # << >> /\ down'[t] = Tail(down[t])
      /\ \A u \in Tab \ {t} : down'[u] = down[u]
      /\ UNCHANGED << socket, up >> /\ socket[t] = "open"
  BY DEF Receive, CoreInv, LinkInv
<1>2. Held(t)'
  <2>1. down[t] \in Seq(TrueMessage)
    BY DEF CoreInv, LinkInv
  <2>2. About(down[t]) \subseteq About(down'[t]) \cup {Head(down[t]).tx}
    BY <1>1, <2>1, AboutTail
  <2>3. pending'[t] \subseteq pending[t]
    BY ReceiveEffect
  <2>4. UnderWay(t) \subseteq UnderWay(t)' \cup {Head(down[t]).tx}
    BY <1>1, <2>2 DEF UnderWay, ToSet, About
  <2> QED BY <1>1, <2>3, <2>4, ReceiveArms DEF HeldInv, Held
<1>3. ASSUME NEW u \in Tab \ {t} PROVE Held(u)'
  <2>1. UnderWay(u)' = UnderWay(u)
    BY <1>1 DEF UnderWay, About, ToSet
  <2>2. UNCHANGED << socket[u], pending[u], timer[u] >>
    BY <1>1, ReceiveEffect, ReceiveArms
  <2> QED BY <2>1, <2>2, HeldSame DEF HeldInv
<1> QED BY <1>2, <1>3 DEF HeldInv

\* A tab that loses its connection, or ends, waits for nothing.
LEMMA HeldEnd ==
  ASSUME CoreInv, HeldInv, NEW t \in Tab, Drop(t) \/ Close(t)
  PROVE  HeldInv'
<1>1. /\ socket'[t] # "open"
      /\ \A u \in Tab \ {t} : UNCHANGED << socket[u], up[u], down[u] >>
  BY DEF Drop, Close, CoreInv, LinkInv
<1>2. ASSUME NEW u \in Tab \ {t} PROVE UNCHANGED << pending[u], timer[u] >>
  <2>1. CASE Drop(t)
    BY <2>1 DEF Drop, trackerVars
  <2>2. CASE Close(t)
    <3>1. R!TypeOK /\ R!Forget(t, pending[t])
      BY <2>2 DEF Close, R!StopTracking, CoreInv, TrackerInv
    <3> QED BY <3>1, ForgetEffect
  <2> QED BY <2>1, <2>2
<1>3. ASSUME NEW u \in Tab \ {t} PROVE Held(u)'
  <2>1. UnderWay(u)' = UnderWay(u)
    BY <1>1 DEF UnderWay, About, ToSet
  <2> QED BY <1>1, <1>2, <2>1, HeldSame DEF HeldInv
<1> QED BY <1>1, <1>3 DEF HeldInv, Held

\* The relay answers each edit it takes, and takes back no message.
LEMMA RelayTells ==
  ASSUME CoreInv, NEW t \in Tab,
         RelayAccept(t) \/ RelayRefuse(t) \/ RelayLimit(t) \/ RelayRepeat(t)
  PROVE  /\ \A u \in Tab : About(down[u]) \subseteq About(down'[u])
         /\ Head(up[t]) \in About(down'[t])
<1> DEFINE x == Head(up[t])
<1>1. socket[t] = "open" /\ x \in Tx /\ fate \in [Tx -> {"new", "sequenced", "saved", "refused", "lost"}]
  BY HeadOfUp DEF CoreInv, RelayInv, RelayAccept, RelayRefuse, RelayLimit, RelayRepeat, Take
<1>2. down \in [Tab -> Seq(TrueMessage)]
  BY DEF CoreInv, LinkInv
<1>3. ASSUME NEW m, m.tx = x, Broadcast(m)
      PROVE  /\ \A u \in Tab : About(down[u]) \subseteq About(down'[u])
             /\ x \in About(down'[t])
  <2>1. \A u \in Tab : down'[u] = IF socket[u] = "open" THEN Append(down[u], m) ELSE down[u]
    BY <1>3 DEF Broadcast
  <2>2. \A u \in Tab : /\ About(down[u]) \subseteq About(Append(down[u], m))
                       /\ m.tx \in About(Append(down[u], m))
    BY <1>2, AboutAppend
  <2> QED BY <1>1, <1>3, <2>1, <2>2
<1>4. ASSUME NEW S, TrueMessage \subseteq S, NEW ms \in Seq(S), x \in About(ms), Reply(t, ms)
      PROVE  /\ \A u \in Tab : About(down[u]) \subseteq About(down'[u])
             /\ x \in About(down'[t])
  <2>1. /\ down'[t] = down[t] \o ms
        /\ \A u \in Tab \ {t} : down'[u] = down[u]
    BY <1>2, <1>4 DEF Reply
  <2>2. down[t] \in Seq(S)
    BY <1>2, <1>4
  <2>3. About(down[t] \o ms) = About(down[t]) \cup About(ms)
    BY <2>2, AboutConcat
  <2> HIDE DEF x
  <2> QED BY <1>4, <2>1, <2>3
<1>5. \A a, k : Msg(a, x, k).tx = x
  BY DEF Msg
<1>6. CASE RelayAccept(t)
  <2>1. Broadcast(Msg("broadcast", x, lastSeq'))
    BY <1>6 DEF RelayAccept
  <2> HIDE DEF x
  <2> QED BY <1>3, <1>5, <2>1 DEF x
<1>7. ASSUME NEW m, m.tx = x, Reply(t, << m >>)
      PROVE  /\ \A u \in Tab : About(down[u]) \subseteq About(down'[u])
             /\ x \in About(down'[t])
  <2> DEFINE S == TrueMessage \cup {m}
  <2>1. << m >> \in Seq(S) /\ TrueMessage \subseteq S
    OBVIOUS
  <2>2. About(<< m >>) = {m.tx}
    BY DEF About
  <2> HIDE DEF x, S
  <2> QED BY <1>4, <1>7, <2>1, <2>2
<1>8. ASSUME NEW m, NEW k, m.tx = x, Reply(t, << m, k >>)
      PROVE  /\ \A u \in Tab : About(down[u]) \subseteq About(down'[u])
             /\ x \in About(down'[t])
  <2> DEFINE S == TrueMessage \cup {m, k}
  <2>1. << m, k >> \in Seq(S) /\ TrueMessage \subseteq S
    OBVIOUS
  <2>2. m.tx \in About(<< m, k >>)
    <3>1. 1 \in DOMAIN << m, k >> /\ << m, k >>[1] = m
      OBVIOUS
    <3> QED BY <3>1 DEF About
  <2> HIDE DEF x, S
  <2> QED BY <1>4, <1>8, <2>1, <2>2
<1>9. CASE RelayRefuse(t) \/ RelayLimit(t)
  <2>1. Reply(t, << Msg("refused", x, 0) >>) \/ Reply(t, << Msg("error", x, 0) >>)
    BY <1>9 DEF RelayRefuse, RelayLimit
  <2> HIDE DEF x
  <2> QED BY <1>5, <1>7, <2>1 DEF x
<1>10. CASE RelayRepeat(t)
  <2>1. \/ Reply(t, << Msg("settled", x, number[x]) >>)
        \/ Reply(t, << Msg("settled", x, number[x]), Msg("ack", 0, settled) >>)
        \/ Reply(t, << Msg("refused", x, 0) >>)
    <3>1. fate[x] \in {"sequenced", "saved", "refused", "lost"}
      BY <1>1, <1>10 DEF RelayRepeat
    <3>2. Reply(t, CASE fate[x] = "sequenced" -> << Msg("settled", x, number[x]) >>
                     [] fate[x] = "saved" -> << Msg("settled", x, number[x]), Msg("ack", 0, settled) >>
                     [] fate[x] \in {"refused", "lost"} -> << Msg("refused", x, 0) >>)
      BY <1>10 DEF RelayRepeat
    <3> HIDE DEF x
    <3> QED BY <3>1, <3>2
  <2> HIDE DEF x
  <2> QED BY <1>5, <1>7, <1>8, <2>1 DEF x
<1> HIDE DEF x
<1> QED BY <1>6, <1>9, <1>10 DEF x

LEMMA HeldTake ==
  ASSUME CoreInv, HeldInv, NEW t \in Tab,
         RelayAccept(t) \/ RelayRefuse(t) \/ RelayLimit(t) \/ RelayRepeat(t)
  PROVE  HeldInv'
<1>1. /\ UNCHANGED << trackerVars, socket >> /\ Take(t)
  BY DEF RelayAccept, RelayRefuse, RelayLimit, RelayRepeat
<1>2. /\ up[t] # << >> /\ up'[t] = Tail(up[t])
      /\ \A u \in Tab \ {t} : up'[u] = up[u]
  BY <1>1 DEF Take, CoreInv, LinkInv
<1>3. /\ \A x \in ToSet(up[t]) : x = Head(up[t]) \/ x \in ToSet(up'[t])
      /\ \A u \in Tab \ {t} : ToSet(up'[u]) = ToSet(up[u])
  BY <1>2, HeadOfUp
<1>4. /\ \A u \in Tab : About(down[u]) \subseteq About(down'[u])
      /\ Head(up[t]) \in About(down'[t])
  BY RelayTells
<1>5. ASSUME NEW u \in Tab PROVE UnderWay(u) \subseteq UnderWay(u)'
  <2>1. UnderWay(u)' = ToSet(up'[u]) \cup About(down'[u])
    BY DEF UnderWay, ToSet, About
  <2> QED BY <1>3, <1>4, <2>1 DEF UnderWay
<1> QED BY <1>1, <1>5, HeldSame DEF HeldInv, trackerVars

LEMMA HeldRelay ==
  ASSUME CoreInv, HeldInv, (\E x \in Tx : RelaySave(x)) \/ RelayReload
  PROVE  HeldInv'
<1>1. UNCHANGED << trackerVars, socket, up >>
  BY DEF RelaySave, RelayReload
<1>2. down \in [Tab -> Seq(TrueMessage)]
  BY DEF CoreInv, LinkInv
<1>3. \A u \in Tab : \/ down'[u] = down[u]
                     \/ \E m : down'[u] = Append(down[u], m)
                     \/ \E m, k : down'[u] = down[u] \o << m, k >>
  <2>1. ASSUME NEW m, Broadcast(m)
        PROVE  \A u \in Tab : down'[u] = down[u] \/ down'[u] = Append(down[u], m)
    BY <2>1 DEF Broadcast
  <2>2. ASSUME NEW x \in Tx, RelaySave(x)
        PROVE  \/ Broadcast(Msg("ack", 0, number[x]))
               \/ \A u \in Tab : \/ down'[u] = down[u]
                                 \/ down'[u] = Append(down[u], Msg("ack", 0, number[x]))
                                 \/ down'[u] = down[u] \o << Msg("refused", x, 0), Msg("ack", 0, number[x]) >>
    <3> DEFINE ack == Msg("ack", 0, number[x])
               refused == Msg("refused", x, 0)
    <3>1. \/ Broadcast(ack)
          \/ down' = [t \in Tab |->
                CASE socket[t] # "open" -> down[t]
                  [] author[x] = t      -> down[t] \o << refused, ack >>
                  [] OTHER              -> Append(down[t], ack)]
      BY <2>2 DEF RelaySave
    <3> HIDE DEF ack, refused
    <3>2. \/ Broadcast(ack)
          \/ \A u \in Tab : \/ down'[u] = down[u]
                            \/ down'[u] = Append(down[u], ack)
                            \/ down'[u] = down[u] \o << refused, ack >>
      BY <3>1
    <3> QED BY <3>2 DEF ack, refused
  <2>3. ASSUME RelayReload PROVE Broadcast(Msg("reload", 0, 0))
    BY <2>3 DEF RelayReload
  <2> QED BY <2>1, <2>2, <2>3
<1>4. ASSUME NEW u \in Tab PROVE About(down[u]) \subseteq About(down'[u])
  <2>1. ASSUME NEW m, down'[u] = Append(down[u], m) PROVE About(down[u]) \subseteq About(down'[u])
    BY <1>2, <2>1, AboutAppend
  <2>2. ASSUME NEW m, NEW k, down'[u] = down[u] \o << m, k >>
        PROVE  About(down[u]) \subseteq About(down'[u])
    <3> DEFINE S == TrueMessage \cup {m, k}
    <3>1. << m, k >> \in Seq(S) /\ down[u] \in Seq(S)
      BY <1>2
    <3> HIDE DEF S
    <3>2. About(down[u] \o << m, k >>) = About(down[u]) \cup About(<< m, k >>)
      BY <3>1, AboutConcat
    <3> QED BY <2>2, <3>2
  <2> QED BY <1>3, <2>1, <2>2
<1>5. ASSUME NEW u \in Tab PROVE UnderWay(u) \subseteq UnderWay(u)'
  <2>1. UnderWay(u)' = ToSet(up'[u]) \cup About(down'[u])
    BY DEF UnderWay, ToSet, About
  <2> QED BY <1>1, <1>4, <2>1 DEF UnderWay
<1> QED BY <1>1, <1>5, HeldSame DEF HeldInv, trackerVars

LEMMA HeldStep == CoreInv /\ HeldInv /\ [Next]_vars => HeldInv'
<1> SUFFICES ASSUME CoreInv, HeldInv, [Next]_vars PROVE HeldInv'
  OBVIOUS
<1>1. ASSUME NEW t \in Tab, FinishReload(t) \/ FailReload(t) PROVE HeldInv'
  <2>1. UNCHANGED << trackerVars, socket, up, down >>
    BY <1>1 DEF FinishReload, FailReload
  <2>2. \A u \in Tab : UnderWay(u)' = UnderWay(u)
    BY <2>1 DEF UnderWay, About, ToSet
  <2> QED BY <2>1, <2>2, HeldSame DEF HeldInv, trackerVars
<1>2. CASE UNCHANGED vars
  <2>1. UNCHANGED << trackerVars, socket, up, down >>
    BY <1>2 DEF vars
  <2>2. \A u \in Tab : UnderWay(u)' = UnderWay(u)
    BY <2>1 DEF UnderWay, About, ToSet
  <2> QED BY <2>1, <2>2, HeldSame DEF HeldInv, trackerVars
<1> QED BY <1>1, <1>2, HeldEdit, HeldOpen, HeldEnd, HeldReceive, HeldRetry, HeldTake, HeldRelay DEF Next

\* NothingHangs: while a tab is connected, each edit it waits for has a
\* message under way or its retry timer armed, so it cannot wait for ever for
\* an answer that does not come.
THEOREM NothingHangsCorrect == Spec => []NothingHangs
<1>1. Init => CoreInv /\ HeldInv
  BY CoreInit, HeldInit
<1>2. CoreInv /\ HeldInv /\ [Next]_vars => (CoreInv /\ HeldInv)'
  BY CoreStep, HeldStep
<1>3. CoreInv /\ HeldInv => NothingHangs
  <2> SUFFICES ASSUME CoreInv, HeldInv, NEW t \in Tab, socket[t] = "open", NEW x \in pending[t]
               PROVE  InFlight(t, x) > 0 \/ x \in timer[t]
    BY DEF NothingHangs
  <2>1. LinkInv
    BY DEF CoreInv
  <2> QED BY <2>1, InFlightIs DEF HeldInv, Held
<1> QED BY <1>1, <1>2, <1>3, PTL DEF Spec

(***************************************************************************)
(* The order of the numbers.  In the queue to the relay an edit that can   *)
(* still be numbered stands behind every earlier edit of its tab that can: *)
(* what the relay takes first is the oldest.                               *)
(***************************************************************************)

\* Edit x must get its number before y does.
MustPrecede(x, y) ==
  /\ x < y /\ fate[x] = "new" /\ fate[y] = "new"
  /\ x \notin limited /\ y \notin limited \cup offline

Queue(t) ==
  \A j \in DOMAIN up[t] : \A x \in Mine(t) :
    MustPrecede(x, up[t][j]) => \E i \in 1 .. j - 1 : up[t][i] = x

\* The relay knows nothing of an edit that has not been made.
Unmade == \A x \in Tx : x > Len(author) => fate[x] = "new"

OrderInv == SequencedInOrder /\ Unmade /\ \A t \in Tab : Queue(t)

LEMMA OrderInit == Init => OrderInv
BY DEF Init, OrderInv, SequencedInOrder, Mine, Unmade, Queue

\* A step that sends nothing.
LEMMA QueueSame ==
  ASSUME CoreInv, RelayGrows, NEW u \in Tab, Queue(u), UNCHANGED << up[u], author, offline >>
  PROVE  Queue(u)'
<1>1. Mine(u)' = Mine(u) /\ Mine(u) \subseteq Tx /\ up[u] \in Seq(Tx)
  BY MineType DEF CoreInv, LinkInv
<1>2. ASSUME NEW x \in Tx, NEW y \in Tx, MustPrecede(x, y)' PROVE MustPrecede(x, y)
  BY <1>2 DEF MustPrecede, RelayGrows
<1>3. \A j \in DOMAIN up[u] : up[u][j] \in Tx
  BY <1>1
<1> QED BY <1>1, <1>2, <1>3 DEF Queue

\* A step that numbers nothing keeps the order.
LEMMA OrderSame ==
  ASSUME CoreInv, RelayGrows, SequencedInOrder, UNCHANGED << number, author, offline >>
  PROVE  SequencedInOrder'
<1>1. \A t \in Tab : Mine(t)' = Mine(t) /\ Mine(t) \subseteq Tx
  BY MineType DEF CoreInv
<1>2. \A x \in Tx : fate[x] = "refused" => fate'[x] = "refused"
  BY DEF RelayGrows
<1>3. limited \subseteq limited'
  BY DEF RelayGrows
<1> QED BY <1>1, <1>2, <1>3 DEF SequencedInOrder

\* What is under way about an edit that the relay has neither seen nor put
\* off is on its way to the relay.
LEMMA NewIsUnderWayUp ==
  ASSUME CoreInv, HeldInv, NEW t \in Tab, socket[t] = "open",
         NEW x \in pending[t], fate[x] = "new", x \notin limited
  PROVE  x \in ToSet(up[t])
<1>1. x \in Tx /\ x # 0
  BY TxFinite DEF CoreInv, TrackerInv, R!TypeOK
<1>2. number[x] = 0
  BY <1>1 DEF CoreInv, RelayInv
<1>3. x \notin About(down[t])
  <2> SUFFICES ASSUME NEW i \in DOMAIN down[t], down[t][i].tx = x PROVE FALSE
    BY DEF About
  <2>1. down[t] \in Seq(TrueMessage)
    BY DEF CoreInv, LinkInv
  <2>2. down[t][i] \in TrueMessage
    BY <2>1
  <2>3. IsTrue(down[t][i])
    BY <2>2 DEF TrueMessage
  <2> QED BY <1>1, <1>2, <2>3 DEF IsTrue
<1>4. x \notin timer[t]
  BY DEF CoreInv, TrackerInv, Knows
<1> QED BY <1>3, <1>4 DEF HeldInv, Held, UnderWay

\* A new edit is sent behind the earlier ones.
LEMMA OrderEdit ==
  ASSUME CoreInv, BooksInv, HeldInv, OrderInv, NEW t \in Tab, Edit(t)
  PROVE  OrderInv'
<1>0. PICK n : n = Len(author) + 1
  OBVIOUS
<1>1. /\ n \in Tx /\ author' = Append(author, t) /\ author \in Seq(Tab)
      /\ UNCHANGED << fate, number, limited >> /\ offline \subseteq offline'
      /\ IF stopped[t] THEN UNCHANGED up ELSE Send(t, n)
      /\ socket[t] = "open" \/ pending[t] = {} \/ n \in offline'
  BY <1>0 DEF Edit, relayVars, CoreInv, TabInv
<1>2. /\ Len(author) \in Nat /\ Len(author') = n /\ n \in Nat
      /\ Mine(t)' = Mine(t) \cup {n} /\ \A u \in Tab \ {t} : Mine(u)' = Mine(u)
      /\ \A u \in Tab : Mine(u) \subseteq 1 .. n - 1 /\ Mine(u) \subseteq Tx
  <2>1. /\ Len(author) \in Nat /\ DOMAIN author = 1 .. Len(author)
        /\ Len(Append(author, t)) = Len(author) + 1
        /\ Append(author, t)[Len(author) + 1] = t
        /\ \A i \in 1 .. Len(author) : Append(author, t)[i] = author[i]
    BY <1>1, AppendProperties
  <2>2. \A u \in Tab : Mine(u) \subseteq Tx
    BY MineType DEF CoreInv
  <2> QED BY <1>0, <1>1, <2>1, <2>2 DEF Mine
<1>3. fate[n] = "new" /\ number[n] = 0
  <2>1. fate[n] = "new"
    BY <1>0, <1>1, <1>2 DEF OrderInv, Unmade
  <2> QED BY <1>1, <2>1 DEF CoreInv, RelayInv
<1>4. SequencedInOrder'
  <2> SUFFICES ASSUME NEW u \in Tab, NEW x \in Mine(u)', NEW y \in Mine(u)', x < y, number'[y] # 0
               PROVE  \/ x \in limited' \/ y \in limited' \cup offline'
                      \/ fate'[x] = "refused"
                      \/ number'[x] \in 1 .. number'[y] - 1
    BY DEF SequencedInOrder
  <2>1. y # n
    BY <1>1, <1>3
  <2>2. y \in Mine(u)
    BY <1>2, <2>1
  <2>3. x \in Mine(u)
    BY <1>2, <2>2
  <2> QED BY <1>1, <2>2, <2>3 DEF OrderInv, SequencedInOrder
<1>5. Unmade'
  BY <1>0, <1>1, <1>2, MultiplayerAssumption DEF OrderInv, Unmade, Tx
<1>6. ASSUME NEW u \in Tab, NEW j \in DOMAIN up[u], NEW x \in Mine(u)',
             MustPrecede(x, up[u][j])', up'[u][j] = up[u][j]
      PROVE  \E i \in 1 .. j - 1 : up[u][i] = x
  <2>1. up[u][j] \in Mine(u)
    BY DEF BooksInv, Books, ToSet
  <2>2. up[u][j] < n
    BY <1>2, <2>1
  <2>3. x < up[u][j]
    BY <1>6 DEF MustPrecede
  <2>4. x \in Mine(u)
    <3>1. x \in Mine(u) \cup {n}
      BY <1>2
    <3>2. x \in Nat /\ up[u][j] \in Nat
      BY <1>2, <2>1, <3>1
    <3> QED BY <1>2, <2>2, <2>3, <3>1, <3>2
  <2>5. MustPrecede(x, up[u][j])
    BY <1>1, <1>6 DEF MustPrecede
  <2> QED BY <2>4, <2>5 DEF OrderInv, Queue
<1>7. ASSUME NEW u \in Tab, UNCHANGED up[u] PROVE Queue(u)'
  BY <1>6, <1>7 DEF Queue
<1>8. CASE stopped[t]
  BY <1>1, <1>4, <1>5, <1>7, <1>8 DEF OrderInv
<1>9. CASE ~stopped[t]
  <2> DEFINE s == up[t]
  <2>1. /\ up'[t] = Append(s, n) /\ \A u \in Tab \ {t} : up'[u] = up[u]
        /\ s \in Seq(Tx)
    BY <1>1, <1>9 DEF Send, CoreInv, LinkInv
  <2>2. /\ Len(s) \in Nat /\ DOMAIN s = 1 .. Len(s)
        /\ DOMAIN Append(s, n) = 1 .. Len(s) + 1
        /\ Append(s, n)[Len(s) + 1] = n
        /\ \A i \in 1 .. Len(s) : Append(s, n)[i] = s[i]
    BY <2>1, AppendProperties
  <2>3. ASSUME NEW x \in Mine(t)', MustPrecede(x, n)' PROVE x \in ToSet(s)
    <3>1. x < n /\ fate[x] = "new" /\ x \notin limited /\ n \notin offline'
      BY <1>1, <2>3 DEF MustPrecede
    <3>2. x \in Mine(t)
      BY <1>2, <3>1
    <3>3. x \in pending[t]
      BY <1>9, <3>1, <3>2 DEF BooksInv, Books, Settled
    <3>4. socket[t] = "open"
      BY <1>1, <3>1, <3>3
    <3> QED BY <3>1, <3>3, <3>4, NewIsUnderWayUp
  <2>4. Queue(t)'
    <3> SUFFICES ASSUME NEW j \in 1 .. Len(s) + 1, NEW x \in Mine(t)', MustPrecede(x, up[t][j])'
                 PROVE  \E i \in 1 .. j - 1 : up'[t][i] = x
      BY <2>1, <2>2 DEF Queue
    <3>1. CASE j = Len(s) + 1
      <4>1. x \in ToSet(s)
        BY <2>1, <2>2, <2>3, <3>1
      <4>2. PICK i \in 1 .. Len(s) : s[i] = x
        BY <2>2, <4>1 DEF ToSet
      <4> QED BY <2>1, <2>2, <3>1, <4>2
    <3>2. CASE j # Len(s) + 1
      <4>1. j \in DOMAIN s /\ up'[t][j] = up[t][j]
        BY <2>1, <2>2, <3>2
      <4>2. PICK i \in 1 .. j - 1 : up[t][i] = x
        BY <1>6, <4>1
      <4>3. i \in 1 .. Len(s)
        BY <2>2, <4>1
      <4> QED BY <2>1, <2>2, <4>2, <4>3
    <3> QED BY <3>1, <3>2
  <2> QED BY <1>4, <1>5, <1>7, <2>1, <2>4 DEF OrderInv
<1> QED BY <1>8, <1>9

\* onOpen sends what is pending in the order it was made, behind what the
\* socket has queued.
LEMMA OrderOpen ==
  ASSUME CoreInv, BooksInv, RelayGrows, OrderInv, NEW t \in Tab, Open(t)
  PROVE  \A u \in Tab : Queue(u)'
<1> DEFINE s == up[t]
           r == Resend(t)
<1>1. /\ up'[t] = s \o r /\ \A u \in Tab \ {t} : up'[u] = up[u]
      /\ UNCHANGED << author, offline, fate, limited >> /\ s \in Seq(Tx)
  BY DEF Open, CoreInv, LinkInv, relayVars, history
<1>2. r \in Seq(Tx) /\ ToSet(r) = pending[t] /\ Increasing(r)
  BY ResendIsSorted DEF CoreInv, TrackerInv, R!TypeOK
<1>3. Mine(t)' = Mine(t) /\ Mine(t) \subseteq Tx /\ Tx \subseteq Nat
  BY <1>1, MineType, TxFinite DEF CoreInv
<1> HIDE DEF r
<1>4. /\ Len(s) \in Nat /\ Len(r) \in Nat
      /\ DOMAIN s = 1 .. Len(s) /\ DOMAIN r = 1 .. Len(r)
      /\ DOMAIN (s \o r) = 1 .. Len(s) + Len(r)
      /\ \A i \in 1 .. Len(s) : (s \o r)[i] = s[i]
      /\ \A i \in 1 .. Len(r) : (s \o r)[Len(s) + i] = r[i]
  BY <1>1, <1>2, ConcatProperties
<1>5. Queue(t)'
  <2> SUFFICES ASSUME NEW j \in 1 .. Len(s) + Len(r), NEW x \in Mine(t),
                      MustPrecede(x, (s \o r)[j])
               PROVE  \E i \in 1 .. j - 1 : (s \o r)[i] = x
    <3>1. DOMAIN up'[t] = 1 .. Len(s) + Len(r) /\ \A j : up'[t][j] = (s \o r)[j]
      BY <1>1, <1>4
    <3>2. \A x, y : MustPrecede(x, y)' <=> MustPrecede(x, y)
      BY <1>1 DEF MustPrecede
    <3> QED BY <1>3, <3>1, <3>2 DEF Queue
  <2>1. CASE j \in 1 .. Len(s)
    <3>1. PICK i \in 1 .. j - 1 : s[i] = x
      BY <1>4, <2>1 DEF OrderInv, Queue
    <3>2. i \in 1 .. Len(s)
      BY <1>4, <2>1
    <3> QED BY <1>4, <3>1, <3>2
  <2>2. CASE j \notin 1 .. Len(s)
    <3> DEFINE k == j - Len(s)
    <3>1. k \in 1 .. Len(r) /\ j = Len(s) + k
      BY <1>4, <2>2
    <3>2. (s \o r)[j] = r[k]
      BY <1>4, <3>1
    <3>3. x < r[k] /\ fate[x] = "new" /\ r[k] \in pending[t] /\ r[k] \in Tx
      BY <1>2, <1>4, <3>1, <3>2 DEF MustPrecede, ToSet
    <3>4. ~stopped[t]
      BY <3>3 DEF CoreInv, TrackerInv, R!RetryArmed
    <3>5. x \in pending[t]
      BY <3>3, <3>4 DEF BooksInv, Books, Settled
    <3>6. PICK h \in 1 .. Len(r) : r[h] = x
      BY <1>2, <1>4, <3>5 DEF ToSet
    <3>7. h < k
      <4>1. h # k
        <5>1. x \in Nat /\ r[h] = x
          BY <1>3, <3>6
        <5> HIDE DEF k
        <5> QED BY <3>3, <5>1
      <4>2. k < h => r[k] < r[h]
        BY <1>2, <1>4, <3>1, <3>6 DEF Increasing
      <4>3. x \in Nat /\ r[k] \in Nat
        BY <1>3, <3>3
      <4> QED BY <3>1, <3>3, <3>6, <4>1, <4>2, <4>3
    <3>8. Len(s) + h \in 1 .. j - 1
      BY <1>4, <3>1, <3>7
    <3> QED BY <1>4, <3>6, <3>8
  <2> QED BY <2>1, <2>2
<1> QED BY <1>1, <1>5, QueueSame DEF OrderInv

\* What is sent again by a timer has been put off, or has its number.
LEMMA OrderRetry ==
  ASSUME CoreInv, RelayGrows, OrderInv, NEW t \in Tab, NEW y \in Tx, Retry(t, y)
  PROVE  \A u \in Tab : Queue(u)'
<1> DEFINE s == up[t]
<1>1. /\ up'[t] = Append(s, y) /\ \A u \in Tab \ {t} : up'[u] = up[u]
      /\ UNCHANGED << author, offline, fate, limited >> /\ s \in Seq(Tx)
      /\ y \in limited \/ fate[y] # "new"
  BY DEF Retry, R!Retry, Send, CoreInv, LinkInv, relayVars, history, TrackerInv, Knows
<1>2. /\ Len(s) \in Nat /\ DOMAIN s = 1 .. Len(s)
      /\ DOMAIN Append(s, y) = 1 .. Len(s) + 1
      /\ Append(s, y)[Len(s) + 1] = y
      /\ \A i \in 1 .. Len(s) : Append(s, y)[i] = s[i]
  BY <1>1, AppendProperties
<1>3. Mine(t)' = Mine(t)
  BY <1>1, MineType DEF CoreInv
<1>4. Queue(t)'
  <2> SUFFICES ASSUME NEW j \in 1 .. Len(s) + 1, NEW x \in Mine(t), MustPrecede(x, Append(s, y)[j])
               PROVE  \E i \in 1 .. j - 1 : Append(s, y)[i] = x
    BY <1>1, <1>2, <1>3 DEF Queue, MustPrecede
  <2>1. j # Len(s) + 1
    BY <1>1, <1>2 DEF MustPrecede
  <2>2. j \in 1 .. Len(s)
    BY <1>2, <2>1
  <2>3. PICK i \in 1 .. j - 1 : s[i] = x
    BY <1>2, <2>2 DEF OrderInv, Queue
  <2>4. i \in 1 .. Len(s)
    BY <1>2, <2>2
  <2> QED BY <1>2, <2>3, <2>4
<1> QED BY <1>1, <1>4, QueueSame DEF OrderInv

\* The relay decides about the edit it takes, or puts it off: it does not
\* stand in the way of the later ones any more.
LEMMA OrderTake ==
  ASSUME CoreInv, BooksInv, RelayGrows, OrderInv, NEW t \in Tab,
         RelayAccept(t) \/ RelayRefuse(t) \/ RelayLimit(t) \/ RelayRepeat(t)
  PROVE  /\ fate'[Head(up[t])] # "new" \/ Head(up[t]) \in limited'
         /\ UNCHANGED << author, offline >>
         /\ \A u \in Tab : Queue(u)'
<1> DEFINE s == up[t]
<1>1. /\ s # << >> /\ up'[t] = Tail(s) /\ \A u \in Tab \ {t} : up'[u] = up[u]
      /\ UNCHANGED << author, offline >> /\ s \in Seq(Tx)
  BY DEF RelayAccept, RelayRefuse, RelayLimit, RelayRepeat, Take, CoreInv, LinkInv, history
<1>2. Head(s) \in Tx
  BY <1>1, HeadOfUp
<1>3. fate'[Head(s)] # "new" \/ Head(s) \in limited'
  BY <1>2 DEF RelayAccept, RelayRefuse, RelayLimit, RelayRepeat, CoreInv, RelayInv, relayVars
<1>4. /\ Head(s) = s[1] /\ Len(s) \in Nat /\ DOMAIN s = 1 .. Len(s)
      /\ DOMAIN Tail(s) = 1 .. Len(s) - 1
      /\ \A i \in 1 .. Len(s) - 1 : Tail(s)[i] = s[i + 1] /\ i + 1 \in DOMAIN s
  BY <1>1
<1>5. Mine(t)' = Mine(t) /\ Mine(t) \subseteq Tx
  BY <1>1, MineType DEF CoreInv
<1>6. ASSUME NEW x \in Tx, NEW y \in Tx, MustPrecede(x, y)'
      PROVE  MustPrecede(x, y) /\ x # Head(s)
  BY <1>1, <1>3, <1>6 DEF MustPrecede, RelayGrows
<1>7. Queue(t)'
  <2> SUFFICES ASSUME NEW j \in DOMAIN up'[t], NEW x \in Mine(t)', MustPrecede(x, up[t][j])'
               PROVE  \E i \in 1 .. j - 1 : up'[t][i] = x
    BY DEF Queue
  <2>0. /\ j \in 1 .. Len(s) - 1 /\ up'[t][j] = s[j + 1] /\ x \in Mine(t)
        /\ \A i \in 1 .. Len(s) - 1 : up'[t][i] = Tail(s)[i]
    BY <1>1, <1>4, <1>5
  <2> PICK y : y = s[j + 1]
    OBVIOUS
  <2>1. y \in Tx /\ x \in Tx /\ j + 1 \in DOMAIN s
    BY <1>1, <1>4, <1>5, <2>0
  <2>2. MustPrecede(x, y) /\ x # s[1]
    <3>1. MustPrecede(x, y)'
      BY <2>0 DEF MustPrecede
    <3> QED BY <1>4, <1>6, <2>1, <3>1
  <2>3. PICK i \in 1 .. j : s[i] = x
    BY <2>0, <2>1, <2>2 DEF OrderInv, Queue
  <2>4. i # 1
    BY <2>2, <2>3
  <2>5. i - 1 \in 1 .. j - 1 /\ i - 1 \in 1 .. Len(s) - 1
    BY <1>4, <2>0, <2>3, <2>4
  <2>6. Tail(s)[i - 1] = s[i]
    BY <1>4, <2>5
  <2> QED BY <2>0, <2>3, <2>5, <2>6
<1> QED BY <1>1, <1>3, <1>7, QueueSame DEF OrderInv

\* The relay gives the next number: all earlier edits of the tab have theirs.
LEMMA OrderAccept ==
  ASSUME CoreInv, BooksInv, OrderInv, NEW t \in Tab, RelayAccept(t)
  PROVE  SequencedInOrder'
<1> DEFINE h == Head(up[t])
<1>1. /\ h \in Tx /\ h \in Mine(t) /\ fate[h] = "new" /\ 1 \in DOMAIN up[t] /\ up[t][1] = h
      /\ lastSeq' = lastSeq + 1 /\ lastSeq \in Nat
      /\ number' = [number EXCEPT ![h] = lastSeq + 1]
      /\ fate' = [fate EXCEPT ![h] = "sequenced"]
      /\ UNCHANGED << author, limited, offline >>
  <2>1. up[t] # << >> /\ up[t] \in Seq(Tx)
    BY DEF RelayAccept, Take, CoreInv, LinkInv
  <2>2. h \in Tx /\ h \in ToSet(up[t]) /\ 1 \in DOMAIN up[t] /\ up[t][1] = h
    BY <2>1, HeadOfUp
  <2> QED BY <2>2 DEF RelayAccept, BooksInv, Books, CoreInv, RelayInv, history
<1>2. /\ number \in [Tx -> Nat] /\ \A x \in Tx : number[x] <= lastSeq
      /\ fate \in [Tx -> {"new", "sequenced", "saved", "refused", "lost"}]
      /\ number[h] = 0
      /\ \A x \in Tx : fate[x] \in {"sequenced", "saved", "lost"} => number[x] # 0
  BY <1>1 DEF CoreInv, RelayInv
<1>3. \A u \in Tab : Mine(u)' = Mine(u) /\ Mine(u) \subseteq Tx
  BY <1>1, MineType DEF CoreInv
<1> HIDE DEF h
<1> SUFFICES ASSUME NEW u \in Tab, NEW x \in Mine(u), NEW y \in Mine(u), x < y, number'[y] # 0
             PROVE  \/ x \in limited \/ y \in limited \cup offline
                    \/ fate'[x] = "refused"
                    \/ number'[x] \in 1 .. number'[y] - 1
  BY <1>1, <1>3 DEF SequencedInOrder
<1>4. x \in Tx /\ y \in Tx /\ x \in Nat /\ y \in Nat
  BY <1>3, TxFinite
<1>5. x # y
  BY <1>4
<1>6. CASE y = h
  <2>1. u = t
    BY <1>1, <1>6 DEF Mine
  <2>2. ~MustPrecede(x, h)
    BY <1>1, <2>1 DEF OrderInv, Queue
  <2>3. ASSUME fate[x] = "new" PROVE x \in limited \/ y \in limited \cup offline
    BY <1>1, <1>6, <2>2, <2>3 DEF MustPrecede
  <2>4. fate'[x] = fate[x] /\ number'[x] = number[x] /\ number'[y] = lastSeq + 1
    BY <1>1, <1>2, <1>4, <1>5, <1>6
  <2>5. number[x] \in Nat /\ number[x] <= lastSeq
    BY <1>2, <1>4
  <2>6. fate[x] = "new" \/ fate[x] = "refused" \/ number[x] # 0
    BY <1>2, <1>4
  <2>7. number[x] # 0 => number[x] \in 1 .. (lastSeq + 1) - 1
    BY <1>1, <2>5
  <2> QED BY <2>3, <2>4, <2>6, <2>7
<1>7. CASE y # h
  <2>1. number'[y] = number[y]
    BY <1>1, <1>2, <1>7
  <2>2. \/ x \in limited \/ y \in limited \cup offline
        \/ fate[x] = "refused"
        \/ number[x] \in 1 .. number[y] - 1
    BY <2>1 DEF OrderInv, SequencedInOrder
  <2>3. CASE x = h
    BY <1>1, <1>2, <2>2, <2>3
  <2>4. CASE x # h
    <3>1. fate'[x] = fate[x] /\ number'[x] = number[x]
      BY <1>1, <1>2, <1>4, <2>4
    <3> QED BY <2>1, <2>2, <3>1
  <2> QED BY <2>3, <2>4
<1> QED BY <1>6, <1>7

LEMMA UnmadeLasts ==
  ASSUME CoreInv, BooksInv, OrderInv, UNCHANGED author,
         \A x \in Tx : fate'[x] # fate[x] =>
           fate[x] # "new" \/ \E t \in Tab : x \in ToSet(up[t])
  PROVE  Unmade'
<1>1. \A t \in Tab : \A x \in ToSet(up[t]) : x \in 1 .. Len(author)
  BY DEF BooksInv, Books, Mine
<1>2. Len(author) \in Nat /\ Tx \subseteq Nat
  BY TxFinite DEF CoreInv, TabInv
<1> QED BY <1>1, <1>2 DEF OrderInv, Unmade

LEMMA OrderStep == CoreInv /\ BooksInv /\ HeldInv /\ OrderInv /\ [Next]_vars => OrderInv'
<1> SUFFICES ASSUME CoreInv, BooksInv, HeldInv, OrderInv, [Next]_vars PROVE OrderInv'
  OBVIOUS
<1>1. RelayGrows
  BY CoreStep
<1>2. up \in [Tab -> Seq(Tx)] /\ fate \in [Tx -> {"new", "sequenced", "saved", "refused", "lost"}]
  BY DEF CoreInv, LinkInv, RelayInv
<1>3. ASSUME UNCHANGED << fate, number, author, offline >> PROVE SequencedInOrder' /\ Unmade'
  BY <1>1, <1>3, OrderSame DEF OrderInv, Unmade
<1>4. ASSUME NEW t \in Tab, Open(t) PROVE OrderInv'
  BY <1>1, <1>3, <1>4, OrderOpen DEF Open, relayVars, history, OrderInv
<1>5. ASSUME NEW t \in Tab, NEW x \in Tx, Retry(t, x) PROVE OrderInv'
  BY <1>1, <1>3, <1>5, OrderRetry DEF Retry, relayVars, history, OrderInv
<1>6. ASSUME NEW t \in Tab, Drop(t) \/ Close(t) PROVE OrderInv'
  <2>1. /\ up'[t] = << >> /\ \A u \in Tab \ {t} : up'[u] = up[u]
        /\ UNCHANGED << fate, number, author, offline >>
    BY <1>2, <1>6 DEF Drop, Close, relayVars, history
  <2>2. Queue(t)'
    BY <2>1 DEF Queue
  <2> QED BY <1>1, <1>3, <2>1, <2>2, QueueSame DEF OrderInv
<1>7. ASSUME \/ \E t \in Tab : Receive(t) \/ FinishReload(t) \/ FailReload(t)
             \/ UNCHANGED vars
      PROVE  OrderInv'
  <2>1. UNCHANGED << fate, number, author, offline, up >>
    BY <1>7 DEF Receive, FinishReload, FailReload, vars, relayVars, history
  <2> QED BY <1>1, <1>3, <2>1, QueueSame DEF OrderInv
<1>8. ASSUME NEW t \in Tab, RelayAccept(t) \/ RelayRefuse(t) \/ RelayLimit(t) \/ RelayRepeat(t)
      PROVE  OrderInv'
  <2>1. \A u \in Tab : Queue(u)' /\ UNCHANGED << author, offline >>
    BY <1>1, <1>8, OrderTake
  <2>2. UNCHANGED << author, offline >>
    BY <1>1, <1>8, OrderTake
  <2>3. SequencedInOrder'
    <3>1. RelayAccept(t) \/ UNCHANGED number
      BY <1>8 DEF RelayRefuse, RelayLimit, RelayRepeat, relayVars
    <3> QED BY <1>1, <2>2, <3>1, OrderAccept, OrderSame DEF OrderInv
  <2>4. Unmade'
    <3>1. Head(up[t]) \in ToSet(up[t]) /\ \A x \in Tx : x # Head(up[t]) => fate'[x] = fate[x]
      BY <1>2, <1>8, HeadOfUp DEF RelayAccept, RelayRefuse, RelayLimit, RelayRepeat, Take, relayVars
    <3> QED BY <2>2, <3>1, UnmadeLasts
  <2> QED BY <2>1, <2>3, <2>4 DEF OrderInv
<1>9. ASSUME NEW x \in Tx, RelaySave(x) PROVE OrderInv'
  <2>1. UNCHANGED << number, author, offline, up >> /\ \A y \in Tx : fate'[y] # fate[y] => fate[y] # "new"
    BY <1>2, <1>9 DEF RelaySave, history
  <2> QED BY <1>1, <2>1, OrderSame, QueueSame, UnmadeLasts DEF OrderInv
<1>10. ASSUME RelayReload PROVE OrderInv'
  <2>1. UNCHANGED << number, author, offline, up >> /\ \A y \in Tx : fate'[y] # fate[y] => fate[y] # "new"
    BY <1>2, <1>10 DEF RelayReload, history
  <2> QED BY <1>1, <2>1, OrderSame, QueueSame, UnmadeLasts DEF OrderInv
<1> QED BY <1>4, <1>5, <1>6, <1>7, <1>8, <1>9, <1>10, OrderEdit DEF Next

\* SequencedInOrder: through lost connections, double sending and late
\* answers the relay numbers the edits of a tab in the order they were made,
\* except those it has put off and those made while the socket reconnected.
THEOREM OrderCorrect == Spec => []SequencedInOrder
<1>1. Init => CoreInv /\ BooksInv /\ HeldInv /\ OrderInv
  BY CoreInit, BooksInit, HeldInit, OrderInit
<1>2. CoreInv /\ BooksInv /\ HeldInv /\ OrderInv /\ [Next]_vars
        => (CoreInv /\ BooksInv /\ HeldInv /\ OrderInv)'
  BY CoreStep, BooksStep, HeldStep, OrderStep
<1>3. OrderInv => SequencedInOrder
  BY DEF OrderInv
<1> QED BY <1>1, <1>2, <1>3, PTL DEF Spec
=============================================================================
