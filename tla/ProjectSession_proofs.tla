----------------------- MODULE ProjectSession_proofs -----------------------
(***************************************************************************)
(* Proofs about ProjectSession, for every number of processes and calls,   *)
(* every set of contracts, and every number of retries and faults.         *)
(*                                                                         *)
(* The argument has three parts.  The log of the server only grows, so     *)
(* what a snapshot says of it stays true.  What is left of a call is said  *)
(* by its phase: which snapshot it works with, what it has to report, and  *)
(* which entries of the log are its own (Facts).  And a session takes the  *)
(* file to be the one it knows only while that is what it has in memory.   *)
(***************************************************************************)
EXTENDS ProjectSession, SequenceTheorems, TLAPS

(***************************************************************************)
(* The types.                                                              *)
(***************************************************************************)

Part ==
  [status : Status, version : Nat, source : {"local", "remote"}, content : SUBSET Nat]

Snapshot == [version : Nat, part : [Namespace -> Part]]

Snap == Snapshot \cup {NoSnapshot}

Entry == [call : Call \cup {Nobody}, txn : Nat, namespace : Namespace]

\* The part of namespace n in a snapshot of version v agrees with the server.
PartTrue(p, n, v) ==
  /\ p.version <= v
  /\ p.content \subseteq ServerContent(n, p.version)
  /\ p.source = "remote" => p.content = ServerContent(n, p.version)

SnapTrue(x) ==
  x # NoSnapshot =>
    /\ x.version <= Len(log)
    /\ \A n \in Namespace : PartTrue(x.part[n], n, x.version)

TrueSnap == {x \in Snap : SnapTrue(x)}

ActivePhase ==
  {"ensure", "plan", "fetch", "fetched", "failed", "save", "busy", "commit", "server",
   "answered", "served", "markStale"}

Attempt == 0 .. BusyRetries
Version == Nat
Txn == 1 .. 2
Sent == 0 .. 2

ActiveCall ==
  [phase : ActivePhase, session : Session, op : Operation, base : TrueSnap,
   need : SUBSET Namespace,
   after : {"ensure", "retry", "conflict", "mark", "committed", "sync", "reconcile"},
   attempt : Attempt, answer : {"none", "ok", "conflict", "error"}, version : Version,
   txn : Txn, sent : Sent, faulty : BOOLEAN, shown : TrueSnap]

OverCall ==
  [phase : {"over"}, session : Session, op : Operation, faulty : BOOLEAN,
   committed : BOOLEAN, shown : TrueSnap]

TypeInv ==
  /\ log \in Seq(Entry)
  /\ file \in TrueSnap
  /\ memory \in [Session -> TrueSnap]
  /\ known \in [Session -> {"none", "current", "old"}]
  /\ call \in [Call -> ActiveCall \cup OverCall \cup {Idle}]
  /\ faults \in 0 .. MaxFaults

(***************************************************************************)
(* What the phase of call c, in state k, says of it.                       *)
(***************************************************************************)

\* Fetching, or saving what was fetched or committed.
Moving(k) == k.phase \in {"fetch", "fetched", "failed", "save", "busy"}

\* ... with a change that has been committed.
Reporting(k) == Moving(k) /\ k.after \in {"committed", "sync", "reconcile"}

\* The kinds of operations that get here.
Kinds(k) ==
  /\ k.phase = "ensure" => k.op.kind \notin {"server", "markStale"}
  /\ k.phase = "plan" => k.op.kind \in Mutations
  /\ k.phase \in {"commit", "answered"} => k.op.kind \in {"mutate", "restore"}
  /\ k.phase \in {"server", "served"} => k.op.kind \in {"server", "generated"}
  /\ Moving(k) /\ k.after = "retry" => k.op.kind \in {"mutate", "generated"}

\* The snapshot and the answer it works with.
Ready(c, k) ==
  /\ k.phase = "fetched" =>
       /\ k.version <= Len(log)
       /\ \A i \in SavedBy(c) : i <= k.version
       /\ k.base # NoSnapshot => k.base.version <= k.version
  /\ k.phase \in {"plan", "commit", "answered", "save", "busy"} => k.base # NoSnapshot
  /\ k.answer = "ok" =>
       /\ k.phase \in {"answered", "served"}
       /\ k.version \in SavedBy(c)
       /\ k.phase = "answered" => k.base.version <= k.version
  /\ ~Moving(k) => k.after \in {"ensure", "retry", "mark"}

\* What it knows of its change.
Honest(c, k) ==
  /\ Reporting(k) => SavedBy(c) # {}
  /\ SavedBy(c) # {} => k.faulty \/ Reporting(k) \/ k.answer = "ok"

\* What it will show.
Showing(c, k) ==
  /\ Reporting(k) => k.op.writes \in k.need
  /\ Reporting(k) /\ k.phase \in {"save", "busy"} =>
       SavedBy(c) \cap k.base.part[k.op.writes].content # {}

\* Before a change is sent, what the call has saved lies before the version
\* it works with, but not next to it.
Apart(c, k) ==
  /\ k.phase = "ensure" \/ (Moving(k) /\ k.after = "ensure") => SavedBy(c) = {}
  /\ Moving(k) /\ k.after = "retry" =>
       \A i \in SavedBy(c) :
         /\ i < Len(log)
         /\ k.phase = "fetched" => i < k.version
         /\ k.phase \in {"save", "busy"} => i < k.base.version
  /\ k.phase = "plan" => \A i \in SavedBy(c) : i < k.base.version
  /\ k.phase = "commit" \/ (k.phase = "answered" /\ k.answer # "ok") =>
       \A i \in SavedBy(c) : i # k.base.version /\ (i > k.base.version => log[i].txn = k.txn)
  /\ (k.phase = "commit" /\ k.sent = 2) \/ (k.phase = "answered" /\ k.answer = "conflict") =>
       k.base.version < Len(log)
  /\ k.phase = "answered" /\ k.answer = "conflict" /\ k.sent = 2 => Len(log) \notin SavedBy(c)
  /\ k.op.kind \in {"server", "generated"} =>
       /\ k.phase \in {"plan", "server"} => SavedBy(c) = {}
       /\ k.phase = "served" /\ k.answer = "conflict" => SavedBy(c) = {}
       /\ Moving(k) /\ k.after = "retry" => SavedBy(c) = {}

\* A call that is over has told the truth.
Told(c, k) ==
  /\ k.committed => SavedBy(c) # {}
  /\ SavedBy(c) # {} => k.committed \/ k.faulty
  /\ k.committed /\ k.shown # NoSnapshot /\ k.shown.part[k.op.writes].status = "fresh" =>
       SavedBy(c) \cap k.shown.part[k.op.writes].content # {}

ActiveFacts(c, k) ==
  /\ \A i \in SavedBy(c) : log[i].namespace = k.op.writes
  /\ Kinds(k) /\ Ready(c, k) /\ Honest(c, k) /\ Showing(c, k) /\ Apart(c, k)

OverFacts(c, k) ==
  /\ \A i \in SavedBy(c) : log[i].namespace = k.op.writes
  /\ Told(c, k)

Facts(c, k) ==
  CASE k.phase = "idle" -> SavedBy(c) = {}
    [] k.phase = "over" -> OverFacts(c, k)
    [] OTHER            -> ActiveFacts(c, k)

(***************************************************************************)
(* The log only grows, and what was true of it stays true.                 *)
(***************************************************************************)

\* A step that appends at most one entry.
Grows == log' = log \/ \E e \in Entry : log' = Append(log, e)

LEMMA LogAppend ==
  ASSUME log \in Seq(Entry), NEW e \in Entry, log' = Append(log, e)
  PROVE  /\ log' \in Seq(Entry) /\ Len(log) \in Nat /\ Len(log') = Len(log) + 1
         /\ DOMAIN log = 1 .. Len(log) /\ DOMAIN log' = 1 .. Len(log) + 1
         /\ log'[Len(log) + 1] = e
         /\ \A i \in 1 .. Len(log) : log'[i] = log[i]
BY AppendProperties

LEMMA ContentLasts ==
  ASSUME log \in Seq(Entry), Grows, NEW n \in Namespace, NEW v \in Nat, v <= Len(log)
  PROVE  ServerContent(n, v)' = ServerContent(n, v)
<1>1. CASE log' = log
  BY <1>1 DEF ServerContent
<1>2. ASSUME NEW e \in Entry, log' = Append(log, e)
      PROVE  ServerContent(n, v)' = ServerContent(n, v)
  <2>1. \A i \in 1 .. v : log'[i] = log[i]
    BY <1>2, LogAppend
  <2> QED BY <2>1 DEF ServerContent
<1> QED BY <1>1, <1>2 DEF Grows

LEMMA GrowsLen ==
  ASSUME log \in Seq(Entry), Grows
  PROVE  /\ log' \in Seq(Entry) /\ Len(log) \in Nat /\ Len(log') \in Nat /\ Len(log) <= Len(log')
BY LogAppend DEF Grows

LEMMA SnapType ==
  ASSUME NEW x \in Snap, x # NoSnapshot
  PROVE  /\ x \in Snapshot /\ x.version \in Nat /\ x.part \in [Namespace -> Part]
         /\ \A n \in Namespace : x.part[n] \in Part
BY DEF Snap, Snapshot

LEMMA TruthLasts ==
  ASSUME log \in Seq(Entry), Grows
  PROVE  TrueSnap \subseteq TrueSnap'
<1> SUFFICES ASSUME NEW x \in Snap, SnapTrue(x), x # NoSnapshot PROVE SnapTrue(x)'
  BY DEF TrueSnap, SnapTrue
<1>1. x.version \in Nat /\ x.version <= Len(log) /\ x.version <= Len(log')
  BY SnapType, GrowsLen DEF SnapTrue
<1>2. ASSUME NEW n \in Namespace PROVE PartTrue(x.part[n], n, x.version)'
  <2> PICK p : p = x.part[n]
    OBVIOUS
  <2>1. p \in Part /\ PartTrue(p, n, x.version)
    BY SnapType DEF SnapTrue
  <2>2. p.version \in Nat /\ p.version <= Len(log)
    BY <1>1, <2>1, GrowsLen DEF Part, PartTrue
  <2>3. ServerContent(n, p.version)' = ServerContent(n, p.version)
    BY <2>2, ContentLasts
  <2> QED BY <2>1, <2>3 DEF PartTrue
<1> QED BY <1>1, <1>2 DEF SnapTrue

LEMMA TypesLast ==
  ASSUME log \in Seq(Entry), Grows
  PROVE  ActiveCall \subseteq ActiveCall' /\ OverCall \subseteq OverCall'
BY TruthLasts DEF ActiveCall, OverCall

\* A step that leaves the log alone leaves all these notions alone.
LEMMA SameLog ==
  ASSUME UNCHANGED log
  PROVE  /\ TrueSnap' = TrueSnap /\ ActiveCall' = ActiveCall /\ OverCall' = OverCall
         /\ \A c, k : Facts(c, k)' <=> Facts(c, k)
<1>1. \A x : SnapTrue(x)' <=> SnapTrue(x)
  BY DEF SnapTrue, PartTrue, ServerContent
<1>2. TrueSnap' = TrueSnap
  BY <1>1 DEF TrueSnap
<1>3. \A c : SavedBy(c)' = SavedBy(c)
  BY DEF SavedBy
<1>4. \A c, k : Facts(c, k)' <=> Facts(c, k)
  BY <1>3 DEF Facts, OverFacts, ActiveFacts, Told, Kinds, Ready, Honest, Showing, Apart,
              Moving, Reporting
<1> QED BY <1>2, <1>4 DEF ActiveCall, OverCall

LEMMA SavedByAppend ==
  ASSUME log \in Seq(Entry), NEW e \in Entry, log' = Append(log, e)
  PROVE  /\ \A c : c # e.call => SavedBy(c)' = SavedBy(c)
         /\ SavedBy(e.call)' = SavedBy(e.call) \cup {Len(log) + 1}
         /\ \A c : SavedBy(c) \subseteq 1 .. Len(log)
BY LogAppend DEF SavedBy

\* An entry of somebody else changes nothing for a call.
LEMMA FactsLast ==
  ASSUME log \in Seq(Entry), NEW e \in Entry, log' = Append(log, e),
         NEW c, c # e.call, NEW k, Facts(c, k),
         k.phase \notin {"idle", "over"} => k \in ActiveCall
  PROVE  Facts(c, k)'
<1>1. /\ Len(log) \in Nat /\ Len(log') = Len(log) + 1
      /\ \A i \in 1 .. Len(log) : log'[i] = log[i]
  BY LogAppend
<1>2. SavedBy(c)' = SavedBy(c) /\ SavedBy(c) \subseteq 1 .. Len(log)
  BY SavedByAppend
<1>3. \A i \in SavedBy(c) : log'[i] = log[i] /\ i \in 1 .. Len(log)
  BY <1>1, <1>2
<1>4. OverFacts(c, k) => OverFacts(c, k)'
  BY <1>2, <1>3 DEF OverFacts, Told
<1>5. ASSUME k.phase \notin {"idle", "over"}, ActiveFacts(c, k) PROVE ActiveFacts(c, k)'
  <2>1. Kinds(k)'
    BY <1>5 DEF ActiveFacts, Kinds, Moving
  <2>0. k.version \in Nat /\ (k.base # NoSnapshot => k.base.version \in Nat /\ k.base.version <= Len(log))
    <3>1. k.version \in Nat /\ k.base \in Snap /\ SnapTrue(k.base)
      BY <1>5 DEF ActiveCall, Version, TrueSnap
    <3> QED BY <3>1, SnapType DEF SnapTrue
  <2>2. Ready(c, k)'
    BY <1>1, <1>2, <1>5, <2>0 DEF ActiveFacts, Ready, Moving
  <2>3. Honest(c, k)' /\ Showing(c, k)'
    BY <1>2, <1>5 DEF ActiveFacts, Honest, Showing, Reporting, Moving
  <2>4. Apart(c, k)'
    <3>1. Apart(c, k) /\ Ready(c, k)
      BY <1>5 DEF ActiveFacts
    <3>2. Moving(k)' = Moving(k)
      BY DEF Moving
    <3>3. \A i \in SavedBy(c) : i < Len(log') /\ log'[i] = log[i]
      BY <1>1, <1>3
    <3>4. k.base # NoSnapshot => k.base.version < Len(log')
      BY <1>1, <2>0
    <3>5. Len(log') \notin SavedBy(c)
      BY <1>1, <1>2
    <3> QED BY <1>2, <3>1, <3>2, <3>3, <3>4, <3>5 DEF Apart, Ready
  <2> QED BY <1>2, <1>3, <1>5, <2>1, <2>2, <2>3, <2>4 DEF ActiveFacts
<1> QED BY <1>2, <1>4, <1>5 DEF Facts

(***************************************************************************)
(* Snapshots.                                                              *)
(***************************************************************************)

LEMMA NoSnapshotIsNone == NoSnapshot \notin Snapshot
BY ProjectSessionAssumption DEF Snapshot, Part, Status

LEMMA TrueSnapIs ==
  ASSUME NEW x
  PROVE  /\ NoSnapshot \in TrueSnap
         /\ x \in TrueSnap /\ x # NoSnapshot <=>
              /\ x \in Snapshot /\ x.version <= Len(log)
              /\ \A n \in Namespace : PartTrue(x.part[n], n, x.version)
BY NoSnapshotIsNone DEF TrueSnap, Snap, SnapTrue

LEMMA ServerContentType ==
  ASSUME NEW n, NEW v \in Nat
  PROVE  ServerContent(n, v) \subseteq Nat
BY DEF ServerContent

LEMMA MarkGood ==
  ASSUME NEW x \in TrueSnap, NEW S, NEW st \in {"stale", "invalidated"}
  PROVE  /\ Mark(x, S, st) \in TrueSnap
         /\ Mark(x, S, st) = NoSnapshot <=> x = NoSnapshot
         /\ x # NoSnapshot =>
              /\ Mark(x, S, st).version = x.version
              /\ \A n \in Namespace :
                   /\ Mark(x, S, st).part[n].content = x.part[n].content
                   /\ Mark(x, S, st).part[n].version = x.part[n].version
                   /\ Mark(x, S, st).part[n].status = "fresh" => n \notin S /\ x.part[n].status = "fresh"
<1>1. CASE x = NoSnapshot
  BY <1>1 DEF Mark
<1>2. CASE x # NoSnapshot
  <2> DEFINE part == [n \in Namespace |->
               IF n \in S /\ x.part[n].status # "missing" THEN [x.part[n] EXCEPT !.status = st]
               ELSE x.part[n]]
             y == Mark(x, S, st)
  <2>1. /\ x \in Snapshot /\ x.version <= Len(log)
        /\ \A n \in Namespace : x.part[n] \in Part /\ PartTrue(x.part[n], n, x.version)
    BY <1>2, TrueSnapIs DEF Snapshot
  <2>2. y = [x EXCEPT !.part = part]
    BY <1>2 DEF Mark
  <2>3. ASSUME NEW n \in Namespace
        PROVE  /\ part[n] \in Part /\ part[n].content = x.part[n].content
               /\ part[n].version = x.part[n].version /\ part[n].source = x.part[n].source
               /\ part[n].status = "fresh" => n \notin S /\ x.part[n].status = "fresh"
    <3> PICK p : p = x.part[n]
      OBVIOUS
    <3>1. p \in Part
      BY <2>1
    <3>2. part[n] = IF n \in S /\ p.status # "missing" THEN [p EXCEPT !.status = st] ELSE p
      OBVIOUS
    <3>3. [p EXCEPT !.status = st] \in Part
      BY <3>1 DEF Part, Status
    <3> HIDE DEF part
    <3> QED BY <3>1, <3>2, <3>3 DEF Part
  <2>4. part \in [Namespace -> Part]
    BY <2>3
  <2> HIDE DEF part
  <2>5. y \in Snapshot /\ y.version = x.version /\ y.part = part
    BY <2>1, <2>2, <2>4 DEF Snapshot
  <2>6. \A n \in Namespace : PartTrue(part[n], n, x.version)
    BY <2>1, <2>3 DEF PartTrue
  <2> HIDE DEF y
  <2>7. y \in TrueSnap /\ y # NoSnapshot
    BY <2>1, <2>5, <2>6, TrueSnapIs
  <2> QED BY <1>2, <2>3, <2>5, <2>7 DEF y
<1> QED BY <1>1, <1>2

LEMMA MergeGood ==
  ASSUME log \in Seq(Entry), NEW x \in TrueSnap, NEW v \in Nat, v <= Len(log),
         x # NoSnapshot => x.version <= v, NEW S
  PROVE  /\ Merge(x, v, S) \in TrueSnap /\ Merge(x, v, S) # NoSnapshot
         /\ Merge(x, v, S).version = v
         /\ \A n \in S \cap Namespace : Merge(x, v, S).part[n].content = ServerContent(n, v)
<1> DEFINE part == [n \in Namespace |-> IF n \in S THEN Fetched(n, v)
                                         ELSE IF x = NoSnapshot THEN Missing ELSE x.part[n]]
           y == Merge(x, v, S)
<1>1. y = [version |-> v, part |-> part]
  BY DEF Merge
<1>2. ASSUME NEW n \in Namespace PROVE part[n] \in Part /\ PartTrue(part[n], n, v)
  <2>1. CASE n \in S
    <3>1. part[n] = Fetched(n, v)
      BY <2>1
    <3>2. Fetched(n, v) \in Part
      BY ServerContentType DEF Fetched, Part, Status
    <3>3. PartTrue(Fetched(n, v), n, v)
      BY DEF Fetched, PartTrue
    <3> QED BY <3>1, <3>2, <3>3
  <2>2. CASE n \notin S /\ x = NoSnapshot
    BY <2>2 DEF Missing, Part, Status, PartTrue
  <2>3. CASE n \notin S /\ x # NoSnapshot
    <3>1. part[n] = x.part[n] /\ x.version \in Nat /\ x.part[n] \in Part
      BY <2>3, SnapType DEF TrueSnap
    <3>2. PartTrue(x.part[n], n, x.version)
      BY <2>3, TrueSnapIs
    <3>3. x.part[n].version \in Nat
      BY <3>1 DEF Part
    <3> HIDE DEF part
    <3> QED BY <2>3, <3>1, <3>2, <3>3 DEF PartTrue
  <2> QED BY <2>1, <2>2, <2>3
<1>3. \A n \in S \cap Namespace : part[n].content = ServerContent(n, v)
  BY DEF Fetched
<1>4. part \in [Namespace -> Part]
  BY <1>2
<1> HIDE DEF part
<1>5. y \in Snapshot /\ y.version = v /\ y.part = part
  BY <1>1, <1>4 DEF Snapshot
<1> HIDE DEF y
<1> QED BY <1>2, <1>3, <1>5, TrueSnapIs DEF y

LEMMA CommittedGood ==
  ASSUME log \in Seq(Entry), NEW x \in TrueSnap, x # NoSnapshot, NEW o \in Operation,
         NEW v \in DOMAIN log, log[v].namespace = o.writes, x.version <= v
  PROVE  /\ Committed(x, o, v) \in TrueSnap /\ Committed(x, o, v) # NoSnapshot
         /\ v \in Committed(x, o, v).part[o.writes].content
<1> DEFINE w == o.writes
           new == [status |-> "fresh", version |-> v, source |-> "local",
                   content |-> x.part[w].content \cup {v}]
           part == [x.part EXCEPT ![w] = new]
           y == [version |-> v, part |-> part]
<1>1. w \in Namespace
  BY ProjectSessionAssumption
<1>2. /\ x \in Snapshot /\ x.version \in Nat /\ x.part \in [Namespace -> Part]
      /\ \A n \in Namespace : x.part[n] \in Part /\ PartTrue(x.part[n], n, x.version)
  BY SnapType, TrueSnapIs DEF TrueSnap
<1>3. v \in Nat /\ v <= Len(log)
  OBVIOUS
<1> HIDE DEF w
<1>4. Committed(x, o, v) = Mark(y, o.invalidates, "invalidated")
  BY DEF Committed, w
<1>5. new \in Part /\ PartTrue(new, w, v) /\ new.content = x.part[w].content \cup {v}
  <2>1. x.part[w].version \in Nat /\ x.part[w].version <= v /\ x.part[w].content \subseteq Nat
    BY <1>1, <1>2, <1>3 DEF Part, PartTrue
  <2>2. ServerContent(w, x.part[w].version) \subseteq ServerContent(w, v)
    BY <1>3, <2>1 DEF ServerContent
  <2>3. v \in ServerContent(w, v)
    BY <1>3 DEF ServerContent, w
  <2>4. x.part[w].content \subseteq ServerContent(w, v)
    BY <1>1, <1>2, <2>2 DEF PartTrue
  <2> QED BY <1>3, <2>1, <2>3, <2>4 DEF Part, Status, PartTrue
<1> HIDE DEF new
<1>6. /\ part \in [Namespace -> Part] /\ part[w] = new
      /\ \A n \in Namespace \ {w} : part[n] = x.part[n]
  BY <1>1, <1>2, <1>5
<1> HIDE DEF part
<1>7. \A n \in Namespace : PartTrue(part[n], n, v)
  <2>1. ASSUME NEW n \in Namespace, n # w PROVE PartTrue(part[n], n, v)
    <3>1. x.part[n].version \in Nat
      BY <1>2 DEF Part
    <3> QED BY <1>2, <1>3, <1>6, <2>1, <3>1 DEF PartTrue
  <2> QED BY <1>5, <1>6, <2>1
<1>8. y \in Snapshot /\ y.version = v /\ y.part = part
  BY <1>3, <1>6 DEF Snapshot
<1> HIDE DEF y
<1>9. y \in TrueSnap /\ y # NoSnapshot
  BY <1>3, <1>7, <1>8, TrueSnapIs
<1> QED BY <1>1, <1>4, <1>5, <1>6, <1>8, <1>9, MarkGood DEF w

LEMMA LoadedGood ==
  ASSUME TypeInv, NEW s \in Session
  PROVE  Loaded(s) \in TrueSnap /\ memory[s] \in TrueSnap /\ file \in TrueSnap
BY DEF TypeInv, Loaded

(***************************************************************************)
(* The states of a call.                                                   *)
(***************************************************************************)

Done == {"committed", "sync", "reconcile"}

\* What call c may do next.
Good(c, k) ==
  \/ k \in ActiveCall /\ ActiveFacts(c, k)
  \/ k \in OverCall /\ OverFacts(c, k)

\* All that a call has saved is in the namespace its operation writes.
OwnEntries(c, k) == \A i \in SavedBy(c) : log[i].namespace = k.op.writes

LEMMA Numbers ==
  /\ Version = Nat /\ Attempt \subseteq Nat /\ Txn \subseteq Nat /\ Sent \subseteq Nat
  /\ 0 \in Version /\ 0 \in Attempt /\ {1, 2} \subseteq Txn /\ {0, 1, 2} \subseteq Sent
BY ProjectSessionAssumption DEF Version, Attempt, Txn, Sent

LEMMA FetchGood ==
  ASSUME NEW c, NEW k \in ActiveCall, OwnEntries(c, k),
         NEW x \in TrueSnap, NEW S \in SUBSET Namespace,
         NEW a \in {"ensure", "retry", "conflict", "mark", "committed", "sync", "reconcile"},
         a = "ensure" => SavedBy(c) = {},
         a = "retry" => /\ k.op.kind \in {"mutate", "generated"}
                        /\ \A i \in SavedBy(c) : i < Len(log)
                        /\ k.op.kind = "generated" => SavedBy(c) = {},
         a \in Done => SavedBy(c) # {} /\ k.op.writes \in S,
         a \notin Done => (SavedBy(c) # {} => k.faulty)
  PROVE  Good(c, Fetch(k, x, S, a))
<1> DEFINE f == Fetch(k, x, S, a)
<1>1. /\ f \in ActiveCall /\ f.phase = "fetch" /\ f.base = x /\ f.need = S /\ f.after = a
      /\ f.answer = "none" /\ f.op = k.op /\ f.faulty = k.faulty
  BY Numbers DEF ActiveCall, ActivePhase, Fetch, Dealt
<1> HIDE DEF f
<1>2. Moving(f) /\ (Reporting(f) <=> a \in Done)
  BY <1>1 DEF Moving, Reporting, Done
<1>3. Kinds(f) /\ Ready(c, f) /\ Honest(c, f) /\ Showing(c, f)
  BY <1>1, <1>2 DEF Kinds, Ready, Honest, Showing
<1>4. Apart(c, f)
  BY <1>1, <1>2 DEF Apart
<1> QED BY <1>1, <1>3, <1>4 DEF Good, ActiveFacts, OwnEntries, f

LEMMA TrySaveGood ==
  ASSUME NEW c, NEW k \in ActiveCall, OwnEntries(c, k), NEW s,
         NEW x \in TrueSnap, x # NoSnapshot,
         k.after = "ensure" => SavedBy(c) = {},
         k.after = "retry" => /\ k.op.kind \in {"mutate", "generated"}
                              /\ \A i \in SavedBy(c) : i < Len(log) /\ i < x.version
                              /\ k.op.kind = "generated" => SavedBy(c) = {},
         k.after \in Done => /\ k.op.writes \in k.need
                             /\ SavedBy(c) \cap x.part[k.op.writes].content # {},
         k.after \notin Done => (SavedBy(c) # {} => k.faulty)
  PROVE  Good(c, TrySave(k, x, s))
<1> DEFINE f == TrySave(k, x, s)
<1>1. /\ f \in ActiveCall /\ f.phase \in {"save", "busy"} /\ f.base = x /\ f.need = k.need
      /\ f.after = k.after /\ f.answer = "none" /\ f.op = k.op /\ f.faulty = k.faulty
  BY Numbers DEF ActiveCall, ActivePhase, TrySave, Dealt
<1> HIDE DEF f
<1>2. Moving(f) /\ (Reporting(f) <=> k.after \in Done)
  BY <1>1 DEF Moving, Reporting, Done
<1>3. Kinds(f) /\ Ready(c, f) /\ Honest(c, f) /\ Showing(c, f)
  BY <1>1, <1>2 DEF Kinds, Ready, Honest, Showing
<1>4. Apart(c, f)
  BY <1>1, <1>2 DEF Apart
<1> QED BY <1>1, <1>3, <1>4 DEF Good, ActiveFacts, OwnEntries, f

LEMMA PlanningIs ==
  ASSUME NEW k \in ActiveCall, NEW x \in TrueSnap, NEW t \in Txn,
         NEW f, f = Planning(k, x) \/ f = [Planning(k, x) EXCEPT !.txn = t]
  PROVE  /\ f \in ActiveCall /\ f.phase = "plan" /\ f.base = x /\ f.after = k.after
         /\ f.answer = k.answer /\ f.op = k.op /\ f.faulty = k.faulty
<1> DEFINE g == Planning(k, x)
<1>1. /\ g \in ActiveCall /\ g.phase = "plan" /\ g.base = x /\ g.after = k.after
      /\ g.answer = k.answer /\ g.op = k.op /\ g.faulty = k.faulty
  BY Numbers DEF ActiveCall, ActivePhase, Planning
<1> HIDE DEF g
<1>2. [g EXCEPT !.txn = t] \in ActiveCall
  BY <1>1 DEF ActiveCall
<1> QED BY <1>1, <1>2 DEF ActiveCall, g

LEMMA PlanningGood ==
  ASSUME NEW c, NEW k \in ActiveCall, OwnEntries(c, k), k.answer # "ok",
         NEW x \in TrueSnap, x # NoSnapshot, NEW t \in Txn,
         k.after \in {"ensure", "retry", "mark"}, k.op.kind \in Mutations,
         \A i \in SavedBy(c) : i < x.version,
         k.op.kind = "generated" => SavedBy(c) = {},
         SavedBy(c) # {} => k.faulty
  PROVE  Good(c, Planning(k, x)) /\ Good(c, [Planning(k, x) EXCEPT !.txn = t])
<1>2. ASSUME NEW f, f = Planning(k, x) \/ f = [Planning(k, x) EXCEPT !.txn = t]
      PROVE  Good(c, f)
  <2>1. /\ f \in ActiveCall /\ f.phase = "plan" /\ f.base = x /\ f.after = k.after
        /\ f.answer = k.answer /\ f.op = k.op /\ f.faulty = k.faulty
    BY <1>2, PlanningIs
  <2>2. ~Moving(f) /\ ~Reporting(f)
    BY <2>1 DEF Moving, Reporting
  <2>3. Kinds(f) /\ Ready(c, f) /\ Honest(c, f) /\ Showing(c, f)
    BY <2>1, <2>2 DEF Kinds, Ready, Honest, Showing
  <2>4. k.op.kind # "server"
    BY DEF Mutations
  <2>5. Apart(c, f)
    BY <2>1, <2>2, <2>4 DEF Apart
  <2> QED BY <2>1, <2>3, <2>5 DEF Good, ActiveFacts, OwnEntries
<1> QED BY <1>2

LEMMA OverGood ==
  ASSUME NEW c, NEW k \in ActiveCall, OwnEntries(c, k), NEW b \in BOOLEAN, NEW x \in TrueSnap,
         b => /\ SavedBy(c) # {}
              /\ x # NoSnapshot /\ x.part[k.op.writes].status = "fresh" =>
                   SavedBy(c) \cap x.part[k.op.writes].content # {},
         SavedBy(c) # {} => b \/ k.faulty
  PROVE  Good(c, Over(c, k, b, x))
<1> DEFINE f == Over(c, k, b, x)
<1>1. /\ f \in OverCall /\ f.committed = b /\ f.shown = x /\ f.op = k.op /\ f.faulty = k.faulty
  BY DEF ActiveCall, OverCall, Over
<1> HIDE DEF f
<1> QED BY <1>1 DEF Good, OverFacts, OwnEntries, Told, f

\* A step of call c in its own process.
Effect(c) ==
  /\ UNCHANGED << log, faults >>
  /\ file' \in TrueSnap
  /\ memory' \in [Session -> TrueSnap]
  /\ known' \in [Session -> {"none", "current", "old"}]
  /\ \E k : Good(c, k) /\ call' = [call EXCEPT ![c] = k]

LEMMA LoadType ==
  ASSUME TypeInv, NEW s \in Session, Load(s) \/ Reload(s)
  PROVE  memory' \in [Session -> TrueSnap] /\ known' \in [Session -> {"none", "current", "old"}]
BY LoadedGood DEF TypeInv, Load, Reload

LEMMA EnsureStep ==
  ASSUME TypeInv, NEW c \in Call, NEW k \in ActiveCall, call[c] = k, ActiveFacts(c, k), Ensure(c)
  PROVE  Effect(c)
<1> DEFINE x == Loaded(k.session)
           missing == IF k.op.kind = "refresh" THEN k.op.needs ELSE NeedingRemote(x, k.op.needs)
<1>1. /\ k.phase = "ensure" /\ Load(k.session) /\ UNCHANGED << log, file, faults >>
      /\ call' = [call EXCEPT ![c] =
           IF missing # {} THEN Fetch(k, x, missing, "ensure")
           ELSE IF k.op.kind = "read" THEN Over(c, k, FALSE, x)
           ELSE Planning(k, x)]
  BY DEF Ensure, Set
<1>2. k.session \in Session /\ k.op \in Operation /\ x \in TrueSnap
  BY LoadedGood DEF ActiveCall
<1>3. /\ OwnEntries(c, k) /\ SavedBy(c) = {} /\ k.answer # "ok" /\ ~Moving(k)
      /\ k.op.kind \notin {"server", "markStale"} /\ k.after \in {"ensure", "retry", "mark"}
  BY <1>1 DEF ActiveFacts, OwnEntries, Apart, Kinds, Ready, Moving
<1>4. missing \subseteq Namespace
  BY <1>2, ProjectSessionAssumption DEF NeedingRemote
<1>5. missing = {} => x # NoSnapshot
  BY <1>2, <1>3, ProjectSessionAssumption DEF NeedingRemote
<1>6. missing = {} /\ k.op.kind # "read" => k.op.kind \in Mutations
  BY <1>2, <1>3, ProjectSessionAssumption DEF Mutations
<1>7. Good(c, Fetch(k, x, missing, "ensure"))
  BY <1>2, <1>3, <1>4, FetchGood DEF Done
<1>8. Good(c, Over(c, k, FALSE, x))
  BY <1>2, <1>3, OverGood
<1> HIDE DEF x, missing
<1>9. missing = {} /\ k.op.kind # "read" => Good(c, Planning(k, x))
  BY <1>2, <1>3, <1>5, <1>6, PlanningGood, Numbers
<1>10. file' \in TrueSnap
  BY <1>1, <1>2, LoadedGood
<1> QED BY <1>1, <1>2, <1>7, <1>8, <1>9, <1>10, LoadType DEF Effect

LEMMA SameProcess ==
  ASSUME TypeInv, UNCHANGED << file, memory, known >>
  PROVE  /\ file' \in TrueSnap /\ memory' \in [Session -> TrueSnap]
         /\ known' \in [Session -> {"none", "current", "old"}]
BY DEF TypeInv

LEMMA PlanStep ==
  ASSUME TypeInv, NEW c \in Call, NEW k \in ActiveCall, call[c] = k, ActiveFacts(c, k), Plan(c)
  PROVE  Effect(c)
<1> DEFINE f == [k EXCEPT !.phase = IF k.op.kind = "generated" THEN "server" ELSE "commit",
                          !.sent = 1]
           g == Over(c, k, FALSE, k.base)
<1>1. /\ k.phase = "plan" /\ UNCHANGED << log, file, memory, known, faults >>
      /\ call' = [call EXCEPT ![c] = f] \/ call' = [call EXCEPT ![c] = g]
  BY DEF Plan, Set
<1>2. /\ OwnEntries(c, k) /\ k.answer # "ok" /\ ~Moving(k) /\ k.base # NoSnapshot
      /\ k.op.kind \in Mutations /\ k.after \in {"ensure", "retry", "mark"}
      /\ \A i \in SavedBy(c) : i < k.base.version
      /\ k.op.kind = "generated" => SavedBy(c) = {}
      /\ SavedBy(c) # {} => k.faulty
  BY <1>1 DEF ActiveFacts, OwnEntries, Apart, Kinds, Ready, Honest, Moving, Reporting
<1>3. Good(c, g)
  <2>1. k.base \in TrueSnap
    BY DEF ActiveCall
  <2> QED BY <1>2, <2>1, OverGood
<1>4. Good(c, f)
  <2>1. /\ f \in ActiveCall /\ f.base = k.base /\ f.after = k.after /\ f.sent = 1
        /\ f.answer = k.answer /\ f.op = k.op /\ f.faulty = k.faulty
        /\ f.phase = IF k.op.kind = "generated" THEN "server" ELSE "commit"
    <3>1. PICK p \in ActivePhase : p = IF k.op.kind = "generated" THEN "server" ELSE "commit"
      BY DEF ActivePhase
    <3>2. [k EXCEPT !.phase = p, !.sent = 1] \in ActiveCall
      BY Numbers DEF ActiveCall
    <3> QED BY <3>1, <3>2 DEF ActiveCall
  <2> HIDE DEF f
  <2>2. ~Moving(f) /\ ~Reporting(f)
    BY <2>1 DEF Moving, Reporting
  <2>3. Kinds(f) /\ Ready(c, f) /\ Honest(c, f) /\ Showing(c, f)
    BY <1>2, <2>1, <2>2 DEF Kinds, Ready, Honest, Showing, Mutations
  <2>4. \A i \in SavedBy(c) : i # k.base.version /\ ~(i > k.base.version)
    <3>1. k.base.version \in Nat /\ SavedBy(c) \subseteq Nat
      BY <1>2, SnapType DEF ActiveCall, TrueSnap, SavedBy, TypeInv
    <3> QED BY <1>2, <3>1
  <2>5. Apart(c, f)
    BY <1>2, <2>1, <2>2, <2>4 DEF Apart, Mutations
  <2> QED BY <1>2, <2>1, <2>3, <2>5 DEF Good, ActiveFacts, OwnEntries
<1> HIDE DEF f, g
<1> QED BY <1>1, <1>3, <1>4, SameProcess DEF Effect

LEMMA ReceiveStep ==
  ASSUME TypeInv, NEW c \in Call, NEW k \in ActiveCall, call[c] = k, ActiveFacts(c, k), Receive(c)
  PROVE  Effect(c)
<1> DEFINE x == Merge(k.base, k.version, k.need)
<1>1. /\ k.phase = "fetched" /\ UNCHANGED << log, file, memory, known, faults >>
      /\ call' = [call EXCEPT ![c] = TrySave(k, x, k.session)]
  BY DEF Receive, Set
<1>2. /\ OwnEntries(c, k) /\ Moving(k) /\ Kinds(k) /\ Ready(c, k) /\ Honest(c, k)
      /\ Showing(c, k) /\ Apart(c, k) /\ (Reporting(k) <=> k.after \in Done)
  BY <1>1 DEF ActiveFacts, OwnEntries, Moving, Reporting, Done
<1>3. /\ k.base \in TrueSnap /\ k.version \in Nat /\ k.version <= Len(log)
      /\ k.base # NoSnapshot => k.base.version <= k.version
      /\ \A i \in SavedBy(c) : i <= k.version
  BY <1>1, <1>2 DEF ActiveCall, Version, Ready
<1>4. /\ x \in TrueSnap /\ x # NoSnapshot /\ x.version = k.version
      /\ \A n \in k.need \cap Namespace : x.part[n].content = ServerContent(n, k.version)
  BY <1>3, MergeGood DEF TypeInv
<1> HIDE DEF x
<1>5. ASSUME k.after \in Done PROVE k.op.writes \in k.need /\ SavedBy(c) \cap x.part[k.op.writes].content # {}
  <2>1. k.op.writes \in k.need /\ k.op.writes \in Namespace
    BY <1>2, <1>5, ProjectSessionAssumption DEF Showing, ActiveCall
  <2>2. PICK i \in SavedBy(c) : i <= k.version /\ log[i].namespace = k.op.writes
    BY <1>2, <1>3, <1>5 DEF Honest, OwnEntries
  <2>3. i \in ServerContent(k.op.writes, k.version)
    BY <1>3, <2>2 DEF ServerContent, SavedBy, TypeInv
  <2> QED BY <1>4, <2>1, <2>2, <2>3
<1>6. k.after = "ensure" => SavedBy(c) = {}
  BY <1>2 DEF Apart
<1>7. k.after = "retry" => /\ k.op.kind \in {"mutate", "generated"}
                           /\ \A i \in SavedBy(c) : i < Len(log) /\ i < x.version
                           /\ k.op.kind = "generated" => SavedBy(c) = {}
  BY <1>1, <1>2, <1>4 DEF Apart, Kinds
<1>8. k.after \notin Done => (SavedBy(c) # {} => k.faulty)
  BY <1>1, <1>2 DEF Honest, Ready
<1>9. Good(c, TrySave(k, x, k.session))
  BY <1>2, <1>4, <1>5, <1>6, <1>7, <1>8, TrySaveGood
<1> QED BY <1>1, <1>9, SameProcess DEF Effect

LEMMA SaveStep ==
  ASSUME TypeInv, NEW c \in Call, NEW k \in ActiveCall, call[c] = k, ActiveFacts(c, k), Save(c)
  PROVE  Effect(c)
<1>1. /\ k.phase = "save" /\ UNCHANGED << log, faults >> /\ file' = k.base
      /\ memory' = [memory EXCEPT ![k.session] = k.base]
      /\ known' = [s \in Session |-> IF s = k.session THEN "current"
                                     ELSE IF known[s] = "current" THEN "old" ELSE known[s]]
      /\ call' = [call EXCEPT ![c] = Saved(c, k)]
  BY DEF Save, Set
<1>2. /\ OwnEntries(c, k) /\ Moving(k) /\ Kinds(k) /\ Ready(c, k) /\ Honest(c, k)
      /\ Showing(c, k) /\ Apart(c, k) /\ (Reporting(k) <=> k.after \in Done)
      /\ k.base \in TrueSnap /\ k.base # NoSnapshot /\ k.answer # "ok"
  BY <1>1 DEF ActiveFacts, OwnEntries, Moving, Reporting, Done, Ready, ActiveCall
<1>3. ASSUME k.after = "ensure" /\ k.op.kind \in Mutations
      PROVE  Good(c, Saved(c, k))
  <2>1. Saved(c, k) = Planning(k, k.base)
    BY <1>3 DEF Saved
  <2>2. SavedBy(c) = {}
    BY <1>2, <1>3 DEF Apart
  <2>3. /\ k.after \in {"ensure", "retry", "mark"} /\ \A i \in SavedBy(c) : i < k.base.version
        /\ 1 \in Txn
    BY <1>3, <2>2, Numbers
  <2>4. Good(c, Planning(k, k.base))
    BY <1>2, <1>3, <2>2, <2>3, PlanningGood
  <2> QED BY <2>1, <2>4
<1>4. ASSUME k.after = "retry"
      PROVE  Good(c, Saved(c, k))
  <2>1. Saved(c, k) = [Planning(k, k.base) EXCEPT !.txn = 2]
    BY <1>4 DEF Saved
  <2>2. /\ k.op.kind \in Mutations /\ \A i \in SavedBy(c) : i < k.base.version
        /\ k.op.kind = "generated" => SavedBy(c) = {}
        /\ SavedBy(c) # {} => k.faulty
    BY <1>1, <1>2, <1>4 DEF Apart, Kinds, Mutations, Honest, Reporting
  <2> QED BY <1>2, <1>4, <2>1, <2>2, PlanningGood, Numbers
<1>5. ASSUME ~(k.after = "ensure" /\ k.op.kind \in Mutations) /\ k.after # "retry"
      PROVE  Good(c, Saved(c, k))
  <2>1. Saved(c, k) = Over(c, k, k.after \in Done, k.base)
    BY <1>5 DEF Saved, Done
  <2>2. k.after \in Done => SavedBy(c) # {} /\ SavedBy(c) \cap k.base.part[k.op.writes].content # {}
    BY <1>1, <1>2 DEF Honest, Showing
  <2>3. SavedBy(c) # {} => k.after \in Done \/ k.faulty
    BY <1>1, <1>2 DEF Honest
  <2>4. (k.after \in Done) \in BOOLEAN
    OBVIOUS
  <2> QED BY <1>2, <2>1, <2>2, <2>3, <2>4, OverGood
<1>6. Good(c, Saved(c, k))
  BY <1>3, <1>4, <1>5
<1> QED BY <1>1, <1>2, <1>6 DEF Effect, TypeInv

\* Trying again, and other small changes of a call, keep its operation.
LEMMA AgainIs ==
  ASSUME NEW k \in ActiveCall, NEW a \in Attempt,
         NEW f, f = [k EXCEPT !.attempt = a]
  PROVE  /\ f \in ActiveCall /\ f.phase = k.phase /\ f.base = k.base /\ f.need = k.need
         /\ f.after = k.after /\ f.answer = k.answer /\ f.op = k.op /\ f.faulty = k.faulty
         /\ f.session = k.session
BY DEF ActiveCall

LEMMA RetryBusyStep ==
  ASSUME TypeInv, NEW c \in Call, NEW k \in ActiveCall, call[c] = k, ActiveFacts(c, k), RetryBusy(c)
  PROVE  Effect(c)
<1> DEFINE again == [k EXCEPT !.attempt = @ + 1]
           marking == [again EXCEPT !.phase = "markStale"]
           fetching == Fetch(again, file, k.need, k.after)
<1>1. /\ k.phase = "busy" /\ k.after # "committed" /\ k.attempt < BusyRetries
      /\ Reload(k.session) /\ UNCHANGED << log, file, faults >>
      /\ call' = [call EXCEPT ![c] = IF k.after = "mark" THEN marking ELSE fetching]
  BY DEF RetryBusy, Set
<1>2. /\ OwnEntries(c, k) /\ Moving(k) /\ Kinds(k) /\ Ready(c, k) /\ Honest(c, k)
      /\ Showing(c, k) /\ Apart(c, k) /\ (Reporting(k) <=> k.after \in Done)
      /\ k.session \in Session /\ file \in TrueSnap /\ k.answer # "ok"
  BY <1>1, LoadedGood DEF ActiveFacts, OwnEntries, Moving, Reporting, Done, Ready, ActiveCall
<1>3. /\ again \in ActiveCall /\ again.phase = k.phase /\ again.after = k.after
      /\ again.answer = k.answer /\ again.op = k.op /\ again.faulty = k.faulty
  <2>1. k.attempt \in 0 .. BusyRetries /\ BusyRetries \in Nat
    BY ProjectSessionAssumption DEF ActiveCall, Attempt
  <2>2. k.attempt + 1 \in Attempt
    BY <1>1, <2>1 DEF Attempt
  <2>3. again = [k EXCEPT !.attempt = k.attempt + 1]
    OBVIOUS
  <2> HIDE DEF again
  <2> QED BY <2>2, <2>3, AgainIs
<1> HIDE DEF again
<1>4. ASSUME k.after = "mark" PROVE Good(c, marking)
  <2>1. /\ marking \in ActiveCall /\ marking.phase = "markStale" /\ marking.after = "mark"
        /\ marking.answer = k.answer /\ marking.op = k.op /\ marking.faulty = k.faulty
    BY <1>3, <1>4 DEF ActiveCall, ActivePhase
  <2> HIDE DEF marking
  <2>2. ~Moving(marking) /\ ~Reporting(marking)
    BY <2>1 DEF Moving, Reporting
  <2>3. Kinds(marking) /\ Ready(c, marking) /\ Showing(c, marking) /\ Apart(c, marking)
    BY <1>2, <2>1, <2>2 DEF Kinds, Ready, Showing, Apart
  <2>4. Honest(c, marking)
    BY <1>2, <1>4, <2>1, <2>2 DEF Honest, Done
  <2> QED BY <1>2, <2>1, <2>3, <2>4 DEF Good, ActiveFacts, OwnEntries
<1>5. ASSUME k.after # "mark" PROVE Good(c, fetching)
  <2>1. k.need \in SUBSET Namespace /\ OwnEntries(c, again)
        /\ k.after \in {"ensure", "retry", "conflict", "mark", "committed", "sync", "reconcile"}
    BY <1>2, <1>3 DEF ActiveCall, OwnEntries
  <2>2. k.after = "ensure" => SavedBy(c) = {}
    BY <1>2 DEF Apart
  <2>3. k.after = "retry" => /\ k.op.kind \in {"mutate", "generated"}
                             /\ \A i \in SavedBy(c) : i < Len(log)
                             /\ k.op.kind = "generated" => SavedBy(c) = {}
    BY <1>2 DEF Apart, Kinds
  <2>4. k.after \in Done => SavedBy(c) # {} /\ k.op.writes \in k.need
    BY <1>2 DEF Honest, Showing
  <2>5. k.after \notin Done => (SavedBy(c) # {} => k.faulty)
    BY <1>2 DEF Honest
  <2> QED BY <1>2, <1>3, <2>1, <2>2, <2>3, <2>4, <2>5, FetchGood
<1> HIDE DEF marking, fetching
<1> QED BY <1>1, <1>2, <1>4, <1>5, LoadType DEF Effect

LEMMA GiveUpStep ==
  ASSUME TypeInv, NEW c \in Call, NEW k \in ActiveCall, call[c] = k, ActiveFacts(c, k), GiveUp(c)
  PROVE  Effect(c)
<1>1. /\ k.phase \in {"failed", "busy"} /\ k.after \in {"ensure", "retry", "conflict", "mark"}
      /\ UNCHANGED << log, file, memory, known, faults >>
      /\ call' = [call EXCEPT ![c] = Over(c, k, FALSE, NoSnapshot)]
  BY DEF GiveUp, Broken, Set
<1>2. OwnEntries(c, k) /\ (SavedBy(c) # {} => k.faulty)
  BY <1>1 DEF ActiveFacts, OwnEntries, Honest, Reporting, Ready
<1>3. Good(c, Over(c, k, FALSE, NoSnapshot))
  BY <1>2, TrueSnapIs, OverGood
<1> QED BY <1>1, <1>3, SameProcess DEF Effect

LEMMA ReconcileStep ==
  ASSUME TypeInv, NEW c \in Call, NEW k \in ActiveCall, call[c] = k, ActiveFacts(c, k), Reconcile(c)
  PROVE  Effect(c)
<1> DEFINE again == [k EXCEPT !.attempt = 0]
<1>1. /\ k.phase \in {"failed", "busy"} /\ k.after \in {"committed", "sync"}
      /\ Reload(k.session) /\ UNCHANGED << log, file, faults >>
      /\ call' = [call EXCEPT ![c] = Fetch(again, file, k.need, "reconcile")]
  BY DEF Reconcile, Broken, Set
<1>2. /\ OwnEntries(c, k) /\ SavedBy(c) # {} /\ k.op.writes \in k.need
      /\ k.session \in Session /\ file \in TrueSnap /\ k.need \in SUBSET Namespace
  BY <1>1, LoadedGood DEF ActiveFacts, OwnEntries, Moving, Reporting, Honest, Showing, ActiveCall
<1>3. again \in ActiveCall /\ again.op = k.op /\ OwnEntries(c, again)
  BY <1>2, AgainIs, Numbers DEF OwnEntries
<1> HIDE DEF again
<1>4. Good(c, Fetch(again, file, k.need, "reconcile"))
  BY <1>2, <1>3, FetchGood DEF Done
<1> QED BY <1>1, <1>2, <1>4, LoadType DEF Effect

LEMMA MarkUnreconciledStep ==
  ASSUME TypeInv, NEW c \in Call, NEW k \in ActiveCall, call[c] = k, ActiveFacts(c, k),
         MarkUnreconciled(c)
  PROVE  Effect(c)
<1> DEFINE s == k.session
           m == Mark(memory[s], k.need, "stale")
           x == IF k.shown = NoSnapshot THEN m ELSE Mark(k.shown, k.need, "stale")
<1>1. s \in Session /\ memory[s] \in TrueSnap /\ k.shown \in TrueSnap
  BY LoadedGood DEF ActiveCall
<1>2. /\ k.phase \in {"failed", "busy"} /\ k.after = "reconcile"
      /\ UNCHANGED << log, file, known, faults >>
      /\ memory' = [memory EXCEPT ![s] = m]
      /\ call' = [call EXCEPT ![c] = Over(c, k, TRUE, IF k.shown = NoSnapshot THEN memory'[s]
                                                      ELSE Mark(k.shown, k.need, "stale"))]
  BY DEF MarkUnreconciled, Broken, Set
<1>3. OwnEntries(c, k) /\ SavedBy(c) # {} /\ k.op.writes \in k.need /\ k.op.writes \in Namespace
  BY <1>2, ProjectSessionAssumption
     DEF ActiveFacts, OwnEntries, Moving, Reporting, Honest, Showing, ActiveCall
<1>4. m \in TrueSnap /\ x \in TrueSnap /\ (x # NoSnapshot => x.part[k.op.writes].status # "fresh")
  BY <1>1, <1>3, MarkGood
<1> HIDE DEF m
<1>5. memory' \in [Session -> TrueSnap] /\ memory'[s] = m
  BY <1>1, <1>2, <1>4 DEF TypeInv
<1>6. call' = [call EXCEPT ![c] = Over(c, k, TRUE, x)]
  BY <1>2, <1>5
<1> HIDE DEF x
<1>7. Good(c, Over(c, k, TRUE, x))
  BY <1>3, <1>4, OverGood
<1> QED BY <1>2, <1>5, <1>6, <1>7 DEF Effect, TypeInv

LEMMA CommitOkStep ==
  ASSUME TypeInv, NEW c \in Call, NEW k \in ActiveCall, call[c] = k, ActiveFacts(c, k), CommitOk(c)
  PROVE  Effect(c)
<1> DEFINE x == Committed(k.base, k.op, k.version)
           f == [k EXCEPT !.after = "committed", !.attempt = 0, !.shown = x,
                          !.need = k.op.needs \cup k.op.invalidates]
<1>1. /\ k.phase = "answered" /\ k.answer = "ok"
      /\ UNCHANGED << log, file, memory, known, faults >>
      /\ call' = [call EXCEPT ![c] = TrySave(f, x, k.session)]
  BY DEF CommitOk, Set
<1>2. /\ OwnEntries(c, k) /\ k.version \in SavedBy(c) /\ k.base # NoSnapshot
      /\ k.base.version <= k.version /\ k.op.kind \in {"mutate", "restore"}
      /\ k.base \in TrueSnap /\ k.op \in Operation
  BY <1>1 DEF ActiveFacts, OwnEntries, Kinds, Ready, ActiveCall
<1>3. /\ k.op.writes \in k.op.needs /\ k.op.needs \cup k.op.invalidates \in SUBSET Namespace
  BY <1>2, ProjectSessionAssumption
<1>4. k.version \in DOMAIN log /\ log[k.version].namespace = k.op.writes
  BY <1>2 DEF SavedBy, OwnEntries
<1>5. x \in TrueSnap /\ x # NoSnapshot /\ k.version \in x.part[k.op.writes].content
  BY <1>2, <1>4, CommittedGood DEF TypeInv
<1> HIDE DEF x
<1>6. /\ f \in ActiveCall /\ f.after = "committed" /\ f.op = k.op
      /\ f.need = k.op.needs \cup k.op.invalidates
  BY <1>3, <1>5, Numbers DEF ActiveCall
<1> HIDE DEF f
<1>7. OwnEntries(c, f)
  BY <1>2, <1>6 DEF OwnEntries
<1>8. Good(c, TrySave(f, x, k.session))
  <2>1. f.op.writes \in f.need /\ SavedBy(c) \cap x.part[f.op.writes].content # {}
    BY <1>2, <1>3, <1>5, <1>6
  <2> QED BY <1>5, <1>6, <1>7, <2>1, TrySaveGood DEF Done
<1> QED BY <1>1, <1>8, SameProcess DEF Effect

LEMMA ConfirmStep ==
  ASSUME TypeInv, NEW c \in Call, NEW k \in ActiveCall, call[c] = k, ActiveFacts(c, k), Confirm(c)
  PROVE  Effect(c)
<1> DEFINE f == [k EXCEPT !.phase = "commit", !.sent = 2]
<1>1. /\ k.phase = "answered" /\ k.answer = "conflict"
      /\ UNCHANGED << log, file, memory, known, faults >>
      /\ call' = [call EXCEPT ![c] = f]
  BY DEF Confirm, Set
<1>2. OwnEntries(c, k) /\ Kinds(k) /\ Ready(c, k) /\ Honest(c, k) /\ Apart(c, k)
  BY DEF ActiveFacts, OwnEntries
<1>3. /\ f \in ActiveCall /\ f.phase = "commit" /\ f.base = k.base /\ f.after = k.after
      /\ f.answer = k.answer /\ f.op = k.op /\ f.faulty = k.faulty /\ f.txn = k.txn
  <2>1. 2 \in Sent /\ "commit" \in ActivePhase
    BY Numbers DEF ActivePhase
  <2> QED BY <2>1 DEF ActiveCall
<1> HIDE DEF f
<1>4. ~Moving(f) /\ ~Reporting(f) /\ ~Moving(k) /\ ~Reporting(k)
  BY <1>1, <1>3 DEF Moving, Reporting
<1>5. Kinds(f) /\ Ready(c, f) /\ Honest(c, f) /\ Showing(c, f)
  BY <1>1, <1>2, <1>3, <1>4 DEF Kinds, Ready, Honest, Showing
<1>6. Apart(c, f)
  BY <1>1, <1>2, <1>3, <1>4 DEF Apart
<1> QED BY <1>1, <1>2, <1>3, <1>5, <1>6, SameProcess DEF Effect, Good, ActiveFacts, OwnEntries

\* A conflict: the call ends, or fetches to be tried again.
LEMMA ConflictGood ==
  ASSUME TypeInv, NEW c \in Call, NEW k \in ActiveCall, call[c] = k, OwnEntries(c, k),
         NEW certain \in BOOLEAN, Conflict(c, k, certain),
         k.op.kind \in {"mutate", "restore", "server", "generated"},
         SavedBy(c) # {} => k.faulty,
         certain => /\ \A i \in SavedBy(c) : i < Len(log)
                    /\ k.op.kind = "generated" => SavedBy(c) = {},
         UNCHANGED << log, file, faults >>
  PROVE  Effect(c)
<1> DEFINE again == [k EXCEPT !.attempt = 0]
           after == IF k.op.retryOnConflict /\ certain THEN "retry" ELSE "conflict"
<1>1. \/ /\ UNCHANGED << memory, known >>
         /\ call' = [call EXCEPT ![c] = Over(c, k, FALSE, NoSnapshot)]
      \/ /\ k.op.kind \in {"mutate", "generated"} /\ Load(k.session)
         /\ call' = [call EXCEPT ![c] = Fetch(again, Loaded(k.session), k.op.needs, after)]
  BY DEF Conflict, Set
<1>2. /\ k.session \in Session /\ Loaded(k.session) \in TrueSnap /\ file \in TrueSnap
      /\ k.op.needs \in SUBSET Namespace
  BY LoadedGood, ProjectSessionAssumption DEF ActiveCall
<1>3. again \in ActiveCall /\ again.op = k.op /\ again.faulty = k.faulty /\ OwnEntries(c, again)
  BY AgainIs, Numbers DEF OwnEntries
<1>4. Good(c, Over(c, k, FALSE, NoSnapshot))
  BY TrueSnapIs, OverGood
<1> HIDE DEF again
<1>5. after \in {"retry", "conflict"} /\ (after = "retry" => certain)
  OBVIOUS
<1> HIDE DEF after
<1>6. ASSUME k.op.kind \in {"mutate", "generated"}
      PROVE  Good(c, Fetch(again, Loaded(k.session), k.op.needs, after))
  BY <1>2, <1>3, <1>5, <1>6, FetchGood DEF Done
<1> QED BY <1>1, <1>2, <1>4, <1>6, LoadType, SameProcess DEF Effect

LEMMA CommitConflictStep ==
  ASSUME TypeInv, NEW c \in Call, NEW k \in ActiveCall, call[c] = k, ActiveFacts(c, k),
         CommitConflict(c)
  PROVE  Effect(c)
<1>1. /\ k.phase = "answered" /\ k.answer \in {"conflict", "error"} /\ k.sent = 2
      /\ Conflict(c, k, k.answer = "conflict") /\ UNCHANGED << log, file, faults >>
  BY DEF CommitConflict
<1>2. /\ OwnEntries(c, k) /\ k.op.kind \in {"mutate", "restore"} /\ (SavedBy(c) # {} => k.faulty)
      /\ k.answer = "conflict" => Len(log) \notin SavedBy(c)
  BY <1>1 DEF ActiveFacts, OwnEntries, Kinds, Honest, Reporting, Moving, Apart
<1>3. k.answer = "conflict" => \A i \in SavedBy(c) : i < Len(log)
  BY <1>2 DEF SavedBy, TypeInv
<1>4. (k.answer = "conflict") \in BOOLEAN
  OBVIOUS
<1> QED BY <1>1, <1>2, <1>3, <1>4, ConflictGood

LEMMA CommitErrorStep ==
  ASSUME TypeInv, NEW c \in Call, NEW k \in ActiveCall, call[c] = k, ActiveFacts(c, k),
         CommitError(c)
  PROVE  Effect(c)
<1>1. /\ k.phase = "answered" /\ k.answer = "error"
      /\ UNCHANGED << log, file, memory, known, faults >>
      /\ call' = [call EXCEPT ![c] = Over(c, k, FALSE, NoSnapshot)]
  BY DEF CommitError, Set
<1>2. OwnEntries(c, k) /\ (SavedBy(c) # {} => k.faulty)
  BY <1>1 DEF ActiveFacts, OwnEntries, Honest, Reporting, Moving
<1>3. Good(c, Over(c, k, FALSE, NoSnapshot))
  BY <1>2, TrueSnapIs, OverGood
<1> QED BY <1>1, <1>3, SameProcess DEF Effect

LEMMA OperationOkStep ==
  ASSUME TypeInv, NEW c \in Call, NEW k \in ActiveCall, call[c] = k, ActiveFacts(c, k),
         OperationOk(c)
  PROVE  Effect(c)
<1> DEFINE s == k.session
           f == [k EXCEPT !.attempt = 0, !.shown = Mark(memory[s], k.op.invalidates, "invalidated")]
<1>1. /\ k.phase = "served" /\ k.answer = "ok" /\ Load(s) /\ UNCHANGED << log, file, faults >>
      /\ call' = [call EXCEPT ![c] = Fetch(f, Loaded(s), k.op.invalidates, "sync")]
  BY DEF OperationOk, Set
<1>2. /\ OwnEntries(c, k) /\ k.version \in SavedBy(c) /\ k.op.kind \in {"server", "generated"}
      /\ s \in Session /\ k.op \in Operation
  BY <1>1 DEF ActiveFacts, OwnEntries, Kinds, Ready, ActiveCall
<1>3. k.op.writes \in k.op.invalidates /\ k.op.invalidates \in SUBSET Namespace
  BY <1>2, ProjectSessionAssumption
<1>4. Loaded(s) \in TrueSnap /\ memory[s] \in TrueSnap /\ file \in TrueSnap
  BY <1>2, LoadedGood
<1>5. f \in ActiveCall /\ f.op = k.op
  <2> PICK m \in TrueSnap : m = Mark(memory[s], k.op.invalidates, "invalidated")
    BY <1>4, MarkGood
  <2> QED BY Numbers DEF ActiveCall
<1> HIDE DEF f
<1>6. Good(c, Fetch(f, Loaded(s), k.op.invalidates, "sync"))
  <2>1. OwnEntries(c, f)
    BY <1>2, <1>5 DEF OwnEntries
  <2> QED BY <1>2, <1>3, <1>4, <1>5, <2>1, FetchGood DEF Done
<1> QED BY <1>1, <1>2, <1>4, <1>6, LoadType DEF Effect

LEMMA OperationFailedStep ==
  ASSUME TypeInv, NEW c \in Call, NEW k \in ActiveCall, call[c] = k, ActiveFacts(c, k),
         OperationFailed(c)
  PROVE  Effect(c)
<1>1. /\ k.phase = "served" /\ k.answer # "ok" /\ UNCHANGED << log, file, faults >>
      /\ \/ k.answer = "conflict" /\ Conflict(c, k, TRUE)
         \/ /\ UNCHANGED << memory, known >>
            /\ call' = [call EXCEPT ![c] = Over(c, k, FALSE, NoSnapshot)]
  BY DEF OperationFailed, Set
<1>2. /\ OwnEntries(c, k) /\ k.op.kind \in {"server", "generated"} /\ (SavedBy(c) # {} => k.faulty)
      /\ k.answer = "conflict" => SavedBy(c) = {}
  BY <1>1 DEF ActiveFacts, OwnEntries, Kinds, Honest, Reporting, Moving, Apart
<1>3. Good(c, Over(c, k, FALSE, NoSnapshot))
  BY <1>2, TrueSnapIs, OverGood
<1>4. CASE k.answer = "conflict" /\ Conflict(c, k, TRUE)
  BY <1>1, <1>2, <1>4, ConflictGood
<1>5. CASE UNCHANGED << memory, known >> /\ call' = [call EXCEPT ![c] = Over(c, k, FALSE, NoSnapshot)]
  BY <1>1, <1>3, <1>5, SameProcess DEF Effect
<1> QED BY <1>1, <1>4, <1>5

LEMMA MarkStaleStep ==
  ASSUME TypeInv, NEW c \in Call, NEW k \in ActiveCall, call[c] = k, ActiveFacts(c, k),
         MarkStale(c)
  PROVE  Effect(c)
<1> DEFINE s == k.session
           x == Mark(memory[s], k.op.needs, "stale")
           f == [k EXCEPT !.after = "mark"]
<1>1. /\ k.phase = "markStale" /\ UNCHANGED << log, file, known, faults >>
      /\ memory' = [memory EXCEPT ![s] = x]
      /\ call' = [call EXCEPT ![c] = IF x = NoSnapshot THEN Over(c, k, FALSE, x) ELSE TrySave(f, x, s)]
  BY DEF MarkStale, Set
<1>2. /\ OwnEntries(c, k) /\ (SavedBy(c) # {} => k.faulty) /\ s \in Session
  BY <1>1 DEF ActiveFacts, OwnEntries, Honest, Reporting, Moving, Ready, ActiveCall
<1>3. x \in TrueSnap
  BY <1>2, LoadedGood, MarkGood
<1> HIDE DEF x
<1>4. Good(c, Over(c, k, FALSE, x))
  BY <1>2, <1>3, OverGood
<1>5. x # NoSnapshot => Good(c, TrySave(f, x, s))
  <2>1. /\ f \in ActiveCall /\ f.after = "mark" /\ f.op = k.op /\ f.faulty = k.faulty
        /\ OwnEntries(c, f)
    BY <1>2 DEF ActiveCall, OwnEntries
  <2> HIDE DEF f
  <2> QED BY <1>2, <1>3, <2>1, TrySaveGood DEF Done
<1> HIDE DEF f
<1> QED BY <1>1, <1>3, <1>4, <1>5 DEF Effect, TypeInv

(***************************************************************************)
(* The steps of the server and the network.                                *)
(***************************************************************************)

NotYet(c) == call[c] = Idle /\ SavedBy(c) = {}

CallsInv == \A c \in Call : Good(c, call[c]) \/ NotYet(c)

CoreInv == TypeInv /\ CallsInv /\ NotSavedTwiceInARow

LEMMA GoodIs ==
  ASSUME NEW c, NEW k, Good(c, k)
  PROVE  /\ k \in ActiveCall \cup OverCall /\ k # Idle
         /\ k.phase \notin {"idle"} /\ Facts(c, k)
         /\ k.phase = "over" => k \in OverCall /\ OverFacts(c, k)
         /\ k.phase # "over" => k \in ActiveCall /\ ActiveFacts(c, k)
BY DEF Good, Facts, ActiveCall, OverCall, ActivePhase, Idle

\* What another call, or a browser, has saved changes nothing.
LEMMA GoodLasts ==
  ASSUME log \in Seq(Entry), NEW c, NEW k, Good(c, k),
         UNCHANGED log \/ \E e \in Entry : e.call # c /\ log' = Append(log, e)
  PROVE  Good(c, k)'
<1>1. Facts(c, k) /\ k.phase # "idle" /\ k \in ActiveCall \cup OverCall
      /\ (k.phase = "over" <=> k \in OverCall)
      /\ (k.phase # "over" <=> k \in ActiveCall)
  BY GoodIs DEF OverCall, ActiveCall, ActivePhase
<1>2. Facts(c, k)'
  BY <1>1, SameLog, FactsLast
<1>3. Grows
  BY DEF Grows
<1>4. k \in ActiveCall' \cup OverCall' /\ (k.phase = "over" => k \in OverCall')
      /\ (k.phase # "over" => k \in ActiveCall')
  BY <1>1, <1>3, TypesLast
<1> QED BY <1>1, <1>2, <1>4 DEF Facts, Good

\* A step of call c, and of what it has asked the server for.
LEMMA CallChanges ==
  ASSUME CoreInv, NEW c \in Call,
         \/ UNCHANGED log
         \/ \E e \in Entry : /\ e.call = c /\ log' = Append(log, e)
                             /\ Len(log) \notin SavedBy(c),
         \E k : Good(c, k)' /\ call' = [call EXCEPT ![c] = k]
  PROVE  /\ CallsInv' /\ NotSavedTwiceInARow'
         /\ call' \in [Call -> ActiveCall' \cup OverCall' \cup {Idle}] /\ log' \in Seq(Entry)
<1>1. log \in Seq(Entry) /\ call \in [Call -> ActiveCall \cup OverCall \cup {Idle}]
  BY DEF CoreInv, TypeInv
<1>2. Grows
  BY DEF Grows
<1>3. PICK k : Good(c, k)' /\ call' = [call EXCEPT ![c] = k]
  OBVIOUS
<1>4. Good(c, call[c])'
  BY <1>1, <1>3
<1>5. ASSUME NEW d \in Call, d # c PROVE Good(d, call[d])' \/ NotYet(d)'
  <2> PICK j : j = call[d]
    OBVIOUS
  <2>1. call'[d] = j
    BY <1>1, <1>3, <1>5
  <2>2. UNCHANGED log \/ \E e \in Entry : e.call # d /\ log' = Append(log, e)
    BY <1>5
  <2>3. CASE Good(d, j)
    <3>1. Good(d, j)'
      BY <1>1, <2>2, <2>3, GoodLasts
    <3> QED BY <2>1, <3>1
  <2>4. CASE j = Idle /\ SavedBy(d) = {}
    <3>1. SavedBy(d)' = SavedBy(d)
      BY <1>1, <2>2, SavedByAppend DEF SavedBy
    <3> QED BY <2>1, <2>4, <3>1 DEF NotYet
  <2> QED BY <2>3, <2>4 DEF CoreInv, CallsInv, NotYet
<1>6. CallsInv'
  BY <1>4, <1>5 DEF CallsInv
<1>7. call' \in [Call -> ActiveCall' \cup OverCall' \cup {Idle}]
  <2>1. k \in ActiveCall' \cup OverCall'
    BY <1>3 DEF Good
  <2> QED BY <1>1, <1>2, <1>3, <2>1, TypesLast
<1>8. NotSavedTwiceInARow'
  <2>1. CASE UNCHANGED log
    BY <2>1 DEF CoreInv, NotSavedTwiceInARow
  <2>2. ASSUME NEW e \in Entry, e.call = c, log' = Append(log, e), Len(log) \notin SavedBy(c)
        PROVE  NotSavedTwiceInARow'
    <3> SUFFICES ASSUME NEW i \in 2 .. Len(log'), log'[i].call = log'[i - 1].call
                 PROVE  log'[i].call = Nobody
      BY DEF NotSavedTwiceInARow
    <3>1. /\ Len(log) \in Nat /\ Len(log') = Len(log) + 1 /\ DOMAIN log = 1 .. Len(log)
          /\ log'[Len(log) + 1] = e /\ \A h \in 1 .. Len(log) : log'[h] = log[h]
      BY <1>1, <2>2, LogAppend
    <3>2. CASE i = Len(log) + 1
      <4>1. Len(log) \in DOMAIN log /\ log[Len(log)].call = c
        <5>1. i - 1 = Len(log) /\ Len(log) \in 1 .. Len(log)
          BY <3>1, <3>2
        <5>2. log'[i] = e /\ log'[i - 1] = log[Len(log)]
          BY <3>1, <3>2, <5>1
        <5> QED BY <2>2, <3>1, <5>1, <5>2
      <4> QED BY <2>2, <4>1 DEF SavedBy
    <3>3. CASE i # Len(log) + 1
      <4>1. i \in 2 .. Len(log) /\ i \in 1 .. Len(log) /\ i - 1 \in 1 .. Len(log)
        BY <3>1, <3>3
      <4> QED BY <3>1, <4>1 DEF CoreInv, NotSavedTwiceInARow
    <3> QED BY <3>2, <3>3
  <2> QED BY <2>1, <2>2
<1>9. log' \in Seq(Entry)
  BY <1>1, <1>2, GrowsLen
<1> QED BY <1>6, <1>7, <1>8, <1>9

\* A step of call c at the server.
ServerEffect(c) ==
  /\ UNCHANGED << file, memory, known >>
  /\ \/ UNCHANGED log
     \/ \E e \in Entry : /\ e.call = c /\ log' = Append(log, e)
                         /\ Len(log) \notin SavedBy(c)
  /\ \E k : Good(c, k)' /\ call' = [call EXCEPT ![c] = k]

LEMMA CoreServer ==
  ASSUME CoreInv, NEW c \in Call, ServerEffect(c), faults' \in 0 .. MaxFaults
  PROVE  CoreInv'
<1>1. /\ CallsInv' /\ NotSavedTwiceInARow'
      /\ call' \in [Call -> ActiveCall' \cup OverCall' \cup {Idle}] /\ log' \in Seq(Entry)
  BY CallChanges DEF ServerEffect
<1>2. TrueSnap \subseteq TrueSnap'
  BY TruthLasts DEF ServerEffect, Grows, CoreInv, TypeInv
<1> QED BY <1>1, <1>2 DEF CoreInv, TypeInv, ServerEffect

LEMMA CoreCall ==
  ASSUME CoreInv, NEW c \in Call, Effect(c)
  PROVE  CoreInv'
<1>1. UNCHANGED log /\ faults' \in 0 .. MaxFaults
  BY DEF Effect, CoreInv, TypeInv
<1>2. TrueSnap' = TrueSnap /\ \E k : Good(c, k)' /\ call' = [call EXCEPT ![c] = k]
  <2>1. PICK k : Good(c, k) /\ call' = [call EXCEPT ![c] = k]
    BY DEF Effect
  <2>2. Good(c, k)'
    BY <1>1, <2>1, GoodLasts DEF CoreInv, TypeInv
  <2> QED BY <1>1, <2>1, <2>2, SameLog
<1>3. /\ CallsInv' /\ NotSavedTwiceInARow'
      /\ call' \in [Call -> ActiveCall' \cup OverCall' \cup {Idle}] /\ log' \in Seq(Entry)
  BY <1>1, <1>2, CallChanges
<1> QED BY <1>1, <1>2, <1>3 DEF CoreInv, TypeInv, Effect

\* A call that gets an answer.
Replied(k, p, a, v) == [k EXCEPT !.phase = p, !.answer = a, !.version = v]

LEMMA RepliedIs ==
  ASSUME NEW k \in ActiveCall, NEW p \in ActivePhase,
         NEW a \in {"none", "ok", "conflict", "error"}, NEW v \in Version
  PROVE  LET f == Replied(k, p, a, v)
         IN /\ f \in ActiveCall /\ f.phase = p /\ f.answer = a /\ f.version = v
            /\ f.faulty = k.faulty /\ f.base = k.base /\ f.need = k.need
            /\ f.after = k.after /\ f.op = k.op /\ f.txn = k.txn /\ f.sent = k.sent
BY DEF ActiveCall, Replied

LEMMA AnswerFetchStep ==
  ASSUME CoreInv, NEW c \in Call, NEW k \in ActiveCall, call[c] = k, ActiveFacts(c, k),
         AnswerFetch(c)
  PROVE  ServerEffect(c)
<1> DEFINE f == [k EXCEPT !.phase = "fetched", !.version = Len(log)]
<1>1. /\ k.phase = "fetch" /\ UNCHANGED << log, file, memory, known, faults >>
      /\ call' = [call EXCEPT ![c] = f]
  BY DEF AnswerFetch, Set
<1>2. log \in Seq(Entry) /\ Len(log) \in Nat /\ DOMAIN log = 1 .. Len(log)
  BY DEF CoreInv, TypeInv
<1>3. /\ f \in ActiveCall /\ f.phase = "fetched" /\ f.version = Len(log) /\ f.base = k.base
      /\ f.need = k.need /\ f.after = k.after /\ f.answer = k.answer /\ f.op = k.op
      /\ f.faulty = k.faulty
  <2> PICK v \in Version : v = Len(log)
    BY <1>2, Numbers
  <2>1. "fetched" \in ActivePhase
    BY DEF ActivePhase
  <2>2. [k EXCEPT !.phase = "fetched", !.version = v] \in ActiveCall
    BY <2>1 DEF ActiveCall
  <2> QED BY <2>2 DEF ActiveCall
<1> HIDE DEF f
<1>4. /\ Kinds(k) /\ Ready(c, k) /\ Honest(c, k) /\ Showing(c, k) /\ Apart(c, k) /\ OwnEntries(c, k)
      /\ Moving(k) /\ Moving(f) /\ (Reporting(k) <=> Reporting(f))
  BY <1>1, <1>3 DEF ActiveFacts, OwnEntries, Moving, Reporting
<1>5. Ready(c, f)
  <2>1. k.base # NoSnapshot => k.base.version <= Len(log)
    BY DEF ActiveCall, TrueSnap, SnapTrue
  <2>2. \A i \in SavedBy(c) : i <= Len(log)
    BY <1>2 DEF SavedBy
  <2> QED BY <1>1, <1>2, <1>3, <1>4, <2>1, <2>2 DEF Ready
<1>6. Kinds(f) /\ Honest(c, f) /\ Showing(c, f)
  BY <1>1, <1>3, <1>4 DEF Kinds, Honest, Showing
<1>7. Apart(c, f)
  BY <1>1, <1>3, <1>4 DEF Apart
<1>8. Good(c, f)
  BY <1>3, <1>4, <1>5, <1>6, <1>7 DEF Good, ActiveFacts, OwnEntries
<1> QED BY <1>1, <1>2, <1>8, GoodLasts DEF ServerEffect

\* The entry that is appended for a call.
LEMMA OwnEntry ==
  ASSUME CoreInv, NEW c \in Call, NEW k \in ActiveCall, Append1(c, k.txn, k.op.writes)
  PROVE  /\ \E e \in Entry : e.call = c /\ log' = Append(log, e)
         /\ Len(log) \in Nat /\ Len(log') = Len(log) + 1
         /\ SavedBy(c)' = SavedBy(c) \cup {Len(log) + 1} /\ SavedBy(c) \subseteq 1 .. Len(log)
         /\ log'[Len(log) + 1].namespace = k.op.writes /\ log'[Len(log) + 1].txn = k.txn
         /\ \A i \in SavedBy(c) : log'[i] = log[i]
         /\ k \in ActiveCall'
<1> PICK e : e = [call |-> c, txn |-> k.txn, namespace |-> k.op.writes]
  OBVIOUS
<1>1. e \in Entry /\ log' = Append(log, e) /\ e.call = c
      /\ e.namespace = k.op.writes /\ e.txn = k.txn
  BY Numbers, ProjectSessionAssumption DEF Append1, ActiveCall, Entry
<1>2. log \in Seq(Entry)
  BY DEF CoreInv, TypeInv
<1>3. k \in ActiveCall'
  BY <1>1, <1>2, TypesLast DEF Grows
<1> QED BY <1>1, <1>2, <1>3, LogAppend, SavedByAppend

LEMMA ServeCommitStep ==
  ASSUME CoreInv, NEW c \in Call, NEW k \in ActiveCall, call[c] = k, ActiveFacts(c, k),
         ServeCommit(c)
  PROVE  ServerEffect(c)
<1> PICK n : n = Len(log)
  OBVIOUS
<1> DEFINE answer == IF n > 0 /\ log[n].call = c /\ log[n].txn = k.txn THEN "ok" ELSE "conflict"
<1>1. /\ k.phase = "commit" /\ UNCHANGED << file, memory, known, faults >>
      /\ \/ k.base.version = n /\ Append1(c, k.txn, k.op.writes)
              /\ Answer(c, "answered", "ok", n + 1, FALSE)
         \/ k.base.version # n /\ UNCHANGED log /\ Answer(c, "answered", answer, n, FALSE)
  BY DEF ServeCommit
<1>2. log \in Seq(Entry) /\ n \in Nat /\ DOMAIN log = 1 .. n
  BY DEF CoreInv, TypeInv
<1>3. /\ Kinds(k) /\ Ready(c, k) /\ Honest(c, k) /\ Apart(c, k) /\ OwnEntries(c, k)
      /\ ~Moving(k) /\ ~Reporting(k) /\ k.base # NoSnapshot
      /\ k.base.version \in Nat /\ k.base.version <= n
  <2>1. /\ Kinds(k) /\ Ready(c, k) /\ Honest(c, k) /\ Apart(c, k) /\ OwnEntries(c, k)
        /\ ~Moving(k) /\ ~Reporting(k) /\ k.base # NoSnapshot
    BY <1>1 DEF ActiveFacts, OwnEntries, Moving, Reporting, Ready
  <2> QED BY <2>1, SnapType DEF ActiveCall, TrueSnap, SnapTrue
<1>4. CASE k.base.version = n /\ Append1(c, k.txn, k.op.writes)
             /\ Answer(c, "answered", "ok", n + 1, FALSE)
  <2> PICK v \in Version : v = n + 1
    BY <1>2, Numbers
  <2> PICK f : f = Replied(k, "answered", "ok", v)
    OBVIOUS
  <2>1. call' = [call EXCEPT ![c] = f]
    <3>1. call' = [call EXCEPT ![c] = [k EXCEPT !.phase = "answered", !.answer = "ok",
                                                !.version = v, !.faulty = @ \/ FALSE]]
      BY <1>4 DEF Answer, Set
    <3>2. (k.faulty \/ FALSE) = k.faulty
      BY DEF ActiveCall
    <3>3. [k EXCEPT !.phase = "answered", !.answer = "ok", !.version = v, !.faulty = @ \/ FALSE] = f
      BY <3>2 DEF ActiveCall, Replied
    <3> QED BY <3>1, <3>3
  <2>2. /\ f \in ActiveCall /\ f.phase = "answered" /\ f.answer = "ok" /\ f.version = n + 1
        /\ f.base = k.base /\ f.after = k.after /\ f.op = k.op
    <3>1. "ok" \in {"none", "ok", "conflict", "error"} /\ "answered" \in ActivePhase
      BY DEF ActivePhase
    <3>2. /\ f \in ActiveCall /\ f.phase = "answered" /\ f.answer = "ok" /\ f.version = v
          /\ f.base = k.base /\ f.after = k.after /\ f.op = k.op
      BY <3>1, RepliedIs
    <3> QED BY <3>2
  <2>3. ~Moving(f)' /\ ~Reporting(f)'
    BY <2>2 DEF Moving, Reporting
  <2>4. n + 1 \in SavedBy(c)' /\ OwnEntries(c, f)'
    BY <1>2, <1>3, <1>4, <2>2, OwnEntry DEF OwnEntries
  <2>5. Kinds(f)' /\ Ready(c, f)' /\ Honest(c, f)' /\ Showing(c, f)'
    BY <1>1, <1>2, <1>3, <2>2, <2>3, <2>4 DEF Kinds, Ready, Honest, Showing
  <2>6. Apart(c, f)'
    BY <1>1, <1>3, <2>2, <2>3 DEF Apart, Kinds
  <2>7. f \in ActiveCall'
    BY <1>2, <1>4, <2>2, OwnEntry, TypesLast DEF Grows
  <2>8. Good(c, f)'
    BY <2>4, <2>5, <2>6, <2>7 DEF Good, ActiveFacts, OwnEntries
  <2>9. Len(log) \notin SavedBy(c)
    BY <1>1, <1>3, <1>4 DEF Apart
  <2> QED BY <1>1, <1>4, <2>1, <2>8, <2>9, OwnEntry DEF ServerEffect
<1>5. CASE k.base.version # n /\ UNCHANGED log /\ Answer(c, "answered", answer, n, FALSE)
  <2> PICK a \in {"ok", "conflict"} : a = answer
    OBVIOUS
  <2> PICK v \in Version : v = n
    BY <1>2, Numbers
  <2> PICK f : f = Replied(k, "answered", a, v)
    OBVIOUS
  <2>1. call' = [call EXCEPT ![c] = f]
    <3>1. call' = [call EXCEPT ![c] = [k EXCEPT !.phase = "answered", !.answer = a,
                                                !.version = v, !.faulty = @ \/ FALSE]]
      BY <1>5 DEF Answer, Set
    <3>2. (k.faulty \/ FALSE) = k.faulty
      BY DEF ActiveCall
    <3>3. [k EXCEPT !.phase = "answered", !.answer = a, !.version = v, !.faulty = @ \/ FALSE] = f
      BY <3>2 DEF ActiveCall, Replied
    <3> QED BY <3>1, <3>3
  <2>2. /\ f \in ActiveCall /\ f.phase = "answered" /\ f.answer = answer /\ f.version = n
        /\ f.base = k.base /\ f.after = k.after /\ f.op = k.op /\ f.txn = k.txn
        /\ f.sent = k.sent /\ (f.faulty <=> k.faulty)
    <3>1. a \in {"none", "ok", "conflict", "error"} /\ "answered" \in ActivePhase
      BY DEF ActivePhase
    <3> HIDE DEF answer
    <3> QED BY <3>1, RepliedIs
  <2>3. ~Moving(f) /\ ~Reporting(f)
    BY <2>2 DEF Moving, Reporting
  <2>4. answer = "ok" => n \in SavedBy(c)
    BY <1>2 DEF SavedBy
  <2>5. answer # "ok" => n \notin SavedBy(c)
    <3> SUFFICES ASSUME n \in SavedBy(c) PROVE answer = "ok"
      OBVIOUS
    <3>1. n > k.base.version /\ n > 0 /\ log[n].call = c
      BY <1>2, <1>3, <1>5 DEF SavedBy
    <3>2. log[n].txn = k.txn
      BY <1>1, <1>3, <3>1 DEF Apart
    <3> QED BY <3>1, <3>2
  <2>6. answer \in {"ok", "conflict"}
    OBVIOUS
  <2> HIDE DEF answer
  <2>7. Kinds(f) /\ Ready(c, f) /\ Honest(c, f) /\ Showing(c, f)
    BY <1>1, <1>3, <2>2, <2>3, <2>4, <2>6 DEF Kinds, Ready, Honest, Showing
  <2>8. k.base.version < n
    BY <1>2, <1>3, <1>5
  <2>9. Apart(c, f)
    BY <1>1, <1>3, <2>2, <2>3, <2>5, <2>6, <2>8 DEF Apart, Kinds
  <2>10. Good(c, f)
    BY <1>3, <2>2, <2>7, <2>9 DEF Good, ActiveFacts, OwnEntries
  <2> QED BY <1>1, <1>2, <1>5, <2>1, <2>10, GoodLasts DEF ServerEffect
<1> QED BY <1>1, <1>4, <1>5

\* What holds of a call that waits for the server with a change.
LEMMA Waiting ==
  ASSUME CoreInv, NEW c \in Call, NEW k \in ActiveCall, ActiveFacts(c, k),
         k.phase \in {"commit", "server"}
  PROVE  /\ Kinds(k) /\ Ready(c, k) /\ Apart(c, k) /\ OwnEntries(c, k)
         /\ (SavedBy(c) # {} => k.faulty)
         /\ k.after \in {"ensure", "retry", "mark"} /\ k.answer # "ok"
         /\ k.phase = "server" => SavedBy(c) = {} /\ k.op.kind \in {"server", "generated"}
         /\ k.phase = "commit" =>
              /\ k.base # NoSnapshot /\ k.base.version \in Nat
              /\ k.op.kind \in {"mutate", "restore"}
<1>1. /\ Kinds(k) /\ Ready(c, k) /\ Apart(c, k) /\ OwnEntries(c, k) /\ Honest(c, k)
      /\ ~Moving(k) /\ ~Reporting(k)
  BY DEF ActiveFacts, OwnEntries, Moving, Reporting
<1>2. k.answer # "ok" /\ k.after \in {"ensure", "retry", "mark"}
  BY <1>1 DEF Ready
<1>3. SavedBy(c) # {} => k.faulty
  BY <1>1, <1>2 DEF Honest
<1>4. k.phase = "server" => SavedBy(c) = {} /\ k.op.kind \in {"server", "generated"}
  BY <1>1 DEF Kinds, Apart
<1>5. k.phase = "commit" => k.base # NoSnapshot /\ k.base.version \in Nat
  BY <1>1, SnapType DEF Ready, ActiveCall, TrueSnap
<1>6. k.phase = "commit" => k.op.kind \in {"mutate", "restore"}
  BY <1>1 DEF Kinds
<1> QED BY <1>1, <1>2, <1>3, <1>4, <1>5, <1>6

LEMMA ServeOperationStep ==
  ASSUME CoreInv, NEW c \in Call, NEW k \in ActiveCall, call[c] = k, ActiveFacts(c, k),
         ServeOperation(c)
  PROVE  ServerEffect(c)
<1> PICK n : n = Len(log)
  OBVIOUS
<1>1. /\ k.phase = "server" /\ UNCHANGED << file, memory, known >>
      /\ Append1(c, k.txn, k.op.writes) /\ Answer(c, "served", "ok", n + 1, FALSE)
  BY DEF ServeOperation
<1>2. log \in Seq(Entry) /\ n \in Nat
  BY DEF CoreInv, TypeInv
<1>3. /\ OwnEntries(c, k) /\ k.after \in {"ensure", "retry", "mark"}
      /\ SavedBy(c) = {} /\ k.op.kind \in {"server", "generated"}
  BY <1>1, Waiting
<1> PICK v \in Version : v = n + 1
  BY <1>2, Numbers
<1> PICK f : f = Replied(k, "served", "ok", v)
  OBVIOUS
<1>4. call' = [call EXCEPT ![c] = f]
  <2>1. call' = [call EXCEPT ![c] = [k EXCEPT !.phase = "served", !.answer = "ok",
                                              !.version = v, !.faulty = @ \/ FALSE]]
    BY <1>1 DEF Answer, Set
  <2>2. (k.faulty \/ FALSE) = k.faulty
    BY DEF ActiveCall
  <2>3. [k EXCEPT !.phase = "served", !.answer = "ok", !.version = v, !.faulty = @ \/ FALSE] = f
    BY <2>2 DEF ActiveCall, Replied
  <2> QED BY <2>1, <2>3
<1>5. /\ f \in ActiveCall /\ f.phase = "served" /\ f.answer = "ok" /\ f.version = v
      /\ f.after = k.after /\ f.op = k.op
  <2>1. "ok" \in {"none", "ok", "conflict", "error"} /\ "served" \in ActivePhase
    BY DEF ActivePhase
  <2> QED BY <2>1, RepliedIs
<1>6. ~Moving(f)' /\ ~Reporting(f)'
  BY <1>5 DEF Moving, Reporting
<1>7. n + 1 \in SavedBy(c)' /\ OwnEntries(c, f)'
  BY <1>1, <1>2, <1>3, <1>5, OwnEntry DEF OwnEntries
<1>8. Kinds(f)' /\ Ready(c, f)' /\ Honest(c, f)' /\ Showing(c, f)'
  BY <1>3, <1>5, <1>6, <1>7 DEF Kinds, Ready, Honest, Showing
<1>9. Apart(c, f)'
  BY <1>5, <1>6 DEF Apart
<1>10. f \in ActiveCall'
  BY <1>1, <1>2, <1>5, OwnEntry, TypesLast DEF Grows
<1>11. Good(c, f)'
  BY <1>7, <1>8, <1>9, <1>10 DEF Good, ActiveFacts, OwnEntries
<1> QED BY <1>1, <1>3, <1>4, <1>11, OwnEntry DEF ServerEffect

\* A change that is answered with an error, or with a conflict by the server
\* of an operation.
LEMMA RefusedGood ==
  ASSUME CoreInv, NEW c \in Call, NEW k \in ActiveCall, ActiveFacts(c, k),
         NEW a \in {"conflict", "error"}, NEW p,
         \/ k.phase = "commit" /\ p = "answered" /\ a = "error"
         \/ k.phase = "server" /\ p = "served"
  PROVE  Good(c, Replied(k, p, a, 0))
<1>1. /\ OwnEntries(c, k) /\ Apart(c, k) /\ k.after \in {"ensure", "retry", "mark"}
      /\ (SavedBy(c) # {} => k.faulty)
      /\ k.phase = "server" => SavedBy(c) = {} /\ k.op.kind \in {"server", "generated"}
      /\ k.phase = "commit" => k.base # NoSnapshot /\ k.op.kind \in {"mutate", "restore"}
  BY Waiting
<1> PICK v \in Version : v = 0
  BY Numbers
<1> PICK f : f = Replied(k, p, a, v)
  OBVIOUS
<1>2. /\ f \in ActiveCall /\ f.phase = p /\ f.answer = a /\ f.faulty = k.faulty
      /\ f.base = k.base /\ f.after = k.after /\ f.op = k.op /\ f.txn = k.txn
  <2>1. a \in {"none", "ok", "conflict", "error"} /\ p \in ActivePhase
    BY DEF ActivePhase
  <2> QED BY <2>1, RepliedIs
<1>3. ~Moving(f) /\ ~Reporting(f)
  BY <1>2 DEF Moving, Reporting
<1>4. Kinds(f) /\ Ready(c, f) /\ Honest(c, f) /\ Showing(c, f)
  BY <1>1, <1>2, <1>3 DEF Kinds, Ready, Honest, Showing
<1>5. Apart(c, f)
  BY <1>1, <1>2, <1>3 DEF Apart
<1> QED BY <1>1, <1>2, <1>4, <1>5 DEF Good, ActiveFacts, OwnEntries

LEMMA LoseRequestStep ==
  ASSUME CoreInv, NEW c \in Call, NEW k \in ActiveCall, call[c] = k, ActiveFacts(c, k),
         LoseRequest(c)
  PROVE  ServerEffect(c)
<1> DEFINE lost == [k EXCEPT !.phase = "failed"]
<1>1. UNCHANGED << log, file, memory, known >>
  BY DEF LoseRequest
<1>2. \/ k.phase = "fetch" /\ call' = [call EXCEPT ![c] = lost]
      \/ k.phase = "commit" /\ Answer(c, "answered", "error", 0, FALSE)
      \/ k.phase = "server" /\ \E a \in {"error", "conflict"} : Answer(c, "served", a, 0, FALSE)
  BY DEF LoseRequest, Set
<1>3. ASSUME k.phase = "fetch" PROVE Good(c, lost)
  <2>1. /\ lost \in ActiveCall /\ lost.phase = "failed" /\ lost.base = k.base /\ lost.need = k.need
        /\ lost.after = k.after /\ lost.answer = k.answer /\ lost.op = k.op
        /\ lost.faulty = k.faulty
    BY DEF ActiveCall, ActivePhase
  <2> HIDE DEF lost
  <2>2. /\ Kinds(k) /\ Ready(c, k) /\ Honest(c, k) /\ Showing(c, k) /\ Apart(c, k) /\ OwnEntries(c, k)
        /\ Moving(k) /\ Moving(lost) /\ (Reporting(k) <=> Reporting(lost))
    BY <1>3, <2>1 DEF ActiveFacts, OwnEntries, Moving, Reporting
  <2>3. k.answer # "ok"
    BY <1>3, <2>2 DEF Ready
  <2>4. Kinds(lost) /\ Ready(c, lost) /\ Honest(c, lost) /\ Showing(c, lost)
    BY <1>3, <2>1, <2>2, <2>3 DEF Kinds, Ready, Honest, Showing
  <2>5. Apart(c, lost)
    BY <1>3, <2>1, <2>2 DEF Apart
  <2> QED BY <2>1, <2>2, <2>4, <2>5 DEF Good, ActiveFacts, OwnEntries
<1>4. ASSUME NEW a \in {"conflict", "error"}, NEW p, Answer(c, p, a, 0, FALSE)
      PROVE  call' = [call EXCEPT ![c] = Replied(k, p, a, 0)]
  <2>1. call' = [call EXCEPT ![c] = [k EXCEPT !.phase = p, !.answer = a, !.version = 0,
                                              !.faulty = @ \/ FALSE]]
    BY <1>4 DEF Answer, Set
  <2>2. (k.faulty \/ FALSE) = k.faulty
    BY DEF ActiveCall
  <2>3. [k EXCEPT !.phase = p, !.answer = a, !.version = 0, !.faulty = @ \/ FALSE]
          = Replied(k, p, a, 0)
    BY <2>2 DEF ActiveCall, Replied
  <2> QED BY <2>1, <2>3
<1>5. \E f : Good(c, f) /\ call' = [call EXCEPT ![c] = f]
  <2>1. CASE k.phase = "fetch" /\ call' = [call EXCEPT ![c] = lost]
    BY <1>3, <2>1
  <2> HIDE DEF lost
  <2>2. CASE k.phase = "commit" /\ Answer(c, "answered", "error", 0, FALSE)
    <3>1. Good(c, Replied(k, "answered", "error", 0))
      BY <2>2, RefusedGood
    <3>2. call' = [call EXCEPT ![c] = Replied(k, "answered", "error", 0)]
      BY <1>4, <2>2
    <3> QED BY <3>1, <3>2
  <2>3. ASSUME k.phase = "server", NEW a \in {"error", "conflict"}, Answer(c, "served", a, 0, FALSE)
        PROVE  \E f : Good(c, f) /\ call' = [call EXCEPT ![c] = f]
    <3>1. Good(c, Replied(k, "served", a, 0))
      BY <2>3, RefusedGood
    <3>2. call' = [call EXCEPT ![c] = Replied(k, "served", a, 0)]
      BY <1>4, <2>3
    <3> QED BY <3>1, <3>2
  <2> QED BY <1>2, <2>1, <2>2, <2>3
<1>6. PICK f : Good(c, f) /\ call' = [call EXCEPT ![c] = f]
  BY <1>5
<1>7. Good(c, f)'
  BY <1>1, <1>6, GoodLasts DEF CoreInv, TypeInv
<1> QED BY <1>1, <1>6, <1>7 DEF ServerEffect

LEMMA LoseAnswerStep ==
  ASSUME CoreInv, NEW c \in Call, NEW k \in ActiveCall, call[c] = k, ActiveFacts(c, k),
         LoseAnswer(c)
  PROVE  ServerEffect(c)
<1> PICK n : n = Len(log)
  OBVIOUS
<1>1. log \in Seq(Entry) /\ n \in Nat
  BY DEF CoreInv, TypeInv
<1>2. /\ UNCHANGED << file, memory, known >> /\ Append1(c, k.txn, k.op.writes)
      /\ k.phase \in {"commit", "server"} /\ (k.phase = "commit" => k.base.version = n)
  BY DEF LoseAnswer
<1>3. PICK p \in ActivePhase, a \in {"conflict", "error"} :
        /\ Answer(c, p, a, 0, TRUE)
        /\ \/ k.phase = "commit" /\ p = "answered"
           \/ k.phase = "server" /\ p = "served" /\ a = "error"
  BY DEF LoseAnswer, ActivePhase
<1>4. /\ OwnEntries(c, k) /\ Apart(c, k) /\ k.after \in {"ensure", "retry", "mark"}
      /\ k.phase = "server" => SavedBy(c) = {} /\ k.op.kind \in {"server", "generated"}
      /\ k.phase = "commit" => k.base # NoSnapshot /\ k.op.kind \in {"mutate", "restore"}
  BY <1>2, Waiting
<1>5. n \notin SavedBy(c) /\ (k.phase = "commit" => k.sent # 2)
  <2>1. CASE k.phase = "commit"
    BY <1>1, <1>2, <1>4, <2>1 DEF Apart
  <2>2. CASE k.phase = "server"
    BY <1>4, <2>2
  <2> QED BY <1>2, <2>1, <2>2
<1> PICK v \in Version : v = 0
  BY Numbers
<1> PICK g : g = Replied(k, p, a, v)
  OBVIOUS
<1> PICK f : f = [g EXCEPT !.faulty = TRUE]
  OBVIOUS
<1>6. /\ g \in ActiveCall /\ g.phase = p /\ g.answer = a /\ g.base = k.base
      /\ g.after = k.after /\ g.op = k.op /\ g.txn = k.txn /\ g.sent = k.sent
  <2>1. a \in {"none", "ok", "conflict", "error"} /\ p \in ActivePhase
    BY <1>3 DEF ActivePhase
  <2> QED BY <2>1, RepliedIs
<1>7. /\ f \in ActiveCall /\ f.phase = p /\ f.answer = a /\ f.base = k.base /\ f.faulty
      /\ f.after = k.after /\ f.op = k.op /\ f.txn = k.txn /\ f.sent = k.sent
  <2>1. f \in ActiveCall
    BY <1>6 DEF ActiveCall
  <2>2. /\ f.phase = g.phase /\ f.answer = g.answer /\ f.base = g.base /\ f.faulty
        /\ f.after = g.after /\ f.op = g.op /\ f.txn = g.txn /\ f.sent = g.sent
    BY <1>6 DEF ActiveCall
  <2> QED BY <1>6, <2>1, <2>2
<1>8. call' = [call EXCEPT ![c] = f]
  <2>1. call' = [call EXCEPT ![c] = [k EXCEPT !.phase = p, !.answer = a, !.version = v,
                                              !.faulty = @ \/ TRUE]]
    BY <1>3 DEF Answer, Set
  <2>2. (k.faulty \/ TRUE) = TRUE
    OBVIOUS
  <2>3. [k EXCEPT !.phase = p, !.answer = a, !.version = v, !.faulty = @ \/ TRUE] = f
    BY <2>2 DEF ActiveCall, Replied
  <2> QED BY <2>1, <2>3
<1>9. ~Moving(f)' /\ ~Reporting(f)'
  BY <1>3, <1>7 DEF Moving, Reporting
<1>10. /\ Len(log') = n + 1 /\ SavedBy(c)' = SavedBy(c) \cup {n + 1} /\ SavedBy(c) \subseteq 1 .. n
       /\ log'[n + 1].txn = k.txn /\ log'[n + 1].namespace = k.op.writes
       /\ \A i \in SavedBy(c) : log'[i] = log[i]
  BY <1>2, OwnEntry
<1>11. OwnEntries(c, f)'
  BY <1>4, <1>7, <1>10 DEF OwnEntries
<1>12. Kinds(f)' /\ Ready(c, f)' /\ Honest(c, f)' /\ Showing(c, f)'
  BY <1>3, <1>4, <1>7, <1>9 DEF Kinds, Ready, Honest, Showing
<1>13. Apart(c, f)'
  <2>1. CASE k.phase = "commit"
    <3>1. f.phase = "answered" /\ f.base.version = n /\ f.op.kind \in {"mutate", "restore"} /\ f.sent # 2
      BY <1>2, <1>3, <1>4, <1>5, <1>7, <2>1
    <3>2. \A i \in SavedBy(c)' : i # n /\ (i > n => log'[i].txn = f.txn)
      BY <1>1, <1>5, <1>7, <1>10
    <3>3. n < Len(log')
      BY <1>1, <1>10
    <3> QED BY <1>9, <3>1, <3>2, <3>3 DEF Apart
  <2>2. CASE k.phase = "server"
    BY <1>3, <1>7, <1>9, <2>2, <1>4 DEF Apart
  <2> QED BY <1>2, <2>1, <2>2
<1>14. f \in ActiveCall'
  BY <1>1, <1>2, <1>7, OwnEntry, TypesLast DEF Grows
<1>15. Good(c, f)'
  BY <1>11, <1>12, <1>13, <1>14 DEF Good, ActiveFacts, OwnEntries
<1> QED BY <1>2, <1>5, <1>8, <1>15, OwnEntry DEF ServerEffect

(***************************************************************************)
(* Every step.                                                             *)
(***************************************************************************)

\* Only a call that is under way can take a step.
LEMMA UnderWay ==
  ASSUME CoreInv, NEW c \in Call, call[c].phase \notin {"idle", "over"}
  PROVE  call[c] \in ActiveCall /\ ActiveFacts(c, call[c])
<1>1. ~NotYet(c)
  BY DEF NotYet, Idle
<1>2. Good(c, call[c])
  BY <1>1 DEF CoreInv, CallsInv
<1> QED BY <1>2, GoodIs

LEMMA CallStepCore ==
  ASSUME CoreInv, NEW c \in Call, CallStep(c)
  PROVE  CoreInv'
<1> PICK k : k = call[c]
  OBVIOUS
<1>1. k.phase \notin {"idle", "over"}
  BY DEF CallStep, Ensure, Plan, Receive, Save, RetryBusy, GiveUp, Reconcile, MarkUnreconciled,
         CommitOk, Confirm, CommitConflict, CommitError, OperationOk, OperationFailed, MarkStale,
         Broken
<1>2. k \in ActiveCall /\ ActiveFacts(c, k) /\ TypeInv
  BY <1>1, UnderWay DEF CoreInv
<1>3. CASE Ensure(c) \/ Plan(c) \/ Receive(c) \/ Save(c) \/ RetryBusy(c)
  BY <1>2, <1>3, EnsureStep, PlanStep, ReceiveStep, SaveStep, RetryBusyStep, CoreCall
<1>4. CASE GiveUp(c) \/ Reconcile(c) \/ MarkUnreconciled(c) \/ CommitOk(c) \/ Confirm(c)
  BY <1>2, <1>4, GiveUpStep, ReconcileStep, MarkUnreconciledStep, CommitOkStep, ConfirmStep, CoreCall
<1>5. CASE CommitConflict(c) \/ CommitError(c) \/ OperationOk(c) \/ OperationFailed(c) \/ MarkStale(c)
  BY <1>2, <1>5, CommitConflictStep, CommitErrorStep, OperationOkStep, OperationFailedStep,
     MarkStaleStep, CoreCall
<1> QED BY <1>3, <1>4, <1>5 DEF CallStep

LEMMA ServerStepCore ==
  ASSUME CoreInv, NEW c \in Call, ServerStep(c)
  PROVE  CoreInv'
<1> PICK k : k = call[c]
  OBVIOUS
<1>1. k.phase \notin {"idle", "over"}
  BY DEF ServerStep, AnswerFetch, ServeCommit, ServeOperation, LoseRequest, LoseAnswer
<1>2. k \in ActiveCall /\ ActiveFacts(c, k)
  BY <1>1, UnderWay
<1>3. faults' \in 0 .. MaxFaults
  <2>1. faults \in 0 .. MaxFaults /\ MaxFaults \in Nat
    BY ProjectSessionAssumption DEF CoreInv, TypeInv
  <2>2. UNCHANGED faults \/ (faults < MaxFaults /\ faults' = faults + 1)
    BY DEF ServerStep, AnswerFetch, ServeCommit, ServeOperation, LoseRequest, LoseAnswer
  <2> QED BY <2>1, <2>2
<1>4. ServerEffect(c)
  BY <1>2, AnswerFetchStep, ServeCommitStep, ServeOperationStep, LoseRequestStep, LoseAnswerStep
     DEF ServerStep
<1> QED BY <1>3, <1>4, CoreServer

LEMMA StartStep ==
  ASSUME CoreInv, NEW c \in Call, NEW s \in Session, NEW o \in Operation, Start(c, s, o)
  PROVE  CoreInv'
<1> PICK p : p = CASE o.kind = "server" -> "server" [] o.kind = "markStale" -> "markStale"
                   [] OTHER -> "ensure"
  OBVIOUS
<1> DEFINE f == Begin(s, o, p)
<1>1. call[c] = Idle /\ call' = [call EXCEPT ![c] = f] /\ UNCHANGED << log, file, memory, known, faults >>
  BY DEF Start, Set
<1>2. SavedBy(c) = {}
  BY <1>1, GoodIs DEF CoreInv, CallsInv, NotYet
<1>3. /\ p \in {"server", "markStale", "ensure"}
      /\ p = "ensure" => o.kind \notin {"server", "markStale"}
      /\ p = "server" => o.kind = "server"
  OBVIOUS
<1>4. /\ f \in ActiveCall /\ f.phase = p /\ f.op = o /\ f.after = "ensure" /\ f.answer = "none"
  BY <1>3, TrueSnapIs, Numbers DEF Begin, ActiveCall, ActivePhase
<1> HIDE DEF f
<1>5. ~Moving(f) /\ ~Reporting(f)
  BY <1>3, <1>4 DEF Moving, Reporting
<1>6. Kinds(f) /\ Ready(c, f) /\ Honest(c, f) /\ Showing(c, f)
  BY <1>2, <1>3, <1>4, <1>5 DEF Kinds, Ready, Honest, Showing
<1>7. Apart(c, f)
  BY <1>2, <1>3, <1>4, <1>5 DEF Apart
<1>8. Good(c, f)
  BY <1>2, <1>4, <1>6, <1>7 DEF Good, ActiveFacts
<1>9. Effect(c)
  BY <1>1, <1>8, SameProcess DEF Effect, CoreInv
<1> QED BY <1>9, CoreCall

\* The calls that are left alone, when the log is.
LEMMA OthersLast ==
  ASSUME CoreInv, UNCHANGED log
  PROVE  /\ \A c \in Call : (Good(c, call[c]) \/ NotYet(c)) /\ call'[c] = call[c] =>
              Good(c, call[c])' \/ NotYet(c)'
         /\ \A c \in Call : \A k : Good(c, k) => Good(c, k)'
         /\ log' \in Seq(Entry) /\ NotSavedTwiceInARow'
         /\ TrueSnap' = TrueSnap /\ ActiveCall' = ActiveCall /\ OverCall' = OverCall
<1>1. log \in Seq(Entry)
  BY DEF CoreInv, TypeInv
<1>2. ASSUME NEW c \in Call, NEW k, Good(c, k) PROVE Good(c, k)'
  BY <1>1, <1>2, GoodLasts
<1>3. ASSUME NEW c \in Call, Good(c, call[c]) \/ NotYet(c), call'[c] = call[c]
      PROVE  Good(c, call[c])' \/ NotYet(c)'
  <2> PICK k : k = call[c]
    OBVIOUS
  <2>1. CASE Good(c, k)
    <3>1. Good(c, k)'
      BY <1>2, <2>1
    <3> QED BY <1>3, <3>1
  <2>2. CASE NotYet(c)
    BY <1>3, <2>2 DEF NotYet, SavedBy
  <2> QED BY <1>3, <2>1, <2>2
<1>4. NotSavedTwiceInARow'
  BY DEF CoreInv, NotSavedTwiceInARow
<1> QED BY <1>1, <1>2, <1>3, <1>4, SameLog

\* A step of a process that leaves the log and the calls alone.
LEMMA ProcessStep ==
  ASSUME CoreInv, UNCHANGED << log, call >>, faults' \in 0 .. MaxFaults, file' \in TrueSnap,
         memory' \in [Session -> TrueSnap], known' \in [Session -> {"none", "current", "old"}]
  PROVE  CoreInv'
<1>1. CallsInv'
  BY OthersLast DEF CallsInv, CoreInv
<1>2. TypeInv'
  BY OthersLast DEF CoreInv, TypeInv
<1> QED BY <1>1, <1>2, OthersLast DEF CoreInv

LEMMA ExitStep ==
  ASSUME CoreInv, NEW s \in Session, Exit(s)
  PROVE  CoreInv'
<1> DEFINE killed == {c \in Call : Active(c) /\ call[c].session = s}
           end(c) == Over(c, [call[c] EXCEPT !.faulty = TRUE], FALSE, NoSnapshot)
<1>1. /\ killed # {} => faults < MaxFaults
      /\ faults' = IF killed = {} THEN faults ELSE faults + 1
      /\ memory' = [memory EXCEPT ![s] = NoSnapshot] /\ known' = [known EXCEPT ![s] = "none"]
      /\ call' = [c \in Call |-> IF c \in killed THEN end(c) ELSE call[c]]
      /\ UNCHANGED << log, file >>
  BY DEF Exit
<1>2. ASSUME NEW c \in killed PROVE Good(c, end(c))
  <2> PICK k : k = call[c]
    OBVIOUS
  <2> PICK f : f = [k EXCEPT !.faulty = TRUE]
    OBVIOUS
  <2>1. k \in ActiveCall /\ ActiveFacts(c, k)
    BY UnderWay DEF Active
  <2>2. f \in ActiveCall /\ f.op = k.op /\ f.faulty
    BY <2>1 DEF ActiveCall
  <2>3. OwnEntries(c, f)
    BY <2>1, <2>2 DEF ActiveFacts, OwnEntries
  <2> QED BY <2>2, <2>3, OverGood, TrueSnapIs
<1> HIDE DEF end
<1>3. ASSUME NEW c \in Call PROVE Good(c, call[c])' \/ NotYet(c)'
  <2>1. CASE c \in killed
    <3> PICK f : f = end(c)
      OBVIOUS
    <3>1. Good(c, f)'
      BY <1>1, <1>2, <2>1, OthersLast
    <3>2. call'[c] = f
      BY <1>1, <2>1
    <3> QED BY <3>1, <3>2
  <2>2. CASE c \notin killed
    BY <1>1, <2>2, OthersLast DEF CoreInv, CallsInv
  <2> QED BY <2>1, <2>2
<1>4. call' \in [Call -> ActiveCall \cup OverCall \cup {Idle}]
  BY <1>1, <1>2 DEF CoreInv, TypeInv, Good
<1> HIDE DEF killed
<1>5. faults' \in 0 .. MaxFaults
  BY <1>1, ProjectSessionAssumption DEF CoreInv, TypeInv
<1>6. memory' \in [Session -> TrueSnap] /\ known' \in [Session -> {"none", "current", "old"}]
  BY <1>1, TrueSnapIs DEF CoreInv, TypeInv
<1>7. TypeInv'
  BY <1>1, <1>4, <1>5, <1>6, OthersLast DEF CoreInv, TypeInv
<1> QED BY <1>1, <1>3, <1>7, OthersLast DEF CoreInv, CallsInv

LEMMA BrowserStep ==
  ASSUME CoreInv, NEW n \in Namespace, Browser(n)
  PROVE  CoreInv'
<1> PICK e : e = [call |-> Nobody, txn |-> 0, namespace |-> n]
  OBVIOUS
<1>1. e \in Entry /\ e.call = Nobody /\ log' = Append(log, e)
      /\ UNCHANGED << file, memory, known, call, faults >>
  BY DEF Browser, Append1, Entry
<1>2. log \in Seq(Entry) /\ Grows
  BY <1>1 DEF CoreInv, TypeInv, Grows
<1>3. ASSUME NEW c \in Call PROVE Good(c, call[c])' \/ NotYet(c)'
  <2> PICK k : k = call[c]
    OBVIOUS
  <2>1. c # Nobody /\ call'[c] = k
    BY <1>1, ProjectSessionAssumption
  <2>2. CASE Good(c, k)
    <3>1. Good(c, k)'
      BY <1>1, <1>2, <2>1, <2>2, GoodLasts
    <3> QED BY <2>1, <3>1
  <2>3. CASE NotYet(c)
    <3>1. SavedBy(c)' = SavedBy(c)
      BY <1>1, <1>2, <2>1, SavedByAppend
    <3> QED BY <1>1, <2>3, <3>1 DEF NotYet
  <2> QED BY <2>2, <2>3 DEF CoreInv, CallsInv
<1>4. NotSavedTwiceInARow'
  <2> SUFFICES ASSUME NEW i \in 2 .. Len(log'), log'[i].call = log'[i - 1].call
               PROVE  log'[i].call = Nobody
    BY DEF NotSavedTwiceInARow
  <2>1. /\ Len(log) \in Nat /\ Len(log') = Len(log) + 1
        /\ log'[Len(log) + 1] = e /\ \A h \in 1 .. Len(log) : log'[h] = log[h]
    BY <1>1, <1>2, LogAppend
  <2>2. CASE i = Len(log) + 1
    BY <1>1, <2>1, <2>2
  <2>3. CASE i # Len(log) + 1
    <3>1. i \in 2 .. Len(log) /\ i \in 1 .. Len(log) /\ i - 1 \in 1 .. Len(log)
      BY <2>1, <2>3
    <3> QED BY <2>1, <3>1 DEF CoreInv, NotSavedTwiceInARow
  <2> QED BY <2>2, <2>3
<1>5. TypeInv'
  <2>1. /\ TrueSnap \subseteq TrueSnap' /\ ActiveCall \subseteq ActiveCall'
        /\ OverCall \subseteq OverCall' /\ log' \in Seq(Entry)
    BY <1>2, TruthLasts, TypesLast, GrowsLen
  <2> QED BY <1>1, <2>1 DEF CoreInv, TypeInv
<1> QED BY <1>3, <1>4, <1>5 DEF CoreInv, CallsInv

LEMMA CoreInit == Init => CoreInv
<1> SUFFICES ASSUME Init PROVE CoreInv
  OBVIOUS
<1>1. log = << >> /\ Len(log) = 0 /\ DOMAIN log = {} /\ log \in Seq(Entry)
  BY DEF Init
<1>2. TypeInv
  BY <1>1, TrueSnapIs, ProjectSessionAssumption DEF Init, TypeInv
<1>3. CallsInv
  BY <1>1 DEF Init, CallsInv, NotYet, SavedBy
<1>4. NotSavedTwiceInARow
  BY <1>1 DEF NotSavedTwiceInARow
<1> QED BY <1>2, <1>3, <1>4 DEF CoreInv

LEMMA CoreStep == CoreInv /\ [Next]_vars => CoreInv'
<1> SUFFICES ASSUME CoreInv, [Next]_vars PROVE CoreInv'
  OBVIOUS
<1>1. ASSUME NEW c \in Call, CallStep(c) PROVE CoreInv'
  BY <1>1, CallStepCore
<1>2. ASSUME NEW c \in Call, ServerStep(c) PROVE CoreInv'
  BY <1>2, ServerStepCore
<1>3. ASSUME NEW c \in Call, NEW s \in Session, NEW o \in Operation, Start(c, s, o) PROVE CoreInv'
  BY <1>3, StartStep
<1>4. ASSUME NEW s \in Session, Initialize(s) PROVE CoreInv'
  <2>1. UNCHANGED << log, file, call, faults >> /\ Reload(s)
    BY <1>4 DEF Initialize
  <2>2. memory' \in [Session -> TrueSnap] /\ known' \in [Session -> {"none", "current", "old"}]
    BY <2>1, LoadType DEF CoreInv
  <2> QED BY <2>1, <2>2, ProcessStep DEF CoreInv, TypeInv
<1>5. ASSUME NEW s \in Session, Reset(s) PROVE CoreInv'
  <2>1. UNCHANGED << log, call >> /\ file' = NoSnapshot /\ faults < MaxFaults /\ faults' = faults + 1
    BY <1>5 DEF Reset
  <2>2. faults' \in 0 .. MaxFaults
    BY <2>1, ProjectSessionAssumption DEF CoreInv, TypeInv
  <2>3. memory' \in [Session -> TrueSnap] /\ known' \in [Session -> {"none", "current", "old"}]
    BY <1>5, TrueSnapIs DEF Reset, CoreInv, TypeInv
  <2> QED BY <2>1, <2>2, <2>3, TrueSnapIs, ProcessStep
<1>6. ASSUME NEW s \in Session, Exit(s) PROVE CoreInv'
  BY <1>6, ExitStep
<1>7. ASSUME NEW n \in Namespace, Browser(n) PROVE CoreInv'
  BY <1>7, BrowserStep
<1>8. CASE UNCHANGED vars
  BY <1>8, ProcessStep DEF vars, CoreInv, TypeInv
<1> QED BY <1>1, <1>2, <1>3, <1>4, <1>5, <1>6, <1>7, <1>8 DEF Next

(***************************************************************************)
(* The theorems.                                                           *)
(***************************************************************************)

LEMMA CoreAlways == Spec => []CoreInv
BY CoreInit, CoreStep, PTL DEF Spec

LEMMA SnapOK ==
  ASSUME NEW x \in TrueSnap, log \in Seq(Entry)
  PROVE  SnapshotOK(x)
<1> SUFFICES ASSUME x # NoSnapshot PROVE SnapshotOK(x)
  BY DEF SnapshotOK
<1>1. x \in Snapshot /\ x.version \in Nat /\ x.version <= Len(log) /\ Len(log) \in Nat
  BY TrueSnapIs DEF Snapshot
<1>2. ASSUME NEW n \in Namespace
      PROVE  /\ x.part[n].status \in Status /\ x.part[n].version \in 0 .. x.version
             /\ x.part[n].content \subseteq 1 .. x.version
  <2> PICK p : p = x.part[n]
    OBVIOUS
  <2>1. p \in Part /\ PartTrue(p, n, x.version)
    BY <1>1, TrueSnapIs DEF Snapshot
  <2>2. p.version \in 0 .. x.version
    BY <1>1, <2>1 DEF Part, PartTrue
  <2>3. p.content \subseteq 1 .. p.version
    BY <2>1 DEF PartTrue, ServerContent
  <2> QED BY <1>1, <2>1, <2>2, <2>3 DEF Part
<1> QED BY <1>1, <1>2 DEF SnapshotOK

LEMMA CoreTypes == CoreInv => TypeOK
<1> SUFFICES ASSUME CoreInv PROVE TypeOK
  OBVIOUS
<1>1. log \in Seq(Entry) /\ TypeInv
  BY DEF CoreInv, TypeInv
<1>2. \A i \in DOMAIN log : log[i].call \in Call \cup {Nobody} /\ log[i].namespace \in Namespace
  <2> SUFFICES ASSUME NEW i \in DOMAIN log PROVE log[i] \in Entry
    BY DEF Entry
  <2> QED BY <1>1
<1>3. SnapshotOK(file) /\ faults \in 0 .. MaxFaults
      /\ \A s \in Session : SnapshotOK(memory[s]) /\ known[s] \in {"none", "current", "old"}
  BY <1>1, SnapOK DEF TypeInv
<1>4. ASSUME NEW c \in Call, call[c].phase # "idle"
      PROVE  /\ call[c].session \in Session /\ call[c].op \in Operation /\ SnapshotOK(call[c].shown)
             /\ call[c].phase # "over" =>
                  /\ call[c].attempt \in 0 .. BusyRetries /\ call[c].txn \in 1 .. 2
                  /\ call[c].need \subseteq Namespace /\ SnapshotOK(call[c].base)
  <2> PICK k : k = call[c]
    OBVIOUS
  <2>1. k \in ActiveCall \/ k \in OverCall
    BY <1>1, <1>4 DEF TypeInv, Idle
  <2>2. CASE k \in ActiveCall
    <3>1. /\ k.session \in Session /\ k.op \in Operation /\ k.shown \in TrueSnap
          /\ k.attempt \in Attempt /\ k.txn \in Txn /\ k.need \subseteq Namespace
          /\ k.base \in TrueSnap
      BY <2>2 DEF ActiveCall
    <3> QED BY <1>1, <3>1, SnapOK DEF Attempt, Txn
  <2>3. CASE k \in OverCall
    <3>1. k.session \in Session /\ k.op \in Operation /\ k.shown \in TrueSnap /\ k.phase = "over"
      BY <2>3 DEF OverCall
    <3> QED BY <1>1, <3>1, SnapOK
  <2> QED BY <2>1, <2>2, <2>3
<1> QED BY <1>2, <1>3, <1>4 DEF TypeOK

\* Every variable keeps its type, so that in particular no call retries a
\* busy file more often than there are delays for it.
THEOREM TypeCorrect == Spec => []TypeOK
BY CoreAlways, CoreTypes, PTL

LEMMA CoreContent == CoreInv => ContentIsTrue
<1> SUFFICES ASSUME CoreInv PROVE ContentIsTrue
  OBVIOUS
<1>1. Snapshots \subseteq TrueSnap
  <2>1. file \in TrueSnap /\ \A s \in Session : memory[s] \in TrueSnap
    BY DEF CoreInv, TypeInv
  <2>2. ASSUME NEW c \in Call, call[c].phase # "idle" PROVE call[c].shown \in TrueSnap
    BY <2>2 DEF CoreInv, TypeInv, Idle, ActiveCall, OverCall
  <2> QED BY <2>1, <2>2 DEF Snapshots
<1>2. ASSUME NEW x \in Snapshots \ {NoSnapshot}, NEW n \in Namespace
      PROVE  LET p == x.part[n]
             IN /\ p.source = "remote" => p.content = ServerContent(n, p.version)
                /\ p.content \subseteq ServerContent(n, p.version)
  <2>1. PartTrue(x.part[n], n, x.version)
    BY <1>1, TrueSnapIs
  <2> QED BY <2>1 DEF PartTrue
<1> QED BY <1>2 DEF ContentIsTrue

\* Whatever was merged, saved over, retried or reconciled, by any number of
\* processes: no snapshot shows content that the server did not have.
THEOREM ContentCorrect == Spec => []ContentIsTrue
BY CoreAlways, CoreContent, PTL

LEMMA CoreOver ==
  ASSUME CoreInv, NEW c \in Call, call[c].phase = "over"
  PROVE  OverFacts(c, call[c])
<1>1. Good(c, call[c])
  BY DEF CoreInv, CallsInv, NotYet, Idle
<1> QED BY <1>1, GoodIs

LEMMA CoreReports == CoreInv => ReportsAreTrue /\ WrittenIsShown
BY CoreOver DEF ReportsAreTrue, WrittenIsShown, OverFacts, Told

\* A call reports its change as committed only if the server saved it, and as
\* not committed only if the server did not, unless an answer was lost or the
\* process was killed.
THEOREM ReportsCorrect == Spec => []ReportsAreTrue
BY CoreAlways, CoreReports, PTL

\* The snapshot that a committed call returns shows its change, or does not
\* say that the namespace of the change is fresh.
THEOREM WrittenCorrect == Spec => []WrittenIsShown
BY CoreAlways, CoreReports, PTL

\* However often the transaction of a call is sent, the server does not save
\* it twice in a row.
THEOREM SavedOnceCorrect == Spec => []NotSavedTwiceInARow
<1>1. CoreInv => NotSavedTwiceInARow
  BY DEF CoreInv
<1> QED BY <1>1, CoreAlways, PTL

(***************************************************************************)
(* The file that a session knows.                                          *)
(***************************************************************************)

\* Snapshot x is snapshot y, but for what has been marked in it.
MarkedCopy(x, y) ==
  /\ x # NoSnapshot /\ y # NoSnapshot
  /\ x.version = y.version
  /\ \A n \in Namespace :
       /\ x.part[n].content = y.part[n].content /\ x.part[n].version = y.part[n].version
       /\ x.part[n].status = "fresh" => y.part[n].status = "fresh"

LEMMA KnownIs ==
  KnownFileIsInMemory <=> \A s \in Session : known[s] = "current" => MarkedCopy(memory[s], file)
BY DEF KnownFileIsInMemory, MarkedCopy

LEMMA KnownLoad ==
  ASSUME TypeInv, KnownFileIsInMemory, NEW s \in Session, Load(s) \/ Reload(s), UNCHANGED file
  PROVE  KnownFileIsInMemory'
<1> SUFFICES ASSUME NEW t \in Session, known'[t] = "current" PROVE MarkedCopy(memory[t], file)'
  BY DEF KnownFileIsInMemory, MarkedCopy
<1>1. known[t] = "current" => MarkedCopy(memory[t], file)
  BY KnownIs
<1>2. CASE t # s
  <2>1. memory'[t] = memory[t] /\ known'[t] = known[t]
    BY <1>2 DEF Load, Reload, TypeInv
  <2> QED BY <1>1, <2>1 DEF MarkedCopy
<1>3. CASE t = s
  <2>1. memory[s] # NoSnapshot \/ known[s] # "current"
    BY <1>1, <1>3 DEF MarkedCopy
  <2>2. \/ memory'[s] = file /\ file # NoSnapshot
        \/ memory'[s] = memory[s] /\ known[s] = "current"
    BY <1>3, <2>1 DEF Load, Reload, Loaded, TypeInv
  <2> QED BY <1>1, <1>3, <2>2 DEF MarkedCopy
<1> QED BY <1>2, <1>3

LEMMA KnownMark ==
  ASSUME TypeInv, KnownFileIsInMemory, NEW s \in Session, NEW S, UNCHANGED << file, known >>,
         memory' = [memory EXCEPT ![s] = Mark(memory[s], S, "stale")]
  PROVE  KnownFileIsInMemory'
<1> SUFFICES ASSUME NEW t \in Session, known'[t] = "current" PROVE MarkedCopy(memory[t], file)'
  BY DEF KnownFileIsInMemory, MarkedCopy
<1> PICK x : x = memory[t]
  OBVIOUS
<1>1. MarkedCopy(x, file) /\ x \in TrueSnap
  BY KnownIs DEF TypeInv
<1>2. memory'[t] = x \/ memory'[t] = Mark(x, S, "stale")
  BY DEF TypeInv
<1>3. CASE memory'[t] = x
  BY <1>1, <1>3 DEF MarkedCopy
<1>4. CASE memory'[t] = Mark(x, S, "stale")
  <2> PICK y : y = Mark(x, S, "stale")
    OBVIOUS
  <2>1. /\ y # NoSnapshot /\ y.version = x.version
        /\ \A n \in Namespace :
             /\ y.part[n].content = x.part[n].content /\ y.part[n].version = x.part[n].version
             /\ y.part[n].status = "fresh" => x.part[n].status = "fresh"
    BY <1>1, MarkGood DEF MarkedCopy
  <2>2. MarkedCopy(y, file)
    BY <1>1, <2>1 DEF MarkedCopy
  <2> QED BY <1>4, <2>2 DEF MarkedCopy
<1> QED BY <1>2, <1>3, <1>4

LEMMA KnownSame ==
  ASSUME KnownFileIsInMemory, UNCHANGED << file, memory, known >>
  PROVE  KnownFileIsInMemory'
BY DEF KnownFileIsInMemory

LEMMA KnownSave ==
  ASSUME CoreInv, KnownFileIsInMemory, NEW c \in Call, Save(c)
  PROVE  KnownFileIsInMemory'
<1> PICK k : k = call[c]
  OBVIOUS
<1>1. /\ k.phase = "save" /\ file' = k.base
      /\ memory' = [memory EXCEPT ![k.session] = k.base]
      /\ known' = [s \in Session |-> IF s = k.session THEN "current"
                                     ELSE IF known[s] = "current" THEN "old" ELSE known[s]]
  BY DEF Save
<1>2. k.base # NoSnapshot /\ k.session \in Session
  BY <1>1, UnderWay DEF ActiveFacts, Ready, ActiveCall
<1> SUFFICES ASSUME NEW t \in Session, known'[t] = "current" PROVE MarkedCopy(memory[t], file)'
  BY DEF KnownFileIsInMemory, MarkedCopy
<1>3. t = k.session
  BY <1>1
<1>4. memory'[t] = k.base
  BY <1>1, <1>3 DEF CoreInv, TypeInv
<1> QED BY <1>1, <1>2, <1>4 DEF MarkedCopy

LEMMA KnownCall ==
  ASSUME CoreInv, KnownFileIsInMemory, NEW c \in Call, CallStep(c)
  PROVE  KnownFileIsInMemory'
<1> PICK k : k = call[c]
  OBVIOUS
<1>0. TypeInv
  BY DEF CoreInv
<1>1. k.session \in Session
  <2>1. k.phase \notin {"idle", "over"}
    BY DEF CallStep, Ensure, Plan, Receive, Save, RetryBusy, GiveUp, Reconcile, MarkUnreconciled,
           CommitOk, Confirm, CommitConflict, CommitError, OperationOk, OperationFailed, MarkStale,
           Broken
  <2> QED BY <2>1, UnderWay DEF ActiveCall
<1>2. CASE Plan(c) \/ Receive(c) \/ GiveUp(c) \/ CommitOk(c) \/ Confirm(c) \/ CommitError(c)
  BY <1>2, KnownSame DEF Plan, Receive, GiveUp, CommitOk, Confirm, CommitError
<1>3. CASE Ensure(c) \/ RetryBusy(c) \/ Reconcile(c) \/ OperationOk(c)
  <2>1. UNCHANGED file /\ (Load(k.session) \/ Reload(k.session))
    BY <1>3 DEF Ensure, RetryBusy, Reconcile, OperationOk
  <2> QED BY <1>0, <1>1, <2>1, KnownLoad
<1>4. CASE CommitConflict(c) \/ OperationFailed(c)
  <2>1. UNCHANGED file /\ (Load(k.session) \/ UNCHANGED << memory, known >>)
    BY <1>4 DEF CommitConflict, OperationFailed, Conflict
  <2> QED BY <1>0, <1>1, <2>1, KnownLoad, KnownSame
<1>5. CASE Save(c)
  BY <1>5, KnownSave
<1>6. CASE MarkUnreconciled(c)
  <2>1. UNCHANGED << file, known >>
        /\ memory' = [memory EXCEPT ![k.session] = Mark(memory[k.session], k.need, "stale")]
    BY <1>6 DEF MarkUnreconciled
  <2> QED BY <1>0, <1>1, <2>1, KnownMark
<1>7. CASE MarkStale(c)
  <2>1. UNCHANGED << file, known >>
        /\ memory' = [memory EXCEPT ![k.session] = Mark(memory[k.session], k.op.needs, "stale")]
    BY <1>7 DEF MarkStale
  <2> QED BY <1>0, <1>1, <2>1, KnownMark
<1> QED BY <1>2, <1>3, <1>4, <1>5, <1>6, <1>7 DEF CallStep

LEMMA KnownStep == CoreInv /\ KnownFileIsInMemory /\ [Next]_vars => KnownFileIsInMemory'
<1> SUFFICES ASSUME CoreInv, KnownFileIsInMemory, [Next]_vars PROVE KnownFileIsInMemory'
  OBVIOUS
<1>1. ASSUME NEW c \in Call, CallStep(c) PROVE KnownFileIsInMemory'
  BY <1>1, KnownCall
<1>2. ASSUME NEW c \in Call, ServerStep(c) PROVE KnownFileIsInMemory'
  <2>1. UNCHANGED << file, memory, known >>
    BY <1>2 DEF ServerStep, AnswerFetch, ServeCommit, ServeOperation, LoseRequest, LoseAnswer
  <2> QED BY <2>1, KnownSame
<1>3. ASSUME NEW c \in Call, NEW s \in Session, NEW o \in Operation, Start(c, s, o)
      PROVE  KnownFileIsInMemory'
  BY <1>3, KnownSame DEF Start
<1>4. ASSUME NEW s \in Session, Initialize(s) PROVE KnownFileIsInMemory'
  BY <1>4, KnownLoad DEF Initialize, CoreInv
<1>5. ASSUME NEW s \in Session, Reset(s) PROVE KnownFileIsInMemory'
  <2>1. \A t \in Session : known'[t] # "current"
    BY <1>5 DEF Reset
  <2> QED BY <2>1 DEF KnownFileIsInMemory
<1>6. ASSUME NEW s \in Session, Exit(s) PROVE KnownFileIsInMemory'
  <2> SUFFICES ASSUME NEW t \in Session, known'[t] = "current" PROVE MarkedCopy(memory[t], file)'
    BY DEF KnownFileIsInMemory, MarkedCopy
  <2>1. /\ memory' = [memory EXCEPT ![s] = NoSnapshot] /\ known' = [known EXCEPT ![s] = "none"]
        /\ UNCHANGED file
    BY <1>6 DEF Exit
  <2>2. memory'[t] = memory[t] /\ known[t] = "current"
    BY <2>1 DEF CoreInv, TypeInv
  <2> QED BY <2>1, <2>2 DEF KnownFileIsInMemory, MarkedCopy
<1>7. ASSUME NEW n \in Namespace, Browser(n) PROVE KnownFileIsInMemory'
  BY <1>7, KnownSame DEF Browser
<1>8. CASE UNCHANGED vars
  BY <1>8, KnownSame DEF vars
<1> QED BY <1>1, <1>2, <1>3, <1>4, <1>5, <1>6, <1>7, <1>8 DEF Next

\* A session that passes the comparison of revisions, and so may write the
\* file, has in memory what is in the file, but for what it has marked since.
THEOREM KnownFileCorrect == Spec => []KnownFileIsInMemory
<1>1. Init => KnownFileIsInMemory
  BY DEF Init, KnownFileIsInMemory
<1> QED BY <1>1, KnownStep, CoreAlways, PTL DEF Spec
=============================================================================
