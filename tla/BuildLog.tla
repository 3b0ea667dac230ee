------------------------------ MODULE BuildLog ------------------------------
(***************************************************************************)
(* What the storage of one build promises to everything that writes it:    *)
(* the build is a history of edits, and a writer can only put a group of   *)
(* new edits behind that history.  Nothing that was saved is lost,         *)
(* rewritten, reordered or saved twice, however many requests, retries     *)
(* and imports run at the same time.                                       *)
(***************************************************************************)
EXTENDS Sequences, Functions

CONSTANT Group   \* the sequences of edits one write may save together

VARIABLE log     \* the edits the build holds, oldest first

Init == log = << >>

\* One successful write: a group of edits that are all new, kept in order.
Save(group) ==
  /\ group # << >>
  /\ IsInjective(group)
  /\ Range(group) \cap Range(log) = {}
  /\ log' = log \o group

Next == \E group \in Group : Save(group)

Spec == Init /\ [][Next]_log
=============================================================================
