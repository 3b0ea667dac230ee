-------------------------- MODULE MCProjectSession --------------------------
(***************************************************************************)
(* Instances of ProjectSession for TLC.                                    *)
(***************************************************************************)
EXTENDS ProjectSession, TLC

CONSTANTS pages, styles

Contract(kind, needs, writes, invalidates, retry) ==
  [kind |-> kind, needs |-> needs, writes |-> writes, invalidates |-> invalidates,
   retryOnConflict |-> retry]

\* One contract of each shape: a read, a mutation that may be retried, one
\* that reads and invalidates more than it writes, one that creates generated
\* records, a revert, an operation of the server, and the session commands.
Contracts ==
  { Contract("read", {styles}, styles, {}, FALSE),
    Contract("refresh", {pages}, pages, {}, FALSE),
    Contract("mutate", {pages}, pages, {}, TRUE),
    Contract("mutate", {pages, styles}, styles, {pages}, FALSE),
    Contract("generated", {pages}, styles, {styles}, TRUE),
    Contract("restore", {pages, styles}, pages, {}, FALSE),
    Contract("server", {}, pages, {pages}, FALSE),
    Contract("markStale", {pages, styles}, pages, {}, FALSE) }

\* Calls and sessions are interchangeable.
Symmetry == Permutations(Call) \cup Permutations(Session)
=============================================================================
