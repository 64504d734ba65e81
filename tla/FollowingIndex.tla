--------------------------- MODULE FollowingIndex ---------------------------
(***************************************************************************)
(* What a search index promises that is kept beside a table and not with    *)
(* it: whatever it says of a key has been true of the table at some time,   *)
(* and the table's own history only grows.  It need not be the latest.      *)
(***************************************************************************)
CONSTANTS Keys, Absent

VARIABLES truths, says

Init ==
  /\ truths = [k \in Keys |-> {Absent}]
  /\ says = [k \in Keys |-> Absent]

\* The table changes: the statement that is now true of each key is added.
Change ==
  /\ \A k \in Keys : truths[k] \subseteq truths'[k]
  /\ UNCHANGED says

\* Entries are replaced by statements that have been true of their keys.
Follow ==
  /\ \A k \in Keys : says'[k] = says[k] \/ says'[k] \in truths[k]
  /\ UNCHANGED truths

Next == Change \/ Follow

Spec == Init /\ [][Next]_<<truths, says>>
=============================================================================
