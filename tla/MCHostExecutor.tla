---------------------------- MODULE MCHostExecutor ----------------------------
(* Small instances of HostExecutor for TLC. *)
EXTENDS HostExecutor

\* A mutation, a diagnostic, and restores that name any operation.
MCDrafts ==
  {[action |-> a, parent |-> NoOp] : a \in {"serving.start", "hardware.refresh"}}
    \cup {[action |-> "profile.restore", parent |-> id] : id \in Ids}

=============================================================================
