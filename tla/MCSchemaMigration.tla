-------------------------- MODULE MCSchemaMigration --------------------------
(* A query server, the console and an import on one database file. *)
EXTENDS SchemaMigration

\* Past a row edited too early and an overlap, nothing is promised any more.
StillPromised == quiet \/ ~overlapped

\* At most two initialisations at once, of the three processes.
AtMostTwo == \E p \in Processes : ~Busy(p)
=============================================================================
