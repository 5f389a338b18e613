---------------------------- MODULE MCTableWalks ----------------------------
(***************************************************************************)
(* The instance of TableWalks, and with it of SnapshotWalk, that TLC       *)
(* checks.                                                                 *)
(***************************************************************************)
EXTENDS TableWalks

MCRecordSize == [types |-> 2, pagefiles |-> 3, topology |-> 5]

\* Names that leave the next type aligned or not, and records of the topology
\* as long as the longest, and shorter.
MCTails == [types |-> {2, 3}, pagefiles |-> {1, 2}, topology |-> {3, 5}]

=============================================================================
