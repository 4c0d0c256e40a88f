---------------------------- MODULE MCStoredFiles ----------------------------
(* Instance of StoredFiles.  With MaxControls = 2 the documents include an *)
(* empty one, the largest profile, one that is too large, one with a text  *)
(* that is not XML and one of another program version.                     *)
EXTENDS StoredFiles

MCDocuments == <<
  [version |-> 1, items |-> 0, printable |-> TRUE],
  [version |-> 1, items |-> 2, printable |-> TRUE],
  [version |-> 1, items |-> 3, printable |-> TRUE],
  [version |-> 1, items |-> 1, printable |-> FALSE],
  [version |-> 2, items |-> 1, printable |-> TRUE] >>

(* One group without subgroups, and one with a subgroup of each kind.      *)
MCTrees == {
  <<MonitorNode(<< >>)>>,
  <<MonitorNode(<<GroupNode(<< >>),
                  GroupNode(<<SubgroupNode(FALSE, << >>),
                              SubgroupNode(TRUE,
                                <<ControlNode(<<ValueNode, ValueNode>>),
                                  ControlNode(<< >>)>>)>>)>>)>> }
=============================================================================
