--------------------------- MODULE MCClusterCalls ---------------------------
(* Instances of ClusterCalls for TLC: what the clients of a run do, and where *)
(* the partitions are.                                                        *)
EXTENDS ClusterCalls

Everywhere == [n \in Node |-> Partition]
Apart      == [n \in Node |-> {n}]

Scenario(does, hosts, defs, corrs, elected, insts, deployed) ==
    [does |-> does, hosts |-> hosts, defs |-> defs, corrs |-> corrs,
     elections |-> elected, insts |-> insts, deploys |-> deployed]

MCScenarios ==
    {Scenario({"process"}, Everywhere, {}, {}, 1, 1, 1),
     Scenario({"decision"}, Everywhere, {}, {}, 1, 1, 1),
     Scenario({"process"}, Apart, {}, {}, 0, 1, 2),
     Scenario({"decision"}, Apart, {}, {}, 0, 1, 2),
     Scenario({"create", "publish", "cancel"}, Everywhere, {MessageProcess}, {1, 2}, 1, 1, 0),
     Scenario({"create", "publish"}, Apart, {MessageProcess}, {1, 2}, 0, 2, 0),
     Scenario({"start", "complete", "cancel"}, Everywhere, {JobProcess}, {0}, 2, 1, 0),
     Scenario({"start", "fail", "resolve", "cancel"}, Everywhere, {JobProcess}, {0}, 1, 1, 0),
     Scenario({"create", "complete", "update", "delete", "assign", "evaluate"}, Apart,
              {JobProcess}, {0}, 0, 1, 0)}

=============================================================================
