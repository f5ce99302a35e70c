--------------------------- MODULE MCClusterState ---------------------------
EXTENDS ClusterState, TLC

MCSymmetry == Permutations(Node)

\* States that differ only in what Store.Notify remembers are one state once the
\* cluster is configured: nothing reads it again.
MCView ==
    <<raftVars, up, IF members = {} THEN <<notifying, bootstrapped>> ELSE <<>>,
      observed, applied, state, notif, partVars, faults>>
=============================================================================
