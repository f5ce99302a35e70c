------------------------------ MODULE MCStorage ------------------------------
(* Storage with a root instance and its child. *)
EXTENDS Storage, TLC

MCTTLs == {Null, 1}

MCDoes == 1 :> {"job", "incident"} @@ 2 :> {"timer", "message", "decision"}

\* Instances run with one version of each definition; more versions are
\* deployed where there is no instance.  A pass that an engine call disturbed
\* is not followed further.
MCConstraint ==
    /\ ~pass.touched
    /\ mem.process_instance # {} => /\ Cardinality(mem.process_definition) = 1
                                    /\ Cardinality(mem.dmn_resource_definition) = 1

\* The clock starts with the first instance; the passes run at its end, where
\* they find instances of which the time to live has passed and others.  The
\* delete of the tokens or the last delete may fail.
MCActionConstraint ==
    /\ now' # now => mem.process_instance # {}
    /\ pass'.pc = 1 => now = MaxTime
    /\ faults' # faults => pass.pc \in {3, 8}
=============================================================================
