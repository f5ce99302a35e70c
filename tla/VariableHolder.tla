---------------------------- MODULE VariableHolder ----------------------------
(***************************************************************************)
(* pkg/bpmn/runtime/varholder.go: the variables of an element, on top of   *)
(* those of the instance it is in.  A holder is [parent, local], both maps *)
(* from names to values; a mapping is [source, target] with an expression  *)
(* of DmnEngine as its source.                                             *)
(***************************************************************************)
EXTENDS DmnEngine

\* A new holder starts with a copy of its parent's variables.
NewVariableHolder(parent) == [parent |-> parent, local |-> parent]

\* Index of the first mapping that cannot be evaluated, or one past the end.
FirstError(mappings) ==
    CHOOSE i \in 1..(Len(mappings) + 1) :
       /\ i <= Len(mappings) => mappings[i].source.kind = "bad"
       /\ \A j \in 1..(i - 1) : mappings[j].source.kind # "bad"

\* The targets of the mappings up to the first error, the last one of a name wins.
Assigned(mappings, vars) ==
    LET done == 1..(FirstError(mappings) - 1)
        last(t) == CHOOSE i \in done : /\ mappings[i].target = t
                                       /\ \A j \in done : mappings[j].target = t => j <= i
    IN [t \in {mappings[i].target : i \in done} |-> Evaluate(mappings[last(t)].source, vars)]

Fine(mappings) == FirstError(mappings) > Len(mappings)

\* Mutant: the holder has its parent's map, not a copy of it.
SharesParentsMap(vh, mappings) ==
    LET new == Assigned(mappings, vh.parent)
    IN [parent |-> new @@ vh.parent, local |-> new @@ vh.local]

\* Every source is evaluated in the parent's variables: a mapping does not see the
\* targets of the ones before it.
EvaluateAndSetMappingsToLocalVariables(vh, mappings) ==
    [vh EXCEPT !.local = Assigned(mappings, vh.parent) @@ @]

PropagateVariable(vh, key, value) == [vh EXCEPT !.parent = (key :> value) @@ @]

mergeLocalVariablesWithOutputVariables(local, output) == output @@ local

\* Without mappings the output goes to the parent as it is.  With mappings only
\* their targets do, each at once: those before a mapping that fails stay.
PropagateOutputVariablesToParent(vh, mappings, output) ==
    IF mappings = <<>> THEN [vh EXCEPT !.parent = output @@ @]
    ELSE LET scope == mergeLocalVariablesWithOutputVariables(vh.local, output)
         IN [vh EXCEPT !.parent = Assigned(mappings, scope) @@ @]
=============================================================================
