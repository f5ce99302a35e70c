------------------------------ MODULE DmnEngine ------------------------------
(***************************************************************************)
(* The evaluation of a decision requirements diagram (pkg/dmn): decisions  *)
(* that are decision tables, literal expressions or contexts, and the      *)
(* decisions they require, evaluated recursively.  The module holds the    *)
(* algorithm as operators; Decisions.tla runs it.                          *)
(*                                                                         *)
(* A map of variables is a function from names to values, a value a pair   *)
(* of a Go type and a payload, an expression a constant, the name of a     *)
(* variable or one that FEEL cannot evaluate.  An evaluation returns       *)
(* [ok, out, deps]: whether it succeeded, the map of its output (at most   *)
(* one entry) and the decisions evaluated on the way.                      *)
(***************************************************************************)
EXTENDS Naturals, Sequences, SequencesExt, TLC

NoVars == [v \in {} |-> <<>>]

Null == <<"nil", "">>

Failed == [ok |-> FALSE, out |-> NoVars, deps |-> <<>>]

Returns(out) == [ok |-> TRUE, out |-> out, deps |-> <<>>]

-----------------------------------------------------------------------------
(* The FEEL runtime: pkg/script/feel hands expressions to the feelin       *)
(* library.  A variable that is not there is null.                         *)

Evaluate(e, vars) ==
    IF e.kind = "const" THEN e.val
    ELSE IF e.name \in DOMAIN vars THEN vars[e.name] ELSE Null

\* A cell is compared with the value of its column, bound to "?".
UnaryTest(cell, vars) == cell.kind = "any" \/ Evaluate(cell, vars) = vars["?"]

-----------------------------------------------------------------------------
(* Decision tables.  A table is [inputs, outputs, rules, policy]; a rule   *)
(* [cells, values]; the name of an only output may be empty.               *)

isUnique(outputs) == \A i, j \in DOMAIN outputs : outputs[i] = outputs[j] => i = j

\* The value of a matched rule: the output itself, or a map of the outputs.
RuleValue(table, values) ==
    IF table.outputs = <<"">> THEN values[1]
    ELSE <<"map", [n \in ToSet(table.outputs) |->
                     values[CHOOSE i \in DOMAIN table.outputs : table.outputs[i] = n]]>>

evaluateCollectOutput(table, name, matched) ==
    name :> <<"list", [i \in DOMAIN matched |-> RuleValue(table, matched[i])]>>

NoKeyWithoutMatch(table, name, matched) ==
    IF matched = <<>> THEN NoVars ELSE name :> RuleValue(table, matched[1])

evaluateFirstRuleOutput(table, name, matched) ==
    name :> IF matched = <<>> THEN Null ELSE RuleValue(table, matched[1])

\* Several matches give a nil map: not even the decision's name is set.
evaluateUniqueOutput(table, name, matched) ==
    IF Len(matched) > 1 THEN NoVars
    ELSE evaluateFirstRuleOutput(table, name, matched)

\* COLLECT with an aggregation panics and is no input of the model.
EvaluateHitPolicyOutput(table, name, matched) ==
    CASE table.policy = "COLLECT" -> evaluateCollectOutput(table, name, matched)
      [] table.policy \in {"FIRST", "PRIORITY", "ANY", "RULE ORDER", "OUTPUT ORDER"} ->
           evaluateFirstRuleOutput(table, name, matched)
      [] OTHER -> evaluateUniqueOutput(table, name, matched)

\* The rules in order, each cell left to right; FIRST stops at its first match.
\* An error in a cell or in an output of a rule that is tried fails the table.
evaluateDecisionTable(table, name, vars) ==
    LET column(j) == ("?" :> Evaluate(table.inputs[j], vars)) @@ vars
        cells(i) == table.rules[i].cells
        hit(i, j) == cells(i)[j].kind # "bad" /\ UnaryTest(cells(i)[j], column(j))
        matches(i) == \A j \in DOMAIN cells(i) : hit(i, j)
        tried == {i \in DOMAIN table.rules :
                    table.policy # "FIRST" \/ \A k \in 1..(i - 1) : ~matches(k)}
        breaks(i) ==
            \/ \E j \in DOMAIN cells(i) :
                 cells(i)[j].kind = "bad" /\ \A k \in 1..(j - 1) : hit(i, k)
            \/ matches(i) /\ \E k \in DOMAIN table.outputs :
                               table.rules[i].values[k].kind = "bad"
        found == SelectSeq([i \in DOMAIN table.rules |-> i],
                           LAMBDA i : i \in tried /\ matches(i))
        values(i) == [k \in DOMAIN table.outputs |->
                        Evaluate(table.rules[i].values[k], vars)]
    IN IF \/ Len(table.outputs) > 1 /\ ~isUnique(table.outputs)
          \/ \E j \in DOMAIN table.inputs : table.inputs[j].kind = "bad"
          \/ \E i \in tried : breaks(i)
       THEN Failed
       ELSE Returns(EvaluateHitPolicyOutput(
                table, name, [i \in DOMAIN found |-> values(found[i])]))

-----------------------------------------------------------------------------
(* Literal expressions: [expr, var, typeRef].  The result is kept under    *)
(* the name of the variable, not under the decision's.                     *)

Castable(typeRef, v) ==
    CASE typeRef = "string"  -> v[1] = "string"
      [] typeRef = "boolean" -> v[1] \in {"bool", "nil"}
      [] typeRef = "integer" -> v[1] = "int"
      [] typeRef = "long"    -> v[1] = "int64"
      [] typeRef = "double"  -> v[1] = "float64"
      [] typeRef = "date"    -> v[1] = "time"
      [] typeRef = "number"  -> v[1] \in {"float64", "int64", "nil"}
      [] OTHER -> TRUE

evaluateLiteralExpression(literal, vars) ==
    LET v == Evaluate(literal.expr, vars)
    IN IF literal.expr.kind = "bad" THEN Failed
       ELSE IF ~Castable(literal.typeRef, v) THEN Failed
       ELSE Returns(literal.var :> v)

-----------------------------------------------------------------------------
(* Contexts: entries [var, logic], evaluated in order, each seeing the     *)
(* entries before it.  A last entry without a variable is the result; else *)
(* the result is the map of the entries.                                   *)

\* The i-th entry was evaluated to r.
ContextEntry(acc, isResult, r) ==
    CASE ~r.ok    -> [acc EXCEPT !.ok = FALSE]
      [] isResult -> [acc EXCEPT !.result = r.out]
      [] OTHER    -> [acc EXCEPT !.local = r.out @@ @, !.out = r.out @@ @]

ContextOutput(name, hasResult, all) ==
    IF ~all.ok THEN Failed
    ELSE Returns(IF hasResult THEN all.result ELSE name :> <<"map", all.out>>)

\* A literal is kept under the name of its entry; the result is not cast.
EntryLogic(logic, own, isResult) ==
    IF logic.kind = "literal"
    THEN [logic EXCEPT !.var = own, !.typeRef = IF isResult THEN "" ELSE @]
    ELSE logic

RECURSIVE evaluateContext(_, _, _)

LogicOutput(logic, name, vars) ==
    CASE logic.kind = "table"   -> evaluateDecisionTable(logic, name, vars)
      [] logic.kind = "literal" -> evaluateLiteralExpression(logic, vars)
      [] logic.kind = "context" -> evaluateContext(logic, name, vars)

evaluateContext(context, name, vars) ==
    LET entries == context.entries
        isResult(i) == i = Len(entries) /\ entries[i].var = ""
        own(i) == IF isResult(i) THEN name ELSE entries[i].var
        step(acc, i) ==
            IF ~acc.ok THEN acc
            ELSE ContextEntry(acc, isResult(i),
                     LogicOutput(EntryLogic(entries[i].logic, own(i), isResult(i)),
                                 own(i), acc.local))
    IN ContextOutput(name, entries # <<>> /\ isResult(Len(entries)),
           FoldLeft(step, [ok |-> TRUE, local |-> vars, out |-> NoVars, result |-> NoVars],
                    [i \in DOMAIN entries |-> i]))

-----------------------------------------------------------------------------
(* Decisions.  A diagram is a function from ids to decisions [name, reqs,  *)
(* logic]; a requirement is [kind, ref], of a decision by its id or of an  *)
(* input by its name.                                                      *)

decisionName(drd, id) == IF drd[id].name = "" THEN id ELSE drd[id].name

\* The name under which a decision's output reaches the ones that require it.
outputName(drd, id) ==
    IF drd[id].logic.kind = "literal" THEN drd[id].logic.var ELSE decisionName(drd, id)

\* One requirement: an input must be there, a decision was evaluated to r.
Require(acc, req, input, r) ==
    CASE ~acc.ok -> acc
      [] req.kind = "input" -> [acc EXCEPT !.ok = req.ref \in DOMAIN input]
      [] ~r.ok -> [acc EXCEPT !.ok = FALSE]
      [] OTHER -> [acc EXCEPT !.local = r.out @@ @,
                              !.deps = @ \o <<[id |-> req.ref, out |-> r.out]>> \o r.deps]

WithDependencies(r, deps) == IF r.ok THEN [r EXCEPT !.deps = deps] ELSE Failed

\* The logic of the decision, once its requirements are there.
evaluateLogic(drd, id, all) ==
    IF all.ok
    THEN WithDependencies(LogicOutput(drd[id].logic, decisionName(drd, id), all.local), all.deps)
    ELSE Failed

RECURSIVE LeaksBetweenRequirements(_, _, _)

LeaksBetweenRequirements(drd, id, input) ==
    LET require(acc, req) ==
            Require(acc, req, input, LeaksBetweenRequirements(drd, req.ref, acc.local))
    IN IF id \notin DOMAIN drd THEN Failed
       ELSE evaluateLogic(drd, id,
                FoldLeft(require, [ok |-> TRUE, local |-> input, deps |-> <<>>], drd[id].reqs))

RECURSIVE evaluateDecision(_, _, _)

\* The required decisions are evaluated with the caller's variables, the decision
\* itself with their outputs on top of them.
evaluateDecision(drd, id, input) ==
    LET require(acc, req) ==
            Require(acc, req, input, evaluateDecision(drd, req.ref, input))
    IN IF id \notin DOMAIN drd THEN Failed
       ELSE evaluateLogic(drd, id,
                FoldLeft(require, [ok |-> TRUE, local |-> input, deps |-> <<>>], drd[id].reqs))

\* What the caller gets and what is saved as a decision instance: the decisions
\* evaluated, the asked one first, and the value of its output.
EvaluatedDRDResult(id, r) ==
    [ok |-> r.ok,
     evaluated |-> IF r.ok THEN <<[id |-> id, out |-> r.out]>> \o r.deps ELSE <<>>,
     output |-> IF DOMAIN r.out = {} THEN Null
                ELSE r.out[CHOOSE n \in DOMAIN r.out : TRUE]]

evaluateDRD(drd, id, input) == EvaluatedDRDResult(id, evaluateDecision(drd, id, input))

=============================================================================
