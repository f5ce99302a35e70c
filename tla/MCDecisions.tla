---------------------------- MODULE MCDecisions ----------------------------
EXTENDS Decisions

S(v) == <<"string", v>>
Const(v) == [kind |-> "const", val |-> S(v)]
Var(n) == [kind |-> "var", name |-> n]
Dash == [kind |-> "any"]
Bad == [kind |-> "bad"]

Table(policy, in, c1, c2) ==
    [kind |-> "table", policy |-> policy, inputs |-> <<in>>, outputs |-> <<"">>,
     rules |-> <<[cells |-> <<c1>>, values |-> <<Const("p")>>],
                 [cells |-> <<c2>>, values |-> <<Const("q")>>]>>]
Literal(e, n, t) == [kind |-> "literal", expr |-> e, var |-> n, typeRef |-> t]
Decision(name, reqs, logic) == [name |-> name, reqs |-> reqs, logic |-> logic]
Needs(ref) == [kind |-> "decision", ref |-> ref]
NeedsInput(ref) == [kind |-> "input", ref |-> ref]

\* "right" reads a variable that has the name of the other required decision; "top"
\* requires both, in either order.
Drd(l, t, reqs) ==
    [i \in {"L", "R", "T"} |->
        CASE i = "L" -> Decision("left", <<NeedsInput("x")>>, l)
          [] i = "R" -> Decision("right", <<>>, Table("FIRST", Var("left"), Const("p"), Dash))
          [] i = "T" -> Decision("top", reqs, t)]

TwoOutputs ==
    [kind |-> "table", policy |-> "FIRST", inputs |-> <<Var("left"), Var("right")>>,
     outputs |-> <<"l", "r">>,
     rules |-> <<[cells |-> <<Const("a"), Dash>>, values |-> <<Var("left"), Var("right")>>],
                 [cells |-> <<Bad, Const("a")>>, values |-> <<Var("right"), Var("left")>>]>>]
Entries(last) ==
    [kind |-> "context",
     entries |-> <<[var |-> "e", logic |-> Literal(Var("left"), "", "")],
                   [var |-> last, logic |-> Literal(Var("e"), "", "")]>>]
LeftRight == <<Needs("L"), Needs("R")>>
RightLeft == <<Needs("R"), Needs("L")>>

\* Overlapping rules, no rule that matches, one that does, a typed literal.
MCDiagram ==
    {Drd(Table("UNIQUE", Var("x"), Dash, Const("a")), Entries("f"), LeftRight),
     Drd(Table("COLLECT", Var("x"), Dash, Const("a")), Entries(""), RightLeft),
     Drd(Table("ANY", Var("x"), Const("c"), Const("b")), Entries("f"), LeftRight),
     Drd(Literal(Var("x"), "left", "string"), TwoOutputs, RightLeft)}

MCVariables ==
    {NoVars, "x" :> S("a"), "x" :> S("b"),
     "x" :> S("a") @@ "left" :> S("a")}

Maps(source, target) == [source |-> source, target |-> target]

\* A result variable; input mappings that hide a variable of the instance; output
\* mappings of which the second fails.
MCTask ==
    {[decision |-> "L", in |-> <<>>, result |-> "res", out |-> <<>>],
     [decision |-> "R", in |-> <<Maps(Var("x"), "left"), Maps(Const("b"), "x")>>, result |-> "res",
      out |-> <<Maps(Var("res"), "y"), Maps(Bad, "z")>>],
     [decision |-> "T", in |-> <<Maps(Const("a"), "x"), Maps(Bad, "y")>>, result |-> "res", out |-> <<>>]}

=============================================================================
