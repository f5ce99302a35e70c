--------------------------- MODULE MCProcessEngine --------------------------
(* Process definitions for the engine.  StartEvents is <<"start">> in all  *)
(* of them.                                                                *)
EXTENDS ProcessEngine, TLC

MCSymmetry == Permutations(Client)

OneStart == <<"start">>
Attach(nodes, n, events) == [m \in nodes |-> IF m = n THEN events ELSE <<>>]
NamedAlike(events) == [n \in events |-> n]

\* A task with an interrupting boundary message and a message catch event, in
\* parallel.
OrderKind ==
    "start" :> "start" @@ "fork" :> "parallel" @@ "task" :> "task" @@ "reply" :> "boundaryMessage"
    @@ "merge" :> "exclusive" @@ "catch" :> "messageCatch" @@ "join" :> "parallel"
    @@ "end" :> "end"
OrderOut ==
    "start" :> <<"fork">> @@ "fork" :> <<"task", "catch">> @@ "task" :> <<"merge">>
    @@ "reply" :> <<"merge">> @@ "merge" :> <<"join">> @@ "catch" :> <<"join">>
    @@ "join" :> <<"end">> @@ "end" :> <<>>
OrderNode     == DOMAIN OrderKind
OrderBoundary == Attach(OrderNode, "task", <<"reply">>)
OrderMessage  == NamedAlike({"reply", "catch"})
OrderCatches  == <<"catch">>

\* The same with a link behind the task.  The message catch event comes first in
\* the document, which makes the engine panic at the link.
JumpKind == OrderKind @@ "jump" :> "linkThrow" @@ "land" :> "linkCatch"
JumpOut ==
    [OrderOut EXCEPT !["task"] = <<"jump">>]
    @@ "jump" :> <<"land">> @@ "land" :> <<"merge">>
JumpNode     == DOMAIN JumpKind
JumpBoundary == Attach(JumpNode, "task", <<"reply">>)
JumpMessage  == OrderMessage
JumpCatches  == <<"catch", "land">>

\* An inclusive gateway: a task with an interrupting boundary timer, and an
\* event-based gateway that waits for a message or a timer; a message end event
\* behind one, a terminate end event behind the other.
ChoiceKind ==
    "start" :> "start" @@ "fork" :> "inclusive" @@ "task" :> "task" @@ "late" :> "boundaryTimer"
    @@ "wait" :> "eventGateway" @@ "pay" :> "messageCatch" @@ "expire" :> "timerCatch"
    @@ "notify" :> "throw" @@ "sent" :> "messageEnd" @@ "auto" :> "task" @@ "jump" :> "linkThrow"
    @@ "land" :> "linkCatch" @@ "stop" :> "terminate" @@ "end" :> "end" @@ "give" :> "end"
ChoiceOut ==
    "start" :> <<"fork">> @@ "fork" :> <<"task", "wait">> @@ "task" :> <<"end">>
    @@ "late" :> <<"give">> @@ "wait" :> <<"pay", "expire">> @@ "pay" :> <<"notify">>
    @@ "notify" :> <<"sent">> @@ "expire" :> <<"auto">> @@ "auto" :> <<"jump">>
    @@ "jump" :> <<"land">> @@ "land" :> <<"stop">> @@ "stop" :> <<>> @@ "end" :> <<>> @@ "give" :> <<>> @@ "sent" :> <<>>
ChoiceNode     == DOMAIN ChoiceKind
ChoiceBoundary == Attach(ChoiceNode, "task", <<"late">>)
ChoiceMessage  == NamedAlike({"pay"})
ChoiceCatches  == <<"land", "pay", "expire">>

\* A task with a boundary message that does not interrupt it.
RemindKind ==
    "start" :> "start" @@ "task" :> "task" @@ "ask" :> "boundaryMessage" @@ "note" :> "end"
    @@ "end" :> "end"
RemindOut ==
    "start" :> <<"task">> @@ "task" :> <<"end">> @@ "ask" :> <<"note">> @@ "note" :> <<>>
    @@ "end" :> <<>>
RemindNode     == DOMAIN RemindOut
RemindBoundary == Attach(RemindNode, "task", <<"ask">>)
RemindMessage  == NamedAlike({"ask"})
NoCatches      == <<>>
=============================================================================
