--------------------------- MODULE MCInstanceTree ---------------------------
(* A subprocess, a call activity, and multi-instances over two items.        *)
EXTENDS InstanceTree

Shape(inner, multi, sequential, items) ==
    [inner |-> inner, multi |-> multi, sequential |-> sequential, items |-> items]

MCShapes == {Shape("sub", FALSE, FALSE, 0),
             Shape("task", TRUE, FALSE, 0),
             Shape("task", TRUE, FALSE, 2),
             Shape("call", TRUE, TRUE, 2),
             Shape("call", TRUE, FALSE, 2)}
=============================================================================
