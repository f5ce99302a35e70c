---------------------------- MODULE MCJobManager ----------------------------
EXTENDS JobManager

CONSTANTS c1, c2

OneType == [j \in Job |-> "t"]
OnePart == [j \in Job |-> "p1"]
\* c1 may leave a job type again
SubscribeTwice == [c \in Client |-> IF c = c1 THEN 2 ELSE 1]
=============================================================================
