----------------------------- MODULE RestServer -----------------------------
(***************************************************************************)
(* internal/rest/server.go: the handlers of the REST API on node n, what   *)
(* they check before they call the node and which status they make of what *)
(* comes back.  A response is a status and, when it is a success, the body;*)
(* a handler is the set of the responses that are possible.                *)
(*                                                                         *)
(* A handler that calls the node twice has the second call in an operator  *)
(* of its own, since the cluster may change in between.                    *)
(***************************************************************************)
EXTENDS Integers, Sequences, FiniteSets, FiniteSetsExt

CONSTANTS Null, KeySpace

N == INSTANCE ZenNode

Response(status, body) == [status |-> status, body |-> body]

BadRequest == {Response(400, Null)}

\* The switch on zerr.Code: codes that a handler does not list are a 500.
Reply(r, success, codes) ==
    IF r.code = "ok" THEN Response(success, r.val)
    ELSE Response(IF r.code \in DOMAIN codes THEN codes[r.code] ELSE 500, Null)

Replies(results, success, codes) == {Reply(r, success, codes) : r \in results}

Cluster  == [cluster |-> 502]
ByKey    == [cluster |-> 502, notfound |-> 404]
Checked  == [cluster |-> 502, notfound |-> 404, badrequest |-> 400]
Deployed == [cluster |-> 502, conflict |-> 409]

-----------------------------------------------------------------------------
(* Pages *)

PaginationDefaultPage == 1
PaginationDefaultSize == 10
PaginationMaxSize     == 100

\* A page is asked for as <<page, size>>, either of them Null when not given.
defaultPagination(pg) ==
    <<IF pg[1] = Null THEN PaginationDefaultPage ELSE pg[1],
      IF pg[2] = Null THEN PaginationDefaultSize ELSE pg[2]>>

validatePagination(pg) == pg[1] >= 1 /\ pg[2] \in 1..PaginationMaxSize

\* Without a sort order the newest come first, in the handlers that say so.
Descending(order) == order # "asc"

SortOrders == {"asc", "desc", Null}

\* The counts of a list are summed over the partitions.
Counted(r) ==
    IF r.code # "ok" THEN r
    ELSE N!S!Ok([partitions |-> r.val,
                 count |-> MapThenSumSet(LAMBDA p : Len(r.val[p].rows), DOMAIN r.val),
                 total |-> MapThenSumSet(LAMBDA p : r.val[p].total, DOMAIN r.val)])

CountedReplies(results, codes) == Replies({Counted(r) : r \in results}, 200, codes)

-----------------------------------------------------------------------------
(* Definitions *)

GetDmnResourceDefinitions(c, n, id, onlyLatest, order, page) ==
    LET pg == defaultPagination(page)
    IN  IF order \notin SortOrders THEN BadRequest
        ELSE Replies(N!GetDmnResourceDefinitions(c, n, id, onlyLatest, Descending(order), pg[1], pg[2]),
                     200, Cluster)

GetDmnResourceDefinition(c, n, k) ==
    Replies(N!GetDmnResourceDefinition(c, n, k), 200, [notfound |-> 404])

GetProcessDefinitions(c, n, id, onlyLatest, order, page) ==
    LET pg == defaultPagination(page)
    IN  IF ~validatePagination(pg) THEN BadRequest
        ELSE Replies(N!GetProcessDefinitions(c, n, id, onlyLatest, order = "desc", pg[1], pg[2]),
                     200, [badrequest |-> 400])

GetProcessDefinition(c, n, k) ==
    IF k <= 0 THEN BadRequest
    ELSE Replies(N!GetProcessDefinition(c, n, k), 200, [notfound |-> 404, badrequest |-> 400])

GetProcessDefinitionElementStatistics(c, n, k) ==
    IF k <= 0 THEN BadRequest
    ELSE UNION {IF d.code # "ok" THEN {Reply(d, 200, [notfound |-> 404])}
                ELSE Replies(N!GetProcessDefinitionElementStatistics(c, k), 200,
                             [cluster |-> 502, badrequest |-> 400]) :
                    d \in N!GetProcessDefinition(c, n, k)}

GetProcessDefinitionStatistics(c, name, onlyLatest, ids, keys, page) ==
    LET pg == defaultPagination(page)
    IN  IF ~validatePagination(pg) THEN BadRequest
        ELSE Replies(N!GetProcessDefinitionStatistics(c, name, onlyLatest, ids, keys), 200,
                     [cluster |-> 502, badrequest |-> 400])

\* The answers of a deployment: to its duplicate check, and when all the calls
\* to the partitions have returned.  Only the DMN handler knows a cluster error.
CreateProcessDefinition(r) == Reply(r, 201, [conflict |-> 409])

CreateDmnResourceDefinition(r) == Reply(r, 201, Deployed)

-----------------------------------------------------------------------------
(* Instances, jobs, incidents and decisions *)

getRestProcessInstanceState(s) == IF s = "ready" THEN "active" ELSE s

\* Panics outside these states.
RestJobStates == {"active", "completed", "terminated", "failed"}

getRestJobState(s) == IF s \in RestJobStates THEN s ELSE "panic"

GetProcessInstance(c, k) == Replies(N!GetProcessInstance(c, k), 200, ByKey)

GetJob(c, k) == Replies(N!GetJob(c, k), 200, ByKey)

GetDecisionInstance(c, k) == Replies(N!GetDecisionInstance(c, k), 200, ByKey)

GetProcessInstanceElementStatistics(c, k) ==
    IF k <= 0 THEN BadRequest
    ELSE UNION {IF i.code # "ok" THEN {Reply(i, 200, ByKey)}
                ELSE Replies(N!GetProcessInstanceElementStatistics(c, k), 200,
                             [cluster |-> 502, badrequest |-> 400]) :
                    i \in N!GetProcessInstance(c, k)}

InstanceStates == {"active", "completed", "terminated", "failed"}

GetProcessInstances(c, q, children, order, page) ==
    LET pg == defaultPagination(page)
    IN  IF q.state \notin InstanceStates \cup {Null} \/ order \notin SortOrders THEN BadRequest
        ELSE CountedReplies(N!GetProcessInstances(c, q, children, Descending(order), pg[1], pg[2]),
                            Cluster)

GetChildProcessInstances(c, k, state, order, page) ==
    LET pg == defaultPagination(page)
    IN  IF state \notin InstanceStates \cup {Null} \/ order \notin SortOrders THEN BadRequest
        ELSE Replies(N!GetChildProcessInstances(c, k, state, Descending(order), pg[1], pg[2]),
                     200, Cluster)

GetHistory(c, k) == Replies(N!GetFlowElementHistory(c, k), 200, Cluster)

GetProcessInstanceJobs(c, k, page) ==
    LET pg == defaultPagination(page)
    IN  Replies(N!GetProcessInstanceJobs(c, k, pg[1], pg[2]), 200, Cluster)

GetIncidents(c, k, state, page) ==
    LET pg == defaultPagination(page)
    IN  Replies(N!GetIncidents(c, k, state, pg[1], pg[2]), 200, Cluster)

\* The filter "terminated" asks for active jobs; "failed" is not accepted.
JobFilter(s) == IF s = "terminated" THEN "active" ELSE s

GetJobs(c, q, order, page) ==
    LET pg == defaultPagination(page)
    IN  IF q.state \notin {"active", "completed", "terminated", Null} THEN BadRequest
        ELSE CountedReplies(N!GetJobs(c, [q EXCEPT !.state = JobFilter(@)], order = "desc",
                                      pg[1], pg[2]), Cluster)

GetDecisionInstances(c, q, order, page) ==
    LET pg == defaultPagination(page)
    IN  IF order \notin SortOrders THEN BadRequest
        ELSE CountedReplies(N!GetDecisionInstances(c, q, Descending(order), pg[1], pg[2]), Cluster)

-----------------------------------------------------------------------------
(* Calls that an engine serves; eng is what the engine answers *)

CompleteJob(c, k, eng) == Reply(N!CompleteJob(c, k, eng), 201, Checked)

AssignJob(c, k, eng) == Reply(N!AssignJob(c, k, eng), 204, Checked)

ResolveIncident(c, k, eng) == Reply(N!ResolveIncident(c, k, eng), 201, ByKey)

ModifyProcessInstance(c, k, eng) == Reply(N!ModifyProcessInstance(c, k, eng), 201, Checked)

CancelProcessInstance(c, k, eng) ==
    Reply(N!CancelProcessInstance(c, k, eng), 204,
          [cluster |-> 502, notfound |-> 404, conflict |-> 409])

PublishMessage(c, n, name, corr, home, eng) ==
    Reply(N!PublishMessage(c, n, name, corr, home, eng), 201, ByKey)

\* Neither a key nor an id of a definition, or a history TTL that does not parse.
CreateProcessInstance(c, def, ttlParses) ==
    IF def = Null \/ ~ttlParses THEN BadRequest
    ELSE Replies(N!CreateInstance(c, def), 201, ByKey)

StartProcessInstanceOnElements(c, def, eng) ==
    Replies(N!StartProcessInstanceOnElements(c, def, eng), 201, Checked)

EvaluateDecision(c, id, binding) ==
    IF binding = "deployment" THEN BadRequest
    ELSE Replies(N!EvaluateDecision(c, id), 200, Checked)

\* The handlers that look at the instance first.  A response Null means that
\* the handler goes on to its second call.
Proceeds == Response(Null, Null)

UpdateProcessInstanceVariables(c, k) ==
    {IF i.code # "ok" THEN Reply(i, 200, ByKey)
     ELSE IF i.val.inst.state \notin {"active", "failed"} THEN Response(409, Null)
     ELSE Proceeds : i \in N!GetProcessInstance(c, k)}

VariablesUpdated(c, k, eng) == Reply(N!UpdateProcessInstanceVariables(c, k, eng), 204, Checked)

DeleteProcessInstanceVariable(c, k, v) ==
    {IF i.code # "ok" THEN Reply(i, 200, ByKey)
     ELSE IF v \notin i.val.inst.variables THEN Response(404, Null)
     ELSE IF i.val.inst.state # "active" THEN Response(409, Null)
     ELSE Proceeds : i \in N!GetProcessInstance(c, k)}

VariableDeleted(c, k, eng) == Reply(N!DeleteProcessInstanceVariable(c, k, eng), 204, Cluster)
=============================================================================
