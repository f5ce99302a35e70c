------------------------------ MODULE JobManager ----------------------------
(***************************************************************************)
(* The job manager (internal/cluster/jobmanager).  Its server side, on the *)
(* leader of some partitions, loads waiting jobs and sends them to clients *)
(* over one stream per node and partition; its client side, on every node, *)
(* hands them to the workers connected there (JobStream, grpc/server.go)   *)
(* and forwards their subscriptions.                                       *)
(*                                                                         *)
(* One job server and the nodes connected to it.  A stream is two FIFO     *)
(* queues; a stream that breaks is not opened again until its node         *)
(* restarts.  The engine and its table of jobs are the environment.        *)
(***************************************************************************)
EXTENDS Integers, Sequences, FiniteSets, SequencesExt, FiniteSetsExt

CONSTANTS Node,         \* nodes with a job client
          Part,         \* partitions led by the node of the job server
          Client,       \* client ids of workers
          Type,         \* job types
          Job,          \* keys of jobs, oldest first (a set of integers)
          TypeOf,       \* [Job -> Type]
          PartOf,       \* [Job -> Part]
          None,
          MaxActive,    \* maxActiveJobsPerClient
          MaxRequests,  \* bound of the model: requests of each client
          MaxFaults,    \* bound of the model: disconnects, lost streams, restarts
          MaxRestarts   \* bound of the model: restarts of a node

ASSUME JobManagerAssumption ==
    /\ Job \subseteq Int /\ IsFiniteSet(Job) /\ IsFiniteSet(Client)
    /\ TypeOf \in [Job -> Type]
    /\ PartOf \in [Job -> Part]
    /\ MaxActive \in Nat \ {0}
    /\ MaxRequests \in [Client -> Nat] /\ MaxFaults \in Nat /\ MaxRestarts \in Nat
    /\ None \notin Node \X Part \X (0 .. MaxRestarts)
    /\ None \notin Client \cup Node

VARIABLES
    jobState,       \* job rows: "waiting" (state 1) or "done"
    \* jobServer
    nodeSubs,       \* s.nodeSubs: the stream a node is known by
    leaked,         \* read locks of s.nodeMu that nobody will release
    clientMu,       \* the stream whose handler keeps s.clientMu, or None
    subscriptions,  \* s.subscriptions: the stream of a client, per job type
    jobTypes,       \* s.jobTypes: round robin index and clients, per job type
    distributed,    \* s.distributedJobs, oldest first
    loop,           \* where distributeJobs is and the locals of its iteration
    handler,        \* per stream: where the server's handleJobStreamRecv is
    \* streams
    up, down,       \* requests to the server, jobs to the node
    \* jobClient
    gen,            \* starts of each node
    clientSubs,     \* c.clientSubs of each node
    conn,           \* the JobStream call of each client
    inflight,       \* a request read from a JobStream and not yet handled
    dispatcher,     \* distributeToClients of each node
    held,           \* jobs a worker has received and not answered
    released,       \* jobs whose lock expired or lost its client
    requests, faults

serverVars == <<nodeSubs, leaked, clientMu, subscriptions, jobTypes>>
clientVars == <<gen, clientSubs, conn, inflight, dispatcher, held>>
vars == <<jobState, serverVars, distributed, released, loop, handler, up, down,
          clientVars, requests, faults>>

Stream == Node \X Part \X (0 .. MaxRestarts)
StreamNode(s) == s[1]

\* c.nodeStreams of node n: the streams opened since it started
nodeStreams(n) == {s \in Stream : s[1] = n /\ s[3] = gen[n]}

Request == {"subscribe", "unsubscribe", "removeAll"} \X Client \X (Type \cup {None})
NoLoop == [pc |-> "plan", slots |-> [c \in Client |-> 0], skip |-> {},
           types |-> {}, count |-> 0, batch |-> <<>>]
Idle == [pc |-> "idle", job |-> None, client |-> None]
Off == [pc |-> "off", node |-> None, done |-> FALSE]

Init ==
    /\ jobState = [j \in Job |-> "waiting"]
    /\ nodeSubs = [n \in Node |-> None]
    /\ leaked = 0
    /\ clientMu = None
    /\ subscriptions = [t \in Type |-> [c \in Client |-> None]]
    /\ jobTypes = [t \in Type |-> [known |-> FALSE, index |-> 0, clients |-> <<>>]]
    /\ distributed = <<>>
    /\ loop = NoLoop
    /\ handler = [s \in Stream |-> "new"]
    /\ up = [s \in Stream |-> <<>>]
    /\ down = [s \in Stream |-> <<>>]
    /\ gen = [n \in Node |-> 0]
    /\ clientSubs = [n \in Node |-> {}]
    /\ conn = [c \in Client |-> Off]
    /\ inflight = [c \in Client |-> None]
    /\ dispatcher = [n \in Node |-> Idle]
    /\ held = [c \in Client |-> {}]
    /\ released = {}
    /\ requests = [c \in Client |-> 0]
    /\ faults = 0

-----------------------------------------------------------------------------
(* The server's distribution loop.                                         *)

Listed == UNION {ToSet(jobTypes[t].clients) : t \in Type}
Entries(c) == Cardinality({i \in DOMAIN distributed : distributed[i].client = c})

\* The increasing enumerations of a finite set of integers: exactly one.
Ascending(K) ==
    {f \in [1 .. Cardinality(K) -> K] :
        \A a, b \in 1 .. Cardinality(K) : a < b => f[a] < f[b]}

\* The list of locked jobs with only its entries at the positions K.
Kept(K) ==
    {[i \in 1 .. Cardinality(K) |-> distributed[f[i]]] : f \in Ascending(K)}

\* The lock duration of the oldest locked job passes (bound of the model: once
\* for each job).
Expire ==
    /\ \E i \in DOMAIN distributed :
          /\ ~distributed[i].expired /\ distributed[i].job \notin released
          /\ \A k \in 1 .. (i - 1) : distributed[k].expired
          /\ distributed' = [distributed EXCEPT ![i].expired = TRUE]
          /\ released' = released \cup {distributed[i].job}
    /\ UNCHANGED <<jobState, serverVars, loop, handler, up, down, clientVars,
                   requests, faults>>

\* Mutant: one slot too few is counted.
PlansOneTooFew ==
    /\ loop.pc = "plan"
    /\ loop' = IF MaxActive * Cardinality(Listed) - Len(distributed) <= 1
               THEN NoLoop
               ELSE [NoLoop EXCEPT !.pc = "load", !.count = 1,
                                   !.types = {t \in Type : jobTypes[t].known}]
    /\ UNCHANGED <<jobState, released, serverVars, distributed, handler, up, down,
                   clientVars, requests, faults>>

\* One iteration starts: the locks that expired are released and the free
\* slots of the clients counted; without free slots the loop starts again.
Plan ==
    /\ loop.pc = "plan"
    /\ \E live \in Kept({i \in DOMAIN distributed : ~distributed[i].expired}) :
          LET Used(c) == Cardinality({i \in DOMAIN live : live[i].client = c})
              slots == [c \in Client |->
                           (IF c \in Listed THEN MaxActive ELSE 0) - Used(c)]
              count == MaxActive * Cardinality(Listed) - Len(live)
          IN  /\ distributed' = live
              /\ loop' = IF count <= 0 THEN NoLoop
                         ELSE [NoLoop EXCEPT !.pc = "load", !.slots = slots,
                                   !.count = count,
                                   !.types = {t \in Type : jobTypes[t].known},
                                   !.skip = {live[i].job : i \in DOMAIN live}]
    /\ UNCHANGED <<jobState, released, serverVars, handler, up, down, clientVars,
                   requests, faults>>

\* Mutant: the jobs that are locked are not skipped.
LoadsLockedJobs(types, skip, count) ==
    {j \in Job : jobState[j] = "waiting" /\ TypeOf[j] \in types}

\* GetWaitingJobs on the partitions led by the node: of each, the oldest count
\* jobs.
LoadJobsToDistribute(types, skip, count) ==
    LET waiting(p) == {j \in Job : /\ PartOf[j] = p
                                   /\ jobState[j] = "waiting"
                                   /\ TypeOf[j] \in types
                                   /\ j \notin skip}
        oldest(p) == {j \in waiting(p) :
                         Cardinality({k \in waiting(p) : k < j}) < count}
    IN  UNION {oldest(p) : p \in Part}

Load ==
    /\ loop.pc = "load"
    /\ \E batch \in Ascending(LoadJobsToDistribute(loop.types, loop.skip, loop.count)) :
          loop' = IF batch = <<>> THEN NoLoop
                  ELSE [loop EXCEPT !.pc = "send", !.batch = batch]
    /\ UNCHANGED <<jobState, released, serverVars, distributed, handler, up, down,
                   clientVars, requests, faults>>

LoadFails ==
    /\ loop.pc = "load"
    /\ loop' = NoLoop
    /\ UNCHANGED <<jobState, released, serverVars, distributed, handler, up, down,
                   clientVars, requests, faults>>

\* The positions the round robin of n clients wraps at.
RoundSize(n) == IF n > 1 THEN n - 1 ELSE 1

\* The next position, counted from 0, whose client has a free slot, or the
\* next position when every client in the round is saturated.
PickIndex(data, slots) ==
    LET size == RoundSize(Len(data.clients))
        first == IF data.index + 1 >= Len(data.clients) - 1 THEN 0
                                                            ELSE data.index + 1
        At(k) == (first + k) % size
        free == {k \in 0 .. (size - 1) : slots[data.clients[At(k) + 1]] > 0}
    IN  IF free = {} THEN first ELSE At(Min(free))

Skip == [loop EXCEPT !.batch = Tail(@),
                     !.pc = IF Len(loop.batch) = 1 THEN "plan" ELSE "send"]

\* A client is picked for one job of the batch, the job is locked and sent on
\* the stream of the client's node.
SendJob ==
    LET j == Head(loop.batch)
        data == jobTypes[TypeOf[j]]
        index == PickIndex(data, loop.slots)
        c == data.clients[index + 1]
        s == subscriptions[TypeOf[j]][c]
    IN  /\ loop.pc = "send"
        /\ clientMu = None
        /\ loop' = Skip
        /\ IF data.clients = <<>>
           THEN UNCHANGED <<jobTypes, distributed, down>>
           ELSE /\ jobTypes' = [jobTypes EXCEPT ![TypeOf[j]].index = index]
                /\ IF s = None
                   THEN UNCHANGED <<distributed, down>>
                   ELSE /\ distributed' = Append(distributed,
                              [job |-> j, client |-> c, expired |-> FALSE])
                        /\ IF handler[s] \in {"recv", "subscribing"}
                           THEN down' = [down EXCEPT ![s] =
                                            Append(@, <<j, c>>)]
                           ELSE UNCHANGED down  \* Send fails
        /\ UNCHANGED <<jobState, released, nodeSubs, leaked, clientMu, subscriptions,
                       handler, up, clientVars, requests, faults>>

-----------------------------------------------------------------------------
(* The server's handlers of streams.                                       *)

nodeWriters == {s \in Stream : handler[s] \in {"opening", "removing"}}

\* Mutant: the node of the stream is not registered.
StreamNotRegistered(s) ==
    /\ handler[s] = "opening"
    /\ handler' = [handler EXCEPT ![s] = "recv"]
    /\ UNCHANGED <<jobState, released, serverVars, distributed, loop, up, down,
                   clientVars, requests, faults>>

addNodeSubscription(s) ==
    /\ handler[s] = "opening"
    /\ leaked = 0
    /\ nodeSubs' = [nodeSubs EXCEPT ![StreamNode(s)] = s]
    /\ handler' = [handler EXCEPT ![s] = "recv"]
    /\ UNCHANGED <<jobState, released, leaked, clientMu, subscriptions, jobTypes,
                   distributed, loop, up, down, clientVars, requests, faults>>

\* removeNode: first under nodeMu, then under clientMu.
removeNode(s) ==
    /\ handler[s] = "removing"
    /\ leaked = 0
    /\ nodeSubs' = [nodeSubs EXCEPT ![StreamNode(s)] = None]
    /\ handler' = [handler EXCEPT ![s] = "removingSubs"]
    /\ UNCHANGED <<jobState, released, leaked, clientMu, subscriptions, jobTypes,
                   distributed, loop, up, down, clientVars, requests, faults>>

removeNodeSubs(s) ==
    /\ handler[s] = "removingSubs"
    /\ clientMu = None
    /\ subscriptions' = [t \in Type |-> [c \in Client |->
                            IF /\ subscriptions[t][c] # None
                               /\ StreamNode(subscriptions[t][c]) = StreamNode(s)
                            THEN None ELSE subscriptions[t][c]]]
    /\ handler' = [handler EXCEPT ![s] = "gone"]
    /\ UNCHANGED <<jobState, released, nodeSubs, leaked, clientMu, jobTypes, distributed,
                   loop, up, down, clientVars, requests, faults>>

\* handleJobStreamRecv reads the next request of the stream.
Receives(s, kind) ==
    /\ handler[s] = "recv"
    /\ up[s] # <<>>
    /\ Head(up[s])[1] = kind
    /\ clientMu = None
    /\ up' = [up EXCEPT ![s] = Tail(@)]

\* subscribeClient: nodeMu stays read-locked when the node is not known, and a
\* handler that meets a waiting writer then never gives clientMu back.
subscribeClient(s) ==
    LET c == Head(up[s])[2]
        t == Head(up[s])[3]
    IN  /\ Receives(s, "subscribe")
        /\ \/ /\ leaked > 0 /\ nodeWriters # {}
              /\ clientMu' = s
              /\ handler' = [handler EXCEPT ![s] = "subscribing"]
              /\ UNCHANGED <<leaked, subscriptions, jobTypes>>
           \/ /\ leaked = 0 \/ nodeWriters = {}
              /\ nodeSubs[StreamNode(s)] = None
              /\ leaked' = leaked + 1
              /\ UNCHANGED <<clientMu, handler, subscriptions, jobTypes>>
           \/ /\ leaked = 0 \/ nodeWriters = {}
              /\ nodeSubs[StreamNode(s)] # None
              /\ subscriptions' = [subscriptions EXCEPT ![t][c] =
                                      nodeSubs[StreamNode(s)]]
              /\ jobTypes' = [jobTypes EXCEPT ![t].known = TRUE,
                                              ![t].clients = Append(@, c)]
              /\ UNCHANGED <<leaked, clientMu, handler>>
        /\ UNCHANGED <<jobState, released, nodeSubs, distributed, loop, down, clientVars,
                       requests, faults>>

Without(clients, c) ==
    IF c \in ToSet(clients)
    THEN RemoveAt(clients, Min({i \in DOMAIN clients : clients[i] = c}))
    ELSE clients

unsubscribeClient(s) ==
    LET c == Head(up[s])[2]
        t == Head(up[s])[3]
    IN  /\ Receives(s, "unsubscribe")
        /\ subscriptions' = [subscriptions EXCEPT ![t][c] = None]
        /\ jobTypes' = [jobTypes EXCEPT ![t].clients = Without(@, c)]
        /\ UNCHANGED <<jobState, released, nodeSubs, leaked, clientMu, distributed, loop,
                       handler, down, clientVars, requests, faults>>

\* removeClient of the server: the client leaves every job type and its locks
\* are released.
removeClientFromServer(s) ==
    LET c == Head(up[s])[2]
        Left(t) == Without(jobTypes[t].clients, c)
    IN  /\ Receives(s, "removeAll")
        /\ subscriptions' = [t \in Type |-> [subscriptions[t] EXCEPT ![c] = None]]
        /\ jobTypes' = [t \in Type |->
              IF Left(t) = <<>> THEN [known |-> FALSE, index |-> 0, clients |-> <<>>]
                                ELSE [jobTypes[t] EXCEPT !.clients = Left(t)]]
        /\ distributed' \in Kept({i \in DOMAIN distributed : distributed[i].client # c})
        /\ released' = released \cup {distributed[i].job : i \in
                          {k \in DOMAIN distributed : distributed[k].client = c}}
        /\ UNCHANGED <<jobState, nodeSubs, leaked, clientMu, loop, handler, down,
                       clientVars, requests, faults>>

\* completeJob and failJob free the lock of the job once the engine is done; an
\* error of the engine changes nothing and the worker may answer again.
Free(j) ==
    IF \E i \in DOMAIN distributed : distributed[i].job = j
    THEN RemoveAt(distributed,
                  Min({i \in DOMAIN distributed : distributed[i].job = j}))
    ELSE distributed

completeJob(c, j) ==
    /\ j \in held[c]
    /\ held' = [held EXCEPT ![c] = @ \ {j}]
    /\ jobState' = [jobState EXCEPT ![j] = "done"]
    /\ distributed' = Free(j)
    /\ UNCHANGED <<released, serverVars, loop, handler, up, down, gen, clientSubs, conn,
                   inflight, dispatcher, requests, faults>>

failJob(c, j) ==
    /\ j \in held[c]
    /\ jobState[j] = "waiting"
    /\ held' = [held EXCEPT ![c] = @ \ {j}]
    /\ jobState' = [jobState EXCEPT ![j] = "done"]
    /\ distributed' = Free(j)
    /\ UNCHANGED <<released, serverVars, loop, handler, up, down, gen, clientSubs, conn,
                   inflight, dispatcher, requests, faults>>

-----------------------------------------------------------------------------
(* The client side of a node.                                              *)

subscribeNodeToPartition(s) ==
    /\ s \in nodeStreams(StreamNode(s))
    /\ handler[s] = "new"
    /\ handler' = [handler EXCEPT ![s] = "opening"]
    /\ UNCHANGED <<jobState, released, serverVars, distributed, loop, up, down, clientVars,
                   requests, faults>>

Working(s) == handler[s] \in {"opening", "recv", "subscribing"}

\* broadcastToNodes: a stream that is lost only makes the call return an error.
Broadcast(n, req) ==
    up' = [s \in Stream |->
              IF s \in nodeStreams(n) /\ Working(s) THEN Append(up[s], req)
                                                    ELSE up[s]]

\* JobStream: the client is registered, and its two goroutines run.
addClient(c, n) ==
    /\ conn[c] = Off
    /\ c \notin clientSubs[n]
    /\ \A s \in nodeStreams(n) : handler[s] # "new"
    /\ clientSubs' = [clientSubs EXCEPT ![n] = @ \cup {c}]
    /\ conn' = [conn EXCEPT ![c] = [pc |-> "serving", node |-> n, done |-> FALSE]]
    /\ UNCHANGED <<jobState, released, serverVars, distributed, loop, handler, up, down,
                   gen, inflight, dispatcher, held, requests, faults>>

\* recvClientRequests reads a subscription request ...
recvClientRequest(c, kind, t) ==
    /\ conn[c].pc = "serving" /\ ~conn[c].done
    /\ inflight[c] = None
    /\ requests[c] < MaxRequests[c]
    /\ inflight' = [inflight EXCEPT ![c] = <<conn[c].node, kind, t>>]
    /\ requests' = [requests EXCEPT ![c] = @ + 1]
    /\ UNCHANGED <<jobState, released, serverVars, distributed, loop, handler, up, down,
                   gen, clientSubs, conn, dispatcher, held, faults>>

\* ... and forwards it, even when the other goroutine of the client has removed it
\* meanwhile.
Forward(c, kind) ==
    /\ inflight[c] # None /\ inflight[c][2] = kind
    /\ Broadcast(inflight[c][1], <<kind, c, inflight[c][3]>>)
    /\ inflight' = [inflight EXCEPT ![c] = None]
    /\ UNCHANGED <<jobState, released, serverVars, distributed, loop, handler, down, gen,
                   clientSubs, conn, dispatcher, held, requests, faults>>

addJobSub(c)    == Forward(c, "subscribe")
removeJobSub(c) == Forward(c, "unsubscribe")

\* removeClient of a node: needs c.clientMu, which the dispatcher holds while it
\* sends.
removeClient(n, c) ==
    IF c \in clientSubs[n]
    THEN /\ Broadcast(n, <<"removeAll", c, None>>)
         /\ clientSubs' = [clientSubs EXCEPT ![n] = @ \ {c}]
    ELSE UNCHANGED <<up, clientSubs>>

\* sendClientJobs sees that the stream of the client is done.
streamDone(c) ==
    /\ conn[c].pc = "serving" /\ conn[c].done
    /\ conn' = [conn EXCEPT ![c].pc = "removing"]
    /\ UNCHANGED <<jobState, released, serverVars, distributed, loop, handler, up, down,
                   gen, clientSubs, inflight, dispatcher, held, requests, faults>>

\* Mutant: the client is removed without c.clientMu.
RemovesUnlocked(c) ==
    /\ conn[c].pc = "removing"
    /\ removeClient(conn[c].node, c)
    /\ conn' = [conn EXCEPT ![c] = Off]
    /\ UNCHANGED <<jobState, released, serverVars, distributed, loop, handler,
                   down, gen, inflight, dispatcher, held, requests, faults>>

RemoveClient(c) ==
    LET n == conn[c].node
    IN  /\ conn[c].pc = "removing"
        /\ dispatcher[n].pc = "idle"
        /\ removeClient(n, c)
        /\ conn' = [conn EXCEPT ![c] = Off]
        /\ UNCHANGED <<jobState, released, serverVars, distributed, loop, handler, down,
                       gen, inflight, dispatcher, held, requests, faults>>

\* sendJobToClient: a job for an unknown client is dropped, a client whose
\* stream is done is removed, else the dispatcher blocks on the client's channel.
sendJobToClient(s) ==
    LET n == StreamNode(s)
        j == Head(down[s])[1]
        c == Head(down[s])[2]
    IN  /\ down[s] # <<>>
        /\ dispatcher[n].pc = "idle"
        /\ down' = [down EXCEPT ![s] = Tail(@)]
        /\ \/ /\ c \notin clientSubs[n]
              /\ UNCHANGED <<dispatcher, up, clientSubs>>
           \/ /\ c \in clientSubs[n] /\ conn[c].done
              /\ removeClient(n, c)
              /\ UNCHANGED dispatcher
           \/ /\ c \in clientSubs[n] /\ ~conn[c].done
              /\ dispatcher' = [dispatcher EXCEPT ![n] =
                                   [pc |-> "sending", job |-> j, client |-> c]]
              /\ UNCHANGED <<up, clientSubs>>
        /\ UNCHANGED <<jobState, released, serverVars, distributed, loop, handler, gen,
                       conn, inflight, held, requests, faults>>

\* sendClientJobs takes the job from its channel and sends it to the worker.
sendClientJobs(n) ==
    LET c == dispatcher[n].client
    IN  /\ dispatcher[n].pc = "sending"
        /\ conn[c].pc = "serving"
        /\ dispatcher' = [dispatcher EXCEPT ![n] = Idle]
        /\ held' = IF conn[c].done THEN held
                   ELSE [held EXCEPT ![c] = @ \cup {dispatcher[n].job}]
        /\ UNCHANGED <<jobState, released, serverVars, distributed, loop, handler, up, down,
                       gen, clientSubs, conn, inflight, requests, faults>>

-----------------------------------------------------------------------------
(* Faults.                                                                 *)

Disconnect(c) ==
    /\ faults < MaxFaults
    /\ faults' = faults + 1
    /\ conn[c].pc = "serving" /\ ~conn[c].done
    /\ conn' = [conn EXCEPT ![c].done = TRUE]
    /\ held' = [held EXCEPT ![c] = {}]
    /\ UNCHANGED <<jobState, released, serverVars, distributed, loop, handler, up, down,
                   gen, clientSubs, inflight, dispatcher, requests>>

\* The server's handler of a lost stream removes the node when the stream was
\* closed or cancelled, and just returns on any other error.
Closed(S) ==
    \E pc \in [S -> {"removing", "gone"}] :
       handler' = [s \in Stream |->
                      IF s \in S /\ handler[s] = "recv" THEN pc[s]
                      ELSE IF s \in S /\ handler[s] = "new" THEN "gone"
                      ELSE handler[s]]

LoseStream(s) ==
    /\ faults < MaxFaults
    /\ faults' = faults + 1
    /\ handler[s] = "recv"
    /\ Closed({s})
    /\ up' = [up EXCEPT ![s] = <<>>]
    /\ down' = [down EXCEPT ![s] = <<>>]
    /\ UNCHANGED <<jobState, released, serverVars, distributed, loop, clientVars, requests>>

RestartNode(n) ==
    LET lost == nodeStreams(n)
        gone == {c \in Client : conn[c].node = n}
    IN  /\ faults < MaxFaults
        /\ faults' = faults + 1
        /\ gen[n] < MaxRestarts
        /\ \A s \in lost : handler[s] # "opening"
        /\ gen' = [gen EXCEPT ![n] = @ + 1]
        /\ Closed(lost)
        /\ up' = [s \in Stream |-> IF s \in lost THEN <<>> ELSE up[s]]
        /\ down' = [s \in Stream |-> IF s \in lost THEN <<>> ELSE down[s]]
        /\ clientSubs' = [clientSubs EXCEPT ![n] = {}]
        /\ dispatcher' = [dispatcher EXCEPT ![n] = Idle]
        /\ conn' = [c \in Client |-> IF c \in gone THEN Off ELSE conn[c]]
        /\ held' = [c \in Client |-> IF c \in gone THEN {} ELSE held[c]]
        /\ inflight' = [c \in Client |->
              IF inflight[c] # None /\ inflight[c][1] = n THEN None
                                                          ELSE inflight[c]]
        /\ UNCHANGED <<jobState, released, serverVars, distributed, loop, requests>>

Distribute == Expire \/ Plan \/ Load \/ SendJob
Serve(s) ==
    \/ addNodeSubscription(s) \/ removeNode(s) \/ removeNodeSubs(s)
    \/ subscribeClient(s) \/ unsubscribeClient(s) \/ removeClientFromServer(s)
    \/ subscribeNodeToPartition(s) \/ sendJobToClient(s)
Hand(c) == addJobSub(c) \/ removeJobSub(c) \/ streamDone(c) \/ RemoveClient(c)
Work(c, j) == completeJob(c, j) \/ failJob(c, j)

Next ==
    \/ Distribute
    \/ LoadFails
    \/ \E s \in Stream : Serve(s) \/ LoseStream(s)
    \/ \E c \in Client : Hand(c) \/ Disconnect(c)
    \/ \E c \in Client, n \in Node : addClient(c, n)
    \/ \E c \in Client, k \in {"subscribe", "unsubscribe"}, t \in Type :
          recvClientRequest(c, k, t)
    \/ \E c \in Client, j \in Job : Work(c, j)
    \/ \E n \in Node : sendClientJobs(n) \/ RestartNode(n)

Spec == Init /\ [][Next]_vars

\* The goroutines of the job manager keep running, time passes and a worker that
\* stays connected answers its jobs; the read of the jobs does not fail for ever.
Fairness ==
    /\ WF_vars(Expire) /\ WF_vars(Plan) /\ SF_vars(Load) /\ WF_vars(SendJob)
    /\ \A s \in Stream : WF_vars(Serve(s))
    /\ \A c \in Client : WF_vars(Hand(c))
    /\ \A n \in Node : WF_vars(sendClientJobs(n))
    /\ \A c \in Client, j \in Job : WF_vars(completeJob(c, j))

FairSpec == Spec /\ Fairness

-----------------------------------------------------------------------------
(* Properties.                                                             *)

ServerTypes ==
    /\ nodeSubs \in [Node -> Stream \cup {None}]
    /\ leaked \in Nat
    /\ clientMu \in Stream \cup {None}
    /\ subscriptions \in [Type -> [Client -> Stream \cup {None}]]
    /\ jobTypes \in [Type -> [known : BOOLEAN, index : Nat, clients : Seq(Client)]]
    /\ handler \in [Stream -> {"new", "opening", "recv", "subscribing",
                               "removing", "removingSubs", "gone"}]

LoopTypes ==
    /\ jobState \in [Job -> {"waiting", "done"}]
    /\ distributed \in Seq([job : Job, client : Client, expired : BOOLEAN])
    /\ released \subseteq Job
    /\ loop \in [pc : {"plan", "load", "send"}, slots : [Client -> Int],
                 skip : SUBSET Job, types : SUBSET Type, count : Int,
                 batch : Seq(Job)]
    /\ (loop.pc = "send") <=> (loop.batch # <<>>)

StreamTypes ==
    /\ up \in [Stream -> Seq(Request)]
    /\ down \in [Stream -> Seq(Job \X Client)]

ClientTypes ==
    /\ gen \in [Node -> 0 .. MaxRestarts]
    /\ clientSubs \in [Node -> SUBSET Client]
    /\ conn \in [Client -> [pc : {"off", "serving", "removing"},
                            node : Node \cup {None}, done : BOOLEAN]]
    /\ inflight \in [Client ->
          (Node \X {"subscribe", "unsubscribe"} \X Type) \cup {None}]
    /\ dispatcher \in [Node -> [pc : {"idle", "sending"}, job : Job \cup {None},
                                client : Client \cup {None}]]
    /\ \A c \in Client : conn[c].pc # "off" => conn[c].node \in Node
    /\ \A n \in Node : dispatcher[n].pc = "sending" =>
          dispatcher[n].job \in Job /\ dispatcher[n].client \in Client
    /\ held \in [Client -> SUBSET Job]
    /\ requests \in [Client -> Nat]
    /\ faults \in Nat

TypeOK == ServerTypes /\ LoopTypes /\ StreamTypes /\ ClientTypes

\* Two workers hold the same job only after its lock expired or was released
\* with its client ("locked for 30s and will not be distributed to another
\* client in that time", docs/reference/jobs.md).
LockedJobsAreNotShared ==
    \A j \in Job \ released, c, d \in Client :
       j \in held[c] \cap held[d] => c = d

\* A client with a stream for a job type is in the round robin of that type.
StreamsAreListed ==
    \A t \in Type, c \in Client :
       subscriptions[t][c] # None => c \in ToSet(jobTypes[t].clients)

\* The locks of the job server are lost only when a node lost a stream: as long
\* as no stream breaks, subscribeClient finds the node of every request.
LocksLeakOnlyAfterFaults ==
    faults = 0 => leaked = 0 /\ clientMu = None

\* A node's dispatcher waits only for a worker that is being served, until a
\* worker disconnects: sendJobToClient holds clientMu while it waits.
DispatcherWaitsForAServedClient ==
    \A n \in Node :
       dispatcher[n].pc = "sending" =>
          LET c == dispatcher[n].client
          IN  /\ c \in clientSubs[n] /\ conn[c].node = n
              /\ conn[c].pc = "serving" \/ conn[c].done

\* No stream breaks, no worker leaves and every client in the round robin of the
\* type keeps a stream.
Steady(t) ==
    /\ faults = 0
    /\ jobTypes[t].clients # <<>>
    /\ \A c \in ToSet(jobTypes[t].clients) : subscriptions[t][c] # None

\* While its type is steady, every waiting job reaches a worker and is done, although
\* locks expire and the round robin skips clients (server.go, distributeJobs).
WaitingJobsGetDone ==
    \A j \in Job : <>[]Steady(TypeOf[j]) => <>(jobState[j] = "done")

\* docs/reference/jobs.md: the server "distributes them using round robin among
\* workers": of two jobs sent in a row while two clients of the type have free
\* slots, each goes to another client.
RoundRobin ==
    [][ (/\ SendJob
         /\ distributed # <<>>
         /\ Len(distributed') = Len(distributed) + 1
         /\ LET t == TypeOf[Head(loop.batch)]
            IN  /\ TypeOf[Last(distributed).job] = t
                /\ Len(jobTypes[t].clients) = 2
                /\ Cardinality(ToSet(jobTypes[t].clients)) = 2
                /\ \A c \in ToSet(jobTypes[t].clients) : loop.slots[c] > 0)
        => Last(distributed').client # Last(distributed).client ]_vars

=============================================================================
