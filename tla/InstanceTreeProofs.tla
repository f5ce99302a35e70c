------------------------ MODULE InstanceTreeProofs ------------------------
(***************************************************************************)
(* Proofs about InstanceTree, for every set of shapes and every number of  *)
(* failures.                                                               *)
(*                                                                         *)
(* What a run of the tree promises, EndedTreesAreQuiet,                    *)
(* ParentsMatchChildren and EveryItemOnce, is not inductive: whether a     *)
(* child is left behind depends on the locks that a call which cancels has *)
(* taken and is still going to take, on the tokens that goroutines carry   *)
(* between a flush and their lock, and on the token that a completing      *)
(* child holds while it waits for its parent.  TreeInv says all of this.   *)
(* Its parts are preserved by lemmas about steps that write the rows of a  *)
(* few instances and tokens only (Writes); each action is then shown to be *)
(* such a step.                                                            *)
(***************************************************************************)
EXTENDS InstanceTree, TLAPS, FiniteSetTheorems, SequenceTheorems

-----------------------------------------------------------------------------
(* The inductive invariant, in parts.                                      *)

InstanceState == {"ready", "active", "failed", "completed", "terminated"}
TokenState    == {"running", "waiting", "completed", "canceled", "failed"}
JobState      == {"active", "failed", "completed", "terminated"}
Place         == {"start", "act", "other", "terminate", "begin", "task", "end"}

InstanceRow == [kind : {"default", "multi", "call", "sub"}, token : Nat, target : Nat,
                state : InstanceState, started : Nat]
TokenRow    == [inst : Nat, at : Place, eik : Nat, state : TokenState]
JobRow      == [token : Nat, state : JobState]
Call        == [op : {"none", "run", "boundary", "cancel"},
                pc : {"none", "loop", "parent", "cancel"},
                toks : Seq(Nat), todo : Seq(Nat), dead : SUBSET Nat, token : Nat,
                failed : BOOLEAN]
Goroutine   == [inst : Nat, toks : Seq(Nat)]

\* The variables have their types.
Types ==
    /\ shape \in Shapes
    /\ inst \in Seq(InstanceRow) /\ tok \in Seq(TokenRow) /\ job \in Seq(JobRow)
    /\ sub \subseteq DOMAIN tok /\ incident \subseteq DOMAIN tok
    /\ lock \in [DOMAIN inst -> Nat] /\ held \in [DOMAIN inst -> Call]
    /\ go \subseteq Goroutine
    /\ failures \in 0..MaxFailures

Ended(i)   == inst[i].state \in EndedStates
Kids       == DOMAIN inst \ {1}
Pending(j) == job[j].state \in {"active", "failed"}

PlacesOf(kind) == IF kind = "default" THEN {"start", "act", "other", "terminate", "end"}
                  ELSE IF kind = "multi" THEN {"act"} ELSE {"begin", "task", "end"}

\* An instance but the root has a token of its parent, and is what the activity
\* of the parent is.
KidOK(c) ==
    /\ inst[c].token \in DOMAIN tok
    /\ inst[c].kind = IF shape.multi /\ ParentOf(c) = 1 THEN "multi" ELSE shape.inner
    /\ inst[ParentOf(c)].kind \in {"default", "multi"}

PlaceOK(t) == tok[t].inst \in DOMAIN inst /\ tok[t].at \in PlacesOf(inst[tok[t].inst].kind)

\* Every row belongs to the tree.
Tree ==
    /\ 1 \in DOMAIN inst /\ inst[1].kind = "default" /\ inst[1].token = 0
    /\ \A c \in Kids : KidOK(c)
    /\ \A t \in DOMAIN tok : PlaceOK(t)
    /\ \A j \in DOMAIN job : job[j].token \in DOMAIN tok

\* A token with an active job waits for it, one with a failed job has failed with
\* it; a token with an incident has failed; a token with a boundary subscription
\* waits at the activity of the root.
WaitsAt(t) ==
    /\ \A j \in DOMAIN job : job[j].token = t /\ Pending(j) =>
          /\ tok[t].state = IF job[j].state = "active" THEN "waiting" ELSE "failed"
          /\ tok[t].at \in {"task", "other"} \/ (Multi(tok[t].inst) /\ shape.inner = "task")
          /\ \A k \in DOMAIN job : job[k].token = t /\ Pending(k) => k = j
    /\ t \in incident => tok[t].state = "failed"
    /\ t \in sub => tok[t].state = "waiting" /\ tok[t].at = "act" /\ tok[t].inst = 1

Waits == \A t \in DOMAIN tok : WaitsAt(t)

\* The tokens of a list are running tokens of the instance, each is there once,
\* and one that terminates the instance is alone.
RunsIn(L, i) ==
    \A k \in DOMAIN L : /\ L[k] \in DOMAIN tok
                        /\ tok[L[k]].inst = i /\ tok[L[k]].state = "running"
                        /\ tok[L[k]].at = "terminate" => Len(L) = 1
                        /\ \A l \in DOMAIN L : L[l] = L[k] => l = k

Apart(L, M) == \A k \in DOMAIN L, l \in DOMAIN M : L[k] # M[l]

\* No token is run twice.
Carried ==
    /\ \A g \in go : g.inst \in DOMAIN inst /\ (~Ended(g.inst) => RunsIn(g.toks, g.inst))
    /\ \A i \in DOMAIN inst : RunsIn(held[i].toks, i)
    /\ \A g, h \in go : g # h /\ g.inst = h.inst /\ ~Ended(g.inst) => Apart(g.toks, h.toks)
    /\ \A g \in go : ~Ended(g.inst) => Apart(g.toks, held[g.inst].toks)

\* What a child needs that goes on to its parent: its last token is at its end.
Completes(i) ==
    LET t == held[i].toks[1]
    IN  IF Multi(i) THEN inst[i].started = shape.items
        ELSE tok[t].at = "end" /\ \A u \in DOMAIN tok : tok[u].inst = i /\ Live(u) => u = t

\* Who holds an instance, and for what; only the root's call cancels.
LockOK(i) ==
    /\ held[i].pc = "none" => held[i] = NoCall
    /\ lock[i] = i <=> held[i].pc # "none"
    /\ lock[i] \notin {0, i} => lock[i] = 1 /\ held[1].pc = "cancel"
    /\ held[i].pc = "cancel" => i = 1
    /\ held[i].pc \in {"loop", "parent"} => held[i].op = "run"
    /\ held[i].pc = "parent" => /\ i # 1 /\ held[i].toks # <<>> /\ ~held[i].failed
                                /\ Completes(i)
    /\ Ended(i) => held[i].pc \in {"none", "loop"} /\ held[i].toks = <<>>
    /\ held[i].pc \in {"loop", "parent"} /\ held[i].toks # <<>> => held[i].dead = {}
    /\ held[i].failed => \A k \in DOMAIN held[i].toks : tok[held[i].toks[k]].at # "terminate"

Locks == \A i \in DOMAIN inst : LockOK(i)

InTodo(c)  == \E k \in DOMAIN held[1].todo : held[1].todo[k] = c
Doomed(c)  == c \in held[1].dead \/ InTodo(c)
Reached(t) == \/ tok[t].inst \in held[1].dead
              \/ held[1].op = "run" /\ tok[t].inst = 1
              \/ held[1].op = "boundary" /\ t = held[1].token

\* A call that cancels has locked, or is going to lock, every instance that has not
\* ended below the ones it has locked.
Cancels ==
    held[1].pc = "cancel" =>
        /\ held[1].op # "none"
        /\ held[1].op = "run" => /\ held[1].toks = <<held[1].token>>
                                 /\ tok[held[1].token].at = "terminate" /\ ~held[1].failed
        /\ held[1].op = "boundary" => held[1].token \in sub
        /\ held[1].op # "run" => held[1].toks = <<>>
        /\ held[1].op = "cancel" <=> 1 \in held[1].dead
        /\ \A c \in held[1].dead : c \in DOMAIN inst /\ lock[c] = 1 /\ ~Ended(c)
        /\ \A k \in DOMAIN held[1].todo : held[1].todo[k] \in Kids
        /\ \A c \in Kids : Doomed(c) => Reached(inst[c].token)
        /\ \A c \in Kids : ~Ended(c) /\ Reached(inst[c].token) => Doomed(c)

\* The children of token t: one, if it waits for one.
KidsOf(t) ==
    /\ \A c \in Kids : inst[c].token = t /\ ~Ended(c) =>
          /\ tok[t].state = "waiting" /\ tok[t].at = "act"
          /\ tok[t].eik = inst[c].target /\ ~Ended(tok[t].inst)
          /\ \A d \in Kids : inst[d].token = t /\ ~Ended(d) => c = d
    /\ tok[t].state = "waiting" /\ HasChild(t) => \E c \in Kids : inst[c].token = t /\ ~Ended(c)

Waiting == \A t \in DOMAIN tok : KidsOf(t)

\* An ended instance has no token left.
QuietOK(t) == Ended(tok[t].inst) => ~Live(t)
Quiet      == \A t \in DOMAIN tok : QuietOK(t)

\* Token t of a multi-instance has started its item.
Begun(t) == IF shape.inner = "task" THEN \E j \in DOMAIN job : job[j].token = t
                                    ELSE \E c \in Kids : inst[c].token = t

\* The token of one item of a parallel multi-instance: it starts the item once, and
\* runs a second time only when all the others are done.
ItemOK(t) ==
    /\ tok[t].eik \in {1, 2}
    /\ tok[t].state = "completed" => Begun(t)
    /\ tok[t].state = "waiting" => Begun(t) /\ tok[t].eik = 1
    /\ tok[t].eik = 2 => /\ Begun(t)
                         /\ \A u \in TokensOf(tok[t].inst) : u # t => tok[u].state = "completed"
    /\ tok[t].eik = 1 /\ tok[t].state \in {"running", "failed"} /\ Begun(t)
          => \E j \in DOMAIN job : job[j].token = t /\ Pending(j)
    /\ \A j \in DOMAIN job : job[j].token = t /\ Pending(j) => tok[t].eik = 1

ItemsOK(m) ==
    /\ shape.multi /\ shape.items > 0
    /\ inst[m].started = Executions(m) /\ inst[m].started <= shape.items
    /\ inst[m].state = "completed" => inst[m].started = shape.items
    /\ inst[m].state # "terminated" =>
          /\ \A j \in DOMAIN job : tok[job[j].token].inst = m => job[j].state # "terminated"
          /\ \A c \in Kids : ParentOf(c) = m => inst[c].state # "terminated"
    /\ shape.sequential => \A t, u \in TokensOf(m) : t = u
    /\ ~shape.sequential => Cardinality(TokensOf(m)) = shape.items
    /\ ~shape.sequential /\ ~Ended(m) =>
          /\ inst[m].started = Cardinality({t \in TokensOf(m) : Begun(t)})
          /\ \A t \in TokensOf(m) : ItemOK(t)

Items == \A m \in DOMAIN inst : Multi(m) => ItemsOK(m)

TreeInv == Types /\ Tree /\ Waits /\ Carried /\ Locks /\ Cancels /\ Waiting /\ Quiet /\ Items

-----------------------------------------------------------------------------
(* What a step leaves alone.                                               *)

New(c) == c \in DOMAIN inst' \ DOMAIN inst

\* The step writes only rows of the instances I, which have not ended, and there
\* only those of the tokens T; what is new belongs to them.
Writes(I, T) ==
    /\ I \subseteq DOMAIN inst /\ T \subseteq DOMAIN tok
    /\ \A i \in I : ~Ended(i)
    /\ \A t \in T : tok[t].inst \in I
    /\ shape' = shape
    /\ inst' \in Seq(InstanceRow) /\ tok' \in Seq(TokenRow) /\ job' \in Seq(JobRow)
    /\ Len(inst) <= Len(inst') /\ Len(tok) <= Len(tok') /\ Len(job) <= Len(job')
    /\ \A i \in DOMAIN inst : /\ inst'[i].kind = inst[i].kind /\ inst'[i].token = inst[i].token
                              /\ inst'[i].target = inst[i].target
                              /\ i \notin I => inst'[i] = inst[i]
    /\ \A t \in DOMAIN tok : tok'[t].inst = tok[t].inst /\ (t \notin T => tok'[t] = tok[t])
    /\ \A j \in DOMAIN job : /\ job'[j].token = job[j].token
                             /\ job[j].token \notin T => job'[j] = job[j]
    /\ sub' \subseteq sub \union T /\ incident' \subseteq incident \union T
    /\ \A t \in DOMAIN tok \ T : (t \in sub => t \in sub') /\ (t \in incident => t \in incident')
    /\ \A c \in DOMAIN inst' \ DOMAIN inst :
          /\ inst'[c].token \in T /\ inst'[c].state = "ready"
          /\ inst'[c].kind = IF shape.multi /\ tok[inst'[c].token].inst = 1
                             THEN "multi" ELSE shape.inner
          /\ inst[tok[inst'[c].token].inst].kind \in {"default", "multi"}
    /\ \A t \in DOMAIN tok' \ DOMAIN tok :
          /\ tok'[t].state = "running" /\ tok'[t].eik = 1
          /\ tok'[t].inst \in I \union (DOMAIN inst' \ DOMAIN inst)
          /\ tok'[t].at \in PlacesOf(inst'[tok'[t].inst].kind)
    /\ \A j \in DOMAIN job' \ DOMAIN job : job'[j].token \in T

\* The domains of the tables grow.
LEMMA Domains ==
    ASSUME TreeInv, NEW I, NEW T, Writes(I, T)
    PROVE  /\ DOMAIN inst \subseteq DOMAIN inst' /\ DOMAIN tok \subseteq DOMAIN tok'
           /\ DOMAIN job \subseteq DOMAIN job'
           /\ sub \subseteq DOMAIN tok /\ incident \subseteq DOMAIN tok
           /\ sub' \subseteq DOMAIN tok /\ incident' \subseteq DOMAIN tok
           /\ \A t \in DOMAIN tok : tok[t].inst \in DOMAIN inst
           /\ \A c \in Kids : inst[c].token \in DOMAIN tok
           /\ \A j \in DOMAIN job : job[j].token \in DOMAIN tok
           /\ 1 \in DOMAIN inst
<1>1. /\ DOMAIN inst \subseteq DOMAIN inst' /\ DOMAIN tok \subseteq DOMAIN tok'
      /\ DOMAIN job \subseteq DOMAIN job'
  BY DEF TreeInv, Types, Writes
<1>2. sub \subseteq DOMAIN tok /\ incident \subseteq DOMAIN tok
  BY DEF TreeInv, Types
<1>3. sub' \subseteq DOMAIN tok /\ incident' \subseteq DOMAIN tok
  BY <1>2 DEF Writes
<1>4. QED BY <1>1, <1>2, <1>3 DEF TreeInv, Tree, KidOK, PlaceOK

\* Every row still belongs to the tree, if the tokens that were written do.
LEMMA KeepTree ==
    ASSUME TreeInv, NEW I, NEW T, Writes(I, T), \A t \in T : PlaceOK(t)'
    PROVE  Tree'
<1> USE Domains
<1>1. 1 \in DOMAIN inst' /\ inst'[1].kind = "default" /\ inst'[1].token = 0
  BY DEF TreeInv, Tree, Writes
<1>2. ASSUME NEW c \in Kids' PROVE KidOK(c)'
  <2>1. CASE c \in DOMAIN inst
    <3>1. KidOK(c) /\ inst[c].token \in DOMAIN tok /\ tok[inst[c].token].inst \in DOMAIN inst
      BY <1>2, <2>1 DEF TreeInv, Tree, Kids
    <3>2. /\ inst'[c].token = inst[c].token /\ inst'[c].kind = inst[c].kind
          /\ tok'[inst[c].token].inst = tok[inst[c].token].inst
          /\ inst'[tok[inst[c].token].inst].kind = inst[tok[inst[c].token].inst].kind
      BY <2>1, <3>1 DEF Writes
    <3>3. QED BY <3>1, <3>2 DEF KidOK, ParentOf, Writes
  <2>2. CASE c \notin DOMAIN inst
    <3>1. /\ inst'[c].token \in DOMAIN tok /\ inst'[c].token \in T
          /\ inst'[c].kind = IF shape.multi /\ tok[inst'[c].token].inst = 1
                             THEN "multi" ELSE shape.inner
          /\ inst[tok[inst'[c].token].inst].kind \in {"default", "multi"}
          /\ tok'[inst'[c].token].inst = tok[inst'[c].token].inst
      BY <1>2, <2>2 DEF Writes, Kids
    <3>2. inst'[tok[inst'[c].token].inst].kind = inst[tok[inst'[c].token].inst].kind
      BY <3>1 DEF Writes
    <3>3. QED BY <3>1, <3>2 DEF KidOK, ParentOf, Writes
  <2>3. QED BY <2>1, <2>2
<1>3. ASSUME NEW t \in DOMAIN tok' PROVE PlaceOK(t)'
  <2>1. CASE t \in T
    BY <2>1
  <2>2. CASE t \in DOMAIN tok \ T
    <3>1. PlaceOK(t) /\ tok'[t] = tok[t]
      BY <2>2 DEF TreeInv, Tree, Writes
    <3>2. inst'[tok[t].inst].kind = inst[tok[t].inst].kind
      BY <2>2 DEF Writes
    <3>3. QED BY <3>1, <3>2 DEF PlaceOK
  <2>3. CASE t \notin DOMAIN tok
    BY <2>3 DEF Writes, PlaceOK
  <2>4. QED BY <2>1, <2>2, <2>3
<1>4. ASSUME NEW j \in DOMAIN job' PROVE job'[j].token \in DOMAIN tok'
  BY DEF Writes
<1>5. QED BY <1>1, <1>2, <1>3, <1>4 DEF Tree

\* Jobs, incidents and subscriptions still match their tokens, if those that were written do.
LEMMA KeepWaits ==
    ASSUME TreeInv, NEW I, NEW T, Writes(I, T), \A t \in T : WaitsAt(t)'
    PROVE  Waits'
<1> USE Domains
<1>1. ASSUME NEW t \in DOMAIN tok' PROVE WaitsAt(t)'
  <2>1. CASE t \in T
    BY <2>1
  <2>2. CASE t \in DOMAIN tok \ T
    <3>1. WaitsAt(t) /\ tok'[t] = tok[t] /\ (t \in sub' <=> t \in sub)
          /\ (t \in incident' <=> t \in incident)
      BY <2>2 DEF TreeInv, Waits, Writes
    <3>2. \A j \in DOMAIN job' : job'[j].token = t => j \in DOMAIN job /\ job'[j] = job[j]
      BY <2>2 DEF Writes
    <3>3. Multi(tok[t].inst)' <=> Multi(tok[t].inst)
      <4>1. tok[t].inst \in DOMAIN inst
        BY <2>2
      <4>2. inst'[tok[t].inst].kind = inst[tok[t].inst].kind
        BY <4>1 DEF Writes
      <4>3. QED BY <3>1, <4>2 DEF Multi
    <3>4. shape' = shape
      BY DEF Writes
    <3>5. QED BY <3>1, <3>2, <3>3, <3>4 DEF WaitsAt, Pending, Multi
  <2>3. CASE t \notin DOMAIN tok
    <3>1. t \notin sub' /\ t \notin incident'
      BY <2>3
    <3>2. ASSUME NEW j \in DOMAIN job' PROVE job'[j].token # t
      <4>1. CASE j \in DOMAIN job
        <5>1. job'[j].token = job[j].token /\ job[j].token \in DOMAIN tok
          BY <4>1 DEF Writes
        <5>2. QED BY <2>3, <5>1
      <4>2. CASE j \notin DOMAIN job
        BY <2>3, <4>2 DEF Writes
      <4>3. QED BY <4>1, <4>2
    <3>3. QED BY <3>1, <3>2 DEF WaitsAt
  <2>4. QED BY <2>1, <2>2, <2>3
<1>2. QED BY <1>1 DEF Waits

\* An ended instance has no token left, if those that the step ends have none.
LEMMA KeepQuiet ==
    ASSUME TreeInv, NEW I, NEW T, Writes(I, T),
           \A i \in I : Ended(i)' => \A t \in DOMAIN tok' : tok'[t].inst = i => ~Live(t)'
    PROVE  Quiet'
<1> USE Domains
<1>1. ASSUME NEW t \in DOMAIN tok' PROVE QuietOK(t)'
  <2>1. CASE tok'[t].inst \in I
    BY <2>1 DEF QuietOK
  <2>2. CASE tok'[t].inst \notin I /\ t \in DOMAIN tok
    <3>1. t \notin T /\ tok'[t] = tok[t] /\ inst'[tok[t].inst] = inst[tok[t].inst] /\ QuietOK(t)
      BY <2>2 DEF Writes, TreeInv, Quiet
    <3>2. QED BY <3>1 DEF QuietOK, Ended, Live
  <2>3. CASE tok'[t].inst \notin I /\ t \notin DOMAIN tok
    <3>1. tok'[t].inst \in DOMAIN inst' \ DOMAIN inst
      BY <2>3 DEF Writes
    <3>2. inst'[tok'[t].inst].state = "ready"
      BY <3>1 DEF Writes
    <3>3. QED BY <3>2 DEF QuietOK, Ended, EndedStates
  <2>4. QED BY <2>1, <2>2, <2>3
<1>2. QED BY <1>1 DEF Quiet

\* Every token has the children it waits for, if those that were written have them and no
\* child ends below a token that was not written.
LEMMA KeepWaiting ==
    ASSUME TreeInv, NEW I, NEW T, Writes(I, T), Quiet', \A t \in T : KidsOf(t)',
           \A c \in I : c # 1 /\ inst[c].token \notin T => ~Ended(c)'
    PROVE  Waiting'
<1> USE Domains
<1>1. ASSUME NEW t \in DOMAIN tok' PROVE KidsOf(t)'
  <2>1. CASE t \in T
    BY <2>1
  <2>2. CASE t \in DOMAIN tok \ T
    <3>1. KidsOf(t) /\ tok'[t] = tok[t] /\ shape' = shape
      BY <2>2 DEF TreeInv, Waiting, Writes
    <3>2. \A c \in Kids' : inst'[c].token = t
             => /\ c \in Kids /\ inst[c].token = t /\ (Ended(c)' <=> Ended(c))
                /\ inst'[c].target = inst[c].target
      <4>1. ASSUME NEW c \in Kids', inst'[c].token = t PROVE c \in Kids /\ inst[c].token = t
        BY <2>2, <4>1 DEF Writes, Kids
      <4>2. ASSUME NEW c \in Kids, inst[c].token = t PROVE Ended(c)' <=> Ended(c)
        <5>1. c \in DOMAIN inst /\ c # 1
          BY DEF Kids
        <5>2. CASE c \in I
          BY <2>2, <4>2, <5>1, <5>2 DEF Writes
        <5>3. CASE c \notin I
          <6>1. inst'[c] = inst[c]
            BY <5>1, <5>3 DEF Writes
          <6>2. QED BY <6>1 DEF Ended
        <5>4. QED BY <5>2, <5>3
      <4>3. \A c \in Kids : inst'[c].target = inst[c].target
        BY DEF Writes, Kids
      <4>4. QED BY <4>1, <4>2, <4>3
    <3>3. Kids \subseteq Kids' /\ \A c \in Kids : inst'[c].token = inst[c].token
      BY DEF Kids, Writes
    <3>4. HasChild(t)' <=> HasChild(t)
      BY <3>1 DEF HasChild
    <3>5. tok[t].state = "waiting" => ~Ended(tok[t].inst)'
      BY <2>2, <3>1 DEF Quiet, QuietOK, Live
    <3>6. QED BY <3>1, <3>2, <3>3, <3>4, <3>5 DEF KidsOf
  <2>3. CASE t \notin DOMAIN tok
    <3>1. tok'[t].state = "running"
      BY <2>3 DEF Writes
    <3>2. ASSUME NEW c \in Kids' PROVE inst'[c].token # t
      <4>1. CASE c \in DOMAIN inst
        <5>1. inst'[c].token = inst[c].token /\ inst[c].token \in DOMAIN tok
          BY <4>1 DEF Writes, Kids
        <5>2. QED BY <2>3, <5>1
      <4>2. CASE c \notin DOMAIN inst
        BY <2>3, <4>2 DEF Writes, Kids
      <4>3. QED BY <4>1, <4>2
    <3>3. QED BY <3>1, <3>2 DEF KidsOf
  <2>4. QED BY <2>1, <2>2, <2>3
<1>2. QED BY <1>1 DEF Waiting

\* An ended instance stays as it is.
LEMMA EndedStays ==
    ASSUME TreeInv, NEW I, NEW T, Writes(I, T), NEW i \in DOMAIN inst, Ended(i)
    PROVE  i \notin I /\ Ended(i)'
<1>1. i \notin I
  BY DEF Writes
<1>2. inst'[i] = inst[i]
  BY <1>1 DEF Writes
<1>3. QED BY <1>1, <1>2 DEF Ended

\* The rows that multi-instance m consists of, when the step is about others.
LEMMA OtherItems ==
    ASSUME TreeInv, NEW I, NEW T, Writes(I, T), NEW m \in DOMAIN inst \ I
    PROVE  /\ TokensOf(m)' = TokensOf(m)
           /\ \A t \in TokensOf(m) : t \notin T /\ tok'[t] = tok[t] /\ (Begun(t)' <=> Begun(t))
           /\ \A t \in TokensOf(m) : \A j \in DOMAIN job' :
                 job'[j].token = t => j \in DOMAIN job /\ job'[j] = job[j] /\ job[j].token = t
           /\ {k \in DOMAIN job : tok[job[k].token].inst = m}'
              = {k \in DOMAIN job : tok[job[k].token].inst = m}
           /\ {k \in DOMAIN inst : k # 1 /\ ParentOf(k) = m}'
              = {k \in DOMAIN inst : k # 1 /\ ParentOf(k) = m}
<1> USE Domains
<1>1. \A t \in DOMAIN tok' : tok'[t].inst = m => t \in DOMAIN tok /\ tok[t].inst = m
  BY DEF Writes
<1>2. \A t \in DOMAIN tok : tok[t].inst = m => tok'[t].inst = m /\ t \notin T /\ tok'[t] = tok[t]
  BY DEF Writes
<1>3. TokensOf(m)' = TokensOf(m)
  BY <1>1, <1>2 DEF TokensOf
<1>4. ASSUME NEW j \in DOMAIN job', tok'[job'[j].token].inst = m
      PROVE  j \in DOMAIN job /\ tok[job[j].token].inst = m /\ job'[j] = job[j]
  <2>1. j \in DOMAIN job
    <3>1. CASE j \notin DOMAIN job
      <4>1. job'[j].token \in T
        BY <3>1 DEF Writes
      <4>2. tok'[job'[j].token].inst \in I
        BY <4>1 DEF Writes
      <4>3. QED BY <1>4, <4>2
    <3>2. QED BY <3>1
  <2>2. job'[j].token = job[j].token /\ job[j].token \in DOMAIN tok
    BY <2>1 DEF Writes
  <2>3. tok[job[j].token].inst = m /\ job[j].token \notin T
    BY <1>1, <1>2, <1>4, <2>2
  <2>4. QED BY <2>1, <2>3 DEF Writes
<1>5. ASSUME NEW j \in DOMAIN job, tok[job[j].token].inst = m
      PROVE  j \in DOMAIN job' /\ tok'[job'[j].token].inst = m
  <2>1. job'[j].token = job[j].token /\ job[j].token \in DOMAIN tok
    BY DEF Writes
  <2>2. QED BY <1>2, <1>5, <2>1
<1>6. ASSUME NEW c \in DOMAIN inst', c # 1, tok'[inst'[c].token].inst = m
      PROVE  c \in DOMAIN inst /\ tok[inst[c].token].inst = m /\ inst'[c].token = inst[c].token
  <2>1. c \in DOMAIN inst
    <3>1. CASE c \notin DOMAIN inst
      <4>1. inst'[c].token \in T
        BY <3>1 DEF Writes
      <4>2. tok'[inst'[c].token].inst \in I
        BY <4>1 DEF Writes
      <4>3. QED BY <1>6, <4>2
    <3>2. QED BY <3>1
  <2>2. inst'[c].token = inst[c].token /\ inst[c].token \in DOMAIN tok
    BY <1>6, <2>1, ZenonT(40) DEF Writes, Kids
  <2>3. QED BY <1>1, <1>6, <2>1, <2>2
<1>7. ASSUME NEW c \in DOMAIN inst, c # 1, tok[inst[c].token].inst = m
      PROVE  c \in DOMAIN inst' /\ tok'[inst'[c].token].inst = m
  <2>1. inst'[c].token = inst[c].token /\ inst[c].token \in DOMAIN tok
    BY <1>7 DEF Writes, Kids
  <2>2. QED BY <1>2, <1>7, <2>1
<1>8. {k \in DOMAIN job : tok[job[k].token].inst = m}'
      = {k \in DOMAIN job : tok[job[k].token].inst = m}
  BY <1>4, <1>5
<1>9. {k \in DOMAIN inst : k # 1 /\ ParentOf(k) = m}'
      = {k \in DOMAIN inst : k # 1 /\ ParentOf(k) = m}
  BY <1>6, <1>7 DEF ParentOf
<1>10. ASSUME NEW t \in TokensOf(m)
       PROVE  /\ t \notin T /\ tok'[t] = tok[t]
              /\ \A j \in DOMAIN job' :
                    job'[j].token = t => j \in DOMAIN job /\ job'[j] = job[j] /\ job[j].token = t
  <2>1. t \notin T /\ tok'[t] = tok[t] /\ tok[t].inst = m
    BY <1>2 DEF TokensOf
  <2>2. ASSUME NEW j \in DOMAIN job', job'[j].token = t
        PROVE  j \in DOMAIN job /\ job'[j] = job[j] /\ job[j].token = t
    BY <1>4, <2>1, <2>2
  <2>3. QED BY <2>1, <2>2
<1>11. ASSUME NEW t \in TokensOf(m) PROVE Begun(t)' <=> Begun(t)
  <2>1. tok'[t].inst = m /\ tok[t].inst = m
    BY <1>2 DEF TokensOf
  <2>2. (\E j \in DOMAIN job : job[j].token = t)' <=> \E j \in DOMAIN job : job[j].token = t
    <3>1. \A j \in DOMAIN job : job'[j].token = job[j].token
      BY DEF Writes
    <3>2. QED BY <1>10, <3>1
  <2>3. (\E c \in Kids : inst[c].token = t)' <=> \E c \in Kids : inst[c].token = t
    <3>1. \A c \in Kids' : inst'[c].token = t => c \in Kids /\ inst[c].token = t
      BY <1>6, <2>1 DEF Kids
    <3>2. \A c \in Kids : c \in Kids' /\ inst'[c].token = inst[c].token
      BY DEF Kids, Writes
    <3>3. QED BY <3>1, <3>2
  <2>4. QED BY <2>2, <2>3 DEF Begun, Writes
<1>12. QED BY <1>3, <1>8, <1>9, <1>10, <1>11

\* The items of the multi-instances add up, if those that were written and the new ones do.
LEMMA KeepItems ==
    ASSUME TreeInv, NEW I, NEW T, Writes(I, T),
           \A c \in I : c # 1 /\ inst'[c].state = "terminated" => ParentOf(c) \in I,
           \A m \in I : Multi(m) => ItemsOK(m)',
           \A m \in DOMAIN inst' \ DOMAIN inst : Multi(m)' => ItemsOK(m)'
    PROVE  Items'
<1> USE Domains
<1>1. ASSUME NEW m \in DOMAIN inst \ I, Multi(m)' PROVE ItemsOK(m)'
  <2>1. inst'[m] = inst[m] /\ shape' = shape
    BY DEF Writes
  <2>2. ItemsOK(m)
    BY <1>1, <2>1 DEF TreeInv, Items, Multi
  <2>3. Executions(m)' = Executions(m)
    <3>1. /\ {k \in DOMAIN job : tok[job[k].token].inst = m}'
             = {k \in DOMAIN job : tok[job[k].token].inst = m}
          /\ {k \in DOMAIN inst : k # 1 /\ ParentOf(k) = m}'
             = {k \in DOMAIN inst : k # 1 /\ ParentOf(k) = m}
      BY OtherItems
    <3>2. QED BY <2>1, <3>1, Zenon DEF Executions
  <2>4. ASSUME NEW j \in DOMAIN job', tok'[job'[j].token].inst = m
        PROVE  j \in DOMAIN job /\ tok[job[j].token].inst = m /\ job'[j] = job[j]
    <3>1. j \in {k \in DOMAIN job : tok[job[k].token].inst = m}'
      BY <2>4
    <3>2. j \in DOMAIN job /\ tok[job[j].token].inst = m
      BY <3>1, OtherItems
    <3>3. job[j].token \in TokensOf(m)
      BY <3>2 DEF TokensOf
    <3>4. job'[j] = job[j]
      BY <3>2, <3>3, OtherItems DEF Writes
    <3>5. QED BY <3>2, <3>4
  <2>5. ASSUME NEW c \in Kids', ParentOf(c)' = m, inst'[c].state = "terminated"
        PROVE  c \in Kids /\ ParentOf(c) = m /\ inst[c].state = "terminated"
    <3>1. c \in {k \in DOMAIN inst : k # 1 /\ ParentOf(k) = m}'
      BY <2>5 DEF Kids
    <3>2. c \in DOMAIN inst /\ c # 1 /\ ParentOf(c) = m
      BY <3>1, OtherItems
    <3>3. c \notin I
      BY <2>5, <3>2
    <3>4. inst'[c] = inst[c]
      BY <3>2, <3>3 DEF Writes
    <3>5. QED BY <2>5, <3>2, <3>4 DEF Kids
  <2>6. ASSUME ~shape.sequential, ~Ended(m)
        PROVE  /\ inst'[m].started = Cardinality({t \in TokensOf(m) : Begun(t)})'
               /\ \A t \in TokensOf(m)' : ItemOK(t)'
    <3>1. {t \in TokensOf(m) : Begun(t)}' = {t \in TokensOf(m) : Begun(t)}
      BY OtherItems
    <3>2. inst[m].started = Cardinality({t \in TokensOf(m) : Begun(t)})
      BY <2>2, <2>6 DEF ItemsOK
    <3>3. ASSUME NEW t \in TokensOf(m) PROVE ItemOK(t)'
      <4>1. ItemOK(t) /\ tok[t].inst = m
        BY <2>2, <2>6 DEF ItemsOK, TokensOf
      <4>2. /\ tok'[t] = tok[t] /\ (Begun(t)' <=> Begun(t))
            /\ TokensOf(m)' = TokensOf(m) /\ \A u \in TokensOf(m) : tok'[u] = tok[u]
        BY OtherItems
      <4>3. \A j \in DOMAIN job' : job'[j].token = t
                 => j \in DOMAIN job /\ job'[j] = job[j] /\ job[j].token = t
        BY OtherItems
      <4>4. t \notin T
        BY OtherItems
      <4>5. \A j \in DOMAIN job : job[j].token = t => j \in DOMAIN job' /\ job'[j] = job[j]
        BY <4>4 DEF Writes
      <4>6. QED BY <4>1, <4>2, <4>3, <4>5 DEF ItemOK, Pending
    <3>4. QED BY <2>1, <3>1, <3>2, <3>3, OtherItems
  <2>7. TokensOf(m)' = TokensOf(m)
    BY OtherItems
  <2>8. Ended(m)' <=> Ended(m)
    BY <2>1 DEF Ended
  <2>9. QED BY <2>1, <2>2, <2>3, <2>4, <2>5, <2>6, <2>7, <2>8 DEF ItemsOK
<1>2. ASSUME NEW m \in I, Multi(m)' PROVE ItemsOK(m)'
  <2>1. inst'[m].kind = inst[m].kind
    BY DEF Writes
  <2>2. QED BY <1>2, <2>1 DEF Multi
<1>3. QED BY <1>1, <1>2 DEF Items

\* A list of an instance that the step does not write to, or without its tokens.
LEMMA ListStays ==
    ASSUME TreeInv, NEW I, NEW T, Writes(I, T), NEW i, NEW L, RunsIn(L, i),
           i \notin I \/ \A k \in DOMAIN L : L[k] \notin T
    PROVE  RunsIn(L, i)'
<1>1. ASSUME NEW k \in DOMAIN L
      PROVE  L[k] \in DOMAIN tok /\ L[k] \notin T /\ tok'[L[k]] = tok[L[k]]
  <2>1. L[k] \in DOMAIN tok /\ tok[L[k]].inst = i
    BY DEF RunsIn
  <2>2. L[k] \notin T
    BY <2>1 DEF Writes
  <2>3. QED BY <2>1, <2>2 DEF Writes
<1>2. DOMAIN tok \subseteq DOMAIN tok'
  BY Domains
<1>3. QED BY <1>1, <1>2 DEF RunsIn

\* What the step does with the lists of tokens to run: at most one new one, of
\* tokens that it wrote or made.
Lists(I, T) ==
    /\ \A g \in go' \ go : /\ g.inst \in DOMAIN inst' /\ RunsIn(g.toks, g.inst)'
                           /\ \A k \in DOMAIN g.toks : g.toks[k] \in T \/ g.toks[k] \notin DOMAIN tok
                           /\ held'[g.inst].toks = <<>>
    /\ \A g, h \in go' \ go : g = h
    /\ \A g \in go : ~Ended(g.inst)' => \A k \in DOMAIN g.toks : g.toks[k] \notin T
    /\ \A i \in DOMAIN inst' \ I : held'[i] = IF i \in DOMAIN inst THEN held[i] ELSE NoCall
    /\ \A i \in I : /\ RunsIn(held[i].toks, i)'
                    /\ \A k \in DOMAIN held'[i].toks :
                          \/ held'[i].toks[k] \in T \/ held'[i].toks[k] \notin DOMAIN tok
                          \/ \E l \in DOMAIN held[i].toks : held[i].toks[l] = held'[i].toks[k]

\* No token is run twice after a step that changes the lists as above.
LEMMA KeepCarried ==
    ASSUME TreeInv, NEW I, NEW T, Writes(I, T), Lists(I, T)
    PROVE  Carried'
<1> USE Domains
<1>1. \A g \in go : g.inst \in DOMAIN inst
  BY DEF TreeInv, Carried
<1>2. ASSUME NEW g \in go, ~Ended(g.inst)'
      PROVE  /\ ~Ended(g.inst) /\ RunsIn(g.toks, g.inst) /\ RunsIn(g.toks, g.inst)'
             /\ \A k \in DOMAIN g.toks : g.toks[k] \in DOMAIN tok /\ g.toks[k] \notin T
  <2>1. ~Ended(g.inst)
    BY <1>1, <1>2, EndedStays
  <2>2. RunsIn(g.toks, g.inst)
    BY <2>1 DEF TreeInv, Carried
  <2>3. \A k \in DOMAIN g.toks : g.toks[k] \notin T
    BY <1>2 DEF Lists
  <2>4. RunsIn(g.toks, g.inst)'
    BY <2>2, <2>3, ListStays
  <2>5. QED BY <2>1, <2>2, <2>3, <2>4 DEF RunsIn
<1>3. ASSUME NEW g \in go' PROVE g.inst \in DOMAIN inst' /\ (~Ended(g.inst)' => RunsIn(g.toks, g.inst)')
  BY <1>1, <1>2 DEF Lists
<1>4. ASSUME NEW i \in DOMAIN inst' PROVE RunsIn(held[i].toks, i)'
  <2>1. CASE i \in I
    BY <2>1 DEF Lists
  <2>2. CASE i \in DOMAIN inst \ I
    <3>1. held'[i] = held[i] /\ RunsIn(held[i].toks, i)
      BY <1>4, <2>2 DEF Lists, TreeInv, Carried
    <3>2. PICK L : L = held[i].toks
      OBVIOUS
    <3>3. RunsIn(L, i)'
      BY <2>2, <3>1, <3>2, ListStays
    <3>4. held'[i].toks = L
      BY <3>1, <3>2
    <3>5. QED BY <3>3, <3>4 DEF RunsIn
  <2>3. CASE i \notin DOMAIN inst
    <3>1. i \in DOMAIN inst' \ I
      BY <1>4, <2>3 DEF Writes
    <3>2. held'[i].toks = <<>>
      BY <2>3, <3>1 DEF Lists, NoCall
    <3>3. QED BY <3>2 DEF RunsIn
  <2>4. QED BY <2>1, <2>2, <2>3
<1>5. ASSUME NEW g \in go', NEW h \in go', g # h, g.inst = h.inst, ~Ended(g.inst)'
      PROVE  Apart(g.toks, h.toks)
  <2>1. CASE g \in go /\ h \in go
    BY <1>2, <1>5, <2>1 DEF TreeInv, Carried
  <2>2. ASSUME NEW x \in go, NEW y \in go' \ go, x.inst = g.inst
        PROVE  Apart(x.toks, y.toks) /\ Apart(y.toks, x.toks)
    <3>1. \A k \in DOMAIN x.toks : x.toks[k] \in DOMAIN tok /\ x.toks[k] \notin T
      BY <1>2, <1>5, <2>2
    <3>2. \A k \in DOMAIN y.toks : y.toks[k] \in T \/ y.toks[k] \notin DOMAIN tok
      BY DEF Lists
    <3>3. QED BY <3>1, <3>2 DEF Apart
  <2>3. CASE g \notin go /\ h \notin go
    BY <1>5, <2>3 DEF Lists
  <2>4. QED BY <1>5, <2>1, <2>2, <2>3
<1>6. ASSUME NEW g \in go', ~Ended(g.inst)' PROVE Apart(g.toks, held'[g.inst].toks)
  <2>1. CASE g \notin go
    <3>1. held'[g.inst].toks = <<>>
      BY <1>6, <2>1 DEF Lists
    <3>2. QED BY <3>1 DEF Apart
  <2>2. CASE g \in go
    <3> DEFINE i == g.inst
    <3>1. /\ i \in DOMAIN inst /\ i \in DOMAIN inst' /\ Apart(g.toks, held[i].toks)
          /\ \A k \in DOMAIN g.toks : g.toks[k] \in DOMAIN tok /\ g.toks[k] \notin T
      BY <1>1, <1>2, <1>6, <2>2 DEF TreeInv, Carried
    <3>2. CASE i \in I
      <4>1. \A k \in DOMAIN held'[i].toks :
               \/ held'[i].toks[k] \in T \/ held'[i].toks[k] \notin DOMAIN tok
               \/ \E l \in DOMAIN held[i].toks : held[i].toks[l] = held'[i].toks[k]
        BY <3>2 DEF Lists
      <4> HIDE DEF i
      <4>2. QED BY <3>1, <4>1 DEF Apart, i
    <3>3. CASE i \notin I
      <4>1. held'[i] = held[i]
        BY <3>1, <3>3 DEF Lists
      <4>2. QED BY <3>1, <4>1
    <3>4. QED BY <3>2, <3>3
  <2>3. QED BY <2>1, <2>2
<1>7. QED BY <1>3, <1>4, <1>5, <1>6 DEF Carried, Apart

\* The locks and calls match, if those of the instances that were written do and the step
\* frees at most what a call that cancels had locked.
LEMMA KeepLocks ==
    ASSUME TreeInv, NEW I, NEW T, Writes(I, T), Lists(I, T),
           \A i \in DOMAIN inst \ I : lock'[i] = lock[i] \/ (lock[i] # i /\ lock'[i] = 0),
           \A i \in DOMAIN inst' \ DOMAIN inst : lock'[i] = 0,
           \A i \in DOMAIN inst' \ I : lock'[i] \notin {0, i} => lock'[i] = 1 /\ held'[1].pc = "cancel",
           \A i \in I : LockOK(i)'
    PROVE  Locks'
<1> USE Domains
<1>1. ASSUME NEW i \in DOMAIN inst \ I PROVE LockOK(i)'
  <2>0. i \in DOMAIN inst' /\ i # 0
    BY DEF TreeInv, Types
  <2>1. /\ held'[i] = held[i] /\ inst'[i] = inst[i] /\ LockOK(i)
        /\ lock'[i] = i <=> lock[i] = i
    <3>1. held'[i] = held[i]
      BY <2>0 DEF Lists
    <3>2. inst'[i] = inst[i]
      BY DEF Writes
    <3>3. LockOK(i)
      BY DEF TreeInv, Locks
    <3>4. lock'[i] = i <=> lock[i] = i
      BY <2>0
    <3>5. QED BY <3>1, <3>2, <3>3, <3>4
  <2>2. RunsIn(held[i].toks, i)
    BY DEF TreeInv, Carried
  <2>3. \A k \in DOMAIN held[i].toks : tok'[held[i].toks[k]] = tok[held[i].toks[k]]
    BY <2>2 DEF RunsIn, Writes
  <2>4. ASSUME held[i].pc = "parent" PROVE Completes(i)'
    <3> DEFINE t == held[i].toks[1]
    <3>1. Completes(i) /\ held[i].toks # <<>> /\ held[i].toks \in Seq(Nat)
      BY <2>1, <2>4 DEF LockOK, TreeInv, Types, Call
    <3>2. 1 \in DOMAIN held[i].toks
      BY <3>1
    <3>3. tok'[t] = tok[t] /\ shape' = shape
      BY <2>3, <3>2 DEF Writes
    <3>4. \A u \in DOMAIN tok' : tok'[u].inst = i => u \in DOMAIN tok /\ tok[u].inst = i /\ tok'[u] = tok[u]
      BY DEF Writes
    <3>5. held'[i].toks[1] = t
      BY <2>1
    <3>6. QED BY <2>1, <3>1, <3>3, <3>4, <3>5 DEF Completes, Multi, Live
  <2>5. lock'[i] \notin {0, i} => lock'[i] = 1 /\ held'[1].pc = "cancel"
    BY <2>0
  <2>6. Ended(i)' <=> Ended(i)
    BY <2>1 DEF Ended
  <2>7. QED BY <2>1, <2>3, <2>4, <2>5, <2>6 DEF LockOK
<1>2. ASSUME NEW i \in DOMAIN inst' \ DOMAIN inst PROVE LockOK(i)'
  <2>1. i \in DOMAIN inst' \ I /\ i # 0
    BY DEF Writes
  <2>2. held'[i] = NoCall /\ lock'[i] = 0
    BY <2>1 DEF Lists
  <2>3. inst'[i].state = "ready"
    BY DEF Writes
  <2>4. QED BY <2>1, <2>2, <2>3 DEF LockOK, NoCall, Ended, EndedStates
<1>3. QED BY <1>1, <1>2 DEF Locks

\* A step that does not belong to the call that cancels.
LEMMA KeepCancels ==
    ASSUME TreeInv, NEW I, NEW T, Writes(I, T),
           held[1].pc # "cancel" => held'[1].pc # "cancel",
           held[1].pc = "cancel" => /\ held'[1] = held[1]
                                    /\ \A i \in I : lock[i] # 1
                                    /\ \A i \in DOMAIN inst : lock'[i] = lock[i]
    PROVE  Cancels'
<1> USE Domains
<1> SUFFICES ASSUME held[1].pc = "cancel" PROVE Cancels'
  BY DEF Cancels
<1>1. /\ held'[1] = held[1] /\ \A i \in I : lock[i] # 1
      /\ \A i \in DOMAIN inst : lock'[i] = lock[i]
  OBVIOUS
<1>2. 1 \notin I /\ inst'[1] = inst[1]
  BY <1>1 DEF TreeInv, Locks, LockOK, Writes
<1>3. \A c \in held[1].dead : c \notin I /\ c \in DOMAIN inst /\ lock'[c] = 1 /\ ~Ended(c)'
  BY <1>1, SMTT(40) DEF TreeInv, Cancels, Writes, Ended
<1>4. held[1].op = "run" => /\ held[1].toks = <<held[1].token>> /\ ~held[1].failed
                            /\ tok'[held[1].token].at = "terminate"
  <2>1. SUFFICES ASSUME held[1].op = "run" PROVE tok'[held[1].token] = tok[held[1].token]
    BY DEF TreeInv, Cancels
  <2>2. RunsIn(held[1].toks, 1) /\ held[1].toks = <<held[1].token>>
    BY <2>1 DEF TreeInv, Carried, Cancels
  <2>3. held[1].token \in DOMAIN tok /\ tok[held[1].token].inst = 1
    BY <2>2 DEF RunsIn
  <2>4. QED BY <1>2, <2>3 DEF Writes
<1>5. held[1].op = "boundary" => held[1].token \in sub'
  <2>1. SUFFICES ASSUME held[1].op = "boundary" PROVE held[1].token \in sub'
    OBVIOUS
  <2>2. held[1].token \in sub /\ held[1].token \in DOMAIN tok
    BY <2>1 DEF TreeInv, Cancels
  <2>3. tok[held[1].token].inst = 1
    BY <2>2 DEF TreeInv, Waits, WaitsAt
  <2>4. QED BY <1>2, <2>2, <2>3 DEF Writes
<1>6. ASSUME NEW c \in Kids
      PROVE  c \in Kids' /\ inst'[c].token = inst[c].token /\ ParentOf(c)' = ParentOf(c)
             /\ tok'[inst[c].token].inst = tok[inst[c].token].inst
  <2>1. c \in DOMAIN inst /\ c # 1 /\ inst[c].token \in DOMAIN tok
    BY DEF Kids
  <2>2. inst'[c].token = inst[c].token /\ tok'[inst[c].token].inst = tok[inst[c].token].inst
    BY <2>1 DEF Writes
  <2>3. QED BY <2>1, <2>2 DEF Kids, ParentOf
<1>7. ASSUME NEW c \in Kids', c \notin Kids
      PROVE  ~Reached(inst[c].token)' /\ ~Doomed(c)
  <2>1. c \notin DOMAIN inst /\ inst'[c].token \in T
    BY <1>7 DEF Kids, Writes
  <2>2. tok'[inst'[c].token].inst \in I
    BY <2>1 DEF Writes
  <2>3. inst'[c].token \notin sub \/ held[1].op # "boundary" \/ inst'[c].token # held[1].token
    <3>1. CASE held[1].op = "boundary" /\ inst'[c].token = held[1].token
      <4>1. held[1].token \in sub /\ held[1].token \in DOMAIN tok
        BY <3>1 DEF TreeInv, Cancels
      <4>2. tok[held[1].token].inst = 1
        BY <4>1 DEF TreeInv, Waits, WaitsAt
      <4>3. QED BY <1>2, <2>1, <3>1, <4>2 DEF Writes
    <3>2. QED BY <3>1
  <2>4. held[1].op = "boundary" => held[1].token \in sub
    BY DEF TreeInv, Cancels
  <2>5. ~Reached(inst[c].token)'
    BY <1>1, <1>2, <1>3, <2>2, <2>3, <2>4 DEF Reached
  <2>6. ~Doomed(c)
    BY <2>1 DEF Doomed, InTodo, TreeInv, Cancels, Kids
  <2>7. QED BY <2>5, <2>6
<1>8. ASSUME NEW c \in Kids, ~Ended(c)' PROVE ~Ended(c)
  <2>1. c \in DOMAIN inst
    BY DEF Kids
  <2>2. QED BY <1>8, <2>1, EndedStays
<1>9. \A c : Doomed(c)' <=> Doomed(c)
  BY <1>1 DEF Doomed, InTodo
<1>10. \A c \in Kids : Reached(inst[c].token)' <=> Reached(inst[c].token)
  BY <1>1, <1>6 DEF Reached
<1>11. \A c \in Kids' : Doomed(c)' => Reached(inst[c].token)'
  BY <1>6, <1>7, <1>9, <1>10 DEF TreeInv, Cancels
<1>12. \A c \in Kids' : ~Ended(c)' /\ Reached(inst[c].token)' => Doomed(c)'
  BY <1>6, <1>7, <1>8, <1>9, <1>10 DEF TreeInv, Cancels
<1>13. \A k \in DOMAIN held[1].todo : held[1].todo[k] \in Kids'
  BY <1>6 DEF TreeInv, Cancels
<1>14. QED BY <1>1, <1>3, <1>4, <1>5, <1>11, <1>12, <1>13 DEF TreeInv, Cancels

-----------------------------------------------------------------------------
(* The operators of the model.                                             *)

\* The rank of a member of a finite set of numbers tells it from the others, and
\* every rank is taken.
LEMMA Ranks ==
    ASSUME NEW K, IsFiniteSet(K), K \subseteq Nat
    PROVE  /\ Cardinality(K) \in Nat
           /\ \A i \in 1..Cardinality(K) : \E k \in K : Cardinality({j \in K : j < k}) = i - 1
           /\ \A k \in K : Cardinality({j \in K : j < k}) + 1 \in 1..Cardinality(K)
           /\ \A k, m \in K : Cardinality({j \in K : j < k}) = Cardinality({j \in K : j < m}) => k = m
<1> DEFINE n == Cardinality(K)
           Below(k) == {j \in K : j < k}
           rank == [k \in K |-> Cardinality(Below(k))]
<1>1. n \in Nat
  BY FS_CardinalityType
<1>2. ASSUME NEW k \in K
      PROVE  IsFiniteSet(Below(k)) /\ Cardinality(Below(k)) \in 0..(n - 1)
  <2>1. Below(k) \subseteq K /\ k \notin Below(k)
    BY <1>2
  <2>2. Below(k) # K
    BY <2>1
  <2> HIDE DEF Below
  <2>3. IsFiniteSet(Below(k)) /\ Cardinality(Below(k)) <= n /\ Cardinality(Below(k)) # n
    BY <2>1, <2>2, FS_Subset
  <2>4. Cardinality(Below(k)) \in Nat
    BY <2>3, FS_CardinalityType
  <2>5. QED BY <1>1, <2>3, <2>4
<1>3. ASSUME NEW k \in K, NEW m \in K, k < m PROVE rank[k] < rank[m]
  <2>1. Below(k) \subseteq Below(m) /\ k \in Below(m) /\ k \notin Below(k)
    <3>1. k \in Nat /\ m \in Nat /\ \A j \in K : j \in Nat
      OBVIOUS
    <3>2. ~(k < k) /\ \A j \in K : j < k => j < m
      BY <1>3, <3>1
    <3>3. QED BY <1>3, <3>2, Zenon
  <2>2. Below(k) # Below(m)
    BY <2>1
  <2>3. rank[k] = Cardinality(Below(k)) /\ rank[m] = Cardinality(Below(m))
    OBVIOUS
  <2> HIDE DEF Below, rank
  <2>4. Cardinality(Below(k)) <= Cardinality(Below(m)) /\ Cardinality(Below(k)) # Cardinality(Below(m))
    BY <1>2, <2>1, <2>2, FS_Subset
  <2>5. QED BY <1>2, <2>3, <2>4
<1>4. rank \in [K -> 0..(n - 1)]
  BY <1>2
<1>5. \A k \in K : rank[k] = Cardinality(Below(k))
  OBVIOUS
<1> HIDE DEF rank
<1>6. \A k, m \in K : rank[k] = rank[m] => k = m
  <2>1. SUFFICES ASSUME NEW k \in K, NEW m \in K, rank[k] = rank[m], k # m PROVE FALSE
    OBVIOUS
  <2>2. k < m \/ m < k
    BY <2>1
  <2>3. rank[k] \in Int /\ rank[m] \in Int
    BY <1>1, <1>4
  <2>4. QED BY <1>3, <2>1, <2>2, <2>3
<1>7. rank \in Injection(K, 0..(n - 1))
  BY <1>4, <1>6 DEF Injection, IsInjective
<1>8. IsFiniteSet(0..(n - 1)) /\ Cardinality(0..(n - 1)) = n
  <2> HIDE DEF n
  <2>1. 0 \in Int /\ n - 1 \in Int
    BY <1>1
  <2>2. /\ IsFiniteSet(0..(n - 1))
        /\ Cardinality(0..(n - 1)) = IF 0 > n - 1 THEN 0 ELSE (n - 1) - 0 + 1
    BY <2>1, FS_Interval
  <2>3. QED BY <1>1, <2>2
<1>9. rank \in Surjection(K, 0..(n - 1))
  BY <1>7, <1>8, FS_Injection
<1>10. ASSUME NEW i \in 1..n PROVE \E k \in K : Cardinality(Below(k)) = i - 1
  <2>1. PICK k \in K : rank[k] = i - 1
    BY <1>1, <1>9 DEF Surjection
  <2>2. QED BY <1>5, <2>1
<1>11. ASSUME NEW k \in K PROVE Cardinality(Below(k)) + 1 \in 1..n
  BY <1>1, <1>2
<1>12. ASSUME NEW k \in K, NEW m \in K, Cardinality(Below(k)) = Cardinality(Below(m)) PROVE k = m
  BY <1>5, <1>6, <1>12
<1>13. QED BY <1>1, <1>10, <1>11, <1>12

\* InOrder lists the members of a finite set of numbers, each of them once.
LEMMA InOrderLists ==
    ASSUME NEW K, IsFiniteSet(K), K \subseteq Nat
    PROVE  /\ InOrder(K) \in Seq(K) /\ Len(InOrder(K)) = Cardinality(K)
           /\ \A k \in K : \E i \in DOMAIN InOrder(K) : InOrder(K)[i] = k
           /\ \A i, j \in DOMAIN InOrder(K) : InOrder(K)[i] = InOrder(K)[j] => i = j
<1> DEFINE rank(k) == Cardinality({j \in K : j < k})
           L == InOrder(K)
           n == Cardinality(K)
<1>1. /\ n \in Nat /\ \A i \in 1..n : \E k \in K : rank(k) = i - 1
      /\ \A k \in K : rank(k) + 1 \in 1..n
      /\ \A k, m \in K : rank(k) = rank(m) => k = m
  BY Ranks
<1>2. L = [i \in 1..n |-> CHOOSE k \in K : rank(k) = i - 1]
  BY DEF InOrder
<1> HIDE DEF L, n, rank
<1>3. ASSUME NEW i \in 1..n PROVE L[i] \in K /\ rank(L[i]) = i - 1
  BY <1>1, <1>2
<1>4. L \in Seq(K) /\ Len(L) = n /\ DOMAIN L = 1..n
  <2>1. L \in [1..n -> K]
    BY <1>2, <1>3
  <2>2. QED BY <1>1, <2>1
<1>5. ASSUME NEW k \in K PROVE \E i \in 1..n : L[i] = k
  <2>1. PICK i \in 1..n : i = rank(k) + 1
    BY <1>1
  <2>2. rank(k) \in Int
    <3>1. {j \in K : j < k} \subseteq K
      OBVIOUS
    <3>2. IsFiniteSet({j \in K : j < k})
      BY <3>1, FS_Subset
    <3>3. QED BY <3>2, FS_CardinalityType DEF rank
  <2>3. i - 1 = rank(k)
    BY <2>1, <2>2
  <2>4. L[i] \in K /\ rank(L[i]) = rank(k)
    BY <1>3, <2>3
  <2>5. L[i] = k
    BY <1>1, <2>4
  <2>6. QED BY <2>5
<1>6. ASSUME NEW i \in 1..n, NEW j \in 1..n, L[i] = L[j] PROVE i = j
  BY <1>1, <1>3, <1>6
<1>7. QED BY <1>4, <1>5, <1>6 DEF L, n

-----------------------------------------------------------------------------
(* Steps on one token of one instance.                                     *)

\* The locks are not changed, new instances are free.
SameLocks == lock' = [k \in DOMAIN inst' |-> IF k \in DOMAIN inst THEN lock[k] ELSE 0]

\* The call on instance i becomes c.
Holds(i, c) == held' = [k \in DOMAIN inst' |-> IF k = i THEN c
                                               ELSE IF k \in DOMAIN inst THEN held[k] ELSE NoCall]

\* The types of what a running token may not have.
LEMMA RunningToken ==
    ASSUME TreeInv, NEW t \in DOMAIN tok, tok[t].state = "running"
    PROVE  /\ \A j \in DOMAIN job : job[j].token = t => ~Pending(j)
           /\ t \notin incident /\ t \notin sub
           /\ \A c \in Kids : inst[c].token = t => Ended(c)
           /\ ~Ended(tok[t].inst) /\ tok[t].inst \in DOMAIN inst
<1>1. WaitsAt(t) /\ KidsOf(t) /\ QuietOK(t) /\ PlaceOK(t)
  BY DEF TreeInv, Waits, Waiting, Quiet, Tree
<1>2. QED BY <1>1 DEF WaitsAt, KidsOf, QuietOK, PlaceOK, Live

\* The token at the head of the list of the loop.
LEMMA HeadOfLoop ==
    ASSUME TreeInv, NEW i \in DOMAIN inst, held[i].pc \in {"loop", "parent"},
           held[i].toks # <<>>
    PROVE  LET t == Head(held[i].toks)
           IN  /\ t \in DOMAIN tok /\ tok[t].inst = i /\ tok[t].state = "running"
               /\ held[i].toks \in Seq(Nat) /\ 1 \in DOMAIN held[i].toks /\ held[i].toks[1] = t
               /\ ~Ended(i) /\ lock[i] = i /\ held[i].op = "run" /\ held[i] \in Call
<1>1. held[i] \in Call /\ held[i].toks \in Seq(Nat)
  BY DEF TreeInv, Types, Call
<1>2. 1 \in DOMAIN held[i].toks /\ Head(held[i].toks) = held[i].toks[1]
  BY <1>1
<1>3. RunsIn(held[i].toks, i) /\ LockOK(i)
  BY DEF TreeInv, Carried, Locks
<1>4. Head(held[i].toks) \in DOMAIN tok /\ tok[Head(held[i].toks)].inst = i
      /\ tok[Head(held[i].toks)].state = "running"
  BY <1>2, <1>3 DEF RunsIn
<1>5. ~Ended(i) /\ lock[i] = i /\ held[i].op = "run"
  BY <1>3 DEF LockOK
<1>6. QED BY <1>1, <1>2, <1>4, <1>5

\* The invariant survives a step on one token of one instance, given what the step does
\* with that token, its instance and its call.
LEMMA OneStepKeeps ==
    ASSUME TreeInv, NEW i \in DOMAIN inst, NEW t \in DOMAIN tok, Writes({i}, {t}),
           NEW c \in Call, NEW G, SameLocks, Holds(i, c), go' = go \union G, G \subseteq Goroutine,
           failures' \in 0..MaxFailures,
           lock[i] \in {0, i}, held[i].pc # "cancel", c.pc # "cancel",
           tok[t].state # "running" \/ \E k \in DOMAIN held[i].toks : held[i].toks[k] = t,
           \A g \in G : /\ g.inst \in DOMAIN inst' /\ RunsIn(g.toks, g.inst)'
                        /\ \A k \in DOMAIN g.toks : g.toks[k] = t \/ g.toks[k] \notin DOMAIN tok
                        /\ held'[g.inst].toks = <<>>,
           \A g, h \in G : g = h,
           RunsIn(held[i].toks, i)',
           \A k \in DOMAIN c.toks : \/ c.toks[k] = t \/ c.toks[k] \notin DOMAIN tok
                                    \/ \E l \in DOMAIN held[i].toks : held[i].toks[l] = c.toks[k],
           PlaceOK(t)', WaitsAt(t)', KidsOf(t)', LockOK(i)',
           Ended(i)' => i = 1 /\ \A u \in DOMAIN tok' : tok'[u].inst = i => ~Live(u)',
           Multi(i) => ItemsOK(i)',
           \A m \in DOMAIN inst' \ DOMAIN inst : Multi(m)' => ItemsOK(m)'
    PROVE  TreeInv'
<1> USE Domains
<1>1. \A k \in DOMAIN inst' : k \notin {i} => held'[k] = IF k \in DOMAIN inst THEN held[k] ELSE NoCall
  BY DEF Holds
<1>2. held'[i] = c /\ i \in DOMAIN inst'
  BY DEF Holds
<1>3. /\ \A k \in DOMAIN inst : lock'[k] = lock[k]
      /\ \A k \in DOMAIN inst' \ DOMAIN inst : lock'[k] = 0
  BY DEF SameLocks
<1>4. Types'
  <2>1. held' \in [DOMAIN inst' -> Call]
    <3>1. NoCall \in Call
      BY DEF NoCall, Call
    <3>2. \A k \in DOMAIN inst : held[k] \in Call
      BY DEF TreeInv, Types
    <3>3. QED BY <3>1, <3>2 DEF Holds
  <2>2. lock' \in [DOMAIN inst' -> Nat]
    BY DEF TreeInv, Types, SameLocks
  <2>3. QED BY <2>1, <2>2, SMTT(40) DEF TreeInv, Types, Writes
<1>5. Tree'
  BY KeepTree
<1>6. Waits'
  BY KeepWaits
<1>7. Quiet'
  <2>1. \A k \in {i} : Ended(k)' => \A u \in DOMAIN tok' : tok'[u].inst = k => ~Live(u)'
    OBVIOUS
  <2>2. QED BY <2>1, KeepQuiet
<1>8. Waiting'
  <2>1. \A k \in {i} : k # 1 /\ inst[k].token \notin {t} => ~Ended(k)'
    OBVIOUS
  <2>2. QED BY <1>7, <2>1, KeepWaiting
<1>9. ASSUME NEW g \in go, ~Ended(g.inst)' PROVE \A k \in DOMAIN g.toks : g.toks[k] # t
  <2>1. g.inst \in DOMAIN inst
    BY DEF TreeInv, Carried
  <2>2. ~Ended(g.inst)
    BY <1>9, <2>1, EndedStays
  <2>3. RunsIn(g.toks, g.inst) /\ Apart(g.toks, held[g.inst].toks)
    BY <2>2 DEF TreeInv, Carried
  <2>4. CASE tok[t].state # "running"
    BY <2>3, <2>4 DEF RunsIn
  <2>5. CASE \E k \in DOMAIN held[i].toks : held[i].toks[k] = t
    <3>1. tok[t].inst = i
      BY DEF Writes
    <3>2. CASE g.inst = i
      BY <2>3, <2>5, <3>2 DEF Apart
    <3>3. CASE g.inst # i
      BY <2>3, <3>1, <3>3 DEF RunsIn
    <3>4. QED BY <3>2, <3>3
  <2>6. QED BY <2>4, <2>5
<1>10. Lists({i}, {t})
  <2>1. \A g \in go' \ go : g \in G
    OBVIOUS
  <2>2. \A g \in go : ~Ended(g.inst)' => \A k \in DOMAIN g.toks : g.toks[k] \notin {t}
    BY <1>9
  <2>3. \A k \in DOMAIN inst' \ {i} : held'[k] = IF k \in DOMAIN inst THEN held[k] ELSE NoCall
    BY <1>1
  <2>4. \A k \in {i} : /\ RunsIn(held[k].toks, k)'
                       /\ \A l \in DOMAIN held'[k].toks :
                            \/ held'[k].toks[l] \in {t} \/ held'[k].toks[l] \notin DOMAIN tok
                            \/ \E m \in DOMAIN held[k].toks : held[k].toks[m] = held'[k].toks[l]
    BY <1>2
  <2>5. QED BY <2>1, <2>2, <2>3, <2>4 DEF Lists
<1>11. Carried'
  BY <1>10, KeepCarried
<1>12. held[1].pc = "cancel" => held'[1] = held[1] /\ lock[i] # 1
  <2>1. SUFFICES ASSUME held[1].pc = "cancel" PROVE held'[1] = held[1] /\ lock[i] # 1
    OBVIOUS
  <2>2. i # 1
    BY <2>1
  <2>3. QED BY <1>1, <2>2 DEF TreeInv, Types
<1>13. held[1].pc # "cancel" => held'[1].pc # "cancel"
  BY <1>1, <1>2
<1>14. Cancels'
  <2>1. held[1].pc = "cancel" => /\ held'[1] = held[1]
                                 /\ \A k \in {i} : lock[k] # 1
                                 /\ \A k \in DOMAIN inst : lock'[k] = lock[k]
    BY <1>3, <1>12
  <2>2. QED BY <1>13, <2>1, KeepCancels
<1>15. Locks'
  <2>1. ASSUME NEW k \in DOMAIN inst' \ {i}, lock'[k] \notin {0, k}
        PROVE  lock'[k] = 1 /\ held'[1].pc = "cancel"
    <3>1. k \in DOMAIN inst /\ lock'[k] = lock[k]
      BY <1>3, <2>1
    <3>2. lock[k] = 1 /\ held[1].pc = "cancel"
      BY <2>1, <3>1 DEF TreeInv, Locks, LockOK
    <3>3. QED BY <1>12, <3>1, <3>2
  <2>2. \A k \in DOMAIN inst \ {i} : lock'[k] = lock[k] \/ (lock[k] # k /\ lock'[k] = 0)
    BY <1>3
  <2>3. \A k \in {i} : LockOK(k)'
    OBVIOUS
  <2>4. QED BY <1>3, <1>10, <2>1, <2>2, <2>3, KeepLocks
<1>16. Items'
  <2>1. \A k \in {i} : k # 1 /\ inst'[k].state = "terminated" => ParentOf(k) \in {i}
    BY DEF Ended, EndedStates
  <2>2. \A m \in {i} : Multi(m) => ItemsOK(m)'
    OBVIOUS
  <2>3. QED BY <2>1, <2>2, KeepItems
<1>17. QED BY <1>4, <1>5, <1>6, <1>7, <1>8, <1>11, <1>14, <1>15, <1>16 DEF TreeInv

\* What is left of the list of the loop, followed by the tokens N.
Rest(i, N) == Tail(held[i].toks) \o N

\* The tokens of the instance that the round has moved or made.
RunsNext(i, t, N) ==
    /\ N \in Seq(Nat)
    /\ \A k \in DOMAIN N : /\ N[k] = t \/ N[k] \notin DOMAIN tok
                           /\ N[k] \in DOMAIN tok' /\ tok'[N[k]].inst = i
                           /\ tok'[N[k]].state = "running" /\ tok'[N[k]].at # "terminate"
    /\ \A k, l \in DOMAIN N : N[k] = N[l] => k = l

\* The list of the loop without its head, followed by tokens that the step moved or
\* made and that do not terminate the instance.
LEMMA NextList ==
    ASSUME TreeInv, NEW i \in DOMAIN inst, held[i].pc = "loop", held[i].toks # <<>>,
           NEW t, t = Head(held[i].toks), Writes({i}, {t}), NEW N, RunsNext(i, t, N),
           NEW L, L = Rest(i, N)
    PROVE  /\ L \in Seq(Nat)
           /\ \A k \in DOMAIN L :
                 /\ L[k] \in DOMAIN tok' /\ tok'[L[k]].inst = i
                 /\ tok'[L[k]].state = "running" /\ tok'[L[k]].at # "terminate"
                 /\ \/ L[k] = t \/ L[k] \notin DOMAIN tok
                    \/ \E l \in DOMAIN held[i].toks : held[i].toks[l] = L[k]
           /\ \A k, l \in DOMAIN L : L[k] = L[l] => k = l
<1> DEFINE M == held[i].toks
           n == Len(M) - 1
<1> USE DEF RunsNext
<1>1. /\ M \in Seq(Nat) /\ 1 \in DOMAIN M /\ M[1] = t
      /\ M # <<>> /\ n \in Nat
  <2>1. /\ M \in Seq(Nat) /\ 1 \in DOMAIN M /\ M[1] = t /\ M # <<>>
    BY HeadOfLoop
  <2>2. QED BY <2>1
<1>2. RunsIn(M, i)
  BY DEF TreeInv, Carried
<1>3. /\ Tail(M) \in Seq(Nat) /\ Len(Tail(M)) = n
      /\ \A k \in 1..n : Tail(M)[k] = M[k + 1] /\ k + 1 \in DOMAIN M
  BY <1>1
<1>4. ASSUME NEW k \in 1..n
      PROVE  /\ M[k + 1] \in DOMAIN tok /\ M[k + 1] # t
             /\ M[k + 1] \in DOMAIN tok' /\ tok'[M[k + 1]].inst = i
             /\ tok'[M[k + 1]].state = "running" /\ tok'[M[k + 1]].at # "terminate"
  <2>1. k + 1 \in DOMAIN M /\ k + 1 # 1 /\ Len(M) # 1
    BY <1>1, <1>3
  <2>2. /\ M[k + 1] \in DOMAIN tok /\ M[k + 1] # t /\ tok[M[k + 1]].inst = i
        /\ tok[M[k + 1]].state = "running" /\ tok[M[k + 1]].at # "terminate"
    BY <1>1, <1>2, <2>1 DEF RunsIn
  <2>3. tok'[M[k + 1]] = tok[M[k + 1]] /\ DOMAIN tok \subseteq DOMAIN tok'
    <3>1. PICK u \in DOMAIN tok : u = M[k + 1] /\ u # t
      BY <2>2
    <3>2. tok'[u] = tok[u]
      BY <3>1 DEF Writes
    <3>3. QED BY <3>1, <3>2, Domains
  <2>4. QED BY <2>2, <2>3
<1>5. \A k, l \in 1..n : M[k + 1] = M[l + 1] => k = l
  BY <1>1, <1>2, <1>3 DEF RunsIn
<1> HIDE DEF M, n
<1>6. PICK A \in Seq(Nat) : A = Tail(M) /\ L = A \o N /\ Len(A) = n
  BY <1>3 DEF M, Rest
<1>7. /\ L \in Seq(Nat) /\ Len(L) = n + Len(N) /\ DOMAIN L = 1..(n + Len(N))
      /\ \A k \in 1..n : L[k] = A[k]
      /\ \A k \in (n + 1)..(n + Len(N)) : L[k] = N[k - n]
      /\ Len(N) \in Nat /\ DOMAIN N = 1..Len(N)
  <2>1. /\ A \o N \in Seq(Nat) /\ Len(A \o N) = Len(A) + Len(N)
        /\ \A k \in 1..(Len(A) + Len(N)) :
              (A \o N)[k] = IF k <= Len(A) THEN A[k] ELSE N[k - Len(A)]
    BY ConcatProperties
  <2>2. Len(N) \in Nat /\ DOMAIN N = 1..Len(N) /\ DOMAIN (A \o N) = 1..Len(A \o N)
    BY <2>1
  <2>3. L \in Seq(Nat) /\ Len(L) = n + Len(N) /\ DOMAIN L = 1..(n + Len(N))
    BY <1>6, <2>1, <2>2
  <2>4. \A k \in 1..(n + Len(N)) : L[k] = IF k <= n THEN A[k] ELSE N[k - n]
    BY <1>6, <2>1
  <2>5. ASSUME NEW k \in 1..n PROVE L[k] = A[k]
    <3>1. n \in Nat /\ Len(N) \in Nat
      BY <1>1, <2>2
    <3>2. k \in 1..(n + Len(N)) /\ k <= n
      BY <3>1
    <3>3. QED BY <2>4, <3>2
  <2>6. \A k \in (n + 1)..(n + Len(N)) : L[k] = N[k - n]
    BY <1>1, <2>2, <2>4
  <2>7. QED BY <2>2, <2>3, <2>5, <2>6
<1>8. ASSUME NEW k \in DOMAIN L
      PROVE  \/ k \in 1..n /\ L[k] = M[k + 1]
             \/ \E p \in DOMAIN N : k = n + p /\ L[k] = N[p]
  <2>1. CASE k \in 1..n
    BY <1>3, <1>6, <1>7, <2>1
  <2>2. CASE k \notin 1..n
    <3>1. n \in Nat /\ Len(N) \in Nat /\ k \in 1..(n + Len(N)) /\ DOMAIN N = 1..Len(N)
      BY <1>1, <1>7
    <3>2. k \in (n + 1)..(n + Len(N)) /\ k - n \in 1..Len(N) /\ k = n + (k - n)
      BY <2>2, <3>1
    <3>3. QED BY <1>7, <3>1, <3>2
  <2>3. QED BY <2>1, <2>2
<1>9. ASSUME NEW k \in DOMAIN L
      PROVE  /\ L[k] \in DOMAIN tok' /\ tok'[L[k]].inst = i
             /\ tok'[L[k]].state = "running" /\ tok'[L[k]].at # "terminate"
             /\ \/ L[k] = t \/ L[k] \notin DOMAIN tok \/ \E l \in DOMAIN M : M[l] = L[k]
  <2>1. CASE k \in 1..n /\ L[k] = M[k + 1]
    BY <1>3, <1>4, <2>1
  <2>2. CASE \E p \in DOMAIN N : k = n + p /\ L[k] = N[p]
    BY <2>2
  <2>3. QED BY <1>8, <2>1, <2>2
<1>11. ASSUME NEW k \in DOMAIN L, NEW l \in DOMAIN L, L[k] = L[l] PROVE k = l
  <2>1. CASE k \in 1..n /\ L[k] = M[k + 1]
    <3>1. CASE l \in 1..n /\ L[l] = M[l + 1]
      BY <1>5, <1>11, <2>1, <3>1
    <3>2. CASE \E p \in DOMAIN N : l = n + p /\ L[l] = N[p]
      BY <1>4, <1>11, <2>1, <3>2
    <3>3. QED BY <1>8, <3>1, <3>2
  <2>2. CASE \E p \in DOMAIN N : k = n + p /\ L[k] = N[p]
    <3>1. CASE l \in 1..n /\ L[l] = M[l + 1]
      BY <1>4, <1>11, <2>2, <3>1
    <3>2. CASE \E p \in DOMAIN N : l = n + p /\ L[l] = N[p]
      BY <1>11, <2>2, <3>2
    <3>3. QED BY <1>8, <3>1, <3>2
  <2>3. QED BY <1>8, <2>1, <2>2
<1>12. QED BY <1>7, <1>9, <1>11 DEF M

\* The loop goes on with the tokens L.
LoopCall(i, L, c) ==
    c \in Call /\ c.toks = L /\ c.pc = "loop" /\ c.op = "run" /\ c.dead = held[i].dead

\* A round of the main loop.
LEMMA LoopKeeps ==
    ASSUME TreeInv, NEW i \in DOMAIN inst, held[i].pc = "loop", held[i].toks # <<>>,
           NEW t, t = Head(held[i].toks), Writes({i}, {t}), NEW N, RunsNext(i, t, N),
           NEW L, L = <<>> \/ L = Rest(i, N),
           NEW c, LoopCall(i, L, c),
           SameLocks, Holds(i, c),
           failures' \in 0..MaxFailures,
           NEW G, go' = go \union G, G \subseteq Goroutine,
           \A g \in G : /\ g.inst \in DOMAIN inst' \ DOMAIN inst /\ RunsIn(g.toks, g.inst)'
                        /\ \A k \in DOMAIN g.toks : g.toks[k] \notin DOMAIN tok,
           \A g, h \in G : g = h,
           PlaceOK(t)', WaitsAt(t)', KidsOf(t)',
           Ended(i)' => i = 1 /\ L = <<>> /\ \A u \in DOMAIN tok' : tok'[u].inst = i => ~Live(u)',
           Multi(i) => ItemsOK(i)',
           \A m \in DOMAIN inst' \ DOMAIN inst : Multi(m)' => ItemsOK(m)'
    PROVE  TreeInv'
<1>1. /\ t \in DOMAIN tok /\ tok[t].inst = i /\ held[i].toks \in Seq(Nat)
      /\ 1 \in DOMAIN held[i].toks /\ held[i].toks[1] = t
      /\ lock[i] = i /\ held[i].op = "run" /\ held[i] \in Call
  BY HeadOfLoop
<1>2. /\ L \in Seq(Nat)
      /\ \A k \in DOMAIN L :
            /\ L[k] \in DOMAIN tok' /\ tok'[L[k]].inst = i
            /\ tok'[L[k]].state = "running" /\ tok'[L[k]].at # "terminate"
            /\ \/ L[k] = t \/ L[k] \notin DOMAIN tok
               \/ \E l \in DOMAIN held[i].toks : held[i].toks[l] = L[k]
      /\ \A k, l \in DOMAIN L : L[k] = L[l] => k = l
  <2>1. CASE L = <<>>
    BY <2>1
  <2>2. CASE L = Rest(i, N)
    BY <2>2, NextList
  <2>3. QED BY <2>1, <2>2
<1>3. c \in Call /\ c.toks = L /\ c.pc = "loop" /\ c.op = "run" /\ c.dead = held[i].dead
  BY DEF LoopCall
<1>4. DOMAIN inst \subseteq DOMAIN inst' /\ i \in DOMAIN inst'
  BY Domains
<1>5. Holds(i, c)
  OBVIOUS
<1>6. held'[i] = c /\ lock'[i] = i
  BY <1>1, <1>4, <1>5 DEF Holds, SameLocks
<1>7. RunsIn(held[i].toks, i)'
  BY <1>2, <1>3, <1>6 DEF RunsIn
<1>8. LockOK(i)'
  <2>1. c.dead = {}
    BY <1>3 DEF TreeInv, Locks, LockOK
  <2>2. QED BY <1>2, <1>3, <1>6, <2>1 DEF LockOK
<1>9. \A g \in G : /\ g.inst \in DOMAIN inst' /\ RunsIn(g.toks, g.inst)'
                   /\ \A k \in DOMAIN g.toks : g.toks[k] = t \/ g.toks[k] \notin DOMAIN tok
                   /\ held'[g.inst].toks = <<>>
  <2>1. ASSUME NEW g \in G PROVE held'[g.inst].toks = <<>>
    BY <1>5 DEF Holds, NoCall
  <2>2. QED BY <2>1
<1>10. \A k \in DOMAIN c.toks :
          \/ c.toks[k] = t \/ c.toks[k] \notin DOMAIN tok
          \/ \E l \in DOMAIN held[i].toks : held[i].toks[l] = c.toks[k]
  BY <1>2, <1>3
<1>11. Ended(i)' => i = 1 /\ \A u \in DOMAIN tok' : tok'[u].inst = i => ~Live(u)'
  OBVIOUS
<1>12. /\ lock[i] \in {0, i} /\ held[i].pc # "cancel" /\ c.pc # "cancel"
       /\ \E k \in DOMAIN held[i].toks : held[i].toks[k] = t
  BY <1>1, <1>3
<1>13. QED BY <1>1, <1>3, <1>5, <1>7, <1>8, <1>9, <1>10, <1>11, <1>12, OneStepKeeps

\* A call that locks one instance for the step only, and has one of its tokens run
\* or none.
LEMMA CallKeeps ==
    ASSUME TreeInv, NEW i \in DOMAIN inst, lock[i] = 0, NEW t \in DOMAIN tok,
           tok[t].state # "running", Writes({i}, {t}), DOMAIN inst' = DOMAIN inst,
           SameLocks, Holds(i, held[i]), failures' \in 0..MaxFailures,
           NEW N \in {<<>>, <<t>>}, NEW G, G \subseteq Run(i, N), go' = go \union G,
           N # <<>> => tok'[t].state = "running",
           PlaceOK(t)', WaitsAt(t)', KidsOf(t)', ~Ended(i)', Multi(i) => ItemsOK(i)'
    PROVE  TreeInv'
<1>1. LockOK(i) /\ held[i] \in Call /\ i # 0 /\ tok[t].inst = i /\ t \in Nat /\ i \in Nat
  BY DEF TreeInv, Locks, Types, Writes
<1>2. held[i] = NoCall
  BY <1>1 DEF LockOK
<1>3. NoCall.toks = <<>> /\ NoCall.pc = "none" /\ ~NoCall.failed
  BY DEF NoCall
<1>4. held'[i] = NoCall /\ lock'[i] = 0
  BY <1>2 DEF Holds, SameLocks
<1>5. RunsIn(held[i].toks, i)'
  BY <1>3, <1>4 DEF RunsIn
<1>6. LockOK(i)'
  BY <1>1, <1>3, <1>4 DEF LockOK
<1>7. tok'[t].inst = i /\ t \in DOMAIN tok'
  BY <1>1, Domains DEF Writes
<1>8. ASSUME NEW g \in G
      PROVE  /\ g.inst \in DOMAIN inst' /\ RunsIn(g.toks, g.inst)'
             /\ \A k \in DOMAIN g.toks : g.toks[k] = t \/ g.toks[k] \notin DOMAIN tok
             /\ held'[g.inst].toks = <<>> /\ g = [inst |-> i, toks |-> N]
  <2>1. g = [inst |-> i, toks |-> N] /\ g.inst = i /\ g.toks = N
    BY DEF Run
  <2>2. RunsIn(N, i)'
    <3>1. CASE N = <<>>
      BY <3>1 DEF RunsIn
    <3>2. CASE N = <<t>>
      BY <1>7, <3>2 DEF RunsIn
    <3>3. QED BY <3>1, <3>2
  <2>3. \A k \in DOMAIN N : N[k] = t
    OBVIOUS
  <2>4. QED BY <1>3, <1>4, <2>1, <2>2, <2>3
<1>9. G \subseteq Goroutine
  <2>1. N \in Seq(Nat)
    <3>1. <<>> \in Seq(Nat) /\ <<t>> \in Seq(Nat)
      BY <1>1
    <3>2. QED BY <3>1
  <2>2. QED BY <1>1, <2>1 DEF Run, Goroutine
<1>10. \A m \in DOMAIN inst' \ DOMAIN inst : Multi(m)' => ItemsOK(m)'
  OBVIOUS
<1>11. \A g, h \in G : g = h
  BY <1>8
<1>12. \A k \in DOMAIN NoCall.toks :
          \/ NoCall.toks[k] = t \/ NoCall.toks[k] \notin DOMAIN tok
          \/ \E l \in DOMAIN held[i].toks : held[i].toks[l] = NoCall.toks[k]
  BY <1>3
<1>13. lock[i] \in {0, i} /\ held[i].pc # "cancel" /\ NoCall.pc # "cancel" /\ NoCall \in Call
  BY <1>1, <1>2, <1>3
<1>14. Holds(i, NoCall)
  BY <1>2
<1>15. QED BY <1>1, <1>5, <1>6, <1>8, <1>9, <1>10, <1>11, <1>12, <1>13, <1>14, OneStepKeeps, ZenonT(40)

-----------------------------------------------------------------------------
(* The items of a multi-instance.                                          *)

\* A step without new rows.
SameRows == DOMAIN inst' = DOMAIN inst /\ DOMAIN tok' = DOMAIN tok /\ DOMAIN job' = DOMAIN job

\* Without new rows the tokens, the executions and the parents stay.
LEMMA SameCounts ==
    ASSUME TreeInv, NEW I, NEW T, Writes(I, T), SameRows, NEW m
    PROVE  /\ TokensOf(m)' = TokensOf(m) /\ Executions(m)' = Executions(m)
           /\ \A t : Begun(t)' <=> Begun(t)
           /\ \A c \in Kids : c \in Kids' /\ ParentOf(c)' = ParentOf(c)
           /\ Kids' = Kids
           /\ \A j \in DOMAIN job : /\ job'[j].token = job[j].token
                                    /\ tok'[job'[j].token].inst = tok[job[j].token].inst
<1> USE Domains
<1>1. /\ shape' = shape /\ DOMAIN inst' = DOMAIN inst /\ DOMAIN tok' = DOMAIN tok
      /\ DOMAIN job' = DOMAIN job
  BY DEF SameRows, Writes
<1>2. \A t \in DOMAIN tok : tok'[t].inst = tok[t].inst
  BY DEF Writes
<1>3. TokensOf(m)' = TokensOf(m)
  BY <1>1, <1>2 DEF TokensOf
<1>4. Kids' = Kids
  BY <1>1 DEF Kids
<1>5. \A c \in DOMAIN inst : inst'[c].token = inst[c].token
  BY DEF Writes
<1>6. \A j \in DOMAIN job : job'[j].token = job[j].token
  BY DEF Writes
<1>7. ASSUME NEW t PROVE Begun(t)' <=> Begun(t)
  <2>1. (\E j \in DOMAIN job : job[j].token = t)' <=> \E j \in DOMAIN job : job[j].token = t
    BY <1>1, <1>6
  <2>2. (\E c \in Kids : inst[c].token = t)' <=> \E c \in Kids : inst[c].token = t
    BY <1>4, <1>5 DEF Kids
  <2>3. QED BY <1>1, <2>1, <2>2 DEF Begun
<1>8. ASSUME NEW c \in Kids PROVE ParentOf(c)' = ParentOf(c)
  <2>1. c \in DOMAIN inst /\ inst[c].token \in DOMAIN tok
    BY DEF Kids
  <2>2. QED BY <1>2, <1>5, <2>1 DEF ParentOf
<1>9. ASSUME NEW j \in DOMAIN job PROVE tok'[job'[j].token].inst = tok[job[j].token].inst
  BY <1>2, <1>6
<1>10. {k \in DOMAIN job : tok[job[k].token].inst = m}'
       = {k \in DOMAIN job : tok[job[k].token].inst = m}
  BY <1>1, <1>9
<1>11. {k \in DOMAIN inst : k # 1 /\ ParentOf(k) = m}'
       = {k \in DOMAIN inst : k # 1 /\ ParentOf(k) = m}
  BY <1>1, <1>8 DEF Kids
<1>12. Executions(m)' = Executions(m)
  BY <1>1, <1>10, <1>11, Zenon DEF Executions
<1>13. QED BY <1>3, <1>4, <1>6, <1>7, <1>8, <1>9, <1>12

\* As long as a token of a parallel multi-instance is live, no other one runs twice.
LEMMA NoSecondRun ==
    ASSUME TreeInv, NEW m \in DOMAIN inst, Multi(m), ~shape.sequential, ~Ended(m),
           NEW t \in TokensOf(m), Live(t), NEW u \in TokensOf(m), u # t
    PROVE  tok[u].eik # 2
<1>1. ItemOK(u) /\ tok[u].inst = m
  BY DEF TreeInv, Items, ItemsOK, TokensOf
<1>2. QED BY <1>1 DEF ItemOK, Live

\* A step on token t of a multi-instance that starts no item.
LEMMA ItemsSame ==
    ASSUME TreeInv, NEW I, NEW T, Writes(I, T), SameRows, NEW m \in I, Multi(m),
           NEW t \in T, tok[t].inst = m, Live(t), \A u \in T : tok[u].inst = m => u = t,
           inst'[m].started = inst[m].started, ~Ended(m)',
           \A j \in DOMAIN job : job[j].token = t => job'[j].state # "terminated",
           \A c \in I : c # 1 /\ ParentOf(c) = m => inst'[c].state # "terminated",
           ~shape.sequential => ItemOK(t)'
    PROVE  ItemsOK(m)'
<1> USE Domains
<1>1. m \in DOMAIN inst /\ ~Ended(m) /\ t \in TokensOf(m) /\ ItemsOK(m)
  BY DEF Writes, TokensOf, TreeInv, Items
<1>2. inst[m].state # "terminated" /\ inst'[m].state \notin {"completed", "terminated"}
  BY <1>1 DEF Ended, EndedStates
<1>3. /\ TokensOf(m)' = TokensOf(m) /\ Executions(m)' = Executions(m)
      /\ \A u : Begun(u)' <=> Begun(u)
      /\ \A c \in Kids : ParentOf(c)' = ParentOf(c)
      /\ Kids' = Kids
      /\ \A j \in DOMAIN job : /\ job'[j].token = job[j].token
                               /\ tok'[job'[j].token].inst = tok[job[j].token].inst
  BY SameCounts
<1>4. shape' = shape /\ DOMAIN job' = DOMAIN job
  BY DEF Writes, SameRows
<1>5. ASSUME NEW j \in DOMAIN job, tok[job[j].token].inst = m PROVE job'[j].state # "terminated"
  <2>1. CASE job[j].token = t
    BY <2>1
  <2>2. CASE job[j].token # t
    <3>1. job'[j] = job[j]
      BY <1>5, <2>2 DEF Writes
    <3>2. QED BY <1>1, <1>2, <1>5, <3>1 DEF ItemsOK
  <2>3. QED BY <2>1, <2>2
<1>6. ASSUME NEW c \in Kids, ParentOf(c) = m PROVE inst'[c].state # "terminated"
  <2>1. c \in DOMAIN inst /\ c # 1
    BY DEF Kids
  <2>2. CASE c \in I
    BY <1>6, <2>1, <2>2
  <2>3. CASE c \notin I
    <3>1. inst'[c] = inst[c]
      BY <2>1, <2>3 DEF Writes
    <3>2. QED BY <1>1, <1>2, <1>6, <3>1 DEF ItemsOK
  <2>4. QED BY <2>2, <2>3
<1>7. ASSUME ~shape.sequential
      PROVE  /\ inst'[m].started = Cardinality({u \in TokensOf(m) : Begun(u)})'
             /\ \A u \in TokensOf(m)' : ItemOK(u)'
  <2>1. {u \in TokensOf(m) : Begun(u)}' = {u \in TokensOf(m) : Begun(u)}
    BY <1>3
  <2>2. inst[m].started = Cardinality({u \in TokensOf(m) : Begun(u)})
    BY <1>1, <1>7 DEF ItemsOK
  <2>3. ASSUME NEW u \in TokensOf(m), u # t PROVE ItemOK(u)'
    <3>1. ItemOK(u) /\ tok[u].eik # 2 /\ u \in DOMAIN tok /\ tok[u].inst = m
      BY <1>1, <1>7, <2>3, NoSecondRun DEF ItemsOK, TokensOf
    <3>2. u \notin T /\ tok'[u] = tok[u]
      BY <2>3, <3>1 DEF Writes
    <3>3. \A j \in DOMAIN job : job[j].token = u => job'[j] = job[j]
      BY <3>2 DEF Writes
    <3>4. QED BY <1>3, <1>4, <3>1, <3>2, <3>3 DEF ItemOK, Pending
  <2>4. QED BY <1>3, <1>7, <2>1, <2>2, <2>3
<1>8. QED BY <1>1, <1>2, <1>3, <1>4, <1>5, <1>6, <1>7 DEF ItemsOK

\* A multi-instance that ends.
LEMMA ItemsEnd ==
    ASSUME TreeInv, NEW I, NEW T, Writes(I, T), SameRows, NEW m \in I, Multi(m),
           inst'[m].started = inst[m].started, Ended(m)',
           inst'[m].state = "completed" =>
              /\ inst[m].started = shape.items
              /\ \A j \in DOMAIN job : tok[job[j].token].inst = m => job'[j].state # "terminated"
              /\ \A c \in Kids : ParentOf(c) = m => inst'[c].state # "terminated"
    PROVE  ItemsOK(m)'
<1>1. m \in DOMAIN inst /\ ItemsOK(m) /\ inst'[m].state \in {"completed", "terminated"}
  BY DEF Writes, TreeInv, Items, Ended, EndedStates
<1>2. /\ TokensOf(m)' = TokensOf(m) /\ Executions(m)' = Executions(m)
      /\ \A c \in Kids : ParentOf(c)' = ParentOf(c)
      /\ Kids' = Kids
      /\ \A j \in DOMAIN job : tok'[job'[j].token].inst = tok[job[j].token].inst
  BY SameCounts
<1>3. shape' = shape /\ DOMAIN job' = DOMAIN job
  BY DEF Writes, SameRows
<1>4. QED BY <1>1, <1>2, <1>3 DEF ItemsOK

\* The shape that is explored.
LEMMA ShapeType ==
    ASSUME TreeInv
    PROVE  /\ shape.inner \in {"task", "call", "sub"} /\ shape.items \in Nat
           /\ shape.multi \in BOOLEAN /\ shape.sequential \in BOOLEAN
           /\ shape.multi \/ shape.inner # "task"
<1>1. shape \in Shapes
  BY DEF TreeInv, Types
<1>2. /\ shape \in [inner : {"task", "call", "sub"}, multi : BOOLEAN,
                    sequential : BOOLEAN, items : Nat]
      /\ shape.multi \/ shape.inner # "task"
  BY <1>1, TreeAssumption
<1>3. QED BY <1>2

\* The tokens of an instance are finitely many.
LEMMA FiniteTables ==
    ASSUME TreeInv, NEW m
    PROVE  /\ IsFiniteSet(DOMAIN tok) /\ IsFiniteSet(DOMAIN job) /\ IsFiniteSet(DOMAIN inst)
           /\ IsFiniteSet(TokensOf(m))
<1>1. /\ DOMAIN tok = 1..Len(tok) /\ Len(tok) \in Nat /\ DOMAIN job = 1..Len(job) /\ Len(job) \in Nat
      /\ DOMAIN inst = 1..Len(inst) /\ Len(inst) \in Nat
  BY DEF TreeInv, Types
<1>2. \A n \in Nat : IsFiniteSet(1..n)
  BY FS_Interval
<1>3. TokensOf(m) \subseteq DOMAIN tok
  BY DEF TokensOf
<1>4. QED BY <1>1, <1>2, <1>3, FS_Subset

\* A running token of a parallel multi-instance has started its item if and only if
\* all items have been started; then all others are done.
LEMMA RunningItem ==
    ASSUME TreeInv, NEW m \in DOMAIN inst, Multi(m), ~shape.sequential,
           NEW t \in TokensOf(m), tok[t].state = "running"
    PROVE  /\ inst[m].started # shape.items => tok[t].eik = 1 /\ ~Begun(t)
           /\ inst[m].started = shape.items =>
                 /\ tok[t].eik = 2 /\ Begun(t)
                 /\ \A u \in TokensOf(m) : u # t => tok[u].state = "completed"
<1> DEFINE B == {u \in TokensOf(m) : Begun(u)}
<1>1. t \in DOMAIN tok /\ tok[t].inst = m
  BY DEF TokensOf
<1>2. ~Ended(m)
  BY <1>1, RunningToken
<1>3. /\ ItemsOK(m) /\ Cardinality(TokensOf(m)) = shape.items
      /\ inst[m].started = Cardinality(B) /\ \A u \in TokensOf(m) : ItemOK(u)
  BY <1>2 DEF TreeInv, Items, ItemsOK
<1>4. ~\E j \in DOMAIN job : job[j].token = t /\ Pending(j)
  BY <1>1, RunningToken
<1>5. /\ tok[t].eik \in {1, 2} /\ (tok[t].eik = 1 => ~Begun(t))
      /\ tok[t].eik = 2 => /\ Begun(t)
                           /\ \A u \in TokensOf(m) : u # t => tok[u].state = "completed"
  <2>1. ItemOK(t)
    BY <1>3
  <2>2. QED BY <1>1, <1>4, <2>1 DEF ItemOK
<1>6. CASE tok[t].eik = 2
  <2>1. \A u \in TokensOf(m) : Begun(u)
    BY <1>3, <1>5, <1>6 DEF ItemOK
  <2>2. B = TokensOf(m)
    BY <2>1
  <2>3. QED BY <1>3, <1>5, <1>6, <2>2
<1>7. CASE tok[t].eik = 1
  <2>1. B \subseteq TokensOf(m) /\ B # TokensOf(m)
    BY <1>5, <1>7
  <2>2. IsFiniteSet(TokensOf(m))
    BY FiniteTables
  <2> HIDE DEF B
  <2>3. Cardinality(B) # Cardinality(TokensOf(m))
    BY <2>1, <2>2, FS_Subset
  <2>4. QED BY <1>3, <1>5, <1>7, <2>3
<1>8. QED BY <1>5, <1>6, <1>7

\* One row more is one execution more.
LEMMA OneMore ==
    ASSUME NEW S, IsFiniteSet(S), NEW n, n \notin S, NEW S2, S2 = S \union {n}
    PROVE  Cardinality(S2) = Cardinality(S) + 1
BY FS_AddElement

\* A token of a multi-instance starts the next item.
LEMMA ItemStarts ==
    ASSUME TreeInv, NEW i \in DOMAIN inst, NEW t \in DOMAIN tok, Writes({i}, {t}), Multi(i),
           tok[t].inst = i, tok[t].state = "running", inst[i].started # shape.items,
           inst'[i].started = inst[i].started + 1, ~Ended(i)',
           tok'[t].state = "waiting", tok'[t].eik = tok[t].eik,
           \A u \in DOMAIN tok' \ DOMAIN tok : tok'[u].inst # i,
           \A j \in DOMAIN job : job'[j] = job[j], NEW n,
           IF shape.inner = "task"
           THEN /\ DOMAIN job' = DOMAIN job \union {n} /\ n \notin DOMAIN job
                /\ job'[n].token = t /\ job'[n].state = "active" /\ DOMAIN inst' = DOMAIN inst
           ELSE /\ DOMAIN inst' = DOMAIN inst \union {n} /\ n \notin DOMAIN inst
                /\ inst'[n].token = t /\ DOMAIN job' = DOMAIN job
    PROVE  ItemsOK(i)'
<1> USE Domains
<1>1. t \in TokensOf(i) /\ ItemsOK(i) /\ ~Ended(i) /\ shape' = shape
  BY DEF TokensOf, TreeInv, Items, Writes
<1>2. TokensOf(i)' = TokensOf(i)
  BY DEF TokensOf, Writes
<1>3. \A u \in DOMAIN tok : tok'[u].inst = tok[u].inst /\ (u # t => tok'[u] = tok[u])
  BY DEF Writes
<1>4. \A c \in DOMAIN inst : inst'[c].token = inst[c].token /\ (c # i => inst'[c] = inst[c])
  BY DEF Writes
<1>5. \A c \in Kids : c \in Kids' /\ ParentOf(c)' = ParentOf(c)
  <2>1. SUFFICES ASSUME NEW c \in Kids PROVE c \in Kids' /\ ParentOf(c)' = ParentOf(c)
    OBVIOUS
  <2>2. c \in DOMAIN inst /\ c # 1 /\ inst[c].token \in DOMAIN tok
    BY DEF Kids
  <2>3. QED BY <1>3, <1>4, <2>2 DEF Kids, ParentOf
<1>6. \A j \in DOMAIN job : tok'[job'[j].token].inst = tok[job[j].token].inst
  BY <1>3
<1>7. shape.inner = "task" => /\ \A u : Begun(u)' <=> Begun(u) \/ u = t
                              /\ Executions(i)' = Executions(i) + 1
  <2>1. SUFFICES ASSUME shape.inner = "task"
                 PROVE  /\ \A u : Begun(u)' <=> Begun(u) \/ u = t
                        /\ Executions(i)' = Executions(i) + 1
    OBVIOUS
  <2>2. DOMAIN job' = DOMAIN job \union {n} /\ n \notin DOMAIN job /\ job'[n].token = t
    BY <2>1
  <2>3. \A u : Begun(u)' <=> Begun(u) \/ u = t
    BY <1>1, <2>1, <2>2 DEF Begun
  <2> DEFINE X == {k \in DOMAIN job : tok[job[k].token].inst = i}
             Y == {k \in DOMAIN job : tok[job[k].token].inst = i}'
  <2>4. Y = X \union {n} /\ n \notin X
    <3>1. tok'[job'[n].token].inst = i
      BY <1>3, <2>2
    <3>2. QED BY <1>6, <2>2, <3>1
  <2>5. Executions(i) = Cardinality(X) /\ Executions(i)' = Cardinality(Y)
    BY <1>1, <2>1 DEF Executions
  <2>6. IsFiniteSet(X)
    <3>1. X \subseteq DOMAIN job /\ IsFiniteSet(DOMAIN job)
      BY FiniteTables
    <3> HIDE DEF X
    <3>2. QED BY <3>1, FS_Subset
  <2> HIDE DEF X, Y
  <2>7. Cardinality(Y) = Cardinality(X) + 1
    BY <2>4, <2>6, OneMore
  <2>8. QED BY <2>3, <2>5, <2>7
<1>8. shape.inner # "task" => /\ \A u : Begun(u)' <=> Begun(u) \/ u = t
                              /\ Executions(i)' = Executions(i) + 1
  <2>1. SUFFICES ASSUME shape.inner # "task"
                 PROVE  /\ \A u : Begun(u)' <=> Begun(u) \/ u = t
                        /\ Executions(i)' = Executions(i) + 1
    OBVIOUS
  <2>2. DOMAIN inst' = DOMAIN inst \union {n} /\ n \notin DOMAIN inst /\ inst'[n].token = t /\ n # 1
    BY <2>1
  <2>3. Kids' = Kids \union {n}
    BY <2>2 DEF Kids
  <2>4. \A u : Begun(u)' <=> Begun(u) \/ u = t
    BY <1>1, <1>4, <2>1, <2>2, <2>3 DEF Begun, Kids
  <2> DEFINE X == {k \in DOMAIN inst : k # 1 /\ ParentOf(k) = i}
             Y == {k \in DOMAIN inst : k # 1 /\ ParentOf(k) = i}'
  <2>5. Y = X \union {n} /\ n \notin X
    <3>1. ParentOf(n)' = i
      BY <1>3, <2>2 DEF ParentOf
    <3>2. \A k \in DOMAIN inst : k # 1 => ParentOf(k)' = ParentOf(k)
      BY <1>5 DEF Kids
    <3>3. QED BY <2>2, <3>1, <3>2
  <2>6. Executions(i) = Cardinality(X) /\ Executions(i)' = Cardinality(Y)
    BY <1>1, <2>1 DEF Executions
  <2>7. IsFiniteSet(X)
    <3>1. X \subseteq DOMAIN inst /\ IsFiniteSet(DOMAIN inst)
      BY FiniteTables
    <3> HIDE DEF X
    <3>2. QED BY <3>1, FS_Subset
  <2> HIDE DEF X, Y
  <2>8. Cardinality(Y) = Cardinality(X) + 1
    BY <2>5, <2>7, OneMore
  <2>9. QED BY <2>4, <2>6, <2>8
<1>9. /\ \A u : Begun(u)' <=> Begun(u) \/ u = t
      /\ Executions(i)' = Executions(i) + 1
  BY <1>7, <1>8
<1>10. inst'[i].started = Executions(i)' /\ inst'[i].started <= shape.items
  <2>1. inst[i].started \in Nat /\ shape.items \in Nat
    <3>1. inst[i] \in InstanceRow
      BY DEF TreeInv, Types
    <3>2. inst[i].started \in Nat
      BY <3>1 DEF InstanceRow
    <3>3. QED BY <3>2, ShapeType
  <2>2. inst[i].started = Executions(i) /\ inst[i].started <= shape.items
    BY <1>1 DEF ItemsOK
  <2>3. QED BY <1>9, <2>1, <2>2
<1>11. /\ inst[i].state # "terminated" /\ inst'[i].state \notin {"completed", "terminated"}
  BY <1>1 DEF Ended, EndedStates
<1>12. ASSUME NEW j \in DOMAIN job', tok'[job'[j].token].inst = i PROVE job'[j].state # "terminated"
  <2>1. CASE j \in DOMAIN job
    BY <1>1, <1>6, <1>11, <1>12, <2>1 DEF ItemsOK
  <2>2. CASE j \notin DOMAIN job
    BY <2>2
  <2>3. QED BY <2>1, <2>2
<1>13. ASSUME NEW c \in Kids', ParentOf(c)' = i PROVE inst'[c].state # "terminated"
  <2>1. CASE c \in DOMAIN inst
    <3>1. c \in Kids /\ ParentOf(c) = i
      BY <1>5, <1>13, <2>1 DEF Kids
    <3>2. inst[c].state # "terminated"
      BY <1>1, <1>11, <3>1 DEF ItemsOK
    <3>3. QED BY <1>4, <1>11, <2>1, <3>2
  <2>2. CASE c \notin DOMAIN inst
    BY <2>2 DEF Kids, Writes
  <2>3. QED BY <2>1, <2>2
<1>14. ASSUME ~shape.sequential
       PROVE  /\ inst'[i].started = Cardinality({u \in TokensOf(i) : Begun(u)})'
              /\ \A u \in TokensOf(i)' : ItemOK(u)'
  <2>1. tok[t].eik = 1 /\ ~Begun(t)
    BY <1>1, <1>14, RunningItem
  <2> DEFINE X == {u \in TokensOf(i) : Begun(u)}
             Y == {u \in TokensOf(i) : Begun(u)}'
  <2>2. Y = X \union {t} /\ t \notin X
    BY <1>1, <1>2, <1>9, <2>1
  <2>3. IsFiniteSet(X)
    <3>1. X \subseteq TokensOf(i) /\ IsFiniteSet(TokensOf(i))
      BY FiniteTables
    <3> HIDE DEF X
    <3>2. QED BY <3>1, FS_Subset
  <2>4. inst[i].started = Cardinality(X)
    BY <1>1, <1>14 DEF ItemsOK
  <2> HIDE DEF X
  <2>5. Cardinality(Y) = Cardinality(X) + 1
    <3> HIDE DEF Y
    <3>1. QED BY <2>2, <2>3, OneMore
  <2>6. inst'[i].started = Cardinality(Y)
    BY <2>4, <2>5
  <2>7. ItemOK(t)'
    BY <1>9, <2>1 DEF ItemOK
  <2>8. ASSUME NEW u \in TokensOf(i), u # t PROVE ItemOK(u)'
    <3>1. Live(t)
      BY DEF Live
    <3>2. ItemOK(u) /\ tok[u].eik # 2 /\ u \in DOMAIN tok
      BY <1>1, <1>14, <2>8, <3>1, NoSecondRun DEF ItemsOK, TokensOf
    <3>3. tok'[u] = tok[u] /\ (Begun(u)' <=> Begun(u))
      BY <1>3, <1>9, <2>8, <3>2
    <3>4. \A j \in DOMAIN job' : job'[j].token = u => j \in DOMAIN job /\ job'[j] = job[j]
      BY <2>8
    <3>5. QED BY <3>2, <3>3, <3>4 DEF ItemOK, Pending
  <2>9. QED BY <1>2, <2>6, <2>7, <2>8
<1>15. QED BY <1>1, <1>2, <1>10, <1>11, <1>12, <1>13, <1>14 DEF ItemsOK

-----------------------------------------------------------------------------
(* A flush in terms of the tables.                                         *)

\* A flush that unlocks nothing leaves the locks alone.
LEMMA FlushedLocks ==
    ASSUME TreeInv, NEW r, Flush(r, {})
    PROVE  SameLocks
<1>1. DOMAIN lock = DOMAIN inst
  BY DEF TreeInv, Types
<1>2. QED BY <1>1 DEF Flush, SameLocks

\* Held and Busy replace one call.
LEMMA HeldBusy ==
    ASSUME TreeInv, NEW i \in DOMAIN inst, NEW c, Held(Busy(i, c))
    PROVE  Holds(i, c)
<1>1. DOMAIN held = DOMAIN inst
  BY DEF TreeInv, Types
<1>2. DOMAIN Busy(i, c) = DOMAIN inst
  BY <1>1 DEF Busy
<1>3. \A k \in DOMAIN inst : Busy(i, c)[k] = IF k = i THEN c ELSE held[k]
  BY <1>1 DEF Busy
<1>4. QED BY <1>2, <1>3 DEF Held, Holds

\* Held without Busy leaves the calls alone.
LEMMA HeldSame ==
    ASSUME TreeInv, NEW i \in DOMAIN inst, Held(held)
    PROVE  Holds(i, held[i])
<1>1. DOMAIN held = DOMAIN inst
  BY DEF TreeInv, Types
<1>2. QED BY <1>1 DEF Held, Holds

\* The state of instance i and the row of token t are written.
RowWritten(i, s, t, row) == inst' = [inst EXCEPT ![i].state = s] /\ tok' = [tok EXCEPT ![t] = row]

\* The other tables change for token t only.
OnlyOf(t) ==
    /\ job' \in Seq(JobRow) /\ Len(job) <= Len(job')
    /\ \A j \in DOMAIN job : /\ job'[j].token = job[j].token
                             /\ job[j].token # t => job'[j] = job[j]
    /\ \A j \in DOMAIN job' \ DOMAIN job : job'[j].token = t
    /\ sub' \ {t} = sub \ {t} /\ incident' \ {t} = incident \ {t}

\* A step without new instances and tokens.
LEMMA WritesRow ==
    ASSUME TreeInv, NEW t \in DOMAIN tok, NEW i, i = tok[t].inst, ~Ended(i), shape' = shape,
           NEW s \in InstanceState, NEW row \in TokenRow, row.inst = i,
           RowWritten(i, s, t, row), OnlyOf(t)
    PROVE  /\ Writes({i}, {t}) /\ i \in DOMAIN inst
           /\ DOMAIN inst' = DOMAIN inst /\ DOMAIN tok' = DOMAIN tok
           /\ tok'[t] = row /\ inst'[i].state = s /\ inst'[i].started = inst[i].started
           /\ inst'[i].kind = inst[i].kind
           /\ \A u \in DOMAIN tok : u # t => tok'[u] = tok[u]
<1>1. i \in DOMAIN inst /\ inst[i] \in InstanceRow /\ inst \in Seq(InstanceRow) /\ tok \in Seq(TokenRow)
  BY DEF TreeInv, Types, Tree, PlaceOK
<1>2. /\ inst' \in Seq(InstanceRow) /\ DOMAIN inst' = DOMAIN inst /\ Len(inst') = Len(inst)
      /\ inst'[i].state = s /\ inst'[i].started = inst[i].started
      /\ inst'[i].kind = inst[i].kind /\ inst'[i].token = inst[i].token
      /\ inst'[i].target = inst[i].target
      /\ \A k \in DOMAIN inst : k # i => inst'[k] = inst[k]
  <2>1. PICK irow \in InstanceRow : /\ irow = [inst[i] EXCEPT !.state = s]
                                    /\ inst' = [inst EXCEPT ![i] = irow]
    BY <1>1 DEF InstanceRow, RowWritten
  <2>2. /\ irow.state = s /\ irow.started = inst[i].started /\ irow.kind = inst[i].kind
        /\ irow.token = inst[i].token /\ irow.target = inst[i].target
    BY <1>1, <2>1 DEF InstanceRow
  <2>3. inst' \in Seq(InstanceRow) /\ DOMAIN inst' = DOMAIN inst /\ Len(inst') = Len(inst)
    BY <1>1, <2>1
  <2>4. inst'[i] = irow /\ \A k \in DOMAIN inst : k # i => inst'[k] = inst[k]
    BY <1>1, <2>1
  <2>5. QED BY <2>2, <2>3, <2>4
<1>3. /\ tok' \in Seq(TokenRow) /\ DOMAIN tok' = DOMAIN tok /\ Len(tok') = Len(tok)
      /\ tok'[t] = row /\ \A u \in DOMAIN tok : u # t => tok'[u] = tok[u]
  BY <1>1 DEF RowWritten
<1>4. /\ sub' \subseteq sub \union {t} /\ incident' \subseteq incident \union {t}
      /\ \A u \in DOMAIN tok \ {t} : (u \in sub => u \in sub') /\ (u \in incident => u \in incident')
  BY DEF OnlyOf
<1>5. /\ \A k \in DOMAIN inst : /\ inst'[k].kind = inst[k].kind /\ inst'[k].token = inst[k].token
                                /\ inst'[k].target = inst[k].target
                                /\ k \notin {i} => inst'[k] = inst[k]
      /\ \A u \in DOMAIN tok : tok'[u].inst = tok[u].inst /\ (u \notin {t} => tok'[u] = tok[u])
  BY <1>2, <1>3
<1>6. Writes({i}, {t})
  BY <1>1, <1>2, <1>3, <1>4, <1>5 DEF Writes, OnlyOf
<1>7. QED BY <1>1, <1>2, <1>3, <1>6

\* The children of a token that has none, before and after the step.
LEMMA NoKids ==
    ASSUME TreeInv, NEW I, NEW T, Writes(I, T), NEW t \in T,
           \A c \in Kids : inst[c].token = t => Ended(c) \/ Ended(c)',
           \A c \in DOMAIN inst' \ DOMAIN inst : inst'[c].token # t,
           tok'[t].state = "waiting" => ~HasChild(t)'
    PROVE  KidsOf(t)'
<1>1. ASSUME NEW c \in Kids', inst'[c].token = t PROVE Ended(c)'
  <2>1. c \in DOMAIN inst /\ c # 1 /\ c \in Kids
    BY <1>1 DEF Kids
  <2>2. inst'[c].token = inst[c].token
    BY <2>1 DEF Writes
  <2>3. Ended(c) \/ Ended(c)'
    BY <1>1, <2>1, <2>2
  <2>4. QED BY <2>1, <2>3, EndedStays
<1>2. QED BY <1>1 DEF KidsOf

\* A token with a job has no child.
LEMMA JobToken ==
    ASSUME TreeInv, NEW j \in DOMAIN job, Pending(j)
    PROVE  LET t == job[j].token
           IN  /\ t \in DOMAIN tok /\ tok[t].inst \in DOMAIN inst
               /\ tok[t].state = IF job[j].state = "active" THEN "waiting" ELSE "failed"
               /\ tok[t].at \in {"task", "other"} \/ (Multi(tok[t].inst) /\ shape.inner = "task")
               /\ \A k \in DOMAIN job : job[k].token = t /\ Pending(k) => k = j
               /\ \A c \in Kids : inst[c].token = t => Ended(c)
               /\ ~HasChild(t) /\ t \notin sub /\ ~Ended(tok[t].inst) /\ Live(t)
<1> DEFINE t == job[j].token
<1>1. t \in DOMAIN tok /\ PlaceOK(t) /\ WaitsAt(t) /\ KidsOf(t) /\ QuietOK(t) /\ inst[1].kind = "default"
  BY DEF TreeInv, Tree, Waits, Waiting, Quiet
<1> HIDE DEF t
<1>2. job[j].token = t
  BY DEF t
<1>3. /\ tok[t].state = IF job[j].state = "active" THEN "waiting" ELSE "failed"
      /\ tok[t].at \in {"task", "other"} \/ (Multi(tok[t].inst) /\ shape.inner = "task")
      /\ \A k \in DOMAIN job : job[k].token = t /\ Pending(k) => k = j
      /\ t \in sub => tok[t].at = "act" /\ tok[t].inst = 1
  BY <1>1, <1>2 DEF WaitsAt
<1>4. Multi(tok[t].inst) => tok[t].inst # 1
  BY <1>1 DEF Multi
<1>5. ~HasChild(t) /\ t \notin sub
  BY <1>3, <1>4 DEF HasChild
<1>6. ~Ended(tok[t].inst) /\ Live(t)
  BY <1>1, <1>3 DEF QuietOK, Live
<1>7. ASSUME NEW c \in Kids, inst[c].token = t, ~Ended(c) PROVE FALSE
  <2>1. tok[t].at = "act"
    BY <1>1, <1>7 DEF KidsOf
  <2>2. Multi(tok[t].inst) /\ shape.inner = "task"
    BY <1>3, <2>1
  <2>3. inst[c].kind = shape.inner
    BY <1>4, <1>7, <2>2 DEF TreeInv, Tree, KidOK, ParentOf
  <2>4. inst[c] \in InstanceRow
    BY DEF Kids, TreeInv, Types
  <2>5. QED BY <2>2, <2>3, <2>4 DEF InstanceRow
<1>8. QED BY <1>1, <1>3, <1>5, <1>6, <1>7 DEF t, PlaceOK

-----------------------------------------------------------------------------
(* Incidents.                                                              *)

\* The rows of WriteTokenIncident.
LEMMA IncidentRows ==
    ASSUME NEW t
    PROVE  LET r == WriteTokenIncident(t)
           IN  /\ r.inst = [inst EXCEPT ![tok[t].inst].state = "failed"]
               /\ r.tok = [tok EXCEPT ![t].state = "failed"] /\ r.job = job /\ r.sub = sub
               /\ r.inc = incident \union {t} /\ r.go = {}
BY DEF WriteTokenIncident, SetState, Rows

\* A running token fails.
LEMMA IncidentStep ==
    ASSUME TreeInv, NEW t \in DOMAIN tok, NEW i, i = tok[t].inst, tok[t].state = "running",
           Flush(WriteTokenIncident(t), {}), shape' = shape
    PROVE  /\ Writes({i}, {t}) /\ SameLocks /\ go' = go /\ DOMAIN inst' = DOMAIN inst
           /\ PlaceOK(t)' /\ WaitsAt(t)' /\ KidsOf(t)' /\ ~Ended(i)'
           /\ Multi(i) => ItemsOK(i)'
<1> DEFINE row == [tok[t] EXCEPT !.state = "failed"]
<1>1. /\ inst' = [inst EXCEPT ![i].state = "failed"] /\ tok' = [tok EXCEPT ![t] = row]
      /\ job' = job /\ sub' = sub /\ incident' = incident \union {t} /\ go' = go
  BY IncidentRows DEF Flush
<1>2. SameLocks
  BY FlushedLocks
<1>3. tok[t] \in TokenRow /\ row \in TokenRow /\ row.inst = i /\ row.at = tok[t].at
      /\ row.eik = tok[t].eik /\ row.state = "failed"
  <2>1. tok[t] \in TokenRow
    BY DEF TreeInv, Types
  <2>2. QED BY <2>1 DEF TokenRow, TokenState
<1> HIDE DEF row
<1>4. /\ \A j \in DOMAIN job : job[j].token = t => ~Pending(j)
      /\ t \notin sub /\ ~Ended(i) /\ i \in DOMAIN inst
      /\ \A c \in Kids : inst[c].token = t => Ended(c)
  BY RunningToken
<1>5. job \in Seq(JobRow) /\ "failed" \in InstanceState
  BY DEF TreeInv, Types, InstanceState
<1>6. /\ Writes({i}, {t}) /\ DOMAIN inst' = DOMAIN inst /\ DOMAIN tok' = DOMAIN tok
      /\ tok'[t] = row /\ inst'[i].state = "failed" /\ inst'[i].started = inst[i].started
      /\ inst'[i].kind = inst[i].kind
  <2>1. OnlyOf(t)
    BY <1>1, <1>5 DEF OnlyOf
  <2>2. RowWritten(i, "failed", t, row)
    BY <1>1 DEF RowWritten
  <2>3. QED BY <1>1, <1>3, <1>4, <1>5, <2>1, <2>2, WritesRow, ZenonT(40)
<1>7. PlaceOK(t)'
  <2>1. PlaceOK(t)
    BY DEF TreeInv, Tree
  <2>2. QED BY <1>3, <1>6, <2>1 DEF PlaceOK
<1>8. WaitsAt(t)'
  <2>1. \A j \in DOMAIN job' : job'[j].token = t => ~Pending(j)'
    BY <1>1, <1>4 DEF Pending
  <2>2. QED BY <1>1, <1>3, <1>4, <1>6, <2>1 DEF WaitsAt
<1>9. KidsOf(t)'
  <2>1. tok'[t].state # "waiting"
    BY <1>3, <1>6
  <2>2. \A c \in DOMAIN inst' \ DOMAIN inst : inst'[c].token # t
    BY <1>6
  <2>3. QED BY <1>4, <1>6, <2>1, <2>2, NoKids
<1>10. ~Ended(i)'
  BY <1>6 DEF Ended, EndedStates
<1>11. ASSUME Multi(i) PROVE ItemsOK(i)'
  <2>1. SameRows
    BY <1>1, <1>6 DEF SameRows
  <2>2. Live(t)
    BY DEF Live
  <2>3. ASSUME ~shape.sequential PROVE ItemOK(t)'
    <3>1. ItemOK(t)
      BY <1>4, <1>11, <2>3 DEF TreeInv, Items, ItemsOK, TokensOf
    <3>2. TokensOf(i)' = TokensOf(i) /\ (Begun(t)' <=> Begun(t))
      BY <1>6, <2>1, SameCounts
    <3>3. \A u \in TokensOf(i) : u # t => tok'[u] = tok[u]
      BY <1>6 DEF Writes, TokensOf
    <3>4. QED BY <1>1, <1>3, <1>6, <3>1, <3>2, <3>3 DEF ItemOK, Pending
  <2>4. ASSUME NEW j \in DOMAIN job, job[j].token = t PROVE job'[j].state # "terminated"
    BY <1>1, <1>4, <1>11, <2>4 DEF TreeInv, Items, ItemsOK, Ended, EndedStates
  <2>5. i \in {i} /\ t \in {t} /\ \A u \in {t} : tok[u].inst = i => u = t
    OBVIOUS
  <2>6. \A c \in {i} : c # 1 /\ ParentOf(c) = i => inst'[c].state # "terminated"
    BY <1>6
  <2>7. QED BY <1>6, <1>10, <1>11, <2>1, <2>2, <2>3, <2>4, <2>5, <2>6, ItemsSame
<1>12. QED BY <1>1, <1>2, <1>6, <1>7, <1>8, <1>9, <1>10, <1>11

\* A token that fails in the loop gets an incident and the loop goes on (WriteTokenIncident).
LEMMA TokenFailsKeeps ==
    ASSUME TreeInv, NEW i \in DOMAIN inst, TokenFails(i)
    PROVE  TreeInv'
<1> DEFINE L == Tail(held[i].toks)
<1>0. PICK t : t = Head(held[i].toks)
  OBVIOUS
<1>1. /\ t \in DOMAIN tok /\ tok[t].inst = i /\ tok[t].state = "running"
      /\ held[i].toks \in Seq(Nat) /\ held[i] \in Call /\ held[i].pc = "loop" /\ held[i].toks # <<>>
  BY <1>0, HeadOfLoop DEF TokenFails
<1>2. Flush(WriteTokenIncident(t), {}) /\ shape' = shape
      /\ Held(Busy(i, [held[i] EXCEPT !.toks = L, !.failed = TRUE]))
  BY <1>0 DEF TokenFails
<1>3. failures' \in 0..MaxFailures
  BY TreeAssumption DEF TokenFails, TreeInv, Types
<1>4. PICK N \in Seq(Nat) : N = <<>> /\ L = Rest(i, N)
  <2>1. L \in Seq(Nat) /\ <<>> \in Seq(Nat)
    BY <1>1
  <2>2. L = L \o <<>>
    BY <2>1
  <2>3. QED BY <2>1, <2>2 DEF Rest
<1> HIDE DEF L
<1>5. /\ Writes({i}, {t}) /\ SameLocks /\ go' = go /\ DOMAIN inst' = DOMAIN inst
      /\ PlaceOK(t)' /\ WaitsAt(t)' /\ KidsOf(t)' /\ ~Ended(i)' /\ (Multi(i) => ItemsOK(i)')
  BY <1>1, <1>2, IncidentStep
<1>6. Holds(i, [held[i] EXCEPT !.toks = L, !.failed = TRUE])
  BY <1>2, HeldBusy
<1>7. RunsNext(i, t, N)
  BY <1>4 DEF RunsNext
<1>8. PICK G : G = {} /\ go' = go \union G
  <2>1. go' = go \union {}
    BY <1>5
  <2>2. QED BY <2>1, Zenon
<1>9. \A m \in DOMAIN inst' \ DOMAIN inst : Multi(m)' => ItemsOK(m)'
  BY <1>5
<1>10. PICK c : c = [held[i] EXCEPT !.toks = L, !.failed = TRUE]
  OBVIOUS
<1>11. LoopCall(i, L, c) /\ Holds(i, c)
  <2>1. L \in Seq(Nat) /\ held[i].op = "run"
    BY <1>1, HeadOfLoop DEF L
  <2>2. c \in Call /\ c.toks = L /\ c.pc = "loop" /\ c.op = "run" /\ c.dead = held[i].dead
    BY <1>1, <1>10, <2>1 DEF Call
  <2>3. QED BY <1>6, <1>10, <2>2 DEF LoopCall
<1>12. /\ held[i].pc = "loop" /\ held[i].toks # <<>> /\ t = Head(held[i].toks)
       /\ L = <<>> \/ L = Rest(i, N)
  BY <1>0, <1>1, <1>4
<1>13. /\ G \subseteq Goroutine /\ \A g, h \in G : g = h
       /\ \A g \in G : /\ g.inst \in DOMAIN inst' \ DOMAIN inst /\ RunsIn(g.toks, g.inst)'
                       /\ \A k \in DOMAIN g.toks : g.toks[k] \notin DOMAIN tok
  BY <1>8
<1>14. QED BY <1>3, <1>5, <1>7, <1>8, <1>9, <1>11, <1>12, <1>13, LoopKeeps

\* A child that cannot continue its parent keeps its token, with an incident.
LEMMA GivesUp ==
    ASSUME TreeInv, NEW i \in DOMAIN inst, held[i].pc = "parent",
           Flush(WriteTokenIncident(Head(held[i].toks)), {}),
           Held(Busy(i, [held[i] EXCEPT !.pc = "loop", !.toks = <<>>])),
           shape' = shape, failures' \in 0..MaxFailures
    PROVE  TreeInv'
<1> DEFINE c == [held[i] EXCEPT !.pc = "loop", !.toks = <<>>]
<1>0. PICK t : t = Head(held[i].toks)
  OBVIOUS
<1>a. LockOK(i)
  BY DEF TreeInv, Locks
<1>1. /\ t \in DOMAIN tok /\ tok[t].inst = i /\ tok[t].state = "running" /\ lock[i] = i
      /\ held[i].toks \in Seq(Nat) /\ held[i] \in Call /\ held[i].toks # <<>> /\ held[i].op = "run"
      /\ held[i].toks[1] = t /\ 1 \in DOMAIN held[i].toks /\ ~held[i].failed
  BY <1>0, <1>a, HeadOfLoop DEF LockOK
<1>2. c \in Call /\ c.pc = "loop" /\ c.toks = <<>> /\ c.op = "run" /\ c.failed = held[i].failed
  <2>1. <<>> \in Seq(Nat)
    OBVIOUS
  <2>2. QED BY <1>1, <2>1 DEF Call
<1>3. Flush(WriteTokenIncident(t), {}) /\ Held(Busy(i, c))
  BY <1>0
<1> HIDE DEF c
<1>4. /\ Writes({i}, {t}) /\ SameLocks /\ go' = go /\ DOMAIN inst' = DOMAIN inst
      /\ PlaceOK(t)' /\ WaitsAt(t)' /\ KidsOf(t)' /\ ~Ended(i)' /\ (Multi(i) => ItemsOK(i)')
  BY <1>1, <1>3, IncidentStep
<1>5. Holds(i, c)
  BY <1>3, HeldBusy
<1>6. held'[i] = c /\ lock'[i] = i
  BY <1>1, <1>4, <1>5 DEF Holds, SameLocks
<1>7. RunsIn(held[i].toks, i)' /\ LockOK(i)'
  BY <1>1, <1>2, <1>4, <1>6 DEF RunsIn, LockOK
<1>8. PICK G : G = {} /\ go' = go \union G
  BY <1>4
<1>9. lock[i] \in {0, i} /\ \E k \in DOMAIN held[i].toks : held[i].toks[k] = t
  BY <1>1
<1>10. c.pc # "cancel" /\ held[i].pc # "cancel" /\ DOMAIN c.toks = {}
  BY <1>2
<1>11. \A m \in DOMAIN inst' \ DOMAIN inst : Multi(m)' => ItemsOK(m)'
  BY <1>4
<1>12. QED BY <1>1, <1>2, <1>4, <1>5, <1>7, <1>8, <1>9, <1>10, <1>11, OneStepKeeps

\* The child gives up after six attempts to lock its parent (AddParentLockedInstance).
LEMMA ParentIsBusyKeeps ==
    ASSUME TreeInv, NEW i \in DOMAIN inst, ParentIsBusy(i)
    PROVE  TreeInv'
<1>1. failures' \in 0..MaxFailures
  BY DEF ParentIsBusy, TreeInv, Types
<1>2. QED BY <1>1, GivesUp DEF ParentIsBusy

\* The continuation of the parent fails.
LEMMA ContinuationFailsKeeps ==
    ASSUME TreeInv, NEW i \in DOMAIN inst, ContinuationFails(i)
    PROVE  TreeInv'
<1>1. failures' \in 0..MaxFailures
  BY TreeAssumption DEF ContinuationFails, TreeInv, Types
<1>2. QED BY <1>1, GivesUp DEF ContinuationFails

\* A job of token t changes its state.
LEMMA JobWritten ==
    ASSUME TreeInv, NEW j \in DOMAIN job, NEW s \in JobState, NEW t, t = job[j].token,
           job' = [job EXCEPT ![j].state = s],
           sub' \ {t} = sub \ {t}, incident' \ {t} = incident \ {t}
    PROVE  /\ OnlyOf(t) /\ DOMAIN job' = DOMAIN job
           /\ job'[j].state = s /\ job'[j].token = t
           /\ \A k \in DOMAIN job : k # j => job'[k] = job[k]
<1>1. job \in Seq(JobRow) /\ job[j] \in JobRow
  BY DEF TreeInv, Types
<1>2. PICK row \in JobRow : row.token = t /\ row.state = s /\ job' = [job EXCEPT ![j] = row]
  <2>1. [job[j] EXCEPT !.state = s] \in JobRow
    BY <1>1 DEF JobRow
  <2>2. [job[j] EXCEPT !.state = s].token = t /\ [job[j] EXCEPT !.state = s].state = s
    BY <1>1 DEF JobRow
  <2>3. QED BY <2>1, <2>2
<1>3. /\ job' \in Seq(JobRow) /\ DOMAIN job' = DOMAIN job /\ Len(job') = Len(job)
      /\ job'[j] = row /\ \A k \in DOMAIN job : k # j => job'[k] = job[k]
  BY <1>1, <1>2
<1>4. \A k \in DOMAIN job : job'[k].token = job[k].token /\ (job[k].token # t => job'[k] = job[k])
  BY <1>2, <1>3
<1>5. OnlyOf(t)
  BY <1>1, <1>3, <1>4 DEF OnlyOf
<1>6. QED BY <1>2, <1>3, <1>5

\* The list of a set with one member.
LEMMA InOrderOne ==
    ASSUME NEW t \in Nat
    PROVE  InOrder({t}) = <<t>> /\ InOrder({}) = <<>>
<1>1. IsFiniteSet({t}) /\ Cardinality({t}) = 1 /\ IsFiniteSet({}) /\ Cardinality({}) = 0
  BY FS_Singleton, FS_EmptySet
<1>2. InOrder({t}) \in Seq({t}) /\ Len(InOrder({t})) = 1
  BY <1>1, InOrderLists
<1>3. InOrder({t}) = <<t>>
  <2>1. PICK s \in Seq({t}) : s = InOrder({t}) /\ Len(s) = 1
    BY <1>2
  <2>2. s = <<t>>
    BY <2>1
  <2>3. QED BY <2>1, <2>2
<1>4. InOrder({}) \in Seq({}) /\ Len(InOrder({})) = 0
  BY <1>1, InOrderLists
<1>5. InOrder({}) = <<>>
  <2>1. PICK s \in Seq({}) : s = InOrder({}) /\ Len(s) = 0
    BY <1>4
  <2>2. s = <<>>
    BY <2>1
  <2>3. QED BY <2>1, <2>2
<1>6. QED BY <1>3, <1>5

\* A step without new tokens leaves its token running, or none.
LEMMA RunningOne ==
    ASSUME TreeInv, NEW t \in DOMAIN tok, NEW r, DOMAIN r.tok = DOMAIN tok
    PROVE  RunningIn(r, t) = IF r.tok[t].state = "running" THEN <<t>> ELSE <<>>
<1> DEFINE S == {u \in DOMAIN r.tok : /\ r.tok[u].state = "running"
                                      /\ r.tok[u].inst = r.tok[t].inst
                                      /\ u = t \/ u > Len(tok)}
<1>1. \A u \in DOMAIN tok : ~(u > Len(tok)) /\ u \in Nat
  BY DEF TreeInv, Types
<1>2. S = IF r.tok[t].state = "running" THEN {t} ELSE {}
  BY <1>1
<1>3. RunningIn(r, t) = InOrder(S)
  BY DEF RunningIn
<1> HIDE DEF S
<1>4. QED BY <1>1, <1>2, <1>3, InOrderOne

\* JobFailByKey leaves a failed job and an incident.
LEMMA JobFailKeeps ==
    ASSUME TreeInv, NEW j \in DOMAIN job, JobFailByKey(j)
    PROVE  TreeInv'
<1>0. PICK t : t = job[j].token
  OBVIOUS
<1>1. PICK i : i = tok[t].inst
  OBVIOUS
<1> DEFINE row == [tok[t] EXCEPT !.state = "failed"]
           r == [WriteTokenIncident(t) EXCEPT !.job[j].state = "failed"]
<1>2. /\ job[j].state = "active" /\ failures < MaxFailures /\ lock[i] = 0 /\ ~Ended(i)
      /\ Flush(r, {}) /\ Held(held) /\ failures' = failures + 1 /\ shape' = shape
  BY <1>0, <1>1 DEF JobFailByKey, Ended
<1>3. /\ inst' = [inst EXCEPT ![i].state = "failed"] /\ tok' = [tok EXCEPT ![t] = row]
      /\ job' = [job EXCEPT ![j].state = "failed"] /\ sub' = sub
      /\ incident' = incident \union {t} /\ go' = go
  BY <1>1, <1>2 DEF Flush, WriteTokenIncident, SetState, Rows
<1>4. SameLocks
  BY <1>2, FlushedLocks
<1>5. Pending(j)
  BY <1>2 DEF Pending
<1>6. /\ t \in DOMAIN tok /\ i \in DOMAIN inst /\ tok[t].state = "waiting"
      /\ tok[t].at \in {"task", "other"} \/ (Multi(i) /\ shape.inner = "task")
      /\ \A k \in DOMAIN job : job[k].token = t /\ Pending(k) => k = j
      /\ \A c \in Kids : inst[c].token = t => Ended(c)
      /\ ~HasChild(t) /\ t \notin sub /\ Live(t)
  BY <1>0, <1>1, <1>2, <1>5, JobToken
<1>7. tok[t] \in TokenRow /\ row \in TokenRow /\ row.inst = i /\ row.at = tok[t].at
      /\ row.eik = tok[t].eik /\ row.state = "failed"
  <2>1. tok[t] \in TokenRow
    BY <1>6 DEF TreeInv, Types
  <2>2. QED BY <1>1, <2>1 DEF TokenRow, TokenState
<1>8. "failed" \in InstanceState /\ "failed" \in JobState
  BY DEF InstanceState, JobState
<1>9. /\ OnlyOf(t) /\ DOMAIN job' = DOMAIN job /\ job'[j].state = "failed" /\ job'[j].token = t
      /\ \A k \in DOMAIN job : k # j => job'[k] = job[k]
  <2>1. sub' \ {t} = sub \ {t} /\ incident' \ {t} = incident \ {t}
    BY <1>3
  <2>2. job' = [job EXCEPT ![j].state = "failed"]
    BY <1>3
  <2> HIDE DEF row, r
  <2>3. QED BY <1>0, <1>8, <2>1, <2>2, JobWritten
<1> HIDE DEF row, r
<1>10. /\ Writes({i}, {t}) /\ DOMAIN inst' = DOMAIN inst /\ DOMAIN tok' = DOMAIN tok
       /\ tok'[t] = row /\ inst'[i].state = "failed" /\ inst'[i].started = inst[i].started
       /\ inst'[i].kind = inst[i].kind
  <2>1. RowWritten(i, "failed", t, row)
    BY <1>3 DEF RowWritten
  <2>2. ~Ended(i) /\ shape' = shape /\ t \in DOMAIN tok /\ row \in TokenRow /\ row.inst = i
        /\ OnlyOf(t)
    BY <1>2, <1>6, <1>7, <1>9
  <2>3. QED BY <1>1, <1>8, <2>1, <2>2, WritesRow
<1>11. PlaceOK(t)'
  <2>1. PlaceOK(t)
    BY <1>6 DEF TreeInv, Tree
  <2>2. QED BY <1>1, <1>7, <1>10, <2>1 DEF PlaceOK
<1>12. WaitsAt(t)'
  <2>1. \A k \in DOMAIN job' : job'[k].token = t /\ Pending(k)' => k = j
    BY <1>6, <1>9 DEF Pending
  <2>2. Multi(i)' <=> Multi(i)
    BY <1>10 DEF Multi
  <2>3. QED BY <1>2, <1>3, <1>6, <1>7, <1>9, <1>10, <2>1, <2>2 DEF WaitsAt, Multi
<1>13. KidsOf(t)'
  <2>1. tok'[t].state # "waiting"
    BY <1>7, <1>10
  <2>2. \A c \in DOMAIN inst' \ DOMAIN inst : inst'[c].token # t
    BY <1>10
  <2>3. QED BY <1>6, <1>10, <2>1, <2>2, NoKids
<1>14. ~Ended(i)'
  BY <1>10 DEF Ended, EndedStates
<1>15. ASSUME Multi(i) PROVE ItemsOK(i)'
  <2>1. SameRows
    BY <1>9, <1>10 DEF SameRows
  <2>2. ItemsOK(i) /\ inst[i].state # "terminated"
    BY <1>2, <1>6, <1>15 DEF TreeInv, Items, Ended, EndedStates
  <2>3. ASSUME ~shape.sequential PROVE ItemOK(t)'
    <3>1. ItemOK(t)
      BY <1>1, <1>2, <1>6, <2>2, <2>3 DEF ItemsOK, TokensOf
    <3>2. tok[t].eik = 1 /\ Begun(t)
      BY <1>0, <1>5, <1>6, <3>1 DEF ItemOK
    <3>3. Begun(t)'
      BY <1>10, <2>1, <3>2, SameCounts
    <3>4. QED BY <1>7, <1>9, <1>10, <3>2, <3>3 DEF ItemOK, Pending
  <2>4. ASSUME NEW k \in DOMAIN job, job[k].token = t PROVE job'[k].state # "terminated"
    BY <1>1, <1>9, <2>2, <2>4 DEF ItemsOK
  <2>5. i \in {i} /\ t \in {t} /\ \A u \in {t} : tok[u].inst = i => u = t
    OBVIOUS
  <2>6. \A c \in {i} : c # 1 /\ ParentOf(c) = i => inst'[c].state # "terminated"
    BY <1>10
  <2>7. QED BY <1>1, <1>6, <1>10, <1>14, <1>15, <2>1, <2>3, <2>4, <2>5, <2>6, ItemsSame
<1>16. failures' \in 0..MaxFailures
  BY <1>2, TreeAssumption DEF TreeInv, Types
<1>17. Holds(i, held[i])
  BY <1>2, <1>6, HeldSame
<1>18. PICK G : G = {} /\ go' = go \union G
  <2>1. go' = go \union {}
    BY <1>3
  <2>2. QED BY <2>1, Zenon
<1>19. PICK N \in {<<>>, <<t>>} : N = <<>>
  OBVIOUS
<1>20. QED BY <1>2, <1>4, <1>6, <1>10, <1>11, <1>12, <1>13, <1>14, <1>15, <1>16, <1>17, <1>18, <1>19,
              CallKeeps

\* ResolveIncident has the token run again, or wait again for its job.
LEMMA ResolveIncidentKeeps ==
    ASSUME TreeInv, NEW t \in incident, ResolveIncident(t)
    PROVE  TreeInv'
<1>0. t \in DOMAIN tok
  BY DEF TreeInv, Types
<1>1. PICK i : i = tok[t].inst
  OBVIOUS
<1>2. PICK js : js = {j \in DOMAIN job : job[j].token = t /\ Pending(j)}
  OBVIOUS
<1> DEFINE st == IF js = {} THEN "running" ELSE "waiting"
           row == [tok[t] EXCEPT !.state = st]
           Active(j) == [job[j] EXCEPT !.state = "active"]
<1>3. {j \in PendingJobs(i) : job[j].token = t} = js
  BY <1>1, <1>2 DEF PendingJobs, Pending
<1>4. /\ lock[i] = 0 /\ ~Ended(i) /\ Held(held) /\ failures' = failures /\ shape' = shape
      /\ inst' = [inst EXCEPT ![i].state = "active"] /\ tok' = [tok EXCEPT ![t] = row]
      /\ job' = [j \in DOMAIN job |-> IF j \in js THEN Active(j) ELSE job[j]]
      /\ sub' = sub /\ incident' = incident \ {t}
      /\ go' = go \union Run(i, IF js = {} THEN <<t>> ELSE <<>>) /\ SameLocks
  <2> DEFINE r == SetState([Rows EXCEPT
                  !.inc = @ \ {t},
                  !.tok[t].state = st,
                  !.job = [j \in DOMAIN @ |-> IF j \in js THEN [@[j] EXCEPT !.state = "active"] ELSE @[j]]],
                  i, "active")
             q == [r EXCEPT !.go = Run(i, IF js = {} THEN <<t>> ELSE <<>>)]
  <2>1. /\ lock[i] = 0 /\ inst[i].state \notin EndedStates /\ Held(held)
        /\ UNCHANGED <<shape, failures>> /\ Flush(q, {})
    BY <1>1, <1>3 DEF ResolveIncident
  <2>2. /\ q.inst = [inst EXCEPT ![i].state = "active"] /\ q.tok = [tok EXCEPT ![t] = row]
        /\ q.job = [j \in DOMAIN job |-> IF j \in js THEN Active(j) ELSE job[j]]
        /\ q.sub = sub /\ q.inc = incident \ {t}
        /\ q.go = Run(i, IF js = {} THEN <<t>> ELSE <<>>)
    BY DEF SetState, Rows
  <2> HIDE DEF r, q
  <2>3. SameLocks
    BY <2>1, FlushedLocks
  <2>4. QED BY <2>1, <2>2, <2>3 DEF Flush, Ended
<1>5. /\ tok[t] \in TokenRow /\ row \in TokenRow /\ row.inst = i /\ row.at = tok[t].at
      /\ row.eik = tok[t].eik /\ row.state = st
  <2>1. tok[t] \in TokenRow
    BY <1>0 DEF TreeInv, Types
  <2>2. st \in TokenState
    BY DEF TokenState
  <2> HIDE DEF st
  <2>3. QED BY <1>1, <2>1, <2>2 DEF TokenRow
<1>6. WaitsAt(t) /\ KidsOf(t) /\ PlaceOK(t) /\ i \in DOMAIN inst
  BY <1>0, <1>1 DEF TreeInv, Waits, Waiting, Tree, PlaceOK
<1>7. tok[t].state = "failed" /\ t \notin sub /\ Live(t) /\ \A c \in Kids : inst[c].token = t => Ended(c)
  BY <1>6 DEF WaitsAt, KidsOf, Live
<1>8. job \in Seq(JobRow)
  BY DEF TreeInv, Types
<1>9. /\ DOMAIN job' = DOMAIN job /\ Len(job') = Len(job) /\ job' \in Seq(JobRow)
      /\ \A j \in DOMAIN job : job'[j].token = job[j].token
      /\ \A j \in js : job'[j].state = "active"
      /\ \A j \in DOMAIN job \ js : job'[j] = job[j]
  <2>1. ASSUME NEW j \in DOMAIN job
        PROVE  Active(j) \in JobRow /\ Active(j).token = job[j].token /\ Active(j).state = "active"
    <3>1. job[j] \in JobRow
      BY <1>8
    <3>2. QED BY <3>1 DEF JobRow, JobState
  <2>2. js \subseteq DOMAIN job
    BY <1>2
  <2> HIDE DEF Active
  <2>3. job' = [j \in DOMAIN job |-> IF j \in js THEN Active(j) ELSE job[j]]
    BY <1>4
  <2>4. \A j \in DOMAIN job : (j \in js => job'[j] = Active(j)) /\ (j \notin js => job'[j] = job[j])
    BY <2>3
  <2>5. /\ DOMAIN job' = DOMAIN job
        /\ \A j \in DOMAIN job : job'[j].token = job[j].token /\ job'[j] \in JobRow
    BY <1>8, <2>1, <2>3, <2>4
  <2>6. job' \in Seq(JobRow) /\ Len(job') = Len(job)
    <3>1. Len(job) \in Nat /\ DOMAIN job = 1..Len(job)
      BY <1>8
    <3>2. job' \in [1..Len(job) -> JobRow]
      BY <2>3, <2>5, <3>1
    <3>3. QED BY <3>1, <3>2
  <2>7. QED BY <2>1, <2>2, <2>4, <2>5, <2>6
<1>10. OnlyOf(t)
  BY <1>2, <1>4, <1>9, <1>8 DEF OnlyOf
<1> HIDE DEF row, Active
<1>11. /\ Writes({i}, {t}) /\ DOMAIN inst' = DOMAIN inst /\ DOMAIN tok' = DOMAIN tok
       /\ tok'[t] = row /\ inst'[i].state = "active" /\ inst'[i].started = inst[i].started
       /\ inst'[i].kind = inst[i].kind
  <2>1. RowWritten(i, "active", t, row)
    BY <1>4 DEF RowWritten
  <2>2. ~Ended(i) /\ shape' = shape /\ row \in TokenRow /\ row.inst = i /\ "active" \in InstanceState
    BY <1>4, <1>5 DEF InstanceState
  <2>3. QED BY <1>0, <1>1, <1>10, <2>1, <2>2, WritesRow
<1>12. PlaceOK(t)'
  BY <1>1, <1>5, <1>6, <1>11 DEF PlaceOK
<1>13. Multi(i)' <=> Multi(i)
  BY <1>11 DEF Multi
<1>14. js # {} => /\ \E j \in DOMAIN job : js = {j} /\ job[j].token = t /\ Pending(j)
                  /\ ~HasChild(t)
                  /\ tok[t].at \in {"task", "other"} \/ (Multi(i) /\ shape.inner = "task")
  <2>1. SUFFICES ASSUME js # {}
                 PROVE  /\ \E j \in DOMAIN job : js = {j} /\ job[j].token = t /\ Pending(j)
                        /\ ~HasChild(t)
                        /\ tok[t].at \in {"task", "other"} \/ (Multi(i) /\ shape.inner = "task")
    OBVIOUS
  <2>2. PICK j \in DOMAIN job : j \in js /\ job[j].token = t /\ Pending(j)
    BY <1>2, <2>1
  <2>3. /\ ~HasChild(t) /\ \A k \in DOMAIN job : job[k].token = t /\ Pending(k) => k = j
        /\ tok[t].at \in {"task", "other"} \/ (Multi(i) /\ shape.inner = "task")
    BY <1>1, <2>2, JobToken
  <2>4. js = {j}
    BY <1>2, <2>2, <2>3
  <2>5. QED BY <2>2, <2>3, <2>4
<1>15. \A j \in DOMAIN job' : job'[j].token = t /\ Pending(j)' => j \in js
  BY <1>2, <1>9 DEF Pending
<1>16. WaitsAt(t)'
  <2>1. ASSUME NEW j \in DOMAIN job', job'[j].token = t, Pending(j)'
        PROVE  /\ j \in js /\ job'[j].state = "active" /\ tok'[t].state = "waiting"
               /\ tok'[t].at \in {"task", "other"} \/ (Multi(i)' /\ shape'.inner = "task")
               /\ \A k \in DOMAIN job' : job'[k].token = t /\ Pending(k)' => k = j
    <3>1. j \in js
      BY <1>15, <2>1
    <3>2. js # {} /\ \A k \in js : k = j
      BY <1>14, <3>1
    <3>3. job'[j].state = "active"
      BY <1>9, <3>1
    <3>4. tok'[t].state = "waiting" /\ tok'[t].at = tok[t].at /\ shape' = shape
      BY <1>4, <1>5, <1>11, <3>2
    <3>5. tok[t].at \in {"task", "other"} \/ (Multi(i) /\ shape.inner = "task")
      BY <1>14, <3>2
    <3>6. QED BY <1>13, <1>15, <3>1, <3>2, <3>3, <3>4, <3>5
  <2>2. t \notin incident' /\ t \notin sub'
    BY <1>4, <1>7
  <2>3. tok'[t].inst = i
    BY <1>5, <1>11
  <2>4. QED BY <2>1, <2>2, <2>3 DEF WaitsAt, Multi
<1>17. KidsOf(t)'
  <2>1. tok'[t].state = "waiting" => ~HasChild(t)'
    <3>1. tok'[t].state = "waiting" => js # {}
      BY <1>5, <1>11
    <3>2. tok'[t].at = tok[t].at /\ tok'[t].inst = tok[t].inst /\ shape' = shape
      BY <1>1, <1>4, <1>5, <1>11
    <3>3. QED BY <1>14, <3>1, <3>2 DEF HasChild
  <2>2. \A c \in DOMAIN inst' \ DOMAIN inst : inst'[c].token # t
    BY <1>11
  <2>3. QED BY <1>7, <1>11, <2>1, <2>2, NoKids
<1>18. ~Ended(i)'
  BY <1>11 DEF Ended, EndedStates
<1>19. ASSUME Multi(i) PROVE ItemsOK(i)'
  <2>1. SameRows
    BY <1>9, <1>11 DEF SameRows
  <2>2. ItemsOK(i) /\ inst[i].state # "terminated"
    BY <1>4, <1>6, <1>19 DEF TreeInv, Items, Ended, EndedStates
  <2>3. ASSUME ~shape.sequential PROVE ItemOK(t)'
    <3>1. ItemOK(t)
      BY <1>0, <1>1, <1>4, <2>2, <2>3 DEF ItemsOK, TokensOf
    <3>2. TokensOf(i)' = TokensOf(i) /\ (Begun(t)' <=> Begun(t))
      BY <1>11, <2>1, SameCounts
    <3>3. \A u \in TokensOf(i) : u # t => tok'[u] = tok[u]
      BY <1>11 DEF Writes, TokensOf
    <3>4. CASE js = {}
      <4>1. tok'[t].state = "running" /\ tok'[t].eik = tok[t].eik /\ tok'[t].inst = i
        BY <1>5, <1>11, <3>4
      <4>2. ~\E j \in DOMAIN job : job[j].token = t /\ Pending(j)
        BY <1>2, <3>4
      <4>3. \A j \in DOMAIN job' : job'[j].token = t => ~Pending(j)'
        BY <1>15, <3>4
      <4>4. QED BY <1>1, <1>7, <3>1, <3>2, <3>3, <4>1, <4>2, <4>3 DEF ItemOK
    <3>5. CASE js # {}
      <4>1. tok'[t].state = "waiting" /\ tok'[t].eik = tok[t].eik /\ tok'[t].inst = i
        BY <1>5, <1>11, <3>5
      <4>2. PICK j \in DOMAIN job : job[j].token = t /\ Pending(j)
        BY <1>14, <3>5
      <4>3. tok[t].at = "act"
        BY <1>1, <1>6, <1>19 DEF PlaceOK, PlacesOf, Multi
      <4>4. Begun(t) /\ tok[t].eik = 1
        BY <1>14, <3>1, <3>5, <4>2, <4>3 DEF Begun, ItemOK
      <4>5. QED BY <3>2, <4>1, <4>4 DEF ItemOK
    <3>6. QED BY <3>4, <3>5
  <2>4. ASSUME NEW k \in DOMAIN job, job[k].token = t PROVE job'[k].state # "terminated"
    <3>1. job[k].state # "terminated"
      BY <1>1, <2>2, <2>4 DEF ItemsOK
    <3>2. QED BY <1>9, <3>1
  <2>5. i \in {i} /\ t \in {t} /\ \A u \in {t} : tok[u].inst = i => u = t
    OBVIOUS
  <2>6. \A c \in {i} : c # 1 /\ ParentOf(c) = i => inst'[c].state # "terminated"
    BY <1>11
  <2>7. QED BY <1>1, <1>7, <1>11, <1>18, <1>19, <2>1, <2>3, <2>4, <2>5, <2>6, ItemsSame
<1>20. failures' \in 0..MaxFailures
  BY <1>4 DEF TreeInv, Types
<1>21. Holds(i, held[i])
  BY <1>4, <1>6, HeldSame
<1>22. PICK N \in {<<>>, <<t>>} : N = IF js = {} THEN <<t>> ELSE <<>>
  OBVIOUS
<1>23. PICK G : G = Run(i, N) /\ go' = go \union G
  BY <1>4, <1>22
<1>24. N # <<>> => tok'[t].state = "running"
  BY <1>5, <1>11, <1>22
<1>25. G \subseteq Run(i, N) /\ tok[t].state # "running" /\ lock[i] = 0 /\ SameLocks
  BY <1>4, <1>7, <1>23
<1>26. QED BY <1>0, <1>6, <1>11, <1>12, <1>16, <1>17, <1>18, <1>19, <1>20, <1>21, <1>23,
              <1>24, <1>25, CallKeeps

-----------------------------------------------------------------------------
(* Transitions.                                                            *)

RowSet(a, b, c, d, e, f) ==
    [inst |-> a, tok |-> b, job |-> c, sub |-> d, inc |-> e, go |-> f]
MovedRow(row, at) == Moved(row, at, "running")

\* The rows of Move.
LEMMA MoveRows ==
    ASSUME NEW a, NEW b, NEW c, NEW d, NEW e, NEW f, NEW t, NEW at
    PROVE  Move(RowSet(a, b, c, d, e, f), t, at, "running")
           = RowSet(a, [b EXCEPT ![t] = MovedRow(b[t], at)], c, d, e, f)
BY DEF Move, RowSet, MovedRow

\* The rows after boundary subscriptions were cancelled or created.
LEMMA BoundaryRows ==
    ASSUME NEW a, NEW b, NEW c, NEW d, NEW e, NEW f, NEW t, NEW d2
    PROVE  /\ d2 = d \ {t} =>
                 cancelBoundarySubscriptions(RowSet(a, b, c, d, e, f), t) = RowSet(a, b, c, d2, e, f)
           /\ d2 = d \union {t} =>
                 createBoundaryEventSubscriptions(RowSet(a, b, c, d, e, f), t)
                 = RowSet(a, b, c, d2, e, f)
<1> DEFINE r == RowSet(a, b, c, d, e, f)
<1>1. ASSUME NEW x PROVE [r EXCEPT !.sub = x] = RowSet(a, b, c, x, e, f)
  BY DEF RowSet
<1>2. r.sub = d
  BY DEF RowSet
<1> HIDE DEF r
<1>3. cancelBoundarySubscriptions(r, t) = [r EXCEPT !.sub = d \ {t}]
  BY <1>2 DEF cancelBoundarySubscriptions
<1>4. createBoundaryEventSubscriptions(r, t) = [r EXCEPT !.sub = d \union {t}]
  BY <1>2 DEF createBoundaryEventSubscriptions
<1>5. QED BY <1>1, <1>3, <1>4 DEF r

\* The row of a token that moves.
LEMMA MovedType ==
    ASSUME NEW row \in TokenRow, NEW at \in Place
    PROVE  /\ MovedRow(row, at) \in TokenRow /\ MovedRow(row, at).inst = row.inst
           /\ MovedRow(row, at).at = at /\ MovedRow(row, at).eik = row.eik + 1
           /\ MovedRow(row, at).state = "running"
<1>1. /\ row = [inst |-> row.inst, at |-> row.at, eik |-> row.eik, state |-> row.state]
      /\ row.inst \in Nat /\ row.eik \in Nat
  BY DEF TokenRow
<1>2. MovedRow(row, at) = [inst |-> row.inst, at |-> at, eik |-> row.eik + 1, state |-> "running"]
  <2>1. PICK x : x = [row EXCEPT !.at = at]
    OBVIOUS
  <2>2. x = [inst |-> row.inst, at |-> at, eik |-> row.eik, state |-> row.state]
    BY <1>1, <2>1
  <2>3. PICK y : y = [x EXCEPT !.eik = row.eik + 1]
    OBVIOUS
  <2>4. y = [inst |-> row.inst, at |-> at, eik |-> row.eik + 1, state |-> row.state]
    BY <2>2, <2>3
  <2>5. MovedRow(row, at) = [y EXCEPT !.state = "running"]
    BY <2>1, <2>3 DEF MovedRow, Moved
  <2>6. QED BY <2>4, <2>5
<1>3. "running" \in TokenState /\ row.eik + 1 \in Nat
  BY <1>1 DEF TokenState
<1>4. QED BY <1>1, <1>2, <1>3 DEF TokenRow

\* The flow out of a node with one.
LEMMA OutOne ==
    ASSUME NEW at \in {"act", "other", "begin", "task"}
    PROVE  Len(Out[at]) = 1 /\ Out[at][1] = IF at \in {"act", "task"} THEN "end"
                                            ELSE IF at = "other" THEN "terminate" ELSE "task"
BY DEF Out

\* The rows of handleDefaultElementTransition at a node with one outgoing flow.
LEMMA DefaultRows ==
    ASSUME NEW a, NEW b \in Seq(TokenRow), NEW c, NEW d, NEW e, NEW f, NEW t \in DOMAIN b,
           b[t].at \in {"act", "other", "begin", "task"}
    PROVE  handleDefaultElementTransition(RowSet(a, b, c, d, e, f), t)
           = RowSet(a, [b EXCEPT ![t] = MovedRow(b[t], Out[b[t].at][1])], c, d, e, f)
<1> DEFINE r == RowSet(a, b, c, d, e, f)
           flows == Out[b[t].at]
           b2 == [b EXCEPT ![t] = MovedRow(b[t], flows[1])]
           new == [k \in 1..(Len(flows) - 1) |-> NewToken(b[t].inst, flows[k + 1])]
<1>1. Len(flows) = 1 /\ 1..(Len(flows) - 1) = {}
  <2>1. Len(flows) = 1
    BY OutOne
  <2>2. QED BY <2>1
<1>2. new = <<>>
  <2>1. DOMAIN new = {}
    BY <1>1
  <2> HIDE DEF flows
  <2>2. QED BY <1>1
<1>3. b2 \o new = b2
  <2>1. MovedRow(b[t], flows[1]) \in TokenRow
    <3>1. flows[1] \in Place
      BY OutOne DEF Place
    <3>2. b[t] \in TokenRow
      OBVIOUS
    <3> HIDE DEF flows
    <3>3. QED BY <3>1, <3>2, MovedType
  <2> HIDE DEF new, flows
  <2>2. b2 \in Seq(TokenRow)
    BY <2>1
  <2> HIDE DEF b2
  <2>3. QED BY <1>2, <2>2
<1>4. r.tok = b
  BY DEF RowSet
<1>5. handleDefaultElementTransition(r, t)
      = [Move(r, t, flows[1], "running") EXCEPT !.tok = @ \o new]
  BY <1>4 DEF handleDefaultElementTransition
<1>6. Move(r, t, flows[1], "running") = RowSet(a, b2, c, d, e, f)
  BY MoveRows
<1> HIDE DEF r, flows, b2, new
<1>7. handleDefaultElementTransition(r, t) = RowSet(a, b2, c, d, e, f)
  BY <1>3, <1>5, <1>6 DEF RowSet
<1>8. QED BY <1>7 DEF r, b2, flows

\* One item of a multi-instance is done.
LastDone(b, t) ==
    \/ shape.sequential
    \/ Cardinality({u \in DOMAIN b : b[u].inst = b[t].inst /\ b[u].state = "completed"})
       = shape.items - 1
DoneRow(b, t) == IF LastDone(b, t) THEN MovedRow(b[t], "act") ELSE [b[t] EXCEPT !.state = "completed"]

\* The rows of handleMultiInstanceElementTransition.
LEMMA MultiRows ==
    ASSUME NEW a, NEW b, NEW c, NEW d, NEW e, NEW f, NEW t
    PROVE  handleMultiInstanceElementTransition(RowSet(a, b, c, d, e, f), t)
           = RowSet(a, [b EXCEPT ![t] = DoneRow(b, t)], c, d, e, f)
<1> DEFINE r == RowSet(a, b, c, d, e, f)
<1>1. r.tok = b
  BY DEF RowSet
<1>2. CASE LastDone(b, t)
  <2>1. handleMultiInstanceElementTransition(r, t) = Move(r, t, "act", "running")
    BY <1>1, <1>2 DEF handleMultiInstanceElementTransition, LastDone
  <2>2. QED BY <1>2, <2>1, MoveRows DEF DoneRow
<1>3. CASE ~LastDone(b, t)
  <2>1. handleMultiInstanceElementTransition(r, t) = [r EXCEPT !.tok[t].state = "completed"]
    BY <1>1, <1>3 DEF handleMultiInstanceElementTransition, LastDone
  <2>2. QED BY <1>3, <2>1 DEF DoneRow, RowSet
<1>4. QED BY <1>2, <1>3

\* The row of a token after its transition.
NextRow(b, t, multi) == IF multi THEN DoneRow(b, t) ELSE MovedRow(b[t], Out[b[t].at][1])

\* The rows of handleElementTransition.
LEMMA TransitionRows ==
    ASSUME NEW a, NEW b \in Seq(TokenRow), NEW c, NEW d, NEW e, NEW f, NEW t \in DOMAIN b,
           a[b[t].inst].kind # "multi" => b[t].at \in {"act", "other", "begin", "task"}
    PROVE  handleElementTransition(RowSet(a, b, c, d, e, f), t)
           = RowSet(a, [b EXCEPT ![t] = NextRow(b, t, a[b[t].inst].kind = "multi")], c, d, e, f)
<1>1. RowSet(a, b, c, d, e, f).inst = a /\ RowSet(a, b, c, d, e, f).tok = b
  BY DEF RowSet
<1>2. CASE a[b[t].inst].kind = "multi"
  <2>1. handleElementTransition(RowSet(a, b, c, d, e, f), t)
        = handleMultiInstanceElementTransition(RowSet(a, b, c, d, e, f), t)
    BY <1>1, <1>2 DEF handleElementTransition
  <2>2. NextRow(b, t, a[b[t].inst].kind = "multi") = DoneRow(b, t)
    BY <1>2 DEF NextRow
  <2>3. QED BY <2>1, <2>2, MultiRows
<1>3. CASE a[b[t].inst].kind # "multi"
  <2>1. handleElementTransition(RowSet(a, b, c, d, e, f), t)
        = handleDefaultElementTransition(RowSet(a, b, c, d, e, f), t)
    BY <1>1, <1>3 DEF handleElementTransition
  <2>2. NextRow(b, t, a[b[t].inst].kind = "multi") = MovedRow(b[t], Out[b[t].at][1])
    BY <1>3 DEF NextRow
  <2>3. QED BY <1>3, <2>1, <2>2, DefaultRows
<1>4. QED BY <1>2, <1>3

\* Writing the state that an instance has.
LEMMA SameState ==
    ASSUME TreeInv, NEW i \in DOMAIN inst
    PROVE  /\ inst = [inst EXCEPT ![i].state = inst[i].state] /\ inst[i].state \in InstanceState
           /\ inst[i] \in InstanceRow
<1>1. inst \in Seq(InstanceRow) /\ inst[i] \in InstanceRow
  BY DEF TreeInv, Types
<1>2. inst[i] = [inst[i] EXCEPT !.state = inst[i].state] /\ inst[i].state \in InstanceState
  BY <1>1 DEF InstanceRow
<1>3. QED BY <1>1, <1>2

\* The token of the last item of a parallel multi-instance moves on after all others.
LEMMA LastIsLast ==
    ASSUME TreeInv, NEW m \in DOMAIN inst, Multi(m), ~shape.sequential, ~Ended(m),
           NEW t \in TokensOf(m), tok[t].state # "completed",
           NEW b, DOMAIN b = DOMAIN tok, \A u \in DOMAIN tok : b[u].inst = tok[u].inst,
           \A u \in TokensOf(m) : b[u] = tok[u], LastDone(b, t)
    PROVE  \A u \in TokensOf(m) : u # t => tok[u].state = "completed"
<1> DEFINE D == {u \in DOMAIN b : b[u].inst = b[t].inst /\ b[u].state = "completed"}
           O == TokensOf(m) \ {t}
<1>1. tok[t].inst = m /\ t \in DOMAIN tok /\ b[t].inst = m
  BY DEF TokensOf
<1>2. D = {u \in TokensOf(m) : tok[u].state = "completed"}
  BY <1>1 DEF TokensOf
<1>3. D \subseteq O
  BY <1>2
<1>4. Cardinality(D) = shape.items - 1
  BY DEF LastDone
<1>5. Cardinality(TokensOf(m)) = shape.items /\ IsFiniteSet(TokensOf(m))
  BY FiniteTables DEF TreeInv, Items, ItemsOK
<1>6. IsFiniteSet(O) /\ Cardinality(O) = shape.items - 1
  BY <1>5, FS_RemoveElement
<1> HIDE DEF D, O
<1>7. D = O
  BY <1>3, <1>4, <1>6, FS_Subset
<1>8. QED BY <1>2, <1>7 DEF O

\* The row of a token whose item is done.
LEMMA DoneType ==
    ASSUME NEW b, NEW t, b[t] \in TokenRow
    PROVE  /\ DoneRow(b, t) \in TokenRow /\ DoneRow(b, t).inst = b[t].inst
           /\ DoneRow(b, t).state \in {"running", "completed"}
           /\ LastDone(b, t) => DoneRow(b, t).at = "act" /\ DoneRow(b, t).eik = b[t].eik + 1
                                /\ DoneRow(b, t).state = "running"
           /\ ~LastDone(b, t) => DoneRow(b, t).at = b[t].at /\ DoneRow(b, t).eik = b[t].eik
                                 /\ DoneRow(b, t).state = "completed"
<1>1. CASE LastDone(b, t)
  <2>1. DoneRow(b, t) = MovedRow(b[t], "act") /\ "act" \in Place
    BY <1>1 DEF DoneRow, Place
  <2>2. QED BY <1>1, <2>1, MovedType
<1>2. CASE ~LastDone(b, t)
  <2>1. DoneRow(b, t) = [b[t] EXCEPT !.state = "completed"]
    BY <1>2 DEF DoneRow
  <2>2. QED BY <1>2, <2>1 DEF TokenRow, TokenState
<1>3. QED BY <1>1, <1>2

\* The row after a transition.
LEMMA NextType ==
    ASSUME NEW b, NEW t, b[t] \in TokenRow, NEW multi \in BOOLEAN,
           ~multi => b[t].at \in {"act", "other", "begin", "task"}
    PROVE  /\ NextRow(b, t, multi) \in TokenRow /\ NextRow(b, t, multi).inst = b[t].inst
           /\ NextRow(b, t, multi).state \in {"running", "completed"}
           /\ ~multi => /\ NextRow(b, t, multi).at = Out[b[t].at][1]
                        /\ NextRow(b, t, multi).state = "running"
           /\ multi => NextRow(b, t, multi) = DoneRow(b, t)
<1>1. CASE multi
  BY <1>1, DoneType DEF NextRow
<1>2. CASE ~multi
  <2>1. NextRow(b, t, multi) = MovedRow(b[t], Out[b[t].at][1])
    BY <1>2 DEF NextRow
  <2>2. Out[b[t].at][1] \in Place
    BY <1>2, OutOne DEF Place
  <2>3. QED BY <1>2, <2>1, <2>2, MovedType
<1>3. QED BY <1>1, <1>2

\* JobCompleteByKey moves the token of the job and runs it.
LEMMA JobCompleteKeeps ==
    ASSUME TreeInv, NEW j \in DOMAIN job, JobCompleteByKey(j)
    PROVE  TreeInv'
<1>0. PICK t : t = job[j].token
  OBVIOUS
<1>1. PICK i : i = tok[t].inst
  OBVIOUS
<1> DEFINE jobs == [job EXCEPT ![j].state = "completed"]
           row == NextRow(tok, t, Multi(i))
           r == handleElementTransition(
                    cancelBoundarySubscriptions([Rows EXCEPT !.job[j].state = "completed"], t), t)
           q == [r EXCEPT !.go = Run(i, RunningIn(r, t))]
           toks2 == [tok EXCEPT ![t] = row]
<1>2. /\ job[j].state = "active" /\ lock[i] = 0 /\ ~Ended(i)
      /\ Flush(q, {}) /\ Held(held) /\ failures' = failures /\ shape' = shape
  BY <1>0, <1>1 DEF JobCompleteByKey, Ended
<1>3. Pending(j)
  BY <1>2 DEF Pending
<1>4. /\ t \in DOMAIN tok /\ i \in DOMAIN inst /\ tok[t].state = "waiting"
      /\ tok[t].at \in {"task", "other"} \/ (Multi(i) /\ shape.inner = "task")
      /\ \A k \in DOMAIN job : job[k].token = t /\ Pending(k) => k = j
      /\ \A c \in Kids : inst[c].token = t => Ended(c)
      /\ t \notin sub /\ Live(t)
  BY <1>0, <1>1, <1>2, <1>3, JobToken
<1>5. tok \in Seq(TokenRow) /\ tok[t] \in TokenRow /\ PlaceOK(t) /\ WaitsAt(t)
  BY <1>4 DEF TreeInv, Types, Tree, Waits
<1>6. /\ row \in TokenRow /\ row.inst = i /\ row.state \in {"running", "completed"}
      /\ ~Multi(i) => row.at = Out[tok[t].at][1] /\ row.state = "running"
      /\ Multi(i) => row = DoneRow(tok, t)
  <2>1. ~Multi(i) => tok[t].at \in {"act", "other", "begin", "task"}
    BY <1>4
  <2>2. Multi(i) \in BOOLEAN
    BY DEF Multi
  <2>3. PICK multi \in BOOLEAN : multi = Multi(i)
    BY <2>2
  <2>4. QED BY <1>1, <1>5, <2>1, <2>3, NextType
<1>7. r = RowSet(inst, toks2, jobs, sub \ {t}, incident, {})
  <2>1. cancelBoundarySubscriptions([Rows EXCEPT !.job[j].state = "completed"], t)
        = RowSet(inst, tok, jobs, sub \ {t}, incident, {})
    <3>1. [Rows EXCEPT !.job[j].state = "completed"] = RowSet(inst, tok, jobs, sub, incident, {})
      BY DEF Rows, RowSet
    <3>2. PICK d2 : d2 = sub \ {t}
      OBVIOUS
    <3> HIDE DEF jobs
    <3>3. cancelBoundarySubscriptions(RowSet(inst, tok, jobs, sub, incident, {}), t)
          = RowSet(inst, tok, jobs, d2, incident, {})
      BY <3>2, BoundaryRows
    <3>4. QED BY <3>1, <3>2, <3>3
  <2>2. inst[tok[t].inst].kind # "multi" => tok[t].at \in {"act", "other", "begin", "task"}
    BY <1>1, <1>4 DEF Multi
  <2>3. row = NextRow(tok, t, inst[tok[t].inst].kind = "multi")
    BY <1>1 DEF Multi
  <2> HIDE DEF row, jobs
  <2>4. QED BY <1>4, <1>5, <2>1, <2>2, <2>3, TransitionRows
<1> HIDE DEF row, r
<1>8. DOMAIN r.tok = DOMAIN tok /\ r.tok[t] = row
  BY <1>4, <1>5, <1>7 DEF RowSet
<1>9. PICK N \in {<<>>, <<t>>} : RunningIn(r, t) = N /\ (N # <<>> => row.state = "running")
  BY <1>4, <1>8, RunningOne
<1>10. /\ inst' = inst /\ tok' = [tok EXCEPT ![t] = row] /\ job' = jobs /\ sub' = sub \ {t}
       /\ incident' = incident /\ go' = go \union Run(i, N)
  BY <1>2, <1>7, <1>9 DEF Flush, RowSet
<1>11. SameLocks
  BY <1>2, FlushedLocks
<1>12. /\ OnlyOf(t) /\ DOMAIN job' = DOMAIN job /\ job'[j].state = "completed" /\ job'[j].token = t
       /\ \A k \in DOMAIN job : k # j => job'[k] = job[k]
  <2>1. sub' \ {t} = sub \ {t} /\ incident' \ {t} = incident \ {t} /\ "completed" \in JobState
    BY <1>10 DEF JobState
  <2>2. job' = [job EXCEPT ![j].state = "completed"]
    BY <1>10
  <2> HIDE DEF q, jobs
  <2>3. QED BY <1>0, <2>1, <2>2, JobWritten
<1> HIDE DEF q, jobs, toks2
<1>13. /\ Writes({i}, {t}) /\ DOMAIN inst' = DOMAIN inst /\ DOMAIN tok' = DOMAIN tok
       /\ tok'[t] = row /\ inst'[i] = inst[i]
  <2>1. PICK s \in InstanceState : s = inst[i].state /\ inst = [inst EXCEPT ![i].state = s]
    BY <1>4, SameState
  <2>2. RowWritten(i, s, t, row)
    BY <1>10, <2>1 DEF RowWritten
  <2>3. ~Ended(i) /\ shape' = shape /\ t \in DOMAIN tok /\ row \in TokenRow /\ row.inst = i
        /\ OnlyOf(t)
    BY <1>2, <1>4, <1>6, <1>12
  <2>4. /\ Writes({i}, {t}) /\ DOMAIN inst' = DOMAIN inst /\ DOMAIN tok' = DOMAIN tok
        /\ tok'[t] = row
    BY <1>1, <2>2, <2>3, WritesRow
  <2>5. QED BY <1>10, <2>4
<1>14. PlaceOK(t)'
  <2>1. row.at \in PlacesOf(inst[i].kind)
    <3>1. CASE Multi(i)
      <4>1. tok[t].at = "act"
        BY <1>1, <1>5, <3>1 DEF PlaceOK, PlacesOf, Multi
      <4>2. row.at = "act"
        BY <1>5, <1>6, <3>1, <4>1, DoneType
      <4>3. QED BY <3>1, <4>2 DEF Multi, PlacesOf
    <3>2. CASE ~Multi(i)
      <4>1. tok[t].at \in {"task", "other"}
        BY <1>4, <3>2
      <4>2. row.at = IF tok[t].at = "task" THEN "end" ELSE "terminate"
        BY <1>6, <3>2, <4>1, OutOne
      <4>3. QED BY <1>1, <1>5, <3>2, <4>1, <4>2 DEF PlaceOK, PlacesOf, Multi
    <3>3. QED BY <3>1, <3>2
  <2>2. QED BY <1>4, <1>6, <1>13, <2>1 DEF PlaceOK
<1>15. \A k \in DOMAIN job' : job'[k].token = t => ~Pending(k)'
  BY <1>4, <1>12 DEF Pending
<1>16. WaitsAt(t)'
  <2>1. t \notin incident' /\ t \notin sub'
    BY <1>4, <1>5, <1>10 DEF WaitsAt
  <2>2. QED BY <1>15, <2>1 DEF WaitsAt
<1>17. KidsOf(t)'
  <2>1. tok'[t].state # "waiting"
    BY <1>6, <1>13
  <2>2. \A c \in DOMAIN inst' \ DOMAIN inst : inst'[c].token # t
    BY <1>13
  <2>3. QED BY <1>4, <1>13, <2>1, <2>2, NoKids
<1>18. ~Ended(i)'
  BY <1>2, <1>13 DEF Ended
<1>19. ASSUME Multi(i) PROVE ItemsOK(i)'
  <2>1. SameRows
    BY <1>12, <1>13 DEF SameRows
  <2>2. ItemsOK(i) /\ inst[i].state # "terminated"
    BY <1>2, <1>4, <1>19 DEF TreeInv, Items, Ended, EndedStates
  <2>3. ASSUME ~shape.sequential PROVE ItemOK(t)'
    <3>1. ItemOK(t) /\ t \in TokensOf(i)
      BY <1>1, <1>2, <1>4, <2>2, <2>3 DEF ItemsOK, TokensOf
    <3>2. tok[t].eik = 1 /\ Begun(t)
      BY <1>0, <1>3, <1>4, <3>1 DEF ItemOK
    <3>3. TokensOf(i)' = TokensOf(i) /\ Begun(t)'
      BY <1>13, <2>1, <3>2, SameCounts
    <3>4. \A u \in TokensOf(i) : u # t => tok'[u] = tok[u]
      BY <1>13 DEF Writes, TokensOf
    <3>5. row = DoneRow(tok, t)
      BY <1>6, <1>19
    <3>6. CASE LastDone(tok, t)
      <4>1. \A u \in TokensOf(i) : u # t => tok[u].state = "completed"
        BY <1>2, <1>4, <1>19, <2>3, <3>1, <3>6, LastIsLast
      <4>2. row.eik = 2 /\ row.state = "running"
        BY <1>5, <3>2, <3>5, <3>6, DoneType
      <4>3. QED BY <1>6, <1>13, <1>15, <3>3, <3>4, <4>1, <4>2 DEF ItemOK
    <3>7. CASE ~LastDone(tok, t)
      <4>1. row.eik = 1 /\ row.state = "completed"
        BY <1>5, <3>2, <3>5, <3>7, DoneType
      <4>2. QED BY <1>13, <1>15, <3>3, <4>1 DEF ItemOK
    <3>8. QED BY <3>6, <3>7
  <2>4. ASSUME NEW k \in DOMAIN job, job[k].token = t PROVE job'[k].state # "terminated"
    BY <1>1, <1>12, <2>2, <2>4 DEF ItemsOK
  <2>5. i \in {i} /\ t \in {t} /\ \A u \in {t} : tok[u].inst = i => u = t
    OBVIOUS
  <2>6. \A c \in {i} : c # 1 /\ ParentOf(c) = i => inst'[c].state # "terminated"
    BY <1>13, <2>2
  <2>7. QED BY <1>1, <1>4, <1>13, <1>18, <1>19, <2>1, <2>3, <2>4, <2>5, <2>6, ItemsSame
<1>20. failures' \in 0..MaxFailures
  BY <1>2 DEF TreeInv, Types
<1>21. Holds(i, held[i])
  BY <1>2, <1>4, HeldSame
<1>22. PICK G : G = Run(i, N) /\ go' = go \union G
  BY <1>10
<1>23. N # <<>> => tok'[t].state = "running"
  BY <1>9, <1>13
<1>24. G \subseteq Run(i, N) /\ tok[t].state # "running" /\ lock[i] = 0
  BY <1>2, <1>4, <1>22
<1>25. QED BY <1>4, <1>11, <1>13, <1>14, <1>16, <1>17, <1>18, <1>19, <1>20, <1>21, <1>22,
              <1>23, <1>24, CallKeeps

-----------------------------------------------------------------------------
(* Steps that leave the rows alone.                                        *)

SameTables == UNCHANGED <<shape, inst, tok, job, sub, incident>>

\* What is said about the rows stays when they do.
LEMMA TablesStay ==
    ASSUME TreeInv, SameTables
    PROVE  /\ Tree' /\ Waits' /\ Waiting' /\ Quiet' /\ Items'
           /\ \A i : Ended(i)' <=> Ended(i)
           /\ \A L, i : RunsIn(L, i) => RunsIn(L, i)'
<1>1. /\ shape' = shape /\ inst' = inst /\ tok' = tok /\ job' = job /\ sub' = sub
      /\ incident' = incident
  BY DEF SameTables
<1>2. Tree'
  BY <1>1 DEF TreeInv, Tree, Kids, KidOK, PlaceOK, ParentOf
<1>3. Waits'
  BY <1>1 DEF TreeInv, Waits, WaitsAt, Pending, Multi
<1>4. Waiting'
  BY <1>1 DEF TreeInv, Waiting, KidsOf, Kids, Ended, HasChild
<1>5. Quiet'
  BY <1>1 DEF TreeInv, Quiet, QuietOK, Ended, Live
<1>6. Items'
  <2>1. Writes({}, {})
    BY <1>1 DEF Writes, TreeInv, Types
  <2>2. /\ \A c \in {} : c # 1 /\ inst'[c].state = "terminated" => ParentOf(c) \in {}
        /\ \A m \in {} : Multi(m) => ItemsOK(m)'
        /\ \A m \in DOMAIN inst' \ DOMAIN inst : Multi(m)' => ItemsOK(m)'
    BY <1>1
  <2>3. QED BY <2>1, <2>2, KeepItems
<1>7. QED BY <1>1, <1>2, <1>3, <1>4, <1>5, <1>6 DEF Ended, RunsIn

\* The lists of tokens stay, or are done with.
LEMMA CarriedStays ==
    ASSUME TreeInv, SameTables, go' = go,
           \A i \in DOMAIN inst : held'[i].toks = held[i].toks \/ held'[i].toks = <<>>
    PROVE  Carried'
<1>1. /\ inst' = inst /\ tok' = tok /\ \A i : Ended(i)' <=> Ended(i)
  BY TablesStay DEF SameTables
<1>2. \A L, i : RunsIn(L, i) => RunsIn(L, i)'
  BY TablesStay
<1>3. \A g \in go' : g.inst \in DOMAIN inst' /\ (~Ended(g.inst)' => RunsIn(g.toks, g.inst)')
  BY <1>1, <1>2 DEF TreeInv, Carried
<1>4. ASSUME NEW i \in DOMAIN inst' PROVE RunsIn(held[i].toks, i)'
  <2>1. RunsIn(held[i].toks, i)
    BY <1>1 DEF TreeInv, Carried
  <2>2. CASE held'[i].toks = <<>>
    BY <2>2 DEF RunsIn
  <2>3. CASE held'[i].toks = held[i].toks
    BY <1>1, <2>1, <2>3 DEF RunsIn
  <2>4. QED BY <1>1, <2>2, <2>3
<1>5. \A g, h \in go' : g # h /\ g.inst = h.inst /\ ~Ended(g.inst)' => Apart(g.toks, h.toks)
  BY <1>1 DEF TreeInv, Carried
<1>6. ASSUME NEW g \in go', ~Ended(g.inst)' PROVE Apart(g.toks, held'[g.inst].toks)
  <2>1. g.inst \in DOMAIN inst /\ Apart(g.toks, held[g.inst].toks)
    BY <1>1, <1>6 DEF TreeInv, Carried
  <2>2. CASE held'[g.inst].toks = <<>>
    BY <2>2 DEF Apart
  <2>3. CASE held'[g.inst].toks = held[g.inst].toks
    BY <2>1, <2>3
  <2>4. QED BY <2>1, <2>2, <2>3
<1>7. QED BY <1>3, <1>4, <1>5, <1>6 DEF Carried, Apart

\* The types stay when the rows do.
LEMMA TypesStay ==
    ASSUME TreeInv, SameTables, UNCHANGED <<go, failures>>,
           lock' \in [DOMAIN inst -> Nat], held' \in [DOMAIN inst -> Call]
    PROVE  Types'
BY DEF TreeInv, Types, SameTables

\* A loop without tokens gives its lock back.
LEMMA RunEndsKeeps ==
    ASSUME TreeInv, NEW i \in DOMAIN inst, RunEnds(i)
    PROVE  TreeInv'
<1>1. /\ held[i].pc = "loop" /\ held[i].toks = <<>> /\ lock' = [lock EXCEPT ![i] = 0]
      /\ held' = [held EXCEPT ![i] = NoCall] /\ go' = go /\ failures' = failures /\ SameTables
  BY DEF RunEnds, Busy, SameTables, rows
<1>2. lock \in [DOMAIN inst -> Nat] /\ held \in [DOMAIN inst -> Call] /\ NoCall \in Call
      /\ inst \in Seq(InstanceRow)
  BY DEF TreeInv, Types, NoCall, Call
<1>3. /\ held'[i] = NoCall /\ lock'[i] = 0 /\ i # 0
      /\ \A k \in DOMAIN inst : k # i => held'[k] = held[k] /\ lock'[k] = lock[k]
  BY <1>1, <1>2
<1>4. Types'
  BY <1>1, <1>2, TypesStay
<1>5. Carried'
  <2>1. \A k \in DOMAIN inst : held'[k].toks = held[k].toks \/ held'[k].toks = <<>>
    BY <1>3 DEF NoCall
  <2>2. QED BY <1>1, <2>1, CarriedStays
<1>6. Tree' /\ Waits' /\ Waiting' /\ Quiet' /\ Items' /\ \A k : Ended(k)' <=> Ended(k)
  BY <1>1, TablesStay
<1>7. inst' = inst /\ tok' = tok /\ shape' = shape /\ sub' = sub
  BY <1>1 DEF SameTables
<1>8. held'[1].pc = "cancel" => i # 1 /\ held'[1] = held[1]
  BY <1>3 DEF NoCall, TreeInv, Tree
<1>9. held[1].pc = "cancel" => i # 1 /\ lock[i] = i /\ held'[1] = held[1] /\ lock'[1] = lock[1]
  BY <1>1, <1>3 DEF TreeInv, Tree, Locks, LockOK
<1>10. ASSUME NEW k \in DOMAIN inst' PROVE LockOK(k)'
  <2>1. CASE k = i
    BY <1>3, <1>6, <2>1 DEF LockOK, NoCall
  <2>2. CASE k # i
    <3>1. LockOK(k) /\ held'[k] = held[k] /\ lock'[k] = lock[k]
      BY <1>3, <1>7, <2>2 DEF TreeInv, Locks
    <3>2. Completes(k)' <=> Completes(k)
      BY <1>7, <3>1 DEF Completes, Multi, Live
    <3>3. QED BY <1>6, <1>7, <1>9, <3>1, <3>2 DEF LockOK
  <2>3. QED BY <2>1, <2>2
<1>11. Locks'
  BY <1>10 DEF Locks
<1>12. Cancels'
  <2>1. CASE held'[1].pc = "cancel"
    <3>1. held'[1] = held[1] /\ held[1].pc = "cancel" /\ i # 1 /\ lock[i] = i
      BY <1>8, <1>9, <2>1
    <3>2. \A c \in held[1].dead : lock'[c] = 1 /\ ~Ended(c)' /\ c \in DOMAIN inst
      BY <1>3, <1>6, <3>1 DEF TreeInv, Cancels
    <3>3. QED BY <1>6, <1>7, <3>1, <3>2 DEF TreeInv, Cancels, Doomed, InTodo, Reached, Kids, ParentOf
  <2>2. CASE held'[1].pc # "cancel"
    BY <2>2 DEF Cancels
  <2>3. QED BY <2>1, <2>2
<1>13. QED BY <1>4, <1>5, <1>6, <1>11, <1>12 DEF TreeInv

\* The instances are the same, and those that have ended.
SameTree ==
    /\ tok' = tok /\ sub' = sub /\ shape' = shape /\ DOMAIN inst' = DOMAIN inst
    /\ \A k \in DOMAIN inst : /\ inst'[k].token = inst[k].token /\ inst'[k].kind = inst[k].kind
                              /\ inst'[k].started = inst[k].started
                              /\ (Ended(k)' <=> Ended(k))

\* What a call that cancels knows stays when the tree does.
LEMMA CancelsStay ==
    ASSUME TreeInv, SameTree, held'[1].pc = "cancel" => held'[1] = held[1],
           \A k \in DOMAIN inst : lock[k] = 1 /\ held[1].pc = "cancel" => lock'[k] = 1
    PROVE  Cancels'
<1>1. CASE held'[1].pc = "cancel"
  <2>1. held'[1] = held[1] /\ held[1].pc = "cancel"
    BY <1>1
  <2>2. /\ tok' = tok /\ sub' = sub /\ DOMAIN inst' = DOMAIN inst /\ Kids' = Kids
        /\ \A k \in DOMAIN inst : inst'[k].token = inst[k].token /\ (Ended(k)' <=> Ended(k))
    BY DEF SameTree, Kids
  <2>3. \A c \in held[1].dead : lock'[c] = 1 /\ ~Ended(c)' /\ c \in DOMAIN inst
    BY <2>1, <2>2 DEF TreeInv, Cancels
  <2>4. \A c \in Kids : ParentOf(c)' = ParentOf(c)
    BY <2>2 DEF ParentOf, Kids
  <2>5. \A c \in Kids : Reached(inst[c].token)' <=> Reached(inst[c].token)
    BY <2>1, <2>2 DEF Reached, Kids
  <2>6. \A c : Doomed(c)' <=> Doomed(c)
    BY <2>1 DEF Doomed, InTodo
  <2>7. \A c \in Kids : Ended(c)' <=> Ended(c)
    BY <2>2 DEF Kids
  <2>8. QED BY <2>1, <2>2, <2>3, <2>4, <2>5, <2>6, <2>7 DEF TreeInv, Cancels
<1>2. CASE held'[1].pc # "cancel"
  BY <1>2 DEF Cancels
<1>3. QED BY <1>1, <1>2

\* A lock and a call that stay still match when the tree stays.
LEMMA LockStays ==
    ASSUME TreeInv, SameTree, NEW k \in DOMAIN inst, held'[k] = held[k], lock'[k] = lock[k],
           held[1].pc = "cancel" => held'[1].pc = "cancel"
    PROVE  LockOK(k)'
<1>1. LockOK(k) /\ tok' = tok /\ shape' = shape /\ inst'[k].kind = inst[k].kind
      /\ inst'[k].started = inst[k].started /\ (Ended(k)' <=> Ended(k))
  BY DEF TreeInv, Locks, SameTree
<1>2. Completes(k)' <=> Completes(k)
  BY <1>1 DEF Completes, Multi, Live
<1>3. QED BY <1>1, <1>2 DEF LockOK

\* RunProcessInstance takes its lock, and leaves an ended instance alone.
LEMMA RunBeginsKeeps ==
    ASSUME TreeInv, RunBegins
    PROVE  TreeInv'
<1>1. PICK g \in go : /\ lock[g.inst] = 0 /\ go' = go \ {g}
                      /\ IF inst[g.inst].state \in EndedStates
                         THEN UNCHANGED <<inst, lock, held>>
                         ELSE /\ inst' = [inst EXCEPT ![g.inst].state = "active"]
                              /\ lock' = [lock EXCEPT ![g.inst] = g.inst]
                              /\ held' = Busy(g.inst, [NoCall EXCEPT !.op = "run", !.pc = "loop",
                                                                     !.toks = g.toks])
                      /\ UNCHANGED <<shape, tok, job, sub, incident, failures>>
  BY DEF RunBegins
<1>2. PICK i \in DOMAIN inst : i = g.inst
  BY DEF TreeInv, Carried
<1>3. /\ lock \in [DOMAIN inst -> Nat] /\ held \in [DOMAIN inst -> Call] /\ g.toks \in Seq(Nat)
      /\ inst \in Seq(InstanceRow) /\ go \subseteq Goroutine /\ i # 0
  BY DEF TreeInv, Types, Goroutine
<1>4. CASE Ended(i)
  <2>1. SameTables /\ lock' = lock /\ held' = held /\ failures' = failures
    BY <1>1, <1>2, <1>4 DEF SameTables, Ended
  <2>2. Types'
    BY <1>1, <2>1 DEF TreeInv, Types, SameTables
  <2>3. Tree' /\ Waits' /\ Waiting' /\ Quiet' /\ Items' /\ \A k : Ended(k)' <=> Ended(k)
    BY <2>1, TablesStay
  <2>4. SameTree
    BY <2>1, <2>3 DEF SameTree, SameTables
  <2>5. Cancels'
    BY <2>1, <2>4, CancelsStay
  <2>6. Locks'
    BY <2>1, <2>4, LockStays DEF Locks, SameTree
  <2>7. Carried'
    <3>1. \A L, k : RunsIn(L, k) => RunsIn(L, k)'
      BY <2>1, TablesStay
    <3>2. go' \subseteq go /\ inst' = inst
      BY <1>1, <2>1 DEF SameTables
    <3>3. \A h \in go' : h.inst \in DOMAIN inst' /\ (~Ended(h.inst)' => RunsIn(h.toks, h.inst)')
      BY <2>3, <3>1, <3>2 DEF TreeInv, Carried
    <3>4. \A k \in DOMAIN inst' : RunsIn(held[k].toks, k)'
      BY <2>1, <3>1, <3>2 DEF TreeInv, Carried, RunsIn, SameTables
    <3>5. /\ \A h, l \in go' : h # l /\ h.inst = l.inst /\ ~Ended(h.inst)' => Apart(h.toks, l.toks)
          /\ \A h \in go' : ~Ended(h.inst)' => Apart(h.toks, held'[h.inst].toks)
      BY <2>1, <2>3, <3>2 DEF TreeInv, Carried
    <3>6. QED BY <3>3, <3>4, <3>5 DEF Carried, Apart
  <2>8. QED BY <2>2, <2>3, <2>5, <2>6, <2>7 DEF TreeInv
<1>5. CASE ~Ended(i)
  <2> DEFINE c == [NoCall EXCEPT !.op = "run", !.pc = "loop", !.toks = g.toks]
  <2>1. /\ inst' = [inst EXCEPT ![i].state = "active"] /\ lock' = [lock EXCEPT ![i] = i]
        /\ held' = [held EXCEPT ![i] = c] /\ tok' = tok /\ job' = job /\ sub' = sub
        /\ incident' = incident /\ shape' = shape /\ failures' = failures
    BY <1>1, <1>2, <1>5 DEF Ended, Busy
  <2>2. c = [op |-> "run", pc |-> "loop", toks |-> g.toks, todo |-> <<>>, dead |-> {},
             token |-> 0, failed |-> FALSE]
    <3>1. PICK x : x = [NoCall EXCEPT !.op = "run"]
      OBVIOUS
    <3>2. x = [op |-> "run", pc |-> "none", toks |-> <<>>, todo |-> <<>>, dead |-> {},
               token |-> 0, failed |-> FALSE]
      BY <3>1 DEF NoCall
    <3>3. PICK y : y = [x EXCEPT !.pc = "loop"]
      OBVIOUS
    <3>4. y = [op |-> "run", pc |-> "loop", toks |-> <<>>, todo |-> <<>>, dead |-> {},
               token |-> 0, failed |-> FALSE]
      BY <3>2, <3>3
    <3>5. c = [y EXCEPT !.toks = g.toks]
      BY <3>1, <3>3
    <3> HIDE DEF c
    <3>6. QED BY <3>4, <3>5
  <2>3. c \in Call
    <3> HIDE DEF c
    <3>1. QED BY <1>3, <2>2 DEF Call
  <2> HIDE DEF c
  <2>4. /\ held'[i] = c /\ lock'[i] = i /\ DOMAIN held' = DOMAIN inst /\ DOMAIN lock' = DOMAIN inst
        /\ \A k \in DOMAIN inst : k # i => held'[k] = held[k] /\ lock'[k] = lock[k]
    BY <1>3, <2>1
  <2>5. PICK row \in InstanceRow : /\ inst' = [inst EXCEPT ![i] = row] /\ row.state = "active"
                                   /\ row.kind = inst[i].kind /\ row.token = inst[i].token
                                   /\ row.target = inst[i].target /\ row.started = inst[i].started
    <3>1. inst[i] \in InstanceRow
      BY <1>3
    <3>2. PICK row : row = [inst[i] EXCEPT !.state = "active"]
      OBVIOUS
    <3>3. /\ row \in InstanceRow /\ row.state = "active"
          /\ row.kind = inst[i].kind /\ row.token = inst[i].token
          /\ row.target = inst[i].target /\ row.started = inst[i].started
      BY <3>1, <3>2 DEF InstanceRow, InstanceState
    <3>4. QED BY <2>1, <3>2, <3>3
  <2>6. /\ DOMAIN inst' = DOMAIN inst /\ Len(inst') = Len(inst) /\ inst' \in Seq(InstanceRow)
        /\ inst'[i] = row /\ \A k \in DOMAIN inst : k # i => inst'[k] = inst[k]
    BY <1>3, <2>5
  <2>7. \A k \in DOMAIN inst : /\ inst'[k].kind = inst[k].kind /\ inst'[k].token = inst[k].token
                               /\ inst'[k].target = inst[k].target
                               /\ inst'[k].started = inst[k].started
                               /\ (Ended(k)' <=> Ended(k))
    BY <1>5, <2>5, <2>6 DEF Ended, EndedStates
  <2>8. tok \in Seq(TokenRow) /\ job \in Seq(JobRow)
    BY DEF TreeInv, Types
  <2>9. Writes({i}, {})
    BY <1>5, <2>1, <2>6, <2>7, <2>8 DEF Writes
  <2>10. SameTree
    BY <2>1, <2>6, <2>7 DEF SameTree
  <2>11. Types'
    <3>1. held' \in [DOMAIN inst' -> Call] /\ lock' \in [DOMAIN inst' -> Nat]
      BY <1>3, <2>1, <2>3, <2>6
    <3>2. QED BY <1>1, <2>1, <2>6, <3>1 DEF TreeInv, Types
  <2>12. Tree'
    BY <2>9, KeepTree
  <2>13. Waits'
    BY <2>9, KeepWaits
  <2>14. ~Ended(i)'
    BY <1>5, <2>7
  <2>15. Quiet'
    BY <2>9, <2>14, KeepQuiet
  <2>16. Waiting'
    BY <2>9, <2>14, <2>15, KeepWaiting
  <2>17. ASSUME Multi(i) PROVE ItemsOK(i)'
    <3>1. SameRows
      BY <2>1, <2>6 DEF SameRows
    <3>2. /\ TokensOf(i)' = TokensOf(i) /\ Executions(i)' = Executions(i)
          /\ \A u : Begun(u)' <=> Begun(u)
          /\ \A k \in Kids : ParentOf(k)' = ParentOf(k)
          /\ Kids' = Kids
      BY <2>9, <3>1, SameCounts
    <3>3. ItemsOK(i) /\ inst[i].state # "terminated" /\ inst'[i].state = "active"
      BY <1>5, <2>5, <2>6, <2>17 DEF TreeInv, Items, Ended, EndedStates
    <3>4. \A k \in Kids : inst'[k].state = "terminated" => inst[k].state = "terminated"
      BY <2>6, <3>3 DEF Kids
    <3>5. \A u \in TokensOf(i) : ItemOK(u) => ItemOK(u)'
      <4>1. \A u \in TokensOf(i) : tok[u].inst = i
        BY DEF TokensOf
      <4>2. QED BY <2>1, <3>2, <4>1 DEF ItemOK, Pending
    <3>6. {u \in TokensOf(i) : Begun(u)}' = {u \in TokensOf(i) : Begun(u)}
      BY <3>2
    <3>7. /\ inst'[i].started = Executions(i)' /\ inst'[i].started <= shape.items
          /\ shape.multi /\ shape.items > 0 /\ inst'[i].started = inst[i].started
      BY <2>7, <3>2, <3>3 DEF ItemsOK
    <3>8. ~shape.sequential =>
            /\ inst'[i].started = Cardinality({u \in TokensOf(i) : Begun(u)})'
            /\ \A u \in TokensOf(i)' : ItemOK(u)'
      BY <1>5, <3>2, <3>3, <3>5, <3>6, <3>7 DEF ItemsOK
    <3>9. /\ \A j \in DOMAIN job' : tok'[job'[j].token].inst = i => job'[j].state # "terminated"
          /\ \A k \in Kids' : ParentOf(k)' = i => inst'[k].state # "terminated"
      BY <2>1, <3>2, <3>3, <3>4 DEF ItemsOK
    <3>10. /\ shape.sequential => \A t, u \in TokensOf(i)' : t = u
           /\ ~shape.sequential => Cardinality(TokensOf(i))' = shape.items
      BY <3>2, <3>3 DEF ItemsOK
    <3>11. QED BY <2>1, <3>3, <3>7, <3>8, <3>9, <3>10 DEF ItemsOK
  <2>18. Items'
    <3>1. /\ \A k \in {i} : k # 1 /\ inst'[k].state = "terminated" => ParentOf(k) \in {i}
          /\ \A m \in {i} : Multi(m) => ItemsOK(m)'
          /\ \A m \in DOMAIN inst' \ DOMAIN inst : Multi(m)' => ItemsOK(m)'
      BY <2>5, <2>6, <2>17
    <3>2. QED BY <2>9, <3>1, KeepItems
  <2>19. LockOK(i) /\ held[i] = NoCall
    BY <1>1, <1>2, <1>3 DEF TreeInv, Locks, LockOK
  <2>20. held[1].pc = "cancel" => i # 1
    BY <1>1, <1>2 DEF TreeInv, Tree, Locks, LockOK
  <2>21. held'[1].pc = "cancel" => held'[1] = held[1]
    <3>1. 1 \in DOMAIN inst
      BY DEF TreeInv, Tree
    <3>2. c.pc = "loop"
      BY <2>2
    <3>3. QED BY <2>4, <3>1, <3>2
  <2>22. held[1].pc = "cancel" => held'[1].pc = "cancel"
    BY <2>4, <2>20 DEF TreeInv, Tree
  <2>23. Cancels'
    <3>1. \A k \in DOMAIN inst : lock[k] = 1 /\ held[1].pc = "cancel" => lock'[k] = 1
      BY <1>1, <1>2, <2>4
    <3>2. QED BY <2>10, <2>21, <3>1, CancelsStay
  <2>24. LockOK(i)'
    BY <2>2, <2>4, <2>14 DEF LockOK
  <2>25. Locks'
    BY <2>4, <2>6, <2>10, <2>22, <2>24, LockStays DEF Locks
  <2>26. Carried'
    <3>1. \A L, k : RunsIn(L, k) => RunsIn(L, k)'
      BY <2>1 DEF RunsIn
    <3>2. go' \subseteq go /\ g \notin go'
      BY <1>1
    <3>3. RunsIn(g.toks, i) /\ c.toks = g.toks
      BY <1>2, <1>5, <2>2 DEF TreeInv, Carried
    <3>4. \A h \in go' : h.inst \in DOMAIN inst' /\ (~Ended(h.inst)' => RunsIn(h.toks, h.inst)')
      BY <2>6, <2>7, <3>1, <3>2 DEF TreeInv, Carried
    <3>5. ASSUME NEW k \in DOMAIN inst' PROVE RunsIn(held[k].toks, k)'
      <4>1. CASE k = i
        BY <2>1, <2>4, <3>3, <4>1 DEF RunsIn
      <4>2. CASE k # i
        <5>1. held'[k] = held[k] /\ RunsIn(held[k].toks, k)
          BY <2>4, <2>6, <4>2 DEF TreeInv, Carried
        <5>2. QED BY <2>1, <5>1 DEF RunsIn
      <4>3. QED BY <4>1, <4>2
    <3>6. \A h, l \in go' : h # l /\ h.inst = l.inst /\ ~Ended(h.inst)' => Apart(h.toks, l.toks)
      BY <2>7, <3>2 DEF TreeInv, Carried
    <3>7. ASSUME NEW h \in go', ~Ended(h.inst)' PROVE Apart(h.toks, held'[h.inst].toks)
      <4>1. h.inst \in DOMAIN inst /\ ~Ended(h.inst) /\ h \in go
        BY <2>7, <3>2, <3>7 DEF TreeInv, Carried
      <4>2. CASE h.inst = i
        BY <1>2, <2>4, <3>2, <3>3, <4>1, <4>2 DEF TreeInv, Carried
      <4>3. CASE h.inst # i
        BY <2>4, <4>1, <4>3 DEF TreeInv, Carried
      <4>4. QED BY <4>2, <4>3
    <3>8. QED BY <3>4, <3>5, <3>6, <3>7 DEF Carried, Apart
  <2>27. QED BY <2>11, <2>12, <2>13, <2>15, <2>16, <2>18, <2>23, <2>25, <2>26 DEF TreeInv
<1>6. QED BY <1>4, <1>5

\* The list of the children that a set of tokens has.
LEMMA ChildrenList ==
    ASSUME TreeInv, NEW T, T \subseteq DOMAIN tok
    PROVE  /\ Children(T) \in Seq(Nat)
           /\ \A k \in DOMAIN Children(T) : /\ Children(T)[k] \in Kids
                                            /\ inst[Children(T)[k]].token \in T
           /\ \A c \in Kids : inst[c].token \in T => \E k \in DOMAIN Children(T) : Children(T)[k] = c
<1>1. inst \in Seq(InstanceRow) /\ tok \in Seq(TokenRow) /\ inst[1].token = 0
  BY DEF TreeInv, Types, Tree
<1>2. PICK K : K = {c \in DOMAIN inst : inst[c].token \in T}
  OBVIOUS
<1>3. IsFiniteSet(DOMAIN inst)
  BY FiniteTables
<1>4. IsFiniteSet(K) /\ K \subseteq Nat
  <2>1. K \subseteq DOMAIN inst
    BY <1>2
  <2>2. QED BY <1>1, <1>3, <2>1, FS_Subset
<1>5. K \subseteq Kids /\ \A c \in K : inst[c].token \in T
  <2>1. 0 \notin T
    BY <1>1
  <2>2. QED BY <1>1, <1>2, <2>1 DEF Kids
<1>6. \A c \in Kids : inst[c].token \in T => c \in K
  BY <1>2 DEF Kids
<1>7. Children(T) = InOrder(K)
  BY <1>2 DEF Children
<1>8. PICK L : L = InOrder(K)
  OBVIOUS
<1>9. L \in Seq(K) /\ \A k \in K : \E i \in DOMAIN L : L[i] = k
  BY <1>4, <1>8, InOrderLists
<1>10. L \in Seq(Nat) /\ \A i \in DOMAIN L : L[i] \in K
  <2>1. Len(L) \in Nat /\ DOMAIN L = 1..Len(L) /\ L = [i \in 1..Len(L) |-> L[i]]
    BY <1>9
  <2>2. \A i \in DOMAIN L : L[i] \in K
    BY <1>9, <2>1, ElementOfSeq
  <2>3. \A i \in 1..Len(L) : L[i] \in Nat
    BY <1>4, <2>1, <2>2
  <2>4. L \in Seq(Nat)
    BY <2>1, <2>3, IsASeq
  <2>5. QED BY <2>2, <2>4
<1>11. QED BY <1>5, <1>6, <1>7, <1>8, <1>9, <1>10

\* A step that changes a call and leaves the rows alone; only the call that cancels
\* takes locks of other instances.
LEMMA CallChanges ==
    ASSUME TreeInv, SameTables, UNCHANGED <<go, failures>>, NEW i \in DOMAIN inst, NEW c \in Call,
           held' = [held EXCEPT ![i] = c], lock' \in [DOMAIN inst -> Nat],
           c.toks = held[i].toks, LockOK(i)', Cancels',
           held[1].pc = "cancel" => held'[1].pc = "cancel",
           \A k \in DOMAIN inst \ {i} :
              lock'[k] = lock[k] \/ (lock[k] = 0 /\ lock'[k] = 1 /\ k # 1 /\ held'[1].pc = "cancel")
    PROVE  TreeInv'
<1>1. held \in [DOMAIN inst -> Call] /\ lock \in [DOMAIN inst -> Nat] /\ inst \in Seq(InstanceRow)
  BY DEF TreeInv, Types
<1>2. held' \in [DOMAIN inst -> Call] /\ held'[i] = c
      /\ \A k \in DOMAIN inst \ {i} : held'[k] = held[k]
  BY <1>1
<1>3. Types'
  BY <1>2, TypesStay
<1>4. Tree' /\ Waits' /\ Waiting' /\ Quiet' /\ Items' /\ \A k : Ended(k)' <=> Ended(k)
  BY TablesStay
<1>5. Carried'
  <2>1. \A k \in DOMAIN inst : held'[k].toks = held[k].toks \/ held'[k].toks = <<>>
    BY <1>2
  <2>2. QED BY <2>1, CarriedStays
<1>6. SameTree
  BY <1>4 DEF SameTree, SameTables
<1>7. ASSUME NEW k \in DOMAIN inst PROVE LockOK(k)'
  <2>1. CASE k = i
    BY <2>1
  <2>2. CASE k # i /\ lock'[k] = lock[k]
    <3>1. held'[k] = held[k]
      BY <1>2, <2>2
    <3>2. QED BY <1>6, <2>2, <3>1, LockStays
  <2>3. CASE k # i /\ lock[k] = 0 /\ lock'[k] = 1 /\ k # 1 /\ held'[1].pc = "cancel"
    <3>1. LockOK(k) /\ held'[k] = held[k] /\ k # 0
      BY <1>1, <1>2, <2>3 DEF TreeInv, Locks
    <3>2. held[k] = NoCall
      BY <2>3, <3>1 DEF LockOK
    <3>3. QED BY <2>3, <3>1, <3>2 DEF LockOK, NoCall
  <2>4. QED BY <2>1, <2>2, <2>3
<1>8. Locks'
  BY <1>7 DEF Locks, SameTables
<1>9. QED BY <1>3, <1>4, <1>5, <1>8 DEF TreeInv

\* A live child below the root has a live token above it.
LEMMA LiveKid ==
    ASSUME TreeInv, NEW c \in Kids, ~Ended(c)
    PROVE  LET t == inst[c].token
           IN  /\ t \in DOMAIN tok /\ Live(t) /\ tok[t].state = "waiting" /\ tok[t].at = "act"
               /\ tok[t].eik = inst[c].target /\ tok[t].inst \in DOMAIN inst /\ ~Ended(tok[t].inst)
               /\ t \in ActiveTokens(tok[t].inst)
               /\ \A d \in Kids : inst[d].token = t /\ ~Ended(d) => c = d
<1>1. inst[c].token \in DOMAIN tok
  BY DEF TreeInv, Tree, KidOK
<1>2. KidsOf(inst[c].token) /\ PlaceOK(inst[c].token)
  BY <1>1 DEF TreeInv, Waiting, Tree
<1>3. QED BY <1>1, <1>2 DEF KidsOf, PlaceOK, Live, ActiveTokens, TokensOf

\* A call on the root begins to cancel the tokens T.
LEMMA CancelBegins ==
    ASSUME TreeInv, SameTables, NEW T, T \subseteq TokensOf(1), NEW c, held'[1] = c,
           lock'[1] = 1,
           c.pc = "cancel", c.todo = Children(T), c.dead \in {{}, {1}},
           ~Ended(1), c.op \in {"run", "boundary", "cancel"}, c.op = "cancel" <=> 1 \in c.dead,
           c.op # "run" => c.toks = <<>>,
           c.op = "run" => /\ c.toks = <<c.token>> /\ tok[c.token].at = "terminate" /\ ~c.failed
                           /\ T = ActiveTokens(1),
           c.op = "boundary" => c.token \in sub /\ T = {c.token},
           c.op = "cancel" => T = ActiveTokens(1)
    PROVE  Cancels'
<1>1. /\ inst' = inst /\ tok' = tok /\ sub' = sub /\ Kids' = Kids /\ \A k : Ended(k)' <=> Ended(k)
      /\ \A k : ParentOf(k)' = ParentOf(k)
  BY TablesStay DEF SameTables, Kids, ParentOf
<1>2. T \subseteq DOMAIN tok /\ 1 \in DOMAIN inst
  BY DEF TokensOf, TreeInv, Tree
<1>3. PICK L : L = Children(T)
  OBVIOUS
<1>4. /\ \A k \in DOMAIN L : L[k] \in Kids /\ inst[L[k]].token \in T
      /\ \A d \in Kids : inst[d].token \in T => \E k \in DOMAIN L : L[k] = d
  BY <1>2, <1>3, ChildrenList
<1>5. \A d : Doomed(d)' <=> d \in c.dead \/ \E k \in DOMAIN L : L[k] = d
  BY <1>3 DEF Doomed, InTodo
<1>6. ASSUME NEW d \in Kids, Doomed(d)' PROVE Reached(inst[d].token)'
  <2>1. PICK k \in DOMAIN L : L[k] = d
    BY <1>5, <1>6 DEF Kids
  <2>2. PICK t : t = inst[d].token
    OBVIOUS
  <2>3. t \in T /\ tok[t].inst = 1
    BY <1>4, <2>1, <2>2 DEF TokensOf
  <2>4. CASE c.op = "boundary"
    BY <1>1, <2>2, <2>3, <2>4 DEF Reached
  <2>5. CASE c.op = "run"
    BY <1>1, <2>2, <2>3, <2>5 DEF Reached
  <2>6. CASE c.op = "cancel"
    BY <1>1, <2>2, <2>3, <2>6 DEF Reached
  <2>7. QED BY <2>4, <2>5, <2>6
<1>7. ASSUME NEW d \in Kids, ~Ended(d), Reached(inst[d].token)' PROVE Doomed(d)'
  <2>1. PICK t : t = inst[d].token
    OBVIOUS
  <2>2. t \in ActiveTokens(tok[t].inst)
    BY <1>7, <2>1, LiveKid
  <2>3. Reached(t)'
    BY <1>1, <1>7, <2>1 DEF Reached
  <2>4. t \in T
    <3>1. CASE c.op = "boundary"
      <4>1. c.dead = {}
        BY <3>1
      <4>2. QED BY <2>3, <3>1, <4>1 DEF Reached
    <3>2. CASE c.op = "run"
      <4>1. c.dead = {}
        BY <3>2
      <4>2. QED BY <1>1, <2>2, <2>3, <3>2, <4>1 DEF Reached
    <3>3. CASE c.op \notin {"boundary", "run"}
      <4>1. tok[t].inst = 1
        BY <1>1, <2>3, <3>3 DEF Reached
      <4>2. c.dead = {1}
        BY <1>1, <2>3, <3>3 DEF Reached
      <4>3. QED BY <2>2, <4>1, <4>2
    <3>4. QED BY <3>1, <3>2, <3>3
  <2>5. QED BY <1>4, <1>5, <2>1, <2>4
<1>8. \A k \in DOMAIN held'[1].todo : held'[1].todo[k] \in Kids'
  BY <1>1, <1>3, <1>4
<1>9. \A d \in held'[1].dead : d \in DOMAIN inst' /\ lock'[d] = 1 /\ ~Ended(d)'
  BY <1>1, <1>2
<1>10. /\ \A d \in Kids' : Doomed(d)' => Reached(inst[d].token)'
       /\ \A d \in Kids' : ~Ended(d)' /\ Reached(inst[d].token)' => Doomed(d)'
  BY <1>1, <1>6, <1>7
<1>11. QED BY <1>1, <1>8, <1>9, <1>10 DEF Cancels

\* Only the root is an instance of the root process.
LEMMA RootIsDefault ==
    ASSUME TreeInv, NEW i \in DOMAIN inst, inst[i].kind = "default"
    PROVE  i = 1
<1>1. shape.inner \in {"task", "call", "sub"}
  BY ShapeType
<1>2. QED BY <1>1 DEF TreeInv, Tree, Kids, KidOK

\* The records of the calls that cancel.
Cancelling(h, t, L) == [h EXCEPT !.pc = "cancel", !.token = t, !.todo = L]

\* The call of a terminate end event has its type.
LEMMA CancelRecord ==
    ASSUME NEW h \in Call, NEW t \in Nat, NEW L \in Seq(Nat), NEW c,
           c = Cancelling(h, t, L)
    PROVE  /\ c \in Call /\ c.pc = "cancel" /\ c.token = t /\ c.todo = L /\ c.op = h.op
           /\ c.toks = h.toks /\ c.dead = h.dead /\ c.failed = h.failed
<1>1. PICK x : x = [h EXCEPT !.pc = "cancel"]
  OBVIOUS
<1>2. x \in Call /\ x.pc = "cancel" /\ x.op = h.op /\ x.toks = h.toks /\ x.dead = h.dead
      /\ x.failed = h.failed
  BY <1>1 DEF Call
<1>3. PICK y : y = [x EXCEPT !.token = t]
  OBVIOUS
<1>4. y \in Call /\ y.pc = "cancel" /\ y.op = h.op /\ y.toks = h.toks /\ y.dead = h.dead
      /\ y.failed = h.failed /\ y.token = t
  BY <1>2, <1>3 DEF Call
<1>5. PICK z : z = [y EXCEPT !.todo = L]
  OBVIOUS
<1>6. z \in Call /\ z.pc = "cancel" /\ z.op = h.op /\ z.toks = h.toks /\ z.dead = h.dead
      /\ z.failed = h.failed /\ z.token = t /\ z.todo = L
  BY <1>4, <1>5 DEF Call
<1>7. z = c
  BY <1>1, <1>3, <1>5 DEF Cancelling
<1>8. QED BY <1>6, <1>7

\* A free instance has no call.
LEMMA NoCallType == NoCall \in Call /\ NoCall.toks = <<>> /\ NoCall.dead = {} /\ ~NoCall.failed
                    /\ NoCall.pc = "none"
BY DEF NoCall, Call

\* The call of CancelInstanceByKey has its type.
LEMMA CancelCall ==
    ASSUME NEW L \in Seq(Nat), NEW c,
           c = [NoCall EXCEPT !.op = "cancel", !.pc = "cancel", !.dead = {1}, !.todo = L]
    PROVE  /\ c \in Call /\ c.pc = "cancel" /\ c.todo = L /\ c.op = "cancel"
           /\ c.toks = <<>> /\ c.dead = {1} /\ ~c.failed
<1>1. PICK x : x = [NoCall EXCEPT !.op = "cancel"]
  OBVIOUS
<1>2. x \in Call /\ x.op = "cancel" /\ x.toks = <<>> /\ ~x.failed
  BY <1>1, NoCallType DEF Call
<1>3. PICK y : y = [x EXCEPT !.pc = "cancel"]
  OBVIOUS
<1>4. y \in Call /\ y.pc = "cancel" /\ y.op = "cancel" /\ y.toks = <<>> /\ ~y.failed
  BY <1>2, <1>3 DEF Call
<1>5. PICK D \in SUBSET Nat : D = {1}
  <2>1. {1} \in SUBSET Nat
    OBVIOUS
  <2>2. QED BY <2>1, Zenon
<1>6. PICK z : z = [y EXCEPT !.dead = D]
  OBVIOUS
<1>7. z \in Call /\ z.pc = "cancel" /\ z.op = "cancel" /\ z.toks = <<>> /\ ~z.failed
      /\ z.dead = D
  BY <1>4, <1>6 DEF Call
<1>8. PICK w : w = [z EXCEPT !.todo = L]
  OBVIOUS
<1>9. w \in Call /\ w.pc = "cancel" /\ w.op = "cancel" /\ w.toks = <<>> /\ ~w.failed
      /\ w.dead = D /\ w.todo = L
  BY <1>7, <1>8 DEF Call
<1>10. w = c
  BY <1>1, <1>3, <1>5, <1>6, <1>8
<1>11. QED BY <1>5, <1>9, <1>10

BoundaryRecord(t, L) ==
    [NoCall EXCEPT !.op = "boundary", !.pc = "cancel", !.token = t, !.todo = L]

\* The call of a boundary message has its type.
LEMMA BoundaryCall ==
    ASSUME NEW L \in Seq(Nat), NEW t \in Nat, NEW c, c = BoundaryRecord(t, L)
    PROVE  /\ c \in Call /\ c.pc = "cancel" /\ c.todo = L /\ c.op = "boundary"
           /\ c.toks = <<>> /\ c.dead = {} /\ ~c.failed /\ c.token = t
<1>1. PICK x : x = [NoCall EXCEPT !.op = "boundary"]
  OBVIOUS
<1>2. x \in Call /\ x.op = "boundary" /\ x.toks = <<>> /\ ~x.failed /\ x.dead = {}
  BY <1>1, NoCallType DEF Call
<1>3. c = Cancelling(x, t, L)
  BY <1>1 DEF Cancelling, BoundaryRecord
<1>4. QED BY <1>2, <1>3, CancelRecord

\* The first step of a call that cancels.
LEMMA CancelBeginsKeeps ==
    ASSUME TreeInv, SameTables, UNCHANGED <<go, failures>>, NEW T, T \subseteq TokensOf(1),
           NEW c \in Call, held' = [held EXCEPT ![1] = c], lock' = [lock EXCEPT ![1] = 1],
           held[1].pc # "cancel",
           c.pc = "cancel", c.todo = Children(T), c.dead \in {{}, {1}}, ~c.failed,
           c.toks = held[1].toks,
           ~Ended(1), c.op \in {"run", "boundary", "cancel"}, c.op = "cancel" <=> 1 \in c.dead,
           c.op # "run" => c.toks = <<>>,
           c.op = "run" => /\ c.toks = <<c.token>> /\ tok[c.token].at = "terminate"
                           /\ T = ActiveTokens(1),
           c.op = "boundary" => c.token \in sub /\ T = {c.token},
           c.op = "cancel" => T = ActiveTokens(1)
    PROVE  TreeInv'
<1>1. held \in [DOMAIN inst -> Call] /\ lock \in [DOMAIN inst -> Nat] /\ 1 \in DOMAIN inst
  BY DEF TreeInv, Types, Tree
<1>2. held'[1] = c /\ lock'[1] = 1 /\ lock' \in [DOMAIN inst -> Nat]
      /\ \A k \in DOMAIN inst \ {1} : lock'[k] = lock[k]
  BY <1>1
<1>3. Cancels'
  BY <1>2, CancelBegins
<1>4. LockOK(1)'
  <2>1. ~Ended(1)'
    BY TablesStay
  <2>2. QED BY <1>2, <2>1 DEF LockOK
<1>5. QED BY <1>1, <1>2, <1>3, <1>4, CallChanges

\* The terminate end event begins to lock the children of the root.
LEMMA TerminateEndEventKeeps ==
    ASSUME TreeInv, NEW i \in DOMAIN inst, TerminateEndEvent(i)
    PROVE  TreeInv'
<1>1. PICK t : t = Head(held[i].toks)
  OBVIOUS
<1>2. /\ held[i].pc = "loop" /\ held[i].toks # <<>> /\ tok[t].at = "terminate"
      /\ held' = [held EXCEPT ![i] = [held[i] EXCEPT !.pc = "cancel", !.token = t,
                                                     !.todo = Children(ActiveTokens(i))]]
      /\ SameTables /\ lock' = lock /\ UNCHANGED <<go, failures>>
  BY <1>1 DEF TerminateEndEvent, Busy, SameTables, rows
<1>3. /\ t \in DOMAIN tok /\ tok[t].inst = i /\ held[i].toks \in Seq(Nat)
      /\ 1 \in DOMAIN held[i].toks /\ held[i].toks[1] = t
      /\ ~Ended(i) /\ lock[i] = i /\ held[i].op = "run" /\ held[i] \in Call
  BY <1>1, <1>2, HeadOfLoop
<1>4. i = 1
  <2>1. PlaceOK(t)
    BY <1>3 DEF TreeInv, Tree
  <2>2. inst[i].kind = "default"
    BY <1>2, <1>3, <2>1 DEF PlaceOK, PlacesOf
  <2>3. QED BY <2>2, RootIsDefault
<1>5. held[1].toks = <<t>>
  <2>1. RunsIn(held[1].toks, 1)
    BY <1>4 DEF TreeInv, Carried
  <2>2. Len(held[1].toks) = 1
    BY <1>2, <1>3, <1>4, <2>1 DEF RunsIn
  <2>3. QED BY <1>3, <1>4, <2>2
<1>6. held[1].dead = {} /\ ~held[1].failed
  <2>1. LockOK(1)
    BY <1>4 DEF TreeInv, Locks
  <2>2. held[1].failed => tok[held[1].toks[1]].at # "terminate"
    BY <1>3, <1>4, <2>1 DEF LockOK
  <2>3. QED BY <1>2, <1>3, <1>4, <2>1, <2>2 DEF LockOK
<1>7. PICK T : T = ActiveTokens(1)
  OBVIOUS
<1>8. T \subseteq TokensOf(1) /\ T \subseteq DOMAIN tok
  BY <1>7 DEF ActiveTokens, TokensOf
<1>9. PICK L \in Seq(Nat) : L = Children(T)
  BY <1>8, ChildrenList
<1>10. t \in Nat /\ tok \in Seq(TokenRow) /\ lock \in [DOMAIN inst -> Nat]
  BY <1>3 DEF TreeInv, Types
<1>11. PICK c : c = Cancelling(held[1], t, L)
  OBVIOUS
<1>12. /\ c \in Call /\ c.pc = "cancel" /\ c.token = t /\ c.todo = L /\ c.op = held[1].op
       /\ c.toks = held[1].toks /\ c.dead = held[1].dead /\ c.failed = held[1].failed
  <2>1. PICK h \in Call : h = held[1]
    BY <1>3, <1>4
  <2>2. c = Cancelling(h, t, L)
    BY <1>11, <2>1
  <2>3. t \in Nat
    BY <1>10
  <2>4. /\ c \in Call /\ c.pc = "cancel" /\ c.token = t /\ c.todo = L /\ c.op = h.op
        /\ c.toks = h.toks /\ c.dead = h.dead /\ c.failed = h.failed
    BY <2>2, <2>3, CancelRecord
  <2>5. QED BY <2>1, <2>4
<1>13. held' = [held EXCEPT ![1] = c] /\ lock' = [lock EXCEPT ![1] = 1]
  BY <1>2, <1>3, <1>4, <1>7, <1>9, <1>10, <1>11 DEF Cancelling
<1>14. /\ c.todo = Children(T) /\ c.dead \in {{}, {1}} /\ ~c.failed /\ c.op = "run"
       /\ c.toks = <<c.token>> /\ tok[c.token].at = "terminate" /\ 1 \notin c.dead
       /\ held[1].pc # "cancel" /\ ~Ended(1)
  BY <1>2, <1>3, <1>4, <1>5, <1>6, <1>9, <1>12
<1>15. QED BY <1>2, <1>7, <1>8, <1>12, <1>13, <1>14, CancelBeginsKeeps

\* CancelInstanceByKey begins to lock the children of the root.
LEMMA CancelInstanceByKeyKeeps ==
    ASSUME TreeInv, CancelInstanceByKey
    PROVE  TreeInv'
<1>1. /\ lock[1] = 0 /\ inst[1].state \in {"active", "failed"} /\ lock' = [lock EXCEPT ![1] = 1]
      /\ held' = [held EXCEPT ![1] = [NoCall EXCEPT !.op = "cancel", !.pc = "cancel", !.dead = {1},
                                                    !.todo = Children(ActiveTokens(1))]]
      /\ SameTables /\ UNCHANGED <<go, failures>>
  BY DEF CancelInstanceByKey, Busy, SameTables, rows
<1>2. held[1] = NoCall /\ ~Ended(1)
  <2>1. LockOK(1)
    BY DEF TreeInv, Tree, Locks
  <2>2. QED BY <1>1, <2>1 DEF LockOK, Ended, EndedStates
<1>3. PICK T : T = ActiveTokens(1)
  OBVIOUS
<1>4. T \subseteq TokensOf(1) /\ T \subseteq DOMAIN tok
  BY <1>3 DEF ActiveTokens, TokensOf
<1>5. PICK L \in Seq(Nat) : L = Children(T)
  BY <1>4, ChildrenList
<1>6. PICK c : c = [NoCall EXCEPT !.op = "cancel", !.pc = "cancel", !.dead = {1}, !.todo = L]
  OBVIOUS
<1>7. /\ c \in Call /\ c.pc = "cancel" /\ c.todo = L /\ c.op = "cancel"
      /\ c.toks = <<>> /\ c.dead = {1} /\ ~c.failed
  BY <1>5, <1>6, CancelCall
<1>8. held' = [held EXCEPT ![1] = c]
  BY <1>1, <1>3, <1>5, <1>6
<1>9. /\ c.todo = Children(T) /\ c.dead \in {{}, {1}} /\ ~c.failed /\ 1 \in c.dead
      /\ held[1].pc # "cancel" /\ c.toks = held[1].toks
  BY <1>2, <1>5, <1>7 DEF NoCall
<1>10. QED BY <1>1, <1>2, <1>3, <1>4, <1>7, <1>8, <1>9, CancelBeginsKeeps

\* The boundary message begins to lock the child of the activity.
LEMMA HandleBoundaryMessageKeeps ==
    ASSUME TreeInv, NEW t \in sub, HandleBoundaryMessage(t)
    PROVE  TreeInv'
<1>1. t \in DOMAIN tok /\ tok[t].inst = 1 /\ t \in Nat
  <2>1. t \in DOMAIN tok /\ tok \in Seq(TokenRow)
    BY DEF TreeInv, Types
  <2>2. WaitsAt(t)
    BY <2>1 DEF TreeInv, Waits
  <2>3. QED BY <2>1, <2>2 DEF WaitsAt
<1>2. /\ lock[1] = 0 /\ ~Ended(1) /\ lock' = [lock EXCEPT ![1] = 1]
      /\ held' = [held EXCEPT ![1] = [NoCall EXCEPT !.op = "boundary", !.pc = "cancel", !.token = t,
                                                    !.todo = Children({t})]]
      /\ SameTables /\ UNCHANGED <<go, failures>>
  BY <1>1 DEF HandleBoundaryMessage, Busy, SameTables, rows, Ended
<1>3. held[1] = NoCall
  <2>1. LockOK(1)
    BY DEF TreeInv, Tree, Locks
  <2>2. QED BY <1>2, <2>1 DEF LockOK
<1>4. PICK T : T = {t}
  OBVIOUS
<1>5. T \subseteq TokensOf(1) /\ T \subseteq DOMAIN tok
  BY <1>1, <1>4 DEF TokensOf
<1>6. PICK L \in Seq(Nat) : L = Children(T)
  BY <1>5, ChildrenList
<1>7. PICK c : c = BoundaryRecord(t, L)
  OBVIOUS
<1>8. /\ c \in Call /\ c.pc = "cancel" /\ c.todo = L /\ c.op = "boundary"
      /\ c.toks = <<>> /\ c.dead = {} /\ ~c.failed /\ c.token = t
  BY <1>1, <1>6, <1>7, BoundaryCall
<1>9. held' = [held EXCEPT ![1] = c]
  BY <1>2, <1>4, <1>6, <1>7 DEF BoundaryRecord
<1>10. /\ c.todo = Children(T) /\ c.dead \in {{}, {1}} /\ ~c.failed /\ 1 \notin c.dead
       /\ held[1].pc # "cancel" /\ c.toks = held[1].toks /\ c.token \in sub /\ T = {c.token}
  BY <1>3, <1>4, <1>6, <1>8 DEF NoCall
<1>11. QED BY <1>2, <1>5, <1>8, <1>9, <1>10, CancelBeginsKeeps

\* What a list holds.
In(d, L) == \E k \in DOMAIN L : L[k] = d

\* A list holds its head and what its tail holds.
LEMMA InTail ==
    ASSUME NEW L \in Seq(Nat), L # <<>>, NEW d
    PROVE  In(d, L) <=> d = Head(L) \/ In(d, Tail(L))
<1>1. /\ Len(L) \in Nat /\ Len(L) > 0 /\ DOMAIN L = 1..Len(L) /\ Head(L) = L[1]
      /\ Tail(L) \in Seq(Nat) /\ Len(Tail(L)) = Len(L) - 1 /\ DOMAIN Tail(L) = 1..(Len(L) - 1)
      /\ \A k \in 1..(Len(L) - 1) : Tail(L)[k] = L[k + 1]
  OBVIOUS
<1>2. ASSUME NEW k \in DOMAIN L, L[k] = d, k # 1 PROVE In(d, Tail(L))
  <2>1. k - 1 \in DOMAIN Tail(L) /\ Tail(L)[k - 1] = L[k]
    BY <1>1, <1>2
  <2>2. QED BY <1>2, <2>1 DEF In
<1>3. ASSUME NEW k \in DOMAIN Tail(L), Tail(L)[k] = d PROVE In(d, L)
  <2>1. k + 1 \in DOMAIN L /\ L[k + 1] = d
    BY <1>1, <1>3
  <2>2. QED BY <2>1 DEF In
<1>4. 1 \in DOMAIN L
  BY <1>1
<1>5. QED BY <1>1, <1>2, <1>3, <1>4 DEF In

\* A concatenation holds what its two parts hold.
LEMMA InConcat ==
    ASSUME NEW L \in Seq(Nat), NEW M \in Seq(Nat), NEW d
    PROVE  L \o M \in Seq(Nat) /\ (In(d, L \o M) <=> In(d, L) \/ In(d, M))
<1>1. /\ Len(L) \in Nat /\ Len(M) \in Nat /\ DOMAIN L = 1..Len(L) /\ DOMAIN M = 1..Len(M)
      /\ DOMAIN (L \o M) = 1..(Len(L) + Len(M)) /\ L \o M \in Seq(Nat)
      /\ \A k \in 1..(Len(L) + Len(M)) : (L \o M)[k] = IF k <= Len(L) THEN L[k] ELSE M[k - Len(L)]
  OBVIOUS
<1>2. ASSUME NEW k \in DOMAIN (L \o M), (L \o M)[k] = d PROVE In(d, L) \/ In(d, M)
  <2>1. CASE k <= Len(L)
    BY <1>1, <1>2, <2>1 DEF In
  <2>2. CASE ~(k <= Len(L))
    <3>1. k - Len(L) \in DOMAIN M /\ M[k - Len(L)] = d
      BY <1>1, <1>2, <2>2
    <3>2. QED BY <3>1 DEF In
  <2>3. QED BY <2>1, <2>2
<1>3. ASSUME NEW k \in DOMAIN L, L[k] = d PROVE In(d, L \o M)
  <2>1. k \in DOMAIN (L \o M) /\ (L \o M)[k] = d
    BY <1>1, <1>3
  <2>2. QED BY <2>1 DEF In
<1>4. ASSUME NEW k \in DOMAIN M, M[k] = d PROVE In(d, L \o M)
  <2>1. k + Len(L) \in DOMAIN (L \o M) /\ (L \o M)[k + Len(L)] = d
    BY <1>1, <1>4
  <2>2. QED BY <2>1 DEF In
<1>5. QED BY <1>1, <1>2, <1>3, <1>4 DEF In

\* The call that cancels, with another list and more instances to end.
Descends(h, L, D) == [h EXCEPT !.dead = D, !.todo = L]

\* The call that goes down the tree has its type.
LEMMA DescendsRecord ==
    ASSUME NEW h \in Call, NEW L \in Seq(Nat), NEW D \in SUBSET Nat, NEW c, c = Descends(h, L, D)
    PROVE  /\ c \in Call /\ c.pc = h.pc /\ c.op = h.op /\ c.toks = h.toks /\ c.token = h.token
           /\ c.failed = h.failed /\ c.dead = D /\ c.todo = L
<1>1. PICK x : x = [h EXCEPT !.dead = D]
  OBVIOUS
<1>2. x \in Call /\ x.pc = h.pc /\ x.op = h.op /\ x.toks = h.toks /\ x.token = h.token
      /\ x.failed = h.failed /\ x.dead = D
  BY <1>1 DEF Call
<1>3. c = [x EXCEPT !.todo = L]
  BY <1>1 DEF Descends
<1>4. QED BY <1>2, <1>3 DEF Call

\* cancelSubProcessInstance locks the next child, and puts the children of that one on the list.
LEMMA CancelSubProcessKeeps ==
    ASSUME TreeInv, NEW i \in DOMAIN inst, cancelSubProcessInstance(i)
    PROVE  TreeInv'
<1>1. i = 1 /\ held[1].pc = "cancel" /\ held[1].todo # <<>> /\ LockOK(1)
  BY DEF cancelSubProcessInstance, TreeInv, Locks, LockOK
<1>2. PICK h \in Call : h = held[1]
  BY <1>1 DEF TreeInv, Types
<1>3. PICK c : c = Head(h.todo)
  OBVIOUS
<1>4. /\ h.todo \in Seq(Nat) /\ h.dead \in SUBSET Nat
      /\ inst \in Seq(InstanceRow) /\ lock \in [DOMAIN inst -> Nat] /\ held \in [DOMAIN inst -> Call]
  BY DEF Call, TreeInv, Types
<1>5. PICK R \in Seq(Nat) : R = Tail(h.todo)
  <2>1. h.todo # <<>>
    BY <1>1, <1>2
  <2>2. Tail(h.todo) \in Seq(Nat)
    BY <1>4, <2>1
  <2>3. QED BY <2>2, Zenon
<1>6. \A d : In(d, h.todo) <=> d = c \/ In(d, R)
  BY <1>1, <1>2, <1>3, <1>4, <1>5, InTail
<1>7. /\ c \in Kids /\ c \in Nat /\ c \in DOMAIN inst /\ c # 1 /\ \A d : In(d, h.todo) => d \in Kids
  <2>1. \A k \in DOMAIN held[1].todo : held[1].todo[k] \in Kids
    BY <1>1 DEF TreeInv, Cancels
  <2>2. \A d : In(d, h.todo) => d \in Kids
    BY <1>2, <2>1 DEF In
  <2>3. c \in Kids
    BY <1>6, <2>2
  <2>4. QED BY <1>4, <2>2, <2>3 DEF Kids
<1>8. PICK M \in Seq(Nat) : /\ M = Children(ActiveTokens(c))
                            /\ \A d : In(d, M) => d \in Kids /\ inst[d].token \in ActiveTokens(c)
                            /\ \A d \in Kids : inst[d].token \in ActiveTokens(c) => In(d, M)
  <2>1. PICK T : T = ActiveTokens(c)
    OBVIOUS
  <2>2. T \subseteq DOMAIN tok
    BY <2>1 DEF ActiveTokens, TokensOf
  <2>3. PICK M : M = Children(T)
    OBVIOUS
  <2>4. /\ M \in Seq(Nat)
        /\ \A k \in DOMAIN M : M[k] \in Kids /\ inst[M[k]].token \in T
        /\ \A d \in Kids : inst[d].token \in T => \E k \in DOMAIN M : M[k] = d
    BY <2>2, <2>3, ChildrenList
  <2>5. QED BY <2>1, <2>3, <2>4 DEF In
<1>9. PICK L \in Seq(Nat) : L = IF Ended(c) THEN R ELSE M \o R
  BY <1>5, <1>8, InConcat
<1>10. PICK D \in SUBSET Nat : D = IF Ended(c) THEN h.dead ELSE h.dead \union {c}
  <2>1. (IF Ended(c) THEN h.dead ELSE h.dead \union {c}) \in SUBSET Nat
    BY <1>4, <1>7
  <2>2. QED BY <2>1, Zenon
<1>11. PICK x : x = Descends(h, L, D)
  OBVIOUS
<1>12. /\ x \in Call /\ x.pc = h.pc /\ x.op = h.op /\ x.toks = h.toks /\ x.token = h.token
       /\ x.failed = h.failed /\ x.dead = D /\ x.todo = L
  BY <1>11, DescendsRecord
<1>13. /\ lock[c] = 0 /\ lock' = [lock EXCEPT ![c] = 1] /\ SameTables /\ UNCHANGED <<go, failures>>
       /\ held' = [held EXCEPT ![1] = IF Ended(c) THEN [h EXCEPT !.todo = R]
                                      ELSE [h EXCEPT !.dead = @ \union {c}, !.todo = M \o R]]
  BY <1>1, <1>2, <1>3, <1>5, <1>8 DEF cancelSubProcessInstance, Busy, Ended, SameTables, rows
<1>14. held' = [held EXCEPT ![1] = x]
  <2>1. CASE Ended(c)
    <3>1. x = [h EXCEPT !.dead = h.dead, !.todo = R]
      BY <1>9, <1>10, <1>11, <2>1 DEF Descends
    <3>2. h = [h EXCEPT !.dead = h.dead]
      BY DEF Call
    <3>3. x = [h EXCEPT !.todo = R]
      BY <3>1, <3>2
    <3>4. QED BY <1>13, <2>1, <3>3
  <2>2. CASE ~Ended(c)
    BY <1>9, <1>10, <1>11, <1>13, <2>2 DEF Descends
  <2>3. QED BY <2>1, <2>2
<1>15. /\ held'[1] = x /\ lock' \in [DOMAIN inst -> Nat] /\ lock'[c] = 1
       /\ \A k \in DOMAIN inst : k # c => lock'[k] = lock[k]
  BY <1>1, <1>4, <1>7, <1>13, <1>14
<1>16. LockOK(1)'
  <2>1. Ended(1)' <=> Ended(1)
    BY <1>13, TablesStay
  <2>2. lock'[1] = lock[1]
    BY <1>1, <1>7, <1>15
  <2>3. tok' = tok /\ inst' = inst /\ shape' = shape
    BY <1>13 DEF SameTables
  <2>4. QED BY <1>1, <1>2, <1>12, <1>15, <2>1, <2>2, <2>3 DEF LockOK
<1>17. Cancels'
  <2>1. /\ inst' = inst /\ tok' = tok /\ sub' = sub /\ Kids' = Kids
        /\ \A k : Ended(k)' <=> Ended(k)
        /\ \A k : ParentOf(k)' = ParentOf(k)
    BY <1>13, TablesStay DEF SameTables, Kids, ParentOf
  <2>2. /\ \A d : Doomed(d) <=> d \in h.dead \/ In(d, h.todo)
        /\ \A d : Doomed(d)' <=> d \in D \/ In(d, L)
    BY <1>2, <1>12, <1>15 DEF Doomed, InTodo, In
  <2>3. /\ \A d \in h.dead : d \in DOMAIN inst /\ lock[d] = 1 /\ ~Ended(d)
        /\ \A d \in Kids : Doomed(d) => Reached(inst[d].token)
        /\ \A d \in Kids : ~Ended(d) /\ Reached(inst[d].token) => Doomed(d)
        /\ h.op # "none"
        /\ h.op = "run" => h.toks = <<h.token>> /\ tok[h.token].at = "terminate" /\ ~h.failed
        /\ h.op = "boundary" => h.token \in sub
        /\ h.op # "run" => h.toks = <<>>
        /\ h.op = "cancel" <=> 1 \in h.dead
    BY <1>1, <1>2 DEF TreeInv, Cancels
  <2>4. \A d : In(d, M \o R) <=> In(d, M) \/ In(d, R)
    BY <1>5, <1>8, InConcat
  <2>5. \A d \in D : d \in DOMAIN inst' /\ lock'[d] = 1 /\ ~Ended(d)'
    BY <1>7, <1>10, <1>15, <2>1, <2>3
  <2>6. ASSUME NEW d, In(d, L) PROVE d \in Kids
    BY <1>6, <1>7, <1>8, <1>9, <2>4, <2>6
  <2>7. 1 \in D <=> 1 \in h.dead
    BY <1>7, <1>10
  <2>8. ASSUME NEW d \in Kids, Doomed(d)' PROVE Reached(inst[d].token)'
    <3>1. CASE Doomed(d)
      <4>1. Reached(inst[d].token)
        BY <2>3, <3>1
      <4>2. QED BY <1>2, <1>10, <1>12, <1>15, <2>1, <4>1 DEF Reached
    <3>2. CASE ~Doomed(d)
      <4>1. ~Ended(c) /\ (d = c \/ In(d, M) \/ In(d, R))
        BY <1>6, <1>9, <1>10, <2>2, <2>4, <2>8, <3>2
      <4>2. In(d, M)
        BY <1>6, <2>2, <3>2, <4>1
      <4>3. inst[d].token \in ActiveTokens(c)
        BY <1>8, <4>2
      <4>4. tok[inst[d].token].inst = c
        BY <4>3 DEF ActiveTokens, TokensOf
      <4>5. c \in D
        BY <1>10, <4>1
      <4>6. QED BY <1>12, <1>15, <2>1, <4>4, <4>5 DEF Reached
    <3>3. QED BY <3>1, <3>2
  <2>9. ASSUME NEW d \in Kids, ~Ended(d), Reached(inst[d].token)' PROVE Doomed(d)'
    <3>1. PICK t : t = inst[d].token
      OBVIOUS
    <3>2. t \in ActiveTokens(tok[t].inst)
      BY <2>9, <3>1, LiveKid
    <3>3. Reached(t)'
      BY <2>1, <2>9, <3>1 DEF Reached
    <3>4. CASE Reached(t)
      <4>1. Doomed(d)
        BY <2>3, <2>9, <3>1, <3>4
      <4>2. d \in h.dead \/ d = c \/ In(d, R)
        BY <1>6, <2>2, <4>1
      <4>3. QED BY <1>9, <1>10, <2>2, <2>4, <2>9, <4>2
    <3>5. CASE ~Reached(t)
      <4>1. tok[t].inst \in D /\ tok[t].inst \notin h.dead
        BY <1>2, <1>12, <1>15, <2>1, <3>3, <3>5 DEF Reached
      <4>2. tok[t].inst = c /\ ~Ended(c)
        BY <1>10, <4>1
      <4>3. In(d, M)
        BY <1>8, <3>1, <3>2, <4>2
      <4>4. QED BY <1>9, <2>2, <2>4, <4>2, <4>3
    <3>6. QED BY <3>4, <3>5
  <2>10. \A k \in DOMAIN held'[1].todo : held'[1].todo[k] \in Kids'
    BY <1>12, <1>15, <2>1, <2>6 DEF In
  <2>11. \A d \in Kids' : Doomed(d)' => Reached(inst[d].token)'
    BY <1>12, <1>15, <2>1, <2>8
  <2>12. \A d \in Kids' : ~Ended(d)' /\ Reached(inst[d].token)' => Doomed(d)'
    BY <2>1, <2>9
  <2>13. QED BY <1>12, <1>15, <2>1, <2>3, <2>5, <2>7, <2>10, <2>11, <2>12 DEF Cancels
<1>18. /\ held'[1].pc = "cancel" /\ x.toks = held[1].toks
       /\ \A k \in DOMAIN inst \ {1} :
             lock'[k] = lock[k] \/ (lock[k] = 0 /\ lock'[k] = 1 /\ k # 1 /\ held'[1].pc = "cancel")
  BY <1>1, <1>2, <1>12, <1>13, <1>15
<1>19. 1 \in DOMAIN inst
  BY <1>1
<1>20. QED BY <1>12, <1>13, <1>14, <1>15, <1>16, <1>17, <1>18, <1>19, CallChanges, ZenonT(40)

-----------------------------------------------------------------------------
(* A round of the main loop, node by node.                                 *)

\* A round of instance i takes token t.
RoundOf(i, t) == ProcessToken(i) /\ t = Head(held[i].toks)

\* The state in which it saves the instance, and the tokens it goes on with.
FinalState(i, a)    == IF held[i].failed THEN "failed" ELSE a[i].state
NextToks(i, s, N)   == IF s = "completed" THEN <<>> ELSE Rest(i, N)
Looping(i, L)       == [held[i] EXCEPT !.toks = L, !.failed = held[i].failed]
Flushes(i, a)       == a[i].state = "completed" => held[i].failed \/ inst[i].kind = "default"

\* What the flush of a round writes.
LEMMA RoundFlush ==
    ASSUME TreeInv, NEW i \in DOMAIN inst, NEW t, RoundOf(i, t),
           NEW a, NEW b, NEW c, NEW d, NEW e, NEW f,
           processFlowNode(Rows, t) = RowSet(a, b, c, d, e, f),
           NEW N, N = RunningIn(RowSet(a, b, c, d, e, f), t),
           NEW s, s = FinalState(i, a), NEW L, L = NextToks(i, s, N), Flushes(i, a)
    PROVE  /\ inst' = [a EXCEPT ![i].state = s] /\ tok' = b /\ job' = c /\ sub' = d
           /\ incident' = e /\ go' = go \union f /\ shape' = shape /\ failures' = failures
           /\ SameLocks
           /\ Holds(i, Looping(i, L))
<1>1. PICK r : r = RowSet(a, b, c, d, e, f)
  OBVIOUS
<1>2. r.inst = a /\ r.tok = b /\ r.job = c /\ r.sub = d /\ r.inc = e /\ r.go = f
  BY <1>1 DEF RowSet
<1>3. PICK q : q = [r EXCEPT !.inst[i].state = IF held[i].failed THEN "failed" ELSE @]
  OBVIOUS
<1>4. /\ q.inst = [a EXCEPT ![i].state = s] /\ q.tok = b /\ q.job = c /\ q.sub = d /\ q.inc = e
      /\ q.go = f
  BY <1>1, <1>3 DEF RowSet, FinalState
<1>5. ~(r.inst[i].state = "completed" /\ ~held[i].failed /\ inst[i].kind # "default")
  BY <1>2 DEF Flushes
<1>6. /\ Flush(q, {}) /\ shape' = shape /\ failures' = failures
      /\ Held(Busy(i, [held[i] EXCEPT !.toks =
              IF r.inst[i].state = "completed" /\ ~held[i].failed THEN <<>>
              ELSE Tail(held[i].toks) \o RunningIn(r, t)]))
  BY <1>1, <1>3, <1>5 DEF ProcessToken, RoundOf
<1>7. L = IF r.inst[i].state = "completed" /\ ~held[i].failed THEN <<>>
          ELSE Tail(held[i].toks) \o RunningIn(r, t)
  BY <1>1, <1>2 DEF Rest, NextToks, FinalState
<1>8. SameLocks
  BY <1>6, FlushedLocks
<1>9. [held[i] EXCEPT !.toks = L] = Looping(i, L)
  <2>1. held[i] \in Call
    BY DEF TreeInv, Types
  <2>2. QED BY <2>1 DEF Call, Looping
<1>10. PICK h : h = [held[i] EXCEPT !.toks = L]
  OBVIOUS
<1>11. Holds(i, h)
  BY <1>6, <1>7, <1>10, HeldBusy
<1>12. QED BY <1>4, <1>6, <1>8, <1>9, <1>10, <1>11 DEF Flush

\* The goroutine of the child that the round has made.
StartsKid(G) ==
    /\ go' = go \union G /\ G \subseteq Goroutine
    /\ \A g \in G : /\ g.inst \in DOMAIN inst' \ DOMAIN inst /\ RunsIn(g.toks, g.inst)'
                    /\ \A k \in DOMAIN g.toks : g.toks[k] \notin DOMAIN tok
    /\ \A g, h \in G : g = h
RoundEnds(i, L) ==
    Ended(i)' => i = 1 /\ L = <<>> /\ \A u \in DOMAIN tok' : tok'[u].inst = i => ~Live(u)'

\* The invariant survives a round of the main loop, given what the round does.
LEMMA RoundKeeps ==
    ASSUME TreeInv, NEW i \in DOMAIN inst, NEW t, RoundOf(i, t), Writes({i}, {t}),
           NEW N, RunsNext(i, t, N), NEW s, NEW L, L = NextToks(i, s, N),
           Holds(i, Looping(i, L)), SameLocks, failures' = failures, NEW G, StartsKid(G),
           PlaceOK(t)', WaitsAt(t)', KidsOf(t)', RoundEnds(i, L), Multi(i) => ItemsOK(i)',
           \A m \in DOMAIN inst' \ DOMAIN inst : Multi(m)' => ItemsOK(m)'
    PROVE  TreeInv'
<1>1. held[i].pc = "loop" /\ held[i].toks # <<>> /\ t = Head(held[i].toks)
  BY DEF RoundOf, ProcessToken
<1>2. L = <<>> \/ L = Rest(i, N)
  BY DEF NextToks
<1>3. PICK c : c = Looping(i, L)
  OBVIOUS
<1>4. LoopCall(i, L, c) /\ Holds(i, c)
  <2>1. held[i] \in Call /\ held[i].op = "run" /\ held[i].toks \in Seq(Nat)
    BY <1>1, HeadOfLoop
  <2>2. L \in Seq(Nat)
    <3>1. N \in Seq(Nat) /\ Tail(held[i].toks) \in Seq(Nat) /\ <<>> \in Seq(Nat)
      BY <1>1, <2>1 DEF RunsNext
    <3>2. Rest(i, N) \in Seq(Nat)
      BY <3>1 DEF Rest
    <3>3. QED BY <1>2, <3>1, <3>2
  <2>3. c \in Call /\ c.toks = L /\ c.pc = "loop" /\ c.op = "run" /\ c.dead = held[i].dead
    BY <1>1, <1>3, <2>1, <2>2 DEF Call, Looping
  <2>4. QED BY <1>3, <2>3 DEF LoopCall
<1>5. failures' \in 0..MaxFailures
  BY DEF TreeInv, Types
<1>7. /\ go' = go \union G /\ G \subseteq Goroutine
      /\ \A g \in G : /\ g.inst \in DOMAIN inst' \ DOMAIN inst /\ RunsIn(g.toks, g.inst)'
                      /\ \A k \in DOMAIN g.toks : g.toks[k] \notin DOMAIN tok
      /\ \A g, h \in G : g = h
  BY DEF StartsKid
<1>8. Ended(i)' => i = 1 /\ L = <<>> /\ \A u \in DOMAIN tok' : tok'[u].inst = i => ~Live(u)'
  BY DEF RoundEnds
<1>9. QED BY <1>1, <1>2, <1>4, <1>5, <1>7, <1>8, LoopKeeps

\* A child that has completed keeps its batch.
LEMMA RoundKept ==
    ASSUME TreeInv, NEW i \in DOMAIN inst, NEW t, RoundOf(i, t),
           processFlowNode(Rows, t).inst[i].state = "completed", ~held[i].failed,
           inst[i].kind # "default",
           Multi(i) => inst[i].started = shape.items,
           ~Multi(i) => tok[t].at = "end" /\ \A u \in DOMAIN tok : tok[u].inst = i /\ Live(u) => u = t
    PROVE  TreeInv'
<1>1. /\ held[i].pc = "loop" /\ held[i].toks # <<>>
      /\ held' = [held EXCEPT ![i] = [held[i] EXCEPT !.pc = "parent"]]
      /\ SameTables /\ lock' = lock /\ UNCHANGED <<go, failures>>
  BY DEF ProcessToken, RoundOf, Busy, SameTables, rows
<1>2. /\ t \in DOMAIN tok /\ tok[t].inst = i /\ held[i].toks[1] = t
      /\ ~Ended(i) /\ lock[i] = i /\ held[i].op = "run" /\ held[i] \in Call
  BY <1>1, HeadOfLoop DEF RoundOf
<1>3. PICK c : c = [held[i] EXCEPT !.pc = "parent"]
  OBVIOUS
<1>4. /\ c \in Call /\ c.pc = "parent" /\ c.op = held[i].op /\ c.toks = held[i].toks
      /\ c.todo = held[i].todo /\ c.dead = held[i].dead /\ c.failed = held[i].failed
  BY <1>2, <1>3 DEF Call
<1>5. held' = [held EXCEPT ![i] = c]
  BY <1>1, <1>3
<1>6. held \in [DOMAIN inst -> Call] /\ lock \in [DOMAIN inst -> Nat] /\ 1 \in DOMAIN inst
  BY DEF TreeInv, Types, Tree
<1>7. held'[i] = c /\ \A k \in DOMAIN inst \ {i} : held'[k] = held[k]
  BY <1>5, <1>6
<1>8. i # 1
  BY DEF TreeInv, Tree
<1>9. held'[1] = held[1]
  BY <1>6, <1>7, <1>8
<1>10. /\ tok' = tok /\ inst' = inst /\ shape' = shape /\ sub' = sub
  BY <1>1 DEF SameTables
<1>11. Cancels'
  <2>1. SameTree
    BY <1>10 DEF SameTree, Ended
  <2>2. \A k \in DOMAIN inst : lock[k] = 1 /\ held[1].pc = "cancel" => lock'[k] = 1
    BY <1>1
  <2>3. QED BY <1>9, <2>1, <2>2, CancelsStay
<1>12. LockOK(i)'
  <2>1. LockOK(i)
    BY DEF TreeInv, Locks
  <2>2. Completes(i)'
    BY <1>2, <1>4, <1>7, <1>10 DEF Completes, Multi, Live
  <2>3. ~Ended(i)'
    BY <1>2, <1>10 DEF Ended
  <2>4. QED BY <1>1, <1>2, <1>4, <1>7, <1>8, <1>10, <2>1, <2>2, <2>3 DEF LockOK
<1>13. lock' \in [DOMAIN inst -> Nat] /\ \A k \in DOMAIN inst \ {i} : lock'[k] = lock[k]
  BY <1>1, <1>6
<1>14. QED BY <1>1, <1>4, <1>5, <1>9, <1>11, <1>12, <1>13, CallChanges

\* A round that writes the token, the state of its instance, and may give it a job.
RowRound(i, t, row, a, s0, b, c) ==
    /\ row.inst = i /\ row.at \in PlacesOf(inst[i].kind)
    /\ row.state = "running" => row.at # "terminate"
    /\ a = [inst EXCEPT ![i].state = s0] /\ s0 # "terminated"
    /\ b = [tok EXCEPT ![t] = row]
    /\ processFlowNode(Rows, t) = RowSet(a, b, c, sub, incident, {})
    /\ s0 = "completed" /\ ~held[i].failed =>
          /\ inst[i].kind = "default" /\ row.state = "completed"
          /\ \A u \in TokensOf(i) : Live(u) => u = t
    /\ IF row.state = "waiting"
       THEN /\ c = Append(job, [token |-> t, state |-> "active"])
            /\ row.at \in {"task", "other"}
       ELSE c = job
    /\ Multi(i) => /\ row = [tok[t] EXCEPT !.state = "completed"]
                   /\ inst[i].started = shape.items

\* A round that writes one row of a token.
LEMMA RoundRow ==
    ASSUME TreeInv, NEW i \in DOMAIN inst, NEW t, RoundOf(i, t),
           NEW row \in TokenRow, NEW a, NEW s0 \in InstanceState, NEW b, NEW c,
           RowRound(i, t, row, a, s0, b, c)
    PROVE  TreeInv'
<1>0. /\ row.inst = i /\ row.at \in PlacesOf(inst[i].kind)
      /\ row.state = "running" => row.at # "terminate"
      /\ s0 # "terminated"
  BY DEF RowRound
<1>1. held[i].pc = "loop" /\ held[i].toks # <<>>
  BY DEF ProcessToken, RoundOf
<1>2. /\ t \in DOMAIN tok /\ tok[t].inst = i /\ tok[t].state = "running"
      /\ held[i].toks \in Seq(Nat) /\ ~Ended(i) /\ held[i] \in Call
  BY <1>1, HeadOfLoop DEF RoundOf
<1>3. tok \in Seq(TokenRow) /\ inst \in Seq(InstanceRow) /\ job \in Seq(JobRow) /\ t \in Nat
      /\ inst[i] \in InstanceRow /\ held[i].failed \in BOOLEAN /\ a[i].state = s0
  <2>1. tok \in Seq(TokenRow) /\ inst \in Seq(InstanceRow) /\ job \in Seq(JobRow)
    BY DEF TreeInv, Types
  <2>2. t \in Nat /\ inst[i] \in InstanceRow
    BY <1>2, <2>1
  <2>3. held[i].failed \in BOOLEAN
    BY <1>2 DEF Call
  <2>4. a[i].state = s0
    BY <2>1, <2>2 DEF InstanceRow, RowRound
  <2>5. QED BY <2>1, <2>2, <2>3, <2>4
<1>4. /\ \A j \in DOMAIN job : job[j].token = t => ~Pending(j)
      /\ t \notin incident /\ t \notin sub
      /\ \A k \in Kids : inst[k].token = t => Ended(k)
  BY <1>2, RunningToken
<1>5. PICK r : r = RowSet(a, b, c, sub, incident, {})
  OBVIOUS
<1>6. DOMAIN r.tok = DOMAIN tok /\ r.tok[t] = row
  BY <1>2, <1>3, <1>5 DEF RowSet, RowRound
<1>7. PICK N : N = RunningIn(r, t) /\ N \in {<<>>, <<t>>} /\ (N # <<>> => row.state = "running")
  BY <1>2, <1>6, RunningOne
<1>8. PICK s \in InstanceState : s = FinalState(i, a)
  BY <1>3 DEF InstanceState, FinalState
<1>9. s = IF held[i].failed THEN "failed" ELSE s0
  BY <1>3, <1>8 DEF FinalState
<1>10. PICK L : L = NextToks(i, s, N)
  OBVIOUS
<1>11. /\ inst' = [a EXCEPT ![i].state = s] /\ tok' = b /\ job' = c /\ sub' = sub
       /\ incident' = incident /\ go' = go \union {} /\ shape' = shape /\ failures' = failures
       /\ SameLocks /\ Holds(i, Looping(i, L))
  <2>1. Flushes(i, a)
    BY <1>3 DEF RowRound, Flushes
  <2>2. N = RunningIn(RowSet(a, b, c, sub, incident, {}), t)
    BY <1>5, <1>7
  <2>3. PICK d, e, f : d = sub /\ e = incident /\ f = {}
    OBVIOUS
  <2>4. /\ processFlowNode(Rows, t) = RowSet(a, b, c, d, e, f)
        /\ N = RunningIn(RowSet(a, b, c, d, e, f), t)
    BY <2>2, <2>3 DEF RowRound
  <2>5. /\ inst' = [a EXCEPT ![i].state = s] /\ tok' = b /\ job' = c /\ sub' = d
        /\ incident' = e /\ go' = go \union f /\ shape' = shape /\ failures' = failures
        /\ SameLocks /\ Holds(i, Looping(i, L))
    BY <1>8, <1>10, <2>1, <2>4, RoundFlush
  <2>6. QED BY <2>3, <2>5
<1>12. RowWritten(i, s, t, row)
  <2>1. inst' = [inst EXCEPT ![i].state = s]
    BY <1>3, <1>11 DEF InstanceRow, RowRound
  <2>2. QED BY <1>11, <2>1 DEF RowWritten, RowRound
<1>13. /\ job' \in Seq(JobRow) /\ Len(job) <= Len(job')
       /\ \A j \in DOMAIN job : job'[j] = job[j]
       /\ \A j \in DOMAIN job' \ DOMAIN job :
             /\ row.state = "waiting" /\ job'[j].token = t /\ job'[j].state = "active"
             /\ j = Len(job) + 1
       /\ row.state # "waiting" => job' = job
  <2>1. [token |-> t, state |-> "active"] \in JobRow
    BY <1>3 DEF JobRow, JobState
  <2>2. CASE row.state = "waiting"
    <3>1. PICK e \in JobRow : e = [token |-> t, state |-> "active"]
      BY <2>1
    <3>2. job' = Append(job, e) /\ e.token = t /\ e.state = "active"
      BY <1>11, <2>2, <3>1 DEF RowRound
    <3>3. /\ job' \in Seq(JobRow) /\ Len(job') = Len(job) + 1 /\ job'[Len(job) + 1] = e
          /\ \A j \in 1..Len(job) : job'[j] = job[j]
      BY <1>3, <3>2
    <3>4. QED BY <1>3, <2>2, <3>2, <3>3
  <2>3. CASE row.state # "waiting"
    BY <1>3, <1>11, <2>3 DEF RowRound
  <2>4. QED BY <2>2, <2>3
<1>14. OnlyOf(t)
  BY <1>11, <1>13 DEF OnlyOf
<1>15. /\ Writes({i}, {t}) /\ DOMAIN inst' = DOMAIN inst /\ DOMAIN tok' = DOMAIN tok
       /\ tok'[t] = row /\ inst'[i].state = s /\ inst'[i].started = inst[i].started
       /\ inst'[i].kind = inst[i].kind /\ \A u \in DOMAIN tok : u # t => tok'[u] = tok[u]
  <2>1. t \in DOMAIN tok /\ i = tok[t].inst /\ ~Ended(i) /\ shape' = shape /\ s \in InstanceState
        /\ row \in TokenRow /\ row.inst = i
    BY <1>0, <1>2, <1>8, <1>11
  <2>2. QED BY <1>12, <1>14, <2>1, WritesRow
<1>16. PlaceOK(t)'
  BY <1>0, <1>15 DEF PlaceOK
<1>17. WaitsAt(t)'
  <2>1. t \notin sub' /\ t \notin incident'
    BY <1>4, <1>11
  <2>2. ASSUME NEW j \in DOMAIN job', job'[j].token = t, Pending(j)'
        PROVE  /\ row.state = "waiting" /\ job'[j].state = "active" /\ j = Len(job) + 1
    BY <1>4, <1>13, <2>2 DEF Pending
  <2>3. QED BY <1>15, <2>1, <2>2 DEF WaitsAt, RowRound
<1>18. KidsOf(t)'
  <2>1. tok'[t].state = "waiting" => ~HasChild(t)'
    BY <1>15 DEF HasChild, RowRound
  <2>2. \A k \in DOMAIN inst' \ DOMAIN inst : inst'[k].token # t
    BY <1>15
  <2>3. QED BY <1>4, <1>15, <2>1, <2>2, NoKids
<1>19. Ended(i)' => s = "completed" /\ s0 = "completed" /\ ~held[i].failed
  BY <1>0, <1>9, <1>15 DEF Ended, EndedStates
<1>20. RoundEnds(i, L)
  <2>1. SUFFICES ASSUME Ended(i)' PROVE i = 1 /\ L = <<>>
                                        /\ \A u \in DOMAIN tok' : tok'[u].inst = i => ~Live(u)'
    BY DEF RoundEnds
  <2>2. inst[i].kind = "default" /\ row.state = "completed" /\ L = <<>>
        /\ \A u \in TokensOf(i) : Live(u) => u = t
    BY <1>10, <1>19, <2>1 DEF RowRound, NextToks
  <2>3. i = 1
    BY <2>2, RootIsDefault
  <2>4. ASSUME NEW u \in DOMAIN tok', tok'[u].inst = i PROVE ~Live(u)'
    <3>1. CASE u = t
      BY <1>15, <2>2, <3>1 DEF Live
    <3>2. CASE u # t
      BY <1>15, <2>2, <2>4, <3>2 DEF Live, TokensOf
    <3>3. QED BY <3>1, <3>2
  <2>5. QED BY <2>2, <2>3, <2>4
<1>21. ASSUME Multi(i) PROVE ItemsOK(i)'
  <2>1. row.state = "completed" /\ row.eik = tok[t].eik
    BY <1>2, <1>3, <1>21 DEF TokenRow, RowRound
  <2>2. SameRows /\ job' = job
    BY <1>13, <1>15, <2>1 DEF SameRows
  <2>3. ~Ended(i)'
    BY <1>19, <1>21 DEF Multi, RowRound
  <2>4. ItemsOK(i)
    BY <1>21 DEF TreeInv, Items
  <2>5. Live(t) /\ t \in TokensOf(i)
    BY <1>2 DEF Live, TokensOf
  <2>6. ASSUME ~shape.sequential PROVE ItemOK(t)'
    <3>1. /\ tok[t].eik = 2 /\ Begun(t) /\ ItemOK(t)
          /\ \A u \in TokensOf(i) : u # t => tok[u].state = "completed"
      BY <1>2, <1>21, <2>4, <2>5, <2>6, RunningItem DEF ItemsOK, RowRound
    <3>2. TokensOf(i)' = TokensOf(i) /\ Begun(t)'
      BY <1>15, <2>2, <3>1, SameCounts
    <3>3. \A u \in TokensOf(i) : u # t => tok'[u] = tok[u]
      BY <1>15 DEF TokensOf
    <3>4. QED BY <1>0, <1>4, <1>15, <2>1, <2>2, <3>1, <3>2, <3>3 DEF ItemOK, Pending
  <2>7. ASSUME NEW j \in DOMAIN job, job[j].token = t PROVE job'[j].state # "terminated"
    BY <1>2, <2>2, <2>4, <2>7 DEF ItemsOK, Ended, EndedStates
  <2>8. i \in {i} /\ t \in {t} /\ \A u \in {t} : tok[u].inst = i => u = t
    OBVIOUS
  <2>9. \A k \in {i} : k # 1 /\ ParentOf(k) = i => inst'[k].state # "terminated"
    BY <1>0, <1>9, <1>15
  <2>10. QED BY <1>2, <1>15, <1>21, <2>2, <2>3, <2>5, <2>6, <2>7, <2>8, <2>9, ItemsSame
<1>22. RunsNext(i, t, N)
  <2>1. <<>> \in Seq(Nat) /\ <<t>> \in Seq(Nat)
    BY <1>3
  <2>2. CASE N = <<>>
    BY <2>1, <2>2 DEF RunsNext
  <2>3. CASE N = <<t>>
    <3>1. /\ tok'[t] = row /\ row.inst = i /\ row.state = "running" /\ row.at # "terminate"
          /\ t \in DOMAIN tok'
      BY <1>0, <1>2, <1>7, <1>15, <2>3
    <3>2. DOMAIN N = {1} /\ N[1] = t
      BY <2>3
    <3>3. QED BY <2>1, <2>3, <3>1, <3>2 DEF RunsNext
  <2>4. QED BY <1>7, <2>2, <2>3
<1>23. PICK G : G = {} /\ StartsKid(G)
  <2>1. PICK G : G = {} /\ go' = go \union G
    BY <1>11, Zenon
  <2>2. StartsKid(G)
    BY <2>1 DEF StartsKid
  <2>3. QED BY <2>1, <2>2
<1>24. \A m \in DOMAIN inst' \ DOMAIN inst : Multi(m)' => ItemsOK(m)'
  BY <1>15
<1>25. SameLocks /\ Holds(i, Looping(i, L)) /\ failures' = failures /\ Writes({i}, {t})
  BY <1>11, <1>15
<1>26. QED BY <1>10, <1>16, <1>17, <1>18, <1>20, <1>21, <1>22, <1>23, <1>24, <1>25, RoundKeeps

\* The token of a round.
LEMMA TokenOfRound ==
    ASSUME TreeInv, NEW i \in DOMAIN inst, NEW t, RoundOf(i, t)
    PROVE  /\ held[i].pc = "loop" /\ held[i].toks # <<>> /\ tok[t].at # "terminate"
           /\ t \in DOMAIN tok /\ tok[t].inst = i /\ tok[t].state = "running" /\ Live(t)
           /\ tok[t].at \in PlacesOf(inst[i].kind) /\ ~Ended(i) /\ lock[i] = i
           /\ tok[t] \in TokenRow /\ inst[i] \in InstanceRow /\ tok \in Seq(TokenRow)
           /\ inst \in Seq(InstanceRow) /\ job \in Seq(JobRow) /\ t \in Nat
<1>1. held[i].pc = "loop" /\ held[i].toks # <<>> /\ tok[t].at # "terminate"
  BY DEF ProcessToken, RoundOf
<1>2. t \in DOMAIN tok /\ tok[t].inst = i /\ tok[t].state = "running" /\ ~Ended(i) /\ lock[i] = i
  BY <1>1, HeadOfLoop DEF RoundOf
<1>3. PlaceOK(t)
  BY <1>2 DEF TreeInv, Tree
<1>4. tok \in Seq(TokenRow) /\ inst \in Seq(InstanceRow) /\ job \in Seq(JobRow)
  BY DEF TreeInv, Types
<1>5. tok[t] \in TokenRow /\ inst[i] \in InstanceRow /\ t \in Nat
  BY <1>2, <1>4
<1>6. QED BY <1>1, <1>2, <1>3, <1>4, <1>5 DEF PlaceOK, Live

\* The rows before the step.
LEMMA RowsAre == Rows = RowSet(inst, tok, job, sub, incident, {})
BY DEF Rows, RowSet

\* The token moves on: from the start of a child, or past an activity without items.
LEMMA RoundMoves ==
    ASSUME TreeInv, NEW i \in DOMAIN inst, NEW t, RoundOf(i, t), ~Multi(i),
           tok[t].at \in {"act", "begin"},
           processFlowNode(Rows, t) = handleElementTransition(Rows, t)
    PROVE  TreeInv'
<1>1. /\ t \in DOMAIN tok /\ tok[t].inst = i /\ tok[t] \in TokenRow /\ tok \in Seq(TokenRow)
      /\ tok[t].at \in PlacesOf(inst[i].kind) /\ ~Ended(i)
  BY TokenOfRound
<1>2. PICK row : row = NextRow(tok, t, FALSE)
  OBVIOUS
<1>3. /\ row \in TokenRow /\ row.inst = i /\ row.at = Out[tok[t].at][1] /\ row.state = "running"
  BY <1>1, <1>2, NextType, ZenonT(40)
<1>4. row.at = IF tok[t].at = "act" THEN "end" ELSE "task"
  BY <1>3, OutOne
<1>5. PICK b : b = [tok EXCEPT ![t] = row]
  OBVIOUS
<1>6. handleElementTransition(RowSet(inst, tok, job, sub, incident, {}), t)
      = RowSet(inst, b, job, sub, incident, {})
  <2>1. inst[tok[t].inst].kind # "multi"
    BY <1>1 DEF Multi
  <2>2. inst[tok[t].inst].kind # "multi" => tok[t].at \in {"act", "other", "begin", "task"}
    OBVIOUS
  <2>3. row = NextRow(tok, t, inst[tok[t].inst].kind = "multi")
    BY <1>2, <2>1
  <2>4. b = [tok EXCEPT ![t] = NextRow(tok, t, inst[tok[t].inst].kind = "multi")]
    BY <1>5, <2>3
  <2>5. handleElementTransition(RowSet(inst, tok, job, sub, incident, {}), t)
        = RowSet(inst, [tok EXCEPT ![t] = NextRow(tok, t, inst[tok[t].inst].kind = "multi")],
                 job, sub, incident, {})
    BY <1>1, <2>2, TransitionRows
  <2>6. QED BY <2>4, <2>5
<1>7. processFlowNode(Rows, t) = RowSet(inst, b, job, sub, incident, {})
  BY <1>6, RowsAre
<1>8. PICK s0 \in InstanceState : s0 = inst[i].state /\ inst = [inst EXCEPT ![i].state = s0]
  BY SameState
<1>9. s0 \notin {"completed", "terminated"}
  BY <1>1, <1>8 DEF Ended, EndedStates
<1>10. row.at \in PlacesOf(inst[i].kind) /\ row.at # "terminate"
  BY <1>1, <1>4 DEF PlacesOf, Multi
<1>11. PICK a, c : a = inst /\ c = job
  OBVIOUS
<1>12. RowRound(i, t, row, a, s0, b, c)
  BY <1>3, <1>5, <1>7, <1>8, <1>9, <1>10, <1>11 DEF RowRound
<1>13. QED BY <1>3, <1>8, <1>12, RoundRow

\* A task: its job is created.
LEMMA RoundTask ==
    ASSUME TreeInv, NEW i \in DOMAIN inst, NEW t, RoundOf(i, t), tok[t].at \in {"task", "other"}
    PROVE  TreeInv'
<1>1. /\ t \in DOMAIN tok /\ tok[t].inst = i /\ tok[t] \in TokenRow /\ tok \in Seq(TokenRow)
      /\ tok[t].at \in PlacesOf(inst[i].kind) /\ ~Ended(i) /\ tok[t].state = "running"
  BY TokenOfRound
<1>2. PICK row : row = [tok[t] EXCEPT !.state = "waiting"]
  OBVIOUS
<1>3. /\ row \in TokenRow /\ row.inst = i /\ row.at = tok[t].at /\ row.state = "waiting"
  BY <1>1, <1>2 DEF TokenRow, TokenState
<1>4. PICK b : b = [tok EXCEPT ![t] = row]
  OBVIOUS
<1>5. PICK c : c = Append(job, [token |-> t, state |-> "active"])
  OBVIOUS
<1>6. processFlowNode(Rows, t) = RowSet(inst, b, c, sub, incident, {})
  <2>1. Rows.tok = tok
    BY DEF Rows
  <2>2. processFlowNode(Rows, t) = StartActivity(Rows, t, "task")
    BY <2>1 DEF processFlowNode, handleActivity
  <2>3. StartActivity(Rows, t, "task") = [createTask(Rows, t) EXCEPT !.tok[t].state = "waiting"]
    BY DEF StartActivity
  <2>4. createTask(Rows, t) = RowSet(inst, tok, c, sub, incident, {})
    <3>1. Rows.job = job
      BY DEF Rows
    <3>2. createTask(Rows, t) = [Rows EXCEPT !.job = c]
      BY <1>5, <3>1 DEF createTask
    <3>3. QED BY <3>2 DEF Rows, RowSet
  <2>5. [RowSet(inst, tok, c, sub, incident, {}) EXCEPT !.tok[t].state = "waiting"]
        = RowSet(inst, b, c, sub, incident, {})
    BY <1>2, <1>4 DEF RowSet
  <2>6. QED BY <2>2, <2>3, <2>4, <2>5
<1>7. PICK s0 \in InstanceState : s0 = inst[i].state /\ inst = [inst EXCEPT ![i].state = s0]
  BY SameState
<1>8. s0 \notin {"completed", "terminated"}
  BY <1>1, <1>7 DEF Ended, EndedStates
<1>9. ~Multi(i)
  BY <1>1 DEF PlacesOf, Multi
<1>10. PICK a : a = inst
  OBVIOUS
<1>11. RowRound(i, t, row, a, s0, b, c)
  BY <1>1, <1>3, <1>4, <1>5, <1>6, <1>7, <1>8, <1>9, <1>10 DEF RowRound
<1>12. QED BY <1>3, <1>7, <1>11, RoundRow

\* An instance completes, or a token does that is not its last: after a failure of
\* the loop the instance is saved as failed.
LEMMA RoundDone ==
    ASSUME TreeInv, NEW i \in DOMAIN inst, NEW t, RoundOf(i, t),
           NEW s0 \in InstanceState, s0 # "terminated", NEW a, a = [inst EXCEPT ![i].state = s0],
           processFlowNode(Rows, t)
              = RowSet(a, [tok EXCEPT ![t].state = "completed"], job, sub, incident, {}),
           s0 = "completed" /\ ~Multi(i) =>
              tok[t].at = "end" /\ \A u \in TokensOf(i) : Live(u) => u = t,
           Multi(i) => inst[i].started = shape.items /\ s0 = "completed"
    PROVE  TreeInv'
<1>1. /\ t \in DOMAIN tok /\ tok[t].inst = i /\ tok[t] \in TokenRow /\ tok \in Seq(TokenRow)
      /\ tok[t].at \in PlacesOf(inst[i].kind) /\ ~Ended(i) /\ tok[t].state = "running"
      /\ inst \in Seq(InstanceRow) /\ inst[i] \in InstanceRow
  BY TokenOfRound
<1>2. PICK row : row = [tok[t] EXCEPT !.state = "completed"]
  OBVIOUS
<1>3. /\ row \in TokenRow /\ row.inst = i /\ row.at = tok[t].at /\ row.state = "completed"
  BY <1>1, <1>2 DEF TokenRow, TokenState
<1>4. PICK b : b = [tok EXCEPT ![t] = row]
  OBVIOUS
<1>5. a[i].state = s0
  BY <1>1 DEF InstanceRow
<1>6. CASE s0 = "completed" /\ ~held[i].failed /\ inst[i].kind # "default"
  <2>1. processFlowNode(Rows, t).inst = a
    BY DEF RowSet
  <2>2. /\ processFlowNode(Rows, t).inst[i].state = "completed" /\ ~held[i].failed
        /\ inst[i].kind # "default"
    BY <1>5, <1>6, <2>1
  <2>3. ~Multi(i) => tok[t].at = "end" /\ \A u \in DOMAIN tok : tok[u].inst = i /\ Live(u) => u = t
    BY <1>6 DEF TokensOf
  <2>4. QED BY <2>2, <2>3, RoundKept
<1>7. CASE ~(s0 = "completed" /\ ~held[i].failed /\ inst[i].kind # "default")
  <2>1. PICK c : c = job
    OBVIOUS
  <2>2. b = [tok EXCEPT ![t].state = "completed"]
    BY <1>2, <1>4
  <2>3. processFlowNode(Rows, t) = RowSet(a, b, c, sub, incident, {})
    BY <2>1, <2>2
  <2>4. s0 = "completed" /\ ~held[i].failed =>
          /\ inst[i].kind = "default" /\ row.state = "completed"
          /\ \A u \in TokensOf(i) : Live(u) => u = t
    BY <1>3, <1>7 DEF Multi
  <2>5. RowRound(i, t, row, a, s0, b, c)
    BY <1>1, <1>2, <1>3, <1>4, <2>1, <2>3, <2>4 DEF RowRound
  <2>6. QED BY <1>3, <2>5, RoundRow
<1>8. QED BY <1>6, <1>7

\* The only member of a set that has no more than one.
LEMMA OnlyOne ==
    ASSUME NEW S, IsFiniteSet(S), ~(Cardinality(S) > 1), NEW t \in S, NEW u \in S
    PROVE  u = t
<1>1. IsFiniteSet(S \ {t}) /\ Cardinality(S \ {t}) = Cardinality(S) - 1
  BY FS_RemoveElement
<1>2. Cardinality(S) \in Nat /\ Cardinality(S \ {t}) \in Nat
  BY <1>1, FS_CardinalityType
<1>3. Cardinality(S \ {t}) = 0
  BY <1>1, <1>2
<1>4. S \ {t} = {}
  BY <1>1, <1>3, FS_EmptySet
<1>5. QED BY <1>4

\* The round at an end event (handlePlainEndEvent).
LEMMA RoundEnd ==
    ASSUME TreeInv, NEW i \in DOMAIN inst, NEW t, RoundOf(i, t), tok[t].at = "end"
    PROVE  TreeInv'
<1>1. /\ t \in DOMAIN tok /\ tok[t].inst = i /\ tok[t] \in TokenRow /\ tok \in Seq(TokenRow)
      /\ tok[t].at \in PlacesOf(inst[i].kind) /\ ~Ended(i) /\ Live(t)
  BY TokenOfRound
<1>2. ~Multi(i)
  BY <1>1 DEF PlacesOf, Multi
<1>3. PICK b : b = [tok EXCEPT ![t].state = "completed"]
  OBVIOUS
<1>4. PICK done : done = [Rows EXCEPT !.tok[t].state = "completed"]
  OBVIOUS
<1>5. done = RowSet(inst, b, job, sub, incident, {})
  BY <1>3, <1>4 DEF Rows, RowSet
<1>6. processFlowNode(Rows, t) = handlePlainEndEvent(Rows, t)
  <2>1. Rows.tok = tok
    BY DEF Rows
  <2>2. QED BY <2>1 DEF processFlowNode
<1>7. handlePlainEndEvent(Rows, t)
      = IF \/ sub \intersect TokensOf(i) # {} \/ PendingJobs(i) # {} \/ Cardinality(ActiveTokens(i)) > 1
        THEN done ELSE SetState(done, i, "completed")
  <2>1. Rows.tok[t].inst = i
    BY <1>1 DEF Rows
  <2>2. QED BY <1>4, <2>1 DEF handlePlainEndEvent
<1>8. CASE \/ sub \intersect TokensOf(i) # {} \/ PendingJobs(i) # {}
           \/ Cardinality(ActiveTokens(i)) > 1
  <2>1. PICK s0 \in InstanceState : s0 = inst[i].state /\ inst = [inst EXCEPT ![i].state = s0]
    BY SameState
  <2>2. s0 \notin {"completed", "terminated"}
    BY <1>1, <2>1 DEF Ended, EndedStates
  <2>3. PICK a : a = inst
    OBVIOUS
  <2>4. /\ a = [inst EXCEPT ![i].state = s0]
        /\ processFlowNode(Rows, t)
           = RowSet(a, [tok EXCEPT ![t].state = "completed"], job, sub, incident, {})
    BY <1>3, <1>5, <1>6, <1>7, <1>8, <2>1, <2>3
  <2>5. QED BY <1>2, <2>1, <2>2, <2>4, RoundDone
<1>9. CASE ~(\/ sub \intersect TokensOf(i) # {} \/ PendingJobs(i) # {}
             \/ Cardinality(ActiveTokens(i)) > 1)
  <2>1. PICK s0 \in InstanceState : s0 = "completed"
    BY DEF InstanceState
  <2>2. PICK a : a = [inst EXCEPT ![i].state = s0]
    OBVIOUS
  <2>3. SetState(done, i, "completed") = RowSet(a, b, job, sub, incident, {})
    BY <1>5, <2>1, <2>2 DEF SetState, RowSet
  <2>4. processFlowNode(Rows, t)
        = RowSet(a, [tok EXCEPT ![t].state = "completed"], job, sub, incident, {})
    BY <1>3, <1>6, <1>7, <1>9, <2>3
  <2>5. \A u \in TokensOf(i) : Live(u) => u = t
    <3>1. IsFiniteSet(ActiveTokens(i))
      <4>1. IsFiniteSet(TokensOf(i)) /\ ActiveTokens(i) \subseteq TokensOf(i)
        BY FiniteTables DEF ActiveTokens
      <4>2. QED BY <4>1, FS_Subset
    <3>2. t \in ActiveTokens(i) /\ ~(Cardinality(ActiveTokens(i)) > 1)
      BY <1>1, <1>9 DEF ActiveTokens, TokensOf
    <3>3. \A u \in ActiveTokens(i) : u = t
      BY <3>1, <3>2, OnlyOne
    <3>4. QED BY <3>3 DEF ActiveTokens
  <2>6. QED BY <1>2, <2>1, <2>2, <2>4, <2>5, RoundDone
<1>10. QED BY <1>8, <1>9

\* The last round of a multi-instance.
LEMMA RoundItemsDone ==
    ASSUME TreeInv, NEW i \in DOMAIN inst, NEW t, RoundOf(i, t), Multi(i),
           inst[i].started = shape.items
    PROVE  TreeInv'
<1>1. /\ t \in DOMAIN tok /\ tok[t].inst = i /\ tok[t] \in TokenRow /\ tok \in Seq(TokenRow)
      /\ tok[t].at \in PlacesOf(inst[i].kind)
  BY TokenOfRound
<1>2. tok[t].at = "act" /\ shape.multi
  BY <1>1 DEF PlacesOf, Multi, TreeInv, Items, ItemsOK
<1>3. Rows.tok = tok /\ Rows.inst = inst
  BY DEF Rows
<1>4. PICK done : done = [Rows EXCEPT !.tok[t].state = "completed"]
  OBVIOUS
<1>5. processFlowNode(Rows, t) = SetState(done, i, "completed")
  <2>1. processFlowNode(Rows, t) = handleMultiInstanceActivity(Rows, t)
    BY <1>2, <1>3 DEF processFlowNode
  <2>2. QED BY <1>1, <1>3, <1>4, <2>1 DEF handleMultiInstanceActivity, Multi
<1>6. PICK s0 \in InstanceState : s0 = "completed"
  BY DEF InstanceState
<1>7. PICK a : a = [inst EXCEPT ![i].state = s0]
  OBVIOUS
<1>8. PICK b : b = [tok EXCEPT ![t].state = "completed"]
  OBVIOUS
<1>9. done = RowSet(inst, b, job, sub, incident, {})
  BY <1>4, <1>8 DEF Rows, RowSet
<1>10. SetState(done, i, "completed") = RowSet(a, b, job, sub, incident, {})
  BY <1>6, <1>7, <1>9 DEF SetState, RowSet
<1>11. processFlowNode(Rows, t)
       = RowSet(a, [tok EXCEPT ![t].state = "completed"], job, sub, incident, {})
  BY <1>5, <1>8, <1>10
<1>12. QED BY <1>6, <1>7, <1>11, RoundDone

\* The start of a called process or subprocess, and an empty collection.
LEMMA RoundBegin ==
    ASSUME TreeInv, NEW i \in DOMAIN inst, NEW t, RoundOf(i, t), tok[t].at = "begin"
    PROVE  TreeInv'
<1>1. tok[t].at \in PlacesOf(inst[i].kind)
  BY TokenOfRound
<1>2. ~Multi(i)
  BY <1>1 DEF PlacesOf, Multi
<1>3. processFlowNode(Rows, t) = handleElementTransition(Rows, t)
  <2>1. Rows.tok = tok
    BY DEF Rows
  <2>2. QED BY <2>1 DEF processFlowNode
<1>4. QED BY <1>2, <1>3, RoundMoves

\* The round at a multi-instance activity with an empty collection.
LEMMA RoundEmpty ==
    ASSUME TreeInv, NEW i \in DOMAIN inst, NEW t, RoundOf(i, t), tok[t].at = "act", ~Multi(i),
           shape.multi, shape.items = 0
    PROVE  TreeInv'
<1>1. tok[t].inst = i
  BY TokenOfRound
<1>2. Rows.tok = tok /\ Rows.inst = inst
  BY DEF Rows
<1>3. processFlowNode(Rows, t) = handleMultiInstanceActivity(Rows, t)
  BY <1>2 DEF processFlowNode
<1>4. handleMultiInstanceActivity(Rows, t) = handleElementTransition(Rows, t)
  BY <1>1, <1>2 DEF handleMultiInstanceActivity, startSequentialMultiInstance,
                    startParallelMultiInstance, Multi
<1>5. QED BY <1>3, <1>4, RoundMoves

-----------------------------------------------------------------------------
(* A round that starts a child.                                            *)

Kid           == Len(inst) + 1
WaitRow(t)    == [tok[t] EXCEPT !.state = "waiting"]
StartRow(i, k) == [inst[i] EXCEPT !.started = k]
KidRow(kind, t) == Instance(kind, t, tok[t].eik)
KidToken(at)  == NewToken(Kid, at)

\* The instances, with a new one of token t; and the tokens, with n in it.
KidInst(i, t, kind, k, a) ==
    /\ a \in Seq(InstanceRow) /\ Len(a) = Len(inst) + 1
    /\ a[Kid] = KidRow(kind, t)
    /\ a[i] = StartRow(i, k)
    /\ \A j \in DOMAIN inst \ {i} : a[j] = inst[j]
KidToks(t, at, n, b) ==
    /\ b \in Seq(TokenRow) /\ Len(b) = Len(tok) + n
    /\ b[t] = WaitRow(t)
    /\ \A u \in DOMAIN tok \ {t} : b[u] = tok[u]
    /\ \A u \in (Len(tok) + 1)..(Len(tok) + n) : b[u] = KidToken(at)
KidGo(n) == {[inst |-> Kid, toks |-> [k \in 1..n |-> Len(tok) + k]]}

\* Which child it is.
KidKind(i, kind, at, n, k) ==
    /\ n \in Nat \ {0} /\ k \in Nat
    /\ kind = IF shape.multi /\ i = 1 THEN "multi" ELSE shape.inner
    /\ inst[i].kind \in {"default", "multi"}
    /\ kind \in {"multi", "call", "sub"} /\ at \in PlacesOf(kind)
    /\ kind = "multi" => shape.items > 0 /\ n = IF shape.sequential THEN 1 ELSE shape.items
    /\ Multi(i) => inst[i].started # shape.items /\ k = inst[i].started + 1

\* The row of the token that waits, and of the new instance.
LEMMA KidRows ==
    ASSUME TreeInv, NEW i \in DOMAIN inst, NEW t, RoundOf(i, t), NEW kind, NEW at, NEW n, NEW k,
           KidKind(i, kind, at, n, k)
    PROVE  /\ WaitRow(t) \in TokenRow /\ WaitRow(t).inst = i /\ WaitRow(t).at = tok[t].at
           /\ WaitRow(t).eik = tok[t].eik /\ WaitRow(t).state = "waiting"
           /\ StartRow(i, k) \in InstanceRow /\ StartRow(i, k).kind = inst[i].kind
           /\ StartRow(i, k).token = inst[i].token /\ StartRow(i, k).target = inst[i].target
           /\ StartRow(i, k).state = inst[i].state /\ StartRow(i, k).started = k
           /\ KidRow(kind, t) \in InstanceRow /\ KidRow(kind, t).kind = kind /\ KidRow(kind, t).token = t
           /\ KidRow(kind, t).state = "ready" /\ KidRow(kind, t).target = tok[t].eik
           /\ KidRow(kind, t).started = 0
           /\ KidToken(at) \in TokenRow /\ KidToken(at).inst = Kid /\ KidToken(at).at = at
           /\ KidToken(at).eik = 1 /\ KidToken(at).state = "running"
           /\ Kid \in Nat /\ Kid \notin DOMAIN inst
<1>1. /\ tok[t] \in TokenRow /\ inst[i] \in InstanceRow /\ inst \in Seq(InstanceRow) /\ t \in Nat
      /\ tok[t].inst = i
  BY TokenOfRound
<1>2. k \in Nat /\ kind \in {"multi", "call", "sub"} /\ at \in Place
  BY DEF KidKind, PlacesOf, Place
<1>3. /\ Kid \in Nat /\ Kid \notin DOMAIN inst
  BY <1>1 DEF Kid
<1>4. /\ WaitRow(t) \in TokenRow /\ WaitRow(t).inst = i /\ WaitRow(t).at = tok[t].at
      /\ WaitRow(t).eik = tok[t].eik /\ WaitRow(t).state = "waiting"
  BY <1>1 DEF TokenRow, TokenState, WaitRow
<1>5. /\ StartRow(i, k) \in InstanceRow /\ StartRow(i, k).kind = inst[i].kind
      /\ StartRow(i, k).token = inst[i].token /\ StartRow(i, k).target = inst[i].target
      /\ StartRow(i, k).state = inst[i].state /\ StartRow(i, k).started = k
  BY <1>1, <1>2 DEF InstanceRow, StartRow
<1>6. /\ KidRow(kind, t) \in InstanceRow /\ KidRow(kind, t).kind = kind /\ KidRow(kind, t).token = t
      /\ KidRow(kind, t).state = "ready" /\ KidRow(kind, t).target = tok[t].eik
      /\ KidRow(kind, t).started = 0
  <2>1. tok[t].eik \in Nat
    BY <1>1 DEF TokenRow
  <2>2. QED BY <1>1, <1>2, <2>1 DEF KidRow, Instance, InstanceRow, InstanceState
<1>7. /\ KidToken(at) \in TokenRow /\ KidToken(at).inst = Kid /\ KidToken(at).at = at
      /\ KidToken(at).eik = 1 /\ KidToken(at).state = "running"
  BY <1>2, <1>3 DEF KidToken, NewToken, TokenRow, TokenState
<1>8. QED BY <1>3, <1>4, <1>5, <1>6, <1>7

\* What the step has written.
KidStep(i, t, kind, at, n, k, s, d) ==
    /\ DOMAIN inst' = DOMAIN inst \union {Kid} /\ Kid \notin DOMAIN inst
    /\ inst' \in Seq(InstanceRow) /\ Len(inst) <= Len(inst')
    /\ inst'[Kid].kind = kind /\ inst'[Kid].token = t /\ inst'[Kid].state = "ready"
    /\ inst'[Kid].target = tok[t].eik /\ inst'[Kid].started = 0
    /\ inst'[i].kind = inst[i].kind /\ inst'[i].token = inst[i].token
    /\ inst'[i].target = inst[i].target /\ inst'[i].state = s /\ inst'[i].started = k
    /\ \A j \in DOMAIN inst \ {i} : inst'[j] = inst[j]
    /\ tok' \in Seq(TokenRow) /\ Len(tok) <= Len(tok')
    /\ DOMAIN tok' = DOMAIN tok \union ((Len(tok) + 1)..(Len(tok) + n))
    /\ DOMAIN tok = 1..Len(tok) /\ Len(tok) \in Nat
    /\ tok'[t].inst = i /\ tok'[t].at = tok[t].at /\ tok'[t].eik = tok[t].eik
    /\ tok'[t].state = "waiting"
    /\ \A u \in DOMAIN tok \ {t} : tok'[u] = tok[u]
    /\ \A u \in (Len(tok) + 1)..(Len(tok) + n) :
          tok'[u].inst = Kid /\ tok'[u].at = at /\ tok'[u].eik = 1 /\ tok'[u].state = "running"
    /\ job' = job /\ sub' = d /\ incident' = incident /\ shape' = shape
    /\ d = sub \/ (d = sub \union {t} /\ i = 1)

\* The tables after a token has started a child.
LEMMA KidTables ==
    ASSUME TreeInv, NEW i \in DOMAIN inst, NEW t, RoundOf(i, t), NEW kind, NEW at, NEW n, NEW k,
           KidKind(i, kind, at, n, k), NEW a, KidInst(i, t, kind, k, a), NEW b, KidToks(t, at, n, b),
           NEW s \in InstanceState, NEW d, d = sub \/ (d = sub \union {t} /\ i = 1),
           inst' = [a EXCEPT ![i].state = s], tok' = b, job' = job, sub' = d, incident' = incident,
           shape' = shape
    PROVE  KidStep(i, t, kind, at, n, k, s, d)
<1>1. /\ t \in DOMAIN tok /\ tok[t].inst = i /\ tok \in Seq(TokenRow)
      /\ inst \in Seq(InstanceRow) /\ inst[i] \in InstanceRow /\ n \in Nat
  BY TokenOfRound DEF KidKind
<1>2. PICK x : x = StartRow(i, k)
  OBVIOUS
<1>3. /\ x \in InstanceRow /\ x.kind = inst[i].kind /\ x.token = inst[i].token
      /\ x.target = inst[i].target /\ x.started = k
  BY <1>2, KidRows
<1>4. /\ a \in Seq(InstanceRow) /\ Len(a) = Len(inst) + 1 /\ a[Kid] = KidRow(kind, t)
      /\ a[i] = x /\ \A j \in DOMAIN inst \ {i} : a[j] = inst[j]
  BY <1>2 DEF KidInst
<1>5. PICK y : y = [x EXCEPT !.state = s]
  OBVIOUS
<1>6. /\ y \in InstanceRow /\ y.kind = inst[i].kind /\ y.token = inst[i].token
      /\ y.target = inst[i].target /\ y.started = k /\ y.state = s
  BY <1>3, <1>5 DEF InstanceRow
<1>7. inst' = [a EXCEPT ![i] = y]
  BY <1>4, <1>5
<1>8. Kid = Len(inst) + 1 /\ Kid \in Nat /\ Kid \notin DOMAIN inst
  BY KidRows DEF Kid
<1>9. DOMAIN a = DOMAIN inst \union {Kid} /\ i \in DOMAIN a /\ i # Kid
  BY <1>1, <1>4, <1>8
<1>10. /\ inst' \in Seq(InstanceRow) /\ DOMAIN inst' = DOMAIN a /\ Len(inst') = Len(a)
       /\ inst'[i] = y /\ \A j \in DOMAIN a \ {i} : inst'[j] = a[j]
  <2>1. DOMAIN inst' = DOMAIN a /\ inst'[i] = y /\ \A j \in DOMAIN a \ {i} : inst'[j] = a[j]
    BY <1>4, <1>7, <1>9
  <2>2. inst' \in Seq(InstanceRow) /\ Len(inst') = Len(a)
    <3>0. DOMAIN a = 1..Len(a)
      BY <1>4
    <3>1. i \in 1..Len(a)
      BY <1>9, <3>0
    <3>2. PICK z : z = [a EXCEPT ![i] = y]
      OBVIOUS
    <3>3. z \in Seq(InstanceRow) /\ Len(z) = Len(a)
      BY <1>4, <1>6, <3>1, <3>2, ExceptSeq
    <3>4. QED BY <1>7, <3>2, <3>3
  <2>3. QED BY <2>1, <2>2
<1>11. /\ DOMAIN inst' = DOMAIN inst \union {Kid} /\ Len(inst) <= Len(inst')
       /\ inst'[Kid] = KidRow(kind, t)
       /\ \A j \in DOMAIN inst \ {i} : inst'[j] = inst[j]
  BY <1>1, <1>4, <1>9, <1>10
<1>12. /\ inst'[Kid].kind = kind /\ inst'[Kid].token = t /\ inst'[Kid].state = "ready"
       /\ inst'[Kid].target = tok[t].eik /\ inst'[Kid].started = 0
  BY <1>11, KidRows
<1>13. /\ tok' \in Seq(TokenRow) /\ Len(tok') = Len(tok) + n
       /\ tok'[t] = WaitRow(t)
       /\ \A u \in DOMAIN tok \ {t} : tok'[u] = tok[u]
       /\ \A u \in (Len(tok) + 1)..(Len(tok) + n) : tok'[u] = KidToken(at)
  BY DEF KidToks
<1>14. /\ tok'[t].inst = i /\ tok'[t].at = tok[t].at /\ tok'[t].eik = tok[t].eik
       /\ tok'[t].state = "waiting"
  BY <1>13, KidRows
<1>15. \A u \in (Len(tok) + 1)..(Len(tok) + n) :
          tok'[u].inst = Kid /\ tok'[u].at = at /\ tok'[u].eik = 1 /\ tok'[u].state = "running"
  BY <1>13, KidRows
<1>16. /\ DOMAIN tok' = DOMAIN tok \union ((Len(tok) + 1)..(Len(tok) + n)) /\ Len(tok) <= Len(tok')
       /\ DOMAIN tok = 1..Len(tok) /\ Len(tok) \in Nat
  BY <1>1, <1>13
<1>17. QED BY <1>6, <1>8, <1>10, <1>11, <1>12, <1>13, <1>14, <1>15, <1>16 DEF KidStep

\* A token that starts a child writes its own row, and adds rows of the child.
LEMMA KidWrites ==
    ASSUME TreeInv, NEW i \in DOMAIN inst, NEW t, RoundOf(i, t), NEW kind, NEW at, NEW n, NEW k,
           KidKind(i, kind, at, n, k), NEW s, NEW d, KidStep(i, t, kind, at, n, k, s, d)
    PROVE  Writes({i}, {t})
<1>1. /\ t \in DOMAIN tok /\ tok[t].inst = i /\ ~Ended(i) /\ job \in Seq(JobRow)
  BY TokenOfRound
<1>2. /\ shape' = shape /\ inst' \in Seq(InstanceRow) /\ tok' \in Seq(TokenRow)
      /\ job' \in Seq(JobRow) /\ Len(inst) <= Len(inst') /\ Len(tok) <= Len(tok')
      /\ Len(job) <= Len(job')
  BY <1>1 DEF KidStep
<1>3. \A j \in DOMAIN inst : /\ inst'[j].kind = inst[j].kind /\ inst'[j].token = inst[j].token
                             /\ inst'[j].target = inst[j].target
                             /\ j \notin {i} => inst'[j] = inst[j]
  BY DEF KidStep
<1>4. \A u \in DOMAIN tok : tok'[u].inst = tok[u].inst /\ (u \notin {t} => tok'[u] = tok[u])
  BY <1>1 DEF KidStep
<1>5. /\ \A j \in DOMAIN job : /\ job'[j].token = job[j].token
                               /\ job[j].token \notin {t} => job'[j] = job[j]
      /\ \A j \in DOMAIN job' \ DOMAIN job : job'[j].token \in {t}
  BY DEF KidStep
<1>6. /\ sub' \subseteq sub \union {t} /\ incident' \subseteq incident \union {t}
      /\ \A u \in DOMAIN tok \ {t} : (u \in sub => u \in sub') /\ (u \in incident => u \in incident')
  BY DEF KidStep
<1>7. ASSUME NEW c \in DOMAIN inst' \ DOMAIN inst
      PROVE  /\ c = Kid /\ inst'[c].token \in {t} /\ inst'[c].state = "ready"
             /\ inst'[c].kind = IF shape.multi /\ tok[inst'[c].token].inst = 1
                                THEN "multi" ELSE shape.inner
             /\ inst[tok[inst'[c].token].inst].kind \in {"default", "multi"}
  <2>1. c = Kid /\ inst'[c].token = t /\ inst'[c].state = "ready" /\ inst'[c].kind = kind
    BY DEF KidStep
  <2>2. QED BY <1>1, <2>1 DEF KidKind
<1>8. ASSUME NEW u \in DOMAIN tok' \ DOMAIN tok
      PROVE  /\ tok'[u].state = "running" /\ tok'[u].eik = 1
             /\ tok'[u].inst \in {i} \union (DOMAIN inst' \ DOMAIN inst)
             /\ tok'[u].at \in PlacesOf(inst'[tok'[u].inst].kind)
  <2>1. u \in (Len(tok) + 1)..(Len(tok) + n)
    BY DEF KidStep
  <2>2. tok'[u].inst = Kid /\ tok'[u].at = at /\ tok'[u].eik = 1 /\ tok'[u].state = "running"
    BY <2>1 DEF KidStep
  <2>3. Kid \in DOMAIN inst' \ DOMAIN inst /\ inst'[Kid].kind = kind
    BY DEF KidStep
  <2>4. QED BY <2>2, <2>3 DEF KidKind
<1>9. QED BY <1>1, <1>2, <1>3, <1>4, <1>5, <1>6, <1>7, <1>8 DEF Writes

\* Nothing has happened in the new instance yet.
LEMMA KidIsNew ==
    ASSUME TreeInv, NEW i \in DOMAIN inst, NEW t, RoundOf(i, t), NEW kind, NEW at, NEW n, NEW k,
           KidKind(i, kind, at, n, k), NEW s, NEW d, KidStep(i, t, kind, at, n, k, s, d),
           NEW m, m = Kid
    PROVE  /\ \A j \in DOMAIN job' : job'[j].token \in DOMAIN tok /\ tok'[job'[j].token].inst # m
           /\ \A c \in Kids' : inst'[c].token \in DOMAIN tok /\ ParentOf(c)' # m
           /\ TokensOf(m)' = (Len(tok) + 1)..(Len(tok) + n)
           /\ \A u \in TokensOf(m)' : u \notin DOMAIN tok
<1>1. /\ t \in DOMAIN tok /\ tok[t].inst = i
  BY TokenOfRound
<1>2. Kid \notin DOMAIN inst
  BY DEF KidStep
<1>3. \A u \in DOMAIN tok : tok'[u].inst = tok[u].inst /\ tok[u].inst \in DOMAIN inst
  BY <1>1 DEF KidStep, TreeInv, Tree, PlaceOK
<1>4. \A u \in DOMAIN tok : tok'[u].inst # Kid
  BY <1>2, <1>3
<1>5. \A j \in DOMAIN job' : job'[j].token \in DOMAIN tok
  BY DEF KidStep, TreeInv, Tree
<1>6. ASSUME NEW c \in Kids' PROVE inst'[c].token \in DOMAIN tok
  <2>1. CASE c = Kid
    BY <1>1, <2>1 DEF KidStep
  <2>2. CASE c # Kid
    <3>1. c \in DOMAIN inst /\ c # 1 /\ inst'[c].token = inst[c].token
      BY <2>2, ZenonT(40) DEF KidStep, Kids
    <3>2. QED BY <3>1 DEF TreeInv, Tree, KidOK, Kids
  <2>3. QED BY <2>1, <2>2
<1>7. DOMAIN tok = 1..Len(tok) /\ Len(tok) \in Nat /\ n \in Nat
  BY DEF KidStep, KidKind
<1>8. \A u \in (Len(tok) + 1)..(Len(tok) + n) : u \notin DOMAIN tok
  BY <1>7
<1>9. TokensOf(m)' = (Len(tok) + 1)..(Len(tok) + n)
  <2>1. DOMAIN tok' = DOMAIN tok \union ((Len(tok) + 1)..(Len(tok) + n))
        /\ \A u \in (Len(tok) + 1)..(Len(tok) + n) : tok'[u].inst = m
    BY DEF KidStep
  <2>2. {u \in DOMAIN tok' : tok'[u].inst = m} = (Len(tok) + 1)..(Len(tok) + n)
    BY <1>4, <2>1
  <2>3. QED BY <2>2 DEF TokensOf
<1>10. QED BY <1>4, <1>5, <1>6, <1>8, <1>9 DEF ParentOf

\* A multi-instance starts with a token for each item, or with one for all of them.
LEMMA KidItems ==
    ASSUME TreeInv, NEW i \in DOMAIN inst, NEW t, RoundOf(i, t), NEW kind, NEW at, NEW n, NEW k,
           KidKind(i, kind, at, n, k), NEW s, NEW d, KidStep(i, t, kind, at, n, k, s, d),
           NEW m, m = Kid, Multi(m)'
    PROVE  ItemsOK(m)'
<1>1. inst'[m].kind = kind /\ inst'[m].state = "ready" /\ inst'[m].started = 0 /\ shape' = shape
  BY DEF KidStep
<1>2. kind = "multi"
  BY <1>1 DEF Multi
<1>3. /\ shape.multi /\ shape.items > 0 /\ n = IF shape.sequential THEN 1 ELSE shape.items
      /\ n \in Nat /\ shape.items \in Nat
  BY <1>2, ShapeType DEF KidKind
<1>4. /\ \A j \in DOMAIN job' : job'[j].token \in DOMAIN tok /\ tok'[job'[j].token].inst # m
      /\ \A c \in Kids' : inst'[c].token \in DOMAIN tok /\ ParentOf(c)' # m
      /\ TokensOf(m)' = (Len(tok) + 1)..(Len(tok) + n)
      /\ \A u \in TokensOf(m)' : u \notin DOMAIN tok
  BY KidIsNew
<1>5. Executions(m)' = 0
  <2>1. {j \in DOMAIN job : tok[job[j].token].inst = m}' = {}
    BY <1>4
  <2>2. {c \in DOMAIN inst : c # 1 /\ ParentOf(c) = m}' = {}
    BY <1>4 DEF Kids
  <2>3. QED BY <2>1, <2>2, FS_EmptySet DEF Executions
<1>6. \A u \in TokensOf(m)' : ~Begun(u)'
  BY <1>4 DEF Begun
<1>7. \A u \in TokensOf(m)' : tok'[u].eik = 1 /\ tok'[u].state = "running"
  BY <1>4 DEF KidStep
<1>8. \A u \in TokensOf(m)' : ItemOK(u)'
  BY <1>4, <1>6, <1>7 DEF ItemOK
<1>9. Len(tok) \in Nat
  BY DEF KidStep
<1>10. ASSUME ~shape.sequential PROVE Cardinality(TokensOf(m)') = shape.items
  <2>1. n = shape.items /\ n \in Nat /\ n > 0
    BY <1>3, <1>10
  <2>0. PICK l \in Nat : l = Len(tok)
    BY <1>9
  <2>2. PICK x \in Int, y \in Int : x = l + 1 /\ y = l + n
    BY <2>0, <2>1
  <2>3. ~(x > y) /\ y - x + 1 = n
    BY <2>0, <2>1, <2>2
  <2>4. Cardinality(x..y) = n
    BY <2>3, FS_Interval
  <2>5. QED BY <1>4, <2>0, <2>1, <2>2, <2>4
<1>11. ASSUME shape.sequential PROVE \A u, v \in TokensOf(m)' : u = v
  BY <1>3, <1>4, <1>9, <1>11
<1>12. Cardinality({u \in TokensOf(m) : Begun(u)}') = 0
  <2>1. {u \in TokensOf(m) : Begun(u)}' = {}
    BY <1>6
  <2>2. QED BY <2>1, FS_EmptySet
<1>13. \A j \in DOMAIN job' : tok'[job'[j].token].inst = m => job'[j].state # "terminated"
  BY <1>4
<1>14. \A c \in Kids' : ParentOf(c)' = m => inst'[c].state # "terminated"
  BY <1>4
<1>15. QED BY <1>1, <1>3, <1>5, <1>8, <1>10, <1>11, <1>12, <1>13, <1>14 DEF ItemsOK

\* The token waits for the new instance, and for no other.
LEMMA KidAwaited ==
    ASSUME TreeInv, NEW i \in DOMAIN inst, NEW t, RoundOf(i, t), NEW kind, NEW at, NEW n, NEW k,
           KidKind(i, kind, at, n, k), NEW s, NEW d, KidStep(i, t, kind, at, n, k, s, d),
           tok[t].at = "act", s \notin EndedStates
    PROVE  PlaceOK(t)' /\ WaitsAt(t)' /\ KidsOf(t)' /\ ~Ended(i)'
<1>1. /\ t \in DOMAIN tok /\ tok[t].inst = i /\ tok[t].state = "running"
      /\ tok[t].at \in PlacesOf(inst[i].kind)
  BY TokenOfRound
<1>2. /\ \A j \in DOMAIN job : job[j].token = t => ~Pending(j)
      /\ t \notin incident /\ t \notin sub
      /\ \A c \in Kids : inst[c].token = t => Ended(c)
  BY <1>1, RunningToken
<1>3. ~Ended(i)' /\ tok'[t].inst = i /\ i \in DOMAIN inst'
  BY DEF Ended, KidStep
<1>4. PlaceOK(t)'
  BY <1>1, <1>3 DEF PlaceOK, KidStep
<1>5. WaitsAt(t)'
  BY <1>2 DEF WaitsAt, KidStep, Pending
<1>6. KidsOf(t)'
  <2>1. PICK m : m = Kid
    OBVIOUS
  <2>2. m # 1 /\ m \in Kids'
    BY <2>1 DEF KidStep, TreeInv, Tree, Kids
  <2>3. inst'[m].token = t /\ ~Ended(m)' /\ inst'[m].target = tok'[t].eik
    BY <2>1 DEF KidStep, Ended, EndedStates
  <2>4. ASSUME NEW c \in Kids', inst'[c].token = t, ~Ended(c)' PROVE c = m
    <3>1. SUFFICES ASSUME c # m PROVE FALSE
      OBVIOUS
    <3>2. c \in Kids
      BY <2>1, <3>1 DEF KidStep, Kids
    <3>3. CASE c = i
      <4>1. inst[c].token = t
        BY <2>4, <3>2, <3>3 DEF KidStep
      <4>2. Ended(i)
        BY <1>2, <3>2, <3>3, <4>1
      <4>3. ~Ended(i)
        BY TokenOfRound
      <4>4. QED BY <4>2, <4>3
    <3>4. CASE c # i
      BY <1>2, <2>4, <3>2, <3>4 DEF KidStep, Ended, Kids
    <3>5. QED BY <3>3, <3>4
  <2>5. tok'[t].state = "waiting" /\ tok'[t].at = "act" /\ ~Ended(i)'
    BY <1>3 DEF KidStep
  <2>6. QED BY <1>3, <2>2, <2>3, <2>4, <2>5 DEF KidsOf
<1>7. QED BY <1>3, <1>4, <1>5, <1>6

\* The loop of the parent goes on without the token, and the child gets a goroutine.
LEMMA KidRuns ==
    ASSUME TreeInv, NEW i \in DOMAIN inst, NEW t, RoundOf(i, t), NEW kind, NEW at, NEW n, NEW k,
           KidKind(i, kind, at, n, k), NEW s, NEW d, KidStep(i, t, kind, at, n, k, s, d),
           NEW G, G = KidGo(n), go' = go \union G
    PROVE  StartsKid(G)
<1>1. PICK m : m = Kid
  OBVIOUS
<1>2. PICK L : L = [j \in 1..n |-> Len(tok) + j]
  OBVIOUS
<1>3. PICK g : g = [inst |-> m, toks |-> L]
  OBVIOUS
<1>4. G = {g} /\ g.inst = m /\ g.toks = L
  BY <1>1, <1>2, <1>3 DEF KidGo
<1>5. n \in Nat /\ Len(tok) \in Nat /\ DOMAIN tok = 1..Len(tok) /\ m \in Nat
  <2>1. n \in Nat
    BY DEF KidKind
  <2>2. tok \in Seq(TokenRow)
    BY DEF TreeInv, Types
  <2>3. Len(tok) \in Nat /\ DOMAIN tok = 1..Len(tok)
    BY <2>2
  <2>4. Kid \in Nat
    BY KidRows
  <2>5. QED BY <1>1, <2>1, <2>3, <2>4
<1>6. L \in Seq(Nat) /\ DOMAIN L = 1..n /\ \A j \in DOMAIN L : L[j] = Len(tok) + j
  BY <1>2, <1>5
<1>7. g \in Goroutine
  BY <1>3, <1>5, <1>6 DEF Goroutine
<1>8. m \in DOMAIN inst' \ DOMAIN inst
  BY <1>1 DEF KidStep
<1>9. \A j \in DOMAIN L : /\ L[j] \in (Len(tok) + 1)..(Len(tok) + n) /\ L[j] \notin DOMAIN tok
                          /\ \A l \in DOMAIN L : L[l] = L[j] => l = j
  BY <1>5, <1>6
<1>10. at # "terminate"
  BY DEF KidKind, PlacesOf
<1>11. RunsIn(L, m)'
  <2>1. ASSUME NEW j \in DOMAIN L
        PROVE  /\ L[j] \in DOMAIN tok' /\ tok'[L[j]].inst = m /\ tok'[L[j]].state = "running"
               /\ tok'[L[j]].at # "terminate"
    <3>1. L[j] \in (Len(tok) + 1)..(Len(tok) + n)
      BY <1>9
    <3>2. QED BY <1>1, <1>10, <3>1 DEF KidStep
  <2>2. QED BY <1>9, <2>1 DEF RunsIn
<1>12. QED BY <1>4, <1>7, <1>8, <1>9, <1>11 DEF StartsKid

\* No token of the instance runs after the round.
LEMMA KidNext ==
    ASSUME TreeInv, NEW i \in DOMAIN inst, NEW t, RoundOf(i, t), NEW kind, NEW at, NEW n, NEW k,
           KidKind(i, kind, at, n, k), NEW b, KidToks(t, at, n, b), NEW r, r.tok = b
    PROVE  RunningIn(r, t) = <<>>
<1>1. /\ t \in DOMAIN tok /\ tok[t].inst = i /\ tok \in Seq(TokenRow) /\ n \in Nat
  BY TokenOfRound DEF KidKind
<1>2. b[t].inst = i /\ b[t].state = "waiting"
  BY KidRows DEF KidToks
<1>3. Kid # i
  BY KidRows
<1>4. \A u \in DOMAIN b : u > Len(tok) => b[u].inst = Kid
  <2>1. DOMAIN b = 1..(Len(tok) + n) /\ Len(tok) \in Nat
    BY <1>1 DEF KidToks
  <2>2. \A u \in DOMAIN b : u > Len(tok) => u \in (Len(tok) + 1)..(Len(tok) + n)
    BY <1>1, <2>1
  <2>3. QED BY <2>2, KidRows DEF KidToks
<1>5. {u \in DOMAIN r.tok : /\ r.tok[u].state = "running" /\ r.tok[u].inst = r.tok[t].inst
                            /\ u = t \/ u > Len(tok)} = {}
  BY <1>2, <1>3, <1>4
<1>6. RunningIn(r, t) = InOrder({})
  BY <1>5 DEF RunningIn
<1>7. InOrder({}) = <<>>
  <2>1. 1 \in Nat
    OBVIOUS
  <2>2. QED BY <2>1, InOrderOne
<1>8. QED BY <1>6, <1>7

\* A round that starts a child.
KidRound(i, t, kind, at, n, k, a, b, d) ==
    /\ KidKind(i, kind, at, n, k) /\ KidInst(i, t, kind, k, a) /\ KidToks(t, at, n, b)
    /\ d = sub \/ (d = sub \union {t} /\ i = 1)
    /\ processFlowNode(Rows, t) = RowSet(a, b, job, d, incident, KidGo(n))

\* A round in which a token starts a child.
LEMMA RoundKid ==
    ASSUME TreeInv, NEW i \in DOMAIN inst, NEW t, RoundOf(i, t), tok[t].at = "act",
           NEW kind, NEW at, NEW n, NEW k, NEW a, NEW b, NEW d,
           KidRound(i, t, kind, at, n, k, a, b, d)
    PROVE  TreeInv'
<1>1. /\ KidKind(i, kind, at, n, k) /\ KidInst(i, t, kind, k, a) /\ KidToks(t, at, n, b)
      /\ d = sub \/ (d = sub \union {t} /\ i = 1)
      /\ processFlowNode(Rows, t) = RowSet(a, b, job, d, incident, KidGo(n))
  BY DEF KidRound
<1>2. /\ t \in DOMAIN tok /\ tok[t].inst = i /\ tok[t].state = "running" /\ ~Ended(i)
      /\ inst[i] \in InstanceRow
  BY TokenOfRound
<1>3. a[i].state = inst[i].state
  BY <1>1, KidRows DEF KidInst
<1>4. PICK s : s = FinalState(i, a)
  OBVIOUS
<1>5. s \in InstanceState /\ s \notin EndedStates
  BY <1>2, <1>3, <1>4 DEF FinalState, InstanceRow, InstanceState, Ended, EndedStates
<1>6. PICK c, e, G : c = job /\ e = incident /\ G = KidGo(n)
  OBVIOUS
<1>7. PICK r : r = RowSet(a, b, c, d, e, G)
  OBVIOUS
<1>8. r.tok = b
  BY <1>7 DEF RowSet
<1>9. PICK N : N = RunningIn(r, t)
  OBVIOUS
<1>10. N = <<>>
  BY <1>1, <1>8, <1>9, KidNext
<1>11. PICK L : L = NextToks(i, s, N)
  OBVIOUS
<1>12. /\ inst' = [a EXCEPT ![i].state = s] /\ tok' = b /\ job' = c /\ sub' = d
       /\ incident' = e /\ go' = go \union G /\ shape' = shape /\ failures' = failures
       /\ SameLocks /\ Holds(i, Looping(i, L))
  <2>1. Flushes(i, a)
    BY <1>2, <1>3 DEF Flushes, Ended, EndedStates
  <2>2. processFlowNode(Rows, t) = RowSet(a, b, c, d, e, G) /\ N = RunningIn(RowSet(a, b, c, d, e, G), t)
    BY <1>1, <1>6, <1>7, <1>9
  <2>3. QED BY <1>4, <1>11, <2>1, <2>2, RoundFlush
<1>13. KidStep(i, t, kind, at, n, k, s, d)
  <2>1. job' = job /\ incident' = incident
    BY <1>6, <1>12
  <2>2. QED BY <1>1, <1>5, <1>12, <2>1, KidTables
<1>14. Writes({i}, {t})
  BY <1>1, <1>13, KidWrites
<1>15. PlaceOK(t)' /\ WaitsAt(t)' /\ KidsOf(t)' /\ ~Ended(i)'
  BY <1>1, <1>5, <1>13, KidAwaited
<1>16. StartsKid(G)
  BY <1>1, <1>6, <1>12, <1>13, KidRuns
<1>17. RoundEnds(i, L)
  BY <1>15 DEF RoundEnds
<1>18. RunsNext(i, t, N)
  BY <1>10 DEF RunsNext
<1>19. ASSUME NEW m \in DOMAIN inst' \ DOMAIN inst, Multi(m)' PROVE ItemsOK(m)'
  <2>1. m = Kid
    BY <1>13 DEF KidStep
  <2>2. QED BY <1>1, <1>13, <1>19, <2>1, KidItems
<1>20. ASSUME Multi(i) PROVE ItemsOK(i)'
  <2>1. inst[i].started # shape.items /\ k = inst[i].started + 1
    BY <1>1, <1>20 DEF KidKind
  <2>2. /\ inst'[i].started = k /\ tok'[t].state = "waiting" /\ tok'[t].eik = tok[t].eik
        /\ \A u \in DOMAIN tok' \ DOMAIN tok : tok'[u].inst # i
        /\ \A j \in DOMAIN job : job'[j] = job[j]
    BY <1>13 DEF KidStep
  <2>3. shape.inner # "task"
    <3>1. i # 1
      BY <1>20 DEF Multi, TreeInv, Tree
    <3>2. QED BY <1>1, <3>1 DEF KidKind
  <2>4. PICK m : m = Kid
    OBVIOUS
  <2>5. /\ DOMAIN inst' = DOMAIN inst \union {m} /\ m \notin DOMAIN inst
        /\ inst'[m].token = t /\ DOMAIN job' = DOMAIN job
    BY <1>13, <2>4 DEF KidStep
  <2>6. inst'[i].started = inst[i].started + 1
    BY <2>1, <2>2
  <2>7. IF shape.inner = "task"
        THEN /\ DOMAIN job' = DOMAIN job \union {m} /\ m \notin DOMAIN job
             /\ job'[m].token = t /\ job'[m].state = "active" /\ DOMAIN inst' = DOMAIN inst
        ELSE /\ DOMAIN inst' = DOMAIN inst \union {m} /\ m \notin DOMAIN inst
             /\ inst'[m].token = t /\ DOMAIN job' = DOMAIN job
    BY <2>3, <2>5
  <2>8. QED BY <1>2, <1>14, <1>15, <1>20, <2>1, <2>2, <2>6, <2>7, ItemStarts
<1>21. SameLocks /\ Holds(i, Looping(i, L)) /\ failures' = failures
  BY <1>12
<1>22. QED BY <1>11, <1>14, <1>15, <1>16, <1>17, <1>18, <1>19, <1>20, <1>21, RoundKeeps

\* The tables with the rows of the new instance.
MoreInst(kind, t) == Append(inst, KidRow(kind, t))
MoreToks(at, n)   == tok \o [j \in 1..n |-> KidToken(at)]

\* The rows of createInstanceWithStartingElements.
LEMMA CreateRows ==
    ASSUME NEW t, NEW kind, NEW at, NEW n
    PROVE  createInstanceWithStartingElements(Rows, t, kind, at, n)
           = RowSet(MoreInst(kind, t), MoreToks(at, n), job, sub, incident, KidGo(n))
<1>1. Rows.inst = inst /\ Rows.tok = tok /\ Rows.go = {}
  BY DEF Rows
<1>2. PICK x, y, z : x = MoreInst(kind, t) /\ y = MoreToks(at, n) /\ z = KidGo(n)
  OBVIOUS
<1>3. /\ x = Append(Rows.inst, Instance(kind, t, Rows.tok[t].eik))
      /\ y = Rows.tok \o [j \in 1..n |-> NewToken(Len(Rows.inst) + 1, at)]
      /\ z = Rows.go \union {[inst |-> Len(Rows.inst) + 1, toks |-> [j \in 1..n |-> Len(Rows.tok) + j]]}
  BY <1>1, <1>2 DEF MoreInst, MoreToks, KidRow, KidToken, Kid, KidGo
<1>4. createInstanceWithStartingElements(Rows, t, kind, at, n)
      = [Rows EXCEPT !.inst = x, !.tok = y, !.go = z]
  BY <1>3 DEF createInstanceWithStartingElements
<1>5. [Rows EXCEPT !.inst = x, !.tok = y, !.go = z] = RowSet(x, y, job, sub, incident, z)
  <2>1. PICK p : p = [Rows EXCEPT !.inst = x]
    OBVIOUS
  <2>2. p = RowSet(x, tok, job, sub, incident, {})
    BY <2>1 DEF Rows, RowSet
  <2>3. PICK q : q = [p EXCEPT !.tok = y]
    OBVIOUS
  <2>4. q = RowSet(x, y, job, sub, incident, {})
    BY <2>2, <2>3 DEF RowSet
  <2>5. [q EXCEPT !.go = z] = RowSet(x, y, job, sub, incident, z)
    BY <2>4 DEF RowSet
  <2>6. [Rows EXCEPT !.inst = x, !.tok = y, !.go = z] = [q EXCEPT !.go = z]
    BY <2>1, <2>3
  <2>7. QED BY <2>5, <2>6
<1>6. QED BY <1>2, <1>4, <1>5

\* The tokens with those of the child appended.
LEMMA MoreToksAre ==
    ASSUME TreeInv, NEW i \in DOMAIN inst, NEW t, RoundOf(i, t), NEW kind, NEW at, NEW n, NEW k,
           KidKind(i, kind, at, n, k), NEW b, b = [MoreToks(at, n) EXCEPT ![t].state = "waiting"]
    PROVE  KidToks(t, at, n, b)
<1>1. /\ t \in DOMAIN tok /\ tok \in Seq(TokenRow) /\ n \in Nat
  BY TokenOfRound DEF KidKind
<1>2. KidToken(at) \in TokenRow /\ WaitRow(t) \in TokenRow
  BY KidRows
<1>3. PICK q \in Seq(TokenRow) : q = [j \in 1..n |-> KidToken(at)]
  <2>1. PICK e \in TokenRow : e = KidToken(at)
    BY <1>2
  <2>2. [j \in 1..n |-> e] \in Seq(TokenRow)
    BY <1>1
  <2>3. QED BY <2>1, <2>2
<1>4. Len(q) = n /\ \A j \in 1..n : q[j] = KidToken(at)
  BY <1>1, <1>3
<1>5. PICK y : y = tok \o q
  OBVIOUS
<1>6. /\ y \in Seq(TokenRow) /\ Len(y) = Len(tok) + n /\ Len(tok) \in Nat /\ DOMAIN tok = 1..Len(tok)
      /\ \A u \in 1..Len(tok) : y[u] = tok[u]
      /\ \A u \in (Len(tok) + 1)..(Len(tok) + n) : y[u] = q[u - Len(tok)]
  <2>1. y \in Seq(TokenRow) /\ Len(y) = Len(tok) + n /\ Len(tok) \in Nat /\ DOMAIN tok = 1..Len(tok)
    BY <1>1, <1>3, <1>4, <1>5
  <2>2. \A u \in 1..(Len(tok) + Len(q)) : y[u] = IF u <= Len(tok) THEN tok[u] ELSE q[u - Len(tok)]
    BY <1>1, <1>3, <1>5, ConcatProperties
  <2>3. QED BY <1>1, <1>4, <2>1, <2>2
<1>7. \A u \in (Len(tok) + 1)..(Len(tok) + n) : y[u] = KidToken(at)
  BY <1>1, <1>4, <1>6
<1>8. y = MoreToks(at, n)
  BY <1>3, <1>5 DEF MoreToks
<1>9. PICK w : w = WaitRow(t)
  OBVIOUS
<1>10. b = [y EXCEPT ![t] = w]
  <2>1. y[t] = tok[t]
    BY <1>1, <1>6
  <2>2. QED BY <1>8, <1>9, <2>1 DEF WaitRow
<1>11. DOMAIN y = 1..(Len(tok) + n) /\ t \in 1..Len(y) /\ t \in 1..Len(tok) /\ t \in DOMAIN y
  BY <1>1, <1>6
<1>12. b \in Seq(TokenRow) /\ Len(b) = Len(y)
  <2>1. w \in TokenRow
    BY <1>2, <1>9
  <2>2. PICK z : z = [y EXCEPT ![t] = w]
    OBVIOUS
  <2>3. z \in Seq(TokenRow) /\ Len(z) = Len(y)
    BY <1>6, <1>11, <2>1, <2>2, ExceptSeq
  <2>4. QED BY <1>10, <2>2, <2>3
<1>13. /\ b[t] = w /\ \A u \in DOMAIN y \ {t} : b[u] = y[u]
  BY <1>10, <1>11
<1>14. \A u \in DOMAIN tok \ {t} : b[u] = tok[u]
  BY <1>1, <1>6, <1>11, <1>13
<1>15. \A u \in (Len(tok) + 1)..(Len(tok) + n) : b[u] = KidToken(at)
  BY <1>1, <1>6, <1>7, <1>11, <1>13
<1>16. QED BY <1>6, <1>9, <1>12, <1>13, <1>14, <1>15 DEF KidToks

\* The instances with the child appended.
LEMMA MoreInstIs ==
    ASSUME TreeInv, NEW i \in DOMAIN inst, NEW t, RoundOf(i, t), NEW kind, NEW at, NEW n, NEW k,
           KidKind(i, kind, at, n, k), NEW a, a = [MoreInst(kind, t) EXCEPT ![i].started = k]
    PROVE  KidInst(i, t, kind, k, a)
<1>1. inst \in Seq(InstanceRow) /\ inst[i] \in InstanceRow
  BY TokenOfRound
<1>2. StartRow(i, k) \in InstanceRow /\ KidRow(kind, t) \in InstanceRow
  BY KidRows
<1>3. PICK w : w = StartRow(i, k)
  OBVIOUS
<1>4. PICK e \in InstanceRow : e = KidRow(kind, t)
  BY <1>2
<1>5. PICK y : y = Append(inst, e)
  OBVIOUS
<1>6. /\ y \in Seq(InstanceRow) /\ Len(y) = Len(inst) + 1 /\ y[Len(inst) + 1] = e /\ Len(inst) \in Nat
      /\ \A j \in 1..Len(inst) : y[j] = inst[j]
      /\ DOMAIN inst = 1..Len(inst)
  BY <1>1, <1>5
<1>7. a = [y EXCEPT ![i] = w]
  <2>1. y = MoreInst(kind, t) /\ y[i] = inst[i]
    BY <1>4, <1>5, <1>6 DEF MoreInst
  <2>2. QED BY <1>3, <2>1 DEF StartRow
<1>8. DOMAIN y = 1..(Len(inst) + 1) /\ i \in 1..Len(y) /\ i # Kid /\ Kid = Len(inst) + 1
  BY <1>6 DEF Kid
<1>9. a \in Seq(InstanceRow) /\ Len(a) = Len(y)
  <2>1. w \in InstanceRow
    BY <1>2, <1>3
  <2>2. PICK z : z = [y EXCEPT ![i] = w]
    OBVIOUS
  <2>3. z \in Seq(InstanceRow) /\ Len(z) = Len(y)
    BY <1>6, <1>8, <2>1, <2>2, ExceptSeq
  <2>4. QED BY <1>7, <2>2, <2>3
<1>10. a[i] = w /\ \A j \in DOMAIN y \ {i} : a[j] = y[j]
  BY <1>7, <1>8
<1>11. a[Kid] = KidRow(kind, t)
  BY <1>4, <1>6, <1>8, <1>10
<1>12. \A j \in DOMAIN inst \ {i} : a[j] = inst[j]
  BY <1>6, <1>8, <1>10
<1>13. QED BY <1>3, <1>6, <1>9, <1>10, <1>11, <1>12 DEF KidInst

\* Unless it is a multi-instance, the instance is written as it was.
LEMMA StartedSame ==
    ASSUME TreeInv, NEW i \in DOMAIN inst, NEW t, RoundOf(i, t), NEW kind, NEW at, NEW n, NEW k,
           KidKind(i, kind, at, n, k)
    PROVE  MoreInst(kind, t) = [MoreInst(kind, t) EXCEPT ![i].started = inst[i].started]
<1>1. inst \in Seq(InstanceRow) /\ inst[i] \in InstanceRow
  BY TokenOfRound
<1>2. PICK e \in InstanceRow : e = KidRow(kind, t)
  BY KidRows
<1>3. PICK y : y = Append(inst, e)
  OBVIOUS
<1>4. y \in Seq(InstanceRow) /\ y[i] = inst[i] /\ i \in DOMAIN y
  BY <1>1, <1>3
<1>5. [inst[i] EXCEPT !.started = inst[i].started] = inst[i]
  BY <1>1 DEF InstanceRow
<1>6. [y EXCEPT ![i].started = inst[i].started] = y
  BY <1>4, <1>5
<1>7. QED BY <1>2, <1>3, <1>6 DEF MoreInst

\* A call activity or a subprocess.
LEMMA ActivityRows ==
    ASSUME NEW t, NEW kind \in {"call", "sub"}, NEW n, n = 1, NEW at, at = "begin",
           NEW b, b = [MoreToks(at, n) EXCEPT ![t].state = "waiting"]
    PROVE  StartActivity(Rows, t, kind)
           = RowSet(MoreInst(kind, t), b, job, sub, incident, KidGo(n))
<1>1. PICK s : s = createInstanceWithStartingElements(Rows, t, kind, at, n)
  OBVIOUS
<1>2. StartActivity(Rows, t, kind) = [s EXCEPT !.tok[t].state = "waiting"]
  BY <1>1 DEF StartActivity, createCallActivity, createSubProcess
<1>3. PICK x, y, z : x = MoreInst(kind, t) /\ y = MoreToks(at, n) /\ z = KidGo(n)
  OBVIOUS
<1>4. s = RowSet(x, y, job, sub, incident, z)
  BY <1>1, <1>3, CreateRows
<1>5. [s EXCEPT !.tok[t].state = "waiting"]
      = RowSet(x, [y EXCEPT ![t].state = "waiting"], job, sub, incident, z)
  BY <1>4 DEF RowSet
<1>6. QED BY <1>2, <1>3, <1>5

\* The multi-instance of the root's activity.
LEMMA MultiInstanceRows ==
    ASSUME NEW t, NEW n, NEW b, b = [MoreToks("act", n) EXCEPT ![t].state = "waiting"],
           NEW d, d = sub \union {t}
    PROVE  StartMultiInstance(Rows, t, n)
           = RowSet(MoreInst("multi", t), b, job, d, incident, KidGo(n))
<1>1. PICK s : s = createInstanceWithStartingElements(Rows, t, "multi", "act", n)
  OBVIOUS
<1>2. PICK q : q = [s EXCEPT !.tok[t].state = "waiting"]
  OBVIOUS
<1>3. StartMultiInstance(Rows, t, n) = createBoundaryEventSubscriptions(q, t)
  BY <1>1, <1>2 DEF StartMultiInstance
<1>4. PICK x, y, z : x = MoreInst("multi", t) /\ y = MoreToks("act", n) /\ z = KidGo(n)
  OBVIOUS
<1>5. s = RowSet(x, y, job, sub, incident, z)
  BY <1>1, <1>4, CreateRows
<1>6. q = RowSet(x, b, job, sub, incident, z)
  BY <1>2, <1>4, <1>5 DEF RowSet
<1>7. createBoundaryEventSubscriptions(q, t) = RowSet(x, b, job, d, incident, z)
  BY <1>6, BoundaryRows
<1>8. QED BY <1>3, <1>4, <1>7

\* The round that starts a multi-instance (startParallelMultiInstance,
\* startSequentialMultiInstance).
LEMMA RoundMulti ==
    ASSUME TreeInv, NEW i \in DOMAIN inst, NEW t, RoundOf(i, t), tok[t].at = "act", ~Multi(i),
           shape.multi, shape.items # 0
    PROVE  TreeInv'
<1>1. /\ tok[t].inst = i /\ tok[t].at \in PlacesOf(inst[i].kind) /\ inst[i] \in InstanceRow
  BY TokenOfRound
<1>2. inst[i].kind = "default" /\ i = 1
  <2>1. inst[i].kind = "default"
    BY <1>1 DEF PlacesOf, Multi
  <2>2. QED BY <2>1, RootIsDefault
<1>3. Rows.tok = tok /\ Rows.inst = inst
  BY DEF Rows
<1>4. PICK n : n = IF shape.sequential THEN 1 ELSE shape.items
  OBVIOUS
<1>5. processFlowNode(Rows, t) = StartMultiInstance(Rows, t, n)
  <2>1. processFlowNode(Rows, t) = handleMultiInstanceActivity(Rows, t)
    BY <1>3 DEF processFlowNode
  <2>2. handleMultiInstanceActivity(Rows, t) = StartMultiInstance(Rows, t, n)
    BY <1>1, <1>3, <1>4 DEF handleMultiInstanceActivity, startSequentialMultiInstance,
                            startParallelMultiInstance, Multi
  <2>3. QED BY <2>1, <2>2
<1>6. PICK k \in Nat : k = inst[i].started
  BY <1>1 DEF InstanceRow
<1>7. PICK kind, at : kind = "multi" /\ at = "act"
  OBVIOUS
<1>8. KidKind(i, kind, at, n, k)
  <2>1. shape.items \in Nat
    BY ShapeType
  <2>2. n \in Nat \ {0} /\ shape.items > 0
    BY <1>4, <2>1
  <2>3. QED BY <1>2, <1>4, <1>6, <1>7, <2>2 DEF KidKind, PlacesOf
<1>9. PICK a : a = MoreInst(kind, t)
  OBVIOUS
<1>10. PICK b : b = [MoreToks(at, n) EXCEPT ![t].state = "waiting"]
  OBVIOUS
<1>11. PICK d : d = sub \union {t}
  OBVIOUS
<1>12. KidInst(i, t, kind, k, a)
  <2>1. a = [MoreInst(kind, t) EXCEPT ![i].started = k]
    BY <1>6, <1>8, <1>9, StartedSame
  <2>2. QED BY <1>8, <2>1, MoreInstIs
<1>13. KidToks(t, at, n, b)
  BY <1>8, <1>10, MoreToksAre
<1>14. processFlowNode(Rows, t) = RowSet(a, b, job, d, incident, KidGo(n))
  BY <1>5, <1>7, <1>9, <1>10, <1>11, MultiInstanceRows
<1>15. KidRound(i, t, kind, at, n, k, a, b, d)
  BY <1>2, <1>8, <1>11, <1>12, <1>13, <1>14 DEF KidRound
<1>16. QED BY <1>15, RoundKid

\* The round that starts a called process or a subprocess (createCallActivity, createSubProcess).
LEMMA RoundCall ==
    ASSUME TreeInv, NEW i \in DOMAIN inst, NEW t, RoundOf(i, t), tok[t].at = "act", ~shape.multi
    PROVE  TreeInv'
<1>1. /\ tok[t].inst = i /\ tok[t].at \in PlacesOf(inst[i].kind) /\ inst[i] \in InstanceRow
  BY TokenOfRound
<1>2. inst[i].kind = "default" /\ i = 1
  <2>1. ~Multi(i)
    BY DEF TreeInv, Items, ItemsOK
  <2>2. inst[i].kind = "default"
    BY <1>1, <2>1 DEF PlacesOf, Multi
  <2>3. QED BY <2>2, RootIsDefault
<1>3. Rows.tok = tok
  BY DEF Rows
<1>4. PICK kind \in {"call", "sub"} : kind = shape.inner
  BY ShapeType
<1>5. PICK n, at : n = 1 /\ at = "begin"
  OBVIOUS
<1>6. processFlowNode(Rows, t)
      = createBoundaryEventSubscriptions(StartActivity(Rows, t, kind), t)
  BY <1>3, <1>4 DEF processFlowNode, handleActivity
<1>7. PICK k \in Nat : k = inst[i].started
  BY <1>1 DEF InstanceRow
<1>8. KidKind(i, kind, at, n, k)
  BY <1>2, <1>4, <1>5, <1>7 DEF KidKind, PlacesOf, Multi
<1>9. PICK a : a = MoreInst(kind, t)
  OBVIOUS
<1>10. PICK b : b = [MoreToks(at, n) EXCEPT ![t].state = "waiting"]
  OBVIOUS
<1>11. PICK d : d = sub \union {t}
  OBVIOUS
<1>12. KidInst(i, t, kind, k, a)
  <2>1. a = [MoreInst(kind, t) EXCEPT ![i].started = k]
    BY <1>7, <1>8, <1>9, StartedSame
  <2>2. QED BY <1>8, <2>1, MoreInstIs
<1>13. KidToks(t, at, n, b)
  BY <1>8, <1>10, MoreToksAre
<1>14. processFlowNode(Rows, t) = RowSet(a, b, job, d, incident, KidGo(n))
  <2>1. StartActivity(Rows, t, kind) = RowSet(a, b, job, sub, incident, KidGo(n))
    BY <1>4, <1>5, <1>9, <1>10, ActivityRows
  <2>2. PICK q : q = RowSet(a, b, job, sub, incident, KidGo(n))
    OBVIOUS
  <2>3. createBoundaryEventSubscriptions(q, t) = RowSet(a, b, job, d, incident, KidGo(n))
    BY <1>11, <2>2, BoundaryRows
  <2>4. QED BY <1>6, <2>1, <2>2, <2>3
<1>15. KidRound(i, t, kind, at, n, k, a, b, d)
  BY <1>2, <1>8, <1>11, <1>12, <1>13, <1>14 DEF KidRound
<1>16. QED BY <1>15, RoundKid

\* The round in which a multi-instance starts a called process or subprocess for its next item.
LEMMA RoundItem ==
    ASSUME TreeInv, NEW i \in DOMAIN inst, NEW t, RoundOf(i, t), Multi(i),
           inst[i].started # shape.items, shape.inner # "task"
    PROVE  TreeInv'
<1>1. /\ tok[t].inst = i /\ tok[t].at \in PlacesOf(inst[i].kind) /\ inst[i] \in InstanceRow
      /\ inst \in Seq(InstanceRow)
  BY TokenOfRound
<1>2. tok[t].at = "act" /\ shape.multi /\ i # 1
  BY <1>1 DEF PlacesOf, Multi, TreeInv, Items, ItemsOK, Tree
<1>3. Rows.tok = tok /\ Rows.inst = inst
  BY DEF Rows
<1>4. PICK kind \in {"call", "sub"} : kind = shape.inner
  BY ShapeType
<1>5. PICK n, at : n = 1 /\ at = "begin"
  OBVIOUS
<1>6. PICK q : q = StartActivity(Rows, t, kind)
  OBVIOUS
<1>7. processFlowNode(Rows, t) = [q EXCEPT !.inst[i].started = @ + 1]
  <2>1. processFlowNode(Rows, t) = handleMultiInstanceActivity(Rows, t)
    BY <1>2, <1>3 DEF processFlowNode
  <2>2. QED BY <1>1, <1>3, <1>4, <1>6, <2>1 DEF handleMultiInstanceActivity, Multi
<1>8. PICK k \in Nat : k = inst[i].started + 1
  BY <1>1 DEF InstanceRow
<1>9. KidKind(i, kind, at, n, k)
  BY <1>2, <1>4, <1>5, <1>8 DEF KidKind, PlacesOf, Multi
<1>10. PICK x : x = MoreInst(kind, t)
  OBVIOUS
<1>11. PICK a : a = [x EXCEPT ![i].started = k]
  OBVIOUS
<1>12. PICK b : b = [MoreToks(at, n) EXCEPT ![t].state = "waiting"]
  OBVIOUS
<1>13. KidInst(i, t, kind, k, a)
  BY <1>9, <1>10, <1>11, MoreInstIs
<1>14. KidToks(t, at, n, b)
  BY <1>9, <1>12, MoreToksAre
<1>15. processFlowNode(Rows, t) = RowSet(a, b, job, sub, incident, KidGo(n))
  <2>1. PICK g : g = KidGo(n)
    OBVIOUS
  <2>2. q = RowSet(x, b, job, sub, incident, g)
    BY <1>4, <1>5, <1>6, <1>10, <1>12, <2>1, ActivityRows
  <2>3. x[i].started = inst[i].started
    <3>1. PICK e \in InstanceRow : e = KidRow(kind, t)
      BY <1>9, KidRows
    <3>2. x = Append(inst, e)
      BY <1>10, <3>1 DEF MoreInst
    <3>3. x[i] = inst[i]
      BY <1>1, <3>2
    <3>4. QED BY <3>3
  <2>4. q.inst[i].started + 1 = k
    BY <1>8, <2>2, <2>3 DEF RowSet
  <2>5. [q EXCEPT !.inst[i].started = @ + 1] = [q EXCEPT !.inst[i].started = k]
    BY <2>4
  <2>6. [q EXCEPT !.inst[i].started = k] = RowSet(a, b, job, sub, incident, g)
    BY <1>11, <2>2 DEF RowSet
  <2>7. QED BY <1>7, <2>1, <2>5, <2>6
<1>16. PICK d : d = sub
  OBVIOUS
<1>17. KidRound(i, t, kind, at, n, k, a, b, d)
  BY <1>9, <1>13, <1>14, <1>15, <1>16 DEF KidRound
<1>18. QED BY <1>2, <1>17, RoundKid

\* The step has written the count of items, the token and a job.
ItemStep(i, t, k, s) ==
    /\ inst' \in Seq(InstanceRow) /\ DOMAIN inst' = DOMAIN inst /\ Len(inst') = Len(inst)
    /\ inst'[i].kind = inst[i].kind /\ inst'[i].token = inst[i].token
    /\ inst'[i].target = inst[i].target /\ inst'[i].state = s /\ inst'[i].started = k
    /\ \A j \in DOMAIN inst \ {i} : inst'[j] = inst[j]
    /\ tok' \in Seq(TokenRow) /\ DOMAIN tok' = DOMAIN tok /\ Len(tok') = Len(tok)
    /\ tok'[t].inst = i /\ tok'[t].at = tok[t].at /\ tok'[t].eik = tok[t].eik
    /\ tok'[t].state = "waiting"
    /\ \A u \in DOMAIN tok \ {t} : tok'[u] = tok[u]
    /\ job' \in Seq(JobRow) /\ DOMAIN job' = DOMAIN job \union {Len(job) + 1}
    /\ Len(job) <= Len(job') /\ Len(job) + 1 \notin DOMAIN job
    /\ \A j \in DOMAIN job : job'[j] = job[j]
    /\ job'[Len(job) + 1].token = t /\ job'[Len(job) + 1].state = "active"
    /\ sub' = sub /\ incident' = incident /\ shape' = shape

\* The tables after a token has created a job.
LEMMA ItemTables ==
    ASSUME TreeInv, NEW i \in DOMAIN inst, NEW t, RoundOf(i, t), NEW k \in Nat,
           NEW s \in InstanceState, NEW a, a = [inst EXCEPT ![i].started = k],
           inst' = [a EXCEPT ![i].state = s], tok' = [tok EXCEPT ![t].state = "waiting"],
           job' = Append(job, [token |-> t, state |-> "active"]), sub' = sub,
           incident' = incident, shape' = shape
    PROVE  ItemStep(i, t, k, s)
<1>1. /\ t \in DOMAIN tok /\ tok[t].inst = i /\ tok[t] \in TokenRow /\ tok \in Seq(TokenRow)
      /\ inst \in Seq(InstanceRow) /\ inst[i] \in InstanceRow /\ job \in Seq(JobRow) /\ t \in Nat
  BY TokenOfRound
<1>2. PICK x : x = [inst[i] EXCEPT !.started = k]
  OBVIOUS
<1>3. /\ x \in InstanceRow /\ x.kind = inst[i].kind /\ x.token = inst[i].token
      /\ x.target = inst[i].target /\ x.started = k
  BY <1>1, <1>2 DEF InstanceRow
<1>4. PICK y : y = [x EXCEPT !.state = s]
  OBVIOUS
<1>5. /\ y \in InstanceRow /\ y.kind = inst[i].kind /\ y.token = inst[i].token
      /\ y.target = inst[i].target /\ y.started = k /\ y.state = s
  BY <1>3, <1>4 DEF InstanceRow
<1>6. inst' = [inst EXCEPT ![i] = y]
  <2>1. a = [inst EXCEPT ![i] = x]
    BY <1>2
  <2>2. a[i] = x
    BY <1>1, <2>1
  <2>3. inst' = [a EXCEPT ![i] = y]
    BY <1>4, <2>2
  <2>4. QED BY <1>1, <2>1, <2>3
<1>7. /\ inst' \in Seq(InstanceRow) /\ DOMAIN inst' = DOMAIN inst /\ Len(inst') = Len(inst)
      /\ inst'[i] = y /\ \A j \in DOMAIN inst \ {i} : inst'[j] = inst[j]
  <2>1. DOMAIN inst' = DOMAIN inst /\ inst'[i] = y /\ \A j \in DOMAIN inst \ {i} : inst'[j] = inst[j]
    BY <1>1, <1>6
  <2>2. PICK z : z = [inst EXCEPT ![i] = y]
    OBVIOUS
  <2>3. i \in 1..Len(inst)
    BY <1>1
  <2>4. z \in Seq(InstanceRow) /\ Len(z) = Len(inst)
    BY <1>1, <1>5, <2>2, <2>3, ExceptSeq
  <2>5. QED BY <1>6, <2>1, <2>2, <2>4
<1>8. PICK w : w = [tok[t] EXCEPT !.state = "waiting"]
  OBVIOUS
<1>9. /\ w \in TokenRow /\ w.inst = i /\ w.at = tok[t].at /\ w.eik = tok[t].eik /\ w.state = "waiting"
  BY <1>1, <1>8 DEF TokenRow, TokenState
<1>10. tok' = [tok EXCEPT ![t] = w]
  BY <1>8
<1>11. /\ tok' \in Seq(TokenRow) /\ DOMAIN tok' = DOMAIN tok /\ Len(tok') = Len(tok)
       /\ tok'[t] = w /\ \A u \in DOMAIN tok \ {t} : tok'[u] = tok[u]
  BY <1>1, <1>9, <1>10
<1>12. PICK e \in JobRow : e = [token |-> t, state |-> "active"]
  BY <1>1 DEF JobRow, JobState
<1>13. job' = Append(job, e) /\ e.token = t /\ e.state = "active"
  BY <1>12
<1>14. /\ job' \in Seq(JobRow) /\ Len(job') = Len(job) + 1 /\ job'[Len(job) + 1] = e
       /\ \A j \in 1..Len(job) : job'[j] = job[j]
       /\ DOMAIN job' = 1..(Len(job) + 1) /\ DOMAIN job = 1..Len(job) /\ Len(job) \in Nat
  BY <1>1, <1>13
<1>15. /\ DOMAIN job' = DOMAIN job \union {Len(job) + 1} /\ Len(job) <= Len(job')
       /\ Len(job) + 1 \notin DOMAIN job /\ \A j \in DOMAIN job : job'[j] = job[j]
  BY <1>14
<1>16. QED BY <1>5, <1>7, <1>9, <1>11, <1>13, <1>14, <1>15 DEF ItemStep

\* A token that creates a job writes its own row, and adds the job.
LEMMA ItemWrites ==
    ASSUME TreeInv, NEW i \in DOMAIN inst, NEW t, RoundOf(i, t), NEW k, NEW s, ItemStep(i, t, k, s)
    PROVE  Writes({i}, {t})
<1>1. /\ t \in DOMAIN tok /\ tok[t].inst = i /\ ~Ended(i) /\ inst \in Seq(InstanceRow)
      /\ tok \in Seq(TokenRow)
  BY TokenOfRound
<1>2. /\ shape' = shape /\ inst' \in Seq(InstanceRow) /\ tok' \in Seq(TokenRow)
      /\ job' \in Seq(JobRow) /\ Len(inst) <= Len(inst') /\ Len(tok) <= Len(tok')
      /\ Len(job) <= Len(job')
  BY <1>1 DEF ItemStep
<1>3. \A j \in DOMAIN inst : /\ inst'[j].kind = inst[j].kind /\ inst'[j].token = inst[j].token
                             /\ inst'[j].target = inst[j].target
                             /\ j \notin {i} => inst'[j] = inst[j]
  BY DEF ItemStep
<1>4. \A u \in DOMAIN tok : tok'[u].inst = tok[u].inst /\ (u \notin {t} => tok'[u] = tok[u])
  BY <1>1 DEF ItemStep
<1>5. /\ \A j \in DOMAIN job : /\ job'[j].token = job[j].token
                               /\ job[j].token \notin {t} => job'[j] = job[j]
      /\ \A j \in DOMAIN job' \ DOMAIN job : job'[j].token \in {t}
  BY DEF ItemStep
<1>6. /\ sub' \subseteq sub \union {t} /\ incident' \subseteq incident \union {t}
      /\ \A u \in DOMAIN tok \ {t} : (u \in sub => u \in sub') /\ (u \in incident => u \in incident')
      /\ DOMAIN inst' \ DOMAIN inst = {} /\ DOMAIN tok' \ DOMAIN tok = {}
  BY DEF ItemStep
<1>7. QED BY <1>1, <1>2, <1>3, <1>4, <1>5, <1>6 DEF Writes

\* The round in which a token creates a job (createTask).
LEMMA RoundJob ==
    ASSUME TreeInv, NEW i \in DOMAIN inst, NEW t, RoundOf(i, t), Multi(i),
           inst[i].started # shape.items, shape.inner = "task"
    PROVE  TreeInv'
<1>1. /\ tok[t].inst = i /\ tok[t].at \in PlacesOf(inst[i].kind) /\ inst[i] \in InstanceRow
      /\ inst \in Seq(InstanceRow) /\ ~Ended(i) /\ tok[t].state = "running" /\ t \in DOMAIN tok
      /\ job \in Seq(JobRow)
  BY TokenOfRound
<1>2. tok[t].at = "act" /\ shape.multi /\ i # 1
  BY <1>1 DEF PlacesOf, Multi, TreeInv, Items, ItemsOK, Tree
<1>3. Rows.tok = tok /\ Rows.inst = inst /\ Rows.job = job
  BY DEF Rows
<1>4. PICK c : c = Append(job, [token |-> t, state |-> "active"])
  OBVIOUS
<1>5. PICK b : b = [tok EXCEPT ![t].state = "waiting"]
  OBVIOUS
<1>6. PICK k \in Nat : k = inst[i].started + 1
  BY <1>1 DEF InstanceRow
<1>7. PICK a : a = [inst EXCEPT ![i].started = k]
  OBVIOUS
<1>8. PICK d, e, f : d = sub /\ e = incident /\ f = {}
  OBVIOUS
<1>9. processFlowNode(Rows, t) = RowSet(a, b, c, d, e, f)
  <2>1. processFlowNode(Rows, t) = [StartActivity(Rows, t, "task") EXCEPT !.inst[i].started = @ + 1]
    <3>1. processFlowNode(Rows, t) = handleMultiInstanceActivity(Rows, t)
      BY <1>2, <1>3 DEF processFlowNode
    <3>2. QED BY <1>1, <1>3, <3>1 DEF handleMultiInstanceActivity, Multi
  <2>2. StartActivity(Rows, t, "task") = [createTask(Rows, t) EXCEPT !.tok[t].state = "waiting"]
    BY DEF StartActivity
  <2>3. createTask(Rows, t) = RowSet(inst, tok, c, d, e, f)
    <3>1. createTask(Rows, t) = [Rows EXCEPT !.job = c]
      BY <1>3, <1>4 DEF createTask
    <3>2. QED BY <1>8, <3>1 DEF Rows, RowSet
  <2>4. PICK q : q = RowSet(inst, b, c, d, e, f)
    OBVIOUS
  <2>5. [RowSet(inst, tok, c, d, e, f) EXCEPT !.tok[t].state = "waiting"] = q
    BY <1>5, <2>4 DEF RowSet
  <2>6. q.inst[i].started + 1 = k
    BY <1>6, <2>4 DEF RowSet
  <2>7. [q EXCEPT !.inst[i].started = @ + 1] = [q EXCEPT !.inst[i].started = k]
    BY <2>6
  <2>8. [q EXCEPT !.inst[i].started = k] = RowSet(a, b, c, d, e, f)
    BY <1>7, <2>4 DEF RowSet
  <2>9. QED BY <2>1, <2>2, <2>3, <2>5, <2>7, <2>8
<1>10. a[i].state = inst[i].state
  BY <1>1, <1>7 DEF InstanceRow
<1>11. PICK s : s = FinalState(i, a)
  OBVIOUS
<1>12. s \in InstanceState /\ s \notin EndedStates
  BY <1>1, <1>10, <1>11 DEF FinalState, InstanceRow, InstanceState, Ended, EndedStates
<1>13. PICK r : r = RowSet(a, b, c, d, e, f)
  OBVIOUS
<1>14. PICK N : N = RunningIn(r, t)
  OBVIOUS
<1>15. N = <<>>
  <2>1. DOMAIN r.tok = DOMAIN tok /\ r.tok[t].state = "waiting"
    <3>1. r.tok = b
      BY <1>13 DEF RowSet
    <3>2. tok[t] \in TokenRow
      BY TokenOfRound
    <3>3. QED BY <1>1, <1>5, <3>1, <3>2 DEF TokenRow
  <2>2. QED BY <1>1, <1>14, <2>1, RunningOne
<1>16. PICK L : L = NextToks(i, s, N)
  OBVIOUS
<1>17. /\ inst' = [a EXCEPT ![i].state = s] /\ tok' = b /\ job' = c /\ sub' = d
       /\ incident' = e /\ go' = go \union f /\ shape' = shape /\ failures' = failures
       /\ SameLocks /\ Holds(i, Looping(i, L))
  <2>1. Flushes(i, a)
    BY <1>1, <1>10 DEF Flushes, Ended, EndedStates
  <2>2. N = RunningIn(RowSet(a, b, c, d, e, f), t)
    BY <1>13, <1>14
  <2>3. QED BY <1>9, <1>11, <1>16, <2>1, <2>2, RoundFlush
<1>18. ItemStep(i, t, k, s)
  <2>1. /\ sub' = sub /\ incident' = incident /\ tok' = [tok EXCEPT ![t].state = "waiting"]
        /\ job' = Append(job, [token |-> t, state |-> "active"])
    BY <1>4, <1>5, <1>8, <1>17
  <2>2. QED BY <1>7, <1>12, <1>17, <2>1, ItemTables
<1>19. Writes({i}, {t})
  BY <1>18, ItemWrites
<1>20. /\ \A j \in DOMAIN job : job[j].token = t => ~Pending(j)
       /\ t \notin incident /\ t \notin sub
       /\ \A j \in Kids : inst[j].token = t => Ended(j)
  BY <1>1, RunningToken
<1>21. ~Ended(i)'
  BY <1>12, <1>18 DEF Ended, ItemStep
<1>22. PlaceOK(t)'
  BY <1>1, <1>18 DEF PlaceOK, ItemStep
<1>23. WaitsAt(t)'
  <2>1. PICK n : n = Len(job) + 1
    OBVIOUS
  <2>2. \A j \in DOMAIN job' : job'[j].token = t /\ Pending(j)' => j = n
    BY <1>18, <1>20, <2>1 DEF ItemStep, Pending
  <2>3. /\ job'[n].state = "active" /\ tok'[t].state = "waiting" /\ tok'[t].inst = i
        /\ inst'[i].kind = "multi" /\ shape' = shape /\ sub' = sub /\ incident' = incident
    BY <1>18, <2>1 DEF ItemStep, Multi
  <2>4. QED BY <1>20, <2>2, <2>3 DEF WaitsAt, Multi
<1>24. KidsOf(t)'
  <2>1. ~HasChild(t)'
    BY <1>2, <1>18 DEF HasChild, ItemStep
  <2>2. \A j \in DOMAIN inst' \ DOMAIN inst : inst'[j].token # t
    BY <1>18 DEF ItemStep
  <2>3. QED BY <1>19, <1>20, <2>1, <2>2, NoKids
<1>25. ItemsOK(i)'
  <2>1. PICK n : n = Len(job) + 1
    OBVIOUS
  <2>2. IF shape.inner = "task"
        THEN /\ DOMAIN job' = DOMAIN job \union {n} /\ n \notin DOMAIN job
             /\ job'[n].token = t /\ job'[n].state = "active" /\ DOMAIN inst' = DOMAIN inst
        ELSE /\ DOMAIN inst' = DOMAIN inst \union {n} /\ n \notin DOMAIN inst
             /\ inst'[n].token = t /\ DOMAIN job' = DOMAIN job
    BY <1>18, <2>1 DEF ItemStep
  <2>3. /\ inst'[i].started = inst[i].started + 1 /\ tok'[t].state = "waiting"
        /\ tok'[t].eik = tok[t].eik /\ \A u \in DOMAIN tok' \ DOMAIN tok : tok'[u].inst # i
        /\ \A j \in DOMAIN job : job'[j] = job[j]
    BY <1>6, <1>18 DEF ItemStep
  <2>4. QED BY <1>1, <1>19, <1>21, <2>2, <2>3, ItemStarts
<1>26. RoundEnds(i, L)
  BY <1>21 DEF RoundEnds
<1>27. RunsNext(i, t, N)
  BY <1>15 DEF RunsNext
<1>28. StartsKid(f)
  BY <1>8, <1>17 DEF StartsKid
<1>29. \A m \in DOMAIN inst' \ DOMAIN inst : Multi(m)' => ItemsOK(m)'
  BY <1>18 DEF ItemStep
<1>30. SameLocks /\ Holds(i, Looping(i, L)) /\ failures' = failures
  BY <1>17
<1>31. QED BY <1>16, <1>19, <1>22, <1>23, <1>24, <1>25, <1>26, <1>27, <1>28, <1>29, <1>30, RoundKeeps

\* The start event of the root: its token moves to the activity, a new one to the task.
ForkStep(t, n) ==
    /\ inst' \in Seq(InstanceRow) /\ DOMAIN inst' = DOMAIN inst /\ Len(inst') = Len(inst)
    /\ \A j \in DOMAIN inst : /\ inst'[j].kind = inst[j].kind /\ inst'[j].token = inst[j].token
                              /\ inst'[j].target = inst[j].target
                              /\ j # 1 => inst'[j] = inst[j]
    /\ ~Ended(1)'
    /\ tok' \in Seq(TokenRow) /\ Len(tok) <= Len(tok') /\ n \in Nat /\ n \notin DOMAIN tok
    /\ DOMAIN tok' = DOMAIN tok \union {n}
    /\ tok'[t].inst = 1 /\ tok'[t].at = "act" /\ tok'[t].state = "running"
    /\ tok'[n].inst = 1 /\ tok'[n].at = "other" /\ tok'[n].eik = 1 /\ tok'[n].state = "running"
    /\ \A u \in DOMAIN tok \ {t} : tok'[u] = tok[u]
    /\ job' = job /\ sub' = sub /\ incident' = incident /\ shape' = shape

ForkToks(t) == [tok EXCEPT ![t] = MovedRow(tok[t], "act")] \o <<NewToken(tok[t].inst, "other")>>

\* The rows of the start event of the root, which has two outgoing flows.
LEMMA ForkRows ==
    ASSUME TreeInv, NEW i \in DOMAIN inst, NEW t, RoundOf(i, t), tok[t].at = "start"
    PROVE  processFlowNode(Rows, t) = RowSet(inst, ForkToks(t), job, sub, incident, {})
<1>1. tok[t].inst = i /\ tok[t].at \in PlacesOf(inst[i].kind)
  BY TokenOfRound
<1>2. Rows.tok = tok /\ Rows.inst = inst
  BY DEF Rows
<1>3. inst[i].kind = "default"
  BY <1>1 DEF PlacesOf
<1>4. processFlowNode(Rows, t) = handleDefaultElementTransition(Rows, t)
  <2>1. processFlowNode(Rows, t) = handleElementTransition(Rows, t)
    BY <1>2 DEF processFlowNode
  <2>2. QED BY <1>1, <1>2, <1>3, <2>1 DEF handleElementTransition
<1>5. PICK flows : flows = Out["start"]
  OBVIOUS
<1>6. Len(flows) = 2 /\ flows[1] = "act" /\ flows[2] = "other"
  BY <1>5 DEF Out
<1>7. PICK m : m = Move(Rows, t, "act", "running")
  OBVIOUS
<1>8. PICK y : y = [tok EXCEPT ![t] = MovedRow(tok[t], "act")]
  OBVIOUS
<1>9. m = RowSet(inst, y, job, sub, incident, {})
  <2>1. PICK at, f : at = "act" /\ f = {}
    OBVIOUS
  <2>2. Move(RowSet(inst, tok, job, sub, incident, f), t, at, "running")
        = RowSet(inst, [tok EXCEPT ![t] = MovedRow(tok[t], at)], job, sub, incident, f)
    BY MoveRows
  <2>3. Rows = RowSet(inst, tok, job, sub, incident, f)
    BY <2>1, RowsAre
  <2>4. QED BY <1>7, <1>8, <2>1, <2>2, <2>3
<1>10. PICK new : new = [k \in 1..(Len(flows) - 1) |-> NewToken(tok[t].inst, flows[k + 1])]
  OBVIOUS
<1>11. new = <<NewToken(tok[t].inst, "other")>>
  <2>1. 1..(Len(flows) - 1) = {1}
    BY <1>6
  <2>2. new = [k \in {1} |-> NewToken(tok[t].inst, flows[k + 1])]
    BY <1>10, <2>1
  <2>3. PICK z : z = NewToken(tok[t].inst, "other")
    OBVIOUS
  <2>4. new = [k \in {1} |-> z]
    <3>1. \A k \in {1} : NewToken(tok[t].inst, flows[k + 1]) = z
      BY <1>6, <2>3
    <3>2. QED BY <2>2, <3>1
  <2>5. new = <<z>>
    BY <2>4
  <2>6. QED BY <2>3, <2>5
<1>12. processFlowNode(Rows, t) = [m EXCEPT !.tok = @ \o new]
  BY <1>2, <1>4, <1>5, <1>6, <1>7, <1>10 DEF handleDefaultElementTransition
<1>13. PICK b : b = y \o new
  OBVIOUS
<1>14. m.tok = y
  BY <1>9 DEF RowSet
<1>15. [m EXCEPT !.tok = @ \o new] = [m EXCEPT !.tok = b]
  BY <1>13, <1>14
<1>16. [m EXCEPT !.tok = b] = RowSet(inst, b, job, sub, incident, {})
  BY <1>9 DEF RowSet
<1>17. b = ForkToks(t)
  BY <1>8, <1>11, <1>13 DEF ForkToks
<1>18. QED BY <1>12, <1>15, <1>16, <1>17

\* The two tokens after the start event.
LEMMA ForkTokens ==
    ASSUME TreeInv, NEW i \in DOMAIN inst, NEW t, RoundOf(i, t), NEW b, b = ForkToks(t),
           NEW n, n = Len(tok) + 1
    PROVE  /\ b \in Seq(TokenRow) /\ Len(b) = n /\ n \in Nat /\ n \notin DOMAIN tok
           /\ DOMAIN b = DOMAIN tok \union {n} /\ Len(tok) <= Len(b)
           /\ b[t].inst = i /\ b[t].at = "act" /\ b[t].state = "running"
           /\ b[n].inst = i /\ b[n].at = "other" /\ b[n].eik = 1 /\ b[n].state = "running"
           /\ \A u \in DOMAIN tok \ {t} : b[u] = tok[u]
<1>1. /\ t \in DOMAIN tok /\ tok[t].inst = i /\ tok[t] \in TokenRow /\ tok \in Seq(TokenRow)
  BY TokenOfRound
<1>2. PICK w : w = MovedRow(tok[t], "act")
  OBVIOUS
<1>3. w \in TokenRow /\ w.inst = i /\ w.at = "act" /\ w.state = "running"
  <2>1. PICK at \in Place : at = "act"
    BY DEF Place
  <2>2. QED BY <1>1, <1>2, <2>1, MovedType
<1>4. PICK z : z = NewToken(tok[t].inst, "other")
  OBVIOUS
<1>5. z \in TokenRow /\ z.inst = i /\ z.at = "other" /\ z.eik = 1 /\ z.state = "running"
  <2>1. i \in Nat
    BY <1>1 DEF TokenRow
  <2>2. QED BY <1>1, <1>4, <2>1 DEF NewToken, TokenRow, TokenState, Place
<1>6. PICK y : y = [tok EXCEPT ![t] = w]
  OBVIOUS
<1>7. /\ DOMAIN tok = 1..Len(tok) /\ Len(tok) \in Nat
  BY <1>1
<1>8. y \in Seq(TokenRow) /\ Len(y) = Len(tok)
  BY <1>1, <1>3, <1>6, <1>7, ExceptSeq
<1>9. y[t] = w /\ \A u \in DOMAIN tok \ {t} : y[u] = tok[u]
  BY <1>1, <1>6
<1>10. b = y \o <<z>>
  BY <1>2, <1>4, <1>6 DEF ForkToks
<1>11. PICK x : x = Append(y, z)
  OBVIOUS
<1>12. b = x
  BY <1>5, <1>8, <1>10, <1>11
<1>13. /\ x \in Seq(TokenRow) /\ Len(x) = Len(y) + 1 /\ x[Len(y) + 1] = z
       /\ \A u \in 1..Len(y) : x[u] = y[u]
  BY <1>5, <1>8, <1>11
<1>14. DOMAIN x = 1..n
  BY <1>8, <1>13
<1>15. QED BY <1>1, <1>3, <1>5, <1>7, <1>8, <1>9, <1>12, <1>13, <1>14

\* The start event writes its token and adds one.
LEMMA ForkWrites ==
    ASSUME TreeInv, NEW t, RoundOf(1, t), NEW n, ForkStep(t, n)
    PROVE  Writes({1}, {t})
<1>0. 1 \in DOMAIN inst /\ inst[1].kind = "default"
  BY DEF TreeInv, Tree
<1>1. PICK i : i = 1
  OBVIOUS
<1>2. /\ t \in DOMAIN tok /\ tok[t].inst = i /\ ~Ended(i) /\ inst \in Seq(InstanceRow)
      /\ job \in Seq(JobRow)
  BY <1>0, <1>1, TokenOfRound
<1>3. /\ shape' = shape /\ inst' \in Seq(InstanceRow) /\ tok' \in Seq(TokenRow)
      /\ job' \in Seq(JobRow) /\ Len(inst) <= Len(inst') /\ Len(tok) <= Len(tok')
      /\ Len(job) <= Len(job')
  BY <1>2 DEF ForkStep
<1>4. \A j \in DOMAIN inst : /\ inst'[j].kind = inst[j].kind /\ inst'[j].token = inst[j].token
                             /\ inst'[j].target = inst[j].target
                             /\ j \notin {i} => inst'[j] = inst[j]
  BY <1>1 DEF ForkStep
<1>5. \A u \in DOMAIN tok : tok'[u].inst = tok[u].inst /\ (u \notin {t} => tok'[u] = tok[u])
  BY <1>1, <1>2 DEF ForkStep
<1>6. /\ \A j \in DOMAIN job : /\ job'[j].token = job[j].token
                               /\ job[j].token \notin {t} => job'[j] = job[j]
      /\ DOMAIN job' \ DOMAIN job = {}
  BY DEF ForkStep
<1>7. /\ sub' \subseteq sub \union {t} /\ incident' \subseteq incident \union {t}
      /\ \A u \in DOMAIN tok \ {t} : (u \in sub => u \in sub') /\ (u \in incident => u \in incident')
      /\ DOMAIN inst' \ DOMAIN inst = {}
  BY DEF ForkStep
<1>8. ASSUME NEW u \in DOMAIN tok' \ DOMAIN tok
      PROVE  /\ tok'[u].state = "running" /\ tok'[u].eik = 1
             /\ tok'[u].inst \in {i} \union (DOMAIN inst' \ DOMAIN inst)
             /\ tok'[u].at \in PlacesOf(inst'[tok'[u].inst].kind)
  <2>1. u = n
    BY DEF ForkStep
  <2>2. tok'[n].inst = i /\ tok'[n].at = "other" /\ tok'[n].eik = 1 /\ tok'[n].state = "running"
        /\ inst'[i].kind = "default"
    BY <1>0, <1>1 DEF ForkStep
  <2>3. QED BY <2>1, <2>2 DEF PlacesOf
<1>9. Writes({i}, {t})
  BY <1>0, <1>1, <1>2, <1>3, <1>4, <1>5, <1>6, <1>7, <1>8 DEF Writes
<1>10. QED BY <1>1, <1>9

\* The two tokens that run next.
LEMMA ForkNext ==
    ASSUME TreeInv, NEW t, RoundOf(1, t), NEW b, b = ForkToks(t), NEW r, r.tok = b,
           NEW n, ForkStep(t, n), NEW N, N = RunningIn(r, t), tok' = b, n = Len(tok) + 1
    PROVE  RunsNext(1, t, N)
<1>1. PICK i : i = 1
  OBVIOUS
<1>2. i \in DOMAIN inst /\ t \in DOMAIN tok /\ t \in Nat
  BY <1>1, TokenOfRound DEF TreeInv, Tree
<1>3. PICK K : K = {u \in DOMAIN r.tok : /\ r.tok[u].state = "running"
                                         /\ r.tok[u].inst = r.tok[t].inst
                                         /\ u = t \/ u > Len(tok)}
  OBVIOUS
<1>4. K \subseteq {t, n}
  <2>1. DOMAIN b = DOMAIN tok \union {n}
    BY DEF ForkStep
  <2>2. \A u \in DOMAIN tok : ~(u > Len(tok))
    BY DEF TreeInv, Types
  <2>3. QED BY <1>3, <2>1, <2>2
<1>5. \A u \in K : u \in DOMAIN tok' /\ tok'[u].inst = i /\ tok'[u].state = "running"
                   /\ tok'[u].at # "terminate" /\ (u = t \/ u \notin DOMAIN tok)
  BY <1>1, <1>2, <1>4 DEF ForkStep
<1>6. IsFiniteSet(K) /\ K \subseteq Nat
  <2>1. n \in Nat
    BY DEF ForkStep
  <2>2. IsFiniteSet({t}) /\ IsFiniteSet({n})
    BY FS_Singleton
  <2>3. IsFiniteSet({t} \union {n}) /\ {t} \union {n} = {t, n}
    BY <2>2, FS_Union
  <2>4. IsFiniteSet(K)
    BY <1>4, <2>3, FS_Subset
  <2>5. QED BY <1>2, <1>4, <2>1, <2>4
<1>7. N = InOrder(K)
  BY <1>3 DEF RunningIn
<1>8. N \in Seq(K) /\ \A k, l \in DOMAIN N : N[k] = N[l] => k = l
  BY <1>6, <1>7, InOrderLists
<1>9. N \in Seq(Nat) /\ \A k \in DOMAIN N : N[k] \in K
  <2>1. N \in Seq(Nat)
    BY <1>6, <1>8, SeqMonotonic
  <2>2. DOMAIN N = 1..Len(N)
    BY <2>1
  <2>3. QED BY <1>8, <2>1, <2>2, ElementOfSeq
<1>10. QED BY <1>1, <1>5, <1>8, <1>9 DEF RunsNext

\* The round at the start event of the root.
LEMMA RoundStart ==
    ASSUME TreeInv, NEW i \in DOMAIN inst, NEW t, RoundOf(i, t), tok[t].at = "start"
    PROVE  TreeInv'
<1>1. /\ t \in DOMAIN tok /\ tok[t].inst = i /\ tok[t].state = "running" /\ ~Ended(i)
      /\ tok[t].at \in PlacesOf(inst[i].kind) /\ inst[i] \in InstanceRow /\ inst \in Seq(InstanceRow)
  BY TokenOfRound
<1>2. inst[i].kind = "default" /\ i = 1
  <2>1. inst[i].kind = "default"
    BY <1>1 DEF PlacesOf
  <2>2. QED BY <2>1, RootIsDefault
<1>3. PICK a, b, c, d, e, f : /\ a = inst /\ b = ForkToks(t) /\ c = job /\ d = sub
                              /\ e = incident /\ f = {}
  OBVIOUS
<1>4. processFlowNode(Rows, t) = RowSet(a, b, c, d, e, f)
  BY <1>3, ForkRows
<1>5. PICK s : s = FinalState(i, a)
  OBVIOUS
<1>6. s \in InstanceState /\ s \notin EndedStates
  BY <1>1, <1>3, <1>5 DEF FinalState, InstanceRow, InstanceState, Ended, EndedStates
<1>7. PICK r : r = RowSet(a, b, c, d, e, f)
  OBVIOUS
<1>8. r.tok = b
  BY <1>7 DEF RowSet
<1>9. PICK N : N = RunningIn(r, t)
  OBVIOUS
<1>10. PICK L : L = NextToks(i, s, N)
  OBVIOUS
<1>11. /\ inst' = [a EXCEPT ![i].state = s] /\ tok' = b /\ job' = c /\ sub' = d
       /\ incident' = e /\ go' = go \union f /\ shape' = shape /\ failures' = failures
       /\ SameLocks /\ Holds(i, Looping(i, L))
  <2>1. Flushes(i, a)
    BY <1>1, <1>3 DEF Flushes, Ended, EndedStates
  <2>2. N = RunningIn(RowSet(a, b, c, d, e, f), t)
    BY <1>7, <1>9
  <2>3. QED BY <1>4, <1>5, <1>10, <2>1, <2>2, RoundFlush
<1>12. PICK n : n = Len(tok) + 1
  OBVIOUS
<1>13. ForkStep(t, n)
  <2>1. PICK y : y = [inst[i] EXCEPT !.state = s]
    OBVIOUS
  <2>2. /\ y \in InstanceRow /\ y.kind = inst[i].kind /\ y.token = inst[i].token
        /\ y.target = inst[i].target /\ y.state = s
    BY <1>1, <1>6, <2>1 DEF InstanceRow
  <2>3. inst' = [inst EXCEPT ![i] = y]
    BY <1>3, <1>11, <2>1
  <2>4. DOMAIN inst' = DOMAIN inst /\ inst'[i] = y /\ \A j \in DOMAIN inst \ {i} : inst'[j] = inst[j]
    BY <1>1, <2>3
  <2>5. inst' \in Seq(InstanceRow) /\ Len(inst') = Len(inst)
    <3>1. PICK z : z = [inst EXCEPT ![i] = y]
      OBVIOUS
    <3>2. i \in 1..Len(inst)
      BY <1>1
    <3>3. z \in Seq(InstanceRow) /\ Len(z) = Len(inst)
      BY <1>1, <2>2, <3>1, <3>2, ExceptSeq
    <3>4. QED BY <2>3, <3>1, <3>3
  <2>6. ~Ended(i)'
    BY <1>6, <2>2, <2>4 DEF Ended
  <2>7. /\ tok' \in Seq(TokenRow) /\ n \in Nat /\ n \notin DOMAIN tok
        /\ DOMAIN tok' = DOMAIN tok \union {n} /\ Len(tok) <= Len(tok')
        /\ tok'[t].inst = i /\ tok'[t].at = "act" /\ tok'[t].state = "running"
        /\ tok'[n].inst = i /\ tok'[n].at = "other" /\ tok'[n].eik = 1 /\ tok'[n].state = "running"
        /\ \A u \in DOMAIN tok \ {t} : tok'[u] = tok[u]
    <3>1. /\ b \in Seq(TokenRow) /\ n \in Nat /\ n \notin DOMAIN tok
          /\ DOMAIN b = DOMAIN tok \union {n} /\ Len(tok) <= Len(b)
          /\ b[t].inst = i /\ b[t].at = "act" /\ b[t].state = "running"
          /\ b[n].inst = i /\ b[n].at = "other" /\ b[n].eik = 1 /\ b[n].state = "running"
          /\ \A u \in DOMAIN tok \ {t} : b[u] = tok[u]
      BY <1>3, <1>12, ForkTokens
    <3>2. QED BY <1>11, <3>1
  <2>8. \A j \in DOMAIN inst : /\ inst'[j].kind = inst[j].kind /\ inst'[j].token = inst[j].token
                               /\ inst'[j].target = inst[j].target
                               /\ j # i => inst'[j] = inst[j]
    BY <2>2, <2>4
  <2>9. QED BY <1>2, <1>3, <1>11, <2>4, <2>5, <2>6, <2>7, <2>8 DEF ForkStep
<1>14. Writes({i}, {t})
  BY <1>2, <1>13, ForkWrites
<1>15. /\ \A j \in DOMAIN job : job[j].token = t => ~Pending(j)
       /\ t \notin incident /\ t \notin sub
       /\ \A j \in Kids : inst[j].token = t => Ended(j)
  BY <1>1, RunningToken
<1>16. PlaceOK(t)'
  <2>1. tok'[t].inst = i /\ tok'[t].at = "act" /\ inst'[i].kind = "default" /\ i \in DOMAIN inst'
    BY <1>2, <1>13 DEF ForkStep
  <2>2. QED BY <2>1 DEF PlaceOK, PlacesOf
<1>17. WaitsAt(t)'
  BY <1>13, <1>15 DEF WaitsAt, ForkStep, Pending
<1>18. KidsOf(t)'
  <2>1. tok'[t].state # "waiting" /\ \A j \in DOMAIN inst' \ DOMAIN inst : inst'[j].token # t
    BY <1>13 DEF ForkStep
  <2>2. QED BY <1>14, <1>15, <2>1, NoKids
<1>19. RoundEnds(i, L)
  BY <1>2, <1>13 DEF RoundEnds, ForkStep
<1>20. RunsNext(i, t, N)
  BY <1>2, <1>3, <1>8, <1>9, <1>11, <1>12, <1>13, ForkNext
<1>21. StartsKid(f)
  BY <1>3, <1>11 DEF StartsKid
<1>22. Multi(i) => ItemsOK(i)'
  BY <1>2 DEF Multi
<1>23. \A m \in DOMAIN inst' \ DOMAIN inst : Multi(m)' => ItemsOK(m)'
  BY <1>13 DEF ForkStep
<1>24. SameLocks /\ Holds(i, Looping(i, L)) /\ failures' = failures
  BY <1>11
<1>25. QED BY <1>10, <1>14, <1>16, <1>17, <1>18, <1>19, <1>20, <1>21, <1>22, <1>23, <1>24, RoundKeeps

\* A round of the main loop.
LEMMA ProcessTokenKeeps ==
    ASSUME TreeInv, NEW i \in DOMAIN inst, ProcessToken(i)
    PROVE  TreeInv'
<1>1. PICK t : t = Head(held[i].toks)
  OBVIOUS
<1>2. RoundOf(i, t)
  BY <1>1 DEF RoundOf
<1>3. tok[t].at # "terminate" /\ tok[t].at \in PlacesOf(inst[i].kind)
  BY <1>2, TokenOfRound
<1>4. tok[t].at \in {"start", "act", "other", "begin", "task", "end"}
  BY <1>3 DEF PlacesOf
<1>5. CASE tok[t].at = "start"
  BY <1>2, <1>5, RoundStart
<1>6. CASE tok[t].at = "begin"
  BY <1>2, <1>6, RoundBegin
<1>7. CASE tok[t].at \in {"other", "task"}
  BY <1>2, <1>7, RoundTask
<1>8. CASE tok[t].at = "end"
  BY <1>2, <1>8, RoundEnd
<1>9. CASE tok[t].at = "act" /\ ~Multi(i)
  <2>1. CASE ~shape.multi
    BY <1>2, <1>9, <2>1, RoundCall
  <2>2. CASE shape.multi /\ shape.items = 0
    BY <1>2, <1>9, <2>2, RoundEmpty
  <2>3. CASE shape.multi /\ shape.items # 0
    BY <1>2, <1>9, <2>3, RoundMulti
  <2>4. QED BY <2>1, <2>2, <2>3
<1>10. CASE Multi(i)
  <2>1. CASE inst[i].started = shape.items
    BY <1>2, <1>10, <2>1, RoundItemsDone
  <2>2. CASE inst[i].started # shape.items /\ shape.inner = "task"
    BY <1>2, <1>10, <2>2, RoundJob
  <2>3. CASE inst[i].started # shape.items /\ shape.inner # "task"
    BY <1>2, <1>10, <2>3, RoundItem
  <2>4. QED BY <2>1, <2>2, <2>3
<1>11. QED BY <1>4, <1>5, <1>6, <1>7, <1>8, <1>9, <1>10

-----------------------------------------------------------------------------
(* A completing child continues its parent.                                *)

\* Child i of token t of instance p completes with its token h.
Continuing(i, p, h, t) ==
    /\ held[i].pc = "parent" /\ h = Head(held[i].toks) /\ t = inst[i].token
    /\ p = ParentOf(i) /\ lock[p] = 0

\* The tokens, instances and calls of a child that continues its parent.
LEMMA ContinuingTokens ==
    ASSUME TreeInv, NEW i \in DOMAIN inst, NEW p, NEW h, NEW t, Continuing(i, p, h, t)
    PROVE  /\ i # 1 /\ i # p /\ h # t /\ p \in DOMAIN inst /\ i \in Kids /\ i \in Nat
           /\ h \in DOMAIN tok /\ tok[h].inst = i /\ tok[h].state = "running"
           /\ t \in DOMAIN tok /\ tok[t].inst = p /\ tok[t].state = "waiting" /\ tok[t].at = "act"
           /\ tok[t].eik = inst[i].target /\ ~Ended(i) /\ ~Ended(p) /\ lock[i] = i
           /\ held[p] = NoCall /\ held[i].op = "run" /\ held[i] \in Call /\ ~held[i].failed
           /\ held[i].toks # <<>> /\ held[i].toks[1] = h /\ 1 \in DOMAIN held[i].toks
           /\ tok[h] \in TokenRow /\ tok[t] \in TokenRow
<1>1. i # 1 /\ held[i].toks # <<>> /\ ~held[i].failed
  BY DEF Continuing, TreeInv, Locks, LockOK
<1>2. /\ h \in DOMAIN tok /\ tok[h].inst = i /\ tok[h].state = "running"
      /\ held[i].toks[1] = h /\ 1 \in DOMAIN held[i].toks
      /\ ~Ended(i) /\ lock[i] = i /\ held[i].op = "run" /\ held[i] \in Call
  BY <1>1, HeadOfLoop DEF Continuing
<1>3. i \in Kids /\ inst[i].token = t
  BY <1>1 DEF Kids, Continuing
<1>4. t \in DOMAIN tok /\ tok[t].inst = p
  BY <1>3 DEF TreeInv, Tree, KidOK, Continuing, ParentOf
<1>5. /\ tok[t].state = "waiting" /\ tok[t].at = "act" /\ tok[t].eik = inst[i].target
      /\ ~Ended(p)
  BY <1>2, <1>3, <1>4 DEF TreeInv, Waiting, KidsOf
<1>6. p \in DOMAIN inst /\ LockOK(p)
  BY <1>4 DEF TreeInv, Tree, PlaceOK, Locks
<1>7. i \in Nat /\ i # 0 /\ p # 0
  BY <1>6 DEF TreeInv, Types
<1>8. i # p /\ h # t
  BY <1>2, <1>4, <1>7 DEF Continuing
<1>9. held[p] = NoCall
  BY <1>6, <1>7 DEF LockOK, Continuing
<1>10. tok[h] \in TokenRow /\ tok[t] \in TokenRow
  BY <1>2, <1>4 DEF TreeInv, Types
<1>11. QED BY <1>1, <1>2, <1>3, <1>4, <1>5, <1>6, <1>7, <1>8, <1>9, <1>10

\* The token of the parent waits for this child and for nothing else.
LEMMA ContinuingAlone ==
    ASSUME TreeInv, NEW i \in DOMAIN inst, NEW p, NEW h, NEW t, Continuing(i, p, h, t)
    PROVE  /\ inst[i].kind \in {"multi", "call", "sub"} /\ inst[p].kind \in {"default", "multi"}
           /\ \A c \in Kids : inst[c].token = t => Ended(c) \/ c = i
           /\ \A j \in DOMAIN job : job[j].token = t => ~Pending(j)
           /\ t \notin incident
           /\ \A u \in TokensOf(i) : Live(u) => u = h
<1>1. /\ i # 1 /\ i \in Kids /\ tok[t].inst = p /\ t \in DOMAIN tok /\ ~Ended(i) /\ p \in DOMAIN inst
      /\ tok[h].inst = i /\ h \in DOMAIN tok /\ tok[h].state = "running" /\ tok[t].state = "waiting"
      /\ tok[t].at = "act" /\ held[i].toks[1] = h /\ inst[i].token = t
  BY ContinuingTokens DEF Continuing
<1>2. KidOK(i) /\ ParentOf(i) = p
  BY <1>1 DEF TreeInv, Tree, Continuing
<1>3. inst[i] \in InstanceRow
  BY DEF TreeInv, Types
<1>4. /\ inst[i].kind = IF shape.multi /\ p = 1 THEN "multi" ELSE shape.inner
      /\ inst[p].kind \in {"default", "multi"}
  BY <1>2 DEF KidOK
<1>5. inst[i].kind \in {"multi", "call", "sub"}
  <2>1. inst[i].kind # "default"
    BY <1>4, ShapeType
  <2>2. QED BY <1>3, <2>1 DEF InstanceRow
<1>6. \A c \in Kids : inst[c].token = t => Ended(c) \/ c = i
  BY <1>1 DEF TreeInv, Waiting, KidsOf
<1>7. WaitsAt(t)
  BY <1>1 DEF TreeInv, Waits
<1>8. ASSUME NEW j \in DOMAIN job, job[j].token = t, Pending(j) PROVE FALSE
  <2>1. Multi(p) /\ shape.inner = "task"
    BY <1>1, <1>7, <1>8 DEF WaitsAt
  <2>2. p # 1
    BY <2>1 DEF Multi, TreeInv, Tree
  <2>3. QED BY <1>4, <1>5, <2>1, <2>2
<1>9. t \notin incident
  BY <1>1, <1>7 DEF WaitsAt
<1>10. Completes(i)
  BY <1>1 DEF Continuing, TreeInv, Locks, LockOK
<1>11. \A u \in TokensOf(i) : Live(u) => u = h
  <2>1. CASE ~Multi(i)
    BY <1>1, <1>10, <2>1 DEF Completes, TokensOf
  <2>2. CASE Multi(i)
    <3>1. inst[i].started = shape.items /\ ItemsOK(i) /\ h \in TokensOf(i)
      BY <1>1, <1>10, <2>2 DEF Completes, TreeInv, Items, TokensOf
    <3>2. CASE shape.sequential
      BY <3>1, <3>2 DEF ItemsOK
    <3>3. CASE ~shape.sequential
      <4>1. \A u \in TokensOf(i) : u # h => tok[u].state = "completed"
        BY <1>1, <2>2, <3>1, <3>3, RunningItem
      <4>2. QED BY <4>1 DEF Live
    <3>4. QED BY <3>2, <3>3
  <2>3. QED BY <2>1, <2>2
<1>12. QED BY <1>4, <1>5, <1>6, <1>8, <1>9, <1>11

\* The rows of the child after its last round.
CompletedInst(i) == [inst EXCEPT ![i].state = "completed"]
CompletedTok(h)  == [tok EXCEPT ![h].state = "completed"]

\* The rows of the child's last round.
LEMMA CompletingRows ==
    ASSUME TreeInv, NEW i \in DOMAIN inst, NEW p, NEW h, NEW t, Continuing(i, p, h, t),
           NEW a, a = CompletedInst(i), NEW b, b = CompletedTok(h)
    PROVE  Completing(i) = RowSet(a, b, job, sub, incident, {})
<1>1. /\ i # 1 /\ tok[h].inst = i /\ h \in DOMAIN tok /\ tok[h].state = "running"
      /\ held[i].toks[1] = h /\ ~Ended(i)
  BY ContinuingTokens
<1>2. \A u \in TokensOf(i) : Live(u) => u = h
  BY ContinuingAlone
<1>3. Completes(i) /\ PlaceOK(h)
  BY <1>1 DEF Continuing, TreeInv, Locks, LockOK, Tree
<1>4. Rows.tok = tok /\ Rows.inst = inst
  BY DEF Rows
<1>5. PICK done : done = [Rows EXCEPT !.tok[h].state = "completed"]
  OBVIOUS
<1>6. Completing(i) = processFlowNode(Rows, h)
  BY DEF Completing, Continuing
<1>7. processFlowNode(Rows, h) = SetState(done, i, "completed")
  <2>1. CASE Multi(i)
    <3>1. tok[h].at = "act" /\ shape.multi /\ inst[i].started = shape.items
      BY <1>1, <1>3, <2>1 DEF PlaceOK, PlacesOf, Multi, TreeInv, Items, ItemsOK, Completes
    <3>2. processFlowNode(Rows, h) = handleMultiInstanceActivity(Rows, h)
      BY <1>4, <3>1 DEF processFlowNode
    <3>3. QED BY <1>1, <1>4, <1>5, <2>1, <3>1, <3>2 DEF handleMultiInstanceActivity, Multi
  <2>2. CASE ~Multi(i)
    <3>1. tok[h].at = "end"
      BY <1>1, <1>3, <2>2 DEF Completes
    <3>2. processFlowNode(Rows, h) = handlePlainEndEvent(Rows, h)
      BY <1>4, <3>1 DEF processFlowNode
    <3>3. sub \intersect TokensOf(i) = {}
      <4>1. ASSUME NEW u \in sub PROVE u \notin TokensOf(i)
        <5>1. u \in DOMAIN tok
          BY DEF TreeInv, Types
        <5>2. tok[u].inst = 1
          BY <5>1 DEF TreeInv, Waits, WaitsAt
        <5>3. QED BY <1>1, <5>2 DEF TokensOf
      <4>2. QED BY <4>1
    <3>4. PendingJobs(i) = {}
      <4>1. ASSUME NEW j \in DOMAIN job, tok[job[j].token].inst = i, Pending(j) PROVE FALSE
        <5>1. PICK u : u = job[j].token
          OBVIOUS
        <5>2. u \in DOMAIN tok /\ WaitsAt(u)
          BY <5>1 DEF TreeInv, Tree, Waits
        <5>3. tok[u].state \in {"waiting", "failed"}
          BY <4>1, <5>1, <5>2 DEF WaitsAt
        <5>4. u = h
          BY <1>2, <4>1, <5>1, <5>2, <5>3 DEF Live, TokensOf
        <5>5. QED BY <1>1, <5>3, <5>4
      <4>2. QED BY <4>1 DEF PendingJobs, Pending
    <3>5. ~(Cardinality(ActiveTokens(i)) > 1)
      <4>1. ActiveTokens(i) = {h}
        BY <1>1, <1>2 DEF ActiveTokens, TokensOf, Live
      <4>2. Cardinality({h}) = 1
        BY FS_Singleton
      <4>3. QED BY <4>1, <4>2
    <3>6. handlePlainEndEvent(Rows, h) = SetState(done, i, "completed")
      BY <1>1, <1>4, <1>5, <3>3, <3>4, <3>5 DEF handlePlainEndEvent
    <3>7. QED BY <3>2, <3>6
  <2>3. QED BY <2>1, <2>2
<1>8. done = RowSet(inst, b, job, sub, incident, {})
  BY <1>5 DEF Rows, RowSet, CompletedTok
<1>9. SetState(done, i, "completed") = RowSet(a, b, job, sub, incident, {})
  BY <1>8 DEF SetState, RowSet, CompletedInst
<1>10. QED BY <1>6, <1>7, <1>9

\* What the flush of the continuation writes: row is the new row of the parent's
\* token, N the tokens of the parent that run.
ParentStep(i, p, h, t, row, N) ==
    /\ row \in TokenRow /\ row.inst = p /\ row.state \in {"running", "completed"}
    /\ ~Multi(p) => row.at = "end" /\ row.state = "running"
    /\ Multi(p) => \E b : row = DoneRow(b, t) /\ DOMAIN b = DOMAIN tok /\ b[t] = tok[t]
                          /\ (\A u \in DOMAIN tok : b[u].inst = tok[u].inst)
                          /\ (\A u \in TokensOf(p) : b[u] = tok[u])
    /\ N = IF row.state = "running" THEN <<t>> ELSE <<>>
    /\ inst' \in Seq(InstanceRow) /\ DOMAIN inst' = DOMAIN inst /\ Len(inst') = Len(inst)
    /\ inst'[i].kind = inst[i].kind /\ inst'[i].token = inst[i].token
    /\ inst'[i].target = inst[i].target /\ inst'[i].state = "completed"
    /\ inst'[i].started = inst[i].started
    /\ \A c \in DOMAIN inst \ {i} : inst'[c] = inst[c]
    /\ tok' \in Seq(TokenRow) /\ DOMAIN tok' = DOMAIN tok /\ Len(tok') = Len(tok)
    /\ tok'[h].inst = i /\ tok'[h].at = tok[h].at /\ tok'[h].eik = tok[h].eik
    /\ tok'[h].state = "completed" /\ tok'[t] = row
    /\ \A u \in DOMAIN tok \ {h, t} : tok'[u] = tok[u]
    /\ job' = job /\ sub' = sub \ {t} /\ incident' = incident /\ shape' = shape
    /\ go' = go \union Run(p, N) /\ failures' = failures

\* The tokens after the child has completed.
LEMMA CompletingToks ==
    ASSUME TreeInv, NEW i \in DOMAIN inst, NEW p, NEW h, NEW t, Continuing(i, p, h, t),
           NEW b, b = CompletedTok(h)
    PROVE  /\ b \in Seq(TokenRow) /\ DOMAIN b = DOMAIN tok /\ Len(b) = Len(tok)
           /\ b[h].inst = i /\ b[h].at = tok[h].at /\ b[h].eik = tok[h].eik /\ b[h].state = "completed"
           /\ \A u \in DOMAIN tok \ {h} : b[u] = tok[u]
<1>1. h \in DOMAIN tok /\ tok[h].inst = i /\ tok[h] \in TokenRow /\ tok \in Seq(TokenRow)
  BY ContinuingTokens DEF TreeInv, Types
<1>2. PICK w : w = [tok[h] EXCEPT !.state = "completed"]
  OBVIOUS
<1>3. w \in TokenRow /\ w.inst = i /\ w.at = tok[h].at /\ w.eik = tok[h].eik /\ w.state = "completed"
  BY <1>1, <1>2 DEF TokenRow, TokenState
<1>4. b = [tok EXCEPT ![h] = w]
  BY <1>2 DEF CompletedTok
<1>5. b \in Seq(TokenRow) /\ Len(b) = Len(tok)
  <2>1. PICK z : z = [tok EXCEPT ![h] = w]
    OBVIOUS
  <2>2. h \in 1..Len(tok)
    BY <1>1
  <2>3. z \in Seq(TokenRow) /\ Len(z) = Len(tok)
    BY <1>1, <1>3, <2>1, <2>2, ExceptSeq
  <2>4. QED BY <1>4, <2>1, <2>3
<1>6. DOMAIN b = DOMAIN tok /\ b[h] = w /\ \A u \in DOMAIN tok \ {h} : b[u] = tok[u]
  BY <1>1, <1>4
<1>7. QED BY <1>3, <1>5, <1>6

Placed(b, t, row) == [b EXCEPT ![t] = row]
RunList(row, t)   == IF row.state = "running" THEN <<t>> ELSE <<>>

\* The rows of handleParentProcessContinuation: the parent's token has moved.
LEMMA ContinuationRows ==
    ASSUME TreeInv, NEW i \in DOMAIN inst, NEW p, NEW h, NEW t, Continuing(i, p, h, t),
           NEW a, a = CompletedInst(i), NEW b, b = CompletedTok(h),
           NEW row, row = NextRow(b, t, Multi(p)), NEW c, c = Placed(b, t, row),
           NEW N, N = RunList(row, t)
    PROVE  handleParentProcessContinuation(Completing(i), i)
           = RowSet(a, c, job, sub \ {t}, incident, Run(p, N))
<1>1. /\ i # p /\ h # t /\ p \in DOMAIN inst /\ t \in DOMAIN tok /\ tok[t].inst = p
      /\ tok[t].at = "act" /\ tok[t].eik = inst[i].target /\ ~Ended(p) /\ tok[t] \in TokenRow
      /\ inst[i].token = t /\ ParentOf(i) = p
  BY ContinuingTokens DEF Continuing
<1>2. inst[i].kind \in {"multi", "call", "sub"}
  BY ContinuingAlone
<1>3. PICK r : r = Completing(i)
  OBVIOUS
<1>4. r = RowSet(a, b, job, sub, incident, {})
  BY <1>3, CompletingRows
<1>5. Continues(i)
  BY <1>1 DEF Continues, Ended
<1>6. handleParentProcessContinuation(r, i) = MoveParentToken(r, i)
  BY <1>2, <1>5 DEF handleParentProcessContinuation, handleParentProcessContinuationForSubProcess,
        handleParentProcessContinuationForCallActivity, handleParentProcessContinuationForMultiInstance
<1>7. PICK d, f : d = sub \ {t} /\ f = {}
  OBVIOUS
<1>8. cancelBoundarySubscriptions(r, t) = RowSet(a, b, job, d, incident, f)
  <2>1. r = RowSet(a, b, job, sub, incident, f)
    BY <1>4, <1>7
  <2>2. QED BY <1>7, <2>1, BoundaryRows
<1>9. /\ b \in Seq(TokenRow) /\ DOMAIN b = DOMAIN tok /\ b[t] = tok[t]
  BY <1>1, CompletingToks
<1>10. a[p] = inst[p]
  BY <1>1 DEF CompletedInst
<1>11. PICK s : s = handleElementTransition(RowSet(a, b, job, d, incident, f), t)
  OBVIOUS
<1>12. s = RowSet(a, c, job, d, incident, f)
  <2>1. (a[b[t].inst].kind = "multi") = Multi(p)
    BY <1>1, <1>9, <1>10 DEF Multi
  <2>2. a[b[t].inst].kind # "multi" => b[t].at \in {"act", "other", "begin", "task"}
    BY <1>1, <1>9
  <2>3. t \in DOMAIN b
    BY <1>1, <1>9
  <2>4. s = RowSet(a, [b EXCEPT ![t] = NextRow(b, t, a[b[t].inst].kind = "multi")], job, d, incident, f)
    <3>1. b \in Seq(TokenRow)
      BY <1>9
    <3>2. handleElementTransition(RowSet(a, b, job, d, incident, f), t)
          = RowSet(a, [b EXCEPT ![t] = NextRow(b, t, a[b[t].inst].kind = "multi")], job, d, incident, f)
      BY <2>2, <2>3, <3>1, TransitionRows
    <3>3. QED BY <1>11, <3>2
  <2>5. NextRow(b, t, a[b[t].inst].kind = "multi") = row
    BY <2>1
  <2>6. QED BY <2>4, <2>5 DEF Placed
<1>13. RunningIn(s, t) = N
  <2>1. s.tok = c
    BY <1>12 DEF RowSet
  <2>2. DOMAIN c = DOMAIN tok /\ c[t] = row
    BY <1>1, <1>9 DEF Placed
  <2>3. DOMAIN s.tok = DOMAIN tok /\ s.tok[t].state = row.state
    BY <2>1, <2>2
  <2>4. QED BY <1>1, <2>3, RunningOne DEF RunList
<1>14. MoveParentToken(r, i) = [s EXCEPT !.go = @ \union Run(p, N)]
  BY <1>1, <1>8, <1>11, <1>13 DEF MoveParentToken
<1>15. PICK g : g = Run(p, N)
  OBVIOUS
<1>16. s.go \union g = g
  BY <1>7, <1>12 DEF RowSet
<1>17. [s EXCEPT !.go = @ \union g] = [s EXCEPT !.go = g]
  BY <1>16
<1>18. [s EXCEPT !.go = g] = RowSet(a, c, job, d, incident, g)
  BY <1>12 DEF RowSet
<1>19. QED BY <1>3, <1>6, <1>7, <1>14, <1>15, <1>17, <1>18

\* The step of ContinueParent in terms of the tables.
LEMMA ContinueTables ==
    ASSUME TreeInv, NEW i \in DOMAIN inst, NEW p, NEW h, NEW t, Continuing(i, p, h, t),
           ContinueParent(i)
    PROVE  \E row, N : ParentStep(i, p, h, t, row, N)
<1>1. PICK a : a = CompletedInst(i)
  OBVIOUS
<1>2. PICK b : b = CompletedTok(h)
  OBVIOUS
<1>3. PICK row : row = NextRow(b, t, Multi(p))
  OBVIOUS
<1>4. PICK c : c = Placed(b, t, row)
  OBVIOUS
<1>5. PICK N : N = RunList(row, t)
  OBVIOUS
<1>6. PICK q : q = handleParentProcessContinuation(Completing(i), i)
  OBVIOUS
<1>7. q = RowSet(a, c, job, sub \ {t}, incident, Run(p, N))
  BY <1>1, <1>2, <1>3, <1>4, <1>5, <1>6, ContinuationRows
<1>8. Flush(q, {}) /\ shape' = shape /\ failures' = failures
  BY <1>6 DEF ContinueParent
<1>9. /\ inst' = a /\ tok' = c /\ job' = job /\ sub' = sub \ {t} /\ incident' = incident
      /\ go' = go \union Run(p, N)
  BY <1>7, <1>8 DEF Flush, RowSet
<1>10. /\ i # p /\ h # t /\ p \in DOMAIN inst /\ t \in DOMAIN tok /\ tok[t].inst = p
       /\ tok[t].at = "act" /\ tok[t] \in TokenRow /\ tok[h].inst = i /\ h \in DOMAIN tok
  BY ContinuingTokens
<1>11. /\ b \in Seq(TokenRow) /\ DOMAIN b = DOMAIN tok /\ Len(b) = Len(tok)
       /\ b[h].inst = i /\ b[h].at = tok[h].at /\ b[h].eik = tok[h].eik /\ b[h].state = "completed"
       /\ \A u \in DOMAIN tok \ {h} : b[u] = tok[u]
  BY <1>2, CompletingToks
<1>12. b[t] = tok[t]
  BY <1>10, <1>11
<1>13. /\ row \in TokenRow /\ row.inst = p /\ row.state \in {"running", "completed"}
       /\ ~Multi(p) => row.at = "end" /\ row.state = "running"
       /\ Multi(p) => row = DoneRow(b, t)
  <2>1. PICK multi \in BOOLEAN : multi = Multi(p)
    BY DEF Multi
  <2>2. b[t] \in TokenRow /\ b[t].inst = p /\ b[t].at = "act"
    BY <1>10, <1>12
  <2>3. /\ row \in TokenRow /\ row.inst = b[t].inst /\ row.state \in {"running", "completed"}
        /\ ~multi => row.at = Out[b[t].at][1] /\ row.state = "running"
        /\ multi => row = DoneRow(b, t)
    BY <1>3, <2>1, <2>2, NextType
  <2>4. Out["act"][1] = "end"
    BY DEF Out
  <2>5. QED BY <2>1, <2>2, <2>3, <2>4
<1>14. /\ tok' \in Seq(TokenRow) /\ DOMAIN tok' = DOMAIN tok /\ Len(tok') = Len(tok)
       /\ tok'[t] = row /\ tok'[h] = b[h] /\ \A u \in DOMAIN tok \ {h, t} : tok'[u] = tok[u]
  <2>1. DOMAIN c = DOMAIN tok /\ c[t] = row /\ \A u \in DOMAIN tok \ {t} : c[u] = b[u]
    BY <1>4, <1>10, <1>11 DEF Placed
  <2>2. c \in Seq(TokenRow) /\ Len(c) = Len(b)
    <3>1. t \in 1..Len(b)
      BY <1>10, <1>11
    <3>2. PICK z : z = [b EXCEPT ![t] = row]
      OBVIOUS
    <3>3. z \in Seq(TokenRow) /\ Len(z) = Len(b)
      BY <1>11, <1>13, <3>1, <3>2, ExceptSeq
    <3>4. QED BY <1>4, <3>2, <3>3 DEF Placed
  <2>3. QED BY <1>9, <1>10, <1>11, <2>1, <2>2
<1>15. /\ inst' \in Seq(InstanceRow) /\ DOMAIN inst' = DOMAIN inst /\ Len(inst') = Len(inst)
       /\ inst'[i].kind = inst[i].kind /\ inst'[i].token = inst[i].token
       /\ inst'[i].target = inst[i].target /\ inst'[i].state = "completed"
       /\ inst'[i].started = inst[i].started
       /\ \A j \in DOMAIN inst \ {i} : inst'[j] = inst[j]
  <2>1. inst \in Seq(InstanceRow) /\ inst[i] \in InstanceRow
    BY DEF TreeInv, Types
  <2>2. PICK y : y = [inst[i] EXCEPT !.state = "completed"]
    OBVIOUS
  <2>3. /\ y \in InstanceRow /\ y.kind = inst[i].kind /\ y.token = inst[i].token
        /\ y.target = inst[i].target /\ y.started = inst[i].started /\ y.state = "completed"
    BY <2>1, <2>2 DEF InstanceRow, InstanceState
  <2>4. inst' = [inst EXCEPT ![i] = y]
    BY <1>1, <1>9, <2>2 DEF CompletedInst
  <2>5. DOMAIN inst' = DOMAIN inst /\ inst'[i] = y /\ \A j \in DOMAIN inst \ {i} : inst'[j] = inst[j]
    BY <2>1, <2>4
  <2>6. inst' \in Seq(InstanceRow) /\ Len(inst') = Len(inst)
    <3>1. i \in 1..Len(inst)
      BY <2>1
    <3>2. PICK z : z = [inst EXCEPT ![i] = y]
      OBVIOUS
    <3>3. z \in Seq(InstanceRow) /\ Len(z) = Len(inst)
      BY <2>1, <2>3, <3>1, <3>2, ExceptSeq
    <3>4. QED BY <2>4, <3>2, <3>3
  <2>7. QED BY <2>3, <2>5, <2>6
<1>16. /\ \A u \in DOMAIN tok : b[u].inst = tok[u].inst
       /\ \A u \in TokensOf(p) : b[u] = tok[u]
  BY <1>10, <1>11 DEF TokensOf
<1>17. ParentStep(i, p, h, t, row, N)
  BY <1>5, <1>8, <1>9, <1>11, <1>12, <1>13, <1>14, <1>15, <1>16 DEF ParentStep, RunList
<1>18. QED BY <1>17

\* The continuation writes the child's and the parent's token, and their instances.
LEMMA ParentWrites ==
    ASSUME TreeInv, NEW i \in DOMAIN inst, NEW p, NEW h, NEW t, Continuing(i, p, h, t),
           NEW row, NEW N, ParentStep(i, p, h, t, row, N)
    PROVE  Writes({i, p}, {h, t})
<1>1. /\ i # p /\ p \in DOMAIN inst /\ t \in DOMAIN tok /\ tok[t].inst = p
      /\ tok[h].inst = i /\ h \in DOMAIN tok /\ ~Ended(i) /\ ~Ended(p)
      /\ inst \in Seq(InstanceRow) /\ tok \in Seq(TokenRow) /\ job \in Seq(JobRow)
  BY ContinuingTokens DEF TreeInv, Types
<1>2. /\ shape' = shape /\ inst' \in Seq(InstanceRow) /\ tok' \in Seq(TokenRow)
      /\ job' \in Seq(JobRow) /\ Len(inst) <= Len(inst') /\ Len(tok) <= Len(tok')
      /\ Len(job) <= Len(job')
  BY <1>1 DEF ParentStep
<1>3. \A j \in DOMAIN inst : /\ inst'[j].kind = inst[j].kind /\ inst'[j].token = inst[j].token
                             /\ inst'[j].target = inst[j].target
                             /\ j \notin {i, p} => inst'[j] = inst[j]
  BY DEF ParentStep
<1>4. \A u \in DOMAIN tok : tok'[u].inst = tok[u].inst /\ (u \notin {h, t} => tok'[u] = tok[u])
  BY <1>1 DEF ParentStep
<1>5. /\ \A j \in DOMAIN job : /\ job'[j].token = job[j].token
                               /\ job[j].token \notin {h, t} => job'[j] = job[j]
      /\ DOMAIN job' \ DOMAIN job = {}
  BY DEF ParentStep
<1>6. /\ sub' \subseteq sub \union {h, t} /\ incident' \subseteq incident \union {h, t}
      /\ \A u \in DOMAIN tok \ {h, t} : (u \in sub => u \in sub') /\ (u \in incident => u \in incident')
      /\ DOMAIN inst' \ DOMAIN inst = {} /\ DOMAIN tok' \ DOMAIN tok = {}
  BY DEF ParentStep
<1>7. QED BY <1>1, <1>2, <1>3, <1>4, <1>5, <1>6 DEF Writes

\* The two tokens after the continuation.
LEMMA ParentTokens ==
    ASSUME TreeInv, NEW i \in DOMAIN inst, NEW p, NEW h, NEW t, Continuing(i, p, h, t),
           NEW row, NEW N, ParentStep(i, p, h, t, row, N)
    PROVE  /\ PlaceOK(h)' /\ PlaceOK(t)' /\ WaitsAt(h)' /\ WaitsAt(t)'
           /\ KidsOf(h)' /\ KidsOf(t)' /\ Ended(i)' /\ ~Ended(p)'
           /\ \A u \in DOMAIN tok' : tok'[u].inst = i => ~Live(u)'
<1>1. /\ i # p /\ h # t /\ p \in DOMAIN inst /\ t \in DOMAIN tok /\ tok[t].inst = p
      /\ tok[h].inst = i /\ h \in DOMAIN tok /\ ~Ended(i) /\ ~Ended(p) /\ tok[h].state = "running"
      /\ tok[t].at = "act" /\ tok[t] \in TokenRow
  BY ContinuingTokens
<1>2. /\ inst[p].kind \in {"default", "multi"}
      /\ \A c \in Kids : inst[c].token = t => Ended(c) \/ c = i
      /\ \A j \in DOMAIN job : job[j].token = t => ~Pending(j)
      /\ t \notin incident /\ \A u \in TokensOf(i) : Live(u) => u = h
  BY ContinuingAlone
<1>3. /\ \A j \in DOMAIN job : job[j].token = h => ~Pending(j)
      /\ h \notin incident /\ h \notin sub
      /\ \A c \in Kids : inst[c].token = h => Ended(c)
  BY <1>1, RunningToken
<1>4. Writes({i, p}, {h, t})
  BY ParentWrites
<1>5. Ended(i)' /\ ~Ended(p)'
  BY <1>1 DEF ParentStep, Ended, EndedStates
<1>6. PlaceOK(h)'
  <2>1. PlaceOK(h)
    BY <1>1 DEF TreeInv, Tree
  <2>2. QED BY <1>1, <2>1 DEF PlaceOK, ParentStep
<1>7. PlaceOK(t)'
  <2>1. row.at \in PlacesOf(inst[p].kind)
    <3>1. CASE Multi(p)
      <4>1. PICK b : row = DoneRow(b, t) /\ b[t] = tok[t]
        BY <3>1 DEF ParentStep
      <4>2. row.at = "act"
        BY <1>1, <4>1, DoneType
      <4>3. QED BY <3>1, <4>2 DEF Multi, PlacesOf
    <3>2. CASE ~Multi(p)
      BY <1>2, <3>2 DEF ParentStep, Multi, PlacesOf
    <3>3. QED BY <3>1, <3>2
  <2>2. inst'[p].kind = inst[p].kind /\ tok'[t] = row /\ row.inst = p /\ p \in DOMAIN inst'
    BY <1>1 DEF ParentStep
  <2>3. QED BY <2>1, <2>2 DEF PlaceOK
<1>8. WaitsAt(h)' /\ WaitsAt(t)'
  <2>1. /\ job' = job /\ h \notin sub' /\ t \notin sub' /\ h \notin incident' /\ t \notin incident'
    BY <1>2, <1>3 DEF ParentStep
  <2>2. \A j \in DOMAIN job' : job'[j].token \in {h, t} => ~Pending(j)'
    BY <1>2, <1>3, <2>1 DEF Pending
  <2>3. QED BY <2>1, <2>2 DEF WaitsAt
<1>9. \A c \in DOMAIN inst' \ DOMAIN inst : inst'[c].token # h /\ inst'[c].token # t
  BY DEF ParentStep
<1>10. tok'[h].state # "waiting" /\ tok'[t].state # "waiting"
  BY DEF ParentStep
<1>11. KidsOf(h)'
  <2>1. h \in {h, t} /\ (\A c \in Kids : inst[c].token = h => Ended(c) \/ Ended(c)')
    BY <1>3
  <2>2. QED BY <1>4, <1>9, <1>10, <2>1, NoKids
<1>12. KidsOf(t)'
  <2>1. t \in {h, t} /\ (\A c \in Kids : inst[c].token = t => Ended(c) \/ Ended(c)')
    BY <1>2, <1>5
  <2>2. QED BY <1>4, <1>9, <1>10, <2>1, NoKids
<1>13. ASSUME NEW u \in DOMAIN tok', tok'[u].inst = i PROVE ~Live(u)'
  <2>1. CASE u = h
    BY <2>1 DEF ParentStep, Live
  <2>2. CASE u # h
    <3>1. u # t
      BY <1>1, <1>13 DEF ParentStep
    <3>2. u \in DOMAIN tok /\ tok'[u] = tok[u]
      BY <2>2, <3>1 DEF ParentStep
    <3>3. u \in TokensOf(i)
      BY <1>13, <3>2 DEF TokensOf
    <3>4. ~Live(u)
      BY <1>2, <2>2, <3>3
    <3>5. QED BY <3>2, <3>4 DEF Live
  <2>3. QED BY <2>1, <2>2
<1>14. QED BY <1>5, <1>6, <1>7, <1>8, <1>11, <1>12, <1>13

\* The continuation counts the item of a multi-instance as done once.
LEMMA ParentItems ==
    ASSUME TreeInv, NEW i \in DOMAIN inst, NEW p, NEW h, NEW t, Continuing(i, p, h, t),
           NEW row, NEW N, ParentStep(i, p, h, t, row, N)
    PROVE  Items'
<1>1. /\ i # p /\ h # t /\ p \in DOMAIN inst /\ t \in DOMAIN tok /\ tok[t].inst = p
      /\ tok[h].inst = i /\ h \in DOMAIN tok /\ ~Ended(i) /\ ~Ended(p) /\ tok[t].state = "waiting"
      /\ tok[t] \in TokenRow /\ i \in Kids
  BY ContinuingTokens
<1>2. Writes({i, p}, {h, t}) /\ Ended(i)' /\ ~Ended(p)'
  BY ParentWrites, ParentTokens
<1>3. /\ SameRows /\ job' = job /\ inst'[i].started = inst[i].started /\ inst'[p] = inst[p]
      /\ inst'[i].state = "completed" /\ \A c \in DOMAIN inst \ {i} : inst'[c] = inst[c]
      /\ tok'[t] = row
  BY <1>1 DEF ParentStep, SameRows
<1>4. ASSUME Multi(i) PROVE ItemsOK(i)'
  <2>1. ItemsOK(i) /\ inst[i].state # "terminated"
    BY <1>1, <1>4 DEF TreeInv, Items, Ended, EndedStates
  <2>2. inst[i].started = shape.items
    BY <1>4 DEF TreeInv, Locks, LockOK, Completes, Continuing
  <2>3. \A j \in DOMAIN job : tok[job[j].token].inst = i => job'[j].state # "terminated"
    BY <1>3, <2>1 DEF ItemsOK
  <2>4. ASSUME NEW c \in Kids, ParentOf(c) = i PROVE inst'[c].state # "terminated"
    <3>1. inst[c].state # "terminated"
      BY <2>1, <2>4 DEF ItemsOK
    <3>2. QED BY <1>3, <3>1 DEF Kids
  <2>5. i \in {i, p}
    OBVIOUS
  <2>6. QED BY <1>2, <1>3, <1>4, <2>2, <2>3, <2>4, <2>5, ItemsEnd
<1>5. ASSUME Multi(p) PROVE ItemsOK(p)'
  <2>1. ItemsOK(p) /\ inst[p].state # "terminated"
    BY <1>1, <1>5 DEF TreeInv, Items, Ended, EndedStates
  <2>2. Live(t) /\ t \in TokensOf(p)
    BY <1>1 DEF Live, TokensOf
  <2>3. ASSUME ~shape.sequential PROVE ItemOK(t)'
    <3>1. PICK b : /\ row = DoneRow(b, t) /\ DOMAIN b = DOMAIN tok /\ b[t] = tok[t]
                   /\ \A u \in DOMAIN tok : b[u].inst = tok[u].inst
                   /\ \A u \in TokensOf(p) : b[u] = tok[u]
      BY <1>5 DEF ParentStep
    <3>2. ItemOK(t)
      BY <1>1, <2>1, <2>2, <2>3 DEF ItemsOK
    <3>3. tok[t].eik = 1 /\ Begun(t)
      BY <1>1, <3>2 DEF ItemOK
    <3>4. TokensOf(p)' = TokensOf(p) /\ Begun(t)'
      BY <1>2, <1>3, <3>3, SameCounts
    <3>5. \A u \in TokensOf(p) : u # t => tok'[u] = tok[u]
      BY <1>1 DEF ParentStep, TokensOf
    <3>6. \A j \in DOMAIN job' : job'[j].token = t => ~Pending(j)'
      BY <1>3, ContinuingAlone DEF Pending
    <3>7. tok'[t].inst = p
      BY <1>1 DEF ParentStep
    <3>8. CASE LastDone(b, t)
      <4>1. \A u \in TokensOf(p) : u # t => tok[u].state = "completed"
        BY <1>1, <1>5, <2>2, <2>3, <3>1, <3>8, LastIsLast
      <4>2. row.eik = 2 /\ row.state = "running"
        BY <1>1, <3>1, <3>3, <3>8, DoneType
      <4>3. tok'[t].eik = 2 /\ tok'[t].state = "running"
        BY <1>3, <4>2
      <4>4. \A u \in TokensOf(p)' : u # t => tok'[u].state = "completed"
        BY <3>4, <3>5, <4>1
      <4>5. QED BY <3>4, <3>6, <3>7, <4>3, <4>4 DEF ItemOK
    <3>9. CASE ~LastDone(b, t)
      <4>1. row.eik = 1 /\ row.state = "completed"
        BY <1>1, <3>1, <3>3, <3>9, DoneType
      <4>2. tok'[t].eik = 1 /\ tok'[t].state = "completed"
        BY <1>3, <4>1
      <4>3. QED BY <3>4, <3>6, <4>2 DEF ItemOK
    <3>10. QED BY <3>8, <3>9
  <2>4. \A j \in DOMAIN job : job[j].token = t => job'[j].state # "terminated"
    BY <1>1, <1>3, <2>1 DEF ItemsOK
  <2>5. p \in {i, p} /\ t \in {h, t} /\ \A u \in {h, t} : tok[u].inst = p => u = t
    BY <1>1
  <2>6. \A c \in {i, p} : c # 1 /\ ParentOf(c) = p => inst'[c].state # "terminated"
    BY <1>3, <2>1
  <2>7. inst'[p].started = inst[p].started
    BY <1>3
  <2>8. QED BY <1>1, <1>2, <1>3, <1>5, <2>2, <2>3, <2>4, <2>5, <2>6, <2>7, ItemsSame
<1>6. \A c \in {i, p} : c # 1 /\ inst'[c].state = "terminated" => ParentOf(c) \in {i, p}
  BY <1>2, <1>3 DEF Ended, EndedStates
<1>7. \A m \in {i, p} : Multi(m) => ItemsOK(m)'
  BY <1>4, <1>5
<1>8. DOMAIN inst' \ DOMAIN inst = {}
  BY <1>3 DEF SameRows
<1>9. QED BY <1>2, <1>6, <1>7, <1>8, KeepItems

\* The call of the child after the continuation.
ParentHolds(i) == Holds(i, [held[i] EXCEPT !.pc = "loop", !.toks = <<>>])

\* The locks and calls after the continuation.
LEMMA ParentCall ==
    ASSUME TreeInv, NEW i \in DOMAIN inst, NEW p, NEW h, NEW t, Continuing(i, p, h, t),
           NEW row, NEW N, ParentStep(i, p, h, t, row, N), SameLocks, ParentHolds(i)
    PROVE  /\ held'[i] \in Call /\ held'[i].op = "run" /\ held'[i].pc = "loop" /\ held'[i].toks = <<>>
           /\ \A k \in DOMAIN inst \ {i} : held'[k] = held[k]
           /\ \A k \in DOMAIN inst : lock'[k] = lock[k]
           /\ DOMAIN inst' = DOMAIN inst
           /\ held' \in [DOMAIN inst' -> Call] /\ lock' \in [DOMAIN inst' -> Nat]
<1>1. held[i] \in Call /\ held[i].op = "run"
  BY ContinuingTokens
<1>2. PICK c : c = [held[i] EXCEPT !.pc = "loop", !.toks = <<>>]
  OBVIOUS
<1>3. c \in Call /\ c.op = "run" /\ c.pc = "loop" /\ c.toks = <<>>
  <2>1. <<>> \in Seq(Nat)
    OBVIOUS
  <2>2. QED BY <1>1, <1>2, <2>1 DEF Call
<1>4. DOMAIN inst' = DOMAIN inst
  BY DEF ParentStep
<1>5. Holds(i, c)
  BY <1>2 DEF ParentHolds
<1>6. held'[i] = c /\ \A k \in DOMAIN inst \ {i} : held'[k] = held[k]
  BY <1>4, <1>5 DEF Holds
<1>7. \A k \in DOMAIN inst : lock'[k] = lock[k]
  BY <1>4 DEF SameLocks
<1>8. held' \in [DOMAIN inst' -> Call]
  <2>1. \A k \in DOMAIN inst : held[k] \in Call
    BY DEF TreeInv, Types
  <2>2. QED BY <1>3, <1>4, <1>5, <2>1 DEF Holds
<1>9. lock' \in [DOMAIN inst' -> Nat]
  BY <1>4 DEF TreeInv, Types, SameLocks
<1>10. QED BY <1>3, <1>4, <1>6, <1>7, <1>8, <1>9

\* The continuation has the parent's token run, in a goroutine of the parent.
LEMMA ParentLists ==
    ASSUME TreeInv, NEW i \in DOMAIN inst, NEW p, NEW h, NEW t, Continuing(i, p, h, t),
           NEW row, NEW N, ParentStep(i, p, h, t, row, N), SameLocks, ParentHolds(i)
    PROVE  Lists({i, p}, {h, t}) /\ go' \subseteq Goroutine
<1>1. /\ i # p /\ h # t /\ p \in DOMAIN inst /\ t \in DOMAIN tok /\ tok[t].inst = p
      /\ tok[h].inst = i /\ h \in DOMAIN tok /\ tok[t].state = "waiting"
      /\ held[i].toks[1] = h /\ 1 \in DOMAIN held[i].toks /\ held[p] = NoCall
  BY ContinuingTokens
<1>2. /\ held'[i].toks = <<>> /\ DOMAIN inst' = DOMAIN inst
      /\ \A k \in DOMAIN inst \ {i} : held'[k] = held[k]
  BY ParentCall
<1>3. held'[p].toks = <<>>
  BY <1>1, <1>2 DEF NoCall
<1>4. Writes({i, p}, {h, t}) /\ Ended(i)'
  BY ParentWrites, ParentTokens
<1>5. PICK g0 : g0 = [inst |-> p, toks |-> N]
  OBVIOUS
<1>6. go' = go \union {g0} /\ g0.inst = p /\ g0.toks = N
  BY <1>5 DEF ParentStep, Run
<1>7. /\ row.inst = p /\ tok'[t] = row /\ t \in DOMAIN tok'
      /\ N = IF row.state = "running" THEN <<t>> ELSE <<>>
  BY <1>1 DEF ParentStep
<1>8. N \in Seq(Nat) /\ (\A k \in DOMAIN N : N[k] = t) /\ RunsIn(N, p)'
  <2>1. t \in Nat
    BY <1>1 DEF TreeInv, Types
  <2>2. CASE row.state = "running"
    <3>1. N = <<t>>
      BY <1>7, <2>2
    <3>2. DOMAIN N = {1} /\ N[1] = t /\ Len(N) = 1 /\ N \in Seq(Nat)
      BY <2>1, <3>1
    <3>3. RunsIn(N, p)'
      BY <1>7, <2>2, <3>2 DEF RunsIn
    <3>4. QED BY <3>2, <3>3
  <2>3. CASE row.state # "running"
    <3>1. N = <<>>
      BY <1>7, <2>3
    <3>2. DOMAIN N = {} /\ N \in Seq(Nat)
      BY <3>1
    <3>3. QED BY <3>2 DEF RunsIn
  <2>4. QED BY <2>2, <2>3
<1>9. go' \subseteq Goroutine
  <2>1. p \in Nat
    BY <1>1 DEF TreeInv, Types
  <2>2. g0 \in Goroutine
    BY <1>5, <1>8, <2>1 DEF Goroutine
  <2>3. QED BY <1>6, <2>2 DEF TreeInv, Types
<1>10. ASSUME NEW g \in go' \ go
       PROVE  /\ g.inst \in DOMAIN inst' /\ RunsIn(g.toks, g.inst)'
              /\ \A k \in DOMAIN g.toks : g.toks[k] \in {h, t} \/ g.toks[k] \notin DOMAIN tok
              /\ held'[g.inst].toks = <<>> /\ g = g0
  <2>1. g = g0 /\ g.inst = p /\ g.toks = N
    BY <1>6
  <2>2. QED BY <1>1, <1>2, <1>3, <1>8, <2>1
<1>11. ASSUME NEW g \in go, ~Ended(g.inst)' PROVE \A k \in DOMAIN g.toks : g.toks[k] \notin {h, t}
  <2>1. g.inst \in DOMAIN inst
    BY DEF TreeInv, Carried
  <2>2. ~Ended(g.inst)
    BY <1>4, <1>11, <2>1, EndedStays
  <2>3. RunsIn(g.toks, g.inst)
    BY <2>2 DEF TreeInv, Carried
  <2>4. g.inst # i
    BY <1>4, <1>11
  <2>5. QED BY <1>1, <2>3, <2>4 DEF RunsIn
<1>12. \A k \in DOMAIN inst' \ {i, p} : held'[k] = IF k \in DOMAIN inst THEN held[k] ELSE NoCall
  BY <1>2
<1>13. ASSUME NEW k \in {i, p}
       PROVE  /\ RunsIn(held[k].toks, k)'
              /\ \A l \in DOMAIN held'[k].toks :
                   \/ held'[k].toks[l] \in {h, t} \/ held'[k].toks[l] \notin DOMAIN tok
                   \/ \E m \in DOMAIN held[k].toks : held[k].toks[m] = held'[k].toks[l]
  <2>1. held'[k].toks = <<>>
    BY <1>2, <1>3
  <2>2. QED BY <2>1 DEF RunsIn
<1>14. QED BY <1>9, <1>10, <1>11, <1>12, <1>13 DEF Lists

\* A child that completes continues its parent in the same batch.
LEMMA ContinueParentKeeps ==
    ASSUME TreeInv, NEW i \in DOMAIN inst, ContinueParent(i)
    PROVE  TreeInv'
<1>1. PICK h, t, p : h = Head(held[i].toks) /\ t = inst[i].token /\ p = ParentOf(i)
  OBVIOUS
<1>2. Continuing(i, p, h, t)
  BY <1>1 DEF Continuing, ContinueParent
<1>3. PICK row, N : ParentStep(i, p, h, t, row, N)
  BY <1>2, ContinueTables
<1>4. SameLocks
  <2>1. PICK q : q = handleParentProcessContinuation(Completing(i), i)
    OBVIOUS
  <2>2. Flush(q, {})
    BY <2>1 DEF ContinueParent
  <2>3. QED BY <2>2, FlushedLocks
<1>5. ParentHolds(i)
  <2>1. PICK c : c = [held[i] EXCEPT !.pc = "loop", !.toks = <<>>]
    OBVIOUS
  <2>2. Held(Busy(i, c))
    BY <2>1 DEF ContinueParent
  <2>3. Holds(i, c)
    BY <2>2, HeldBusy
  <2>4. QED BY <2>1, <2>3 DEF ParentHolds
<1>6. /\ i # 1 /\ i # p /\ p \in DOMAIN inst /\ lock[i] = i /\ i \in Nat /\ held[p] = NoCall
      /\ ~Ended(p) /\ lock[p] = 0
  BY <1>2, ContinuingTokens DEF Continuing
<1>7. /\ held'[i] \in Call /\ held'[i].op = "run" /\ held'[i].pc = "loop" /\ held'[i].toks = <<>>
      /\ \A k \in DOMAIN inst \ {i} : held'[k] = held[k]
      /\ \A k \in DOMAIN inst : lock'[k] = lock[k]
      /\ DOMAIN inst' = DOMAIN inst
      /\ held' \in [DOMAIN inst' -> Call] /\ lock' \in [DOMAIN inst' -> Nat]
  BY <1>2, <1>3, <1>4, <1>5, ParentCall
<1>8. Lists({i, p}, {h, t}) /\ go' \subseteq Goroutine
  BY <1>2, <1>3, <1>4, <1>5, ParentLists
<1>9. Writes({i, p}, {h, t})
  BY <1>2, <1>3, ParentWrites
<1>10. /\ PlaceOK(h)' /\ PlaceOK(t)' /\ WaitsAt(h)' /\ WaitsAt(t)'
       /\ KidsOf(h)' /\ KidsOf(t)' /\ Ended(i)' /\ ~Ended(p)'
       /\ \A u \in DOMAIN tok' : tok'[u].inst = i => ~Live(u)'
  BY <1>2, <1>3, ParentTokens
<1>11. Items'
  BY <1>2, <1>3, ParentItems
<1>12. PICK I, T : I = {i, p} /\ T = {h, t}
  OBVIOUS
<1>13. Writes(I, T) /\ Lists(I, T)
  BY <1>8, <1>9, <1>12
<1>14. Types'
  <2>1. failures' = failures
    BY <1>3 DEF ParentStep
  <2>2. shape' \in Shapes /\ failures' \in 0..MaxFailures
    BY <1>9, <2>1 DEF Writes, TreeInv, Types
  <2>3. sub' \subseteq DOMAIN tok' /\ incident' \subseteq DOMAIN tok'
    BY <1>13, Domains
  <2>4. QED BY <1>7, <1>8, <1>9, <2>2, <2>3 DEF Types, Writes
<1>15. Tree'
  <2>1. \A u \in T : PlaceOK(u)'
    BY <1>10, <1>12
  <2>2. QED BY <1>13, <2>1, KeepTree
<1>16. Waits'
  <2>1. \A u \in T : WaitsAt(u)'
    BY <1>10, <1>12
  <2>2. QED BY <1>13, <2>1, KeepWaits
<1>17. Quiet'
  <2>1. \A k \in I : Ended(k)' => \A u \in DOMAIN tok' : tok'[u].inst = k => ~Live(u)'
    BY <1>10, <1>12
  <2>2. QED BY <1>13, <2>1, KeepQuiet
<1>18. Waiting'
  <2>1. \A u \in T : KidsOf(u)'
    BY <1>10, <1>12
  <2>2. \A k \in I : k # 1 /\ inst[k].token \notin T => ~Ended(k)'
    BY <1>1, <1>10, <1>12
  <2>3. QED BY <1>13, <1>17, <2>1, <2>2, KeepWaiting
<1>19. Carried'
  BY <1>13, KeepCarried
<1>20. held'[1] = held[1] \/ held[1].pc # "cancel"
  BY <1>6, <1>7 DEF TreeInv, Tree
<1>21. held'[1] = held[1]
  BY <1>6, <1>7 DEF TreeInv, Tree
<1>22. Cancels'
  <2>1. \A k \in I : lock[k] # 1
    BY <1>6, <1>12
  <2>2. /\ held[1].pc # "cancel" => held'[1].pc # "cancel"
        /\ held[1].pc = "cancel" => /\ held'[1] = held[1]
                                    /\ \A k \in I : lock[k] # 1
                                    /\ \A k \in DOMAIN inst : lock'[k] = lock[k]
    BY <1>7, <1>21, <2>1
  <2>3. QED BY <1>13, <2>2, KeepCancels
<1>23. Locks'
  <2>1. LockOK(i)'
    <3>1. lock'[i] = i /\ i # 0
      BY <1>6, <1>7 DEF TreeInv, Types
    <3>2. QED BY <1>6, <1>7, <3>1 DEF LockOK
  <2>2. LockOK(p)'
    <3>1. held'[p] = NoCall /\ lock'[p] = 0 /\ p # 0
      BY <1>6, <1>7 DEF TreeInv, Types
    <3>2. NoCall.toks = <<>> /\ NoCall.pc = "none" /\ ~NoCall.failed
      BY DEF NoCall
    <3>3. QED BY <1>10, <3>1, <3>2 DEF LockOK
  <2>3. \A k \in I : LockOK(k)'
    BY <1>12, <2>1, <2>2
  <2>4. \A k \in DOMAIN inst \ I : lock'[k] = lock[k] \/ (lock[k] # k /\ lock'[k] = 0)
    BY <1>7
  <2>5. ASSUME NEW k \in DOMAIN inst' \ I, lock'[k] \notin {0, k}
        PROVE  lock'[k] = 1 /\ held'[1].pc = "cancel"
    <3>1. k \in DOMAIN inst /\ lock'[k] = lock[k]
      BY <1>7
    <3>2. LockOK(k)
      BY <3>1 DEF TreeInv, Locks
    <3>3. QED BY <1>21, <2>5, <3>1, <3>2 DEF LockOK
  <2>6. \A k \in DOMAIN inst' \ DOMAIN inst : lock'[k] = 0
    BY <1>7
  <2>7. QED BY <1>13, <2>3, <2>4, <2>5, <2>6, KeepLocks
<1>24. QED BY <1>11, <1>14, <1>15, <1>16, <1>17, <1>18, <1>19, <1>22, <1>23 DEF TreeInv

-----------------------------------------------------------------------------
(* The flush of a call that cancels.                                       *)

\* The rows of the instances D after they have been cancelled, but for token o.
CancelInst(D) ==
    [k \in DOMAIN inst |-> IF k \in D THEN [inst[k] EXCEPT !.state = "terminated"] ELSE inst[k]]
CancelTok(D, o) ==
    [t \in DOMAIN tok |-> IF tok[t].inst \in D /\ t # o /\ Live(t)
                          THEN [tok[t] EXCEPT !.state = "canceled"] ELSE tok[t]]
CancelJob(D) ==
    [j \in DOMAIN job |-> IF tok[job[j].token].inst \in D /\ job[j].state \in {"active", "failed"}
                          THEN [job[j] EXCEPT !.state = "terminated"] ELSE job[j]]
OutOf(S, D) == {t \in S : tok[t].inst \notin D}

\* The rows of cancelInstance.
LEMMA CancelRows ==
    ASSUME NEW D, NEW o
    PROVE  cancelInstance(Rows, D, o)
           = RowSet(CancelInst(D), CancelTok(D, o), CancelJob(D), OutOf(sub, D), OutOf(incident, D), {})
<1>1. PICK R : R = Rows
  OBVIOUS
<1>2. R.inst = inst /\ R.tok = tok /\ R.job = job /\ R.sub = sub /\ R.inc = incident
  BY <1>1 DEF Rows
<1>3. PICK A, B, C, S, E :
         /\ A = CancelInst(D) /\ B = CancelTok(D, o) /\ C = CancelJob(D)
         /\ S = OutOf(sub, D) /\ E = OutOf(incident, D)
  OBVIOUS
<1>4. A = [i \in DOMAIN R.inst |-> IF i \in D THEN [R.inst[i] EXCEPT !.state = "terminated"]
                                   ELSE R.inst[i]]
  BY <1>2, <1>3 DEF CancelInst
<1>5. B = [t \in DOMAIN R.tok |-> IF R.tok[t].inst \in D /\ t # o /\ Live(t)
                                  THEN [R.tok[t] EXCEPT !.state = "canceled"] ELSE R.tok[t]]
  BY <1>2, <1>3 DEF CancelTok
<1>6. C = [j \in DOMAIN R.job |->
              IF tok[R.job[j].token].inst \in D /\ R.job[j].state \in {"active", "failed"}
              THEN [R.job[j] EXCEPT !.state = "terminated"] ELSE R.job[j]]
  BY <1>2, <1>3 DEF CancelJob
<1>7. S = {t \in R.sub : tok[t].inst \notin D} /\ E = {t \in R.inc : tok[t].inst \notin D}
  BY <1>2, <1>3 DEF OutOf
<1>8. cancelInstance(R, D, o)
      = [R EXCEPT !.inst = A, !.tok = B, !.job = C, !.sub = S, !.inc = E]
  BY <1>4, <1>5, <1>6, <1>7 DEF cancelInstance
<1>9. [R EXCEPT !.inst = A, !.tok = B, !.job = C, !.sub = S, !.inc = E] = RowSet(A, B, C, S, E, {})
  <2>1. R = RowSet(inst, tok, job, sub, incident, {})
    BY <1>1 DEF Rows, RowSet
  <2>2. PICK p : p = [R EXCEPT !.inst = A, !.tok = B]
    OBVIOUS
  <2>3. p = RowSet(A, B, job, sub, incident, {})
    BY <2>1, <2>2 DEF RowSet
  <2>4. PICK q : q = [p EXCEPT !.job = C, !.sub = S]
    OBVIOUS
  <2>5. q = RowSet(A, B, C, S, incident, {})
    BY <2>3, <2>4 DEF RowSet
  <2>6. [q EXCEPT !.inc = E] = RowSet(A, B, C, S, E, {})
    BY <2>5 DEF RowSet
  <2>7. [R EXCEPT !.inst = A, !.tok = B, !.job = C, !.sub = S, !.inc = E] = [q EXCEPT !.inc = E]
    BY <2>2, <2>4
  <2>8. QED BY <2>6, <2>7
<1>10. QED BY <1>1, <1>3, <1>8, <1>9

\* The tables after the instances D have been cancelled and the tokens M, which are
\* those of a boundary event, moved.
Cancelled(D, M) ==
    /\ shape' = shape /\ failures' = failures
    /\ inst' \in Seq(InstanceRow) /\ DOMAIN inst' = DOMAIN inst /\ Len(inst') = Len(inst)
    /\ \A k \in DOMAIN inst : /\ inst'[k].kind = inst[k].kind /\ inst'[k].token = inst[k].token
                              /\ inst'[k].target = inst[k].target
                              /\ inst'[k].started = inst[k].started
                              /\ k \notin D => inst'[k] = inst[k]
                              /\ k \in D => Ended(k)'
                              /\ k \in D /\ k # 1 => inst'[k].state = "terminated"
    /\ tok' \in Seq(TokenRow) /\ DOMAIN tok' = DOMAIN tok /\ Len(tok') = Len(tok)
    /\ \A t \in DOMAIN tok : /\ tok'[t].inst = tok[t].inst
                             /\ tok[t].inst \notin D /\ t \notin M => tok'[t] = tok[t]
                             /\ tok[t].inst \in D => tok'[t].at = tok[t].at /\ ~Live(t)'
    /\ \A t \in M : tok'[t].at = "end" /\ tok'[t].state = "running"
    /\ job' \in Seq(JobRow) /\ DOMAIN job' = DOMAIN job /\ Len(job') = Len(job)
    /\ \A j \in DOMAIN job : /\ job'[j].token = job[j].token
                             /\ tok[job[j].token].inst \notin D => job'[j] = job[j]
                             /\ tok[job[j].token].inst \in D => ~Pending(j)'
    /\ sub' = OutOf(sub, D) \ M /\ incident' = OutOf(incident, D)

\* What the call of the root has locked, and takes away.
CancelScope(D, M) ==
    /\ held[1].pc = "cancel" /\ held[1].todo = <<>>
    /\ D = IF held[1].op = "run" THEN held[1].dead \union {1} ELSE held[1].dead
    /\ M = IF held[1].op = "boundary" THEN {held[1].token} ELSE {}

WrittenInst(D)   == D \union {1}
WrittenTok(D, M) == {t \in DOMAIN tok : tok[t].inst \in D \/ t \in M}

\* The instances that have not ended below the cancelled ones are among them, and
\* each of them hangs on a token that is taken away.
LEMMA CancelSet ==
    ASSUME TreeInv, NEW D, NEW M, CancelScope(D, M)
    PROVE  /\ D \subseteq DOMAIN inst /\ 1 \in DOMAIN inst /\ ~Ended(1) /\ lock[1] = 1
           /\ held[1] \in Call
           /\ \A k \in D : ~Ended(k) /\ (k # 1 => lock[k] = 1 /\ held[k] = NoCall)
           /\ 1 \notin D => held[1].op = "boundary"
           /\ \A t \in M : /\ t \in sub /\ t \in DOMAIN tok /\ tok[t].inst = 1 /\ 1 \notin D
                           /\ tok[t].state = "waiting" /\ tok[t].at = "act" /\ t \notin incident
                           /\ \A j \in DOMAIN job : job[j].token = t => ~Pending(j)
           /\ \A t, u \in M : t = u
           /\ \A c \in Kids : ~Ended(c) /\ inst[c].token \in WrittenTok(D, M) => c \in D
           /\ \A c \in D : c # 1 => inst[c].token \in WrittenTok(D, M) /\ ParentOf(c) \in D \union {1}
<1>1. 1 \in DOMAIN inst /\ LockOK(1) /\ held[1].pc = "cancel" /\ held[1] \in Call
  BY DEF TreeInv, Tree, Locks, Types, CancelScope
<1>2. ~Ended(1) /\ lock[1] = 1
  BY <1>1 DEF LockOK
<1>3. /\ held[1].op \in {"run", "boundary", "cancel"}
      /\ held[1].op = "boundary" => held[1].token \in sub
      /\ held[1].op = "cancel" <=> 1 \in held[1].dead
      /\ \A c \in held[1].dead : c \in DOMAIN inst /\ lock[c] = 1 /\ ~Ended(c)
      /\ \A c \in Kids : Doomed(c) => Reached(inst[c].token)
      /\ \A c \in Kids : ~Ended(c) /\ Reached(inst[c].token) => Doomed(c)
  BY <1>1 DEF TreeInv, Cancels, Call
<1>4. \A c : Doomed(c) <=> c \in held[1].dead
  <2>1. held[1].todo = <<>>
    BY DEF CancelScope
  <2>2. QED BY <2>1 DEF Doomed, InTodo
<1>5. /\ D \subseteq DOMAIN inst /\ \A k \in D : ~Ended(k) /\ (k # 1 => k \in held[1].dead /\ lock[k] = 1)
  BY <1>1, <1>2, <1>3 DEF CancelScope
<1>6. ASSUME NEW k \in D, k # 1 PROVE held[k] = NoCall
  <2>1. LockOK(k) /\ lock[k] = 1
    BY <1>5, <1>6 DEF TreeInv, Locks
  <2>2. QED BY <1>6, <2>1 DEF LockOK
<1>7. 1 \notin D <=> held[1].op = "boundary"
  BY <1>3 DEF CancelScope
<1>8. ASSUME NEW t \in M
      PROVE  /\ t \in sub /\ t \in DOMAIN tok /\ tok[t].inst = 1 /\ 1 \notin D
             /\ tok[t].state = "waiting" /\ tok[t].at = "act" /\ t \notin incident
             /\ \A j \in DOMAIN job : job[j].token = t => ~Pending(j)
  <2>1. t \in sub /\ 1 \notin D
    BY <1>3, <1>7, <1>8 DEF CancelScope
  <2>2. t \in DOMAIN tok
    BY <2>1 DEF TreeInv, Types
  <2>3. WaitsAt(t)
    BY <2>2 DEF TreeInv, Waits
  <2>4. tok[t].inst = 1 /\ tok[t].state = "waiting" /\ tok[t].at = "act" /\ t \notin incident
    BY <2>1, <2>3 DEF WaitsAt
  <2>5. ASSUME NEW j \in DOMAIN job, job[j].token = t, Pending(j) PROVE FALSE
    BY <2>1, <2>5, JobToken
  <2>6. QED BY <2>1, <2>2, <2>4, <2>5
<1>9. \A t, u \in M : t = u
  BY DEF CancelScope
<1>10. ASSUME NEW t \in DOMAIN tok PROVE Reached(t) <=> t \in WrittenTok(D, M)
  BY <1>3 DEF Reached, WrittenTok, CancelScope
<1>11. ASSUME NEW c \in Kids PROVE inst[c].token \in DOMAIN tok
  BY DEF TreeInv, Tree, KidOK
<1>12. ASSUME NEW c \in Kids, ~Ended(c), inst[c].token \in WrittenTok(D, M) PROVE c \in D
  <2>1. Reached(inst[c].token)
    BY <1>10, <1>11, <1>12
  <2>2. c \in held[1].dead
    BY <1>3, <1>4, <1>12, <2>1
  <2>3. QED BY <2>2 DEF CancelScope
<1>13. ASSUME NEW c \in D, c # 1
       PROVE  inst[c].token \in WrittenTok(D, M) /\ ParentOf(c) \in D \union {1}
  <2>1. c \in Kids /\ c \in held[1].dead
    BY <1>5, <1>13 DEF Kids
  <2>2. inst[c].token \in WrittenTok(D, M)
    BY <1>3, <1>4, <1>10, <1>11, <2>1
  <2>3. QED BY <1>8, <2>2 DEF WrittenTok, ParentOf
<1>14. QED BY <1>1, <1>2, <1>5, <1>6, <1>7, <1>8, <1>9, <1>12, <1>13

\* A call that cancels writes the instances it has locked and the tokens it takes away.
LEMMA CancelWrites ==
    ASSUME TreeInv, NEW D, NEW M, CancelScope(D, M), Cancelled(D, M)
    PROVE  Writes(WrittenInst(D), WrittenTok(D, M)) /\ SameRows
<1>1. /\ D \subseteq DOMAIN inst /\ 1 \in DOMAIN inst /\ ~Ended(1)
      /\ \A k \in D : ~Ended(k)
      /\ \A t \in M : t \in sub /\ t \in DOMAIN tok /\ tok[t].inst = 1
  BY CancelSet
<1>2. PICK I, T : I = WrittenInst(D) /\ T = WrittenTok(D, M)
  OBVIOUS
<1>3. I \subseteq DOMAIN inst /\ T \subseteq DOMAIN tok /\ \A i \in I : ~Ended(i)
  BY <1>1, <1>2 DEF WrittenInst, WrittenTok
<1>4. \A t \in T : tok[t].inst \in I
  BY <1>1, <1>2 DEF WrittenInst, WrittenTok
<1>5. \A i \in DOMAIN inst : /\ inst'[i].kind = inst[i].kind /\ inst'[i].token = inst[i].token
                             /\ inst'[i].target = inst[i].target
                             /\ i \notin I => inst'[i] = inst[i]
  BY <1>2 DEF Cancelled, WrittenInst
<1>6. \A t \in DOMAIN tok : tok'[t].inst = tok[t].inst /\ (t \notin T => tok'[t] = tok[t])
  BY <1>2 DEF Cancelled, WrittenTok
<1>7. \A j \in DOMAIN job : /\ job'[j].token = job[j].token
                            /\ job[j].token \notin T => job'[j] = job[j]
  <2>1. \A j \in DOMAIN job : job[j].token \in DOMAIN tok
    BY DEF TreeInv, Tree
  <2>2. QED BY <1>2, <2>1 DEF Cancelled, WrittenTok
<1>8. /\ sub' \subseteq sub \union T /\ incident' \subseteq incident \union T
      /\ \A t \in DOMAIN tok \ T : (t \in sub => t \in sub') /\ (t \in incident => t \in incident')
  BY <1>2 DEF Cancelled, WrittenTok, OutOf
<1>9. /\ shape' = shape
      /\ inst' \in Seq(InstanceRow) /\ tok' \in Seq(TokenRow) /\ job' \in Seq(JobRow)
      /\ DOMAIN inst' = DOMAIN inst /\ DOMAIN tok' = DOMAIN tok /\ DOMAIN job' = DOMAIN job
      /\ Len(inst) = Len(inst') /\ Len(tok) = Len(tok') /\ Len(job) = Len(job')
  BY DEF Cancelled
<1>10. Len(inst) <= Len(inst') /\ Len(tok) <= Len(tok') /\ Len(job) <= Len(job')
  <2>1. inst' \in Seq(InstanceRow) /\ tok' \in Seq(TokenRow) /\ job' \in Seq(JobRow)
    BY <1>9
  <2>2. Len(inst') \in Nat /\ Len(tok') \in Nat /\ Len(job') \in Nat
    BY <2>1
  <2>3. QED BY <1>9, <2>2
<1>11. Writes(I, T)
  BY <1>3, <1>4, <1>5, <1>6, <1>7, <1>8, <1>9, <1>10 DEF Writes
<1>12. QED BY <1>2, <1>9, <1>11 DEF SameRows

\* The tokens that a call that cancels takes away have no job, incident, subscription or
\* child left.
LEMMA CancelTokens ==
    ASSUME TreeInv, NEW D, NEW M, CancelScope(D, M), Cancelled(D, M), NEW t \in WrittenTok(D, M)
    PROVE  PlaceOK(t)' /\ WaitsAt(t)' /\ KidsOf(t)'
<1>1. Writes(WrittenInst(D), WrittenTok(D, M)) /\ SameRows
  BY CancelWrites
<1>2. /\ 1 \in DOMAIN inst
      /\ \A u \in M : /\ u \in sub /\ u \in DOMAIN tok /\ tok[u].inst = 1 /\ 1 \notin D
                      /\ u \notin incident
                      /\ \A j \in DOMAIN job : job[j].token = u => ~Pending(j)
      /\ \A c \in Kids : ~Ended(c) /\ inst[c].token \in WrittenTok(D, M) => c \in D
  BY CancelSet
<1>3. t \in DOMAIN tok /\ t \in DOMAIN tok' /\ tok'[t].inst = tok[t].inst
  BY DEF Cancelled, WrittenTok
<1>4. PlaceOK(t)
  BY <1>3 DEF TreeInv, Tree
<1>5. /\ \A k \in DOMAIN inst : inst'[k].kind = inst[k].kind
      /\ DOMAIN inst' = DOMAIN inst /\ DOMAIN job' = DOMAIN job
      /\ \A j \in DOMAIN job : job'[j].token = job[j].token
      /\ sub' = OutOf(sub, D) \ M /\ incident' = OutOf(incident, D)
  BY DEF Cancelled
<1>6. \A c \in Kids : inst[c].token = t => Ended(c) \/ Ended(c)'
  <2>1. ASSUME NEW c \in Kids, inst[c].token = t, ~Ended(c) PROVE Ended(c)'
    <3>1. c \in D
      BY <1>2, <2>1
    <3>2. QED BY <2>1, <3>1 DEF Cancelled, Kids
  <2>2. QED BY <2>1
<1>7. \A c \in DOMAIN inst' \ DOMAIN inst : inst'[c].token # t
  BY <1>5
<1>8. CASE t \in M
  <2>1. tok'[t].at = "end" /\ tok'[t].state = "running"
    BY <1>8 DEF Cancelled
  <2>2. PlaceOK(t)'
    <3>1. inst'[1].kind = "default" /\ tok'[t].inst = 1 /\ 1 \in DOMAIN inst'
      BY <1>2, <1>3, <1>5, <1>8 DEF TreeInv, Tree
    <3>2. QED BY <2>1, <3>1 DEF PlaceOK, PlacesOf
  <2>3. WaitsAt(t)'
    <3>1. t \notin sub' /\ t \notin incident'
      BY <1>2, <1>5, <1>8 DEF OutOf
    <3>2. ASSUME NEW j \in DOMAIN job', job'[j].token = t PROVE ~Pending(j)'
      <4>1. j \in DOMAIN job /\ job[j].token = t /\ ~Pending(j)
        BY <1>2, <1>5, <1>8, <3>2
      <4>2. tok[job[j].token].inst \notin D
        BY <1>2, <1>8, <4>1
      <4>3. job'[j] = job[j]
        BY <4>1, <4>2 DEF Cancelled
      <4>4. QED BY <4>1, <4>3 DEF Pending
    <3>3. QED BY <3>1, <3>2 DEF WaitsAt
  <2>4. KidsOf(t)'
    <3>1. tok'[t].state = "waiting" => ~HasChild(t)'
      BY <2>1
    <3>2. QED BY <1>1, <1>6, <1>7, <3>1, NoKids
  <2>5. QED BY <2>2, <2>3, <2>4
<1>9. CASE t \notin M
  <2>1. tok[t].inst \in D /\ tok'[t].at = tok[t].at /\ ~Live(t)'
    BY <1>3, <1>9 DEF WrittenTok, Cancelled
  <2>2. PlaceOK(t)'
    BY <1>3, <1>4, <1>5, <2>1 DEF PlaceOK
  <2>3. WaitsAt(t)'
    <3>1. t \notin sub' /\ t \notin incident'
      BY <1>5, <2>1 DEF OutOf
    <3>2. ASSUME NEW j \in DOMAIN job', job'[j].token = t PROVE ~Pending(j)'
      <4>1. j \in DOMAIN job /\ job[j].token = t
        BY <1>5, <3>2
      <4>2. QED BY <2>1, <4>1 DEF Cancelled
    <3>3. QED BY <3>1, <3>2 DEF WaitsAt
  <2>4. KidsOf(t)'
    <3>1. tok'[t].state = "waiting" => ~HasChild(t)'
      BY <2>1 DEF Live
    <3>2. QED BY <1>1, <1>6, <1>7, <3>1, NoKids
  <2>5. QED BY <2>2, <2>3, <2>4
<1>10. QED BY <1>8, <1>9

\* A multi-instance that is cancelled is terminated, with what it had started.
LEMMA CancelItems ==
    ASSUME TreeInv, NEW D, NEW M, CancelScope(D, M), Cancelled(D, M)
    PROVE  Items'
<1>1. PICK I, T : I = WrittenInst(D) /\ T = WrittenTok(D, M)
  OBVIOUS
<1>2. Writes(I, T) /\ SameRows
  BY <1>1, CancelWrites
<1>3. /\ D \subseteq DOMAIN inst /\ inst[1].kind = "default"
      /\ \A c \in D : c # 1 => ParentOf(c) \in D \union {1}
  BY CancelSet DEF TreeInv, Tree
<1>4. \A c \in I : c # 1 /\ inst'[c].state = "terminated" => ParentOf(c) \in I
  BY <1>1, <1>3 DEF WrittenInst
<1>5. ASSUME NEW m \in I, Multi(m) PROVE ItemsOK(m)'
  <2>1. m # 1 /\ m \in D /\ m \in DOMAIN inst
    BY <1>1, <1>3, <1>5 DEF WrittenInst, Multi
  <2>2. inst'[m].started = inst[m].started /\ Ended(m)' /\ inst'[m].state = "terminated"
    BY <2>1 DEF Cancelled
  <2>3. inst'[m].state # "completed"
    BY <2>2
  <2>4. QED BY <1>2, <1>5, <2>2, <2>3, ItemsEnd
<1>6. \A m \in DOMAIN inst' \ DOMAIN inst : Multi(m)' => ItemsOK(m)'
  BY <1>2 DEF SameRows
<1>7. QED BY <1>2, <1>4, <1>5, <1>6, KeepItems

\* The call is over, or the loop goes on with no token left, and what it had locked
\* is free; the token of the boundary event runs.
CancelOver(M, c) ==
    /\ c \in Call /\ c.toks = <<>> /\ (c = NoCall \/ (c.pc = "loop" /\ c.op = "run"))
    /\ Holds(1, c)
    /\ lock' = [k \in DOMAIN inst' |-> IF lock[k] = 1 /\ (k = 1 => c = NoCall) THEN 0 ELSE lock[k]]
    /\ go' = go \union {[inst |-> 1, toks |-> <<t>>] : t \in M}

\* No list keeps a token that was taken away.
LEMMA CancelLists ==
    ASSUME TreeInv, NEW D, NEW M, CancelScope(D, M), Cancelled(D, M), NEW c, CancelOver(M, c)
    PROVE  /\ Lists(WrittenInst(D), WrittenTok(D, M)) /\ go' \subseteq Goroutine
           /\ held'[1] = c /\ \A k \in DOMAIN inst \ {1} : held'[k] = held[k]
<1>1. PICK I, T : I = WrittenInst(D) /\ T = WrittenTok(D, M)
  OBVIOUS
<1>2. /\ Writes(I, T) /\ DOMAIN inst' = DOMAIN inst /\ DOMAIN tok' = DOMAIN tok
  BY <1>1, CancelWrites DEF SameRows
<1>3. /\ D \subseteq DOMAIN inst /\ 1 \in DOMAIN inst
      /\ \A k \in D : k # 1 => held[k] = NoCall
      /\ \A t \in M : t \in DOMAIN tok /\ tok[t].inst = 1 /\ tok[t].state = "waiting"
      /\ \A t, u \in M : t = u
  BY CancelSet
<1>4. held'[1] = c /\ \A k \in DOMAIN inst \ {1} : held'[k] = held[k]
  BY <1>2, <1>3 DEF CancelOver, Holds
<1>5. c.toks = <<>> /\ NoCall.toks = <<>>
  BY DEF CancelOver, NoCall
<1>6. \A k \in I : held'[k].toks = <<>>
  BY <1>1, <1>3, <1>4, <1>5 DEF WrittenInst
<1>7. ASSUME NEW g \in go' \ go PROVE \E t \in M : g = [inst |-> 1, toks |-> <<t>>]
  BY <1>7 DEF CancelOver
<1>8. ASSUME NEW t \in M, NEW g, g = [inst |-> 1, toks |-> <<t>>]
      PROVE  /\ g \in Goroutine /\ g.inst \in DOMAIN inst' /\ RunsIn(g.toks, g.inst)'
             /\ \A k \in DOMAIN g.toks : g.toks[k] \in T \/ g.toks[k] \notin DOMAIN tok
             /\ held'[g.inst].toks = <<>>
  <2>1. t \in Nat /\ t \in DOMAIN tok' /\ tok'[t].inst = 1
    <3>1. t \in DOMAIN tok /\ tok[t].inst = 1
      BY <1>3, <1>8
    <3>2. tok \in Seq(TokenRow)
      BY DEF TreeInv, Types
    <3>3. t \in Nat
      BY <3>1, <3>2
    <3>4. tok'[t].inst = tok[t].inst
      BY <3>1 DEF Cancelled
    <3>5. QED BY <1>2, <3>1, <3>3, <3>4
  <2>2. tok'[t].at = "end" /\ tok'[t].state = "running"
    BY <1>8 DEF Cancelled
  <2>3. PICK N : N = <<t>>
    OBVIOUS
  <2>4. g.inst = 1 /\ g.toks = N /\ DOMAIN N = {1} /\ N[1] = t /\ N \in Seq(Nat)
    BY <1>8, <2>1, <2>3
  <2>5. g \in Goroutine
    BY <1>8, <2>3, <2>4 DEF Goroutine
  <2>6. RunsIn(N, 1)'
    BY <2>1, <2>2, <2>4 DEF RunsIn
  <2>7. t \in T
    BY <1>1, <1>3, <1>8 DEF WrittenTok
  <2>8. held'[1].toks = <<>>
    BY <1>4, <1>5
  <2>9. QED BY <1>2, <1>3, <2>4, <2>5, <2>6, <2>7, <2>8
<1>9. go' \subseteq Goroutine
  <2>1. \A g \in go : g \in Goroutine
    BY DEF TreeInv, Types
  <2>2. QED BY <1>7, <1>8, <2>1
<1>10. \A g \in go' \ go : /\ g.inst \in DOMAIN inst' /\ RunsIn(g.toks, g.inst)'
                           /\ \A k \in DOMAIN g.toks : g.toks[k] \in T \/ g.toks[k] \notin DOMAIN tok
                           /\ held'[g.inst].toks = <<>>
  BY <1>7, <1>8
<1>11. \A g, h \in go' \ go : g = h
  <2>1. ASSUME NEW g \in go' \ go, NEW h \in go' \ go PROVE g = h
    <3>1. PICK t \in M : g = [inst |-> 1, toks |-> <<t>>]
      BY <1>7
    <3>2. PICK u \in M : h = [inst |-> 1, toks |-> <<u>>]
      BY <1>7
    <3>3. t = u
      BY <1>3
    <3>4. QED BY <3>1, <3>2, <3>3
  <2>2. QED BY <2>1
<1>12. ASSUME NEW g \in go, ~Ended(g.inst)', NEW k \in DOMAIN g.toks PROVE g.toks[k] \notin T
  <2>1. g.inst \in DOMAIN inst
    BY DEF TreeInv, Carried
  <2>2. ~Ended(g.inst)
    BY <1>2, <1>12, <2>1, EndedStays
  <2>3. RunsIn(g.toks, g.inst)
    BY <2>2 DEF TreeInv, Carried
  <2>4. tok[g.toks[k]].inst = g.inst /\ tok[g.toks[k]].state = "running"
    BY <1>12, <2>3 DEF RunsIn
  <2>5. g.inst \notin D
    BY <1>12, <2>1 DEF Cancelled
  <2>6. QED BY <1>1, <1>3, <2>4, <2>5 DEF WrittenTok
<1>13. \A k \in DOMAIN inst' \ I : held'[k] = IF k \in DOMAIN inst THEN held[k] ELSE NoCall
  BY <1>1, <1>2, <1>4 DEF WrittenInst
<1>14. ASSUME NEW k \in I
       PROVE  /\ RunsIn(held[k].toks, k)'
              /\ \A l \in DOMAIN held'[k].toks :
                   \/ held'[k].toks[l] \in T \/ held'[k].toks[l] \notin DOMAIN tok
                   \/ \E m \in DOMAIN held[k].toks : held[k].toks[m] = held'[k].toks[l]
  BY <1>6 DEF RunsIn
<1>15. Lists(I, T)
  BY <1>10, <1>11, <1>12, <1>13, <1>14 DEF Lists
<1>16. QED BY <1>1, <1>4, <1>9, <1>15

\* The locks of the instances below are free again.
LEMMA CancelLocks ==
    ASSUME TreeInv, NEW D, NEW M, CancelScope(D, M), Cancelled(D, M), NEW c, CancelOver(M, c)
    PROVE  Locks'
<1>1. PICK I, T : I = WrittenInst(D) /\ T = WrittenTok(D, M)
  OBVIOUS
<1>2. Writes(I, T) /\ DOMAIN inst' = DOMAIN inst
  BY <1>1, CancelWrites DEF SameRows
<1>3. Lists(I, T) /\ held'[1] = c /\ \A k \in DOMAIN inst \ {1} : held'[k] = held[k]
  BY <1>1, CancelLists
<1>4. /\ D \subseteq DOMAIN inst /\ 1 \in DOMAIN inst /\ lock[1] = 1
      /\ \A k \in D : k # 1 => held[k] = NoCall /\ lock[k] = 1
  BY CancelSet
<1>5. \A k \in DOMAIN inst : lock'[k] = IF lock[k] = 1 /\ (k = 1 => c = NoCall) THEN 0 ELSE lock[k]
  BY <1>2 DEF CancelOver
<1>6. NoCall.pc = "none" /\ NoCall.toks = <<>> /\ ~NoCall.failed
  BY NoCallType
<1>7. c \in Call /\ c.toks = <<>> /\ (c = NoCall \/ (c.pc = "loop" /\ c.op = "run"))
  BY DEF CancelOver
<1>8. LockOK(1)'
  <2>1. CASE c = NoCall
    <3>1. held'[1] = NoCall /\ lock'[1] = 0
      BY <1>3, <1>4, <1>5, <2>1
    <3>2. QED BY <1>6, <3>1 DEF LockOK
  <2>2. CASE c # NoCall
    <3>1. held'[1].pc = "loop" /\ held'[1].op = "run" /\ held'[1].toks = <<>> /\ lock'[1] = 1
      BY <1>3, <1>4, <1>5, <1>7, <2>2
    <3>2. QED BY <3>1 DEF LockOK
  <2>3. QED BY <2>1, <2>2
<1>9. ASSUME NEW k \in D, k # 1 PROVE LockOK(k)'
  <2>1. held'[k] = NoCall /\ lock'[k] = 0 /\ k \in Nat /\ k # 0
    BY <1>3, <1>4, <1>5, <1>9 DEF TreeInv, Types
  <2>2. QED BY <1>6, <2>1 DEF LockOK
<1>10. \A k \in I : LockOK(k)'
  BY <1>1, <1>8, <1>9 DEF WrittenInst
<1>11. \A k \in DOMAIN inst \ I : lock'[k] = lock[k] \/ (lock[k] # k /\ lock'[k] = 0)
  BY <1>1, <1>5 DEF WrittenInst
<1>12. \A k \in DOMAIN inst' \ DOMAIN inst : lock'[k] = 0
  BY <1>2
<1>13. ASSUME NEW k \in DOMAIN inst' \ I, lock'[k] \notin {0, k}
       PROVE  lock'[k] = 1 /\ held'[1].pc = "cancel"
  <2>1. k \in DOMAIN inst /\ k # 1
    BY <1>1, <1>2 DEF WrittenInst
  <2>2. LockOK(k)
    BY <2>1 DEF TreeInv, Locks
  <2>3. lock[k] # 1 /\ lock'[k] = lock[k]
    BY <1>5, <1>13, <2>1
  <2>4. QED BY <1>13, <2>2, <2>3 DEF LockOK
<1>14. QED BY <1>2, <1>3, <1>10, <1>11, <1>12, <1>13, KeepLocks

\* The call that cancels is flushed.
LEMMA CancelledKeeps ==
    ASSUME TreeInv, NEW D, NEW M, CancelScope(D, M), Cancelled(D, M), NEW c, CancelOver(M, c)
    PROVE  TreeInv'
<1>1. PICK I, T : I = WrittenInst(D) /\ T = WrittenTok(D, M)
  OBVIOUS
<1>2. Writes(I, T) /\ SameRows /\ DOMAIN inst' = DOMAIN inst
  BY <1>1, CancelWrites DEF SameRows
<1>3. /\ Lists(I, T) /\ go' \subseteq Goroutine
      /\ held'[1] = c /\ \A k \in DOMAIN inst \ {1} : held'[k] = held[k]
  BY <1>1, CancelLists
<1>4. \A t \in T : PlaceOK(t)' /\ WaitsAt(t)' /\ KidsOf(t)'
  BY <1>1, CancelTokens
<1>5. /\ D \subseteq DOMAIN inst /\ 1 \in DOMAIN inst
      /\ 1 \notin D => ~Ended(1)
      /\ \A k \in D : k # 1 => inst[k].token \in WrittenTok(D, M)
  BY CancelSet
<1>6. Types'
  <2>1. shape' \in Shapes /\ failures' \in 0..MaxFailures
    BY DEF Cancelled, TreeInv, Types
  <2>2. sub' \subseteq DOMAIN tok' /\ incident' \subseteq DOMAIN tok'
    BY <1>2, Domains
  <2>3. held' \in [DOMAIN inst' -> Call]
    <3>1. \A k \in DOMAIN inst : held[k] \in Call
      BY DEF TreeInv, Types
    <3>2. c \in Call
      BY DEF CancelOver
    <3>3. QED BY <1>2, <3>1, <3>2 DEF CancelOver, Holds
  <2>4. lock' \in [DOMAIN inst' -> Nat]
    BY <1>2 DEF TreeInv, Types, CancelOver
  <2>5. QED BY <1>2, <1>3, <2>1, <2>2, <2>3, <2>4 DEF Types, Writes
<1>7. Tree'
  BY <1>2, <1>4, KeepTree
<1>8. Waits'
  BY <1>2, <1>4, KeepWaits
<1>9. Quiet'
  <2>1. ASSUME NEW k \in I, Ended(k)', NEW u \in DOMAIN tok', tok'[u].inst = k PROVE ~Live(u)'
    <3>1. k \in D
      <4>1. ASSUME k = 1, 1 \notin D PROVE FALSE
        <5>1. inst'[1] = inst[1]
          BY <1>5, <4>1 DEF Cancelled
        <5>2. QED BY <1>5, <2>1, <4>1, <5>1 DEF Ended
      <4>2. QED BY <1>1, <4>1 DEF WrittenInst
    <3>2. u \in DOMAIN tok /\ tok[u].inst \in D
      BY <1>2, <2>1, <3>1 DEF SameRows, Writes
    <3>3. QED BY <3>2 DEF Cancelled
  <2>2. QED BY <1>2, <2>1, KeepQuiet
<1>10. Waiting'
  <2>1. \A k \in I : k # 1 /\ inst[k].token \notin T => ~Ended(k)'
    BY <1>1, <1>5 DEF WrittenInst
  <2>2. QED BY <1>2, <1>4, <1>9, <2>1, KeepWaiting
<1>11. Carried'
  BY <1>2, <1>3, KeepCarried
<1>12. Locks'
  BY CancelLocks
<1>13. Cancels'
  <2>1. held'[1].pc # "cancel"
    BY <1>3, NoCallType DEF CancelOver
  <2>2. QED BY <2>1 DEF Cancels
<1>14. Items'
  BY CancelItems
<1>15. QED BY <1>6, <1>7, <1>8, <1>9, <1>10, <1>11, <1>12, <1>13, <1>14 DEF TreeInv

\* The tables of cancelInstance have their types, and what they say about the instances D.
LEMMA CancelTables ==
    ASSUME TreeInv, NEW D, NEW o, NEW A, A = CancelInst(D), NEW B, B = CancelTok(D, o),
           NEW C, C = CancelJob(D)
    PROVE  /\ A \in Seq(InstanceRow) /\ DOMAIN A = DOMAIN inst /\ Len(A) = Len(inst)
           /\ \A k \in DOMAIN inst :
                 /\ A[k] \in InstanceRow
                 /\ A[k].kind = inst[k].kind /\ A[k].token = inst[k].token
                 /\ A[k].target = inst[k].target /\ A[k].started = inst[k].started
                 /\ k \notin D => A[k] = inst[k]
                 /\ k \in D => A[k].state = "terminated"
           /\ B \in Seq(TokenRow) /\ DOMAIN B = DOMAIN tok /\ Len(B) = Len(tok)
           /\ \A t \in DOMAIN tok :
                 /\ B[t] \in TokenRow
                 /\ B[t].inst = tok[t].inst /\ B[t].at = tok[t].at /\ B[t].eik = tok[t].eik
                 /\ tok[t].inst \notin D \/ t = o => B[t] = tok[t]
                 /\ tok[t].inst \in D /\ t # o => B[t].state \in {"completed", "canceled"}
           /\ C \in Seq(JobRow) /\ DOMAIN C = DOMAIN job /\ Len(C) = Len(job)
           /\ \A j \in DOMAIN job :
                 /\ C[j] \in JobRow /\ C[j].token = job[j].token
                 /\ tok[job[j].token].inst \notin D => C[j] = job[j]
                 /\ tok[job[j].token].inst \in D => C[j].state \notin {"active", "failed"}
<1>1. inst \in Seq(InstanceRow) /\ tok \in Seq(TokenRow) /\ job \in Seq(JobRow)
  BY DEF TreeInv, Types
<1>2. /\ \A k \in DOMAIN inst : inst[k] \in InstanceRow
      /\ \A t \in DOMAIN tok : tok[t] \in TokenRow
      /\ \A j \in DOMAIN job : job[j] \in JobRow
  BY <1>1
<1>3. DOMAIN inst = 1..Len(inst) /\ DOMAIN tok = 1..Len(tok) /\ DOMAIN job = 1..Len(job)
      /\ Len(inst) \in Nat /\ Len(tok) \in Nat /\ Len(job) \in Nat
  BY <1>1
<1>4. ASSUME NEW k \in DOMAIN inst
      PROVE  /\ A[k] \in InstanceRow
             /\ A[k].kind = inst[k].kind /\ A[k].token = inst[k].token
             /\ A[k].target = inst[k].target /\ A[k].started = inst[k].started
             /\ k \notin D => A[k] = inst[k]
             /\ k \in D => A[k].state = "terminated"
  <2>1. inst[k] \in InstanceRow
    BY <1>2
  <2>2. A[k] = IF k \in D THEN [inst[k] EXCEPT !.state = "terminated"] ELSE inst[k]
    BY DEF CancelInst
  <2>3. QED BY <2>1, <2>2 DEF InstanceRow, InstanceState
<1>5. ASSUME NEW t \in DOMAIN tok
      PROVE  /\ B[t] \in TokenRow
             /\ B[t].inst = tok[t].inst /\ B[t].at = tok[t].at /\ B[t].eik = tok[t].eik
             /\ tok[t].inst \notin D \/ t = o => B[t] = tok[t]
             /\ tok[t].inst \in D /\ t # o => B[t].state \in {"completed", "canceled"}
  <2>1. tok[t] \in TokenRow
    BY <1>2
  <2>2. B[t] = IF tok[t].inst \in D /\ t # o /\ Live(t)
               THEN [tok[t] EXCEPT !.state = "canceled"] ELSE tok[t]
    BY DEF CancelTok
  <2>3. QED BY <2>1, <2>2 DEF TokenRow, TokenState, Live
<1>6. ASSUME NEW j \in DOMAIN job
      PROVE  /\ C[j] \in JobRow /\ C[j].token = job[j].token
             /\ tok[job[j].token].inst \notin D => C[j] = job[j]
             /\ tok[job[j].token].inst \in D => C[j].state \notin {"active", "failed"}
  <2>1. job[j] \in JobRow
    BY <1>2
  <2>2. C[j] = IF tok[job[j].token].inst \in D /\ job[j].state \in {"active", "failed"}
               THEN [job[j] EXCEPT !.state = "terminated"] ELSE job[j]
    BY DEF CancelJob
  <2>3. QED BY <2>1, <2>2 DEF JobRow, JobState
<1>7. A \in Seq(InstanceRow) /\ DOMAIN A = DOMAIN inst /\ Len(A) = Len(inst)
  <2>1. PICK n \in Nat : n = Len(inst)
    BY <1>3
  <2>2. A \in [1..n -> InstanceRow]
    BY <1>3, <1>4, <2>1 DEF CancelInst
  <2>3. QED BY <1>3, <2>1, <2>2, SeqDef
<1>8. B \in Seq(TokenRow) /\ DOMAIN B = DOMAIN tok /\ Len(B) = Len(tok)
  <2>1. PICK n \in Nat : n = Len(tok)
    BY <1>3
  <2>2. B \in [1..n -> TokenRow]
    BY <1>3, <1>5, <2>1 DEF CancelTok
  <2>3. QED BY <1>3, <2>1, <2>2, SeqDef
<1>9. C \in Seq(JobRow) /\ DOMAIN C = DOMAIN job /\ Len(C) = Len(job)
  <2>1. PICK n \in Nat : n = Len(job)
    BY <1>3
  <2>2. C \in [1..n -> JobRow]
    BY <1>3, <1>6, <2>1 DEF CancelJob
  <2>3. QED BY <1>3, <2>1, <2>2, SeqDef
<1>10. QED BY <1>4, <1>5, <1>6, <1>7, <1>8, <1>9

\* A flush in terms of the tables.
LEMMA FlushRows ==
    ASSUME NEW a, NEW b, NEW c, NEW d, NEW e, NEW f, NEW U, Flush(RowSet(a, b, c, d, e, f), U)
    PROVE  /\ inst' = a /\ tok' = b /\ job' = c /\ sub' = d /\ incident' = e /\ go' = go \union f
           /\ lock' = [i \in DOMAIN a |-> IF i \notin DOMAIN lock \/ i \in U THEN 0 ELSE lock[i]]
BY DEF Flush, RowSet

FreesOf(c)  == IF c = NoCall THEN Locked(1) ELSE Locked(1) \ {1}
Released(U) == lock' = [i \in DOMAIN inst' |-> IF i \notin DOMAIN lock \/ i \in U THEN 0 ELSE lock[i]]
ReleasedBy(c) ==
    lock' = [k \in DOMAIN inst' |-> IF lock[k] = 1 /\ (k = 1 => c = NoCall) THEN 0 ELSE lock[k]]

\* The locks that a call gives back: all that it has, or all but its own.
LEMMA CancelReleases ==
    ASSUME TreeInv, NEW U, NEW c, DOMAIN inst' = DOMAIN inst,
           U = FreesOf(c), Released(U)
    PROVE  ReleasedBy(c)
<1>1. DOMAIN lock = DOMAIN inst
  BY DEF TreeInv, Types
<1>2. \A k \in DOMAIN inst : k \in U <=> lock[k] = 1 /\ (k = 1 => c = NoCall)
  BY <1>1 DEF Locked, FreesOf
<1>3. QED BY <1>1, <1>2 DEF Released, ReleasedBy

\* The flush of CancelInstanceByKey.
LEMMA CancelKeyFlushes ==
    ASSUME TreeInv, held[1].pc = "cancel", held[1].todo = <<>>, held[1].op = "cancel",
           Flush(cancelInstance(Rows, held[1].dead, 0), Locked(1)), Held(Busy(1, NoCall)),
           shape' = shape, failures' = failures
    PROVE  TreeInv'
<1>1. PICK D, M : D = held[1].dead /\ M = {}
  OBVIOUS
<1>2. CancelScope(D, M)
  BY <1>1 DEF CancelScope
<1>3. PICK A, B, C, S, E :
         /\ A = CancelInst(D) /\ B = CancelTok(D, 0) /\ C = CancelJob(D)
         /\ S = OutOf(sub, D) /\ E = OutOf(incident, D)
  OBVIOUS
<1>4. PICK o : o = 0
  OBVIOUS
<1>5. cancelInstance(Rows, D, o) = RowSet(A, B, C, S, E, {})
  BY <1>3, <1>4, CancelRows
<1>6. PICK U : U = Locked(1)
  OBVIOUS
<1>7. Flush(RowSet(A, B, C, S, E, {}), U)
  BY <1>1, <1>4, <1>5, <1>6
<1>8. /\ inst' = A /\ tok' = B /\ job' = C /\ sub' = S /\ incident' = E /\ go' = go \union {}
      /\ lock' = [i \in DOMAIN A |-> IF i \notin DOMAIN lock \/ i \in U THEN 0 ELSE lock[i]]
  BY <1>7, FlushRows
<1>9. B = CancelTok(D, o)
  BY <1>3, <1>4
<1>10. /\ A \in Seq(InstanceRow) /\ DOMAIN A = DOMAIN inst /\ Len(A) = Len(inst)
       /\ \A k \in DOMAIN inst :
             /\ A[k].kind = inst[k].kind /\ A[k].token = inst[k].token
             /\ A[k].target = inst[k].target /\ A[k].started = inst[k].started
             /\ k \notin D => A[k] = inst[k]
             /\ k \in D => A[k].state = "terminated"
       /\ B \in Seq(TokenRow) /\ DOMAIN B = DOMAIN tok /\ Len(B) = Len(tok)
       /\ \A t \in DOMAIN tok :
             /\ B[t].inst = tok[t].inst /\ B[t].at = tok[t].at
             /\ tok[t].inst \notin D \/ t = o => B[t] = tok[t]
             /\ tok[t].inst \in D /\ t # o => B[t].state \in {"completed", "canceled"}
       /\ C \in Seq(JobRow) /\ DOMAIN C = DOMAIN job /\ Len(C) = Len(job)
       /\ \A j \in DOMAIN job :
             /\ C[j].token = job[j].token
             /\ tok[job[j].token].inst \notin D => C[j] = job[j]
             /\ tok[job[j].token].inst \in D => C[j].state \notin {"active", "failed"}
  BY <1>3, <1>9, CancelTables
<1>11. \A t \in DOMAIN tok : t # o
  BY <1>4 DEF TreeInv, Types
<1>12. Cancelled(D, M)
  <2>1. \A k \in DOMAIN inst : k \in D => Ended(k)'
    BY <1>8, <1>10 DEF Ended, EndedStates
  <2>2. \A t \in DOMAIN tok : tok[t].inst \in D => ~Live(t)'
    BY <1>8, <1>10, <1>11 DEF Live
  <2>3. \A j \in DOMAIN job : tok[job[j].token].inst \in D => ~Pending(j)'
    BY <1>8, <1>10 DEF Pending
  <2>4. sub' = OutOf(sub, D) \ M /\ incident' = OutOf(incident, D)
    BY <1>1, <1>3, <1>8
  <2>5. QED BY <1>1, <1>8, <1>10, <2>1, <2>2, <2>3, <2>4 DEF Cancelled
<1>13. PICK c : c = NoCall
  OBVIOUS
<1>14. CancelOver(M, c)
  <2>1. 1 \in DOMAIN inst
    BY DEF TreeInv, Tree
  <2>2. Holds(1, c)
    BY <1>13, <2>1, HeldBusy
  <2>3. DOMAIN inst' = DOMAIN inst
    BY <1>8, <1>10
  <2>4. ReleasedBy(c)
    <3>1. Released(U)
      BY <1>8 DEF Released
    <3>2. U = FreesOf(c)
      BY <1>6, <1>13 DEF FreesOf
    <3>3. QED BY <2>3, <3>1, <3>2, CancelReleases
  <2>5. go' = go \union {[inst |-> 1, toks |-> <<t>>] : t \in M}
    BY <1>1, <1>8
  <2>6. c \in Call /\ c.toks = <<>>
    BY <1>13, NoCallType
  <2>7. QED BY <1>13, <2>2, <2>4, <2>5, <2>6 DEF CancelOver, ReleasedBy
<1>15. QED BY <1>2, <1>12, <1>14, CancelledKeeps

TokenJobs(C, t) ==
    [j \in DOMAIN C |-> IF C[j].token = t /\ C[j].state = "active"
                        THEN [C[j] EXCEPT !.state = "terminated"] ELSE C[j]]

\* The rows of CancelTokenJobs.
LEMMA TokenJobsRows ==
    ASSUME NEW a, NEW b, NEW c, NEW d, NEW e, NEW f, NEW t, NEW c2, c2 = TokenJobs(c, t)
    PROVE  CancelTokenJobs(RowSet(a, b, c, d, e, f), t) = RowSet(a, b, c2, d, e, f)
<1>1. PICK r : r = RowSet(a, b, c, d, e, f)
  OBVIOUS
<1>2. r.job = c
  BY <1>1 DEF RowSet
<1>3. c2 = [j \in DOMAIN r.job |-> IF r.job[j].token = t /\ r.job[j].state = "active"
                                   THEN [r.job[j] EXCEPT !.state = "terminated"] ELSE r.job[j]]
  BY <1>2 DEF TokenJobs
<1>4. CancelTokenJobs(r, t) = [r EXCEPT !.job = c2]
  BY <1>3 DEF CancelTokenJobs
<1>5. [r EXCEPT !.job = c2] = RowSet(a, b, c2, d, e, f)
  BY <1>1 DEF RowSet
<1>6. QED BY <1>1, <1>4, <1>5

\* Without an active job of the token nothing changes.
LEMMA NoTokenJobs ==
    ASSUME NEW C \in Seq(JobRow), NEW t,
           \A j \in DOMAIN C : C[j].token = t => C[j].state # "active"
    PROVE  TokenJobs(C, t) = C
<1>1. \A j \in DOMAIN C : TokenJobs(C, t)[j] = C[j]
  BY DEF TokenJobs
<1>2. QED BY <1>1 DEF TokenJobs

\* The rows of the boundary event.
BoundaryTok(B, x) == [B EXCEPT ![x] = MovedRow(B[x], "end")]
BoundaryFlush(D, x) ==
    [Move(CancelTokenJobs(cancelBoundarySubscriptions(cancelInstance(Rows, D, 0), x), x),
          x, Out["message"][1], "running") EXCEPT !.go = Run(1, <<x>>)]

\* The rows with other goroutines to start.
LEMMA GoRows ==
    ASSUME NEW a, NEW b, NEW c, NEW d, NEW e, NEW f, NEW g
    PROVE  [RowSet(a, b, c, d, e, f) EXCEPT !.go = g] = RowSet(a, b, c, d, e, g)
BY DEF RowSet

\* The parts of the rows.
BoundaryParts(D, x, A, B, C, S, E, S2, B2, G) ==
    /\ A = CancelInst(D) /\ B = CancelTok(D, 0) /\ C = CancelJob(D)
    /\ S = OutOf(sub, D) /\ E = OutOf(incident, D)
    /\ C = TokenJobs(C, x) /\ S2 = S \ {x} /\ B2 = BoundaryTok(B, x) /\ G = Run(1, <<x>>)

\* The rows that a boundary message flushes.
LEMMA BoundaryFlushRows ==
    ASSUME NEW D, NEW x, NEW A, NEW B, NEW C, NEW S, NEW E, NEW S2, NEW B2, NEW G,
           BoundaryParts(D, x, A, B, C, S, E, S2, B2, G)
    PROVE  BoundaryFlush(D, x) = RowSet(A, B2, C, S2, E, G)
<1>1. PICK o, g, at, s : o = 0 /\ g = {} /\ at = "end" /\ s = "running"
  OBVIOUS
<1>2. PICK r1 : r1 = cancelInstance(Rows, D, o)
  OBVIOUS
<1>3. r1 = RowSet(A, B, C, S, E, g)
  <2>1. /\ A = CancelInst(D) /\ B = CancelTok(D, o) /\ C = CancelJob(D)
        /\ S = OutOf(sub, D) /\ E = OutOf(incident, D)
    BY <1>1 DEF BoundaryParts
  <2>2. QED BY <1>1, <1>2, <2>1, CancelRows
<1>4. PICK r2 : r2 = cancelBoundarySubscriptions(r1, x)
  OBVIOUS
<1>5. r2 = RowSet(A, B, C, S2, E, g)
  <2>1. S2 = S \ {x}
    BY DEF BoundaryParts
  <2>2. QED BY <1>3, <1>4, <2>1, BoundaryRows
<1>6. PICK r3 : r3 = CancelTokenJobs(r2, x)
  OBVIOUS
<1>7. r3 = RowSet(A, B, C, S2, E, g)
  <2>1. C = TokenJobs(C, x)
    BY DEF BoundaryParts
  <2>2. QED BY <1>5, <1>6, <2>1, TokenJobsRows
<1>8. PICK r4 : r4 = Move(r3, x, at, s)
  OBVIOUS
<1>9. r4 = RowSet(A, B2, C, S2, E, g)
  <2>1. B2 = [B EXCEPT ![x] = MovedRow(B[x], at)]
    BY <1>1 DEF BoundaryParts, BoundaryTok
  <2>2. Move(r3, x, at, "running") = RowSet(A, [B EXCEPT ![x] = MovedRow(B[x], at)], C, S2, E, g)
    BY <1>7, MoveRows
  <2>3. QED BY <1>1, <1>8, <2>1, <2>2
<1>10. Out["message"][1] = at
  BY <1>1 DEF Out
<1>11. G = Run(1, <<x>>)
  BY DEF BoundaryParts
<1>12. BoundaryFlush(D, x) = [r4 EXCEPT !.go = G]
  BY <1>1, <1>2, <1>4, <1>6, <1>8, <1>10, <1>11, Zenon DEF BoundaryFlush
<1>13. [r4 EXCEPT !.go = G] = RowSet(A, B2, C, S2, E, G)
  BY <1>9, GoRows
<1>14. QED BY <1>12, <1>13

\* The flush of a boundary message: the token goes on from the boundary event.
LEMMA BoundaryFlushes ==
    ASSUME TreeInv, held[1].pc = "cancel", held[1].todo = <<>>, held[1].op = "boundary",
           NEW x, x = held[1].token,
           Flush(BoundaryFlush(held[1].dead, x), Locked(1)), Held(Busy(1, NoCall)),
           shape' = shape, failures' = failures
    PROVE  TreeInv'
<1>1. PICK D, M : D = held[1].dead /\ M = {x}
  OBVIOUS
<1>2. CancelScope(D, M)
  BY <1>1 DEF CancelScope
<1>3. /\ x \in sub /\ x \in DOMAIN tok /\ tok[x].inst = 1 /\ 1 \notin D
      /\ \A j \in DOMAIN job : job[j].token = x => ~Pending(j)
  <2>1. x \in M
    BY <1>1
  <2>2. QED BY <1>2, <2>1, CancelSet
<1>4. PICK A, B, C, S, E :
         /\ A = CancelInst(D) /\ B = CancelTok(D, 0) /\ C = CancelJob(D)
         /\ S = OutOf(sub, D) /\ E = OutOf(incident, D)
  OBVIOUS
<1>5. PICK o : o = 0
  OBVIOUS
<1>6. B = CancelTok(D, o)
  BY <1>4, <1>5
<1>7. /\ A \in Seq(InstanceRow) /\ DOMAIN A = DOMAIN inst /\ Len(A) = Len(inst)
      /\ \A k \in DOMAIN inst :
            /\ A[k].kind = inst[k].kind /\ A[k].token = inst[k].token
            /\ A[k].target = inst[k].target /\ A[k].started = inst[k].started
            /\ k \notin D => A[k] = inst[k]
            /\ k \in D => A[k].state = "terminated"
      /\ B \in Seq(TokenRow) /\ DOMAIN B = DOMAIN tok /\ Len(B) = Len(tok)
      /\ \A t \in DOMAIN tok :
            /\ B[t] \in TokenRow /\ B[t].inst = tok[t].inst /\ B[t].at = tok[t].at
            /\ tok[t].inst \notin D \/ t = o => B[t] = tok[t]
            /\ tok[t].inst \in D /\ t # o => B[t].state \in {"completed", "canceled"}
      /\ C \in Seq(JobRow) /\ DOMAIN C = DOMAIN job /\ Len(C) = Len(job)
      /\ \A j \in DOMAIN job :
            /\ C[j].token = job[j].token
            /\ tok[job[j].token].inst \notin D => C[j] = job[j]
            /\ tok[job[j].token].inst \in D => C[j].state \notin {"active", "failed"}
  BY <1>4, <1>6, CancelTables
<1>8. \A j \in DOMAIN C : C[j].token = x => C[j].state # "active"
  BY <1>3, <1>7 DEF Pending
<1>9. PICK S2, B2, G : S2 = S \ {x} /\ B2 = BoundaryTok(B, x) /\ G = Run(1, <<x>>)
  OBVIOUS
<1>10. C = TokenJobs(C, x)
  <2>1. C \in Seq(JobRow)
    BY <1>7
  <2>2. QED BY <1>8, <2>1, NoTokenJobs
<1>11. BoundaryFlush(D, x) = RowSet(A, B2, C, S2, E, G)
  <2>1. BoundaryParts(D, x, A, B, C, S, E, S2, B2, G)
    BY <1>4, <1>9, <1>10 DEF BoundaryParts
  <2>2. QED BY <2>1, BoundaryFlushRows
<1>12. PICK U : U = Locked(1)
  OBVIOUS
<1>13. Flush(RowSet(A, B2, C, S2, E, G), U)
  BY <1>1, <1>11, <1>12
<1>14. /\ inst' = A /\ tok' = B2 /\ job' = C /\ sub' = S2 /\ incident' = E /\ go' = go \union G
       /\ lock' = [i \in DOMAIN A |-> IF i \notin DOMAIN lock \/ i \in U THEN 0 ELSE lock[i]]
  BY <1>13, FlushRows
<1>15. \A t \in DOMAIN tok : t # o
  BY <1>5 DEF TreeInv, Types
<1>16. /\ B2 \in Seq(TokenRow) /\ DOMAIN B2 = DOMAIN tok /\ Len(B2) = Len(tok)
       /\ B2[x].inst = 1 /\ B2[x].at = "end" /\ B2[x].state = "running"
       /\ \A t \in DOMAIN tok : t # x => B2[t] = B[t]
  <2>1. PICK row : row = MovedRow(B[x], "end")
    OBVIOUS
  <2>2. B[x] \in TokenRow /\ B[x].inst = 1 /\ "end" \in Place
    BY <1>3, <1>7 DEF Place
  <2>3. row \in TokenRow /\ row.inst = 1 /\ row.at = "end" /\ row.state = "running"
    BY <2>1, <2>2, MovedType
  <2>4. B2 = [B EXCEPT ![x] = row]
    BY <1>9, <2>1 DEF BoundaryTok
  <2>5. x \in 1..Len(B) /\ B \in Seq(TokenRow)
    BY <1>3, <1>7
  <2>6. PICK z : z = [B EXCEPT ![x] = row]
    OBVIOUS
  <2>7. z \in Seq(TokenRow) /\ Len(z) = Len(B) /\ \A j \in 1..Len(B) : z[j] = IF j = x THEN row ELSE B[j]
    BY <2>3, <2>5, <2>6, ExceptSeq
  <2>8. DOMAIN B = 1..Len(B) /\ DOMAIN z = DOMAIN B
    BY <2>5, <2>6
  <2>9. QED BY <1>7, <2>3, <2>4, <2>5, <2>6, <2>7, <2>8
<1>17. Cancelled(D, M)
  <2>1. \A k \in DOMAIN inst : k \in D => Ended(k)'
    BY <1>7, <1>14 DEF Ended, EndedStates
  <2>2. \A t \in DOMAIN tok : tok[t].inst \in D => t # x /\ tok'[t].at = tok[t].at /\ ~Live(t)'
    <3>1. ASSUME NEW t \in DOMAIN tok, tok[t].inst \in D
          PROVE  t # x /\ tok'[t].at = tok[t].at /\ ~Live(t)'
      <4>1. t # x /\ t # o
        BY <1>3, <1>15, <3>1
      <4>2. tok'[t] = B[t]
        BY <1>14, <1>16, <4>1
      <4>3. B[t].at = tok[t].at /\ B[t].state \in {"completed", "canceled"}
        BY <1>7, <3>1, <4>1
      <4>4. QED BY <4>1, <4>2, <4>3 DEF Live
    <3>2. QED BY <3>1
  <2>3. \A j \in DOMAIN job : tok[job[j].token].inst \in D => ~Pending(j)'
    BY <1>7, <1>14 DEF Pending
  <2>4. sub' = OutOf(sub, D) \ M /\ incident' = OutOf(incident, D)
    BY <1>1, <1>4, <1>9, <1>14
  <2>5. \A t \in DOMAIN tok : tok'[t].inst = tok[t].inst
                              /\ (tok[t].inst \notin D /\ t \notin M => tok'[t] = tok[t])
    BY <1>1, <1>3, <1>7, <1>14, <1>16
  <2>6. \A t \in M : tok'[t].at = "end" /\ tok'[t].state = "running"
    BY <1>1, <1>14, <1>16
  <2>7. QED BY <1>7, <1>14, <1>16, <2>1, <2>2, <2>3, <2>4, <2>5, <2>6 DEF Cancelled
<1>18. PICK c : c = NoCall
  OBVIOUS
<1>19. CancelOver(M, c)
  <2>1. 1 \in DOMAIN inst
    BY DEF TreeInv, Tree
  <2>2. Holds(1, c)
    BY <1>18, <2>1, HeldBusy
  <2>3. DOMAIN inst' = DOMAIN inst
    BY <1>7, <1>14
  <2>4. ReleasedBy(c)
    <3>1. Released(U)
      BY <1>14 DEF Released
    <3>2. U = FreesOf(c)
      BY <1>12, <1>18 DEF FreesOf
    <3>3. QED BY <2>3, <3>1, <3>2, CancelReleases
  <2>5. go' = go \union {[inst |-> 1, toks |-> <<t>>] : t \in M}
    BY <1>1, <1>9, <1>14 DEF Run
  <2>6. c \in Call /\ c.toks = <<>>
    BY <1>18, NoCallType
  <2>7. QED BY <1>18, <2>2, <2>4, <2>5, <2>6 DEF CancelOver, ReleasedBy
<1>20. QED BY <1>2, <1>17, <1>19, CancelledKeeps

\* The rows of the terminate end event.
EndInst(A)   == [A EXCEPT ![1].state = "completed"]
EndTok(B, x) == [B EXCEPT ![x].state = "completed"]
EndFlush(D, x) ==
    [SetState(cancelInstance(Rows, D, x), 1, "completed") EXCEPT !.tok[x].state = "completed"]

\* The rows that a terminate end event flushes.
LEMMA EndFlushRows ==
    ASSUME NEW D, NEW x, NEW A, NEW B, NEW C, NEW S, NEW E, NEW A2, NEW B2,
           A = CancelInst(D), B = CancelTok(D, x), C = CancelJob(D),
           S = OutOf(sub, D), E = OutOf(incident, D), A2 = EndInst(A), B2 = EndTok(B, x)
    PROVE  EndFlush(D, x) = RowSet(A2, B2, C, S, E, {})
<1>1. PICK g : g = {}
  OBVIOUS
<1>2. PICK r1 : r1 = cancelInstance(Rows, D, x)
  OBVIOUS
<1>3. r1 = RowSet(A, B, C, S, E, g)
  BY <1>1, <1>2, CancelRows
<1>4. PICK r2 : r2 = SetState(r1, 1, "completed")
  OBVIOUS
<1>5. r2 = RowSet(A2, B, C, S, E, g)
  <2>1. r1.inst = A
    BY <1>3 DEF RowSet
  <2>2. r2 = [r1 EXCEPT !.inst = A2]
    BY <1>4, <2>1 DEF SetState, EndInst
  <2>3. QED BY <1>3, <2>2 DEF RowSet
<1>6. PICK r3 : r3 = [r2 EXCEPT !.tok[x].state = "completed"]
  OBVIOUS
<1>7. r3 = RowSet(A2, B2, C, S, E, g)
  <2>1. r2.tok = B
    BY <1>5 DEF RowSet
  <2>2. r3 = [r2 EXCEPT !.tok = B2]
    BY <1>6, <2>1 DEF EndTok
  <2>3. QED BY <1>5, <2>2 DEF RowSet
<1>8. EndFlush(D, x) = r3
  BY <1>2, <1>4, <1>6 DEF EndFlush
<1>9. QED BY <1>1, <1>7, <1>8

EndCall(h) == [h EXCEPT !.pc = "loop", !.toks = <<>>]

\* The flush of a terminate end event: the root completes.
LEMMA EndFlushes ==
    ASSUME TreeInv, held[1].pc = "cancel", held[1].todo = <<>>, held[1].op = "run",
           NEW x, x = held[1].token,
           Flush(EndFlush(held[1].dead \union {1}, x), Locked(1) \ {1}),
           Held(Busy(1, EndCall(held[1]))),
           shape' = shape, failures' = failures
    PROVE  TreeInv'
<1>1. PICK D, M : D = held[1].dead \union {1} /\ M = {}
  OBVIOUS
<1>2. CancelScope(D, M)
  BY <1>1 DEF CancelScope
<1>3. 1 \in D /\ 1 \in DOMAIN inst /\ held[1] \in Call
  BY <1>1, <1>2, CancelSet
<1>4. x \in DOMAIN tok /\ tok[x].inst = 1
  <2>1. held[1].toks = <<x>>
    BY DEF TreeInv, Cancels
  <2>2. RunsIn(held[1].toks, 1)
    BY <1>3 DEF TreeInv, Carried
  <2>3. PICK L : L = held[1].toks
    OBVIOUS
  <2>4. 1 \in DOMAIN L /\ L[1] = x
    BY <2>1, <2>3
  <2>5. QED BY <2>2, <2>3, <2>4 DEF RunsIn
<1>5. PICK A, B, C, S, E :
         /\ A = CancelInst(D) /\ B = CancelTok(D, x) /\ C = CancelJob(D)
         /\ S = OutOf(sub, D) /\ E = OutOf(incident, D)
  OBVIOUS
<1>6. PICK A2, B2 : A2 = EndInst(A) /\ B2 = EndTok(B, x)
  OBVIOUS
<1>7. /\ A \in Seq(InstanceRow) /\ DOMAIN A = DOMAIN inst /\ Len(A) = Len(inst)
      /\ \A k \in DOMAIN inst :
            /\ A[k] \in InstanceRow
            /\ A[k].kind = inst[k].kind /\ A[k].token = inst[k].token
            /\ A[k].target = inst[k].target /\ A[k].started = inst[k].started
            /\ k \notin D => A[k] = inst[k]
            /\ k \in D => A[k].state = "terminated"
      /\ B \in Seq(TokenRow) /\ DOMAIN B = DOMAIN tok /\ Len(B) = Len(tok)
      /\ \A t \in DOMAIN tok :
            /\ B[t] \in TokenRow /\ B[t].inst = tok[t].inst /\ B[t].at = tok[t].at
            /\ tok[t].inst \notin D \/ t = x => B[t] = tok[t]
            /\ tok[t].inst \in D /\ t # x => B[t].state \in {"completed", "canceled"}
      /\ C \in Seq(JobRow) /\ DOMAIN C = DOMAIN job /\ Len(C) = Len(job)
      /\ \A j \in DOMAIN job :
            /\ C[j].token = job[j].token
            /\ tok[job[j].token].inst \notin D => C[j] = job[j]
            /\ tok[job[j].token].inst \in D => C[j].state \notin {"active", "failed"}
  BY <1>5, CancelTables
<1>8. EndFlush(D, x) = RowSet(A2, B2, C, S, E, {})
  BY <1>5, <1>6, EndFlushRows
<1>9. PICK U : U = Locked(1) \ {1}
  OBVIOUS
<1>10. Flush(RowSet(A2, B2, C, S, E, {}), U)
  BY <1>1, <1>8, <1>9
<1>11. /\ inst' = A2 /\ tok' = B2 /\ job' = C /\ sub' = S /\ incident' = E /\ go' = go \union {}
       /\ lock' = [i \in DOMAIN A2 |-> IF i \notin DOMAIN lock \/ i \in U THEN 0 ELSE lock[i]]
  BY <1>10, FlushRows
<1>12. /\ A2 \in Seq(InstanceRow) /\ DOMAIN A2 = DOMAIN inst /\ Len(A2) = Len(inst)
       /\ A2[1].kind = inst[1].kind /\ A2[1].token = inst[1].token
       /\ A2[1].target = inst[1].target /\ A2[1].started = inst[1].started
       /\ A2[1].state = "completed"
       /\ \A k \in DOMAIN inst : k # 1 => A2[k] = A[k]
  <2>1. PICK row : row = [A[1] EXCEPT !.state = "completed"]
    OBVIOUS
  <2>2. A[1] \in InstanceRow
    BY <1>3, <1>7
  <2>3. /\ row \in InstanceRow /\ row.kind = A[1].kind /\ row.token = A[1].token
        /\ row.target = A[1].target /\ row.started = A[1].started /\ row.state = "completed"
    BY <2>1, <2>2 DEF InstanceRow, InstanceState
  <2>4. A2 = [A EXCEPT ![1] = row]
    BY <1>6, <2>1 DEF EndInst
  <2>5. 1 \in 1..Len(A) /\ A \in Seq(InstanceRow)
    BY <1>3, <1>7
  <2>6. PICK n, z : n = 1 /\ z = [A EXCEPT ![n] = row]
    OBVIOUS
  <2>7. z \in Seq(InstanceRow) /\ Len(z) = Len(A)
        /\ \A j \in 1..Len(A) : z[j] = IF j = n THEN row ELSE A[j]
    BY <2>3, <2>5, <2>6, ExceptSeq
  <2>8. DOMAIN A = 1..Len(A) /\ DOMAIN z = DOMAIN A
    BY <2>5, <2>6
  <2>9. QED BY <1>3, <1>7, <2>3, <2>4, <2>5, <2>6, <2>7, <2>8
<1>13. /\ B2 \in Seq(TokenRow) /\ DOMAIN B2 = DOMAIN tok /\ Len(B2) = Len(tok)
       /\ B2[x].inst = tok[x].inst /\ B2[x].at = tok[x].at /\ B2[x].state = "completed"
       /\ \A t \in DOMAIN tok : t # x => B2[t] = B[t]
  <2>1. PICK row : row = [B[x] EXCEPT !.state = "completed"]
    OBVIOUS
  <2>2. B[x] \in TokenRow /\ B[x] = tok[x]
    BY <1>4, <1>7
  <2>3. row \in TokenRow /\ row.inst = tok[x].inst /\ row.at = tok[x].at /\ row.state = "completed"
    BY <2>1, <2>2 DEF TokenRow, TokenState
  <2>4. B2 = [B EXCEPT ![x] = row]
    BY <1>6, <2>1 DEF EndTok
  <2>5. x \in 1..Len(B) /\ B \in Seq(TokenRow)
    BY <1>4, <1>7
  <2>6. PICK z : z = [B EXCEPT ![x] = row]
    OBVIOUS
  <2>7. z \in Seq(TokenRow) /\ Len(z) = Len(B) /\ \A j \in 1..Len(B) : z[j] = IF j = x THEN row ELSE B[j]
    BY <2>3, <2>5, <2>6, ExceptSeq
  <2>8. DOMAIN B = 1..Len(B) /\ DOMAIN z = DOMAIN B
    BY <2>5, <2>6
  <2>9. QED BY <1>7, <2>3, <2>4, <2>5, <2>6, <2>7, <2>8
<1>14. Cancelled(D, M)
  <2>1. ASSUME NEW k \in DOMAIN inst
        PROVE  /\ inst'[k].kind = inst[k].kind /\ inst'[k].token = inst[k].token
               /\ inst'[k].target = inst[k].target /\ inst'[k].started = inst[k].started
               /\ k \notin D => inst'[k] = inst[k]
               /\ k \in D => Ended(k)'
               /\ k \in D /\ k # 1 => inst'[k].state = "terminated"
    <3>1. CASE k = 1
      BY <1>3, <1>11, <1>12, <3>1 DEF Ended, EndedStates
    <3>2. CASE k # 1
      BY <1>7, <1>11, <1>12, <3>2 DEF Ended, EndedStates
    <3>3. QED BY <3>1, <3>2
  <2>2. ASSUME NEW t \in DOMAIN tok
        PROVE  /\ tok'[t].inst = tok[t].inst
               /\ tok[t].inst \notin D /\ t \notin M => tok'[t] = tok[t]
               /\ tok[t].inst \in D => tok'[t].at = tok[t].at /\ ~Live(t)'
    <3>1. CASE t = x
      BY <1>3, <1>4, <1>11, <1>13, <3>1 DEF Live
    <3>2. CASE t # x
      <4>1. tok'[t] = B[t]
        BY <1>11, <1>13, <3>2
      <4>2. /\ B[t].inst = tok[t].inst /\ B[t].at = tok[t].at
            /\ tok[t].inst \notin D => B[t] = tok[t]
            /\ tok[t].inst \in D => B[t].state \in {"completed", "canceled"}
        BY <1>7, <3>2
      <4>3. QED BY <4>1, <4>2 DEF Live
    <3>3. QED BY <3>1, <3>2
  <2>3. \A j \in DOMAIN job : tok[job[j].token].inst \in D => ~Pending(j)'
    BY <1>7, <1>11 DEF Pending
  <2>4. sub' = OutOf(sub, D) \ M /\ incident' = OutOf(incident, D)
    BY <1>1, <1>5, <1>11
  <2>5. QED BY <1>1, <1>7, <1>11, <1>12, <1>13, <2>1, <2>2, <2>3, <2>4 DEF Cancelled
<1>15. PICK c : c = EndCall(held[1])
  OBVIOUS
<1>16. c \in Call /\ c.toks = <<>> /\ c.pc = "loop" /\ c.op = "run"
  <2>1. <<>> \in Seq(Nat)
    OBVIOUS
  <2>2. QED BY <1>3, <1>15, <2>1 DEF EndCall, Call
<1>17. CancelOver(M, c)
  <2>1. c # NoCall
    BY <1>16, NoCallType
  <2>2. Holds(1, c)
    BY <1>3, <1>15, HeldBusy
  <2>3. DOMAIN inst' = DOMAIN inst
    BY <1>11, <1>12
  <2>4. ReleasedBy(c)
    <3>1. Released(U)
      BY <1>11 DEF Released
    <3>2. U = FreesOf(c)
      BY <1>9, <2>1 DEF FreesOf
    <3>3. QED BY <2>3, <3>1, <3>2, CancelReleases
  <2>5. go' = go \union {[inst |-> 1, toks |-> <<t>>] : t \in M}
    BY <1>1, <1>11
  <2>6. QED BY <1>16, <2>2, <2>4, <2>5 DEF CancelOver, ReleasedBy
<1>18. QED BY <1>2, <1>14, <1>17, CancelledKeeps

\* Each of the three calls that cancel keeps the invariant when it is flushed.
LEMMA CancelFlushesKeeps ==
    ASSUME TreeInv, NEW i \in DOMAIN inst, CancelFlushes(i)
    PROVE  TreeInv'
<1>1. i = 1
  BY DEF CancelFlushes, TreeInv, Locks, LockOK
<1>2. held[1].pc = "cancel" /\ held[1].todo = <<>> /\ shape' = shape /\ failures' = failures
  BY <1>1 DEF CancelFlushes
<1>3. held[1] \in Call /\ held[1].op # "none" /\ (held[1].op = "run" => ~held[1].failed)
  BY <1>1, <1>2 DEF TreeInv, Types, Cancels
<1>4. CASE held[1].op = "cancel"
  <2>1. Flush(cancelInstance(Rows, held[1].dead, 0), Locked(1)) /\ Held(Busy(1, NoCall))
    BY <1>1, <1>4 DEF CancelFlushes
  <2>2. QED BY <1>2, <1>4, <2>1, CancelKeyFlushes
<1>5. CASE held[1].op = "boundary"
  <2>1. PICK x : x = held[1].token
    OBVIOUS
  <2>2. Flush(BoundaryFlush(held[1].dead, x), Locked(1)) /\ Held(Busy(1, NoCall))
    BY <1>1, <1>5, <2>1 DEF CancelFlushes, BoundaryFlush
  <2>3. QED BY <1>2, <1>5, <2>1, <2>2, BoundaryFlushes
<1>6. CASE held[1].op = "run"
  <2>1. PICK x : x = held[1].token
    OBVIOUS
  <2>2. held[1].failed = FALSE
    BY <1>3, <1>6 DEF Call
  <2>3. Flush(EndFlush(held[1].dead \union {1}, x), Locked(1) \ {1})
    BY <1>1, <1>6, <2>1, <2>2 DEF CancelFlushes, EndFlush
  <2>4. Held(Busy(1, EndCall(held[1])))
    BY <1>1, <1>6, <2>1, <2>2 DEF CancelFlushes, EndCall
  <2>5. QED BY <1>2, <1>6, <2>1, <2>3, <2>4, EndFlushes
<1>7. QED BY <1>3, <1>4, <1>5, <1>6 DEF Call

-----------------------------------------------------------------------------
(* The invariant, and what follows from it.                                *)

\* A new root instance satisfies the invariant.
LEMMA InitTree == Init => TreeInv
<1> SUFFICES ASSUME Init PROVE TreeInv
  OBVIOUS
<1> USE TreeAssumption
<1>1. PICK root, first, g :
         /\ root = Instance("default", 0, 0) /\ first = NewToken(1, "start")
         /\ g = [inst |-> 1, toks |-> <<1>>]
  OBVIOUS
<1>2. /\ root \in InstanceRow /\ root.kind = "default" /\ root.token = 0 /\ root.state = "ready"
  BY <1>1 DEF Instance, InstanceRow, InstanceState
<1>3. /\ first \in TokenRow /\ first.inst = 1 /\ first.at = "start" /\ first.state = "running"
  BY <1>1 DEF NewToken, TokenRow, TokenState, Place
<1>4. g \in Goroutine /\ g.inst = 1 /\ g.toks = <<1>>
  BY <1>1 DEF Goroutine
<1>5. /\ inst = <<root>> /\ tok = <<first>> /\ job = <<>> /\ sub = {} /\ incident = {}
      /\ lock = <<0>> /\ go = {g} /\ held = <<NoCall>> /\ failures = 0 /\ shape \in Shapes
  BY <1>1 DEF Init
<1>6. /\ DOMAIN inst = {1} /\ inst[1] = root /\ DOMAIN tok = {1} /\ tok[1] = first
      /\ DOMAIN job = {} /\ DOMAIN lock = {1} /\ lock[1] = 0 /\ DOMAIN held = {1} /\ held[1] = NoCall
  BY <1>5
<1>7. NoCall \in Call /\ NoCall.toks = <<>> /\ NoCall.pc = "none" /\ ~NoCall.failed
  BY NoCallType
<1>8. Types
  <2>1. inst \in Seq(InstanceRow) /\ tok \in Seq(TokenRow) /\ job \in Seq(JobRow)
    BY <1>2, <1>3, <1>5
  <2>2. lock \in [DOMAIN inst -> Nat] /\ held \in [DOMAIN inst -> Call]
    BY <1>5, <1>6, <1>7
  <2>3. failures \in 0..MaxFailures
    BY <1>5
  <2>4. QED BY <1>4, <1>5, <2>1, <2>2, <2>3 DEF Types
<1>9. ~Ended(1) /\ Kids = {}
  BY <1>2, <1>6 DEF Ended, EndedStates, Kids
<1>10. Tree
  BY <1>2, <1>3, <1>6, <1>9 DEF Tree, PlaceOK, PlacesOf
<1>11. Waits
  BY <1>5, <1>6 DEF Waits, WaitsAt
<1>12. Carried
  <2>1. PICK L : L = <<1>>
    OBVIOUS
  <2>2. DOMAIN L = {1} /\ L[1] = 1
    BY <2>1
  <2>3. RunsIn(L, 1)
    BY <1>3, <1>6, <2>2 DEF RunsIn
  <2>4. \A h \in go : h.inst = 1 /\ h.toks = L /\ h = g
    BY <1>4, <1>5, <2>1
  <2>5. held[1].toks = <<>>
    BY <1>6, <1>7
  <2>6. \A i \in DOMAIN inst : RunsIn(held[i].toks, i)
    BY <1>6, <2>5 DEF RunsIn
  <2>7. QED BY <1>6, <2>3, <2>4, <2>5, <2>6 DEF Carried, Apart
<1>13. Locks
  BY <1>6, <1>7, <1>9 DEF Locks, LockOK
<1>14. Cancels
  BY <1>6, <1>7 DEF Cancels
<1>15. Waiting
  BY <1>3, <1>6, <1>9 DEF Waiting, KidsOf
<1>16. Quiet
  BY <1>3, <1>6, <1>9 DEF Quiet, QuietOK
<1>17. Items
  BY <1>2, <1>6 DEF Items, Multi
<1>18. QED BY <1>8, <1>10, <1>11, <1>12, <1>13, <1>14, <1>15, <1>16, <1>17 DEF TreeInv

\* So does a step that changes nothing.
LEMMA StutterTree ==
    ASSUME TreeInv, UNCHANGED treeVars
    PROVE  TreeInv'
<1>1. /\ inst' = inst /\ tok' = tok /\ job' = job /\ sub' = sub /\ incident' = incident
      /\ shape' = shape /\ lock' = lock /\ go' = go /\ held' = held /\ failures' = failures
  BY DEF treeVars
<1>2. SameTables /\ UNCHANGED <<go, failures>>
  BY <1>1 DEF SameTables
<1>3. Tree' /\ Waits' /\ Waiting' /\ Quiet' /\ Items' /\ \A i : Ended(i)' <=> Ended(i)
  BY <1>2, TablesStay
<1>4. SameTree
  BY <1>1, <1>3 DEF SameTree
<1>5. Types'
  <2>1. lock' \in [DOMAIN inst -> Nat] /\ held' \in [DOMAIN inst -> Call]
    BY <1>1 DEF TreeInv, Types
  <2>2. QED BY <1>2, <2>1, TypesStay
<1>6. Carried'
  BY <1>1, <1>2, CarriedStays
<1>7. Cancels'
  BY <1>1, <1>4, CancelsStay
<1>8. Locks'
  <2>1. \A k \in DOMAIN inst : LockOK(k)'
    BY <1>1, <1>4, LockStays
  <2>2. QED BY <1>1, <2>1 DEF Locks
<1>9. QED BY <1>3, <1>5, <1>6, <1>7, <1>8 DEF TreeInv

\* Every step keeps the invariant.
LEMMA NextTree ==
    ASSUME TreeInv, [Next]_treeVars
    PROVE  TreeInv'
<1>1. CASE RunBegins
  BY <1>1, RunBeginsKeeps
<1>2. ASSUME NEW i \in DOMAIN inst, Step(i) PROVE TreeInv'
  <2>1. CASE RunEnds(i)
    BY <2>1, RunEndsKeeps
  <2>2. CASE ProcessToken(i)
    BY <2>2, ProcessTokenKeeps
  <2>3. CASE TokenFails(i)
    BY <2>3, TokenFailsKeeps
  <2>4. CASE TerminateEndEvent(i)
    BY <2>4, TerminateEndEventKeeps
  <2>5. CASE ContinueParent(i)
    BY <2>5, ContinueParentKeeps
  <2>6. CASE ParentIsBusy(i)
    BY <2>6, ParentIsBusyKeeps
  <2>7. CASE ContinuationFails(i)
    BY <2>7, ContinuationFailsKeeps
  <2>8. CASE cancelSubProcessInstance(i)
    BY <2>8, CancelSubProcessKeeps
  <2>9. CASE CancelFlushes(i)
    BY <2>9, CancelFlushesKeeps
  <2>10. QED
    BY <1>2, <2>1, <2>2, <2>3, <2>4, <2>5, <2>6, <2>7, <2>8, <2>9 DEF Step
<1>3. CASE CancelInstanceByKey
  BY <1>3, CancelInstanceByKeyKeeps
<1>4. ASSUME NEW t \in sub, HandleBoundaryMessage(t) PROVE TreeInv'
  BY <1>4, HandleBoundaryMessageKeeps
<1>5. ASSUME NEW j \in DOMAIN job, JobCompleteByKey(j) PROVE TreeInv'
  BY <1>5, JobCompleteKeeps
<1>6. ASSUME NEW j \in DOMAIN job, JobFailByKey(j) PROVE TreeInv'
  BY <1>6, JobFailKeeps
<1>7. ASSUME NEW t \in incident, ResolveIncident(t) PROVE TreeInv'
  BY <1>7, ResolveIncidentKeeps
<1>8. CASE UNCHANGED treeVars
  BY <1>8, StutterTree
<1>9. QED
  BY <1>1, <1>2, <1>3, <1>4, <1>5, <1>6, <1>7, <1>8 DEF Next

\* TreeInv is an invariant of the tree of instances, for every set of shapes whose activity
\* has children and every number of failures: the types of the tables, and how rows, lists
\* of tokens to run, locks and children relate.
THEOREM TreeInvariance == Spec => []TreeInv
<1>1. Init => TreeInv
  BY InitTree
<1>2. TreeInv /\ [Next]_treeVars => TreeInv'
  BY NextTree
<1>3. QED BY <1>1, <1>2, PTL DEF Spec

\* The invariant leaves nothing open in an ended instance.
LEMMA EndedAreQuiet ==
    ASSUME TreeInv PROVE EndedTreesAreQuiet
<1> SUFFICES ASSUME NEW i \in DOMAIN inst, Ended(i)
             PROVE  /\ ActiveTokens(i) = {} /\ PendingJobs(i) = {}
                    /\ (sub \union incident) \intersect TokensOf(i) = {}
  BY DEF EndedTreesAreQuiet, Ended
<1>1. ASSUME NEW t \in TokensOf(i) PROVE ~Live(t) /\ t \notin sub /\ t \notin incident
  <2>1. t \in DOMAIN tok /\ tok[t].inst = i
    BY <1>1 DEF TokensOf
  <2>2. ~Live(t)
    BY <2>1 DEF TreeInv, Quiet, QuietOK
  <2>3. WaitsAt(t)
    BY <2>1 DEF TreeInv, Waits
  <2>4. QED BY <2>2, <2>3 DEF WaitsAt, Live
<1>2. ASSUME NEW j \in PendingJobs(i) PROVE FALSE
  <2>1. j \in DOMAIN job /\ Pending(j) /\ tok[job[j].token].inst = i
    BY <1>2 DEF PendingJobs, Pending
  <2>2. ~Ended(tok[job[j].token].inst)
    BY <2>1, JobToken
  <2>3. QED BY <2>1, <2>2
<1>3. ActiveTokens(i) = {}
  BY <1>1 DEF ActiveTokens
<1>4. QED BY <1>1, <1>2, <1>3

\* The invariant matches waiting tokens with children that have not ended.
LEMMA ParentsAndChildren ==
    ASSUME TreeInv PROVE ParentsMatchChildren
<1>1. ASSUME NEW t \in DOMAIN tok, tok[t].state = "waiting", HasChild(t)
      PROVE  Cardinality(Awaited(t)) = 1
  <2>1. KidsOf(t)
    BY DEF TreeInv, Waiting
  <2>2. PICK c \in Kids : inst[c].token = t /\ ~Ended(c)
    BY <1>1, <2>1 DEF KidsOf
  <2>3. tok[t].eik = inst[c].target /\ \A d \in Kids : inst[d].token = t /\ ~Ended(d) => c = d
    BY <2>1, <2>2 DEF KidsOf
  <2>4. inst[1].token # t
    <3>1. inst[1].token = 0 /\ tok \in Seq(TokenRow)
      BY DEF TreeInv, Tree, Types
    <3>2. QED BY <1>1, <3>1
  <2>5. Awaited(t) = {c}
    BY <2>2, <2>3, <2>4 DEF Awaited, Kids, Ended
  <2>6. QED BY <2>5, FS_Singleton
<1>2. ASSUME NEW c \in DOMAIN inst \ {1}, inst[c].state \notin EndedStates
      PROVE  /\ tok[inst[c].token].state = "waiting" /\ c \in Awaited(inst[c].token)
             /\ inst[ParentOf(c)].state \notin EndedStates
  <2>1. c \in Kids /\ ~Ended(c) /\ c \in DOMAIN inst
    BY <1>2 DEF Kids, Ended
  <2>2. PICK t : t = inst[c].token
    OBVIOUS
  <2>3. tok[t].state = "waiting" /\ tok[t].eik = inst[c].target /\ ~Ended(tok[t].inst)
    BY <2>1, <2>2, LiveKid
  <2>4. QED BY <1>2, <2>1, <2>2, <2>3 DEF Awaited, ParentOf, Ended
<1>3. QED BY <1>1, <1>2 DEF ParentsMatchChildren

\* The executions of a completed multi-instance.
LEMMA AllCompleted ==
    ASSUME TreeInv, NEW m \in DOMAIN inst, Multi(m), inst[m].state = "completed"
    PROVE  Executions(m) = shape.items /\ ItemsOf(m) = {"completed"}
<1>1. /\ inst[m].started = Executions(m) /\ inst[m].started = shape.items /\ shape.items > 0
      /\ \A j \in DOMAIN job : tok[job[j].token].inst = m => job[j].state # "terminated"
      /\ \A c \in Kids : ParentOf(c) = m => inst[c].state # "terminated"
  <2>1. ItemsOK(m)
    BY DEF TreeInv, Items
  <2>2. QED BY <2>1 DEF ItemsOK
<1>2. Ended(m)
  BY DEF Ended, EndedStates
<1>3. shape.items \in Nat /\ Executions(m) = shape.items /\ Executions(m) # 0
  BY <1>1, ShapeType
<1>4. Cardinality({}) = 0
  BY FS_EmptySet
<1>5. CASE shape.inner = "task"
  <2>1. PICK K : K = {k \in DOMAIN job : tok[job[k].token].inst = m}
    OBVIOUS
  <2>2. Executions(m) = Cardinality(K) /\ ItemsOf(m) = {job[j].state : j \in K}
    BY <1>5, <2>1 DEF Executions, ItemsOf
  <2>3. K # {}
    BY <1>3, <1>4, <2>2
  <2>4. ASSUME NEW j \in K PROVE job[j].state = "completed"
    <3>1. j \in DOMAIN job /\ tok[job[j].token].inst = m /\ job[j].state # "terminated"
      BY <1>1, <2>1
    <3>2. ~Pending(j)
      BY <1>2, <3>1, JobToken
    <3>3. job[j] \in JobRow
      BY <3>1 DEF TreeInv, Types
    <3>4. QED BY <3>1, <3>2, <3>3 DEF Pending, JobRow, JobState
  <2>5. QED BY <1>3, <2>2, <2>3, <2>4
<1>6. CASE shape.inner # "task"
  <2>1. PICK K : K = {k \in DOMAIN inst : k # 1 /\ ParentOf(k) = m}
    OBVIOUS
  <2>2. Executions(m) = Cardinality(K) /\ ItemsOf(m) = {inst[c].state : c \in K}
    BY <1>6, <2>1 DEF Executions, ItemsOf
  <2>3. K # {}
    BY <1>3, <1>4, <2>2
  <2>4. ASSUME NEW c \in K PROVE inst[c].state = "completed"
    <3>1. c \in Kids /\ ParentOf(c) = m
      BY <2>1 DEF Kids
    <3>2. inst[c].state # "terminated"
      BY <1>1, <3>1
    <3>3. Ended(c)
      <4>1. ASSUME ~Ended(c) PROVE FALSE
        <5>1. ~Ended(tok[inst[c].token].inst)
          BY <3>1, <4>1, LiveKid
        <5>2. QED BY <1>2, <3>1, <5>1 DEF ParentOf
      <4>2. QED BY <4>1
    <3>4. QED BY <3>2, <3>3 DEF Ended, EndedStates
  <2>5. QED BY <1>3, <2>2, <2>3, <2>4
<1>7. QED BY <1>5, <1>6

\* The invariant counts every item of a multi-instance once.
LEMMA ItemsOnce ==
    ASSUME TreeInv PROVE EveryItemOnce
<1> SUFFICES ASSUME NEW m \in DOMAIN inst, Multi(m)
             PROVE  /\ Executions(m) <= shape.items
                    /\ inst[m].state = "completed" =>
                          Executions(m) = shape.items /\ ItemsOf(m) = {"completed"}
                    /\ shape.sequential => Cardinality(ActiveTokens(m)) <= 1
  BY DEF EveryItemOnce
<1>1. ItemsOK(m)
  BY DEF TreeInv, Items
<1>2. Executions(m) <= shape.items
  BY <1>1 DEF ItemsOK
<1>3. ASSUME shape.sequential PROVE Cardinality(ActiveTokens(m)) <= 1
  <2>1. \A t, u \in TokensOf(m) : t = u
    BY <1>1, <1>3 DEF ItemsOK
  <2>2. CASE ActiveTokens(m) = {}
    <3>1. Cardinality(ActiveTokens(m)) = 0
      BY <2>2, FS_EmptySet
    <3>2. QED BY <3>1
  <2>3. CASE ActiveTokens(m) # {}
    <3>1. PICK t : t \in ActiveTokens(m)
      BY <2>3
    <3>2. ActiveTokens(m) = {t}
      BY <2>1, <3>1 DEF ActiveTokens
    <3>3. Cardinality(ActiveTokens(m)) = 1
      BY <3>2, FS_Singleton
    <3>4. QED BY <3>3
  <2>4. QED BY <2>2, <2>3
<1>4. QED BY <1>2, <1>3, AllCompleted

\* An ended instance of the tree has no live token, no pending job, no boundary subscription
\* and no incident, however children complete, fail and are cancelled (cancelInstance,
\* handlePlainEndEvent, handleParentProcessContinuation).
THEOREM EndedTreesAreQuietAlways == Spec => []EndedTreesAreQuiet
BY TreeInvariance, EndedAreQuiet, PTL

\* A token that waits for a child has exactly one that has not ended, and a child that has
\* not ended has a parent that waits for it: no parent leaves a child behind, and no child
\* ends without continuing its parent (handleParentProcessContinuation,
\* handleProcessInstanceInnerCancel).
THEOREM ParentsMatchChildrenAlways == Spec => []ParentsMatchChildren
BY TreeInvariance, ParentsAndChildren, PTL

\* A multi-instance executes its activity at most once for every item of its collection, one
\* at a time if it is sequential, and completes only after all of them have completed
\* (handleMultiInstanceActivity, handleMultiInstanceElementTransition).
THEOREM EveryItemOnceAlways == Spec => []EveryItemOnce
BY TreeInvariance, ItemsOnce, PTL
=============================================================================
