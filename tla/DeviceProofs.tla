---------------------------- MODULE DeviceProofs ----------------------------
(***************************************************************************)
(* Proofs about Device, for any number of devices, clients, nodes and      *)
(* plugs and any scripts: type correctness; that the login comes first;    *)
(* that every action of a client leaves its queue by one callback; and     *)
(* that a poll is bound by the time-outs of the actions it leaves waiting. *)
(***************************************************************************)
EXTENDS Device, SequenceTheorems, FiniteSetTheorems, TLAPS

(***************************************************************************)
(* Execution stacks                                                        *)
(***************************************************************************)

(* A new context is at the first statement of a block, which has one.      *)
LEMMA CreateCtxType ==
    ASSUME NEW P, NEW b \in DOMAIN Block, NEW plugs \in SUBSET P
    PROVE  create_exec_ctx(b, plugs) \in ExecCtx(P)
BY BlockAssumption DEF create_exec_ctx, ExecCtx

(* Pushing a context on a stack, or starting a stack with it, is a stack.  *)
LEMMA PushType ==
    ASSUME NEW P, NEW exec \in Seq(ExecCtx(P)), NEW e \in ExecCtx(P)
    PROVE  << e >> \o exec \in Stacks(P)
<1>1. << e >> \o exec \in Seq(ExecCtx(P)) /\ Len(<< e >> \o exec) = 1 + Len(exec)
    OBVIOUS
<1>2. << e >> \o exec # << >>
    BY <1>1
<1>. QED  BY <1>1, <1>2 DEF Stacks

(* Changing the top of a stack leaves a stack.                             *)
LEMMA SetTopType ==
    ASSUME NEW P, NEW exec \in Stacks(P), NEW e \in ExecCtx(P)
    PROVE  set_top(exec, e) \in Stacks(P)
<1>1. Tail(exec) \in Seq(ExecCtx(P))
    BY DEF Stacks
<1>. QED  BY <1>1, PushType DEF set_top

(* The top of a stack is a context, at a statement of its block.           *)
LEMMA TopType ==
    ASSUME NEW P, NEW exec \in Stacks(P)
    PROVE  /\ Head(exec) \in ExecCtx(P)
           /\ IsStmt(cur_stmt(Head(exec)))
<1>1. Head(exec) \in ExecCtx(P)
    BY DEF Stacks
<1>. QED  BY <1>1, BlockAssumption DEF ExecCtx, cur_stmt

(* Rewinding leaves a stack: the outer block's, which is never empty.      *)
LEMMA RewindType ==
    ASSUME NEW P, NEW exec \in Stacks(P)
    PROVE  rewind_action(exec) \in Stacks(P)
<1>. DEFINE e == exec[Len(exec)]
<1>1. e \in ExecCtx(P)
    BY DEF Stacks
<1>2. [e EXCEPT !.stmt = 1] \in ExecCtx(P)
    BY <1>1, BlockAssumption DEF ExecCtx
<1>3. << [e EXCEPT !.stmt = 1] >> \in Seq(ExecCtx(P))
    BY <1>2
<1>. QED  BY <1>3 DEF rewind_action, Stacks

(* Finishing a statement leaves a stack, or nothing of it.                 *)
LEMMA NextStmtType ==
    ASSUME NEW P, NEW exec \in Stacks(P)
    PROVE  next_stmt(exec) \in Seq(ExecCtx(P))
<1>. DEFINE e == Head(exec)
<1>1. e \in ExecCtx(P) /\ Tail(exec) \in Seq(ExecCtx(P))
    BY DEF Stacks
<1>2. CASE e.stmt < Len(Block[e.block])
    <2>1. e.block \in DOMAIN Block /\ e.stmt \in Nat \ {0} /\ Len(Block[e.block]) \in Nat
        BY <1>1, BlockAssumption DEF ExecCtx
    <2>2. e.stmt + 1 \in Nat \ {0} /\ e.stmt + 1 <= Len(Block[e.block])
        BY <1>2, <2>1
    <2>3. [e EXCEPT !.stmt = @ + 1] \in ExecCtx(P)
        BY <1>1, <2>1, <2>2 DEF ExecCtx
    <2>. QED  BY <1>1, <1>2, <2>3 DEF next_stmt
<1>. QED  BY <1>1, <1>2 DEF next_stmt

(***************************************************************************)
(* Queueing                                                                *)
(***************************************************************************)

(* The plugs of a device are numbered from 1.                              *)
LEMMA PlugsFinite ==
    ASSUME NEW d \in Devs, NEW P \in SUBSET Plugs(d)
    PROVE  /\ P \subseteq Nat \ {0}
           /\ IsFiniteSet(P) /\ Cardinality(P) \in Nat
<1>1. Plugs(d) = 1..Len(PlugNode[d]) /\ Len(PlugNode[d]) \in Nat
    BY DeviceAssumption DEF Plugs
<1>2. IsFiniteSet(Plugs(d))
    BY <1>1, FS_Interval
<1>. QED  BY <1>1, <1>2, FS_Subset, FS_CardinalityType

(* How many plugs of P come up to p: the place of p in P.                  *)
plug_rank(P, p) == Cardinality({ q \in P : q <= p })

(* The plugs of a set have different ranks.                                *)
LEMMA PlugRanks ==
    ASSUME NEW d \in Devs, NEW P \in SUBSET Plugs(d)
    PROVE  [ p \in P |-> plug_rank(P, p) ] \in Injection(P, 1..Cardinality(P))
<1>. DEFINE upto(p) == { q \in P : q <= p }
            n == Cardinality(P)
            rank == [ p \in P |-> Cardinality(upto(p)) ]
<1>1. P \subseteq Nat /\ IsFiniteSet(P) /\ n \in Nat
    BY PlugsFinite
<1>2. ASSUME NEW p \in P
      PROVE  IsFiniteSet(upto(p)) /\ Cardinality(upto(p)) \in 1..n
    <2>1. upto(p) \in SUBSET P /\ upto(p) # {}
        BY <1>1
    <2>2. /\ IsFiniteSet(upto(p)) /\ Cardinality(upto(p)) <= n
          /\ Cardinality(upto(p)) \in Nat
        BY <1>1, <2>1, FS_Subset, FS_CardinalityType
    <2>3. Cardinality(upto(p)) # 0
        BY <2>1, <2>2, FS_EmptySet
    <2>. QED  BY <1>1, <2>2, <2>3
<1>3. ASSUME NEW p \in P, NEW q \in P, p < q
      PROVE  Cardinality(upto(p)) # Cardinality(upto(q))
    <2>1. p \in Nat /\ q \in Nat /\ \A x \in P : x \in Nat
        BY <1>1
    <2>2. q \in upto(q) /\ q \notin upto(p)
        BY <1>3, <2>1
    <2>3. \A x \in P : x <= p => x <= q
        BY <1>3, <2>1
    <2>4. upto(p) \in SUBSET upto(q)
        BY <2>3
    <2>. QED  BY <1>2, <2>2, <2>4, FS_Subset
<1>4. rank \in Injection(P, 1..n)
    <2>1. rank \in [P -> 1..n]
        BY <1>2
    <2>2. ASSUME NEW p \in P, NEW q \in P, rank[p] = rank[q]
          PROVE  p = q
        <3>1. ~(p < q) /\ ~(q < p)
            BY <1>3, <2>2
        <3>. QED  BY <1>1, <3>1
    <2>. QED  BY <2>1, <2>2 DEF Injection, IsInjective
<1>. QED  BY <1>4 DEF plug_rank

(* A set of plugs has an i-th plug, for every i up to their number: their  *)
(* ranks are distinct, so every rank there can be is taken.                *)
LEMMA NthPlugType ==
    ASSUME NEW d \in Devs, NEW P \in SUBSET Plugs(d), NEW i \in 1..Cardinality(P)
    PROVE  nth_plug(P, i) \in P
<1>. DEFINE n == Cardinality(P)
            rank == [ p \in P |-> plug_rank(P, p) ]
<1>1. IsFiniteSet(P) /\ n \in Nat
    BY PlugsFinite
<1>2. IsFiniteSet(1..n) /\ Cardinality(1..n) = n
    BY <1>1, FS_Interval
<1>3. rank \in Injection(P, 1..n)
    BY PlugRanks
<1>. HIDE DEF rank
<1>4. rank \in Surjection(P, 1..n)
    BY <1>1, <1>2, <1>3, FS_Injection
<1>5. \E p \in P : rank[p] = i
    BY <1>4 DEF Surjection
<1>. QED  BY <1>5 DEF nth_plug, plug_rank, rank

(* Every plug of a set is its i-th for some i.                             *)
LEMMA NthPlugOf ==
    ASSUME NEW d \in Devs, NEW P \in SUBSET Plugs(d), NEW p \in P
    PROVE  plug_rank(P, p) \in 1..Cardinality(P) /\ nth_plug(P, plug_rank(P, p)) = p
<1>. DEFINE rank == [ q \in P |-> plug_rank(P, q) ]
<1>1. rank \in Injection(P, 1..Cardinality(P)) /\ \A q \in P : rank[q] = plug_rank(P, q)
    BY PlugRanks
<1>. HIDE DEF rank
<1>2. plug_rank(P, p) \in 1..Cardinality(P)
    BY <1>1 DEF Injection
<1>3. \A q \in P : plug_rank(P, q) = plug_rank(P, p) => q = p
    BY <1>1 DEF Injection, IsInjective
<1>4. nth_plug(P, plug_rank(P, p)) = CHOOSE q \in P : plug_rank(P, q) = plug_rank(P, p)
    BY DEF nth_plug, plug_rank
<1>. QED  BY <1>2, <1>3, <1>4

(* An action is created well formed, to run a script from its beginning.   *)
LEMMA CreateActionType ==
    ASSUME NEW d \in Devs, NEW com \in DOMAIN Scripts[d],
           NEW plugs \in SUBSET Plugs(d), NEW c \in Callers
    PROVE  create_action(d, com, plugs, c) \in Action(d)
<1>1. Scripts[d][com] \in DOMAIN Block
    BY DeviceAssumption
<1>2. create_exec_ctx(Scripts[d][com], plugs) \in ExecCtx(Plugs(d))
    BY <1>1, CreateCtxType
<1>3. << create_exec_ctx(Scripts[d][com], plugs) >> \in Stacks(Plugs(d))
    BY <1>2 DEF Stacks
<1>. QED  BY <1>3 DEF create_action, Action, Timer

(* The scripts of clients' commands are not the login script.              *)
LEMMA VariantNotLogin ==
    ASSUME NEW d \in Devs, NEW com \in ClientComs
    PROVE  /\ com # "login"
           /\ \A t \in {AllScript, RangedScript} : "login" \notin variant(d, com, t)
BY DEF ClientComs, AllScript, RangedScript, variant

(* The login is nowhere in q.                                              *)
NoLogin(q) == \A i \in 1..Len(q) : q[i].com # "login"

(* A client's command queues well formed actions, and no login.            *)
LEMMA NewActsType ==
    ASSUME NEW d \in Devs, NEW com \in ClientComs, NEW hl \in SUBSET Nodes,
           NEW c \in Clients
    PROVE  /\ new_acts(d, com, hl, c) \in Seq(Action(d))
           /\ NoLogin(new_acts(d, com, hl, c))
<1>. DEFINE P == targets(d, hl)
            all == (P = Plugs(d) \/ com \in Query) /\ variant(d, com, AllScript) # {}
            new == enqueue_targetted_actions(d, com, hl, c)
<1>1. P \in SUBSET Plugs(d) /\ c \in Callers /\ Cardinality(P) \in Nat
    BY PlugsFinite DEF targets, Callers
<1>2. CASE all
    <2>. DEFINE a == create_action(d, AllScript[com], {}, c)
    <2>1. AllScript[com] \in DOMAIN Scripts[d] /\ AllScript[com] # "login"
        BY <1>2, VariantNotLogin DEF variant
    <2>2. a \in Action(d) /\ a.com # "login"
        BY <1>1, <2>1, CreateActionType DEF create_action
    <2>3. new = << a >>
        BY <1>2 DEF enqueue_targetted_actions
    <2>. QED  BY <2>2, <2>3 DEF new_acts, NoLogin
<1>3. CASE ~all /\ variant(d, com, RangedScript) # {}
    <2>. DEFINE a == create_action(d, RangedScript[com], P, c)
    <2>1. RangedScript[com] \in DOMAIN Scripts[d] /\ RangedScript[com] # "login"
        BY <1>3, VariantNotLogin DEF variant
    <2>2. a \in Action(d) /\ a.com # "login"
        BY <1>1, <2>1, CreateActionType DEF create_action
    <2>3. new = << a >>
        BY <1>3 DEF enqueue_targetted_actions
    <2>. QED  BY <2>2, <2>3 DEF new_acts, NoLogin
<1>4. CASE ~all /\ variant(d, com, RangedScript) = {} /\ com \in DOMAIN Scripts[d]
    <2>. DEFINE a(i) == create_action(d, com, {nth_plug(P, i)}, c)
    <2>1. ASSUME NEW i \in 1..Cardinality(P)
          PROVE  a(i) \in Action(d) /\ a(i).com # "login"
        <3>1. {nth_plug(P, i)} \in SUBSET Plugs(d)
            BY <1>1, NthPlugType
        <3>. QED  BY <1>1, <1>4, <3>1, CreateActionType, VariantNotLogin DEF create_action
    <2>2. new = [ i \in 1..Cardinality(P) |-> a(i) ]
        BY <1>4 DEF enqueue_targetted_actions
    <2>. HIDE DEF a
    <2>3. new \in Seq(Action(d)) /\ Len(new) = Cardinality(P)
        BY <1>1, <2>1, <2>2
    <2>4. NoLogin(new)
        BY <2>1, <2>2, <2>3 DEF NoLogin
    <2>. QED  BY <2>3, <2>4 DEF new_acts, NoLogin
<1>5. CASE ~all /\ variant(d, com, RangedScript) = {} /\ com \notin DOMAIN Scripts[d]
    <2>1. new = << >>
        BY <1>5 DEF enqueue_targetted_actions
    <2>. QED  BY <2>1 DEF new_acts, NoLogin
<1>. QED  BY <1>2, <1>3, <1>4, <1>5

(***************************************************************************)
(* Connections                                                             *)
(***************************************************************************)

(* What an attempt to connect, or to reconnect, may come to.               *)
Outcome(d) ==
    [ state : Outcomes, link : Links, queue : Seq(Action(d)),
      retry : {"ready", "waiting"}, timer : SUBSET Timers ]

(* The login is at the head of q if, and only if, b; and nowhere else.     *)
LoginAt(q, b) ==
    /\ \A i \in 2..Len(q) : q[i].com # "login"
    /\ (q # << >> /\ Head(q).com = "login") <=> b

(* With the login before it, a queue is a queue.                           *)
LEMMA EnqueueLoginType ==
    ASSUME NEW d \in Devs, NEW q \in Seq(Action(d))
    PROVE  enqueue_login(d, q) \in Seq(Action(d))
<1>. DEFINE a == create_action(d, "login", {}, NoClient)
            h == [Head(q) EXCEPT !.exec = rewind_action(@)]
<1>1. a \in Action(d)
    BY DeviceAssumption, CreateActionType DEF Callers
<1>2. << a >> \in Seq(Action(d))
    BY <1>1
<1>3. CASE q = << >>
    BY <1>2, <1>3 DEF enqueue_login
<1>4. CASE q # << >>
    <2>1. Head(q) \in Action(d) /\ Tail(q) \in Seq(Action(d))
        BY <1>4
    <2>2. rewind_action(Head(q).exec) \in Stacks(Plugs(d))
        BY <2>1, RewindType DEF Action
    <2>3. h \in Action(d)
        BY <2>1, <2>2 DEF Action
    <2>4. << h >> \o Tail(q) \in Seq(Action(d))
        BY <2>1, <2>3
    <2>. HIDE DEF a, h
    <2>5. << a >> \o (<< h >> \o Tail(q)) \in Seq(Action(d))
        BY <1>2, <2>4
    <2>. QED  BY <1>4, <2>5 DEF enqueue_login, a, h
<1>. QED  BY <1>3, <1>4

(* The login is then at the head, if there was none.                       *)
LEMMA EnqueueLoginFirst ==
    ASSUME NEW d \in Devs, NEW q \in Seq(Action(d)), NoLogin(q)
    PROVE  LoginAt(enqueue_login(d, q), TRUE)
<1>. DEFINE a == create_action(d, "login", {}, NoClient)
            h == [Head(q) EXCEPT !.exec = rewind_action(@)]
<1>1. a.com = "login"
    BY DEF create_action
<1>2. CASE q = << >>
    <2>. HIDE DEF a
    <2>1. enqueue_login(d, q) = << a >>
        BY <1>2 DEF enqueue_login, a
    <2>. QED  BY <1>1, <2>1 DEF LoginAt
<1>3. CASE q # << >>
    <2>. DEFINE r == << h >> \o Tail(q)
    <2>1. h.com = Head(q).com
        BY <1>3 DEF Action
    <2>. HIDE DEF a, h
    <2>2. Len(r) = Len(q) /\ \A i \in 1..Len(q) : r[i] = IF i = 1 THEN h ELSE q[i]
        BY <1>3
    <2>3. NoLogin(r)
        BY <1>3, <2>1, <2>2 DEF NoLogin
    <2>4. enqueue_login(d, q) = << a >> \o r
        BY <1>3 DEF enqueue_login, a, h
    <2>5. Len(q) \in Nat /\ r = [ i \in 1..Len(q) |-> r[i] ]
        BY <1>3, <2>2
    <2>6. Len(<< a >> \o r) = 1 + Len(r) /\ (<< a >> \o r)[1] = a
          /\ \A i \in 2..(1 + Len(r)) : (<< a >> \o r)[i] = r[i-1]
        BY <2>2, <2>5
    <2>7. << a >> \o r # << >> /\ Head(<< a >> \o r) = a
        BY <2>2, <2>6
    <2>8. \A i \in 2..(1 + Len(r)) : r[i-1].com # "login"
        BY <2>2, <2>3 DEF NoLogin
    <2>. HIDE DEF r
    <2>. QED  BY <1>1, <2>4, <2>6, <2>7, <2>8 DEF LoginAt
<1>. QED  BY <1>2, <1>3

(* Disconnecting takes the login away, if it is nowhere but at the head.   *)
LEMMA DisconnectType ==
    ASSUME NEW d \in Devs, NEW q \in Seq(Action(d))
    PROVE  disconnect(q) \in Seq(Action(d))
BY DEF disconnect

(* Disconnecting leaves no login in a queue that had it at the head only.  *)
LEMMA DisconnectNoLogin ==
    ASSUME NEW d \in Devs, NEW q \in Seq(Action(d)), NEW b \in BOOLEAN, LoginAt(q, b)
    PROVE  NoLogin(disconnect(q))
<1>1. CASE q # << >> /\ Head(q).com = "login"
    <2>1. Len(Tail(q)) = Len(q) - 1 /\ \A i \in 1..(Len(q) - 1) : Tail(q)[i] = q[i+1]
        BY <1>1
    <2>. QED  BY <1>1, <2>1 DEF disconnect, LoginAt, NoLogin
<1>2. CASE q # << >> /\ Head(q).com # "login"
    BY <1>2 DEF disconnect, LoginAt, NoLogin
<1>3. CASE q = << >>
    BY <1>3 DEF disconnect, LoginAt, NoLogin
<1>. QED  BY <1>1, <1>2, <1>3

(* Connecting has one of the outcomes there are.                           *)
LEMMA ConnectType ==
    ASSUME NEW d \in Devs, NEW q \in Seq(Action(d)), NEW r \in connect(d, q)
    PROVE  r \in Outcome(d)
<1>1. enqueue_login(d, q) \in Seq(Action(d))
    BY EnqueueLoginType
<1>. QED  BY <1>1 DEF connect, Outcome, Outcomes, Links

(* Connecting puts the login at the head, when the device is connected.    *)
LEMMA ConnectLogin ==
    ASSUME NEW d \in Devs, NEW q \in Seq(Action(d)), NoLogin(q), NEW r \in connect(d, q)
    PROVE  LoginAt(r.queue, r.state = "CONNECTED")
<1>1. LoginAt(enqueue_login(d, q), TRUE)
    BY EnqueueLoginFirst
<1>2. LoginAt(q, FALSE)
    BY DEF NoLogin, LoginAt
<1>3. CASE r.state = "CONNECTED"
    <2>1. r.queue = enqueue_login(d, q)
        BY <1>3 DEF connect
    <2>. QED  BY <1>1, <1>3, <2>1
<1>4. CASE r.state # "CONNECTED"
    <2>1. r.queue = q
        BY <1>4 DEF connect
    <2>. QED  BY <1>2, <1>4, <2>1 DEF LoginAt
<1>. QED  BY <1>3, <1>4

(* So does reconnecting, from any state.                                   *)
LEMMA ReconnectType ==
    ASSUME NEW d \in Devs, NEW q \in Seq(Action(d)), NEW r \in reconnect(d, q)
    PROVE  r \in Outcome(d)
<1>1. disconnect(q) \in Seq(Action(d))
    BY DisconnectType
<1>2. {<< "retry", d >>} \in SUBSET Timers
    BY DEF Timers
<1>. QED  BY <1>1, <1>2, ConnectType DEF reconnect, Outcome, Outcomes, Links

(* A reconnection leaves the login at the head or nowhere, as connected or not. *)
LEMMA ReconnectLogin ==
    ASSUME NEW d \in Devs, NEW q \in Seq(Action(d)), NEW b \in BOOLEAN, LoginAt(q, b),
           connect_state[d] = "NOT_CONNECTED" => ~b,
           NEW r \in reconnect(d, q)
    PROVE  LoginAt(r.queue, r.state = "CONNECTED")
<1>. DEFINE rest == IF connect_state[d] # "NOT_CONNECTED" THEN disconnect(q) ELSE q
<1>1. rest \in Seq(Action(d))
    BY DisconnectType
<1>2. NoLogin(rest)
    <2>1. CASE connect_state[d] # "NOT_CONNECTED"
        BY <2>1, DisconnectNoLogin
    <2>2. CASE connect_state[d] = "NOT_CONNECTED"
        BY <2>2 DEF LoginAt, NoLogin
    <2>. QED  BY <2>1, <2>2
<1>3. CASE retry[d] = "ready"
    BY <1>1, <1>2, <1>3, ConnectLogin DEF reconnect
<1>4. CASE retry[d] # "ready"
    <2>1. r.queue = rest /\ r.state = "NOT_CONNECTED"
        BY <1>4 DEF reconnect
    <2>. QED  BY <1>2, <2>1 DEF LoginAt, NoLogin
<1>. QED  BY <1>3, <1>4

(***************************************************************************)
(* Type correctness of the parts actions are made of                       *)
(***************************************************************************)

(* The next device of a pass is a device.                                  *)
LEMMA NextDeviceType ==
    ASSUME LoopTypeOK, NextDevice
    PROVE  cur' \in Devs /\ phase' \in {"start", "poll", "ready"}
<1>1. cur \in 1..NumDevs /\ NumDevs \in Nat \ {0}
    BY DeviceAssumption DEF LoopTypeOK, Devs
<1>2. CASE cur < NumDevs
    BY <1>1, <1>2 DEF NextDevice, Devs
<1>3. CASE ~(cur < NumDevs)
    BY <1>1, <1>3 DEF NextDevice, Devs
<1>. QED  BY <1>2, <1>3

(* The head of a queue, and the statement it is at, are well formed.       *)
LEMMA HeadType ==
    ASSUME QueueTypeOK, NEW d \in Devs, acts[d] # << >>
    PROVE  /\ Head(acts[d]) \in Action(d) /\ Tail(acts[d]) \in Seq(Action(d))
           /\ head(d) \in Action(d)
           /\ head(d).com = Head(acts[d]).com /\ head(d).client = Head(acts[d]).client
           /\ head(d).exec = Head(acts[d]).exec
           /\ head(d).exec \in Stacks(Plugs(d))
           /\ top(d) \in ExecCtx(Plugs(d)) /\ IsStmt(cur_stmt(top(d)))
<1>1. Head(acts[d]) \in Action(d) /\ Tail(acts[d]) \in Seq(Action(d))
    BY DEF QueueTypeOK
<1>2. /\ head(d) \in Action(d)
      /\ head(d).com = Head(acts[d]).com /\ head(d).client = Head(acts[d]).client
      /\ head(d).exec = Head(acts[d]).exec
    BY <1>1 DEF head, Action, Timer
<1>3. Head(acts[d]).exec \in Stacks(Plugs(d))
    BY <1>1 DEF Action
<1>. QED  BY <1>1, <1>2, <1>3, TopType DEF top

(* A queue with another head is a queue.                                   *)
LEMMA RequeueType ==
    ASSUME QueueTypeOK, NEW d \in Devs, acts[d] # << >>,
           NEW act \in Action(d), acts' = requeue(d, act)
    PROVE  QueueTypeOK'
<1>1. << act >> \o Tail(acts[d]) \in Seq(Action(d))
    BY HeadType
<1>. QED  BY <1>1 DEF QueueTypeOK, requeue

(* A head that goes on with another stack leaves a queue of actions.       *)
LEMMA GoOnType ==
    ASSUME TypeOK, NEW d \in Devs, acts[d] # << >>,
           NEW exec \in Stacks(Plugs(d)), GoOn(d, exec)
    PROVE  ConnTypeOK' /\ QueueTypeOK' /\ LoopTypeOK'
<1>1. [head(d) EXCEPT !.exec = exec] \in Action(d)
    BY HeadType DEF Action, TypeOK
<1>2. QueueTypeOK'
    BY <1>1, RequeueType DEF GoOn, TypeOK
<1>. QED  BY <1>2 DEF GoOn, TypeOK, ConnTypeOK, LoopTypeOK, conn

(* A head that stalls does too, and bounds the poll with timers there are. *)
LEMMA StallType ==
    ASSUME TypeOK, NEW d \in Devs, acts[d] # << >>,
           NEW act \in Action(d), NEW timers \in SUBSET Timers, Stall(d, act, timers)
    PROVE  ConnTypeOK' /\ QueueTypeOK' /\ LoopTypeOK'
<1>1. QueueTypeOK'
    BY RequeueType DEF Stall, TypeOK
<1>2. cur' \in Devs /\ phase' \in {"start", "poll", "ready"}
    BY NextDeviceType DEF Stall, TypeOK
<1>3. << "stamp", d >> \in Timers
    BY DEF Timers
<1>4. ConnTypeOK'
    BY DEF Stall, TypeOK, ConnTypeOK, conn
<1>5. tmout' \subseteq Timers
    BY <1>3 DEF Stall, TypeOK, LoopTypeOK
<1>6. calls' \in Seq([client : Callers, err : ActErrors])
    BY DEF Stall
<1>. QED  BY <1>1, <1>2, <1>4, <1>5, <1>6 DEF LoopTypeOK

(* So does a statement that is done, also when it ends its action.         *)
LEMMA FinishType ==
    ASSUME TypeOK, NEW d \in Devs, acts[d] # << >>,
           NEW exec \in Stacks(Plugs(d)), Finish(d, exec)
    PROVE  ConnTypeOK' /\ QueueTypeOK' /\ LoopTypeOK'
<1>1. CASE next_stmt(exec) # << >>
    <2>1. next_stmt(exec) \in Stacks(Plugs(d))
        BY <1>1, NextStmtType DEF Stacks
    <2>2. GoOn(d, next_stmt(exec))
        BY <1>1 DEF Finish
    <2>. QED  BY <2>1, <2>2, GoOnType
<1>2. CASE next_stmt(exec) = << >>
    <2>. DEFINE call == [ client |-> Head(acts[d]).client, err |-> "ESUCCESS" ]
    <2>1. /\ acts' = [ acts EXCEPT ![d] = Tail(@) ]
          /\ logged_in' = [ logged_in EXCEPT ![d] = @ \/ Head(acts[d]).com = "login" ]
          /\ calls' = << call >>
          /\ connect_state' = connect_state /\ retry' = retry /\ link' = link
          /\ ping' = ping /\ phase' = phase /\ cur' = cur /\ tmout' = tmout
        BY <1>2 DEF Finish
    <2>2. /\ Tail(acts[d]) \in Seq(Action(d))
          /\ Head(acts[d]).client \in Callers
        BY HeadType DEF TypeOK, Action
    <2>3. QueueTypeOK'
        BY <2>1, <2>2 DEF TypeOK, QueueTypeOK
    <2>4. call \in [client : Callers, err : ActErrors]
        BY <2>2 DEF ActErrors
    <2>5. LoopTypeOK'
        <3>. HIDE DEF call
        <3>. QED  BY <2>1, <2>4 DEF TypeOK, LoopTypeOK
    <2>6. ConnTypeOK'
        BY <2>1 DEF TypeOK, ConnTypeOK
    <2>. QED  BY <2>3, <2>5, <2>6
<1>. QED  BY <1>1, <1>2

(* A reconnection leaves a connection in one of its states ...             *)
LEMMA ReconnectedConn ==
    ASSUME TypeOK, NEW d \in Devs, NEW r \in Outcome(d), Reconnected(d, r),
           ping' \in [Devs -> {"due", "waiting"}]
    PROVE  ConnTypeOK'
<1>1. /\ r.state \in Outcomes /\ r.link \in Links
      /\ r.retry \in {"ready", "waiting"}
    BY DEF Outcome
<1>. QED  BY <1>1 DEF Reconnected, TypeOK, ConnTypeOK

(* ... and its buffers well formed.                                        *)
LEMMA ReconnectedWire ==
    ASSUME TypeOK, NEW d \in Devs, NEW r, Reconnected(d, r)
    PROVE  WireTypeOK'
<1>1. /\ xmatch' = xmatch
      /\ heard' = [ heard EXCEPT ![d] = << >> ] /\ rx' = [ rx EXCEPT ![d] = << >> ]
      /\ \/ to' = to /\ from' = from
         \/ to' = [ to EXCEPT ![d] = << >> ] /\ from' = [ from EXCEPT ![d] = << >> ]
    BY DEF Reconnected
<1>2. << >> \in Seq(Sent(d)) /\ << >> \in Seq(Line(d))
    OBVIOUS
<1>. QED  BY <1>1, <1>2 DEF TypeOK, WireTypeOK

(* So does a head that fails, with the reconnection it brings about.       *)
LEMMA FailType ==
    ASSUME TypeOK, NEW d \in Devs, NEW err \in ActErrors, Fail(d, err)
    PROVE  TypeOK'
<1>1. calls' \in Seq([client : Callers, err : ActErrors])
    <2>1. acts[d] \in Seq(Action(d))
        BY DEF TypeOK, QueueTypeOK
    <2>2. /\ Len(acts[d]) \in Nat /\ DOMAIN acts[d] = 1..Len(acts[d])
          /\ \A i \in 1..Len(acts[d]) : acts[d][i] \in Action(d)
        BY <2>1
    <2>3. \A i \in DOMAIN acts[d] : acts[d][i].client \in Callers
        BY <2>2 DEF Action
    <2>4. \A i \in DOMAIN acts[d] :
             [ client |-> acts[d][i].client,
               err |-> IF i = 1 THEN err ELSE IF err = "EEXPFAIL" THEN "EABORT" ELSE err ]
                \in [client : Callers, err : ActErrors]
        BY <2>3 DEF ActErrors
    <2>. QED  BY <2>2, <2>4 DEF Fail, completions
<1>2. cur' \in Devs /\ phase' \in {"start", "poll", "ready"}
    BY NextDeviceType DEF Fail, TypeOK
<1>3. CommandTypeOK'
    BY DEF Fail, TypeOK, CommandTypeOK
<1>4. << >> \in Seq(Action(d))
    OBVIOUS
<1>5. CASE connect_state[d] = "CONNECTED"
    <2>1. PICK r \in reconnect(d, << >>) :
             /\ Reconnected(d, r)
             /\ acts' = [ acts EXCEPT ![d] = r.queue ]
             /\ tmout' = tmout \cup r.timer
        BY <1>5 DEF Fail
    <2>2. r \in Outcome(d)
        BY <1>4, ReconnectType
    <2>3. ConnTypeOK' /\ WireTypeOK'
        BY <2>1, <2>2, ReconnectedConn, ReconnectedWire DEF Fail, TypeOK, ConnTypeOK
    <2>4. QueueTypeOK'
        BY <2>1, <2>2 DEF Outcome, TypeOK, QueueTypeOK
    <2>5. tmout' \subseteq Timers
        BY <2>1, <2>2 DEF Outcome, TypeOK, LoopTypeOK
    <2>. QED  BY <1>1, <1>2, <1>3, <2>3, <2>4, <2>5 DEF TypeOK, LoopTypeOK
<1>6. CASE connect_state[d] # "CONNECTED"
    <2>1. QueueTypeOK'
        BY <1>4, <1>6 DEF Fail, TypeOK, QueueTypeOK
    <2>2. ConnTypeOK' /\ WireTypeOK' /\ tmout' = tmout
        BY <1>6 DEF Fail, TypeOK, ConnTypeOK, WireTypeOK, conn, bufs
    <2>. QED  BY <1>1, <1>2, <1>3, <2>1, <2>2 DEF TypeOK, LoopTypeOK
<1>. QED  BY <1>5, <1>6

(* A ping that is due is queued; one that is not bounds the next poll.     *)
LEMMA EnqueuePingType ==
    ASSUME TypeOK, NEW d \in Devs, NEW state, NEW q \in Seq(Action(d)),
           NEW timer \in SUBSET Timers, enqueue_ping(d, state, q, timer)
    PROVE  /\ QueueTypeOK' /\ LoopTypeOK'
           /\ ping' \in [Devs -> {"due", "waiting"}] /\ args' = args
<1>1. "ping" \in DOMAIN Scripts[d]
        => Append(q, create_action(d, "ping", {}, NoClient)) \in Seq(Action(d))
    <2>. SUFFICES ASSUME "ping" \in DOMAIN Scripts[d]
                  PROVE  create_action(d, "ping", {}, NoClient) \in Action(d)
        OBVIOUS
    <2>. QED  BY CreateActionType DEF Callers
<1>2. QueueTypeOK'
    BY <1>1 DEF enqueue_ping, TypeOK, QueueTypeOK
<1>3. << "ping", d >> \in Timers
    BY DEF Timers
<1>4. LoopTypeOK'
    BY <1>3 DEF enqueue_ping, TypeOK, LoopTypeOK
<1>. QED  BY <1>2, <1>4 DEF enqueue_ping, TypeOK, ConnTypeOK

(***************************************************************************)
(* Type correctness, action by action                                      *)
(***************************************************************************)

(* A context may change its flag and its iterator.                         *)
LEMMA CtxType ==
    ASSUME NEW P, NEW e \in ExecCtx(P)
    PROVE  /\ \A b \in BOOLEAN : [ e EXCEPT !.processing = b ] \in ExecCtx(P)
           /\ \A p \in Nat : [ e EXCEPT !.plugitr = p ] \in ExecCtx(P)
BY DEF ExecCtx

(* The first connection of a device.                                       *)
LEMMA InitialConnectType ==
    ASSUME TypeOK, dev_initial_connect
    PROVE  TypeOK'
<1>1. cur \in Devs /\ acts[cur] \in Seq(Action(cur))
    BY DEF TypeOK, LoopTypeOK, QueueTypeOK
<1>2. PICK r \in connect(cur, acts[cur]) :
         Reconnected(cur, r) /\ acts' = [ acts EXCEPT ![cur] = r.queue ]
    BY DEF dev_initial_connect
<1>3. r \in Outcome(cur)
    BY <1>1, ConnectType
<1>4. ConnTypeOK' /\ WireTypeOK'
    BY <1>1, <1>2, <1>3, ReconnectedConn, ReconnectedWire
       DEF dev_initial_connect, TypeOK, ConnTypeOK
<1>5. QueueTypeOK'
    BY <1>2, <1>3 DEF Outcome, TypeOK, QueueTypeOK
<1>6. CommandTypeOK'
    BY DEF dev_initial_connect, TypeOK, CommandTypeOK
<1>7. LoopTypeOK'
    <2>1. cur' \in Devs /\ phase' \in {"start", "poll", "ready"}
        BY NextDeviceType DEF dev_initial_connect, TypeOK
    <2>2. calls' = << >> /\ tmout' = tmout
        BY DEF dev_initial_connect
    <2>. QED  BY <2>1, <2>2 DEF TypeOK, LoopTypeOK
<1>. QED  BY <1>4, <1>5, <1>6, <1>7 DEF TypeOK

(* A command of a client.                                                  *)
LEMMA ClientCommandType ==
    ASSUME TypeOK, ClientCommand
    PROVE  TypeOK'
<1>1. PICK com \in ClientComs, c \in Clients, hl \in SUBSET Nodes :
         dev_enqueue_actions(com, hl, c)
    BY DEF ClientCommand
<1>. DEFINE new(d) == new_acts(d, com, hl, c)
<1>2. \A d \in Devs : new(d) \in Seq(Action(d))
    BY NewActsType
<1>3. QueueTypeOK'
    <2>1. acts' = [ d \in Devs |-> acts[d] \o new(d) ]
        BY <1>1 DEF dev_enqueue_actions
    <2>. HIDE DEF new
    <2>. QED  BY <1>2, <2>1 DEF TypeOK, QueueTypeOK
<1>4. ConnTypeOK'
    <2>. HIDE DEF new
    <2>1. retry' \in [Devs -> {"ready", "waiting"}]
        BY <1>1 DEF dev_enqueue_actions, TypeOK, ConnTypeOK
    <2>. QED  BY <1>1, <2>1 DEF dev_enqueue_actions, TypeOK, ConnTypeOK
<1>5. CommandTypeOK'
    <2>1. [ n \in Nodes |-> IF n \in hl THEN "unknown" ELSE "none" ]
             \in [Nodes -> {"none", "unknown", "on", "off"}]
        OBVIOUS
    <2>. QED  BY <1>1, <2>1 DEF dev_enqueue_actions, TypeOK, CommandTypeOK
<1>6. WireTypeOK'
    BY <1>1 DEF dev_enqueue_actions, TypeOK, WireTypeOK, bufs
<1>7. LoopTypeOK'
    <2>1. calls' = << >> /\ phase' = phase /\ cur' = cur /\ tmout' = tmout
        BY <1>1 DEF dev_enqueue_actions
    <2>. QED  BY <2>1 DEF TypeOK, LoopTypeOK
<1>. QED  BY <1>3, <1>4, <1>5, <1>6, <1>7 DEF TypeOK

(* The first half of a visit to a device.                                  *)
LEMMA VisitType ==
    ASSUME TypeOK, NEW d \in Devs, Visit(d)
    PROVE  TypeOK'
<1>1. acts[d] \in Seq(Action(d)) /\ enqueue_login(d, acts[d]) \in Seq(Action(d))
    BY EnqueueLoginType DEF TypeOK, QueueTypeOK
<1>2. {} \in SUBSET Timers
    OBVIOUS
<1>3. CASE VisitUnconnected(d)
    <2>1. PICK r \in reconnect(d, acts[d]) :
             Reconnected(d, r) /\ enqueue_ping(d, r.state, r.queue, r.timer)
        BY <1>3 DEF VisitUnconnected
    <2>2. r \in Outcome(d)
        BY <1>1, ReconnectType
    <2>3. r.queue \in Seq(Action(d)) /\ r.timer \in SUBSET Timers
        BY <2>2 DEF Outcome
    <2>4. /\ QueueTypeOK' /\ LoopTypeOK' /\ args' = args
          /\ ping' \in [Devs -> {"due", "waiting"}]
        BY <2>1, <2>3, EnqueuePingType
    <2>5. ConnTypeOK' /\ WireTypeOK'
        BY <2>1, <2>2, <2>4, ReconnectedConn, ReconnectedWire
    <2>6. CommandTypeOK'
        BY <1>3, <2>4 DEF VisitUnconnected, TypeOK, CommandTypeOK
    <2>. QED  BY <2>4, <2>5, <2>6 DEF TypeOK
<1>4. CASE VisitFinishConnect(d)
    <2>1. /\ QueueTypeOK' /\ LoopTypeOK' /\ args' = args
          /\ ping' \in [Devs -> {"due", "waiting"}]
        BY <1>1, <1>2, <1>4, EnqueuePingType DEF VisitFinishConnect
    <2>2. ConnTypeOK'
        BY <1>4, <2>1 DEF VisitFinishConnect, TypeOK, ConnTypeOK, Outcomes
    <2>3. WireTypeOK' /\ CommandTypeOK'
        BY <1>4, <2>1 DEF VisitFinishConnect, TypeOK, WireTypeOK, CommandTypeOK, bufs, wire
    <2>. QED  BY <2>1, <2>2, <2>3 DEF TypeOK
<1>5. CASE VisitConnected(d)
    <2>1. /\ QueueTypeOK' /\ LoopTypeOK' /\ args' = args
          /\ ping' \in [Devs -> {"due", "waiting"}]
        BY <1>1, <1>2, <1>5, EnqueuePingType DEF VisitConnected
    <2>2. ConnTypeOK'
        BY <1>5, <2>1 DEF VisitConnected, TypeOK, ConnTypeOK, conn
    <2>3. WireTypeOK'
        <3>1. /\ << >> \in Seq(Sent(d)) /\ << >> \in Seq(Line(d))
              /\ heard[d] \o to[d] \in Seq(Sent(d)) /\ from[d] \o rx[d] \in Seq(Line(d))
            BY DEF TypeOK, WireTypeOK
        <3>2. /\ to' = [ to EXCEPT ![d] = << >> ] /\ rx' = [ rx EXCEPT ![d] = << >> ]
              /\ from' = [ from EXCEPT ![d] = from[d] \o rx[d] ] /\ xmatch' = xmatch
              /\ heard' = heard \/ heard' = [ heard EXCEPT ![d] = heard[d] \o to[d] ]
            BY <1>5 DEF VisitConnected
        <3>. QED  BY <3>1, <3>2 DEF TypeOK, WireTypeOK
    <2>4. delivered' \in [Clients -> SUBSET (Devs \X Nat)]
        <3>1. CASE link[d] = "up"
            <4>. DEFINE more(c) == UNION { addressed(d, to[d][i]) :
                                     i \in { j \in DOMAIN to[d] : to[d][j].client = c } }
            <4>1. ASSUME NEW i \in DOMAIN to[d]
                  PROVE  addressed(d, to[d][i]) \subseteq Devs \X Nat
                <5>1. to[d][i] \in Sent(d)
                    BY DEF TypeOK, WireTypeOK
                <5>2. to[d][i].plugs \in SUBSET Plugs(d)
                    BY <5>1 DEF Sent
                <5>3. to[d][i].plugs \subseteq Nat /\ Plugs(d) \subseteq Nat
                    BY <5>2, PlugsFinite
                <5>. QED  BY <5>3 DEF addressed
            <4>2. \A c \in Clients : more(c) \subseteq Devs \X Nat
                BY <4>1
            <4>3. delivered' = [ c \in Clients |-> delivered[c] \cup more(c) ]
                BY <1>5, <3>1 DEF VisitConnected
            <4>. HIDE DEF more
            <4>. QED  BY <4>2, <4>3 DEF TypeOK, CommandTypeOK
        <3>2. CASE link[d] # "up"
            BY <1>5, <3>2 DEF VisitConnected, TypeOK, CommandTypeOK
        <3>. QED  BY <3>1, <3>2
    <2>5. CommandTypeOK'
        BY <1>5, <2>1, <2>4 DEF VisitConnected, TypeOK, CommandTypeOK
    <2>. QED  BY <2>1, <2>2, <2>3, <2>5 DEF TypeOK
<1>6. CASE VisitConnecting(d)
    <2>1. /\ QueueTypeOK' /\ LoopTypeOK' /\ args' = args
          /\ ping' \in [Devs -> {"due", "waiting"}]
        BY <1>1, <1>2, <1>6, EnqueuePingType DEF VisitConnecting
    <2>2. ConnTypeOK'
        BY <1>6, <2>1 DEF VisitConnecting, TypeOK, ConnTypeOK, conn
    <2>3. WireTypeOK' /\ CommandTypeOK'
        BY <1>6, <2>1 DEF VisitConnecting, TypeOK, WireTypeOK, CommandTypeOK, bufs, wire
    <2>. QED  BY <2>1, <2>2, <2>3 DEF TypeOK
<1>. QED  BY <1>3, <1>4, <1>5, <1>6 DEF Visit

(* Statements: the interpreter leaves well formed queues and buffers.      *)
LEMMA SendType ==
    ASSUME TypeOK, NEW d \in Devs, process_send(d)
    PROVE  TypeOK'
<1>. DEFINE e == top(d)
            set(b) == set_top(head(d).exec, [ e EXCEPT !.processing = b ])
            sent == [ com |-> head(d).com, client |-> head(d).client,
                      plugs |-> e.plugs, arg |-> cur_stmt(e).arg ]
            written == IF e.processing THEN to[d] ELSE Append(to[d], sent)
<1>1. acts[d] # << >> /\ cur_stmt(e).type = "send"
    BY DEF process_send, Executes
<1>2. /\ head(d) \in Action(d) /\ head(d).exec \in Stacks(Plugs(d))
      /\ e \in ExecCtx(Plugs(d)) /\ IsStmt(cur_stmt(e))
    BY <1>1, HeadType DEF TypeOK
<1>3. \A b \in BOOLEAN : set(b) \in Stacks(Plugs(d))
    BY <1>2, CtxType, SetTopType
<1>4. [ head(d) EXCEPT !.exec = set(TRUE) ] \in Action(d)
    <2>. HIDE DEF set
    <2>. QED  BY <1>2, <1>3 DEF Action
<1>5. ConnTypeOK' /\ QueueTypeOK' /\ LoopTypeOK'
    <2>1. CASE written = << >>
        <3>1. Finish(d, set(FALSE))
            BY <2>1 DEF process_send
        <3>. QED  BY <1>1, <1>3, <3>1, FinishType
    <2>2. CASE written # << >>
        <3>1. Stall(d, [ head(d) EXCEPT !.exec = set(TRUE) ], {})
            BY <1>2, <2>2 DEF process_send
        <3>. QED  BY <1>1, <1>4, <3>1, StallType
    <2>. QED  BY <2>1, <2>2
<1>6. WireTypeOK'
    <2>1. sent \in Sent(d)
        <3>1. head(d).com \in Coms /\ head(d).client \in Callers
            BY <1>2, DeviceAssumption DEF Action
        <3>2. e.plugs \in SUBSET Plugs(d) /\ cur_stmt(e).arg \in Replies
            BY <1>1, <1>2 DEF ExecCtx, IsStmt
        <3>. QED  BY <3>1, <3>2 DEF Sent
    <2>2. written \in Seq(Sent(d))
        <3>. HIDE DEF sent
        <3>. QED  BY <2>1 DEF TypeOK, WireTypeOK
    <2>3. to' = [ to EXCEPT ![d] = written ]
        BY DEF process_send
    <2>. HIDE DEF written
    <2>. QED  BY <2>2, <2>3 DEF process_send, TypeOK, WireTypeOK, wire
<1>7. CommandTypeOK'
    BY DEF process_send, TypeOK, CommandTypeOK, wire
<1>. QED  BY <1>5, <1>6, <1>7 DEF TypeOK

(* An expect moves the lines its regex spans from the input to the match.  *)
LEMMA ExpectType ==
    ASSUME TypeOK, NEW d \in Devs, process_expect(d)
    PROVE  TypeOK'
<1>1. acts[d] # << >>
    BY DEF process_expect, Executes
<1>2. head(d) \in Action(d) /\ head(d).exec \in Stacks(Plugs(d))
    BY <1>1, HeadType DEF TypeOK
<1>3. ConnTypeOK' /\ QueueTypeOK' /\ LoopTypeOK'
    <2>1. CASE Finish(d, head(d).exec)
        BY <1>1, <1>2, <2>1, FinishType
    <2>2. CASE Stall(d, head(d), {})
        BY <1>1, <1>2, <2>2, StallType
    <2>. QED  BY <2>1, <2>2 DEF process_expect
<1>4. WireTypeOK'
    <2>1. from[d] \in Seq(Line(d)) /\ << >> \in Seq(Line(d))
        BY DEF TypeOK, WireTypeOK
    <2>2. lines_spanned(d) \in Nat
        BY DeviceAssumption DEF lines_spanned
    <2>3. \A n \in 1..Len(from[d]) :
              /\ SubSeq(from[d], 1, n) \in Seq(Line(d))
              /\ SubSeq(from[d], n + 1, Len(from[d])) \in Seq(Line(d))
        BY <2>1
    <2>. QED  BY <2>1, <2>2, <2>3 DEF process_expect, TypeOK, WireTypeOK, wire
<1>5. CommandTypeOK'
    BY DEF process_expect, TypeOK, CommandTypeOK, wire
<1>. QED  BY <1>3, <1>4, <1>5 DEF TypeOK

(* A delay starts its timer, waits for it, or is done.                     *)
LEMMA DelayType ==
    ASSUME TypeOK, NEW d \in Devs, process_delay(d)
    PROVE  TypeOK'
<1>. DEFINE e == top(d)
            set(b) == set_top(head(d).exec, [ e EXCEPT !.processing = b ])
            start == IF e.processing THEN head(d).delay_start ELSE "running"
            stalled == [ head(d) EXCEPT !.delay_start = start, !.exec = set(TRUE) ]
<1>1. acts[d] # << >>
    BY DEF process_delay, Executes
<1>2. /\ head(d) \in Action(d) /\ head(d).exec \in Stacks(Plugs(d))
      /\ e \in ExecCtx(Plugs(d))
    BY <1>1, HeadType DEF TypeOK
<1>3. \A b \in BOOLEAN : set(b) \in Stacks(Plugs(d))
    BY <1>2, CtxType, SetTopType
<1>4. start \in Timer
    BY <1>2 DEF Action, Timer
<1>5. stalled \in Action(d)
    <2>. HIDE DEF set, start
    <2>. QED  BY <1>2, <1>3, <1>4 DEF Action
<1>6. { << "delay", d >> } \in SUBSET Timers
    BY DEF Timers
<1>7. ConnTypeOK' /\ QueueTypeOK' /\ LoopTypeOK'
    <2>1. CASE start = "expired"
        <3>1. Finish(d, set(FALSE))
            BY <2>1 DEF process_delay
        <3>. QED  BY <1>1, <1>3, <3>1, FinishType
    <2>2. CASE start # "expired"
        <3>1. Stall(d, stalled, { << "delay", d >> })
            BY <1>2, <2>2 DEF process_delay, Action
        <3>. QED  BY <1>1, <1>5, <1>6, <3>1, StallType
    <2>. QED  BY <2>1, <2>2
<1>8. WireTypeOK' /\ CommandTypeOK'
    BY DEF process_delay, TypeOK, WireTypeOK, CommandTypeOK, bufs, wire
<1>. QED  BY <1>7, <1>8 DEF TypeOK

(* A setplugstate changes what a command knows of nodes, to a state.       *)
LEMMA SetplugstateType ==
    ASSUME TypeOK, NEW d \in Devs, process_setplugstate(d)
    PROVE  TypeOK'
<1>1. acts[d] # << >> /\ Finish(d, head(d).exec)
    BY DEF process_setplugstate, Executes
<1>2. ConnTypeOK' /\ QueueTypeOK' /\ LoopTypeOK'
    BY <1>1, HeadType, FinishType DEF TypeOK
<1>3. WireTypeOK'
    BY DEF process_setplugstate, TypeOK, WireTypeOK, bufs, wire
<1>4. \A l : interp(l) \in {"none", "unknown", "on", "off"}
    BY DEF interp
<1>5. CommandTypeOK'
    BY <1>4 DEF process_setplugstate, TypeOK, CommandTypeOK, wire
<1>. QED  BY <1>2, <1>3, <1>5 DEF TypeOK

(* A foreach pushes a context for one plug, or is done.                    *)
LEMMA ForeachType ==
    ASSUME TypeOK, NEW d \in Devs, process_foreach(d)
    PROVE  TypeOK'
<1>. DEFINE e == top(d)
            set(p) == set_top(head(d).exec, [ e EXCEPT !.plugitr = p ])
            inner(p) == create_exec_ctx(cur_stmt(e).body, {p})
<1>1. acts[d] # << >> /\ cur_stmt(e).type \in Compound
    BY DEF process_foreach, Executes, Compound
<1>2. /\ head(d).exec \in Stacks(Plugs(d))
      /\ e \in ExecCtx(Plugs(d)) /\ IsStmt(cur_stmt(e))
    BY <1>1, HeadType DEF TypeOK
<1>3. \A p \in Nat : set(p) \in Stacks(Plugs(d))
    BY <1>2, CtxType, SetTopType
<1>4. ConnTypeOK' /\ QueueTypeOK' /\ LoopTypeOK'
    <2>1. ASSUME NEW p \in plugs_left(d, e), GoOn(d, << inner(p) >> \o set(p))
          PROVE  ConnTypeOK' /\ QueueTypeOK' /\ LoopTypeOK'
        <3>1. p \in Plugs(d) /\ p \in Nat
            BY PlugsFinite DEF plugs_left
        <3>2. inner(p) \in ExecCtx(Plugs(d))
            BY <1>1, <1>2, <3>1, CreateCtxType DEF IsStmt
        <3>3. << inner(p) >> \o set(p) \in Stacks(Plugs(d))
            <4>1. set(p) \in Seq(ExecCtx(Plugs(d)))
                BY <1>3, <3>1 DEF Stacks
            <4>. QED  BY <3>2, <4>1, PushType
        <3>. QED  BY <1>1, <2>1, <3>3, GoOnType
    <2>2. CASE Finish(d, set(0))
        BY <1>1, <1>3, <2>2, FinishType
    <2>. QED  BY <2>1, <2>2 DEF process_foreach
<1>5. WireTypeOK' /\ CommandTypeOK'
    BY DEF process_foreach, TypeOK, WireTypeOK, CommandTypeOK, bufs, wire
<1>. QED  BY <1>4, <1>5 DEF TypeOK

(* An if pushes a context for the plugs it has, is done, or fails.         *)
LEMMA IfonoffType ==
    ASSUME TypeOK, NEW d \in Devs, process_ifonoff(d)
    PROVE  TypeOK'
<1>. DEFINE e == top(d)
            set(b) == set_top(head(d).exec, [ e EXCEPT !.processing = b ])
            inner == create_exec_ctx(cur_stmt(e).body, e.plugs)
            push == << inner >> \o set(TRUE)
<1>1. acts[d] # << >> /\ cur_stmt(e).type \in Compound
    BY DEF process_ifonoff, Executes, Compound
<1>2. /\ head(d).exec \in Stacks(Plugs(d))
      /\ e \in ExecCtx(Plugs(d)) /\ IsStmt(cur_stmt(e))
    BY <1>1, HeadType DEF TypeOK
<1>3. \A b \in BOOLEAN : set(b) \in Stacks(Plugs(d))
    BY <1>2, CtxType, SetTopType
<1>4. push \in Stacks(Plugs(d))
    <2>1. cur_stmt(e).body \in DOMAIN Block /\ e.plugs \in SUBSET Plugs(d)
        BY <1>1, <1>2 DEF IsStmt, ExecCtx
    <2>3. inner \in ExecCtx(Plugs(d))
        BY <2>1, CreateCtxType
    <2>2. set(TRUE) \in Seq(ExecCtx(Plugs(d)))
        BY <1>3 DEF Stacks
    <2>. QED  BY <2>2, <2>3, PushType
<1>5. CASE Fail(d, "EEXPFAIL")
    BY <1>5, FailType DEF ActErrors
<1>6. CASE UNCHANGED << bufs, args, wire >>
           /\ (Finish(d, set(FALSE)) \/ Finish(d, head(d).exec) \/ GoOn(d, push))
    <2>1. ConnTypeOK' /\ QueueTypeOK' /\ LoopTypeOK'
        BY <1>1, <1>2, <1>3, <1>4, <1>6, FinishType, GoOnType
    <2>2. WireTypeOK' /\ CommandTypeOK'
        BY <1>6 DEF TypeOK, WireTypeOK, CommandTypeOK, bufs, wire
    <2>. QED  BY <2>1, <2>2 DEF TypeOK
<1>. QED  BY <1>5, <1>6 DEF process_ifonoff

(* The second half of a visit.                                             *)
LEMMA ProcessType ==
    ASSUME TypeOK, NEW d \in Devs, Process(d)
    PROVE  TypeOK'
<1>1. CASE ProcessIdle(d)
    <2>1. cur' \in Devs /\ phase' \in {"start", "poll", "ready"}
        BY <1>1, NextDeviceType DEF ProcessIdle, TypeOK
    <2>2. LoopTypeOK'
        BY <1>1, <2>1 DEF ProcessIdle, TypeOK, LoopTypeOK
    <2>. QED  BY <1>1, <2>2 DEF ProcessIdle, TypeOK, ConnTypeOK, QueueTypeOK,
                 WireTypeOK, CommandTypeOK, conn, bufs, wire
<1>2. CASE ProcessTimeout(d)
    <2>1. PICK err \in ActErrors : Fail(d, err)
        BY <1>2 DEF ProcessTimeout, ActErrors
    <2>. QED  BY <2>1, FailType
<1>3. CASE ProcessUnconnected(d)
    <2>1. ConnTypeOK' /\ QueueTypeOK' /\ LoopTypeOK'
        BY <1>3, HeadType, StallType DEF ProcessUnconnected, TypeOK
    <2>. QED  BY <1>3, <2>1 DEF ProcessUnconnected, TypeOK, WireTypeOK, CommandTypeOK,
                 bufs, wire
<1>4. CASE Statement(d)
    BY <1>4, SendType, ExpectType, DelayType, SetplugstateType, ForeachType, IfonoffType
       DEF Statement
<1>. QED  BY <1>1, <1>2, <1>3, <1>4 DEF Process

(* The network and the devices.                                            *)
LEMMA NetworkType ==
    ASSUME TypeOK, NEW d \in Devs, Network(d)
    PROVE  TypeOK'
<1>1. CASE LinkOpens(d)
    <2>1. ConnTypeOK'
        BY <1>1 DEF LinkOpens, Environment, TypeOK, ConnTypeOK, Links
    <2>2. LoopTypeOK'
        BY <1>1 DEF LinkOpens, Environment, TypeOK, LoopTypeOK
    <2>. QED  BY <1>1, <2>1, <2>2 DEF LinkOpens, Environment, TypeOK, QueueTypeOK,
                 WireTypeOK, CommandTypeOK, bufs
<1>2. CASE LinkDrops(d)
    <2>1. ConnTypeOK'
        BY <1>2, DeviceAssumption DEF LinkDrops, Environment, TypeOK, ConnTypeOK, Links
    <2>2. LoopTypeOK'
        BY <1>2 DEF LinkDrops, Environment, TypeOK, LoopTypeOK
    <2>3. WireTypeOK'
        <3>1. << >> \in Seq(Sent(d)) /\ << >> \in Seq(Line(d))
            OBVIOUS
        <3>2. /\ heard' = [ heard EXCEPT ![d] = << >> ]
              /\ to' = to /\ from' = from /\ xmatch' = xmatch
              /\ rx' = [ rx EXCEPT ![d] = << >> ] \/ rx' = [ rx EXCEPT ![d] = rx[d] ]
            BY <1>2 DEF LinkDrops, Environment, bufs
        <3>. QED  BY <3>1, <3>2 DEF TypeOK, WireTypeOK
    <2>. QED  BY <1>2, <2>1, <2>2, <2>3 DEF LinkDrops, Environment, TypeOK, QueueTypeOK,
                 CommandTypeOK
<1>3. CASE Answers(d)
    <2>. DEFINE t == Head(heard[d])
                line(p, st) == [ com |-> t.com, client |-> t.client, plug |-> p, state |-> st ]
    <2>1. heard[d] \in Seq(Sent(d)) /\ heard[d] # << >> /\ rx[d] \in Seq(Line(d))
        BY <1>3 DEF Answers, TypeOK, WireTypeOK
    <2>2. t \in Sent(d) /\ Tail(heard[d]) \in Seq(Sent(d))
        BY <2>1
    <2>3. \A p \in Plugs(d) \cup {0}, st \in PlugStates \cup {"done"} : line(p, st) \in Line(d)
        BY <2>2 DEF Sent, Line
    <2>4. Plugs(d) = 1..Len(PlugNode[d]) /\ Len(PlugNode[d]) \in Nat
        BY DeviceAssumption DEF Plugs
    <2>5. \E lines \in Seq(Line(d)) : rx' = [ rx EXCEPT ![d] = lines ]
        <3>1. CASE t.arg = "ack"
            <4>1. rx' = [ rx EXCEPT ![d] = Append(rx[d], line(0, "done")) ]
                BY <1>3, <3>1 DEF Answers
            <4>2. line(0, "done") \in Line(d)
                BY <2>3
            <4>. HIDE DEF line
            <4>3. Append(rx[d], line(0, "done")) \in Seq(Line(d))
                BY <2>1, <4>2
            <4>. QED  BY <4>1, <4>3
        <3>2. CASE t.arg = "one"
            <4>1. PICK p \in t.plugs, st \in PlugStates :
                     rx' = [ rx EXCEPT ![d] = Append(rx[d], line(p, st)) ]
                BY <1>3, <3>2 DEF Answers
            <4>2. line(p, st) \in Line(d)
                BY <2>2, <2>3 DEF Sent
            <4>. HIDE DEF line
            <4>3. Append(rx[d], line(p, st)) \in Seq(Line(d))
                BY <2>1, <4>2
            <4>. QED  BY <4>1, <4>3
        <3>3. CASE t.arg = "each"
            <4>1. PICK sts \in [ Plugs(d) -> PlugStates ] :
                     rx' = [ rx EXCEPT ![d] = rx[d] \o [ p \in Plugs(d) |-> line(p, sts[p]) ] ]
                BY <1>3, <3>3 DEF Answers
            <4>2. \A p \in Plugs(d) : line(p, sts[p]) \in Line(d)
                BY <2>3
            <4>. HIDE DEF line
            <4>3. [ p \in Plugs(d) |-> line(p, sts[p]) ] \in Seq(Line(d))
                BY <2>4, <4>2
            <4>4. rx[d] \o [ p \in Plugs(d) |-> line(p, sts[p]) ] \in Seq(Line(d))
                BY <2>1, <4>3
            <4>. QED  BY <4>1, <4>4
        <3>. QED  BY <2>2, <3>1, <3>2, <3>3 DEF Sent, Replies
    <2>6. WireTypeOK'
        <3>1. heard' = [ heard EXCEPT ![d] = Tail(heard[d]) ]
              /\ to' = to /\ from' = from /\ xmatch' = xmatch
            BY <1>3 DEF Answers, Environment, bufs
        <3>. QED  BY <2>2, <2>5, <3>1 DEF TypeOK, WireTypeOK
    <2>7. answered' \in [Clients -> SUBSET (Devs \X Nat \X PlugStates)]
        <3>1. CASE answered' = answered
            BY <3>1 DEF TypeOK, CommandTypeOK
        <3>2. ASSUME NEW S \in SUBSET (Devs \X Nat \X PlugStates),
                     answered' = [ c \in Clients |->
                         IF c = t.client THEN answered[c] \cup S ELSE answered[c] ]
              PROVE  answered' \in [Clients -> SUBSET (Devs \X Nat \X PlugStates)]
            BY <3>2 DEF TypeOK, CommandTypeOK
        <3>3. CASE t.arg = "one"
            <4>1. PICK p \in t.plugs, st \in PlugStates :
                     answered' = [ c \in Clients |->
                         IF c = t.client THEN answered[c] \cup {<< d, p, st >>} ELSE answered[c] ]
                BY <1>3, <3>3 DEF Answers
            <4>2. p \in Nat
                BY <2>2, <2>4 DEF Sent
            <4>3. {<< d, p, st >>} \in SUBSET (Devs \X Nat \X PlugStates)
                BY <4>2
            <4>. QED  BY <3>2, <4>1, <4>3
        <3>4. CASE t.arg = "each"
            <4>1. PICK sts \in [ Plugs(d) -> PlugStates ] :
                     answered' = [ c \in Clients |->
                         IF c = t.client THEN answered[c] \cup { << d, p, sts[p] >> : p \in Plugs(d) }
                                         ELSE answered[c] ]
                BY <1>3, <3>4 DEF Answers
            <4>2. { << d, p, sts[p] >> : p \in Plugs(d) } \in SUBSET (Devs \X Nat \X PlugStates)
                BY <2>4
            <4>. QED  BY <3>2, <4>1, <4>2
        <3>5. t.arg = "ack" => answered' = answered
            BY <1>3 DEF Answers
        <3>. QED  BY <2>2, <3>1, <3>3, <3>4, <3>5 DEF Sent, Replies
    <2>8. CommandTypeOK'
        BY <1>3, <2>7 DEF Answers, Environment, TypeOK, CommandTypeOK
    <2>9. LoopTypeOK'
        BY <1>3 DEF Answers, Environment, TypeOK, LoopTypeOK
    <2>. QED  BY <1>3, <2>6, <2>8, <2>9 DEF Answers, Environment, TypeOK, ConnTypeOK,
                 QueueTypeOK
<1>. QED  BY <1>1, <1>2, <1>3 DEF Network

(* The passing of time.                                                    *)
LEMMA TimeType ==
    ASSUME TypeOK, NEW d \in Devs, Time(d)
    PROVE  TypeOK'
<1>1. Clock(d)
    BY DEF Time, StampExpires, DelayExpires, RetryExpires, PingFallsDue
<1>2. WireTypeOK' /\ CommandTypeOK' /\ LoopTypeOK'
    BY <1>1 DEF Clock, Environment, TypeOK, WireTypeOK, CommandTypeOK, LoopTypeOK, bufs
<1>3. ConnTypeOK'
    BY <1>1 DEF Time, StampExpires, DelayExpires, RetryExpires, PingFallsDue,
       Clock, Environment, TypeOK, ConnTypeOK
<1>4. QueueTypeOK'
    <2>1. CASE StampExpires(d)
        <3>1. PICK i \in DOMAIN acts[d] : acts' = [ acts EXCEPT ![d][i].time_stamp = "expired" ]
            BY <2>1 DEF StampExpires
        <3>2. acts[d] \in Seq(Action(d)) /\ acts[d][i] \in Action(d)
            BY DEF TypeOK, QueueTypeOK
        <3>3. [ acts[d][i] EXCEPT !.time_stamp = "expired" ] \in Action(d)
            BY <3>2 DEF Action, Timer
        <3>4. [ acts[d] EXCEPT ![i].time_stamp = "expired" ] \in Seq(Action(d))
            BY <3>2, <3>3
        <3>. QED  BY <3>1, <3>4 DEF TypeOK, QueueTypeOK
    <2>2. CASE DelayExpires(d)
        <3>1. PICK i \in DOMAIN acts[d] : acts' = [ acts EXCEPT ![d][i].delay_start = "expired" ]
            BY <2>2 DEF DelayExpires
        <3>2. acts[d] \in Seq(Action(d)) /\ acts[d][i] \in Action(d)
            BY DEF TypeOK, QueueTypeOK
        <3>3. [ acts[d][i] EXCEPT !.delay_start = "expired" ] \in Action(d)
            BY <3>2 DEF Action, Timer
        <3>4. [ acts[d] EXCEPT ![i].delay_start = "expired" ] \in Seq(Action(d))
            BY <3>2, <3>3
        <3>. QED  BY <3>1, <3>4 DEF TypeOK, QueueTypeOK
    <2>3. CASE RetryExpires(d) \/ PingFallsDue(d)
        BY <2>3 DEF RetryExpires, PingFallsDue, TypeOK, QueueTypeOK
    <2>. QED  BY <2>1, <2>2, <2>3 DEF Time
<1>. QED  BY <1>2, <1>3, <1>4 DEF TypeOK

(* Every step keeps the types.                                             *)
LEMMA TypeStep ==
    ASSUME TypeOK, [Next]_vars
    PROVE  TypeOK'
<1>1. CASE dev_initial_connect
    BY <1>1, InitialConnectType
<1>2. CASE PollReturns
    <2>1. LoopTypeOK'
        BY <1>2 DEF PollReturns, TypeOK, LoopTypeOK
    <2>. QED  BY <1>2, <2>1 DEF PollReturns, TypeOK, ConnTypeOK, QueueTypeOK,
                 WireTypeOK, CommandTypeOK, conn, bufs, wire
<1>3. CASE ClientCommand
    BY <1>3, ClientCommandType
<1>4. CASE ClientsDone
    <2>1. LoopTypeOK'
        BY <1>4 DEF ClientsDone, TypeOK, LoopTypeOK
    <2>. QED  BY <1>4, <2>1 DEF ClientsDone, TypeOK, ConnTypeOK, QueueTypeOK,
                 WireTypeOK, CommandTypeOK, conn, bufs, wire
<1>5. ASSUME NEW d \in Devs, Visit(d) \/ Process(d) \/ Network(d) \/ Time(d)
      PROVE  TypeOK'
    BY <1>5, VisitType, ProcessType, NetworkType, TimeType
<1>6. CASE UNCHANGED vars
    BY <1>6 DEF vars, conn, bufs, wire, TypeOK, ConnTypeOK, QueueTypeOK, WireTypeOK,
       CommandTypeOK, LoopTypeOK
<1>. QED  BY <1>1, <1>2, <1>3, <1>4, <1>5, <1>6 DEF Next

(* The daemon starts with everything of its type.                          *)
LEMMA TypeInit ==
    ASSUME Init
    PROVE  TypeOK
<1>1. 1 \in Devs
    BY DeviceAssumption DEF Devs
<1>2. ConnTypeOK
    BY DEF Init, ConnTypeOK, Outcomes, Links
<1>3. \A d \in Devs : acts[d] = << >> /\ to[d] = << >> /\ from[d] = << >>
                       /\ xmatch[d] = << >> /\ heard[d] = << >> /\ rx[d] = << >>
    BY DEF Init
<1>4. QueueTypeOK /\ WireTypeOK
    BY <1>3 DEF Init, QueueTypeOK, WireTypeOK
<1>5. CommandTypeOK
    BY DEF Init, CommandTypeOK
<1>6. LoopTypeOK
    BY <1>1 DEF Init, LoopTypeOK
<1>. QED  BY <1>2, <1>4, <1>5, <1>6 DEF TypeOK

(* Everything keeps its type: no statement runs past the end of its block, *)
(* no script is missing, and no plug is one the device does not have.      *)
THEOREM TypeCorrect == Spec => []TypeOK
<1>1. Init => TypeOK
    BY TypeInit
<1>2. TypeOK /\ [Next]_vars => TypeOK'
    BY TypeStep
<1>. QED  BY <1>1, <1>2, PTL DEF Spec

(***************************************************************************)
(* The login comes first                                                   *)
(***************************************************************************)

(* LoginFirst, device by device.                                           *)
LoginOK(d) ==
    /\ LoginAt(acts[d], connect_state[d] = "CONNECTED" /\ ~logged_in[d])
    /\ logged_in[d] => connect_state[d] = "CONNECTED"

(* LoginFirst, device by device.                                           *)
LEMMA LoginFirstOK == LoginFirst <=> \A d \in Devs : LoginOK(d)
BY DEF LoginFirst, LoginOK, LoginAt

(* A queue that is empty, that grows by actions that are not logins, or    *)
(* that loses its head.                                                    *)
LEMMA LoginAtEmpty == LoginAt(<< >>, FALSE)
BY DEF LoginAt

(* Appending what is no login to a queue keeps the login where it is.      *)
LEMMA LoginAtAppend ==
    ASSUME NEW d \in Devs, NEW q \in Seq(Action(d)), NEW s \in Seq(Action(d)),
           NEW b \in BOOLEAN, LoginAt(q, b), NoLogin(s)
    PROVE  LoginAt(q \o s, b)
<1>1. /\ Len(q \o s) = Len(q) + Len(s) /\ Len(q) \in Nat /\ Len(s) \in Nat
      /\ \A i \in 1..Len(q) : (q \o s)[i] = q[i]
      /\ \A i \in Len(q)+1..Len(q)+Len(s) : (q \o s)[i] = s[i - Len(q)]
    OBVIOUS
<1>2. \A i \in Len(q)+1..Len(q)+Len(s) : (q \o s)[i].com # "login"
    <2>1. \A i \in Len(q)+1..Len(q)+Len(s) : i - Len(q) \in 1..Len(s)
        BY <1>1
    <2>. QED  BY <1>1, <2>1 DEF NoLogin
<1>3. \A i \in 2..Len(q \o s) : (q \o s)[i].com # "login"
    <2>. SUFFICES ASSUME NEW i \in 2..Len(q \o s) PROVE (q \o s)[i].com # "login"
        OBVIOUS
    <2>1. CASE i \in 1..Len(q)
        BY <1>1, <2>1 DEF LoginAt
    <2>2. CASE i \in Len(q)+1..Len(q)+Len(s)
        BY <1>2, <2>2
    <2>. QED  BY <1>1, <2>1, <2>2
<1>4. CASE q = << >>
    <2>1. q \o s = s /\ (s # << >> => Head(s) = s[1] /\ 1 \in 1..Len(s))
        BY <1>4
    <2>. QED  BY <1>3, <1>4, <2>1 DEF LoginAt, NoLogin
<1>5. CASE q # << >>
    <2>1. q \o s # << >> /\ Head(q \o s) = Head(q)
        BY <1>5
    <2>. QED  BY <1>3, <1>5, <2>1 DEF LoginAt
<1>. QED  BY <1>4, <1>5

(* A queue without its head has no login.                                  *)
LEMMA LoginAtTail ==
    ASSUME NEW d \in Devs, NEW q \in Seq(Action(d)), q # << >>,
           NEW b \in BOOLEAN, LoginAt(q, b)
    PROVE  LoginAt(Tail(q), FALSE)
<1>1. Len(Tail(q)) = Len(q) - 1 /\ Len(q) \in Nat
      /\ \A i \in 1..(Len(q) - 1) : Tail(q)[i] = q[i+1]
    OBVIOUS
<1>2. \A i \in 1..Len(Tail(q)) : Tail(q)[i].com # "login"
    BY <1>1 DEF LoginAt
<1>3. Tail(q) # << >> => Head(Tail(q)) = Tail(q)[1] /\ 1 \in 1..Len(Tail(q))
    OBVIOUS
<1>. QED  BY <1>2, <1>3 DEF LoginAt

(* A queue whose actions change, but not what they are for.                *)
LEMMA LoginAtSame ==
    ASSUME NEW d \in Devs, NEW q \in Seq(Action(d)), NEW r \in Seq(Action(d)),
           NEW b \in BOOLEAN, LoginAt(q, b), Len(r) = Len(q),
           \A i \in 1..Len(q) : r[i].com = q[i].com
    PROVE  LoginAt(r, b)
<1>1. Len(q) \in Nat /\ (q = << >> <=> r = << >>)
    OBVIOUS
<1>2. q # << >> => Head(r).com = Head(q).com
    OBVIOUS
<1>. QED  BY <1>1, <1>2 DEF LoginAt

(* Another head that is for the same command changes nothing.              *)
LEMMA LoginAtRequeue ==
    ASSUME QueueTypeOK, NEW d \in Devs, acts[d] # << >>,
           NEW act \in Action(d), act.com = Head(acts[d]).com, acts' = requeue(d, act),
           NEW b \in BOOLEAN, LoginAt(acts[d], b)
    PROVE  LoginAt(acts'[d], b)
<1>. DEFINE q == acts[d]
            r == << act >> \o Tail(q)
<1>1. q \in Seq(Action(d)) /\ acts'[d] = r
    BY DEF QueueTypeOK, requeue
<1>2. r \in Seq(Action(d)) /\ Len(r) = Len(q)
      /\ \A i \in 1..Len(q) : r[i] = IF i = 1 THEN act ELSE q[i]
    BY <1>1
<1>3. \A i \in 1..Len(q) : r[i].com = q[i].com
    BY <1>1, <1>2
<1>. HIDE DEF q, r
<1>. QED  BY <1>1, <1>2, <1>3, LoginAtSame DEF q

(* What an action must do to the device d it is about.                     *)
LEMMA OneDevice ==
    ASSUME TypeOK, LoginFirst, NEW d \in Devs, LoginOK(d)',
           \A e \in Devs \ {d} : /\ acts'[e] = acts[e] /\ logged_in'[e] = logged_in[e]
                                 /\ connect_state'[e] = connect_state[e]
    PROVE  LoginFirst'
<1>1. \A e \in Devs : LoginOK(e)
    BY LoginFirstOK
<1>2. \A e \in Devs : LoginOK(e)'
    BY <1>1 DEF LoginOK, LoginAt
<1>. QED  BY <1>2 DEF LoginFirst, LoginOK, LoginAt

(* A step that changes none of the three.                                  *)
LEMMA SameLogin ==
    ASSUME LoginFirst, acts' = acts, connect_state' = connect_state, logged_in' = logged_in
    PROVE  LoginFirst'
BY DEF LoginFirst

(* A step that changes actions in place.                                   *)
LEMMA SameQueue ==
    ASSUME TypeOK, LoginFirst, NEW d \in Devs, NEW r \in Seq(Action(d)),
           Len(r) = Len(acts[d]), \A i \in 1..Len(acts[d]) : r[i].com = acts[d][i].com,
           acts' = [ acts EXCEPT ![d] = r ],
           connect_state' = connect_state, logged_in' = logged_in
    PROVE  LoginFirst'
<1>. DEFINE b == connect_state[d] = "CONNECTED" /\ ~logged_in[d]
<1>1. LoginAt(acts[d], b) /\ LoginOK(d)
    BY LoginFirstOK DEF LoginOK
<1>2. acts[d] \in Seq(Action(d)) /\ acts'[d] = r /\ b \in BOOLEAN
    BY DEF TypeOK, QueueTypeOK
<1>3. LoginAt(r, b)
    BY <1>1, <1>2, LoginAtSame
<1>4. LoginOK(d)'
    BY <1>1, <1>2, <1>3 DEF LoginOK, LoginAt
<1>. QED  BY <1>4, OneDevice DEF TypeOK, QueueTypeOK

(* Going on with the head, for the same command, moves no login.           *)
LEMMA GoOnLogin ==
    ASSUME TypeOK, LoginFirst, NEW d \in Devs, acts[d] # << >>,
           NEW act \in Action(d), act.com = Head(acts[d]).com, acts' = requeue(d, act),
           connect_state' = connect_state, logged_in' = logged_in
    PROVE  LoginFirst'
<1>. DEFINE b == connect_state[d] = "CONNECTED" /\ ~logged_in[d]
<1>1. LoginAt(acts[d], b) /\ LoginOK(d) /\ b \in BOOLEAN
    BY LoginFirstOK DEF LoginOK
<1>2. LoginAt(acts'[d], b)
    BY <1>1, LoginAtRequeue DEF TypeOK
<1>3. LoginOK(d)'
    BY <1>1, <1>2 DEF LoginOK, LoginAt
<1>. QED  BY <1>3, OneDevice DEF TypeOK, QueueTypeOK, requeue

(* An action that is done leaves the queue: the login, by logging in.      *)
LEMMA FinishLogin ==
    ASSUME TypeOK, LoginFirst, NEW d \in Devs, acts[d] # << >>,
           connect_state[d] = "CONNECTED",
           NEW exec \in Stacks(Plugs(d)), Finish(d, exec)
    PROVE  LoginFirst'
<1>1. CASE next_stmt(exec) # << >>
    <2>1. GoOn(d, next_stmt(exec))
        BY <1>1 DEF Finish
    <2>2. next_stmt(exec) \in Stacks(Plugs(d))
        BY <1>1, NextStmtType DEF Stacks
    <2>. DEFINE act == [ head(d) EXCEPT !.exec = next_stmt(exec) ]
    <2>3. act \in Action(d) /\ act.com = Head(acts[d]).com
        BY <2>2, HeadType DEF TypeOK, Action
    <2>4. acts' = requeue(d, act) /\ connect_state' = connect_state /\ logged_in' = logged_in
        BY <2>1 DEF GoOn, conn
    <2>. QED  BY <2>3, <2>4, GoOnLogin
<1>2. CASE next_stmt(exec) = << >>
    <2>1. /\ acts' = [ acts EXCEPT ![d] = Tail(@) ]
          /\ logged_in' = [ logged_in EXCEPT ![d] = @ \/ Head(acts[d]).com = "login" ]
          /\ connect_state' = connect_state
        BY <1>2 DEF Finish
    <2>2. LoginAt(acts[d], ~logged_in[d]) /\ logged_in[d] \in BOOLEAN
        BY LoginFirstOK DEF LoginOK, LoginAt, TypeOK, ConnTypeOK
    <2>3. LoginAt(Tail(acts[d]), FALSE)
        BY <2>2, LoginAtTail DEF TypeOK, QueueTypeOK
    <2>4. logged_in'[d]
        BY <2>1, <2>2 DEF LoginAt, TypeOK, ConnTypeOK
    <2>5. acts'[d] = Tail(acts[d]) /\ connect_state'[d] = "CONNECTED"
        BY <2>1 DEF TypeOK, QueueTypeOK
    <2>6. LoginOK(d)'
        BY <2>3, <2>4, <2>5 DEF LoginOK, LoginAt
    <2>. QED  BY <2>1, <2>6, OneDevice DEF TypeOK, QueueTypeOK, ConnTypeOK
<1>. QED  BY <1>1, <1>2

(* A reconnection leaves a queue with the login at its head, or nowhere.   *)
LEMMA ReconnectedLogin ==
    ASSUME TypeOK, LoginFirst, NEW d \in Devs, NEW q \in Seq(Action(d)),
           NEW b \in BOOLEAN, LoginAt(q, b), connect_state[d] = "NOT_CONNECTED" => ~b,
           NEW r \in reconnect(d, q), Reconnected(d, r)
    PROVE  /\ connect_state'[d] = r.state /\ ~logged_in'[d]
           /\ LoginAt(r.queue, r.state = "CONNECTED")
           /\ \A e \in Devs \ {d} : /\ connect_state'[e] = connect_state[e]
                                     /\ logged_in'[e] = logged_in[e]
<1>1. LoginAt(r.queue, r.state = "CONNECTED")
    BY ReconnectLogin
<1>2. connect_state' = [ connect_state EXCEPT ![d] = r.state ]
    BY DEF Reconnected
<1>3. CASE connect_state[d] # "NOT_CONNECTED"
    <2>1. logged_in' = [ logged_in EXCEPT ![d] = FALSE ]
        BY <1>3 DEF Reconnected
    <2>. QED  BY <1>1, <1>2, <2>1 DEF TypeOK, ConnTypeOK
<1>4. CASE connect_state[d] = "NOT_CONNECTED"
    <2>1. logged_in' = logged_in
        BY <1>4 DEF Reconnected
    <2>2. ~logged_in[d]
        BY <1>4, LoginFirstOK DEF LoginOK
    <2>. QED  BY <1>1, <1>2, <2>1, <2>2 DEF TypeOK, ConnTypeOK
<1>. QED  BY <1>3, <1>4

(* A failed head leaves an empty queue, or the login of a new connection.  *)
LEMMA FailLogin ==
    ASSUME TypeOK, LoginFirst, NEW d \in Devs, NEW err, Fail(d, err)
    PROVE  LoginFirst'
<1>0. << >> \in Seq(Action(d))
    OBVIOUS
<1>1. LoginAt(<< >>, FALSE)
    BY LoginAtEmpty
<1>2. CASE connect_state[d] = "CONNECTED"
    <2>1. PICK r \in reconnect(d, << >>) :
             Reconnected(d, r) /\ acts' = [ acts EXCEPT ![d] = r.queue ]
        BY <1>2 DEF Fail
    <2>2. /\ connect_state'[d] = r.state /\ ~logged_in'[d]
          /\ LoginAt(r.queue, r.state = "CONNECTED")
          /\ \A e \in Devs \ {d} : /\ connect_state'[e] = connect_state[e]
                                    /\ logged_in'[e] = logged_in[e]
        BY <1>0, <1>1, <1>2, <2>1, ReconnectedLogin
    <2>3. acts'[d] = r.queue /\ \A e \in Devs \ {d} : acts'[e] = acts[e]
        BY <2>1 DEF TypeOK, QueueTypeOK
    <2>4. LoginOK(d)'
        BY <2>2, <2>3 DEF LoginOK, LoginAt
    <2>. QED  BY <2>2, <2>3, <2>4, OneDevice
<1>3. CASE connect_state[d] # "CONNECTED"
    <2>1. /\ acts' = [ acts EXCEPT ![d] = << >> ]
          /\ connect_state' = connect_state /\ logged_in' = logged_in
        BY <1>3 DEF Fail, conn
    <2>2. acts'[d] = << >> /\ \A e \in Devs \ {d} : acts'[e] = acts[e]
        BY <2>1 DEF TypeOK, QueueTypeOK
    <2>3. ~logged_in[d]
        BY <1>3, LoginFirstOK DEF LoginOK
    <2>4. LoginOK(d)'
        BY <1>1, <1>3, <2>1, <2>2, <2>3 DEF LoginOK, LoginAt
    <2>. QED  BY <2>1, <2>2, <2>4, OneDevice
<1>. QED  BY <1>2, <1>3

(* A ping goes to the end of the queue.                                    *)
LEMMA EnqueuePingLogin ==
    ASSUME TypeOK, NEW d \in Devs, NEW state, NEW q \in Seq(Action(d)), NEW timer,
           NEW b \in BOOLEAN, LoginAt(q, b), enqueue_ping(d, state, q, timer)
    PROVE  LoginAt(acts'[d], b) /\ \A e \in Devs \ {d} : acts'[e] = acts[e]
<1>. DEFINE p == create_action(d, "ping", {}, NoClient)
<1>1. "ping" \in DOMAIN Scripts[d] => p \in Action(d)
    BY CreateActionType DEF Callers
<1>2. p.com # "login"
    BY DEF create_action
<1>3. /\ acts'[d] = q \/ ("ping" \in DOMAIN Scripts[d] /\ acts'[d] = Append(q, p))
      /\ \A e \in Devs \ {d} : acts'[e] = acts[e]
    BY DEF enqueue_ping, TypeOK, QueueTypeOK
<1>. HIDE DEF p
<1>4. "ping" \in DOMAIN Scripts[d] => LoginAt(Append(q, p), b)
    <2>. SUFFICES ASSUME "ping" \in DOMAIN Scripts[d] PROVE LoginAt(Append(q, p), b)
        OBVIOUS
    <2>1. << p >> \in Seq(Action(d)) /\ NoLogin(<< p >>)
        BY <1>1, <1>2 DEF NoLogin
    <2>2. Append(q, p) = q \o << p >>
        BY <1>1
    <2>. QED  BY <2>1, <2>2, LoginAtAppend
<1>. QED  BY <1>3, <1>4

(* LoginFirst is preserved by every step.                                  *)
LEMMA VisitLogin ==
    ASSUME TypeOK, LoginFirst, NEW d \in Devs, Visit(d)
    PROVE  LoginFirst'
<1>. DEFINE b == connect_state[d] = "CONNECTED" /\ ~logged_in[d]
<1>1. LoginOK(d) /\ LoginAt(acts[d], b) /\ b \in BOOLEAN
    BY LoginFirstOK DEF LoginOK
<1>2. acts[d] \in Seq(Action(d))
    BY DEF TypeOK, QueueTypeOK
<1>3. CASE VisitUnconnected(d)
    <2>1. PICK r \in reconnect(d, acts[d]) :
             Reconnected(d, r) /\ enqueue_ping(d, r.state, r.queue, r.timer)
        BY <1>3 DEF VisitUnconnected
    <2>2. /\ connect_state'[d] = r.state /\ ~logged_in'[d]
          /\ LoginAt(r.queue, r.state = "CONNECTED")
          /\ \A e \in Devs \ {d} : /\ connect_state'[e] = connect_state[e]
                                    /\ logged_in'[e] = logged_in[e]
        BY <1>1, <1>2, <2>1, ReconnectedLogin
    <2>3. r.queue \in Seq(Action(d))
        BY <1>2, ReconnectType DEF Outcome
    <2>4. /\ LoginAt(acts'[d], r.state = "CONNECTED")
          /\ \A e \in Devs \ {d} : acts'[e] = acts[e]
        BY <2>1, <2>2, <2>3, EnqueuePingLogin
    <2>5. LoginOK(d)'
        BY <2>2, <2>4 DEF LoginOK, LoginAt
    <2>. QED  BY <2>2, <2>4, <2>5, OneDevice
<1>4. CASE VisitFinishConnect(d)
    <2>. DEFINE q == enqueue_login(d, acts[d])
    <2>1. connect_state[d] # "CONNECTED" /\ ~logged_in[d]
        BY <1>1, <1>4 DEF VisitFinishConnect, LoginOK
    <2>2. NoLogin(acts[d])
        BY <1>1, <1>2, <2>1 DEF LoginAt, NoLogin
    <2>3. q \in Seq(Action(d)) /\ LoginAt(q, TRUE)
        BY <1>2, <2>2, EnqueueLoginType, EnqueueLoginFirst
    <2>4. enqueue_ping(d, "CONNECTED", q, {})
        BY <1>4 DEF VisitFinishConnect
    <2>. HIDE DEF q
    <2>5. LoginAt(acts'[d], TRUE) /\ \A e \in Devs \ {d} : acts'[e] = acts[e]
        BY <2>3, <2>4, EnqueuePingLogin
    <2>6. /\ connect_state' = [ connect_state EXCEPT ![d] = "CONNECTED" ]
          /\ logged_in' = logged_in
        BY <1>4 DEF VisitFinishConnect
    <2>7. /\ connect_state'[d] = "CONNECTED"
          /\ \A e \in Devs \ {d} : connect_state'[e] = connect_state[e]
        BY <2>6 DEF TypeOK, ConnTypeOK
    <2>8. LoginOK(d)'
        BY <2>1, <2>5, <2>6, <2>7 DEF LoginOK, LoginAt
    <2>. QED  BY <2>5, <2>6, <2>7, <2>8, OneDevice
<1>5. CASE VisitConnected(d) \/ VisitConnecting(d)
    <2>1. PICK state : enqueue_ping(d, state, acts[d], {})
        BY <1>5 DEF VisitConnected, VisitConnecting
    <2>2. LoginAt(acts'[d], b) /\ \A e \in Devs \ {d} : acts'[e] = acts[e]
        BY <1>1, <1>2, <2>1, EnqueuePingLogin
    <2>3. connect_state' = connect_state /\ logged_in' = logged_in
        BY <1>5 DEF VisitConnected, VisitConnecting, conn
    <2>4. LoginOK(d)'
        BY <1>1, <2>2, <2>3 DEF LoginOK, LoginAt
    <2>. QED  BY <2>2, <2>3, <2>4, OneDevice
<1>. QED  BY <1>3, <1>4, <1>5 DEF Visit

(* Every statement keeps the login where it belongs.                       *)
LEMMA StatementLogin ==
    ASSUME TypeOK, LoginFirst, NEW d \in Devs, Statement(d)
    PROVE  LoginFirst'
<1>. DEFINE e == top(d)
            flag(b) == set_top(head(d).exec, [ e EXCEPT !.processing = b ])
            at(p) == set_top(head(d).exec, [ e EXCEPT !.plugitr = p ])
<1>1. acts[d] # << >> /\ connect_state[d] = "CONNECTED"
    BY DEF Statement, process_send, process_expect, process_delay, process_setplugstate,
           process_foreach, process_ifonoff, Executes
<1>2. /\ head(d) \in Action(d) /\ head(d).exec \in Stacks(Plugs(d))
      /\ head(d).com = Head(acts[d]).com
      /\ e \in ExecCtx(Plugs(d)) /\ IsStmt(cur_stmt(e))
    BY <1>1, HeadType DEF TypeOK
<1>3. /\ \A b \in BOOLEAN : flag(b) \in Stacks(Plugs(d))
      /\ \A p \in Nat : at(p) \in Stacks(Plugs(d))
    BY <1>2, CtxType, SetTopType
<1>4. ASSUME NEW exec \in Stacks(Plugs(d)), Finish(d, exec)
      PROVE  LoginFirst'
    BY <1>1, <1>4, FinishLogin
<1>5. ASSUME NEW exec, GoOn(d, exec), TypeOK'
      PROVE  LoginFirst'
    <2>. DEFINE act == [ head(d) EXCEPT !.exec = exec ]
    <2>1. /\ acts' = requeue(d, act)
          /\ connect_state' = connect_state /\ logged_in' = logged_in
        BY <1>5 DEF GoOn, conn
    <2>2. act.com = Head(acts[d]).com
        BY <1>2 DEF Action
    <2>3. act \in Action(d)
        <3>. HIDE DEF act
        <3>1. acts'[d] \in Seq(Action(d)) /\ acts'[d] = << act >> \o Tail(acts[d])
              /\ Tail(acts[d]) \in Seq(Action(d))
            BY <1>1, <1>5, <2>1 DEF TypeOK, QueueTypeOK, requeue
        <3>2. Len(acts'[d]) = 1 + Len(Tail(acts[d])) /\ acts'[d][1] = act
            BY <3>1
        <3>. QED  BY <3>1, <3>2
    <2>. HIDE DEF act
    <2>. QED  BY <1>1, <2>1, <2>2, <2>3, GoOnLogin
<1>6. ASSUME NEW act \in Action(d), act.com = Head(acts[d]).com, NEW timers,
             Stall(d, act, timers)
      PROVE  LoginFirst'
    BY <1>1, <1>6, GoOnLogin DEF Stall, conn
<1>7. TypeOK'
    BY SendType, ExpectType, DelayType, SetplugstateType, ForeachType, IfonoffType
       DEF Statement
<1>8. CASE process_send(d)
    <2>1. Finish(d, flag(FALSE)) \/ Stall(d, [ head(d) EXCEPT !.exec = flag(TRUE) ], {})
        BY <1>2, <1>8 DEF process_send
    <2>2. /\ [ head(d) EXCEPT !.exec = flag(TRUE) ] \in Action(d)
          /\ [ head(d) EXCEPT !.exec = flag(TRUE) ].com = Head(acts[d]).com
        <3>. HIDE DEF flag
        <3>. QED  BY <1>2, <1>3 DEF Action
    <2>. QED  BY <1>3, <1>4, <1>6, <2>1, <2>2
<1>9. CASE process_expect(d)
    BY <1>2, <1>4, <1>6, <1>9 DEF process_expect
<1>10. CASE process_delay(d)
    <2>. DEFINE act(s) == [ head(d) EXCEPT !.delay_start = s, !.exec = flag(TRUE) ]
    <2>1. Finish(d, flag(FALSE)) \/ \E s \in Timer : Stall(d, act(s), { << "delay", d >> })
        BY <1>2, <1>10 DEF process_delay, Action, Timer
    <2>2. \A s \in Timer : act(s) \in Action(d) /\ act(s).com = Head(acts[d]).com
        <3>. HIDE DEF flag
        <3>. QED  BY <1>2, <1>3 DEF Action
    <2>. HIDE DEF act
    <2>. QED  BY <1>3, <1>4, <1>6, <2>1, <2>2
<1>11. CASE process_setplugstate(d)
    BY <1>2, <1>4, <1>11 DEF process_setplugstate
<1>12. CASE process_foreach(d)
    <2>1. Finish(d, at(0)) \/ \E exec : GoOn(d, exec)
        BY <1>12 DEF process_foreach
    <2>. QED  BY <1>3, <1>4, <1>5, <1>7, <2>1
<1>13. CASE process_ifonoff(d)
    <2>1. \/ Finish(d, flag(FALSE)) \/ Finish(d, head(d).exec)
          \/ \E exec : GoOn(d, exec)
          \/ Fail(d, "EEXPFAIL")
        BY <1>13 DEF process_ifonoff
    <2>. QED  BY <1>2, <1>3, <1>4, <1>5, <1>7, <2>1, FailLogin
<1>. QED  BY <1>8, <1>9, <1>10, <1>11, <1>12, <1>13 DEF Statement

(* So does a command of a client: it is queued behind.                     *)
LEMMA ClientCommandLogin ==
    ASSUME TypeOK, LoginFirst, ClientCommand
    PROVE  LoginFirst'
<1>1. PICK com \in ClientComs, c \in Clients, hl \in SUBSET Nodes :
         dev_enqueue_actions(com, hl, c)
    BY DEF ClientCommand
<1>. SUFFICES ASSUME NEW d \in Devs PROVE LoginOK(d)'
    BY DEF LoginFirst, LoginOK, LoginAt
<1>. DEFINE b == connect_state[d] = "CONNECTED" /\ ~logged_in[d]
            new == new_acts(d, com, hl, c)
<1>2. LoginOK(d) /\ LoginAt(acts[d], b) /\ b \in BOOLEAN
    BY LoginFirstOK DEF LoginOK
<1>3. acts[d] \in Seq(Action(d)) /\ new \in Seq(Action(d)) /\ NoLogin(new)
    BY NewActsType DEF TypeOK, QueueTypeOK
<1>4. /\ acts'[d] = acts[d] \o new
      /\ connect_state' = connect_state /\ logged_in' = logged_in
    BY <1>1 DEF dev_enqueue_actions
<1>. HIDE DEF new
<1>5. LoginAt(acts'[d], b)
    BY <1>2, <1>3, <1>4, LoginAtAppend
<1>. QED  BY <1>2, <1>4, <1>5 DEF LoginOK, LoginAt

(* So does time: it changes no queue but for its timers.                   *)
LEMMA TimeLogin ==
    ASSUME TypeOK, LoginFirst, NEW d \in Devs, Time(d)
    PROVE  LoginFirst'
<1>1. connect_state' = connect_state /\ logged_in' = logged_in
    BY DEF Time, StampExpires, DelayExpires, RetryExpires, PingFallsDue, Clock, Environment
<1>2. CASE RetryExpires(d) \/ PingFallsDue(d)
    BY <1>1, <1>2, SameLogin DEF RetryExpires, PingFallsDue
<1>3. CASE StampExpires(d) \/ DelayExpires(d)
    <2>1. PICK i \in DOMAIN acts[d] :
             \/ acts' = [ acts EXCEPT ![d][i].time_stamp = "expired" ]
             \/ acts' = [ acts EXCEPT ![d][i].delay_start = "expired" ]
        BY <1>3 DEF StampExpires, DelayExpires
    <2>2. acts[d] \in Seq(Action(d)) /\ acts[d][i] \in Action(d)
        BY DEF TypeOK, QueueTypeOK
    <2>3. PICK a \in Action(d) : a.com = acts[d][i].com /\ acts' = [ acts EXCEPT ![d][i] = a ]
        <3>1. /\ [ acts[d][i] EXCEPT !.time_stamp = "expired" ] \in Action(d)
              /\ [ acts[d][i] EXCEPT !.time_stamp = "expired" ].com = acts[d][i].com
              /\ [ acts[d][i] EXCEPT !.delay_start = "expired" ] \in Action(d)
              /\ [ acts[d][i] EXCEPT !.delay_start = "expired" ].com = acts[d][i].com
            BY <2>2 DEF Action, Timer
        <3>. QED  BY <2>1, <3>1
    <2>. DEFINE r == [ acts[d] EXCEPT ![i] = a ]
    <2>4. r \in Seq(Action(d)) /\ Len(r) = Len(acts[d])
          /\ \A j \in 1..Len(acts[d]) : r[j] = IF j = i THEN a ELSE acts[d][j]
        BY <2>2
    <2>5. \A j \in 1..Len(acts[d]) : r[j].com = acts[d][j].com
        BY <2>3, <2>4
    <2>6. acts' = [ acts EXCEPT ![d] = r ]
        BY <2>3
    <2>. HIDE DEF r
    <2>. QED  BY <1>1, <2>4, <2>5, <2>6, SameQueue
<1>. QED  BY <1>2, <1>3 DEF Time

(* Until its first connection a device is not connected.  LoginFirst is    *)
(* inductive only together with this: dev_initial_connect queues a login   *)
(* without looking.                                                        *)
NotYet == phase = "start" => \A d \in Devs : d >= cur => connect_state[d] = "NOT_CONNECTED"

(* NotYet is preserved: only dev_initial_connect runs before the loop.     *)
LEMMA NotYetStep ==
    ASSUME TypeOK, NotYet, [Next]_vars
    PROVE  NotYet'
<1>1. CASE dev_initial_connect
    <2>1. PICK r : Reconnected(cur, r)
        BY <1>1 DEF dev_initial_connect
    <2>2. phase = "start" /\ NextDevice /\ cur \in Nat /\ Devs \subseteq Nat
        BY <1>1 DEF dev_initial_connect, TypeOK, LoopTypeOK, Devs
    <2>3. connect_state' = [ connect_state EXCEPT ![cur] = r.state ]
        BY <2>1 DEF Reconnected
    <2>4. phase' = "start" => cur' = cur + 1
        BY <2>2 DEF NextDevice
    <2>5. ASSUME phase' = "start", NEW d \in Devs, d >= cur'
          PROVE  connect_state'[d] = "NOT_CONNECTED"
        <3>1. d \in Nat /\ d > cur /\ d >= cur
            BY <2>2, <2>4, <2>5
        <3>. QED  BY <2>2, <2>3, <3>1 DEF NotYet, TypeOK, ConnTypeOK
    <2>. QED  BY <2>5 DEF NotYet
<1>2. CASE PollReturns \/ ClientsDone
    BY <1>2 DEF PollReturns, ClientsDone, NotYet
<1>3. CASE ClientCommand
    BY <1>3 DEF ClientCommand, dev_enqueue_actions, NotYet
<1>4. ASSUME NEW d \in Devs, Visit(d) PROVE NotYet'
    BY <1>4 DEF Visit, VisitUnconnected, VisitFinishConnect, VisitConnected,
       VisitConnecting, enqueue_ping, NotYet
<1>5. ASSUME NEW d \in Devs, Process(d) PROVE NotYet'
    <2>1. phase = "process"
        BY <1>5 DEF Process, Statement, ProcessIdle, ProcessTimeout, ProcessUnconnected,
           process_send, process_expect, process_delay, process_setplugstate,
           process_foreach, process_ifonoff, Executes, Processing
    <2>2. phase' = phase \/ NextDevice
        BY <1>5 DEF Process, Statement, ProcessIdle, ProcessTimeout, ProcessUnconnected,
           process_send, process_expect, process_delay, process_setplugstate,
           process_foreach, process_ifonoff, Fail, Finish, GoOn, Stall
    <2>. QED  BY <2>1, <2>2 DEF NextDevice, NotYet
<1>6. ASSUME NEW d \in Devs, Network(d) \/ Time(d) PROVE NotYet'
    <2>1. phase # "start" /\ phase' = phase
        BY <1>6 DEF Network, LinkOpens, LinkDrops, Answers, Environment, Time, StampExpires,
           DelayExpires, RetryExpires, PingFallsDue, Clock, Processing
    <2>. QED  BY <2>1 DEF NotYet
<1>7. CASE UNCHANGED vars
    BY <1>7 DEF vars, conn, NotYet
<1>. QED  BY <1>1, <1>2, <1>3, <1>4, <1>5, <1>6, <1>7 DEF Next

(* The first connection puts the only login there is at the head.          *)
LEMMA InitialConnectLogin ==
    ASSUME TypeOK, LoginFirst, NotYet, dev_initial_connect
    PROVE  LoginFirst'
<1>1. /\ cur \in Devs /\ acts[cur] \in Seq(Action(cur))
      /\ LoginOK(cur) /\ phase = "start" /\ cur >= cur
    BY LoginFirstOK DEF TypeOK, LoopTypeOK, QueueTypeOK, dev_initial_connect, Devs
<1>2. connect_state[cur] = "NOT_CONNECTED" /\ ~logged_in[cur]
    BY <1>1 DEF NotYet, LoginOK
<1>3. NoLogin(acts[cur])
    BY <1>1, <1>2 DEF LoginOK, LoginAt, NoLogin
<1>4. PICK r \in connect(cur, acts[cur]) :
         Reconnected(cur, r) /\ acts' = [ acts EXCEPT ![cur] = r.queue ]
    BY DEF dev_initial_connect
<1>5. LoginAt(r.queue, r.state = "CONNECTED")
    BY <1>1, <1>3, ConnectLogin
<1>6. /\ connect_state' = [ connect_state EXCEPT ![cur] = r.state ]
      /\ logged_in' = logged_in
    BY <1>2, <1>4 DEF Reconnected
<1>7. /\ acts'[cur] = r.queue /\ connect_state'[cur] = r.state
      /\ \A e \in Devs \ {cur} : acts'[e] = acts[e] /\ connect_state'[e] = connect_state[e]
    BY <1>1, <1>4, <1>6 DEF TypeOK, QueueTypeOK, ConnTypeOK
<1>. DEFINE d == cur
<1>8. /\ LoginAt(acts'[d], connect_state'[d] = "CONNECTED" /\ ~logged_in'[d])
      /\ logged_in'[d] => connect_state'[d] = "CONNECTED"
    BY <1>2, <1>5, <1>6, <1>7 DEF LoginAt
<1>9. ASSUME NEW e \in Devs PROVE LoginOK(e)'
    BY <1>6, <1>7, <1>8, LoginFirstOK DEF LoginOK, LoginAt
<1>. QED  BY <1>9 DEF LoginFirst, LoginOK, LoginAt

(* The login of a connection is at the head of the queue from the moment   *)
(* the device is connected until it is logged in, and at no other time is  *)
(* one anywhere, whatever the interleaving of commands, pings, lost        *)
(* connections and time-outs.                                              *)
THEOREM LoginComesFirst == Spec => []LoginFirst
<1>1. Init => LoginFirst /\ NotYet
    <2>. SUFFICES ASSUME Init PROVE LoginFirst /\ NotYet
        OBVIOUS
    <2>1. \A d \in Devs : /\ acts[d] = << >> /\ ~logged_in[d]
                          /\ connect_state[d] = "NOT_CONNECTED"
        BY DEF Init
    <2>2. \A d \in Devs : LoginOK(d)
        BY <2>1, LoginAtEmpty DEF LoginOK, LoginAt
    <2>. QED  BY <2>1, <2>2, LoginFirstOK DEF NotYet
<1>2. TypeOK /\ LoginFirst /\ NotYet /\ [Next]_vars => LoginFirst' /\ NotYet'
    <2>. SUFFICES ASSUME TypeOK, LoginFirst, NotYet, [Next]_vars PROVE LoginFirst'
        BY NotYetStep
    <2>1. CASE dev_initial_connect
        BY <2>1, InitialConnectLogin
    <2>2. CASE PollReturns \/ ClientsDone \/ UNCHANGED vars
        BY <2>2, SameLogin DEF PollReturns, ClientsDone, vars, conn
    <2>3. CASE ClientCommand
        BY <2>3, ClientCommandLogin
    <2>4. ASSUME NEW d \in Devs, Visit(d) PROVE LoginFirst'
        BY <2>4, VisitLogin
    <2>5. ASSUME NEW d \in Devs, Process(d) PROVE LoginFirst'
        <3>1. CASE ProcessIdle(d)
            BY <3>1, SameLogin DEF ProcessIdle, conn
        <3>2. CASE ProcessTimeout(d)
            BY <3>2, FailLogin DEF ProcessTimeout
        <3>3. CASE ProcessUnconnected(d)
            <4>1. acts[d] # << >> /\ Stall(d, head(d), {})
                BY <3>3 DEF ProcessUnconnected
            <4>. QED  BY <4>1, HeadType, GoOnLogin DEF TypeOK, Stall, conn
        <3>4. CASE Statement(d)
            BY <3>4, StatementLogin
        <3>. QED  BY <2>5, <3>1, <3>2, <3>3, <3>4 DEF Process
    <2>6. ASSUME NEW d \in Devs, Network(d) PROVE LoginFirst'
        BY <2>6, SameLogin DEF Network, LinkOpens, LinkDrops, Answers, Environment
    <2>7. ASSUME NEW d \in Devs, Time(d) PROVE LoginFirst'
        BY <2>7, TimeLogin
    <2>. QED  BY <2>1, <2>2, <2>3, <2>4, <2>5, <2>6, <2>7 DEF Next
<1>. QED  BY <1>1, <1>2, TypeCorrect, PTL DEF Spec

(***************************************************************************)
(* Counting the actions, or the callbacks, of a client in a sequence       *)
(***************************************************************************)
of_client(q, c) == { i \in DOMAIN q : q[i].client = c }

held(q, c) == Cardinality(of_client(q, c))

(* A one-to-one correspondence keeps the number of elements.               *)
LEMMA SameNumber ==
    ASSUME NEW S, NEW T, IsFiniteSet(S), NEW f \in [S -> T],
           \A x, y \in S : f[x] = f[y] => x = y,
           \A t \in T : \E x \in S : f[x] = t
    PROVE  IsFiniteSet(T) /\ Cardinality(T) = Cardinality(S)
<1>1. f \in Bijection(S, T)
    BY DEF Bijection, Injection, Surjection, IsInjective
<1>. QED  BY <1>1, FS_Bijection DEF ExistsBijection

(* The number of actions of a client is a number.                          *)
LEMMA HeldType ==
    ASSUME NEW S, NEW q \in Seq(S), NEW c
    PROVE  IsFiniteSet(of_client(q, c)) /\ held(q, c) \in Nat
<1>1. of_client(q, c) \in SUBSET (1..Len(q)) /\ Len(q) \in Nat
    BY DEF of_client
<1>2. IsFiniteSet(1..Len(q))
    BY <1>1, FS_Interval
<1>3. IsFiniteSet(of_client(q, c))
    BY <1>1, <1>2, FS_Subset
<1>. QED  BY <1>3, FS_CardinalityType DEF held

(* None in an empty sequence.                                              *)
LEMMA HeldEmpty ==
    ASSUME NEW c
    PROVE  of_client(<< >>, c) = {} /\ held(<< >>, c) = 0
BY FS_EmptySet DEF of_client, held

(* One or none in a sequence of one.                                       *)
LEMMA HeldOne ==
    ASSUME NEW a, NEW c
    PROVE  held(<< a >>, c) = IF a.client = c THEN 1 ELSE 0
<1>1. of_client(<< a >>, c) = IF a.client = c THEN {1} ELSE {}
    BY DEF of_client
<1>. QED  BY <1>1, FS_EmptySet, FS_Singleton DEF held

(* The number in a sequence is that of its two parts.                      *)
LEMMA HeldConcat ==
    ASSUME NEW S, NEW s \in Seq(S), NEW t \in Seq(S), NEW c
    PROVE  held(s \o t, c) = held(s, c) + held(t, c)
<1>. DEFINE n == Len(s)
            A == of_client(s, c)
            B == of_client(t, c)
            shifted == { n + i : i \in B }
<1>1. /\ n \in Nat /\ Len(t) \in Nat /\ A \subseteq 1..n /\ B \subseteq 1..Len(t)
      /\ DOMAIN (s \o t) = 1..(n + Len(t))
      /\ \A i \in 1..n : (s \o t)[i] = s[i]
      /\ \A i \in 1..Len(t) : (s \o t)[n + i] = t[i]
    BY DEF of_client
<1>2. of_client(s \o t, c) = A \cup shifted
    <2>1. ASSUME NEW i \in 1..(n + Len(t)), (s \o t)[i].client = c
          PROVE  i \in A \cup shifted
        <3>1. CASE i <= n
            BY <1>1, <2>1, <3>1 DEF of_client
        <3>2. CASE i > n
            <4>1. i - n \in 1..Len(t) /\ i = n + (i - n)
                BY <1>1, <3>2
            <4>2. i - n \in B
                BY <1>1, <2>1, <4>1 DEF of_client
            <4>. QED  BY <4>1, <4>2
        <3>. QED  BY <1>1, <3>1, <3>2
    <2>2. ASSUME NEW i \in A PROVE i \in of_client(s \o t, c)
        BY <1>1 DEF of_client
    <2>3. ASSUME NEW i \in B PROVE n + i \in of_client(s \o t, c)
        BY <1>1 DEF of_client
    <2>. QED  BY <1>1, <2>1, <2>2, <2>3 DEF of_client
<1>3. IsFiniteSet(A) /\ IsFiniteSet(B) /\ Cardinality(A) \in Nat /\ Cardinality(B) \in Nat
    BY HeldType DEF held
<1>4. IsFiniteSet(shifted) /\ Cardinality(shifted) = Cardinality(B)
    <2>. DEFINE f == [ i \in B |-> n + i ]
    <2>1. f \in [B -> shifted]
        OBVIOUS
    <2>2. \A x, y \in B : f[x] = f[y] => x = y
        BY <1>1
    <2>3. \A y \in shifted : \E x \in B : f[x] = y
        OBVIOUS
    <2>. HIDE DEF f, shifted
    <2>. QED  BY <1>3, <2>1, <2>2, <2>3, SameNumber
<1>5. A \cap shifted = {}
    BY <1>1
<1>. HIDE DEF A, B, shifted
<1>6. Cardinality(A \cup shifted) = Cardinality(A) + Cardinality(B)
    <2>1. Cardinality(A \cap shifted) = 0
        BY <1>5, FS_EmptySet
    <2>2. Cardinality(A \cup shifted)
             = Cardinality(A) + Cardinality(shifted) - Cardinality(A \cap shifted)
        BY <1>3, <1>4, FS_Union
    <2>. QED  BY <1>3, <1>4, <2>1, <2>2
<1>. QED  BY <1>2, <1>6 DEF held, A, B

(* A sequence is its first element and the rest.                           *)
LEMMA HeldHeadTail ==
    ASSUME NEW S, NEW q \in Seq(S), q # << >>, NEW c
    PROVE  held(q, c) = (IF Head(q).client = c THEN 1 ELSE 0) + held(Tail(q), c)
<1>1. << Head(q) >> \in Seq(S) /\ Tail(q) \in Seq(S) /\ q = << Head(q) >> \o Tail(q)
    OBVIOUS
<1>2. held(<< Head(q) >> \o Tail(q), c) = held(<< Head(q) >>, c) + held(Tail(q), c)
    BY <1>1, HeldConcat
<1>3. held(q, c) = held(<< Head(q) >>, c) + held(Tail(q), c)
    BY <1>1, <1>2
<1>. QED  BY <1>3, HeldOne

(* Sequences of actions of the same clients in the same order.             *)
LEMMA HeldSame ==
    ASSUME NEW q, NEW r, DOMAIN q = DOMAIN r, \A i \in DOMAIN q : q[i].client = r[i].client,
           NEW c
    PROVE  held(q, c) = held(r, c)
<1>1. of_client(q, c) = of_client(r, c)
    BY DEF of_client
<1>. QED  BY <1>1 DEF held

(* The actions of c in these queues, and those not at device d.            *)
placed(queues, c) ==
    UNION { { << d, i >> : i \in of_client(queues[d], c) } : d \in Devs }

elsewhere(queues, d, c) ==
    UNION { { << e, i >> : i \in of_client(queues[e], c) } : e \in Devs \ {d} }

(* The number of actions of a client is what one device has of it and what *)
(* the others have.                                                        *)
LEMMA PlacedSplit ==
    ASSUME NEW queues, \A e \in Devs : queues[e] \in Seq(Action(e)), NEW d \in Devs, NEW c
    PROVE  /\ IsFiniteSet(placed(queues, c)) /\ Cardinality(elsewhere(queues, d, c)) \in Nat
           /\ Cardinality(placed(queues, c))
                = Cardinality(elsewhere(queues, d, c)) + held(queues[d], c)
<1>. DEFINE at(e) == { << e, i >> : i \in of_client(queues[e], c) }
            others == elsewhere(queues, d, c)
<1>1. IsFiniteSet(Devs)
    <2>1. NumDevs \in Int
        BY DeviceAssumption
    <2>. QED  BY <2>1, FS_Interval DEF Devs
<1>2. ASSUME NEW e \in Devs
      PROVE  IsFiniteSet(at(e)) /\ Cardinality(at(e)) = held(queues[e], c)
    <2>. DEFINE I == of_client(queues[e], c)
                f == [ i \in I |-> << e, i >> ]
    <2>1. IsFiniteSet(I)
        BY HeldType
    <2>2. f \in [I -> at(e)] /\ (\A x, y \in I : f[x] = f[y] => x = y)
          /\ \A y \in at(e) : \E x \in I : f[x] = y
        OBVIOUS
    <2>. HIDE DEF f, at, I
    <2>3. IsFiniteSet(at(e)) /\ Cardinality(at(e)) = Cardinality(I)
        BY <2>1, <2>2, SameNumber
    <2>. QED  BY <2>3 DEF held, I
<1>3. IsFiniteSet(others)
    <2>. DEFINE rest == { at(e) : e \in Devs \ {d} }
                f == [ e \in Devs \ {d} |-> at(e) ]
    <2>1. IsFiniteSet(Devs \ {d})
        BY <1>1, FS_Subset
    <2>2. f \in Surjection(Devs \ {d}, rest)
        BY DEF Surjection
    <2>3. \A T \in rest : IsFiniteSet(T)
        BY <1>2
    <2>4. IsFiniteSet(rest)
        <3>. HIDE DEF f, rest
        <3>. QED  BY <2>1, <2>2, FS_Surjection
    <2>5. others = UNION rest
        BY DEF elsewhere
    <2>. HIDE DEF rest, others
    <2>. QED  BY <2>3, <2>4, <2>5, FS_UNION
<1>4. placed(queues, c) = others \cup at(d)
    BY DEF placed, elsewhere
<1>5. others \cap at(d) = {}
    BY DEF elsewhere
<1>. HIDE DEF at, others
<1>6. Cardinality(others \cap at(d)) = 0
    BY <1>5, FS_EmptySet
<1>7. /\ IsFiniteSet(others \cup at(d))
      /\ Cardinality(others \cup at(d))
           = Cardinality(others) + Cardinality(at(d)) - Cardinality(others \cap at(d))
    BY <1>2, <1>3, FS_Union
<1>8. /\ Cardinality(others) \in Nat /\ Cardinality(at(d)) \in Nat
      /\ Cardinality(at(d)) = held(queues[d], c)
    BY <1>2, <1>3, FS_CardinalityType
<1>. QED  BY <1>4, <1>6, <1>7, <1>8 DEF others

(***************************************************************************)
(* What a turn of the loop over a queue does to it                         *)
(***************************************************************************)

(* The head stays, for the same command of the same client.                *)
HeadStays(d) ==
    /\ acts[d] # << >> /\ acts'[d] \in Seq(Action(d))
    /\ Len(acts'[d]) = Len(acts[d])
    /\ \A i \in DOMAIN acts[d] : /\ acts'[d][i].client = acts[d][i].client
                                 /\ acts'[d][i].com = acts[d][i].com
    /\ calls' = << >> /\ connect_state' = connect_state
    /\ \/ UNCHANGED << phase, cur, tmout >>
       \/ NextDevice /\ << "stamp", d >> \in tmout' /\ tmout \subseteq tmout'

(* The head is done.                                                       *)
HeadDone(d) ==
    /\ acts[d] # << >> /\ acts'[d] = Tail(acts[d])
    /\ calls' = << [ client |-> Head(acts[d]).client, err |-> "ESUCCESS" ] >>
    /\ UNCHANGED << connect_state, phase, cur, tmout >>

(* Another head for the same command of the same client is the head still. *)
LEMMA RequeueStays ==
    ASSUME TypeOK, NEW d \in Devs, acts[d] # << >>, NEW act \in Action(d),
           act.com = Head(acts[d]).com, act.client = Head(acts[d]).client,
           acts' = requeue(d, act)
    PROVE  /\ acts'[d] \in Seq(Action(d)) /\ Len(acts'[d]) = Len(acts[d])
           /\ \A i \in DOMAIN acts[d] : /\ acts'[d][i].client = acts[d][i].client
                                        /\ acts'[d][i].com = acts[d][i].com
           /\ \A e \in Devs \ {d} : acts'[e] = acts[e]
<1>1. /\ acts[d] \in Seq(Action(d)) /\ acts'[d] = << act >> \o Tail(acts[d])
      /\ \A e \in Devs \ {d} : acts'[e] = acts[e]
    BY DEF TypeOK, QueueTypeOK, requeue
<1>2. /\ acts'[d] \in Seq(Action(d)) /\ Len(acts'[d]) = Len(acts[d])
      /\ \A i \in 1..Len(acts[d]) : acts'[d][i] = IF i = 1 THEN act ELSE acts[d][i]
      /\ Head(acts[d]) = acts[d][1] /\ DOMAIN acts[d] = 1..Len(acts[d])
    BY <1>1
<1>. QED  BY <1>1, <1>2

(* A statement that is done, goes on, or stalls.                           *)
LEMMA FinishCases ==
    ASSUME TypeOK, NEW d \in Devs, acts[d] # << >>,
           NEW exec \in Stacks(Plugs(d)), Finish(d, exec) \/ GoOn(d, exec)
    PROVE  /\ HeadStays(d) \/ HeadDone(d)
           /\ \A e \in Devs \ {d} : acts'[e] = acts[e]
<1>0. ASSUME NEW x \in Stacks(Plugs(d)), GoOn(d, x)
      PROVE  HeadStays(d) /\ \A e \in Devs \ {d} : acts'[e] = acts[e]
    <2>. DEFINE act == [ head(d) EXCEPT !.exec = x ]
    <2>1. /\ act \in Action(d)
          /\ act.com = Head(acts[d]).com /\ act.client = Head(acts[d]).client
        BY HeadType DEF TypeOK, Action
    <2>2. acts' = requeue(d, act)
        BY <1>0 DEF GoOn
    <2>. HIDE DEF act
    <2>. QED  BY <1>0, <2>1, <2>2, RequeueStays DEF HeadStays, GoOn, conn
<1>1. CASE GoOn(d, exec)
    BY <1>0, <1>1
<1>2. CASE Finish(d, exec) /\ next_stmt(exec) # << >>
    <2>1. next_stmt(exec) \in Stacks(Plugs(d)) /\ GoOn(d, next_stmt(exec))
        BY <1>2, NextStmtType DEF Stacks, Finish
    <2>. QED  BY <1>0, <2>1
<1>3. CASE Finish(d, exec) /\ next_stmt(exec) = << >>
    BY <1>3 DEF Finish, HeadDone, TypeOK, QueueTypeOK
<1>. QED  BY <1>1, <1>2, <1>3

(* A head that stalls stays, and its time-out bounds the poll.             *)
LEMMA StallCases ==
    ASSUME TypeOK, NEW d \in Devs, acts[d] # << >>, NEW act \in Action(d),
           act.com = Head(acts[d]).com, act.client = Head(acts[d]).client,
           NEW timers, Stall(d, act, timers)
    PROVE  HeadStays(d) /\ \A e \in Devs \ {d} : acts'[e] = acts[e]
<1>1. acts' = requeue(d, act)
    BY DEF Stall
<1>2. /\ NextDevice /\ << "stamp", d >> \in tmout' /\ tmout \subseteq tmout'
      /\ calls' = << >> /\ connect_state' = connect_state
    BY DEF Stall, conn
<1>. QED  BY <1>1, <1>2, RequeueStays DEF HeadStays

(* A turn of the loop: the queue is empty, or its head stays, is done, or  *)
(* fails.                                                                  *)
LEMMA ProcessCases ==
    ASSUME TypeOK, NEW d \in Devs, Process(d)
    PROVE  \/ ProcessIdle(d)
           \/ \E err \in ActErrors : acts[d] # << >> /\ Fail(d, err)
           \/ /\ HeadStays(d) \/ HeadDone(d)
              /\ \A e \in Devs \ {d} : acts'[e] = acts[e]
<1>. DEFINE e == top(d)
            flag(b) == set_top(head(d).exec, [ e EXCEPT !.processing = b ])
            at(p) == set_top(head(d).exec, [ e EXCEPT !.plugitr = p ])
            Kept == /\ HeadStays(d) \/ HeadDone(d)
                    /\ \A f \in Devs \ {d} : acts'[f] = acts[f]
<1>1. CASE ProcessIdle(d)
    BY <1>1
<1>2. CASE ProcessTimeout(d)
    BY <1>2 DEF ProcessTimeout, ActErrors
<1>3. acts[d] # << >> =>
        /\ head(d) \in Action(d) /\ head(d).exec \in Stacks(Plugs(d))
        /\ head(d).com = Head(acts[d]).com /\ head(d).client = Head(acts[d]).client
        /\ e \in ExecCtx(Plugs(d)) /\ IsStmt(cur_stmt(e))
    BY HeadType DEF TypeOK
<1>4. acts[d] # << >> =>
        /\ \A b \in BOOLEAN : flag(b) \in Stacks(Plugs(d))
        /\ \A p \in Nat : at(p) \in Stacks(Plugs(d))
    BY <1>3, CtxType, SetTopType
<1>5. ASSUME acts[d] # << >>, NEW exec \in Stacks(Plugs(d)), Finish(d, exec) \/ GoOn(d, exec)
      PROVE  Kept
    BY <1>5, FinishCases
<1>6. ASSUME acts[d] # << >>, NEW act \in Action(d), act.com = Head(acts[d]).com,
             act.client = Head(acts[d]).client, NEW timers, Stall(d, act, timers)
      PROVE  Kept
    BY <1>6, StallCases
<1>7. CASE ProcessUnconnected(d)
    BY <1>3, <1>6, <1>7 DEF ProcessUnconnected
<1>8. CASE process_send(d)
    <2>1. acts[d] # << >>
        BY <1>8 DEF process_send, Executes
    <2>2. Finish(d, flag(FALSE)) \/ Stall(d, [ head(d) EXCEPT !.exec = flag(TRUE) ], {})
        BY <1>3, <1>8, <2>1 DEF process_send
    <2>3. /\ [ head(d) EXCEPT !.exec = flag(TRUE) ] \in Action(d)
          /\ [ head(d) EXCEPT !.exec = flag(TRUE) ].com = Head(acts[d]).com
          /\ [ head(d) EXCEPT !.exec = flag(TRUE) ].client = Head(acts[d]).client
        <3>. HIDE DEF flag
        <3>. QED  BY <1>3, <1>4, <2>1 DEF Action
    <2>. HIDE DEF Kept
    <2>4. Kept
        BY <1>4, <1>5, <1>6, <2>1, <2>2, <2>3
    <2>. QED  BY <2>4 DEF Kept
<1>9. CASE process_expect(d)
    BY <1>3, <1>5, <1>6, <1>9 DEF process_expect, Executes
<1>10. CASE process_delay(d)
    <2>. DEFINE act(s) == [ head(d) EXCEPT !.delay_start = s, !.exec = flag(TRUE) ]
    <2>1. acts[d] # << >>
        BY <1>10 DEF process_delay, Executes
    <2>2. Finish(d, flag(FALSE)) \/ \E s \in Timer : Stall(d, act(s), { << "delay", d >> })
        BY <1>3, <1>10, <2>1 DEF process_delay, Action, Timer
    <2>3. \A s \in Timer : /\ act(s) \in Action(d) /\ act(s).com = Head(acts[d]).com
                           /\ act(s).client = Head(acts[d]).client
        <3>. HIDE DEF flag
        <3>. QED  BY <1>3, <1>4, <2>1 DEF Action
    <2>. HIDE DEF act, Kept
    <2>4. Kept
        BY <1>4, <1>5, <1>6, <2>1, <2>2, <2>3
    <2>. QED  BY <2>4 DEF Kept
<1>11. CASE process_setplugstate(d)
    BY <1>3, <1>5, <1>11 DEF process_setplugstate, Executes
<1>12. CASE process_foreach(d)
    <2>1. acts[d] # << >> /\ cur_stmt(e).type \in Compound
        BY <1>12 DEF process_foreach, Executes, Compound
    <2>2. ASSUME NEW p \in plugs_left(d, e),
                 GoOn(d, << create_exec_ctx(cur_stmt(e).body, {p}) >> \o at(p))
          PROVE  Kept
        <3>1. p \in Plugs(d) /\ p \in Nat
            BY PlugsFinite DEF plugs_left
        <3>2. create_exec_ctx(cur_stmt(e).body, {p}) \in ExecCtx(Plugs(d))
            BY <1>3, <2>1, <3>1, CreateCtxType DEF IsStmt
        <3>3. at(p) \in Seq(ExecCtx(Plugs(d)))
            BY <1>4, <2>1, <3>1 DEF Stacks
        <3>4. << create_exec_ctx(cur_stmt(e).body, {p}) >> \o at(p) \in Stacks(Plugs(d))
            BY <3>2, <3>3, PushType
        <3>. HIDE DEF Kept
        <3>. QED  BY <1>5, <2>1, <2>2, <3>4
    <2>3. CASE Finish(d, at(0))
        BY <1>4, <1>5, <2>1, <2>3
    <2>. QED  BY <1>12, <2>2, <2>3 DEF process_foreach
<1>13. CASE process_ifonoff(d)
    <2>. DEFINE inner == create_exec_ctx(cur_stmt(e).body, e.plugs)
    <2>1. acts[d] # << >> /\ cur_stmt(e).type \in Compound
        BY <1>13 DEF process_ifonoff, Executes, Compound
    <2>2. << inner >> \o flag(TRUE) \in Stacks(Plugs(d))
        <3>1. cur_stmt(e).body \in DOMAIN Block /\ e.plugs \in SUBSET Plugs(d)
            BY <1>3, <2>1 DEF IsStmt, ExecCtx
        <3>2. inner \in ExecCtx(Plugs(d))
            BY <3>1, CreateCtxType
        <3>3. flag(TRUE) \in Seq(ExecCtx(Plugs(d)))
            BY <1>4, <2>1 DEF Stacks
        <3>. QED  BY <3>2, <3>3, PushType
    <2>3. \/ Finish(d, flag(FALSE)) \/ Finish(d, head(d).exec)
          \/ GoOn(d, << inner >> \o flag(TRUE)) \/ Fail(d, "EEXPFAIL")
        BY <1>13 DEF process_ifonoff
    <2>. HIDE DEF inner, Kept
    <2>4. Kept \/ Fail(d, "EEXPFAIL")
        BY <1>3, <1>4, <1>5, <2>1, <2>2, <2>3
    <2>. QED  BY <2>1, <2>4 DEF Kept, ActErrors
<1>. QED  BY <1>1, <1>2, <1>7, <1>8, <1>9, <1>10, <1>11, <1>12, <1>13 DEF Process, Statement

(***************************************************************************)
(* No action of a client is lost or duplicated                             *)
(***************************************************************************)

(* The logins of a queue are the daemon's own.  CallsBackOnce needs this:  *)
(* disconnect takes a login out of a queue without calling back.           *)
OwnLogins(q) == \A i \in DOMAIN q : q[i].com = "login" => q[i].client = NoClient

LoginsAreOwn == \A d \in Devs : OwnLogins(acts[d])

(* Queues with such logins, one after the other.                           *)
LEMMA OwnConcat ==
    ASSUME NEW S, NEW s \in Seq(S), NEW t \in Seq(S), OwnLogins(s), OwnLogins(t)
    PROVE  OwnLogins(s \o t)
<1>1. /\ Len(s) \in Nat /\ Len(t) \in Nat
      /\ DOMAIN s = 1..Len(s) /\ DOMAIN t = 1..Len(t) /\ DOMAIN (s \o t) = 1..(Len(s) + Len(t))
    OBVIOUS
<1>2. ASSUME NEW i \in 1..(Len(s) + Len(t)), (s \o t)[i].com = "login"
      PROVE  (s \o t)[i].client = NoClient
    <2>1. CASE i <= Len(s)
        <3>1. (s \o t)[i] = s[i] /\ i \in 1..Len(s)
            BY <1>1, <2>1
        <3>. QED  BY <1>1, <1>2, <3>1 DEF OwnLogins
    <2>2. CASE i > Len(s)
        <3>1. (s \o t)[i] = t[i - Len(s)] /\ i - Len(s) \in 1..Len(t)
            BY <1>1, <2>2
        <3>. QED  BY <1>1, <1>2, <3>1 DEF OwnLogins
    <2>. QED  BY <1>1, <2>1, <2>2
<1>. QED  BY <1>1, <1>2 DEF OwnLogins

(* The rest of such a queue.                                               *)
LEMMA OwnTail ==
    ASSUME NEW S, NEW q \in Seq(S), q # << >>, OwnLogins(q)
    PROVE  OwnLogins(Tail(q))
<1>1. \A i \in DOMAIN Tail(q) : i + 1 \in DOMAIN q /\ Tail(q)[i] = q[i + 1]
    OBVIOUS
<1>. QED  BY <1>1 DEF OwnLogins

(* A login before a queue is nobody's action.                              *)
LEMMA EnqueueLoginHeld ==
    ASSUME NEW d \in Devs, NEW q \in Seq(Action(d)), OwnLogins(q)
    PROVE  /\ OwnLogins(enqueue_login(d, q))
           /\ \A c \in Clients : held(enqueue_login(d, q), c) = held(q, c)
<1>. DEFINE a == create_action(d, "login", {}, NoClient)
            h == [ Head(q) EXCEPT !.exec = rewind_action(@) ]
            r == IF q = << >> THEN q ELSE << h >> \o Tail(q)
<1>1. a \in Action(d) /\ a.com = "login" /\ a.client = NoClient
    BY DeviceAssumption, CreateActionType DEF Callers, create_action
<1>2. /\ r \in Seq(Action(d)) /\ DOMAIN r = DOMAIN q
      /\ \A i \in DOMAIN q : r[i].client = q[i].client /\ r[i].com = q[i].com
    <2>1. CASE q = << >>
        BY <2>1
    <2>2. CASE q # << >>
        <3>1. Head(q) \in Action(d) /\ Head(q) = q[1] /\ Tail(q) \in Seq(Action(d))
            BY <2>2
        <3>2. /\ h \in Action(d) /\ h.client = q[1].client /\ h.com = q[1].com
            BY <3>1, RewindType DEF Action
        <3>3. r = << h >> \o Tail(q)
            BY <2>2
        <3>. HIDE DEF h, r
        <3>4. /\ r \in Seq(Action(d)) /\ Len(r) = Len(q)
              /\ \A i \in 1..Len(q) : r[i] = IF i = 1 THEN h ELSE q[i]
            BY <2>2, <3>1, <3>2, <3>3
        <3>. QED  BY <3>2, <3>4
    <2>. QED  BY <2>1, <2>2
<1>3. enqueue_login(d, q) = << a >> \o r
    BY DEF enqueue_login
<1>. HIDE DEF a, r
<1>4. << a >> \in Seq(Action(d)) /\ OwnLogins(<< a >>)
    BY <1>1 DEF OwnLogins
<1>5. OwnLogins(r)
    BY <1>2 DEF OwnLogins
<1>6. ASSUME NEW c \in Clients PROVE held(<< a >> \o r, c) = held(q, c)
    <2>1. held(<< a >> \o r, c) = held(<< a >>, c) + held(r, c)
        BY <1>2, <1>4, HeldConcat
    <2>2. held(<< a >>, c) = 0
        BY <1>1, HeldOne, DeviceAssumption
    <2>3. held(r, c) = held(q, c) /\ held(q, c) \in Nat
        BY <1>2, HeldSame, HeldType
    <2>. QED  BY <2>1, <2>2, <2>3
<1>. QED  BY <1>2, <1>3, <1>4, <1>5, <1>6, OwnConcat

(* A lost connection takes no action of a client with it.                  *)
LEMMA DisconnectHeld ==
    ASSUME NEW d \in Devs, NEW q \in Seq(Action(d)), OwnLogins(q)
    PROVE  /\ OwnLogins(disconnect(q))
           /\ \A c \in Clients : held(disconnect(q), c) = held(q, c)
<1>1. CASE q # << >> /\ Head(q).com = "login"
    <2>1. disconnect(q) = Tail(q) /\ Head(q) = q[1] /\ 1 \in DOMAIN q
        BY <1>1 DEF disconnect
    <2>2. Head(q).client = NoClient
        BY <1>1, <2>1 DEF OwnLogins
    <2>3. ASSUME NEW c \in Clients PROVE held(Tail(q), c) = held(q, c)
        <3>1. held(q, c) = 0 + held(Tail(q), c)
            BY <1>1, <2>2, HeldHeadTail, DeviceAssumption
        <3>2. Tail(q) \in Seq(Action(d))
            BY <1>1
        <3>3. held(Tail(q), c) \in Nat
            BY <3>2, HeldType
        <3>. QED  BY <3>1, <3>3
    <2>. QED  BY <1>1, <2>1, <2>3, OwnTail
<1>2. CASE ~(q # << >> /\ Head(q).com = "login")
    BY <1>2 DEF disconnect
<1>. QED  BY <1>1, <1>2

(* Connecting and reconnecting keep every action of every client.          *)
LEMMA ConnectHeld ==
    ASSUME NEW d \in Devs, NEW q \in Seq(Action(d)), OwnLogins(q), NEW r \in connect(d, q)
    PROVE  /\ r.queue \in Seq(Action(d)) /\ OwnLogins(r.queue)
           /\ \A c \in Clients : held(r.queue, c) = held(q, c)
<1>1. r.queue = q \/ r.queue = enqueue_login(d, q)
    BY DEF connect
<1>. QED  BY <1>1, EnqueueLoginType, EnqueueLoginHeld

(* ... also when a connection was lost before.                             *)
LEMMA ReconnectHeld ==
    ASSUME NEW d \in Devs, NEW q \in Seq(Action(d)), OwnLogins(q), NEW r \in reconnect(d, q)
    PROVE  /\ r.queue \in Seq(Action(d)) /\ OwnLogins(r.queue)
           /\ \A c \in Clients : held(r.queue, c) = held(q, c)
<1>. DEFINE rest == IF connect_state[d] # "NOT_CONNECTED" THEN disconnect(q) ELSE q
<1>1. /\ rest \in Seq(Action(d)) /\ OwnLogins(rest)
      /\ \A c \in Clients : held(rest, c) = held(q, c)
    BY DisconnectType, DisconnectHeld
<1>. HIDE DEF rest
<1>2. r \in connect(d, rest) \/ r.queue = rest
    BY DEF reconnect, rest
<1>. QED  BY <1>1, <1>2, ConnectHeld

(* A ping is nobody's action either.                                       *)
LEMMA EnqueuePingHeld ==
    ASSUME TypeOK, NEW d \in Devs, NEW state, NEW q \in Seq(Action(d)), NEW timer,
           OwnLogins(q), enqueue_ping(d, state, q, timer)
    PROVE  /\ OwnLogins(acts'[d]) /\ \A c \in Clients : held(acts'[d], c) = held(q, c)
           /\ \A e \in Devs \ {d} : acts'[e] = acts[e]
<1>. DEFINE p == create_action(d, "ping", {}, NoClient)
<1>1. "ping" \in DOMAIN Scripts[d] => p \in Action(d)
    BY CreateActionType DEF Callers
<1>2. p.com # "login" /\ p.client = NoClient
    BY DEF create_action
<1>3. /\ acts'[d] = q \/ ("ping" \in DOMAIN Scripts[d] /\ acts'[d] = Append(q, p))
      /\ \A e \in Devs \ {d} : acts'[e] = acts[e]
    BY DEF enqueue_ping, TypeOK, QueueTypeOK
<1>. HIDE DEF p
<1>4. ASSUME "ping" \in DOMAIN Scripts[d]
      PROVE  /\ OwnLogins(Append(q, p))
             /\ \A c \in Clients : held(Append(q, p), c) = held(q, c)
    <2>1. << p >> \in Seq(Action(d)) /\ OwnLogins(<< p >>)
        BY <1>1, <1>2, <1>4 DEF OwnLogins
    <2>2. Append(q, p) = q \o << p >>
        BY <1>1, <1>4
    <2>3. ASSUME NEW c \in Clients PROVE held(q \o << p >>, c) = held(q, c)
        <3>1. held(q \o << p >>, c) = held(q, c) + held(<< p >>, c)
            BY <2>1, HeldConcat
        <3>2. held(<< p >>, c) = 0 /\ held(q, c) \in Nat
            BY <1>2, HeldOne, HeldType, DeviceAssumption
        <3>. QED  BY <3>1, <3>2
    <2>. QED  BY <2>1, <2>2, <2>3, OwnConcat
<1>. QED  BY <1>3, <1>4

(* What the step takes from the queue of d, for each client, calls back,   *)
(* and the other queues stay as they are.                                  *)
Balanced(d) ==
    /\ \A e \in Devs \ {d} : acts'[e] = acts[e]
    /\ \A c \in Clients : held(acts[d], c) = held(acts'[d], c) + held(calls', c)

(* A step that calls nobody back and keeps the actions of clients.         *)
LEMMA BalancedQuiet ==
    ASSUME TypeOK, NEW d \in Devs, calls' = << >>, \A e \in Devs \ {d} : acts'[e] = acts[e],
           \A c \in Clients : held(acts'[d], c) = held(acts[d], c)
    PROVE  Balanced(d)
<1>1. \A c \in Clients : held(calls', c) = 0 /\ held(acts[d], c) \in Nat
    BY HeldEmpty, HeldType DEF TypeOK, QueueTypeOK
<1>. QED  BY <1>1 DEF Balanced

(* A step that leaves the queues alone.                                    *)
LEMMA BalancedSame ==
    ASSUME TypeOK, LoginsAreOwn, NEW d \in Devs, calls' = << >>, acts' = acts
    PROVE  Balanced(d) /\ LoginsAreOwn'
BY BalancedQuiet DEF LoginsAreOwn

(* The logins are the daemon's own everywhere, if they are where the step  *)
(* was.                                                                    *)
LEMMA OwnOneDevice ==
    ASSUME LoginsAreOwn, NEW d, OwnLogins(acts'[d]), \A e \in Devs \ {d} : acts'[e] = acts[e]
    PROVE  LoginsAreOwn'
BY DEF LoginsAreOwn

(* A head that fails calls back, with every action behind it.              *)
LEMMA FailBalanced ==
    ASSUME TypeOK, LoginsAreOwn, NEW d \in Devs, NEW err, Fail(d, err)
    PROVE  Balanced(d) /\ LoginsAreOwn'
<1>1. << >> \in Seq(Action(d)) /\ OwnLogins(<< >>)
    BY DEF OwnLogins
<1>2. /\ OwnLogins(acts'[d]) /\ \A c \in Clients : held(acts'[d], c) = 0
      /\ \A e \in Devs \ {d} : acts'[e] = acts[e]
    <2>1. CASE connect_state[d] = "CONNECTED"
        <3>1. PICK r \in reconnect(d, << >>) : acts' = [ acts EXCEPT ![d] = r.queue ]
            BY <2>1 DEF Fail
        <3>. QED  BY <1>1, <3>1, ReconnectHeld, HeldEmpty DEF TypeOK, QueueTypeOK
    <2>2. CASE connect_state[d] # "CONNECTED"
        BY <1>1, <2>2, HeldEmpty DEF Fail, TypeOK, QueueTypeOK
    <2>. QED  BY <2>1, <2>2
<1>3. ASSUME NEW c \in Clients PROVE held(calls', c) = held(acts[d], c)
    <2>1. /\ DOMAIN acts[d] = DOMAIN calls'
          /\ \A i \in DOMAIN acts[d] : acts[d][i].client = calls'[i].client
        BY DEF Fail, completions
    <2>. QED  BY <2>1, HeldSame
<1>4. \A c \in Clients : held(acts[d], c) \in Nat
    BY HeldType DEF TypeOK, QueueTypeOK
<1>. QED  BY <1>2, <1>3, <1>4, OwnOneDevice DEF Balanced

(* So does every turn of the loop over a queue ...                         *)
LEMMA ProcessBalanced ==
    ASSUME TypeOK, LoginsAreOwn, NEW d \in Devs, Process(d)
    PROVE  Balanced(d) /\ LoginsAreOwn'
<1>1. acts[d] \in Seq(Action(d)) /\ OwnLogins(acts[d])
    BY DEF TypeOK, QueueTypeOK, LoginsAreOwn
<1>2. CASE ProcessIdle(d)
    BY <1>2, BalancedSame DEF ProcessIdle
<1>3. ASSUME NEW err, Fail(d, err)
      PROVE  Balanced(d) /\ LoginsAreOwn'
    BY <1>3, FailBalanced
<1>4. ASSUME HeadStays(d), \A e \in Devs \ {d} : acts'[e] = acts[e]
      PROVE  Balanced(d) /\ LoginsAreOwn'
    <2>1. DOMAIN acts'[d] = DOMAIN acts[d] /\ calls' = << >>
        BY <1>1, <1>4 DEF HeadStays
    <2>2. \A c \in Clients : held(acts'[d], c) = held(acts[d], c)
        BY <1>4, <2>1, HeldSame DEF HeadStays
    <2>3. OwnLogins(acts'[d])
        BY <1>1, <1>4, <2>1 DEF HeadStays, OwnLogins
    <2>. QED  BY <1>4, <2>1, <2>2, <2>3, BalancedQuiet, OwnOneDevice
<1>5. ASSUME HeadDone(d), \A e \in Devs \ {d} : acts'[e] = acts[e]
      PROVE  Balanced(d) /\ LoginsAreOwn'
    <2>1. acts[d] # << >> /\ acts'[d] = Tail(acts[d])
        BY <1>5 DEF HeadDone
    <2>2. OwnLogins(acts'[d])
        BY <1>1, <2>1, OwnTail
    <2>3. ASSUME NEW c \in Clients
          PROVE  held(acts[d], c) = held(acts'[d], c) + held(calls', c)
        <3>. DEFINE call == [ client |-> Head(acts[d]).client, err |-> "ESUCCESS" ]
        <3>1. held(acts[d], c)
                 = (IF Head(acts[d]).client = c THEN 1 ELSE 0) + held(acts'[d], c)
            BY <1>1, <2>1, HeldHeadTail
        <3>2. calls' = << call >> /\ call.client = Head(acts[d]).client
            BY <1>5 DEF HeadDone
        <3>. HIDE DEF call
        <3>3. held(calls', c) = IF Head(acts[d]).client = c THEN 1 ELSE 0
            BY <3>2, HeldOne
        <3>4. acts'[d] \in Seq(Action(d))
            BY <1>1, <2>1
        <3>5. held(acts'[d], c) \in Nat
            BY <3>4, HeldType
        <3>. QED  BY <3>1, <3>3, <3>5
    <2>. QED  BY <1>5, <2>2, <2>3, OwnOneDevice DEF Balanced
<1>. QED  BY <1>2, <1>3, <1>4, <1>5, ProcessCases

(* ... and every visit to a descriptor, which calls nobody back.           *)
LEMMA VisitBalanced ==
    ASSUME TypeOK, LoginsAreOwn, NEW d \in Devs, Visit(d)
    PROVE  Balanced(d) /\ LoginsAreOwn'
<1>1. acts[d] \in Seq(Action(d)) /\ OwnLogins(acts[d])
    BY DEF TypeOK, QueueTypeOK, LoginsAreOwn
<1>2. ASSUME NEW state, NEW timer, NEW q \in Seq(Action(d)), OwnLogins(q),
             \A c \in Clients : held(q, c) = held(acts[d], c),
             enqueue_ping(d, state, q, timer)
      PROVE  Balanced(d) /\ LoginsAreOwn'
    <2>1. /\ OwnLogins(acts'[d]) /\ \A c \in Clients : held(acts'[d], c) = held(acts[d], c)
          /\ \A e \in Devs \ {d} : acts'[e] = acts[e]
        BY <1>2, EnqueuePingHeld
    <2>2. calls' = << >>
        BY <1>2 DEF enqueue_ping
    <2>. QED  BY <2>1, <2>2, BalancedQuiet, OwnOneDevice
<1>3. CASE VisitUnconnected(d)
    <2>1. PICK r \in reconnect(d, acts[d]) : enqueue_ping(d, r.state, r.queue, r.timer)
        BY <1>3 DEF VisitUnconnected
    <2>. QED  BY <1>1, <1>2, <2>1, ReconnectHeld
<1>4. CASE VisitFinishConnect(d)
    <2>1. enqueue_ping(d, "CONNECTED", enqueue_login(d, acts[d]), {})
        BY <1>4 DEF VisitFinishConnect
    <2>. QED  BY <1>1, <1>2, <2>1, EnqueueLoginType, EnqueueLoginHeld
<1>5. CASE VisitConnected(d) \/ VisitConnecting(d)
    <2>1. PICK state : enqueue_ping(d, state, acts[d], {})
        BY <1>5 DEF VisitConnected, VisitConnecting
    <2>. QED  BY <1>1, <1>2, <2>1
<1>. QED  BY <1>3, <1>4, <1>5 DEF Visit

(* Time changes the timers of actions only.                                *)
LEMMA TimeBalanced ==
    ASSUME TypeOK, LoginsAreOwn, NEW d \in Devs, Time(d)
    PROVE  Balanced(d) /\ LoginsAreOwn'
<1>1. calls' = << >>
    BY DEF Time, StampExpires, DelayExpires, RetryExpires, PingFallsDue, Clock, Environment
<1>2. CASE RetryExpires(d) \/ PingFallsDue(d)
    BY <1>1, <1>2, BalancedSame DEF RetryExpires, PingFallsDue
<1>3. CASE StampExpires(d) \/ DelayExpires(d)
    <2>1. PICK i \in DOMAIN acts[d] :
             \/ acts' = [ acts EXCEPT ![d][i].time_stamp = "expired" ]
             \/ acts' = [ acts EXCEPT ![d][i].delay_start = "expired" ]
        BY <1>3 DEF StampExpires, DelayExpires
    <2>2. acts[d] \in Seq(Action(d)) /\ acts[d][i] \in Action(d)
        BY DEF TypeOK, QueueTypeOK
    <2>3. PICK a : /\ a.com = acts[d][i].com /\ a.client = acts[d][i].client
                   /\ acts' = [ acts EXCEPT ![d][i] = a ]
        BY <2>1, <2>2 DEF Action
    <2>4. acts'[d] = [ acts[d] EXCEPT ![i] = a ] /\ \A e \in Devs \ {d} : acts'[e] = acts[e]
        BY <2>3 DEF TypeOK, QueueTypeOK
    <2>5. /\ DOMAIN acts'[d] = DOMAIN acts[d]
          /\ \A j \in DOMAIN acts[d] : /\ acts'[d][j].com = acts[d][j].com
                                       /\ acts'[d][j].client = acts[d][j].client
        BY <2>3, <2>4
    <2>6. \A c \in Clients : held(acts'[d], c) = held(acts[d], c)
        BY <2>5, HeldSame
    <2>7. OwnLogins(acts'[d])
        BY <2>5 DEF LoginsAreOwn, OwnLogins
    <2>. QED  BY <1>1, <2>4, <2>6, <2>7, BalancedQuiet, OwnOneDevice
<1>. QED  BY <1>2, <1>3 DEF Time

(* Every step calls back for what it takes from a queue, or is a command   *)
(* that adds to the queues.                                                *)
LEMMA QueueStep ==
    ASSUME TypeOK, LoginsAreOwn, Next
    PROVE  LoginsAreOwn' /\ (ClientCommand \/ \E d \in Devs : Balanced(d))
<1>1. CASE dev_initial_connect
    <2>1. cur \in Devs /\ acts[cur] \in Seq(Action(cur)) /\ OwnLogins(acts[cur])
        BY DEF TypeOK, LoopTypeOK, QueueTypeOK, LoginsAreOwn
    <2>2. PICK r \in connect(cur, acts[cur]) : acts' = [ acts EXCEPT ![cur] = r.queue ]
        BY <1>1 DEF dev_initial_connect
    <2>3. /\ OwnLogins(r.queue)
          /\ \A c \in Clients : held(r.queue, c) = held(acts[cur], c)
        BY <2>1, ConnectHeld
    <2>4. /\ acts'[cur] = r.queue /\ calls' = << >>
          /\ \A e \in Devs \ {cur} : acts'[e] = acts[e]
        BY <1>1, <2>1, <2>2 DEF dev_initial_connect, TypeOK, QueueTypeOK
    <2>5. PICK d \in Devs : d = cur
        BY <2>1
    <2>6. Balanced(d)
        BY <2>3, <2>4, <2>5, BalancedQuiet
    <2>7. LoginsAreOwn'
        BY <2>3, <2>4, <2>5, OwnOneDevice
    <2>. QED  BY <2>6, <2>7
<1>2. CASE PollReturns \/ ClientsDone
    <2>1. 1 \in Devs
        BY DeviceAssumption DEF Devs
    <2>. QED  BY <1>2, <2>1, BalancedSame DEF PollReturns, ClientsDone
<1>3. CASE ClientCommand
    <2>1. PICK com \in ClientComs, c \in Clients, hl \in SUBSET Nodes :
             dev_enqueue_actions(com, hl, c)
        BY <1>3 DEF ClientCommand
    <2>2. ASSUME NEW d \in Devs PROVE OwnLogins(acts'[d])
        <3>. DEFINE new == new_acts(d, com, hl, c)
        <3>1. new \in Seq(Action(d)) /\ NoLogin(new) /\ acts[d] \in Seq(Action(d))
            BY NewActsType DEF TypeOK, QueueTypeOK
        <3>2. acts'[d] = acts[d] \o new
            BY <2>1 DEF dev_enqueue_actions
        <3>. HIDE DEF new
        <3>3. OwnLogins(new) /\ OwnLogins(acts[d])
            BY <3>1 DEF NoLogin, OwnLogins, LoginsAreOwn
        <3>. QED  BY <3>1, <3>2, <3>3, OwnConcat
    <2>. QED  BY <1>3, <2>2 DEF LoginsAreOwn
<1>4. ASSUME NEW d \in Devs, Visit(d) \/ Process(d) \/ Time(d)
      PROVE  Balanced(d) /\ LoginsAreOwn'
    BY <1>4, VisitBalanced, ProcessBalanced, TimeBalanced
<1>5. ASSUME NEW d \in Devs, Network(d)
      PROVE  Balanced(d) /\ LoginsAreOwn'
    BY <1>5, BalancedSame DEF Network, LinkOpens, LinkDrops, Answers, Environment
<1>. QED  BY <1>1, <1>2, <1>3, <1>4, <1>5 DEF Next

(* What a balanced step does to the number of queued actions of a client.  *)
LEMMA BalancedCount ==
    ASSUME TypeOK, TypeOK', NEW d \in Devs, Balanced(d), NEW c \in Clients
    PROVE  Cardinality(queued(c)) = Cardinality(queued(c)') + Cardinality(of_client(calls', c))
<1>1. /\ \A e \in Devs : acts[e] \in Seq(Action(e))
      /\ \A e \in Devs : acts'[e] \in Seq(Action(e))
    BY DEF TypeOK, QueueTypeOK
<1>2. queued(c) = placed(acts, c) /\ queued(c)' = placed(acts', c)
    BY DEF queued, placed, of_client
<1>3. elsewhere(acts, d, c) = elsewhere(acts', d, c)
    BY DEF elsewhere, Balanced
<1>4. /\ Cardinality(placed(acts, c)) = Cardinality(elsewhere(acts, d, c)) + held(acts[d], c)
      /\ Cardinality(placed(acts', c)) = Cardinality(elsewhere(acts', d, c)) + held(acts'[d], c)
      /\ Cardinality(elsewhere(acts, d, c)) \in Nat
    BY <1>1, PlacedSplit
<1>5. held(acts[d], c) = held(acts'[d], c) + held(calls', c)
    BY DEF Balanced
<1>6. held(acts'[d], c) \in Nat /\ held(calls', c) \in Nat
    BY <1>1, HeldType DEF TypeOK, LoopTypeOK
<1>7. held(calls', c) = Cardinality(of_client(calls', c))
    BY DEF held
<1>. QED  BY <1>2, <1>3, <1>4, <1>5, <1>6, <1>7

(* Logins stay the daemon's own.                                           *)
THEOREM LoginsStayOwn == Spec => []LoginsAreOwn
<1>1. Init => LoginsAreOwn
    BY DEF Init, LoginsAreOwn, OwnLogins
<1>2. TypeOK /\ LoginsAreOwn /\ [Next]_vars => LoginsAreOwn'
    <2>1. ASSUME LoginsAreOwn, UNCHANGED vars PROVE LoginsAreOwn'
        BY <2>1 DEF vars, LoginsAreOwn
    <2>. QED  BY <2>1, QueueStep
<1>. QED  BY <1>1, <1>2, TypeCorrect, PTL DEF Spec

(* An action of a client that leaves a queue calls back, once: no          *)
(* interleaving of completions, failures, lost connections, preempting     *)
(* logins and pings loses one or calls back twice.                         *)
THEOREM EachCallsBackOnce == Spec => CallsBackOnce
<1>. DEFINE Once == \A c \in Clients :
              Cardinality(queued(c)) =
                Cardinality(queued(c)') + Cardinality({ i \in DOMAIN calls' : calls'[i].client = c })
              \/ ClientCommand
<1>1. TypeOK /\ TypeOK' /\ LoginsAreOwn /\ [Next]_vars => [Once]_vars
    <2>. SUFFICES ASSUME TypeOK, TypeOK', LoginsAreOwn, Next, ~ClientCommand,
                         NEW c \in Clients
                  PROVE  Cardinality(queued(c)) = Cardinality(queued(c)')
                           + Cardinality({ i \in DOMAIN calls' : calls'[i].client = c })
        OBVIOUS
    <2>1. PICK d \in Devs : Balanced(d)
        BY QueueStep
    <2>. QED  BY <2>1, BalancedCount DEF of_client
<1>. QED  BY <1>1, TypeCorrect, LoginsStayOwn, PTL DEF Spec, CallsBackOnce

(***************************************************************************)
(* Polls are bound by the time-outs of the actions that wait               *)
(***************************************************************************)

(* The devices the pass has left behind: poll comes next for their queues. *)
Served(d) == phase = "poll" \/ (phase \in {"ready", "process"} /\ d < cur)

NoClients(q) == \A c \in Clients : held(q, c) = 0

(* ClientsAreTimed at every point of a pass.                               *)
TimedOK == \A d \in Devs : Served(d) => NoClients(acts[d]) \/ << "stamp", d >> \in tmout

(* A pass begins with the first device, and before the first pass no       *)
(* client has been served.                                                 *)
PassOK ==
    /\ phase \in {"poll", "clients"} => cur = 1
    /\ phase = "start" => \A d \in Devs : NoClients(acts[d])

(* A queue without actions of clients.                                     *)
LEMMA NoClientsQueue ==
    ASSUME NEW d \in Devs, NEW q \in Seq(Action(d)), NoClients(q), NEW i \in DOMAIN q
    PROVE  q[i].client = NoClient
<1>1. q[i].client \in Callers
    <2>1. q[i] \in Action(d)
        OBVIOUS
    <2>. QED  BY <2>1 DEF Action
<1>2. ASSUME q[i].client \in Clients PROVE FALSE
    <2>. DEFINE c == q[i].client
    <2>1. i \in of_client(q, c)
        BY DEF of_client
    <2>2. IsFiniteSet(of_client(q, c))
        BY HeldType
    <2>3. Cardinality(of_client(q, c)) = 0
        BY <1>2 DEF NoClients, held
    <2>. HIDE DEF c
    <2>. QED  BY <2>1, <2>2, <2>3, FS_EmptySet
<1>. QED  BY <1>1, <1>2 DEF Callers

(* A pass moves on when the device it is at needs no time-out, or has it.  *)
LEMMA TurnTimed ==
    ASSUME TypeOK, TimedOK, NEW d \in Devs, Processing(d), NextDevice,
           \A e \in Devs \ {d} : acts'[e] = acts[e], tmout \subseteq tmout',
           NoClients(acts'[d]) \/ << "stamp", d >> \in tmout'
    PROVE  TimedOK' /\ PassOK'
<1>0. NumDevs \in Nat
    BY DeviceAssumption
<1>1. cur = d /\ phase = "process" /\ NumDevs \in Nat /\ Devs = 1..NumDevs
    BY <1>0 DEF Processing, Devs
<1>2. /\ phase' \in {"poll", "ready"}
      /\ phase' = "poll" => cur' = 1 /\ ~(cur < NumDevs)
      /\ phase' = "ready" => cur' = cur + 1
    BY <1>1 DEF NextDevice
<1>3. ASSUME NEW e \in Devs, Served(e)', e # d
      PROVE  Served(e)
    BY <1>1, <1>2, <1>3 DEF Served
<1>4. ASSUME NEW e \in Devs, Served(e)'
      PROVE  NoClients(acts'[e]) \/ << "stamp", e >> \in tmout'
    BY <1>3, <1>4 DEF TimedOK
<1>5. TimedOK'
    BY <1>4 DEF TimedOK, NoClients
<1>. QED  BY <1>2, <1>5 DEF PassOK

(* A step of the pass at one device leaves those behind as they were.      *)
LEMMA StayTimed ==
    ASSUME TypeOK, TimedOK, PassOK, NEW d \in Devs,
           \A e \in Devs \ {d} : acts'[e] = acts[e], tmout \subseteq tmout', cur' = cur,
           \/ cur = d /\ phase \in {"ready", "process"} /\ phase' \in {"ready", "process"}
           \/ /\ phase' = phase /\ phase # "start"
              /\ \A c \in Clients : held(acts'[d], c) = held(acts[d], c)
    PROVE  TimedOK' /\ PassOK'
<1>1. cur \in Nat /\ d \in Nat
    BY DEF TypeOK, LoopTypeOK, Devs
<1>2. ASSUME NEW e \in Devs, Served(e)'
      PROVE  NoClients(acts'[e]) \/ << "stamp", e >> \in tmout'
    <2>1. CASE cur = d /\ phase \in {"ready", "process"} /\ phase' \in {"ready", "process"}
        <3>1. e # d /\ Served(e)
            BY <1>1, <1>2, <2>1 DEF Served
        <3>. QED  BY <3>1 DEF TimedOK
    <2>2. CASE phase' = phase /\ \A c \in Clients : held(acts'[d], c) = held(acts[d], c)
        <3>1. Served(e)
            BY <1>2, <2>2 DEF Served
        <3>. QED  BY <2>2, <3>1 DEF TimedOK, NoClients
    <2>. QED  BY <2>1, <2>2
<1>3. TimedOK'
    BY <1>2 DEF TimedOK, NoClients
<1>. QED  BY <1>3 DEF PassOK

(* TimedOK and PassOK are preserved.                                       *)
LEMMA TimedStep ==
    ASSUME TypeOK, LoginsAreOwn, TimedOK, PassOK, [Next]_vars
    PROVE  TimedOK' /\ PassOK'
<1>1. CASE dev_initial_connect
    <2>1. cur \in Devs /\ acts[cur] \in Seq(Action(cur)) /\ OwnLogins(acts[cur])
        BY DEF TypeOK, LoopTypeOK, QueueTypeOK, LoginsAreOwn
    <2>2. PICK r \in connect(cur, acts[cur]) : acts' = [ acts EXCEPT ![cur] = r.queue ]
        BY <1>1 DEF dev_initial_connect
    <2>3. \A c \in Clients : held(r.queue, c) = held(acts[cur], c)
        BY <2>1, ConnectHeld
    <2>4. acts'[cur] = r.queue /\ \A e \in Devs \ {cur} : acts'[e] = acts[e]
        BY <2>1, <2>2 DEF TypeOK, QueueTypeOK
    <2>5. phase = "start" /\ NextDevice
        BY <1>1 DEF dev_initial_connect
    <2>6. \A d \in Devs : NoClients(acts'[d])
        BY <2>3, <2>4, <2>5 DEF PassOK, NoClients
    <2>7. phase' \in {"poll", "clients"} => cur' = 1
        BY <2>5 DEF NextDevice
    <2>. QED  BY <2>6, <2>7 DEF TimedOK, PassOK, NoClients
<1>2. CASE PollReturns
    BY <1>2 DEF PollReturns, TimedOK, PassOK, Served
<1>3. CASE ClientsDone
    <2>1. cur' = 1 /\ phase' = "ready"
        BY <1>3 DEF ClientsDone, PassOK
    <2>2. \A d \in Devs : ~(d < 1)
        BY DEF Devs
    <2>. QED  BY <2>1, <2>2 DEF TimedOK, PassOK, Served
<1>4. CASE ClientCommand
    <2>1. phase' = "clients" /\ phase = "clients" /\ cur' = cur
        BY <1>4 DEF ClientCommand, dev_enqueue_actions
    <2>. QED  BY <2>1 DEF TimedOK, PassOK, Served
<1>5. ASSUME NEW d \in Devs, Visit(d) PROVE TimedOK' /\ PassOK'
    <2>1. /\ cur = d /\ phase = "ready" /\ phase' = "process" /\ cur' = cur
          /\ tmout \subseteq tmout' /\ \A e \in Devs \ {d} : acts'[e] = acts[e]
        BY <1>5 DEF Visit, VisitUnconnected, VisitFinishConnect, VisitConnected,
           VisitConnecting, enqueue_ping, TypeOK, QueueTypeOK
    <2>. QED  BY <2>1, StayTimed
<1>6. ASSUME NEW d \in Devs, Process(d) PROVE TimedOK' /\ PassOK'
    <2>0. Processing(d)
        BY <1>6 DEF Process, Statement, ProcessIdle, ProcessTimeout, ProcessUnconnected,
           process_send, process_expect, process_delay, process_setplugstate,
           process_foreach, process_ifonoff, Executes
    <2>1. CASE ProcessIdle(d)
        <3>1. NextDevice /\ acts' = acts /\ tmout' = tmout /\ acts[d] = << >>
            BY <2>1 DEF ProcessIdle
        <3>2. NoClients(acts'[d])
            BY <3>1, HeldEmpty DEF NoClients
        <3>. QED  BY <2>0, <3>1, <3>2, TurnTimed
    <2>2. ASSUME NEW err, Fail(d, err) PROVE TimedOK' /\ PassOK'
        <3>1. NextDevice /\ tmout \subseteq tmout'
            BY <2>2 DEF Fail
        <3>2. << >> \in Seq(Action(d)) /\ OwnLogins(<< >>)
            BY DEF OwnLogins
        <3>3. NoClients(acts'[d]) /\ \A e \in Devs \ {d} : acts'[e] = acts[e]
            <4>1. CASE connect_state[d] = "CONNECTED"
                <5>1. PICK r \in reconnect(d, << >>) : acts' = [ acts EXCEPT ![d] = r.queue ]
                    BY <2>2, <4>1 DEF Fail
                <5>2. \A c \in Clients : held(r.queue, c) = held(<< >>, c)
                    BY <3>2, ReconnectHeld
                <5>. QED  BY <5>1, <5>2, HeldEmpty DEF NoClients, TypeOK, QueueTypeOK
            <4>2. CASE connect_state[d] # "CONNECTED"
                BY <2>2, <4>2, HeldEmpty DEF Fail, NoClients, TypeOK, QueueTypeOK
            <4>. QED  BY <4>1, <4>2
        <3>. QED  BY <2>0, <3>1, <3>3, TurnTimed
    <2>3. CASE HeadDone(d) /\ \A e \in Devs \ {d} : acts'[e] = acts[e]
        BY <2>0, <2>3, StayTimed DEF HeadDone, Processing
    <2>4. CASE HeadStays(d) /\ \A e \in Devs \ {d} : acts'[e] = acts[e]
        <3>1. CASE UNCHANGED << phase, cur, tmout >>
            BY <2>0, <2>4, <3>1, StayTimed DEF Processing
        <3>2. CASE NextDevice /\ << "stamp", d >> \in tmout' /\ tmout \subseteq tmout'
            BY <2>0, <2>4, <3>2, TurnTimed
        <3>. QED  BY <2>4, <3>1, <3>2 DEF HeadStays
    <2>. QED  BY <1>6, <2>1, <2>2, <2>3, <2>4, ProcessCases
<1>7. ASSUME NEW d \in Devs, Network(d) PROVE TimedOK' /\ PassOK'
    BY <1>7 DEF Network, LinkOpens, LinkDrops, Answers, Environment, TimedOK, PassOK, Served,
       NoClients
<1>8. ASSUME NEW d \in Devs, Time(d) PROVE TimedOK' /\ PassOK'
    <2>1. /\ phase' = phase /\ phase # "start" /\ cur' = cur /\ tmout' = tmout
          /\ calls' = << >>
        BY <1>8 DEF Time, StampExpires, DelayExpires, RetryExpires, PingFallsDue, Clock,
           Environment, Processing
    <2>2. Balanced(d) /\ \A c \in Clients : held(calls', c) = 0
        BY <1>8, <2>1, TimeBalanced, HeldEmpty
    <2>3. TypeOK'
        BY <1>8, TimeType
    <2>4. ASSUME NEW c \in Clients PROVE held(acts'[d], c) = held(acts[d], c)
        <3>1. held(acts'[d], c) \in Nat
            BY <2>3, HeldType DEF TypeOK, QueueTypeOK
        <3>. QED  BY <2>2, <3>1 DEF Balanced
    <2>5. \A e \in Devs \ {d} : acts'[e] = acts[e]
        BY <2>2 DEF Balanced
    <2>. QED  BY <2>1, <2>4, <2>5, StayTimed
<1>9. CASE UNCHANGED vars
    BY <1>9 DEF vars, TimedOK, PassOK, Served, NoClients
<1>. QED  BY <1>1, <1>2, <1>3, <1>4, <1>5, <1>6, <1>7, <1>8, <1>9 DEF Next

(* The daemon never sleeps past the time-out of a client's action: every   *)
(* poll that begins with one in the queue of a device is bound by the time *)
(* the action at the head of that queue has left, whichever way the pass   *)
(* came to it.                                                             *)
THEOREM PollsAreTimed == Spec => []ClientsAreTimed
<1>1. Init => TimedOK /\ PassOK
    BY HeldEmpty DEF Init, TimedOK, PassOK, Served, NoClients
<1>2. TypeOK /\ LoginsAreOwn /\ TimedOK /\ PassOK /\ [Next]_vars => TimedOK' /\ PassOK'
    BY TimedStep
<1>3. TypeOK /\ TimedOK => ClientsAreTimed
    <2>. SUFFICES ASSUME TypeOK, TimedOK, NEW d \in Devs, phase = "poll",
                         NEW i \in DOMAIN acts[d], acts[d][i].client # NoClient
                  PROVE  << "stamp", d >> \in tmout
        BY DEF ClientsAreTimed
    <2>1. ~NoClients(acts[d])
        BY NoClientsQueue DEF TypeOK, QueueTypeOK
    <2>. QED  BY <2>1 DEF TimedOK, Served
<1>. QED  BY <1>1, <1>2, <1>3, TypeCorrect, LoginsStayOwn, PTL DEF Spec
=============================================================================
