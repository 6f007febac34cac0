----------------------------- MODULE WireProofs -----------------------------
(***************************************************************************)
(* Proofs about what Device sends and receives: the output buffer holds    *)
(* nothing but the transmission of the statement the head action is at;    *)
(* before a device is logged in it is sent nothing but the login script;   *)
(* and if scripts expect each answer they ask for, what is matched is the  *)
(* answer to the action that matches it, so is what is reported, and what  *)
(* ends without an error has been sent.                                    *)
(***************************************************************************)
EXTENDS DeviceProofs

(***************************************************************************)
(* The inductive invariant                                                 *)
(***************************************************************************)

(* OutputIsHeads for one device, with what makes it inductive: output is   *)
(* only kept for a device that is connected, and the head is at the send   *)
(* that wrote it.                                                          *)
OutputOK(d) ==
    to[d] # << >> =>
        /\ connect_state[d] = "CONNECTED"
        /\ Len(to[d]) = 1 /\ acts[d] # << >>
        /\ to[d][1].com = Head(acts[d]).com /\ to[d][1].client = Head(acts[d]).client
        /\ cur_stmt(top(d)).type = "send"
        /\ top(d).processing /\ top(d).plugs = to[d][1].plugs

OutputIsSent == \A d \in Devs : OutputOK(d)

(* The device has heard nothing but the login before it is logged in.      *)
HeardOK(d) == ~logged_in[d] => \A i \in DOMAIN heard[d] : heard[d][i].com = "login"

HeardIsLogin == \A d \in Devs : HeardOK(d)

(***************************************************************************)
(* Steps that keep the output of one device                                *)
(***************************************************************************)

(* A step about device d has to be looked at for d only.                   *)
LEMMA OutputOneDevice ==
    ASSUME OutputIsSent, NEW d, OutputOK(d)',
           \A e \in Devs \ {d} : /\ acts'[e] = acts[e] /\ to'[e] = to[e]
                                 /\ connect_state'[e] = connect_state[e]
    PROVE  OutputIsSent'
BY DEF OutputIsSent, OutputOK, top

(* A head that stays the same, but for its timers.                         *)
LEMMA OutputKept ==
    ASSUME NEW d, OutputOK(d), to'[d] = to[d], connect_state'[d] = connect_state[d],
           acts[d] # << >> => /\ acts'[d] # << >>
                              /\ Head(acts'[d]).com = Head(acts[d]).com
                              /\ Head(acts'[d]).client = Head(acts[d]).client
                              /\ Head(acts'[d]).exec = Head(acts[d]).exec
    PROVE  OutputOK(d)'
BY DEF OutputOK, top

(* A step that touches neither queues nor output buffers nor connections.  *)
LEMMA OutputSame ==
    ASSUME OutputIsSent, acts' = acts, to' = to, connect_state' = connect_state
    PROVE  OutputIsSent'
BY DEF OutputIsSent, OutputOK, top

(* A reconnection leaves no output, and touches no other device.           *)
LEMMA ReconnectedOutput ==
    ASSUME TypeOK, NEW d \in Devs, OutputOK(d), NEW r, Reconnected(d, r)
    PROVE  /\ to'[d] = << >> /\ heard'[d] = << >>
           /\ \A e \in Devs \ {d} : /\ to'[e] = to[e] /\ heard'[e] = heard[e]
                                    /\ connect_state'[e] = connect_state[e]
                                    /\ logged_in'[e] = logged_in[e]
<1>1. /\ connect_state' = [ connect_state EXCEPT ![d] = r.state ]
      /\ heard' = [ heard EXCEPT ![d] = << >> ]
    BY DEF Reconnected
<1>2. CASE connect_state[d] = "NOT_CONNECTED"
    <2>1. to' = to /\ logged_in' = logged_in
        BY <1>2 DEF Reconnected
    <2>2. to[d] = << >>
        BY <1>2 DEF OutputOK
    <2>. QED  BY <1>1, <2>1, <2>2 DEF TypeOK, ConnTypeOK, WireTypeOK
<1>3. CASE connect_state[d] # "NOT_CONNECTED"
    <2>1. /\ to' = [ to EXCEPT ![d] = << >> ]
          /\ logged_in' = [ logged_in EXCEPT ![d] = FALSE ]
        BY <1>3 DEF Reconnected
    <2>. QED  BY <1>1, <2>1 DEF TypeOK, ConnTypeOK, WireTypeOK
<1>. QED  BY <1>2, <1>3

(* A head that fails leaves no output behind.                              *)
LEMMA FailOutput ==
    ASSUME TypeOK, OutputIsSent, NEW d \in Devs, NEW err, Fail(d, err)
    PROVE  OutputIsSent'
<1>1. OutputOK(d)
    BY DEF OutputIsSent
<1>2. CASE connect_state[d] = "CONNECTED"
    <2>1. PICK r : Reconnected(d, r) /\ acts' = [ acts EXCEPT ![d] = r.queue ]
        BY <1>2 DEF Fail
    <2>2. to'[d] = << >>
        BY <1>1, <2>1, ReconnectedOutput
    <2>3. \A e \in Devs \ {d} : /\ acts'[e] = acts[e] /\ to'[e] = to[e]
                                /\ connect_state'[e] = connect_state[e]
        BY <1>1, <2>1, ReconnectedOutput DEF TypeOK, QueueTypeOK
    <2>4. OutputOK(d)'
        BY <2>2 DEF OutputOK
    <2>. QED  BY <2>3, <2>4, OutputOneDevice
<1>3. CASE connect_state[d] # "CONNECTED"
    <2>1. /\ acts' = [ acts EXCEPT ![d] = << >> ]
          /\ connect_state' = connect_state /\ to' = to
        BY <1>3 DEF Fail, conn, bufs
    <2>2. to[d] = << >>
        BY <1>1, <1>3 DEF OutputOK
    <2>3. OutputOK(d)'
        BY <2>1, <2>2 DEF OutputOK
    <2>. QED  BY <2>1, <2>3, OutputOneDevice DEF TypeOK, QueueTypeOK
<1>. QED  BY <1>2, <1>3

(* With nothing to send, only the rest of the queue may change.            *)
LEMMA OutputNone ==
    ASSUME TypeOK, OutputIsSent, NEW d \in Devs, to[d] = << >>, to' = to,
           connect_state' = connect_state,
           \A e \in Devs \ {d} : acts'[e] = acts[e]
    PROVE  OutputIsSent'
<1>1. OutputOK(d)'
    BY DEF OutputOK
<1>. QED  BY <1>1, OutputOneDevice

(* Whatever a statement that is done or stalls does, it does to the queue  *)
(* of its own device.                                                      *)
LEMMA OthersQueues ==
    ASSUME TypeOK, NEW d \in Devs,
           \/ \E exec : Finish(d, exec) \/ GoOn(d, exec)
           \/ \E act, timers : Stall(d, act, timers)
    PROVE  /\ connect_state' = connect_state
           /\ \A e \in Devs \ {d} : acts'[e] = acts[e] /\ logged_in'[e] = logged_in[e]
           /\ logged_in[d] => logged_in'[d]
BY DEF Finish, GoOn, Stall, requeue, conn, TypeOK, QueueTypeOK, ConnTypeOK

(***************************************************************************)
(* The output buffer, action by action                                     *)
(***************************************************************************)

(* A send writes when nothing is in the buffer, and then waits for it.     *)
LEMMA SendOutput ==
    ASSUME TypeOK, OutputIsSent, NEW d \in Devs, process_send(d)
    PROVE  OutputIsSent'
<1>. DEFINE e == top(d)
            flag(b) == set_top(head(d).exec, [ e EXCEPT !.processing = b ])
            sent == [ com |-> head(d).com, client |-> head(d).client,
                      plugs |-> e.plugs, arg |-> cur_stmt(e).arg ]
            written == IF e.processing THEN to[d] ELSE Append(to[d], sent)
            act == [ head(d) EXCEPT !.exec = flag(TRUE) ]
<1>1. /\ acts[d] # << >> /\ cur_stmt(e).type = "send"
      /\ connect_state[d] = "CONNECTED" /\ OutputOK(d)
      /\ to' = [ to EXCEPT ![d] = written ]
    BY DEF process_send, Executes, OutputIsSent
<1>2. /\ head(d) \in Action(d)
      /\ head(d).com = Head(acts[d]).com /\ head(d).client = Head(acts[d]).client
      /\ head(d).exec = Head(acts[d]).exec
      /\ e \in ExecCtx(Plugs(d)) /\ Tail(acts[d]) \in Seq(Action(d))
    BY <1>1, HeadType DEF TypeOK
<1>3. /\ to'[d] = written
      /\ \A f \in Devs \ {d} : to'[f] = to[f]
    BY <1>1 DEF TypeOK, WireTypeOK
<1>4. CASE written = << >>
    <2>1. Finish(d, flag(FALSE))
        BY <1>4 DEF process_send
    <2>2. OutputOK(d)'
        BY <1>3, <1>4 DEF OutputOK
    <2>. QED  BY <1>3, <2>1, <2>2, OthersQueues, OutputOneDevice
<1>5. CASE written # << >>
    <2>1. Stall(d, act, {})
        BY <1>2, <1>5 DEF process_send
    <2>2. \A f \in Devs \ {d} : acts'[f] = acts[f] /\ connect_state'[f] = connect_state[f]
        BY <2>1, OthersQueues
    <2>3. acts'[d] = << act >> \o Tail(acts[d]) /\ connect_state' = connect_state
        BY <2>1 DEF Stall, requeue, conn, TypeOK, QueueTypeOK
    <2>4. /\ act.com = Head(acts[d]).com /\ act.client = Head(acts[d]).client
          /\ act.exec = flag(TRUE)
        BY <1>2 DEF Action
    <2>5. acts'[d] # << >> /\ Head(acts'[d]) = act
        <3>. HIDE DEF act
        <3>. QED  BY <1>2, <2>3
    <2>6. Head(act.exec) = [ e EXCEPT !.processing = TRUE ]
        BY <2>4 DEF set_top
    <2>7. top(d)' = [ e EXCEPT !.processing = TRUE ]
        BY <2>5, <2>6 DEF top
    <2>8. /\ top(d)'.processing /\ top(d)'.plugs = e.plugs
          /\ cur_stmt(top(d)') = cur_stmt(e)
        BY <1>2, <2>7 DEF ExecCtx, cur_stmt
    <2>9. Len(written) = 1 /\ written[1].plugs = e.plugs
          /\ written[1].com = Head(acts[d]).com /\ written[1].client = Head(acts[d]).client
        <3>1. CASE e.processing
            BY <1>1, <1>5, <3>1 DEF OutputOK
        <3>2. CASE ~e.processing
            <4>1. to[d] = << >>
                BY <1>1, <3>2 DEF OutputOK
            <4>2. written = << sent >>
                BY <3>2, <4>1
            <4>3. Len(written) = 1 /\ written[1] = sent
                <5>. HIDE DEF sent, written
                <5>. QED  BY <4>2
            <4>. QED  BY <1>2, <4>3
        <3>. QED  BY <3>1, <3>2
    <2>. HIDE DEF act, written, sent
    <2>10. OutputOK(d)'
        BY <1>1, <1>3, <2>3, <2>4, <2>5, <2>8, <2>9 DEF OutputOK, cur_stmt
    <2>. QED  BY <1>3, <2>2, <2>10, OutputOneDevice
<1>. QED  BY <1>4, <1>5

(* No other statement is executed while there is output.                   *)
LEMMA StatementOutput ==
    ASSUME TypeOK, OutputIsSent, NEW d \in Devs, Statement(d)
    PROVE  OutputIsSent'
<1>1. CASE process_send(d)
    BY <1>1, SendOutput
<1>2. ASSUME NEW t, Executes(d, t), t # "send"
      PROVE  to[d] = << >>
    BY <1>2 DEF Executes, OutputIsSent, OutputOK
<1>3. ASSUME to[d] = << >>, to' = to,
             \/ \E exec : Finish(d, exec) \/ GoOn(d, exec)
             \/ \E act, timers : Stall(d, act, timers)
      PROVE  OutputIsSent'
    BY <1>3, OthersQueues, OutputNone
<1>4. CASE process_expect(d)
    <2>1. to[d] = << >> /\ to' = to
        BY <1>2, <1>4 DEF process_expect
    <2>2. Finish(d, head(d).exec) \/ Stall(d, head(d), {})
        BY <1>4 DEF process_expect
    <2>. QED  BY <1>3, <2>1, <2>2
<1>5. CASE process_delay(d)
    <2>1. to[d] = << >> /\ to' = to
        BY <1>2, <1>5 DEF process_delay, bufs
    <2>2. (\E exec : Finish(d, exec)) \/ \E act : Stall(d, act, { << "delay", d >> })
        BY <1>5 DEF process_delay
    <2>. QED  BY <1>3, <2>1, <2>2
<1>6. CASE process_setplugstate(d)
    <2>1. to[d] = << >> /\ to' = to /\ Finish(d, head(d).exec)
        BY <1>2, <1>6 DEF process_setplugstate, bufs
    <2>. QED  BY <1>3, <2>1
<1>7. CASE process_foreach(d)
    <2>1. to[d] = << >> /\ to' = to
        BY <1>2, <1>7 DEF process_foreach, bufs
    <2>2. \E exec : Finish(d, exec) \/ GoOn(d, exec)
        BY <1>7 DEF process_foreach
    <2>. QED  BY <1>3, <2>1, <2>2
<1>8. CASE process_ifonoff(d)
    <2>1. to[d] = << >>
        BY <1>2, <1>8 DEF process_ifonoff
    <2>2. \/ Fail(d, "EEXPFAIL")
          \/ to' = to /\ \E exec : Finish(d, exec) \/ GoOn(d, exec)
        BY <1>8 DEF process_ifonoff, bufs
    <2>. QED  BY <1>3, <2>1, <2>2, FailOutput
<1>. QED  BY <1>1, <1>4, <1>5, <1>6, <1>7, <1>8 DEF Statement

(* A visit empties the output buffer, or finds it empty.                   *)
LEMMA VisitOutput ==
    ASSUME TypeOK, OutputIsSent, NEW d \in Devs, Visit(d)
    PROVE  OutputIsSent'
<1>1. OutputOK(d)
    BY DEF OutputIsSent
<1>2. \A e \in Devs \ {d} : acts'[e] = acts[e]
    BY DEF Visit, VisitUnconnected, VisitFinishConnect, VisitConnected, VisitConnecting,
       enqueue_ping, TypeOK, QueueTypeOK
<1>3. to'[d] = << >> /\ \A e \in Devs \ {d} : to'[e] = to[e]
                                             /\ connect_state'[e] = connect_state[e]
    <2>1. CASE VisitUnconnected(d)
        <3>1. PICK r : Reconnected(d, r)
            BY <2>1 DEF VisitUnconnected
        <3>. QED  BY <1>1, <3>1, ReconnectedOutput
    <2>2. CASE VisitFinishConnect(d)
        BY <1>1, <2>2 DEF VisitFinishConnect, bufs, OutputOK, TypeOK, ConnTypeOK
    <2>3. CASE VisitConnected(d)
        BY <2>3 DEF VisitConnected, conn, TypeOK, WireTypeOK
    <2>4. CASE VisitConnecting(d)
        BY <1>1, <2>4 DEF VisitConnecting, bufs, conn, OutputOK
    <2>. QED  BY <2>1, <2>2, <2>3, <2>4 DEF Visit
<1>4. OutputOK(d)'
    BY <1>3 DEF OutputOK
<1>. QED  BY <1>2, <1>3, <1>4, OutputOneDevice

(* Time changes the timers of actions only.                                *)
LEMMA TimeOutput ==
    ASSUME TypeOK, OutputIsSent, NEW d \in Devs, Time(d)
    PROVE  OutputIsSent'
<1>1. connect_state' = connect_state /\ to' = to
    BY DEF Time, StampExpires, DelayExpires, RetryExpires, PingFallsDue, Clock, Environment, bufs
<1>2. CASE RetryExpires(d) \/ PingFallsDue(d)
    BY <1>1, <1>2, OutputSame DEF RetryExpires, PingFallsDue
<1>3. CASE StampExpires(d) \/ DelayExpires(d)
    <2>1. PICK i \in DOMAIN acts[d] :
             \/ acts' = [ acts EXCEPT ![d][i].time_stamp = "expired" ]
             \/ acts' = [ acts EXCEPT ![d][i].delay_start = "expired" ]
        BY <1>3 DEF StampExpires, DelayExpires
    <2>2. acts[d] \in Seq(Action(d)) /\ acts[d][i] \in Action(d)
        BY DEF TypeOK, QueueTypeOK
    <2>3. PICK a : /\ a.com = acts[d][i].com /\ a.client = acts[d][i].client
                   /\ a.exec = acts[d][i].exec /\ acts' = [ acts EXCEPT ![d][i] = a ]
        BY <2>1, <2>2 DEF Action
    <2>4. acts'[d] = [ acts[d] EXCEPT ![i] = a ] /\ \A e \in Devs \ {d} : acts'[e] = acts[e]
        BY <2>3 DEF TypeOK, QueueTypeOK
    <2>5. acts'[d] # << >> /\ Head(acts'[d]) = IF i = 1 THEN a ELSE Head(acts[d])
        BY <2>2, <2>4
    <2>6. OutputOK(d)'
        <3>1. Head(acts[d]) = acts[d][1]
            BY <2>2
        <3>. QED  BY <1>1, <2>3, <2>5, <3>1, OutputKept DEF OutputIsSent
    <2>. QED  BY <1>1, <2>4, <2>6, OutputOneDevice
<1>. QED  BY <1>2, <1>3 DEF Time

(* A command of a client is queued behind the head.                        *)
LEMMA ClientCommandOutput ==
    ASSUME TypeOK, OutputIsSent, ClientCommand
    PROVE  OutputIsSent'
<1>1. PICK com \in ClientComs, c \in Clients, hl \in SUBSET Nodes :
         dev_enqueue_actions(com, hl, c)
    BY DEF ClientCommand
<1>2. to' = to /\ connect_state' = connect_state
    BY <1>1 DEF dev_enqueue_actions, bufs
<1>3. ASSUME NEW d \in Devs PROVE OutputOK(d)'
    <2>. DEFINE new == new_acts(d, com, hl, c)
    <2>1. acts[d] \in Seq(Action(d)) /\ new \in Seq(Action(d))
        BY NewActsType DEF TypeOK, QueueTypeOK
    <2>2. acts'[d] = acts[d] \o new
        BY <1>1 DEF dev_enqueue_actions
    <2>. HIDE DEF new
    <2>3. acts[d] # << >> => acts'[d] # << >> /\ Head(acts'[d]) = Head(acts[d])
        BY <2>1, <2>2
    <2>. QED  BY <1>2, <2>3, OutputKept DEF OutputIsSent
<1>. QED  BY <1>3 DEF OutputIsSent

(* A first connection finds no output.                                     *)
LEMMA InitialConnectOutput ==
    ASSUME TypeOK, OutputIsSent, dev_initial_connect
    PROVE  OutputIsSent'
<1>1. cur \in Devs /\ OutputOK(cur)
    BY DEF TypeOK, LoopTypeOK, OutputIsSent
<1>2. PICK r : Reconnected(cur, r) /\ acts' = [ acts EXCEPT ![cur] = r.queue ]
    BY DEF dev_initial_connect
<1>3. to'[cur] = << >>
    BY <1>1, <1>2, ReconnectedOutput
<1>4. \A e \in Devs \ {cur} : /\ acts'[e] = acts[e] /\ to'[e] = to[e]
                              /\ connect_state'[e] = connect_state[e]
    BY <1>1, <1>2, ReconnectedOutput DEF TypeOK, QueueTypeOK
<1>. DEFINE d == cur
<1>5. ASSUME NEW e \in Devs PROVE OutputOK(e)'
    <2>1. CASE e = cur
        BY <1>3, <2>1 DEF OutputOK
    <2>2. CASE e # cur
        BY <1>4, <2>2, OutputKept DEF OutputIsSent
    <2>. QED  BY <2>1, <2>2
<1>. QED  BY <1>5 DEF OutputIsSent

(* Every step keeps the output buffers as the heads of the queues wrote    *)
(* them.                                                                   *)
LEMMA OutputStep ==
    ASSUME TypeOK, OutputIsSent, [Next]_vars
    PROVE  OutputIsSent'
<1>1. CASE dev_initial_connect
    BY <1>1, InitialConnectOutput
<1>2. CASE PollReturns \/ ClientsDone \/ UNCHANGED vars
    BY <1>2, OutputSame DEF PollReturns, ClientsDone, vars, conn, bufs
<1>3. CASE ClientCommand
    BY <1>3, ClientCommandOutput
<1>4. ASSUME NEW d \in Devs, Visit(d) PROVE OutputIsSent'
    BY <1>4, VisitOutput
<1>5. ASSUME NEW d \in Devs, Process(d) PROVE OutputIsSent'
    <2>1. CASE ProcessIdle(d)
        BY <2>1, OutputSame DEF ProcessIdle, conn, bufs
    <2>2. CASE ProcessTimeout(d)
        BY <2>2, FailOutput DEF ProcessTimeout
    <2>3. CASE ProcessUnconnected(d)
        <3>1. Stall(d, head(d), {}) /\ to' = to /\ to[d] = << >>
            BY <2>3 DEF ProcessUnconnected, bufs, OutputIsSent, OutputOK
        <3>. QED  BY <3>1, OthersQueues, OutputNone
    <2>4. CASE Statement(d)
        BY <2>4, StatementOutput
    <2>. QED  BY <1>5, <2>1, <2>2, <2>3, <2>4 DEF Process
<1>6. ASSUME NEW d \in Devs, Network(d) PROVE OutputIsSent'
    BY <1>6, OutputSame DEF Network, LinkOpens, LinkDrops, Answers, Environment, bufs
<1>7. ASSUME NEW d \in Devs, Time(d) PROVE OutputIsSent'
    BY <1>7, TimeOutput
<1>. QED  BY <1>1, <1>2, <1>3, <1>4, <1>5, <1>6, <1>7 DEF Next

(* Output never mixes: what waits to be sent to a device was written by    *)
(* one execution of the send its head action is at, for the plugs of that  *)
(* action, and it is gone when the head is another one.                    *)
THEOREM OutputIsOfHead == Spec => []OutputIsHeads
<1>1. Init => OutputIsSent
    BY DEF Init, OutputIsSent, OutputOK
<1>2. TypeOK /\ OutputIsSent /\ [Next]_vars => OutputIsSent'
    BY OutputStep
<1>3. OutputIsSent => OutputIsHeads
    BY DEF OutputIsSent, OutputOK, OutputIsHeads
<1>. QED  BY <1>1, <1>2, <1>3, TypeCorrect, PTL DEF Spec

(***************************************************************************)
(* Only the login before the login                                         *)
(***************************************************************************)

(* A step after which a device that is not logged in was not before it and *)
(* heard nothing new in it.                                                *)
LEMMA HeardKept ==
    ASSUME HeardIsLogin,
           \A d \in Devs : \/ heard'[d] = heard[d] /\ (logged_in[d] => logged_in'[d])
                           \/ heard'[d] = << >>
    PROVE  HeardIsLogin'
BY DEF HeardIsLogin, HeardOK

(* Logins and then logins are logins.                                      *)
LEMMA ConcatLogins ==
    ASSUME NEW S, NEW s \in Seq(S), NEW t \in Seq(S),
           \A i \in DOMAIN s : s[i].com = "login", \A i \in 1..Len(t) : t[i].com = "login"
    PROVE  \A i \in DOMAIN (s \o t) : (s \o t)[i].com = "login"
<1>1. /\ Len(s) \in Nat /\ Len(t) \in Nat /\ DOMAIN s = 1..Len(s)
      /\ s \o t \in Seq(S) /\ Len(s \o t) = Len(s) + Len(t)
    OBVIOUS
<1>2. DOMAIN (s \o t) = 1..(Len(s) + Len(t))
    BY <1>1
<1>3. ASSUME NEW i \in 1..(Len(s) + Len(t)) PROVE (s \o t)[i].com = "login"
    <2>1. CASE i <= Len(s)
        <3>1. (s \o t)[i] = s[i] /\ i \in 1..Len(s)
            BY <1>1, <2>1
        <3>. QED  BY <1>1, <3>1
    <2>2. CASE i > Len(s)
        <3>1. (s \o t)[i] = t[i - Len(s)] /\ i - Len(s) \in 1..Len(t)
            BY <1>1, <2>2
        <3>. QED  BY <3>1
    <2>. QED  BY <1>1, <2>1, <2>2
<1>. QED  BY <1>2, <1>3

(* What is transmitted before a device is logged in is of the login.       *)
LEMMA TransmitLogin ==
    ASSUME TypeOK, LoginFirst, OutputIsSent, HeardIsLogin, NEW d \in Devs,
           VisitConnected(d)
    PROVE  HeardIsLogin'
<1>1. logged_in' = logged_in
    BY DEF VisitConnected, conn
<1>2. \A e \in Devs \ {d} : heard'[e] = heard[e]
    BY DEF VisitConnected, TypeOK, WireTypeOK
<1>3. heard'[d] = heard[d] \/ heard'[d] = heard[d] \o to[d]
    BY DEF VisitConnected, TypeOK, WireTypeOK
<1>4. HeardOK(d)'
    <2>. SUFFICES ASSUME ~logged_in[d], heard'[d] = heard[d] \o to[d]
                  PROVE  \A i \in DOMAIN heard'[d] : heard'[d][i].com = "login"
        BY <1>1, <1>3 DEF HeardIsLogin, HeardOK
    <2>1. \A i \in DOMAIN heard[d] : heard[d][i].com = "login"
        BY DEF HeardIsLogin, HeardOK
    <2>2. connect_state[d] = "CONNECTED"
        BY DEF VisitConnected
    <2>3. acts[d] # << >> /\ Head(acts[d]).com = "login"
        BY <2>2, LoginFirstOK DEF LoginOK, LoginAt
    <2>4. heard[d] \in Seq(Sent(d)) /\ to[d] \in Seq(Sent(d))
        BY DEF TypeOK, WireTypeOK
    <2>5. \A i \in 1..Len(to[d]) : to[d][i].com = "login"
        <3>1. CASE to[d] = << >>
            BY <3>1
        <3>2. CASE to[d] # << >>
            BY <2>3, <3>2 DEF OutputIsSent, OutputOK
        <3>. QED  BY <3>1, <3>2
    <2>6. \A i \in DOMAIN (heard[d] \o to[d]) : (heard[d] \o to[d])[i].com = "login"
        BY <2>1, <2>4, <2>5, ConcatLogins
    <2>. QED  BY <2>6
<1>. QED  BY <1>1, <1>2, <1>4 DEF HeardIsLogin, HeardOK

(* Nothing else puts anything on the wire, and what logs a device out      *)
(* empties it.                                                             *)
LEMMA HeardStep ==
    ASSUME TypeOK, LoginFirst, OutputIsSent, HeardIsLogin, [Next]_vars
    PROVE  HeardIsLogin'
<1>1. ASSUME heard' = heard, \A d \in Devs : logged_in[d] => logged_in'[d]
      PROVE  HeardIsLogin'
    BY <1>1, HeardKept
<1>2. ASSUME NEW d \in Devs, NEW r, Reconnected(d, r)
      PROVE  HeardIsLogin'
    <2>1. /\ heard'[d] = << >>
          /\ \A e \in Devs \ {d} : heard'[e] = heard[e] /\ logged_in'[e] = logged_in[e]
        BY <1>2, ReconnectedOutput DEF OutputIsSent
    <2>. QED  BY <2>1, HeardKept
<1>3. ASSUME NEW d \in Devs, NEW err, Fail(d, err)
      PROVE  HeardIsLogin'
    <2>1. CASE connect_state[d] = "CONNECTED"
        BY <1>2, <1>3, <2>1 DEF Fail
    <2>2. CASE connect_state[d] # "CONNECTED"
        BY <1>1, <1>3, <2>2 DEF Fail, conn
    <2>. QED  BY <2>1, <2>2
<1>4. CASE dev_initial_connect
    <2>1. cur \in Devs /\ \E r : Reconnected(cur, r)
        BY <1>4 DEF dev_initial_connect, TypeOK, LoopTypeOK
    <2>. QED  BY <1>2, <2>1
<1>5. CASE PollReturns \/ ClientsDone \/ UNCHANGED vars
    BY <1>1, <1>5 DEF PollReturns, ClientsDone, vars, conn, wire
<1>6. CASE ClientCommand
    BY <1>1, <1>6 DEF ClientCommand, dev_enqueue_actions
<1>7. ASSUME NEW d \in Devs, Visit(d) PROVE HeardIsLogin'
    <2>1. CASE VisitUnconnected(d)
        BY <1>2, <2>1 DEF VisitUnconnected
    <2>2. CASE VisitFinishConnect(d)
        BY <1>1, <2>2 DEF VisitFinishConnect, wire
    <2>3. CASE VisitConnected(d)
        BY <2>3, TransmitLogin
    <2>4. CASE VisitConnecting(d)
        BY <1>1, <2>4 DEF VisitConnecting, conn, wire
    <2>. QED  BY <1>7, <2>1, <2>2, <2>3, <2>4 DEF Visit
<1>8. ASSUME NEW d \in Devs, Process(d) PROVE HeardIsLogin'
    <2>1. ASSUME wire' = wire,
                 \/ \E exec : Finish(d, exec) \/ GoOn(d, exec)
                 \/ \E act, timers : Stall(d, act, timers)
          PROVE  HeardIsLogin'
        <3>1. heard' = heard /\ \A e \in Devs : logged_in[e] => logged_in'[e]
            BY <2>1, OthersQueues DEF wire
        <3>. QED  BY <1>1, <3>1
    <2>2. CASE ProcessIdle(d)
        BY <1>1, <2>2 DEF ProcessIdle, conn, wire
    <2>3. CASE ProcessTimeout(d)
        BY <1>3, <2>3 DEF ProcessTimeout
    <2>4. CASE ProcessUnconnected(d)
        BY <2>1, <2>4 DEF ProcessUnconnected
    <2>5. CASE process_send(d)
        <3>1. wire' = wire
            BY <2>5 DEF process_send
        <3>2. (\E exec : Finish(d, exec)) \/ \E act : Stall(d, act, {})
            BY <2>5 DEF process_send
        <3>. QED  BY <2>1, <3>1, <3>2
    <2>6. CASE process_expect(d)
        BY <2>1, <2>6 DEF process_expect
    <2>7. CASE process_delay(d)
        <3>1. wire' = wire
            BY <2>7 DEF process_delay
        <3>2. (\E exec : Finish(d, exec)) \/ \E act : Stall(d, act, { << "delay", d >> })
            BY <2>7 DEF process_delay
        <3>. QED  BY <2>1, <3>1, <3>2
    <2>8. CASE process_setplugstate(d)
        BY <2>1, <2>8 DEF process_setplugstate
    <2>9. CASE process_foreach(d)
        <3>1. wire' = wire
            BY <2>9 DEF process_foreach
        <3>2. \E exec : Finish(d, exec) \/ GoOn(d, exec)
            BY <2>9 DEF process_foreach
        <3>. QED  BY <2>1, <3>1, <3>2
    <2>10. CASE process_ifonoff(d)
        <3>1. \/ Fail(d, "EEXPFAIL")
              \/ wire' = wire /\ \E exec : Finish(d, exec) \/ GoOn(d, exec)
            BY <2>10 DEF process_ifonoff
        <3>. QED  BY <1>3, <2>1, <3>1
    <2>. QED  BY <1>8, <2>2, <2>3, <2>4, <2>5, <2>6, <2>7, <2>8, <2>9, <2>10
              DEF Process, Statement
<1>9. ASSUME NEW d \in Devs, Network(d) PROVE HeardIsLogin'
    <2>1. logged_in' = logged_in
        BY <1>9 DEF Network, LinkOpens, LinkDrops, Answers, Environment
    <2>2. CASE LinkOpens(d)
        BY <1>1, <2>1, <2>2 DEF LinkOpens
    <2>3. CASE LinkDrops(d)
        <3>1. heard' = [ heard EXCEPT ![d] = << >> ]
            BY <2>3 DEF LinkDrops
        <3>. QED  BY <2>1, <3>1, HeardKept DEF TypeOK, WireTypeOK
    <2>4. CASE Answers(d)
        <3>1. heard' = [ heard EXCEPT ![d] = Tail(heard[d]) ] /\ heard[d] # << >>
            BY <2>4 DEF Answers
        <3>2. heard[d] \in Seq(Sent(d)) /\ DOMAIN heard = Devs
            BY DEF TypeOK, WireTypeOK
        <3>3. \A i \in DOMAIN Tail(heard[d]) : i + 1 \in DOMAIN heard[d]
                                              /\ Tail(heard[d])[i] = heard[d][i + 1]
            BY <3>1, <3>2
        <3>4. HeardOK(d)'
            BY <2>1, <3>1, <3>2, <3>3 DEF HeardIsLogin, HeardOK
        <3>. QED  BY <2>1, <3>1, <3>2, <3>4 DEF HeardIsLogin, HeardOK
    <2>. QED  BY <1>9, <2>2, <2>3, <2>4 DEF Network
<1>10. ASSUME NEW d \in Devs, Time(d) PROVE HeardIsLogin'
    BY <1>1, <1>10 DEF Time, StampExpires, DelayExpires, RetryExpires, PingFallsDue, Clock,
       Environment
<1>. QED  BY <1>4, <1>5, <1>6, <1>7, <1>8, <1>9, <1>10 DEF Next

(* A device that is not logged in is sent the login script and nothing     *)
(* else, and what a lost connection left unsent is never sent on the next. *)
THEOREM LoginIsSentAlone == Spec => []OnlyLoginBeforeLogin
<1>1. Init => OutputIsSent /\ HeardIsLogin
    BY DEF Init, OutputIsSent, OutputOK, HeardIsLogin, HeardOK
<1>2. TypeOK /\ LoginFirst /\ OutputIsSent /\ HeardIsLogin /\ [Next]_vars
        => OutputIsSent' /\ HeardIsLogin'
    BY OutputStep, HeardStep
<1>3. TypeOK /\ LoginFirst /\ OutputIsSent /\ HeardIsLogin => OnlyLoginBeforeLogin
    <2>. SUFFICES ASSUME TypeOK, LoginFirst, OutputIsSent, HeardIsLogin,
                         NEW d \in Devs, ~logged_in[d], NEW i \in DOMAIN to[d]
                  PROVE  connect_state[d] = "CONNECTED" /\ to[d][i].com = "login"
        BY DEF OnlyLoginBeforeLogin, HeardIsLogin, HeardOK
    <2>1. to[d] \in Seq(Sent(d))
        BY DEF TypeOK, WireTypeOK
    <2>2. to[d] # << >> /\ i \in 1..Len(to[d])
        BY <2>1
    <2>3. connect_state[d] = "CONNECTED" /\ i = 1 /\ to[d][1].com = Head(acts[d]).com
        BY <2>2 DEF OutputIsSent, OutputOK
    <2>4. Head(acts[d]).com = "login"
        BY <2>3, LoginFirstOK DEF LoginOK, LoginAt
    <2>. QED  BY <2>3, <2>4
<1>. QED  BY <1>1, <1>2, <1>3, TypeCorrect, LoginComesFirst, PTL DEF Spec

(***************************************************************************)
(* Scripts that expect every answer                                        *)
(***************************************************************************)

(* Where an execution context is, whatever its iterator and its flag.      *)
place(e) == << e.block, e.stmt, e.plugs >>

(* Where a stack x is when another, s, was left: at the same place, at the *)
(* next statement of the block, back at the statement that started it, in  *)
(* an inner block.                                                         *)
Alike(x, s) == Len(x) = Len(s) /\ \A j \in 1..Len(s) : place(x[j]) = place(s[j])

Advanced(x, s) ==
    /\ Len(x) = Len(s)
    /\ x[1].block = s[1].block /\ x[1].plugs = s[1].plugs /\ x[1].stmt = s[1].stmt + 1
    /\ \A j \in 2..Len(s) : place(x[j]) = place(s[j])

Popped(x, s) ==
    /\ Len(x) = Len(s) - 1 /\ s[1].stmt = Len(Block[s[1].block])
    /\ \A j \in 1..Len(x) : place(x[j]) = place(s[j + 1])

Pushed(x, s) ==
    /\ Len(x) = Len(s) + 1 /\ x[1].stmt = 1
    /\ cur_stmt(s[1]).type \in Compound
    /\ \A j \in 1..Len(s) : place(x[j + 1]) = place(s[j])

(* The last statement of the outer block.                                  *)
AtEnd(s) == Len(s) = 1 /\ s[1].stmt = Len(Block[s[1].block])

(* What is the same of two contexts at one place.                          *)
LEMMA PlaceSame ==
    ASSUME NEW e, NEW f, place(e) = place(f)
    PROVE  e.block = f.block /\ e.stmt = f.stmt /\ e.plugs = f.plugs /\ cur_stmt(e) = cur_stmt(f)
BY DEF place, cur_stmt

(* A stack, its top and what is below it.                                  *)
LEMMA StackParts ==
    ASSUME NEW P, NEW s \in Stacks(P)
    PROVE  /\ Len(s) \in Nat \ {0} /\ DOMAIN s = 1..Len(s) /\ Head(s) = s[1]
           /\ \A j \in 1..Len(s) : s[j] \in ExecCtx(P)
           /\ Tail(s) \in Seq(ExecCtx(P)) /\ Len(Tail(s)) = Len(s) - 1
           /\ \A j \in 1..(Len(s) - 1) : Tail(s)[j] = s[j + 1]
           /\ \A e \in ExecCtx(P) :
                 /\ Len(<< e >> \o Tail(s)) = Len(s) /\ (<< e >> \o Tail(s))[1] = e
                 /\ \A j \in 2..Len(s) : (<< e >> \o Tail(s))[j] = s[j]
<1>1. s \in Seq(ExecCtx(P)) /\ s # << >>
    BY DEF Stacks
<1>2. Tail(s) \in Seq(ExecCtx(P)) /\ Len(Tail(s)) = Len(s) - 1 /\ Len(s) \in Nat \ {0}
    BY <1>1
<1>3. \A j \in 1..(Len(s) - 1) : Tail(s)[j] = s[j + 1]
    BY <1>1
<1>4. ASSUME NEW e \in ExecCtx(P)
      PROVE  /\ Len(<< e >> \o Tail(s)) = Len(s) /\ (<< e >> \o Tail(s))[1] = e
             /\ \A j \in 2..Len(s) : (<< e >> \o Tail(s))[j] = s[j]
    <2>1. << e >> \in Seq(ExecCtx(P)) /\ Len(<< e >>) = 1 /\ << e >>[1] = e
        OBVIOUS
    <2>2. /\ Len(<< e >> \o Tail(s)) = 1 + Len(Tail(s)) /\ (<< e >> \o Tail(s))[1] = e
          /\ \A j \in 2..(1 + Len(Tail(s))) : (<< e >> \o Tail(s))[j] = Tail(s)[j - 1]
        BY <1>2, <2>1
    <2>3. ASSUME NEW j \in 2..Len(s) PROVE (<< e >> \o Tail(s))[j] = s[j]
        <3>1. j - 1 \in 1..(Len(s) - 1) /\ (j - 1) + 1 = j
            BY <1>2
        <3>2. Tail(s)[j - 1] = s[(j - 1) + 1]
            BY <1>3, <3>1
        <3>. QED  BY <1>2, <2>2, <3>1, <3>2
    <2>. QED  BY <1>2, <2>2, <2>3
<1>. QED  BY <1>1, <1>2, <1>3, <1>4

(* A stack with another flag or iterator at its top.                       *)
LEMMA SetTopAlike ==
    ASSUME NEW P, NEW s \in Stacks(P), NEW e \in ExecCtx(P), place(e) = place(s[1])
    PROVE  set_top(s, e) \in Stacks(P) /\ Alike(set_top(s, e), s)
<1>1. set_top(s, e) \in Stacks(P)
    BY SetTopType
<1>2. ASSUME NEW j \in 1..Len(s) PROVE place(set_top(s, e)[j]) = place(s[j])
    <2>1. CASE j = 1
        BY <2>1, StackParts DEF set_top
    <2>2. CASE j # 1
        <3>1. j \in 2..Len(s)
            BY <2>2, StackParts
        <3>. QED  BY <3>1, StackParts DEF set_top
    <2>. QED  BY <2>1, <2>2
<1>. QED  BY <1>1, <1>2, StackParts DEF Alike, set_top

(* Where the interpreter goes when a statement is done.                    *)
LEMMA NextPlaces ==
    ASSUME NEW P, NEW s \in Stacks(P), NEW x \in Stacks(P), Alike(x, s)
    PROVE  \/ next_stmt(x) # << >> /\ Advanced(next_stmt(x), s)
           \/ next_stmt(x) # << >> /\ Popped(next_stmt(x), s)
           \/ next_stmt(x) = << >> /\ AtEnd(s)
<1>. DEFINE e == [ x[1] EXCEPT !.stmt = @ + 1 ]
            n == Len(Block[s[1].block])
<1>1. /\ Len(x) \in Nat \ {0} /\ Head(x) = x[1] /\ x[1] \in ExecCtx(P) /\ s[1] \in ExecCtx(P)
      /\ Len(s) = Len(x)
    BY StackParts DEF Alike
<1>2. place(x[1]) = place(s[1])
    BY <1>1 DEF Alike
<1>3. /\ x[1].block = s[1].block /\ x[1].stmt = s[1].stmt /\ x[1].plugs = s[1].plugs
      /\ n \in Nat /\ s[1].stmt \in Nat \ {0} /\ s[1].stmt <= n
    BY <1>1, <1>2, BlockAssumption, PlaceSame DEF ExecCtx
<1>4. CASE s[1].stmt < n
    <2>1. next_stmt(x) = << e >> \o Tail(x)
        BY <1>1, <1>3, <1>4 DEF next_stmt
    <2>2. /\ e \in ExecCtx(P) /\ e.block = s[1].block /\ e.plugs = s[1].plugs
          /\ e.stmt = s[1].stmt + 1
        <3>1. s[1].stmt + 1 \in Nat \ {0} /\ s[1].stmt + 1 <= n
            BY <1>3, <1>4
        <3>. QED  BY <1>1, <1>3, <3>1 DEF ExecCtx
    <2>. HIDE DEF e
    <2>3. /\ Len(<< e >> \o Tail(x)) = Len(x) /\ (<< e >> \o Tail(x))[1] = e
          /\ \A j \in 2..Len(x) : (<< e >> \o Tail(x))[j] = x[j]
        BY <2>2, StackParts
    <2>4. \A j \in 2..Len(s) : place(x[j]) = place(s[j])
        BY <1>1 DEF Alike
    <2>5. Advanced(next_stmt(x), s)
        BY <1>1, <2>1, <2>2, <2>3, <2>4 DEF Advanced
    <2>6. next_stmt(x) # << >>
        BY <1>1, <2>1, <2>3
    <2>. QED  BY <2>5, <2>6
<1>5. CASE s[1].stmt = n
    <2>1. next_stmt(x) = Tail(x)
        BY <1>1, <1>3, <1>5 DEF next_stmt
    <2>2. /\ Tail(x) \in Seq(ExecCtx(P)) /\ Len(Tail(x)) = Len(x) - 1
          /\ \A j \in 1..(Len(x) - 1) : Tail(x)[j] = x[j + 1]
        BY StackParts
    <2>3. ASSUME NEW j \in 1..(Len(x) - 1) PROVE place(Tail(x)[j]) = place(s[j + 1])
        <3>1. j + 1 \in 1..Len(s)
            BY <1>1
        <3>. QED  BY <2>2, <3>1 DEF Alike
    <2>4. CASE Len(x) = 1
        BY <1>1, <1>5, <2>1, <2>2, <2>4 DEF AtEnd
    <2>5. CASE Len(x) # 1
        <3>1. Tail(x) # << >>
            <4>1. Len(Tail(x)) # 0
                BY <1>1, <2>2, <2>5
            <4>2. Len(<< >>) = 0
                OBVIOUS
            <4>. QED  BY <4>1, <4>2
        <3>2. Popped(Tail(x), s)
            BY <1>1, <1>5, <2>2, <2>3 DEF Popped
        <3>. QED  BY <2>1, <3>1, <3>2
    <2>. QED  BY <2>4, <2>5
<1>. QED  BY <1>3, <1>4, <1>5

(* The head goes on as a, an action for the same command.                  *)
HeadBecomes(d, a) ==
    /\ a \in Action(d) /\ a.com = Head(acts[d]).com /\ a.client = Head(acts[d]).client
    /\ acts'[d] = << a >> \o Tail(acts[d])

Waits(d) == \E a : HeadBecomes(d, a) /\ Alike(a.exec, Head(acts[d]).exec)
GoesOn(d) == \E a : HeadBecomes(d, a) /\ Advanced(a.exec, Head(acts[d]).exec)
Leaves(d) == \E a : HeadBecomes(d, a) /\ Popped(a.exec, Head(acts[d]).exec)
Enters(d) == \E a : HeadBecomes(d, a) /\ Pushed(a.exec, Head(acts[d]).exec)

(* The head is done.                                                       *)
Ends(d) ==
    /\ acts'[d] = Tail(acts[d]) /\ AtEnd(Head(acts[d]).exec)
    /\ calls' = << [ client |-> Head(acts[d]).client, err |-> "ESUCCESS" ] >>

(* The queue with another head.                                            *)
LEMMA BecomesHead ==
    ASSUME TypeOK, NEW d \in Devs, acts[d] # << >>, NEW a, HeadBecomes(d, a)
    PROVE  /\ acts'[d] # << >> /\ Head(acts'[d]) = a /\ acts'[d][1] = a
           /\ Len(acts[d]) \in Nat \ {0} /\ DOMAIN acts[d] = 1..Len(acts[d])
           /\ Len(acts'[d]) = Len(acts[d]) /\ DOMAIN acts'[d] = 1..Len(acts[d])
           /\ acts[d][1] = Head(acts[d])
           /\ \A i \in 2..Len(acts[d]) : acts'[d][i] = acts[d][i]
           /\ top(d)' = a.exec[1]
<1>1. /\ acts[d] \in Seq(Action(d)) /\ a \in Action(d) /\ acts'[d] = << a >> \o Tail(acts[d])
    BY DEF TypeOK, QueueTypeOK, HeadBecomes
<1>2. /\ acts'[d] # << >> /\ Head(acts'[d]) = a /\ acts'[d][1] = a
      /\ Len(acts[d]) \in Nat \ {0} /\ DOMAIN acts[d] = 1..Len(acts[d])
      /\ Len(acts'[d]) = Len(acts[d]) /\ DOMAIN acts'[d] = 1..Len(acts[d])
      /\ acts[d][1] = Head(acts[d])
      /\ \A i \in 2..Len(acts[d]) : acts'[d][i] = acts[d][i]
    BY <1>1
<1>3. a.exec \in Stacks(Plugs(d))
    BY <1>1 DEF Action
<1>4. Head(a.exec) = a.exec[1]
    BY <1>3, StackParts
<1>. QED  BY <1>2, <1>4 DEF top

(* A head with another stack is one.                                       *)
LEMMA RequeueBecomes ==
    ASSUME TypeOK, NEW d \in Devs, acts[d] # << >>, NEW x \in Stacks(Plugs(d)),
           acts' = requeue(d, [ head(d) EXCEPT !.exec = x ])
    PROVE  HeadBecomes(d, [ head(d) EXCEPT !.exec = x ]) /\ [ head(d) EXCEPT !.exec = x ].exec = x
<1>. DEFINE a == [ head(d) EXCEPT !.exec = x ]
<1>1. a \in Action(d) /\ a.com = Head(acts[d]).com /\ a.client = Head(acts[d]).client /\ a.exec = x
    BY HeadType DEF TypeOK, Action
<1>. HIDE DEF a
<1>2. acts' = requeue(d, a)
    BY DEF a
<1>3. acts'[d] = << a >> \o Tail(acts[d])
    BY <1>2 DEF requeue, TypeOK, QueueTypeOK
<1>4. HeadBecomes(d, a) /\ a.exec = x
    BY <1>1, <1>3 DEF HeadBecomes
<1>. QED  BY <1>4 DEF a

(* A statement that is done leads to the next one, back to the statement   *)
(* around it, or to the end of the action.                                 *)
LEMMA FinishMoves ==
    ASSUME TypeOK, NEW d \in Devs, acts[d] # << >>, NEW x \in Stacks(Plugs(d)),
           Alike(x, Head(acts[d]).exec), Finish(d, x)
    PROVE  GoesOn(d) \/ Leaves(d) \/ Ends(d)
<1>. DEFINE s == Head(acts[d]).exec
            a == [ head(d) EXCEPT !.exec = next_stmt(x) ]
<1>1. s \in Stacks(Plugs(d))
    BY HeadType DEF TypeOK, Action
<1>2. \/ next_stmt(x) # << >> /\ Advanced(next_stmt(x), s)
      \/ next_stmt(x) # << >> /\ Popped(next_stmt(x), s)
      \/ next_stmt(x) = << >> /\ AtEnd(s)
    BY <1>1, NextPlaces
<1>3. CASE next_stmt(x) # << >>
    <2>1. next_stmt(x) \in Stacks(Plugs(d))
        BY <1>3, NextStmtType DEF Stacks
    <2>2. acts' = requeue(d, a)
        BY <1>3 DEF Finish, GoOn
    <2>3. HeadBecomes(d, a) /\ a.exec = next_stmt(x)
        BY <2>1, <2>2, RequeueBecomes
    <2>. HIDE DEF a
    <2>. QED  BY <1>2, <1>3, <2>3 DEF GoesOn, Leaves
<1>4. CASE next_stmt(x) = << >>
    BY <1>2, <1>4 DEF Finish, Ends, TypeOK, QueueTypeOK
<1>. QED  BY <1>3, <1>4

(* A head that waits is where it was.                                      *)
LEMMA StallWaits ==
    ASSUME TypeOK, NEW d \in Devs, acts[d] # << >>, NEW act \in Action(d),
           act.com = Head(acts[d]).com, act.client = Head(acts[d]).client,
           Alike(act.exec, Head(acts[d]).exec), NEW timers, Stall(d, act, timers)
    PROVE  Waits(d)
<1>1. acts'[d] = << act >> \o Tail(acts[d])
    BY DEF Stall, requeue, TypeOK, QueueTypeOK
<1>. QED  BY <1>1 DEF Waits, HeadBecomes

(* An inner block starts at its first statement, with the outer context    *)
(* at the statement that started it.                                       *)
LEMMA PushEnters ==
    ASSUME TypeOK, NEW d \in Devs, acts[d] # << >>, NEW x \in Stacks(Plugs(d)),
           Alike(x, Head(acts[d]).exec), cur_stmt(top(d)).type \in Compound,
           NEW b \in DOMAIN Block, NEW plugs \in SUBSET Plugs(d),
           GoOn(d, << create_exec_ctx(b, plugs) >> \o x)
    PROVE  Enters(d)
<1>. DEFINE s == Head(acts[d]).exec
            e == create_exec_ctx(b, plugs)
            y == << e >> \o x
            a == [ head(d) EXCEPT !.exec = y ]
<1>1. s \in Stacks(Plugs(d)) /\ top(d) = s[1]
    BY HeadType, StackParts DEF TypeOK, top, Action
<1>2. e \in ExecCtx(Plugs(d)) /\ e.stmt = 1
    BY CreateCtxType DEF create_exec_ctx
<1>3. x \in Seq(ExecCtx(Plugs(d))) /\ Len(x) = Len(s) /\ Len(s) \in Nat
    BY <1>1, StackParts DEF Stacks, Alike
<1>4. y \in Stacks(Plugs(d))
    BY <1>2, <1>3, PushType
<1>5. HeadBecomes(d, a) /\ a.exec = y
    BY <1>4, RequeueBecomes DEF GoOn
<1>6. Pushed(y, s)
    <2>. HIDE DEF e
    <2>1. Len(y) = 1 + Len(x) /\ y[1] = e /\ \A j \in 1..Len(x) : y[j + 1] = x[j]
        BY <1>2, <1>3
    <2>. HIDE DEF y, s
    <2>. QED  BY <1>1, <1>2, <1>3, <2>1 DEF Pushed, Alike, s
<1>. HIDE DEF a, y
<1>. QED  BY <1>5, <1>6 DEF Enters

(* A turn of the loop moves the head from statement to statement, lets it  *)
(* wait, ends it or fails it.                                              *)
LEMMA ProcessMoves ==
    ASSUME TypeOK, NEW d \in Devs, Process(d), acts[d] # << >>
    PROVE  \/ \E err \in ActErrors \ {"ESUCCESS"} : Fail(d, err)
           \/ Waits(d) \/ GoesOn(d) \/ Leaves(d) \/ Enters(d) \/ Ends(d)
<1>. DEFINE e == top(d)
            s == Head(acts[d]).exec
            flag(b) == set_top(head(d).exec, [ e EXCEPT !.processing = b ])
            at(p) == set_top(head(d).exec, [ e EXCEPT !.plugitr = p ])
<1>1. /\ head(d) \in Action(d) /\ s \in Stacks(Plugs(d)) /\ head(d).exec = s
      /\ head(d).com = Head(acts[d]).com /\ head(d).client = Head(acts[d]).client
      /\ e \in ExecCtx(Plugs(d)) /\ IsStmt(cur_stmt(e)) /\ e = s[1]
    BY HeadType, StackParts DEF TypeOK, Action, top
<1>2. \A b \in BOOLEAN : flag(b) \in Stacks(Plugs(d)) /\ Alike(flag(b), s)
    <2>. SUFFICES ASSUME NEW b \in BOOLEAN
                  PROVE  flag(b) \in Stacks(Plugs(d)) /\ Alike(flag(b), s)
        OBVIOUS
    <2>1. [ e EXCEPT !.processing = b ] \in ExecCtx(Plugs(d))
          /\ place([ e EXCEPT !.processing = b ]) = place(s[1])
        BY <1>1, CtxType DEF ExecCtx, place
    <2>. QED  BY <1>1, <2>1, SetTopAlike
<1>3. \A p \in Nat : at(p) \in Stacks(Plugs(d)) /\ Alike(at(p), s)
    <2>. SUFFICES ASSUME NEW p \in Nat
                  PROVE  at(p) \in Stacks(Plugs(d)) /\ Alike(at(p), s)
        OBVIOUS
    <2>1. [ e EXCEPT !.plugitr = p ] \in ExecCtx(Plugs(d))
          /\ place([ e EXCEPT !.plugitr = p ]) = place(s[1])
        BY <1>1, CtxType DEF ExecCtx, place
    <2>. QED  BY <1>1, <2>1, SetTopAlike
<1>4. Alike(s, s) /\ Alike(head(d).exec, s)
    BY <1>1 DEF Alike
<1>. HIDE DEF flag, at, s
<1>5. CASE ProcessTimeout(d)
    BY <1>5 DEF ProcessTimeout, ActErrors
<1>6. CASE ProcessUnconnected(d)
    <2>1. Waits(d)
        BY <1>1, <1>4, <1>6, StallWaits DEF ProcessUnconnected, s
    <2>. QED  BY <2>1
<1>7. CASE process_send(d)
    <2>. DEFINE act == [ head(d) EXCEPT !.exec = flag(TRUE) ]
    <2>1. Finish(d, flag(FALSE)) \/ Stall(d, act, {})
        BY <1>1, <1>7 DEF process_send, flag
    <2>2. act \in Action(d) /\ act.com = Head(acts[d]).com /\ act.client = Head(acts[d]).client
          /\ Alike(act.exec, s)
        BY <1>1, <1>2 DEF Action
    <2>. HIDE DEF act
    <2>. QED  BY <1>2, <2>1, <2>2, FinishMoves, StallWaits DEF s
<1>8. CASE process_expect(d)
    <2>1. Finish(d, head(d).exec) \/ Stall(d, head(d), {})
        BY <1>8 DEF process_expect
    <2>2. head(d).exec \in Stacks(Plugs(d)) /\ Alike(head(d).exec, Head(acts[d]).exec)
        BY <1>1, <1>4 DEF s
    <2>3. CASE Finish(d, head(d).exec)
        BY <2>2, <2>3, FinishMoves
    <2>4. CASE Stall(d, head(d), {})
        BY <1>1, <2>2, <2>4, StallWaits
    <2>. QED  BY <2>1, <2>3, <2>4
<1>9. CASE process_delay(d)
    <2>. DEFINE act(t) == [ head(d) EXCEPT !.delay_start = t, !.exec = flag(TRUE) ]
    <2>1. Finish(d, flag(FALSE)) \/ \E t \in Timer : Stall(d, act(t), { << "delay", d >> })
        BY <1>1, <1>9 DEF process_delay, flag, Action, Timer
    <2>2. \A t \in Timer : act(t) \in Action(d) /\ act(t).com = Head(acts[d]).com
                           /\ act(t).client = Head(acts[d]).client /\ Alike(act(t).exec, s)
        BY <1>1, <1>2 DEF Action
    <2>. HIDE DEF act
    <2>. QED  BY <1>2, <2>1, <2>2, FinishMoves, StallWaits DEF s
<1>10. CASE process_setplugstate(d)
    <2>1. Finish(d, head(d).exec)
        BY <1>10 DEF process_setplugstate
    <2>. QED  BY <1>1, <1>4, <2>1, FinishMoves DEF s
<1>11. CASE process_foreach(d)
    <2>1. cur_stmt(e).type \in Compound
        BY <1>11 DEF process_foreach, Executes, Compound
    <2>2. ASSUME NEW p \in plugs_left(d, e),
                 GoOn(d, << create_exec_ctx(cur_stmt(e).body, {p}) >> \o at(p))
          PROVE  Enters(d)
        <3>1. p \in Plugs(d) /\ p \in Nat
            BY PlugsFinite DEF plugs_left
        <3>2. cur_stmt(e).body \in DOMAIN Block /\ {p} \in SUBSET Plugs(d)
            BY <1>1, <2>1, <3>1 DEF IsStmt
        <3>. QED  BY <1>3, <2>1, <2>2, <3>1, <3>2, PushEnters DEF s
    <2>3. CASE Finish(d, at(0))
        BY <1>3, <2>3, FinishMoves DEF s
    <2>. QED  BY <1>11, <2>2, <2>3 DEF process_foreach, at
<1>12. CASE process_ifonoff(d)
    <2>1. cur_stmt(e).type \in Compound
        BY <1>12 DEF process_ifonoff, Executes, Compound
    <2>2. cur_stmt(e).body \in DOMAIN Block /\ e.plugs \in SUBSET Plugs(d)
        BY <1>1, <2>1 DEF IsStmt, ExecCtx
    <2>3. \/ Finish(d, flag(FALSE)) \/ Finish(d, head(d).exec)
          \/ GoOn(d, << create_exec_ctx(cur_stmt(e).body, e.plugs) >> \o flag(TRUE))
          \/ Fail(d, "EEXPFAIL")
        BY <1>12 DEF process_ifonoff, flag
    <2>4. CASE Finish(d, flag(FALSE))
        BY <1>2, <2>4, FinishMoves DEF s
    <2>5. CASE Finish(d, head(d).exec)
        BY <1>1, <1>4, <2>5, FinishMoves DEF s
    <2>6. CASE GoOn(d, << create_exec_ctx(cur_stmt(e).body, e.plugs) >> \o flag(TRUE))
        <3>1. flag(TRUE) \in Stacks(Plugs(d)) /\ Alike(flag(TRUE), Head(acts[d]).exec)
            BY <1>2 DEF s
        <3>. QED  BY <2>1, <2>2, <2>6, <3>1, PushEnters
    <2>. QED  BY <2>3, <2>4, <2>5, <2>6 DEF ActErrors
<1>. QED  BY <1>5, <1>6, <1>7, <1>8, <1>9, <1>10, <1>11, <1>12
          DEF Process, ProcessIdle, Statement

(***************************************************************************)
(* What the actions of a queue look like                                   *)
(***************************************************************************)

(* An action that has not begun, or was preempted.                         *)
IsFresh(a) == Len(a.exec) = 1 /\ a.exec[1].stmt = 1

(* Below the top of a stack are the statements that started the blocks     *)
(* above them.                                                             *)
Nested(a) == \A j \in 2..Len(a.exec) : cur_stmt(a.exec[j]).type \in Compound

outer(a) == a.exec[Len(a.exec)]

(* The outer block is the script of the command.                           *)
OfScript(d, a) ==
    /\ outer(a).block = Scripts[d][a.com]
    /\ a.client # NoClient => a.com \notin {"login", "ping"}

(* Only the head of a queue is under way.                                  *)
InOrder(d, q) ==
    \A i \in DOMAIN q : (i > 1 => IsFresh(q[i])) /\ Nested(q[i]) /\ OfScript(d, q[i])

Fresh(d, q) == \A i \in DOMAIN q : IsFresh(q[i]) /\ OfScript(d, q[i])

QueuesInOrder == \A d \in Devs : InOrder(d, acts[d])

(* There is nothing below the top of an action that has not begun.         *)
LEMMA FreshNested ==
    ASSUME NEW a, IsFresh(a)
    PROVE  Nested(a) /\ outer(a) = a.exec[1]
<1>1. Len(a.exec) = 1
    BY DEF IsFresh
<1>2. 2..Len(a.exec) = {}
    BY <1>1
<1>. QED  BY <1>1, <1>2 DEF Nested, outer

(* A new action has not begun.                                             *)
LEMMA CreateFresh ==
    ASSUME NEW d, NEW com, NEW plugs, NEW c, c # NoClient => com \notin {"login", "ping"}
    PROVE  IsFresh(create_action(d, com, plugs, c)) /\ OfScript(d, create_action(d, com, plugs, c))
<1>. DEFINE e == create_exec_ctx(Scripts[d][com], plugs)
            a == create_action(d, com, plugs, c)
<1>1. /\ a.exec = << e >> /\ a.com = com /\ a.client = c
    BY DEF create_action
<1>2. e.stmt = 1 /\ e.block = Scripts[d][com]
    BY DEF create_exec_ctx
<1>. HIDE DEF e, a
<1>3. Len(a.exec) = 1 /\ a.exec[1] = e
    BY <1>1
<1>. HIDE DEF a
<1>4. IsFresh(a) /\ OfScript(d, a)
    BY <1>1, <1>2, <1>3 DEF IsFresh, OfScript, outer
<1>. QED  BY <1>4 DEF a

(* A client's command has scripts of its own.                              *)
LEMMA VariantNotPing ==
    ASSUME NEW d \in Devs, NEW com \in ClientComs
    PROVE  /\ com \notin {"login", "ping"}
           /\ \A t \in {AllScript, RangedScript} :
                 "login" \notin variant(d, com, t) /\ "ping" \notin variant(d, com, t)
BY DEF ClientComs, AllScript, RangedScript, variant

(* The actions of a client's command have not begun.                       *)
LEMMA NewActsFresh ==
    ASSUME NEW d \in Devs, NEW com \in ClientComs, NEW hl \in SUBSET Nodes, NEW c \in Clients
    PROVE  Fresh(d, new_acts(d, com, hl, c))
<1>. DEFINE P == targets(d, hl)
            all == (P = Plugs(d) \/ com \in Query) /\ variant(d, com, AllScript) # {}
            new == enqueue_targetted_actions(d, com, hl, c)
<1>1. Cardinality(P) \in Nat
    BY PlugsFinite DEF targets
<1>2. CASE all
    <2>. DEFINE a == create_action(d, AllScript[com], {}, c)
    <2>1. AllScript[com] \notin {"login", "ping"}
        BY <1>2, VariantNotPing DEF variant
    <2>2. IsFresh(a) /\ OfScript(d, a)
        BY <2>1, CreateFresh
    <2>3. new = << a >>
        BY <1>2 DEF enqueue_targetted_actions
    <2>. HIDE DEF a
    <2>. QED  BY <2>2, <2>3 DEF new_acts, Fresh
<1>3. CASE ~all /\ variant(d, com, RangedScript) # {}
    <2>. DEFINE a == create_action(d, RangedScript[com], P, c)
    <2>1. RangedScript[com] \notin {"login", "ping"}
        BY <1>3, VariantNotPing DEF variant
    <2>2. IsFresh(a) /\ OfScript(d, a)
        BY <2>1, CreateFresh
    <2>3. new = << a >>
        BY <1>3 DEF enqueue_targetted_actions
    <2>. HIDE DEF a
    <2>. QED  BY <2>2, <2>3 DEF new_acts, Fresh
<1>4. CASE ~all /\ variant(d, com, RangedScript) = {} /\ com \in DOMAIN Scripts[d]
    <2>. DEFINE a(i) == create_action(d, com, {nth_plug(P, i)}, c)
    <2>1. ASSUME NEW i \in 1..Cardinality(P)
          PROVE  IsFresh(a(i)) /\ OfScript(d, a(i))
        BY VariantNotPing, CreateFresh
    <2>2. new = [ i \in 1..Cardinality(P) |-> a(i) ]
        BY <1>4 DEF enqueue_targetted_actions
    <2>. HIDE DEF a
    <2>. QED  BY <2>1, <2>2 DEF new_acts, Fresh
<1>5. CASE ~all /\ variant(d, com, RangedScript) = {} /\ com \notin DOMAIN Scripts[d]
    <2>1. new = << >>
        BY <1>5 DEF enqueue_targetted_actions
    <2>. QED  BY <2>1 DEF new_acts, Fresh
<1>. QED  BY <1>2, <1>3, <1>4, <1>5

(* Actions that have not begun may be added behind a queue, or be one.     *)
LEMMA OrderConcat ==
    ASSUME NEW d, NEW S, NEW s \in Seq(S), NEW t \in Seq(S), InOrder(d, s), Fresh(d, t)
    PROVE  InOrder(d, s \o t) /\ InOrder(d, t)
<1>1. /\ Len(s) \in Nat /\ Len(t) \in Nat /\ DOMAIN s = 1..Len(s) /\ DOMAIN t = 1..Len(t)
      /\ DOMAIN (s \o t) = 1..(Len(s) + Len(t))
      /\ \A i \in 1..Len(s) : (s \o t)[i] = s[i]
      /\ \A i \in 1..Len(t) : (s \o t)[Len(s) + i] = t[i]
    OBVIOUS
<1>2. \A i \in DOMAIN t : IsFresh(t[i]) /\ Nested(t[i]) /\ OfScript(d, t[i])
    BY FreshNested DEF Fresh
<1>3. ASSUME NEW i \in 1..(Len(s) + Len(t))
      PROVE  /\ i > 1 => IsFresh((s \o t)[i])
             /\ Nested((s \o t)[i]) /\ OfScript(d, (s \o t)[i])
    <2>1. CASE i <= Len(s)
        BY <1>1, <2>1 DEF InOrder
    <2>2. CASE i > Len(s)
        <3>1. i - Len(s) \in 1..Len(t) /\ Len(s) + (i - Len(s)) = i
            BY <1>1, <2>2
        <3>2. (s \o t)[i] = t[i - Len(s)] /\ i - Len(s) \in DOMAIN t
            BY <1>1, <3>1
        <3>. QED  BY <1>2, <3>2
    <2>. QED  BY <1>1, <2>1, <2>2
<1>4. InOrder(d, s \o t)
    BY <1>1, <1>3 DEF InOrder
<1>5. InOrder(d, t)
    BY <1>2 DEF InOrder
<1>. QED  BY <1>4, <1>5

(* What is behind the head has not begun.                                  *)
LEMMA OrderTail ==
    ASSUME NEW d, NEW S, NEW q \in Seq(S), q # << >>, InOrder(d, q)
    PROVE  Fresh(d, Tail(q)) /\ InOrder(d, Tail(q))
<1>1. \A i \in DOMAIN Tail(q) : i + 1 \in DOMAIN q /\ i + 1 > 1 /\ Tail(q)[i] = q[i + 1]
    OBVIOUS
<1>2. Fresh(d, Tail(q))
    BY <1>1 DEF Fresh, InOrder
<1>3. InOrder(d, Tail(q))
    BY <1>2, FreshNested DEF Fresh, InOrder
<1>. QED  BY <1>2, <1>3

(* A login preempts the head: it has to begin again.                       *)
LEMMA LoginOrder ==
    ASSUME NEW d \in Devs, NEW q \in Seq(Action(d)), InOrder(d, q)
    PROVE  InOrder(d, enqueue_login(d, q))
<1>. DEFINE a == create_action(d, "login", {}, NoClient)
            h == [ Head(q) EXCEPT !.exec = rewind_action(@) ]
<1>1. a \in Action(d) /\ IsFresh(a) /\ OfScript(d, a)
    BY DeviceAssumption, CreateActionType, CreateFresh DEF Callers
<1>2. Fresh(d, << a >>) /\ << a >> \in Seq(Action(d))
    <2>. HIDE DEF a
    <2>. QED  BY <1>1 DEF Fresh
<1>3. InOrder(d, << a >>)
    <2>1. << >> \in Seq(Action(d)) /\ InOrder(d, << >>)
        BY DEF InOrder
    <2>. HIDE DEF a
    <2>. QED  BY <1>2, <2>1, OrderConcat
<1>4. CASE q = << >>
    <2>. HIDE DEF a
    <2>1. enqueue_login(d, q) = << a >>
        BY <1>2, <1>4 DEF enqueue_login, a
    <2>. QED  BY <1>3, <2>1
<1>5. CASE q # << >>
    <2>1. /\ Head(q) \in Action(d) /\ Tail(q) \in Seq(Action(d))
          /\ q[1] = Head(q) /\ 1 \in DOMAIN q
        BY <1>5
    <2>2. Head(q).exec \in Stacks(Plugs(d)) /\ rewind_action(Head(q).exec) \in Stacks(Plugs(d))
        BY <2>1, RewindType DEF Action
    <2>3. /\ h \in Action(d) /\ h.exec = rewind_action(Head(q).exec)
          /\ h.com = Head(q).com /\ h.client = Head(q).client
        BY <2>1, <2>2 DEF Action
    <2>4. outer(Head(q)) \in ExecCtx(Plugs(d))
        BY <2>2, StackParts DEF outer
    <2>. DEFINE r == [ outer(Head(q)) EXCEPT !.stmt = 1 ]
    <2>5. h.exec = << r >>
        BY <2>3 DEF rewind_action, outer
    <2>6. r.stmt = 1 /\ r.block = outer(Head(q)).block
        BY <2>4 DEF ExecCtx
    <2>. HIDE DEF r, h
    <2>7. Len(h.exec) = 1 /\ h.exec[1] = r
        BY <2>5
    <2>8. OfScript(d, Head(q))
        BY <2>1 DEF InOrder
    <2>9. IsFresh(h) /\ OfScript(d, h)
        <3>1. outer(h) = r
            BY <2>7 DEF outer
        <3>. QED  BY <2>3, <2>6, <2>7, <2>8, <3>1 DEF IsFresh, OfScript
    <2>10. << h >> \in Seq(Action(d)) /\ Fresh(d, << h >>)
        BY <2>3, <2>9 DEF Fresh
    <2>11. Fresh(d, Tail(q))
        BY <1>5, OrderTail
    <2>12. InOrder(d, << h >>)
        <3>1. << >> \in Seq(Action(d)) /\ InOrder(d, << >>)
            BY DEF InOrder
        <3>. QED  BY <2>10, <3>1, OrderConcat
    <2>13. << h >> \o Tail(q) \in Seq(Action(d)) /\ Fresh(d, << h >> \o Tail(q))
        <3>. DEFINE w == << h >> \o Tail(q)
        <3>1. /\ w \in Seq(Action(d)) /\ DOMAIN w = 1..(1 + Len(Tail(q))) /\ w[1] = h
              /\ \A i \in DOMAIN w : i = 1 \/ (i - 1 \in DOMAIN Tail(q) /\ w[i] = Tail(q)[i - 1])
            BY <2>1, <2>10
        <3>. HIDE DEF w
        <3>2. Fresh(d, w)
            BY <2>9, <2>11, <3>1 DEF Fresh
        <3>. QED  BY <3>1, <3>2 DEF w
    <2>. HIDE DEF a
    <2>14. InOrder(d, << a >> \o (<< h >> \o Tail(q)))
        BY <1>2, <1>3, <2>13, OrderConcat
    <2>. QED  BY <1>5, <2>14 DEF enqueue_login, a, h
<1>. QED  BY <1>4, <1>5

(* So are the queues after an attempt to connect or to reconnect.          *)
LEMMA ReconnectOrder ==
    ASSUME NEW d \in Devs, NEW q \in Seq(Action(d)), InOrder(d, q)
    PROVE  /\ \A r \in connect(d, q) : InOrder(d, r.queue)
           /\ \A r \in reconnect(d, q) : InOrder(d, r.queue)
<1>1. ASSUME NEW w \in Seq(Action(d)), InOrder(d, w), NEW r \in connect(d, w)
      PROVE  InOrder(d, r.queue)
    BY <1>1, LoginOrder DEF connect
<1>2. disconnect(q) \in Seq(Action(d)) /\ InOrder(d, disconnect(q))
    BY DisconnectType, OrderTail DEF disconnect
<1>3. ASSUME NEW r \in reconnect(d, q) PROVE InOrder(d, r.queue)
    <2>. DEFINE w == IF connect_state[d] # "NOT_CONNECTED" THEN disconnect(q) ELSE q
    <2>1. w \in Seq(Action(d)) /\ InOrder(d, w)
        BY <1>2
    <2>2. r \in connect(d, w) \/ r.queue = w
        BY DEF reconnect
    <2>. HIDE DEF w
    <2>. QED  BY <1>1, <2>1, <2>2
<1>. QED  BY <1>1, <1>3

(***************************************************************************)
(* The exchange with a device, stage by stage                              *)
(***************************************************************************)

(* Every send is for one answer, and the statement after it expects it.    *)
AnswersAwaited ==
    \A b \in DOMAIN Block : \A k \in 1..Len(Block[b]) :
        Block[b][k].type = "send" =>
            /\ Block[b][k].arg # "each"
            /\ k < Len(Block[b]) /\ Block[b][k + 1].type = "expect"

(* The head is at a send that has written, or at an expect.                *)
Awaits(d) ==
    /\ connect_state[d] = "CONNECTED" /\ acts[d] # << >>
    /\ \/ cur_stmt(top(d)).type = "expect"
       \/ cur_stmt(top(d)).type = "send" /\ top(d).processing

(* What the head's command is for has been transmitted for it.             *)
Transmitted(d) ==
    Head(acts[d]).client \in Clients =>
        addressed(d, top(d)) \subseteq delivered[Head(acts[d]).client]

OfHead(d, m) == m.com = Head(acts[d]).com /\ m.client = Head(acts[d]).client

(* l says that something is done, or what the device answered to the       *)
(* client of l about the plug the head is at.                              *)
IsAnswer(d, l) ==
    \/ l.state = "done"
    \/ /\ is_first(l.plug, top(d).plugs)
       /\ l.client \in Clients => << d, l.plug, l.state >> \in answered[l.client]

(* Nothing is under way, something waits to be sent, the device has not    *)
(* answered yet, its answer is in s and has not been expected yet.         *)
Quiet(d) == to[d] = << >> /\ heard[d] = << >> /\ rx[d] = << >> /\ from[d] = << >>

Writes(d) ==
    /\ to[d] # << >> /\ heard[d] = << >> /\ rx[d] = << >> /\ from[d] = << >>
    /\ to[d][1].arg # "each"

Asks(d) ==
    /\ Awaits(d) /\ Transmitted(d)
    /\ to[d] = << >> /\ rx[d] = << >> /\ from[d] = << >>
    /\ Len(heard[d]) = 1 /\ OfHead(d, heard[d][1])
    /\ heard[d][1].plugs = top(d).plugs /\ heard[d][1].arg # "each"

Reads(d, s, t) ==
    /\ Awaits(d) /\ Transmitted(d)
    /\ to[d] = << >> /\ heard[d] = << >> /\ t = << >>
    /\ Len(s) = 1 /\ OfHead(d, s[1]) /\ IsAnswer(d, s[1])

InStep(d) ==
    Quiet(d) \/ Writes(d) \/ Asks(d) \/ Reads(d, rx[d], from[d]) \/ Reads(d, from[d], rx[d])

AllInStep == \A d \in Devs : InStep(d)

(* What is not known to be an exchange of the head is none.                *)
LEMMA NoExchange ==
    ASSUME NEW d, InStep(d), OutputOK(d),
           \/ connect_state[d] # "CONNECTED" \/ acts[d] = << >>
           \/ cur_stmt(top(d)).type \notin {"send", "expect"}
           \/ cur_stmt(top(d)).type = "send" /\ ~top(d).processing
    PROVE  Quiet(d)
BY DEF InStep, Writes, Asks, Reads, Awaits, OutputOK

(* Where nothing is under way and nothing changes, nothing is.             *)
LEMMA QuietStays ==
    ASSUME NEW d, Quiet(d), to'[d] = to[d], heard'[d] = heard[d], rx'[d] = rx[d],
           from'[d] = from[d]
    PROVE  Quiet(d)' /\ InStep(d)'
BY DEF Quiet, InStep

(* The exchange goes on under a head that awaits it as before.             *)
LEMMA StageMoved ==
    ASSUME NEW d, InStep(d),
           to'[d] = to[d], heard'[d] = heard[d], rx'[d] = rx[d], from'[d] = from[d],
           Awaits(d) =>
               /\ Awaits(d)'
               /\ Head(acts'[d]).com = Head(acts[d]).com
               /\ Head(acts'[d]).client = Head(acts[d]).client
               /\ top(d)'.plugs = top(d).plugs
               /\ Head(acts[d]).client \in Clients =>
                      /\ delivered[Head(acts[d]).client] \subseteq delivered'[Head(acts[d]).client]
                      /\ answered[Head(acts[d]).client] \subseteq answered'[Head(acts[d]).client]
    PROVE  InStep(d)'
<1>1. CASE Quiet(d)
    BY <1>1, QuietStays
<1>2. CASE Writes(d)
    BY <1>2 DEF Writes, InStep
<1>3. ASSUME Awaits(d), Transmitted(d) PROVE Transmitted(d)'
    <2>1. addressed(d, top(d)') = addressed(d, top(d))
        BY <1>3 DEF addressed
    <2>. QED  BY <1>3, <2>1 DEF Transmitted
<1>4. ASSUME Awaits(d), NEW m, OfHead(d, m) PROVE OfHead(d, m)'
    BY <1>4 DEF OfHead
<1>5. ASSUME Awaits(d), NEW l, OfHead(d, l), IsAnswer(d, l) PROVE IsAnswer(d, l)'
    BY <1>5 DEF OfHead, IsAnswer
<1>6. CASE Asks(d)
    <2>1. Asks(d)'
        BY <1>3, <1>4, <1>6 DEF Asks
    <2>. QED  BY <2>1 DEF InStep
<1>7. ASSUME NEW s, NEW t, Reads(d, s, t) PROVE Reads(d, s, t)'
    BY <1>3, <1>4, <1>5, <1>7 DEF Reads
<1>8. CASE Reads(d, rx[d], from[d]) \/ Reads(d, from[d], rx[d])
    <2>1. Reads(d, rx[d], from[d])' \/ Reads(d, from[d], rx[d])'
        BY <1>7, <1>8
    <2>. QED  BY <2>1 DEF InStep
<1>. QED  BY <1>1, <1>2, <1>6, <1>8 DEF InStep

(* So it does under a head that stays where it is.                         *)
LEMMA StageKept ==
    ASSUME NEW d, InStep(d), connect_state'[d] = connect_state[d],
           to'[d] = to[d], heard'[d] = heard[d], rx'[d] = rx[d], from'[d] = from[d],
           acts[d] # << >> =>
               /\ acts'[d] # << >>
               /\ Head(acts'[d]).com = Head(acts[d]).com
               /\ Head(acts'[d]).client = Head(acts[d]).client
               /\ place(top(d)') = place(top(d))
               /\ cur_stmt(top(d)).type = "send" /\ top(d).processing => top(d)'.processing
               /\ Head(acts[d]).client \in Clients =>
                      /\ delivered[Head(acts[d]).client] \subseteq delivered'[Head(acts[d]).client]
                      /\ answered[Head(acts[d]).client] \subseteq answered'[Head(acts[d]).client]
    PROVE  InStep(d)'
<1>1. ASSUME Awaits(d)
      PROVE  acts[d] # << >> /\ Awaits(d)' /\ top(d)'.plugs = top(d).plugs
    BY <1>1, PlaceSame DEF Awaits
<1>. QED  BY <1>1, StageMoved

(* A step about one device has to be looked at for it only.                *)
LEMMA StageOneDevice ==
    ASSUME AllInStep, NEW d, InStep(d)',
           \A e \in Devs \ {d} :
               /\ acts'[e] = acts[e] /\ connect_state'[e] = connect_state[e]
               /\ to'[e] = to[e] /\ from'[e] = from[e]
               /\ heard'[e] = heard[e] /\ rx'[e] = rx[e],
           \A c \in Clients : delivered[c] \subseteq delivered'[c] /\ answered[c] \subseteq answered'[c]
    PROVE  AllInStep'
<1>1. ASSUME NEW e \in Devs PROVE InStep(e)'
    <2>1. CASE e = d
        BY <2>1
    <2>2. CASE e # d
        <3>1. top(e)' = top(e)
            BY <2>2 DEF top
        <3>. QED  BY <2>2, <3>1, StageKept DEF AllInStep
    <2>. QED  BY <2>1, <2>2
<1>. QED  BY <1>1 DEF AllInStep

(* A step that touches none of it.                                         *)
LEMMA StageSame ==
    ASSUME AllInStep, acts' = acts, connect_state' = connect_state, to' = to, from' = from,
           heard' = heard, rx' = rx, delivered' = delivered, answered' = answered
    PROVE  AllInStep'
<1>1. ASSUME NEW d \in Devs PROVE InStep(d)'
    <2>1. top(d)' = top(d)
        BY DEF top
    <2>. QED  BY <2>1, StageKept DEF AllInStep
<1>. QED  BY <1>1 DEF AllInStep

(* A reconnection ends the exchange.                                       *)
LEMMA ReconnectedQuiet ==
    ASSUME TypeOK, NEW d \in Devs, OutputOK(d), InStep(d), NEW r, Reconnected(d, r)
    PROVE  /\ Quiet(d)'
           /\ \A e \in Devs \ {d} :
                 /\ connect_state'[e] = connect_state[e]
                 /\ to'[e] = to[e] /\ from'[e] = from[e]
                 /\ heard'[e] = heard[e] /\ rx'[e] = rx[e]
<1>1. /\ to'[d] = << >> /\ heard'[d] = << >>
      /\ \A e \in Devs \ {d} : /\ to'[e] = to[e] /\ heard'[e] = heard[e]
                               /\ connect_state'[e] = connect_state[e]
    BY ReconnectedOutput
<1>2. rx' = [ rx EXCEPT ![d] = << >> ]
    BY DEF Reconnected
<1>3. from' = IF connect_state[d] # "NOT_CONNECTED" THEN [ from EXCEPT ![d] = << >> ] ELSE from
    BY DEF Reconnected
<1>4. connect_state[d] = "NOT_CONNECTED" => from[d] = << >>
    BY NoExchange DEF Quiet
<1>. QED  BY <1>1, <1>2, <1>3, <1>4 DEF TypeOK, WireTypeOK, Quiet

(* So does a failure of the head.                                          *)
LEMMA FailStage ==
    ASSUME TypeOK, OutputIsSent, AllInStep, NEW d \in Devs, NEW err, Fail(d, err)
    PROVE  AllInStep' /\ Quiet(d)'
<1>1. OutputOK(d) /\ InStep(d)
    BY DEF OutputIsSent, AllInStep
<1>2. delivered' = delivered /\ answered' = answered
    BY DEF Fail
<1>3. CASE connect_state[d] = "CONNECTED"
    <2>1. PICK r : Reconnected(d, r) /\ acts' = [ acts EXCEPT ![d] = r.queue ]
        BY <1>3 DEF Fail
    <2>2. Quiet(d)' /\ InStep(d)'
        BY <1>1, <2>1, ReconnectedQuiet DEF InStep
    <2>3. \A e \in Devs \ {d} : acts'[e] = acts[e]
        BY <2>1 DEF TypeOK, QueueTypeOK
    <2>. QED  BY <1>1, <1>2, <2>1, <2>2, <2>3, ReconnectedQuiet, StageOneDevice
<1>4. CASE connect_state[d] # "CONNECTED"
    <2>1. /\ acts' = [ acts EXCEPT ![d] = << >> ] /\ connect_state' = connect_state
          /\ to' = to /\ from' = from /\ heard' = heard /\ rx' = rx
        BY <1>4 DEF Fail, conn, bufs
    <2>2. Quiet(d)' /\ InStep(d)'
        BY <1>1, <1>4, <2>1, NoExchange, QuietStays
    <2>3. \A e \in Devs \ {d} : acts'[e] = acts[e]
        BY <2>1 DEF TypeOK, QueueTypeOK
    <2>. QED  BY <1>2, <2>1, <2>2, <2>3, StageOneDevice
<1>. QED  BY <1>3, <1>4

(* A sequence with one element.                                            *)
LEMMA OneTail ==
    ASSUME NEW S, NEW s \in Seq(S), Len(s) = 1
    PROVE  s # << >> /\ Head(s) = s[1] /\ Tail(s) = << >>
<1>1. Len(<< >>) = 0
    OBVIOUS
<1>2. s # << >>
    BY <1>1
<1>3. Head(s) = s[1] /\ Tail(s) \in Seq(S) /\ Len(Tail(s)) = 0
    BY <1>2
<1>4. \A t \in Seq(S) : Len(t) = 0 => t = << >>
    OBVIOUS
<1>. QED  BY <1>2, <1>3, <1>4

(* The head of a queue behind which a ping may have been queued.           *)
LEMMA PingHead ==
    ASSUME TypeOK, NEW d \in Devs, NEW state, NEW q \in Seq(Action(d)), NEW timer,
           enqueue_ping(d, state, q, timer)
    PROVE  /\ q # << >> => acts'[d] # << >> /\ Head(acts'[d]) = Head(q)
           /\ \A e \in Devs \ {d} : acts'[e] = acts[e]
<1>. DEFINE a == create_action(d, "ping", {}, NoClient)
<1>1. \/ acts' = [ acts EXCEPT ![d] = Append(q, a) ]
      \/ acts' = [ acts EXCEPT ![d] = q ]
    BY DEF enqueue_ping
<1>. HIDE DEF a
<1>2. acts'[d] = Append(q, a) \/ acts'[d] = q
    BY <1>1 DEF TypeOK, QueueTypeOK
<1>3. q # << >> => Append(q, a) # << >> /\ Head(Append(q, a)) = Head(q)
    OBVIOUS
<1>4. \A e \in Devs \ {d} : acts'[e] = acts[e]
    BY <1>1 DEF TypeOK, QueueTypeOK
<1>. QED  BY <1>2, <1>3, <1>4

(* What a connected device is sent is what its head asks, and what it has  *)
(* answered is there for the head to expect.                               *)
LEMMA TransmitStage ==
    ASSUME TypeOK, OutputIsSent, AllInStep, NEW d \in Devs, VisitConnected(d)
    PROVE  AllInStep'
<1>1. OutputOK(d) /\ InStep(d)
    BY DEF OutputIsSent, AllInStep
<1>2. /\ connect_state' = connect_state /\ connect_state[d] = "CONNECTED"
      /\ to'[d] = << >> /\ rx'[d] = << >> /\ from'[d] = from[d] \o rx[d]
      /\ answered' = answered
    BY DEF VisitConnected, conn, TypeOK, WireTypeOK
<1>3. \A e \in Devs \ {d} : /\ to'[e] = to[e] /\ from'[e] = from[e]
                            /\ heard'[e] = heard[e] /\ rx'[e] = rx[e]
    BY DEF VisitConnected, TypeOK, WireTypeOK
<1>4. \/ link[d] = "up" /\ heard'[d] = heard[d] \o to[d]
      \/ link[d] # "up" /\ heard'[d] = heard[d]
    BY DEF VisitConnected, TypeOK, WireTypeOK
<1>5. /\ acts[d] # << >> => acts'[d] # << >> /\ Head(acts'[d]) = Head(acts[d])
      /\ \A e \in Devs \ {d} : acts'[e] = acts[e]
    BY PingHead DEF VisitConnected, TypeOK, QueueTypeOK
<1>6. /\ heard[d] \in Seq(Sent(d)) /\ to[d] \in Seq(Sent(d))
      /\ from[d] \in Seq(Line(d)) /\ rx[d] \in Seq(Line(d))
      /\ \A c \in Clients : delivered[c] \in SUBSET (Devs \X Nat)
    BY DEF TypeOK, WireTypeOK, CommandTypeOK
<1>7. \A c \in Clients :
          delivered'[c] = IF link[d] = "up"
                          THEN delivered[c] \cup UNION { addressed(d, to[d][i]) :
                                   i \in { j \in DOMAIN to[d] : to[d][j].client = c } }
                          ELSE delivered[c]
    BY DEF VisitConnected
<1>8. \A c \in Clients : delivered[c] \subseteq delivered'[c]
    BY <1>7
<1>9. acts[d] # << >> => top(d)' = top(d)
    BY <1>5 DEF top
<1>10. InStep(d)'
    <2>1. CASE Quiet(d)
        <3>1. heard[d] \o to[d] = << >> /\ from[d] \o rx[d] = << >>
            BY <2>1 DEF Quiet
        <3>. QED  BY <1>2, <1>4, <2>1, <3>1 DEF InStep, Quiet
    <2>2. CASE Writes(d) /\ link[d] = "up"
        <3>1. heard'[d] = to[d] /\ from'[d] = << >>
            <4>1. << >> \o to[d] = to[d] /\ << >> \o << >> = << >>
                BY <1>6
            <4>. QED  BY <1>2, <1>4, <2>2, <4>1 DEF Writes
        <3>2. /\ acts[d] # << >> /\ Len(to[d]) = 1 /\ OfHead(d, to[d][1])
              /\ cur_stmt(top(d)).type = "send" /\ top(d).processing
              /\ to[d][1].plugs = top(d).plugs
            BY <1>1, <2>2 DEF Writes, OutputOK, OfHead
        <3>3. Awaits(d)'
            BY <1>2, <1>5, <1>9, <3>2 DEF Awaits
        <3>4. OfHead(d, heard[d][1])' /\ heard'[d][1].plugs = top(d)'.plugs
            BY <1>5, <1>9, <3>1, <3>2 DEF OfHead
        <3>5. Transmitted(d)'
            <4>1. SUFFICES ASSUME Head(acts[d]).client \in Clients
                           PROVE  addressed(d, top(d)) \subseteq delivered'[Head(acts[d]).client]
                BY <1>5, <1>9, <3>2 DEF Transmitted
            <4>. DEFINE c == Head(acts[d]).client
            <4>2. 1 \in { j \in DOMAIN to[d] : to[d][j].client = c }
                BY <1>6, <3>2 DEF OfHead
            <4>3. addressed(d, to[d][1]) = addressed(d, top(d))
                BY <3>2 DEF addressed
            <4>4. addressed(d, to[d][1]) \subseteq UNION { addressed(d, to[d][i]) :
                                     i \in { j \in DOMAIN to[d] : to[d][j].client = c } }
                BY <4>2
            <4>. QED  BY <1>7, <2>2, <4>1, <4>3, <4>4
        <3>6. Asks(d)'
            BY <1>2, <2>2, <3>1, <3>2, <3>3, <3>4, <3>5 DEF Asks, Writes
        <3>. QED  BY <3>6 DEF InStep
    <2>3. CASE Writes(d) /\ link[d] # "up"
        <3>1. << >> \o << >> = << >>
            OBVIOUS
        <3>. QED  BY <1>2, <1>4, <2>3, <3>1 DEF Writes, InStep, Quiet
    <2>4. ASSUME Awaits(d), Transmitted(d)
          PROVE  Awaits(d)' /\ Transmitted(d)'
        BY <1>2, <1>5, <1>8, <1>9, <2>4 DEF Awaits, Transmitted
    <2>5. CASE Asks(d)
        <3>1. heard'[d] = heard[d] /\ from'[d] = << >>
            <4>1. heard[d] \o << >> = heard[d] /\ << >> \o << >> = << >>
                BY <1>6
            <4>. QED  BY <1>2, <1>4, <2>5, <4>1 DEF Asks
        <3>2. OfHead(d, heard[d][1])' /\ heard'[d][1].plugs = top(d)'.plugs
            BY <1>5, <1>9, <2>5, <3>1 DEF OfHead, Asks, Awaits
        <3>3. Asks(d)'
            BY <1>2, <2>4, <2>5, <3>1, <3>2 DEF Asks
        <3>. QED  BY <3>3 DEF InStep
    <2>6. ASSUME NEW s \in Seq(Line(d)), NEW t, Reads(d, s, t), from'[d] = s, heard'[d] = << >>
          PROVE  InStep(d)'
        <3>1. OfHead(d, from[d][1])' /\ IsAnswer(d, from[d][1])'
            BY <1>2, <1>5, <1>9, <2>6 DEF OfHead, IsAnswer, Reads, Awaits
        <3>2. Reads(d, from[d], rx[d])'
            BY <1>2, <2>4, <2>6, <3>1 DEF Reads
        <3>. QED  BY <3>2 DEF InStep
    <2>7. CASE Reads(d, rx[d], from[d]) \/ Reads(d, from[d], rx[d])
        <3>1. heard'[d] = << >>
            <4>1. << >> \o << >> = << >>
                OBVIOUS
            <4>. QED  BY <1>4, <2>7, <4>1 DEF Reads
        <3>2. CASE Reads(d, rx[d], from[d])
            <4>1. << >> \o rx[d] = rx[d]
                BY <1>6
            <4>. QED  BY <1>2, <1>6, <2>6, <3>1, <3>2, <4>1 DEF Reads
        <3>3. CASE Reads(d, from[d], rx[d])
            <4>1. from[d] \o << >> = from[d]
                BY <1>6
            <4>. QED  BY <1>2, <1>6, <2>6, <3>1, <3>3, <4>1 DEF Reads
        <3>. QED  BY <2>7, <3>2, <3>3
    <2>. QED  BY <1>1, <2>1, <2>2, <2>3, <2>5, <2>7 DEF InStep
<1>. QED  BY <1>2, <1>3, <1>5, <1>8, <1>10, StageOneDevice

(* A visit moves the exchange on, or ends it with the connection.          *)
LEMMA VisitStage ==
    ASSUME TypeOK, OutputIsSent, AllInStep, NEW d \in Devs, Visit(d)
    PROVE  AllInStep'
<1>1. OutputOK(d) /\ InStep(d) /\ acts[d] \in Seq(Action(d))
    BY DEF OutputIsSent, AllInStep, TypeOK, QueueTypeOK
<1>2. CASE VisitUnconnected(d)
    <2>1. PICK r \in reconnect(d, acts[d]) :
             Reconnected(d, r) /\ enqueue_ping(d, r.state, r.queue, r.timer)
        BY <1>2 DEF VisitUnconnected
    <2>2. r.queue \in Seq(Action(d))
        BY <1>1, <2>1, ReconnectType DEF Outcome
    <2>3. \A e \in Devs \ {d} : acts'[e] = acts[e]
        BY <2>1, <2>2, PingHead
    <2>4. InStep(d)'
        BY <1>1, <2>1, ReconnectedQuiet DEF InStep
    <2>5. delivered' = delivered /\ answered' = answered
        BY <1>2 DEF VisitUnconnected
    <2>. QED  BY <1>1, <2>1, <2>3, <2>4, <2>5, ReconnectedQuiet, StageOneDevice
<1>3. CASE VisitFinishConnect(d)
    <2>1. /\ to' = to /\ from' = from /\ heard' = heard /\ rx' = rx
          /\ delivered' = delivered /\ answered' = answered
          /\ connect_state[d] = "CONNECTING"
          /\ connect_state' = [ connect_state EXCEPT ![d] = "CONNECTED" ]
        BY <1>3 DEF VisitFinishConnect, bufs, wire
    <2>2. InStep(d)'
        BY <1>1, <2>1, NoExchange, QuietStays
    <2>3. \A e \in Devs \ {d} : acts'[e] = acts[e] /\ connect_state'[e] = connect_state[e]
        BY <1>3, <2>1 DEF VisitFinishConnect, enqueue_ping, TypeOK, QueueTypeOK, ConnTypeOK
    <2>. QED  BY <2>1, <2>2, <2>3, StageOneDevice
<1>4. CASE VisitConnected(d)
    BY <1>4, TransmitStage
<1>5. CASE VisitConnecting(d)
    <2>1. /\ to' = to /\ from' = from /\ heard' = heard /\ rx' = rx
          /\ delivered' = delivered /\ answered' = answered
          /\ connect_state[d] = "CONNECTING" /\ connect_state' = connect_state
        BY <1>5 DEF VisitConnecting, bufs, wire, conn
    <2>2. InStep(d)'
        BY <1>1, <2>1, NoExchange, QuietStays
    <2>3. \A e \in Devs \ {d} : acts'[e] = acts[e]
        BY <1>5 DEF VisitConnecting, enqueue_ping, TypeOK, QueueTypeOK
    <2>. QED  BY <2>1, <2>2, <2>3, StageOneDevice
<1>. QED  BY <1>2, <1>3, <1>4, <1>5 DEF Visit

(* The device answers the head of its queue, or what it heard is lost.     *)
LEMMA NetworkStage ==
    ASSUME TypeOK, OutputIsSent, AllInStep, NEW d \in Devs, Network(d)
    PROVE  AllInStep'
<1>1. OutputOK(d) /\ InStep(d)
    BY DEF OutputIsSent, AllInStep
<1>2. /\ connect_state' = connect_state /\ to' = to /\ from' = from
      /\ delivered' = delivered /\ acts' = acts
    BY DEF Network, LinkOpens, LinkDrops, Answers, Environment, bufs
<1>3. /\ \A e \in Devs : acts'[e] = acts[e] /\ top(e)' = top(e)
      /\ heard[d] \in Seq(Sent(d)) /\ rx[d] \in Seq(Line(d))
    BY <1>2 DEF top, TypeOK, WireTypeOK
<1>4. CASE LinkOpens(d)
    BY <1>2, <1>4, StageSame DEF LinkOpens
<1>5. CASE LinkDrops(d)
    <2>1. /\ heard'[d] = << >> /\ answered' = answered
          /\ rx'[d] = << >> \/ rx'[d] = rx[d]
          /\ \A e \in Devs \ {d} : heard'[e] = heard[e] /\ rx'[e] = rx[e]
        BY <1>5 DEF LinkDrops, TypeOK, WireTypeOK
    <2>2. CASE heard[d] = << >> /\ rx'[d] = rx[d]
        <3>1. InStep(d)'
            BY <1>1, <1>2, <1>3, <2>1, <2>2, StageKept
        <3>. QED  BY <1>2, <2>1, <3>1, StageOneDevice
    <2>3. CASE heard[d] # << >> \/ rx'[d] # rx[d]
        <3>1. to[d] = << >> /\ from[d] = << >> /\ rx'[d] = << >>
            <4>1. rx'[d] # rx[d] => rx[d] # << >>
                BY <2>1
            <4>2. Len(<< >>) = 0
                OBVIOUS
            <4>3. (Len(rx[d]) = 1 => rx[d] # << >>) /\ (Len(from[d]) = 1 => from[d] # << >>)
                BY <4>2
            <4>. QED  BY <1>1, <2>1, <2>3, <4>1, <4>2, <4>3 DEF InStep, Quiet, Writes, Asks, Reads
        <3>2. InStep(d)'
            BY <1>2, <2>1, <3>1 DEF InStep, Quiet
        <3>. QED  BY <1>2, <2>1, <3>2, StageOneDevice
    <2>. QED  BY <2>1, <2>2, <2>3
<1>6. CASE Answers(d)
    <2>. DEFINE t == Head(heard[d])
                line(p, st) == [ com |-> t.com, client |-> t.client, plug |-> p, state |-> st ]
    <2>1. heard[d] # << >>
        BY <1>6 DEF Answers
    <2>2. Asks(d)
        BY <1>1, <2>1 DEF InStep, Quiet, Writes, Reads
    <2>3. /\ t = heard[d][1] /\ OfHead(d, t) /\ t.plugs = top(d).plugs /\ t.arg # "each"
          /\ Tail(heard[d]) = << >>
        <3>. HIDE DEF t
        <3>1. Len(heard[d]) = 1
            BY <2>2 DEF Asks
        <3>2. t = heard[d][1] /\ Tail(heard[d]) = << >>
            BY <1>3, <3>1, OneTail DEF t
        <3>. QED  BY <2>2, <3>2 DEF Asks
    <2>4. /\ heard'[d] = << >>
          /\ \A e \in Devs \ {d} : heard'[e] = heard[e] /\ rx'[e] = rx[e]
        BY <1>6, <2>3 DEF Answers, TypeOK, WireTypeOK
    <2>5. /\ \A c \in Clients : answered[c] \subseteq answered'[c]
          /\ \E p, st : /\ rx'[d] = Append(rx[d], line(p, st))
                        /\ \/ st = "done"
                           \/ /\ is_first(p, t.plugs)
                              /\ t.client \in Clients => << d, p, st >> \in answered'[t.client]
        <3>1. CASE t.arg = "ack"
            <4>1. rx' = [ rx EXCEPT ![d] = Append(@, line(0, "done")) ] /\ answered' = answered
                BY <1>6, <3>1 DEF Answers
            <4>. HIDE DEF line, t
            <4>2. rx'[d] = Append(rx[d], line(0, "done"))
                BY <4>1 DEF TypeOK, WireTypeOK
            <4>. QED  BY <4>1, <4>2
        <3>2. CASE t.arg # "ack"
            <4>1. PICK p \in t.plugs, st \in PlugStates :
                     /\ is_first(p, t.plugs)
                     /\ rx' = [ rx EXCEPT ![d] = Append(@, line(p, st)) ]
                     /\ answered' = [ c \in Clients |-> IF c = t.client
                                        THEN answered[c] \cup {<< d, p, st >>} ELSE answered[c] ]
                BY <1>6, <2>3, <3>2 DEF Answers
            <4>. HIDE DEF line, t
            <4>2. rx'[d] = Append(rx[d], line(p, st))
                BY <4>1 DEF TypeOK, WireTypeOK
            <4>3. t.client \in Clients => << d, p, st >> \in answered'[t.client]
                BY <4>1
            <4>. QED  BY <4>1, <4>2, <4>3
        <3>. QED  BY <3>1, <3>2
    <2>6. PICK p, st : /\ rx'[d] = Append(rx[d], line(p, st))
                       /\ \/ st = "done"
                          \/ /\ is_first(p, t.plugs)
                             /\ t.client \in Clients => << d, p, st >> \in answered'[t.client]
        BY <2>5
    <2>7. /\ line(p, st).com = t.com /\ line(p, st).client = t.client
          /\ line(p, st).plug = p /\ line(p, st).state = st
        OBVIOUS
    <2>. DEFINE l == line(p, st)
    <2>. HIDE DEF line, t
    <2>8. Len(rx'[d]) = 1 /\ rx'[d][1] = l
        BY <2>2, <2>6 DEF Asks
    <2>9. Awaits(d)' /\ Transmitted(d)'
        BY <1>2, <1>3, <2>2 DEF Asks, Awaits, Transmitted
    <2>10. OfHead(d, rx[d][1])'
        BY <1>2, <2>3, <2>7, <2>8 DEF OfHead
    <2>11. IsAnswer(d, rx[d][1])'
        BY <1>3, <2>3, <2>6, <2>7, <2>8 DEF IsAnswer
    <2>12. Reads(d, rx[d], from[d])'
        BY <1>2, <2>2, <2>4, <2>8, <2>9, <2>10, <2>11 DEF Reads, Asks
    <2>13. InStep(d)'
        BY <2>12 DEF InStep
    <2>. QED  BY <1>2, <2>4, <2>5, <2>13, StageOneDevice
<1>. QED  BY <1>4, <1>5, <1>6 DEF Network

(* A send that has been transmitted is followed by its expect.             *)
LEMMA SendThenExpect ==
    ASSUME AnswersAwaited, TypeOK, NEW d \in Devs, acts[d] # << >>,
           cur_stmt(top(d)).type = "send"
    PROVE  /\ cur_stmt(top(d)).arg # "each"
           /\ ~Leaves(d) /\ ~Ends(d)
           /\ GoesOn(d) => /\ acts'[d] # << >>
                           /\ Head(acts'[d]).com = Head(acts[d]).com
                           /\ Head(acts'[d]).client = Head(acts[d]).client
                           /\ top(d)'.plugs = top(d).plugs
                           /\ cur_stmt(top(d)').type = "expect"
<1>. DEFINE s == Head(acts[d]).exec
            b == top(d).block
            k == top(d).stmt
<1>1. top(d) \in ExecCtx(Plugs(d)) /\ top(d) = s[1]
    BY HeadType, StackParts DEF TypeOK, Action, top
<1>2. b \in DOMAIN Block /\ k \in 1..Len(Block[b]) /\ Len(Block[b]) \in Nat
    BY <1>1, BlockAssumption DEF ExecCtx
<1>3. Block[b][k].arg # "each" /\ k < Len(Block[b]) /\ Block[b][k + 1].type = "expect"
    BY <1>2 DEF AnswersAwaited, cur_stmt
<1>4. k # Len(Block[b])
    BY <1>2, <1>3
<1>5. ~Leaves(d) /\ ~Ends(d)
    BY <1>1, <1>4 DEF Leaves, Ends, Popped, AtEnd
<1>6. ASSUME NEW a, HeadBecomes(d, a), Advanced(a.exec, s)
      PROVE  /\ acts'[d] # << >> /\ Head(acts'[d]).com = Head(acts[d]).com
             /\ Head(acts'[d]).client = Head(acts[d]).client
             /\ top(d)'.plugs = top(d).plugs
             /\ cur_stmt(top(d)').type = "expect"
    <2>1. acts'[d] # << >> /\ Head(acts'[d]) = a /\ top(d)' = a.exec[1]
        BY <1>6, BecomesHead
    <2>2. a.exec[1].block = b /\ a.exec[1].stmt = k + 1 /\ a.exec[1].plugs = top(d).plugs
        BY <1>1, <1>6 DEF Advanced
    <2>. QED  BY <1>3, <1>6, <2>1, <2>2 DEF HeadBecomes, cur_stmt
<1>. QED  BY <1>3, <1>5, <1>6 DEF GoesOn, cur_stmt

(* A send writes when nothing is under way, and hands over to its expect   *)
(* when what it wrote has been transmitted.                                *)
LEMMA SendStage ==
    ASSUME AnswersAwaited, TypeOK, OutputIsSent, AllInStep, NEW d \in Devs, process_send(d)
    PROVE  AllInStep'
<1>. DEFINE e == top(d)
            flag(b) == set_top(head(d).exec, [ e EXCEPT !.processing = b ])
            sent == [ com |-> head(d).com, client |-> head(d).client,
                      plugs |-> e.plugs, arg |-> cur_stmt(e).arg ]
            written == IF e.processing THEN to[d] ELSE Append(to[d], sent)
            act == [ head(d) EXCEPT !.exec = flag(TRUE) ]
<1>1. /\ acts[d] # << >> /\ cur_stmt(e).type = "send"
      /\ connect_state[d] = "CONNECTED" /\ OutputOK(d) /\ InStep(d)
      /\ to' = [ to EXCEPT ![d] = written ]
    BY DEF process_send, Executes, OutputIsSent, AllInStep
<1>2. /\ head(d) \in Action(d) /\ head(d).exec = Head(acts[d]).exec
      /\ e \in ExecCtx(Plugs(d)) /\ head(d).exec \in Stacks(Plugs(d)) /\ e = head(d).exec[1]
    BY <1>1, HeadType, StackParts DEF TypeOK, Action, top
<1>3. /\ from' = from /\ heard' = heard /\ rx' = rx
      /\ delivered' = delivered /\ answered' = answered
      /\ to'[d] = written /\ \A f \in Devs \ {d} : to'[f] = to[f]
    BY <1>1 DEF process_send, wire, TypeOK, WireTypeOK
<1>4. cur_stmt(e).arg # "each"
    BY <1>1, SendThenExpect
<1>5. CASE written = << >>
    <2>1. Finish(d, flag(FALSE))
        BY <1>5 DEF process_send
    <2>2. connect_state' = connect_state /\ \A f \in Devs \ {d} : acts'[f] = acts[f]
        BY <2>1, OthersQueues
    <2>3. flag(FALSE) \in Stacks(Plugs(d)) /\ Alike(flag(FALSE), Head(acts[d]).exec)
        <3>1. [ e EXCEPT !.processing = FALSE ] \in ExecCtx(Plugs(d))
              /\ place([ e EXCEPT !.processing = FALSE ]) = place(head(d).exec[1])
            BY <1>2, CtxType DEF ExecCtx, place
        <3>. QED  BY <1>2, <3>1, SetTopAlike
    <2>4. GoesOn(d)
        BY <1>1, <2>1, <2>3, FinishMoves, SendThenExpect
    <2>5. /\ acts'[d] # << >>
          /\ Head(acts'[d]).com = Head(acts[d]).com
          /\ Head(acts'[d]).client = Head(acts[d]).client
          /\ top(d)'.plugs = top(d).plugs
          /\ cur_stmt(top(d)').type = "expect"
        BY <1>1, <2>4, SendThenExpect
    <2>6. Awaits(d)'
        BY <1>1, <2>2, <2>5 DEF Awaits
    <2>7. to'[d] = to[d]
        <3>1. to[d] \in Seq(Sent(d))
            BY DEF TypeOK, WireTypeOK
        <3>2. ASSUME NEW m PROVE Append(to[d], m) # << >>
            BY <3>1
        <3>3. e.processing
            BY <1>5, <3>2
        <3>. QED  BY <1>3, <3>3
    <2>8. InStep(d)'
        BY <1>1, <1>3, <2>5, <2>6, <2>7, StageMoved
    <2>. QED  BY <1>3, <2>2, <2>8, StageOneDevice
<1>6. CASE written # << >>
    <2>1. Stall(d, act, {})
        BY <1>2, <1>6 DEF process_send
    <2>2. connect_state' = connect_state /\ \A f \in Devs \ {d} : acts'[f] = acts[f]
        BY <2>1, OthersQueues
    <2>3. heard[d] = << >> /\ rx[d] = << >> /\ from[d] = << >> /\ written[1].arg # "each"
        <3>1. CASE e.processing
            BY <1>1, <1>6, <3>1 DEF InStep, Quiet, Writes, Asks, Reads
        <3>2. CASE ~e.processing
            <4>1. Quiet(d)
                BY <1>1, <3>2, NoExchange
            <4>2. written = << sent >>
                BY <3>2, <4>1 DEF Quiet
            <4>3. sent.arg # "each"
                BY <1>4
            <4>4. << sent >>[1] = sent
                OBVIOUS
            <4>. HIDE DEF sent, written
            <4>. QED  BY <4>1, <4>2, <4>3, <4>4 DEF Quiet
        <3>. QED  BY <3>1, <3>2
    <2>4. Writes(d)'
        BY <1>3, <1>6, <2>3 DEF Writes
    <2>. QED  BY <1>3, <2>2, <2>4, StageOneDevice DEF InStep
<1>. QED  BY <1>5, <1>6

(* No lines to be read are none to be spanned.                             *)
LEMMA NoLines ==
    ASSUME NEW n \in 1..Len(<< >>)
    PROVE  FALSE
<1>1. Len(<< >>) = 0
    OBVIOUS
<1>. QED  BY <1>1

(* An expect that matches the only line there is to be read takes it.      *)
LEMMA LineTaken ==
    ASSUME TypeOK, NEW d \in Devs, process_expect(d), Len(from[d]) = 1,
           lines_spanned(d) \in 1..Len(from[d])
    PROVE  /\ from'[d] = << >> /\ xmatch'[d] = << from[d][1] >>
           /\ \A f \in Devs \ {d} : from'[f] = from[f]
<1>1. from[d] \in Seq(Line(d)) /\ d \in DOMAIN from /\ d \in DOMAIN xmatch
    BY DEF TypeOK, WireTypeOK
<1>2. lines_spanned(d) = 1
    OBVIOUS
<1>3. /\ xmatch' = [ xmatch EXCEPT ![d] = SubSeq(from[d], 1, 1) ]
      /\ from' = [ from EXCEPT ![d] = SubSeq(from[d], 1 + 1, 1) ]
    BY <1>2 DEF process_expect
<1>4. SubSeq(from[d], 1, 1) = << from[d][1] >> /\ SubSeq(from[d], 1 + 1, 1) = << >>
    <2>1. ASSUME NEW t \in Seq(Line(d)), Len(t) = 1
          PROVE  t = << t[1] >>
        <3>1. DOMAIN t = 1..1 /\ t = [ i \in 1..1 |-> t[i] ]
            BY <2>1
        <3>2. << t[1] >> = [ i \in 1..1 |-> t[1] ]
            OBVIOUS
        <3>. QED  BY <3>1, <3>2
    <2>4. \A t \in Seq(Line(d)) : Len(t) = 0 => t = << >>
        OBVIOUS
    <2>2. ASSUME NEW t \in Seq(Line(d)), Len(t) = 1
          PROVE  /\ SubSeq(t, 1, 1) \in Seq(Line(d)) /\ SubSeq(t, 2, 1) \in Seq(Line(d))
                 /\ Len(SubSeq(t, 1, 1)) = 1 /\ Len(SubSeq(t, 2, 1)) = 0
                 /\ SubSeq(t, 1, 1)[1] = t[1]
        <3>1. SubSeq(t, 1, 1) \in Seq(Line(d)) /\ SubSeq(t, 2, 1) \in Seq(Line(d))
            BY <2>2
        <3>2. Len(SubSeq(t, 1, 1)) = 1 /\ Len(SubSeq(t, 2, 1)) = 0
            BY <2>2
        <3>3. SubSeq(t, 1, 1)[1] = t[1]
            BY <2>2
        <3>. QED  BY <3>1, <3>2, <3>3
    <2>. DEFINE t == from[d]
    <2>5. t \in Seq(Line(d)) /\ Len(t) = 1
        BY <1>1
    <2>. HIDE DEF t
    <2>6. SubSeq(t, 1, 1) = << SubSeq(t, 1, 1)[1] >> /\ SubSeq(t, 2, 1) = << >>
        BY <2>1, <2>2, <2>4, <2>5
    <2>7. SubSeq(t, 1, 1)[1] = t[1]
        BY <2>2, <2>5
    <2>. QED  BY <2>6, <2>7 DEF t
<1>. QED  BY <1>1, <1>3, <1>4 DEF TypeOK, WireTypeOK

(* An expect takes all there is to be read.                                *)
LEMMA ExpectStage ==
    ASSUME TypeOK, OutputIsSent, AllInStep, NEW d \in Devs, process_expect(d)
    PROVE  AllInStep'
<1>1. /\ acts[d] # << >> /\ InStep(d) /\ OutputOK(d) /\ cur_stmt(top(d)).type = "expect"
      /\ to' = to /\ heard' = heard /\ rx' = rx /\ delivered' = delivered /\ answered' = answered
    BY DEF process_expect, Executes, AllInStep, OutputIsSent, wire
<1>2. /\ head(d).com = Head(acts[d]).com /\ head(d).client = Head(acts[d]).client
      /\ head(d).exec = Head(acts[d]).exec /\ head(d) \in Action(d)
    BY <1>1, HeadType DEF TypeOK
<1>3. CASE lines_spanned(d) \in 1..Len(from[d])
    <2>1. Finish(d, head(d).exec)
        BY <1>3 DEF process_expect
    <2>2. connect_state' = connect_state /\ \A f \in Devs \ {d} : acts'[f] = acts[f]
        BY <2>1, OthersQueues
    <2>3. Reads(d, from[d], rx[d])
        BY <1>1, <1>3, NoLines DEF InStep, Quiet, Writes, Asks, Reads
    <2>5. from'[d] = << >> /\ \A f \in Devs \ {d} : from'[f] = from[f]
        BY <1>3, <2>3, LineTaken DEF Reads
    <2>6. InStep(d)'
        BY <1>1, <2>3, <2>5 DEF InStep, Quiet, Reads
    <2>. QED  BY <1>1, <2>2, <2>5, <2>6, StageOneDevice
<1>4. CASE lines_spanned(d) \notin 1..Len(from[d])
    <2>1. Stall(d, head(d), {}) /\ from' = from
        BY <1>4 DEF process_expect
    <2>2. connect_state' = connect_state /\ \A f \in Devs \ {d} : acts'[f] = acts[f]
        BY <2>1, OthersQueues
    <2>3. acts'[d] = << head(d) >> \o Tail(acts[d])
        BY <2>1 DEF Stall, requeue, TypeOK, QueueTypeOK
    <2>4. HeadBecomes(d, head(d))
        BY <1>2, <2>3 DEF HeadBecomes
    <2>5. acts'[d] # << >> /\ Head(acts'[d]) = head(d)
        BY <1>1, <2>4, BecomesHead
    <2>6. top(d)' = top(d)
        BY <1>2, <2>5 DEF top
    <2>7. InStep(d)'
        BY <1>1, <1>2, <2>1, <2>2, <2>5, <2>6, StageKept
    <2>. QED  BY <1>1, <2>1, <2>2, <2>7, StageOneDevice
<1>. QED  BY <1>3, <1>4

(* The other statements are executed when nothing is under way.            *)
LEMMA StatementStage ==
    ASSUME AnswersAwaited, TypeOK, OutputIsSent, AllInStep, NEW d \in Devs, Statement(d)
    PROVE  AllInStep'
<1>1. ASSUME NEW t \in {"delay", "setplugstate", "foreachplug", "foreachnode", "ifon", "ifoff"},
             Executes(d, t)
      PROVE  Quiet(d)
    BY <1>1, NoExchange DEF Executes, OutputIsSent, AllInStep
<1>2. ASSUME Quiet(d), bufs' = bufs, wire' = wire,
             \/ \E exec : Finish(d, exec) \/ GoOn(d, exec)
             \/ \E act, timers : Stall(d, act, timers)
      PROVE  AllInStep'
    <2>1. connect_state' = connect_state /\ \A f \in Devs \ {d} : acts'[f] = acts[f]
        BY <1>2, OthersQueues
    <2>2. /\ to' = to /\ from' = from /\ heard' = heard /\ rx' = rx
          /\ delivered' = delivered /\ answered' = answered
        BY <1>2 DEF bufs, wire
    <2>3. InStep(d)'
        BY <1>2, <2>2, QuietStays
    <2>. QED  BY <2>1, <2>2, <2>3, StageOneDevice
<1>3. CASE process_delay(d)
    <2>1. Quiet(d) /\ bufs' = bufs /\ wire' = wire
        BY <1>1, <1>3 DEF process_delay
    <2>2. (\E exec : Finish(d, exec)) \/ \E act : Stall(d, act, { << "delay", d >> })
        BY <1>3 DEF process_delay
    <2>. QED  BY <1>2, <2>1, <2>2
<1>4. CASE process_setplugstate(d)
    <2>1. Quiet(d) /\ bufs' = bufs /\ wire' = wire /\ Finish(d, head(d).exec)
        BY <1>1, <1>4 DEF process_setplugstate
    <2>. QED  BY <1>2, <2>1
<1>5. CASE process_foreach(d)
    <2>1. Quiet(d) /\ bufs' = bufs /\ wire' = wire
        BY <1>1, <1>5 DEF process_foreach
    <2>2. \E exec : Finish(d, exec) \/ GoOn(d, exec)
        BY <1>5 DEF process_foreach
    <2>. QED  BY <1>2, <2>1, <2>2
<1>6. CASE process_ifonoff(d)
    <2>1. Quiet(d)
        BY <1>1, <1>6 DEF process_ifonoff
    <2>2. \/ Fail(d, "EEXPFAIL")
          \/ bufs' = bufs /\ wire' = wire /\ \E exec : Finish(d, exec) \/ GoOn(d, exec)
        BY <1>6 DEF process_ifonoff
    <2>. QED  BY <1>2, <2>1, <2>2, FailStage
<1>. QED  BY <1>3, <1>4, <1>5, <1>6, SendStage, ExpectStage DEF Statement

(* Time changes the timers of an action and not where it is.               *)
LEMMA TimeStage ==
    ASSUME TypeOK, AllInStep, NEW d \in Devs, Time(d)
    PROVE  AllInStep'
<1>1. /\ connect_state' = connect_state /\ to' = to /\ from' = from
      /\ heard' = heard /\ rx' = rx /\ delivered' = delivered /\ answered' = answered
    BY DEF Time, StampExpires, DelayExpires, RetryExpires, PingFallsDue, Clock, Environment, bufs
<1>2. CASE RetryExpires(d) \/ PingFallsDue(d)
    BY <1>1, <1>2, StageSame DEF RetryExpires, PingFallsDue
<1>3. CASE StampExpires(d) \/ DelayExpires(d)
    <2>1. PICK i \in DOMAIN acts[d] :
             \/ acts' = [ acts EXCEPT ![d][i].time_stamp = "expired" ]
             \/ acts' = [ acts EXCEPT ![d][i].delay_start = "expired" ]
        BY <1>3 DEF StampExpires, DelayExpires
    <2>2. acts[d] \in Seq(Action(d)) /\ acts[d][i] \in Action(d)
        BY DEF TypeOK, QueueTypeOK
    <2>3. PICK a : /\ a.com = acts[d][i].com /\ a.client = acts[d][i].client
                   /\ a.exec = acts[d][i].exec /\ acts' = [ acts EXCEPT ![d][i] = a ]
        BY <2>1, <2>2 DEF Action
    <2>4. acts'[d] = [ acts[d] EXCEPT ![i] = a ] /\ \A e \in Devs \ {d} : acts'[e] = acts[e]
        BY <2>3 DEF TypeOK, QueueTypeOK
    <2>5. /\ acts'[d] # << >> /\ Head(acts'[d]) = IF i = 1 THEN a ELSE Head(acts[d])
          /\ Head(acts[d]) = acts[d][1]
        BY <2>2, <2>4
    <2>6. /\ Head(acts'[d]).com = Head(acts[d]).com
          /\ Head(acts'[d]).client = Head(acts[d]).client /\ top(d)' = top(d)
        BY <2>3, <2>5 DEF top
    <2>7. InStep(d)'
        BY <1>1, <2>5, <2>6, StageKept DEF AllInStep
    <2>. QED  BY <1>1, <2>4, <2>7, StageOneDevice
<1>. QED  BY <1>2, <1>3 DEF Time

(* A command of a client that has nothing queued disturbs no exchange.     *)
LEMMA ClientCommandStage ==
    ASSUME TypeOK, AllInStep, ClientCommand
    PROVE  AllInStep'
<1>1. PICK com \in ClientComs, c \in Clients, hl \in SUBSET Nodes :
         /\ \A d \in Devs : \A i \in DOMAIN acts[d] : acts[d][i].client # c
         /\ dev_enqueue_actions(com, hl, c)
    BY DEF ClientCommand
<1>2. /\ connect_state' = connect_state /\ to' = to /\ from' = from
      /\ heard' = heard /\ rx' = rx
      /\ delivered' = [ delivered EXCEPT ![c] = {} ]
      /\ answered' = [ answered EXCEPT ![c] = {} ]
    BY <1>1 DEF dev_enqueue_actions, bufs
<1>3. \A b \in Clients \ {c} : delivered'[b] = delivered[b] /\ answered'[b] = answered[b]
    BY <1>2 DEF TypeOK, CommandTypeOK
<1>4. ASSUME NEW d \in Devs PROVE InStep(d)'
    <2>. DEFINE new == new_acts(d, com, hl, c)
    <2>1. acts[d] \in Seq(Action(d)) /\ new \in Seq(Action(d))
        BY NewActsType DEF TypeOK, QueueTypeOK
    <2>2. acts'[d] = acts[d] \o new
        BY <1>1 DEF dev_enqueue_actions
    <2>. HIDE DEF new
    <2>3. acts[d] # << >> => /\ acts'[d] # << >> /\ Head(acts'[d]) = Head(acts[d])
                             /\ Head(acts[d]) = acts[d][1] /\ 1 \in DOMAIN acts[d]
        BY <2>1, <2>2
    <2>4. acts[d] # << >> => top(d)' = top(d) /\ Head(acts[d]).client # c
        BY <1>1, <2>3 DEF top
    <2>. QED  BY <1>2, <1>3, <2>3, <2>4, StageKept DEF AllInStep
<1>. QED  BY <1>4 DEF AllInStep

(* Every step keeps every device in step with the head of its queue.       *)
LEMMA StageStep ==
    ASSUME AnswersAwaited, TypeOK, OutputIsSent, AllInStep, [Next]_vars
    PROVE  AllInStep'
<1>1. CASE dev_initial_connect
    <2>1. PICK r : Reconnected(cur, r) /\ acts' = [ acts EXCEPT ![cur] = r.queue ]
        BY <1>1 DEF dev_initial_connect
    <2>2. /\ cur \in Devs /\ OutputOK(cur) /\ InStep(cur)
          /\ delivered' = delivered /\ answered' = answered
        BY <1>1 DEF dev_initial_connect, TypeOK, LoopTypeOK, OutputIsSent, AllInStep
    <2>3. \A e \in Devs \ {cur} : acts'[e] = acts[e]
        BY <2>1, <2>2 DEF TypeOK, QueueTypeOK
    <2>. DEFINE d == cur
    <2>4. /\ to'[d] = << >> /\ heard'[d] = << >> /\ rx'[d] = << >> /\ from'[d] = << >>
          /\ \A e \in Devs \ {d} :
                 /\ connect_state'[e] = connect_state[e]
                 /\ to'[e] = to[e] /\ from'[e] = from[e]
                 /\ heard'[e] = heard[e] /\ rx'[e] = rx[e]
        BY <2>1, <2>2, ReconnectedQuiet DEF Quiet
    <2>5. ASSUME NEW e \in Devs PROVE InStep(e)'
        <3>1. CASE e = d
            BY <2>4, <3>1 DEF InStep, Quiet
        <3>2. CASE e # d
            <4>1. top(e)' = top(e)
                BY <2>3, <3>2 DEF top
            <4>. QED  BY <2>2, <2>3, <2>4, <3>2, <4>1, StageKept DEF AllInStep
        <3>. QED  BY <3>1, <3>2
    <2>. QED  BY <2>5 DEF AllInStep
<1>2. CASE PollReturns \/ ClientsDone \/ UNCHANGED vars
    BY <1>2, StageSame DEF PollReturns, ClientsDone, vars, conn, bufs, wire
<1>3. CASE ClientCommand
    BY <1>3, ClientCommandStage
<1>4. ASSUME NEW d \in Devs, Visit(d) PROVE AllInStep'
    BY <1>4, VisitStage
<1>5. ASSUME NEW d \in Devs, Process(d) PROVE AllInStep'
    <2>1. CASE ProcessIdle(d)
        BY <2>1, StageSame DEF ProcessIdle, conn, bufs, wire
    <2>2. CASE ProcessTimeout(d)
        BY <2>2, FailStage DEF ProcessTimeout
    <2>3. CASE ProcessUnconnected(d)
        <3>1. Stall(d, head(d), {}) /\ connect_state[d] # "CONNECTED"
            BY <2>3 DEF ProcessUnconnected
        <3>2. connect_state' = connect_state /\ \A f \in Devs \ {d} : acts'[f] = acts[f]
            BY <3>1, OthersQueues
        <3>3. /\ to' = to /\ from' = from /\ heard' = heard /\ rx' = rx
              /\ delivered' = delivered /\ answered' = answered
            BY <2>3 DEF ProcessUnconnected, bufs, wire
        <3>4. InStep(d)'
            BY <3>1, <3>3, NoExchange, QuietStays DEF OutputIsSent, AllInStep
        <3>. QED  BY <3>2, <3>3, <3>4, StageOneDevice
    <2>4. CASE Statement(d)
        BY <2>4, StatementStage
    <2>. QED  BY <1>5, <2>1, <2>2, <2>3, <2>4 DEF Process
<1>6. ASSUME NEW d \in Devs, Network(d) PROVE AllInStep'
    BY <1>6, NetworkStage
<1>7. ASSUME NEW d \in Devs, Time(d) PROVE AllInStep'
    BY <1>7, TimeStage
<1>. QED  BY <1>1, <1>2, <1>3, <1>4, <1>5, <1>6, <1>7 DEF Next

(* With scripts that expect every answer of the device, what an expect can *)
(* match is the answer to the send before it: nothing of an action that    *)
(* failed, was preempted or lost its connection reaches another one.       *)
THEOREM AnswersAreFresh ==
    ASSUME AnswersAwaited
    PROVE  Spec => []NoStaleAnswer
<1>1. Init => OutputIsSent /\ AllInStep
    BY DEF Init, OutputIsSent, OutputOK, AllInStep, InStep, Quiet
<1>2. TypeOK /\ OutputIsSent /\ AllInStep /\ [Next]_vars => OutputIsSent' /\ AllInStep'
    BY OutputStep, StageStep
<1>3. TypeOK /\ AllInStep => NoStaleAnswer
    <2>. SUFFICES ASSUME TypeOK, AllInStep, NEW d \in Devs, NEW i \in DOMAIN (from[d] \o rx[d])
                  PROVE  /\ acts[d] # << >>
                         /\ OfHead(d, (from[d] \o rx[d])[i])
        BY DEF NoStaleAnswer, OfHead
    <2>1. from[d] \in Seq(Line(d)) /\ rx[d] \in Seq(Line(d))
        BY DEF TypeOK, WireTypeOK
    <2>2. InStep(d)
        BY DEF AllInStep
    <2>3. CASE from[d] = << >> /\ rx[d] = << >>
        BY <2>3
    <2>4. ASSUME NEW s \in Seq(Line(d)), NEW t, Reads(d, s, t), from[d] \o rx[d] = s
          PROVE  acts[d] # << >> /\ OfHead(d, (from[d] \o rx[d])[i])
        <3>1. i = 1
            BY <2>4 DEF Reads
        <3>. QED  BY <2>4, <3>1 DEF Reads, Awaits
    <2>5. << >> \o rx[d] = rx[d] /\ from[d] \o << >> = from[d]
        BY <2>1
    <2>6. CASE Reads(d, rx[d], from[d])
        BY <2>1, <2>4, <2>5, <2>6 DEF Reads
    <2>7. CASE Reads(d, from[d], rx[d])
        BY <2>1, <2>4, <2>5, <2>7 DEF Reads
    <2>. QED  BY <2>2, <2>3, <2>6, <2>7 DEF InStep, Quiet, Writes, Asks
<1>. QED  BY <1>1, <1>2, <1>3, TypeCorrect, PTL DEF Spec

(***************************************************************************)
(* Only the head of a queue is under way                                   *)
(***************************************************************************)

(* Contexts at one place are alike in what an action is made of.           *)
LEMMA PlacesOrder ==
    ASSUME TypeOK, NEW d \in Devs, NEW a \in Action(d), NEW h \in Action(d),
           a.com = h.com, a.client = h.client, Nested(h), OfScript(d, h),
           \/ Alike(a.exec, h.exec) \/ Advanced(a.exec, h.exec)
           \/ Popped(a.exec, h.exec) \/ Pushed(a.exec, h.exec)
    PROVE  Nested(a) /\ OfScript(d, a)
<1>. DEFINE x == a.exec
            s == h.exec
<1>1. /\ Len(x) \in Nat \ {0} /\ Len(s) \in Nat \ {0}
      /\ outer(a) = x[Len(x)] /\ outer(h) = s[Len(s)]
    BY StackParts DEF Action, outer
<1>2. \A j \in 2..Len(s) : cur_stmt(s[j]).type \in Compound
    BY DEF Nested
<1>3. SUFFICES /\ \A j \in 2..Len(x) : cur_stmt(x[j]).type \in Compound
               /\ x[Len(x)].block = s[Len(s)].block
    BY <1>1 DEF Nested, OfScript
<1>. HIDE DEF x, s
<1>4. CASE Alike(x, s)
    <2>1. ASSUME NEW j \in 1..Len(x)
          PROVE  cur_stmt(x[j]) = cur_stmt(s[j]) /\ x[j].block = s[j].block
        BY <1>4, <2>1, PlaceSame DEF Alike
    <2>. QED  BY <1>1, <1>2, <1>4, <2>1 DEF Alike
<1>5. CASE Advanced(x, s)
    <2>1. ASSUME NEW j \in 2..Len(x)
          PROVE  cur_stmt(x[j]) = cur_stmt(s[j]) /\ x[j].block = s[j].block
        BY <1>5, <2>1, PlaceSame DEF Advanced
    <2>2. Len(x) = Len(s) /\ x[1].block = s[1].block
        BY <1>5 DEF Advanced
    <2>3. Len(x) = 1 \/ Len(x) \in 2..Len(x)
        <3>1. \A n \in Nat \ {0} : n = 1 \/ n \in 2..n
            OBVIOUS
        <3>. QED  BY <1>1, <3>1
    <2>. QED  BY <1>1, <1>2, <2>1, <2>2, <2>3
<1>6. CASE Popped(x, s)
    <2>1. ASSUME NEW j \in 1..Len(x)
          PROVE  cur_stmt(x[j]) = cur_stmt(s[j + 1]) /\ x[j].block = s[j + 1].block
        BY <1>6, <2>1, PlaceSame DEF Popped
    <2>2. Len(s) = Len(x) + 1 /\ \A j \in 2..Len(x) : j \in 1..Len(x) /\ j + 1 \in 2..Len(s)
        BY <1>1, <1>6 DEF Popped
    <2>3. Len(x) \in 1..Len(x)
        BY <1>1
    <2>. QED  BY <1>1, <1>2, <2>1, <2>2, <2>3
<1>7. CASE Pushed(x, s)
    <2>1. ASSUME NEW j \in 1..Len(s)
          PROVE  cur_stmt(x[j + 1]) = cur_stmt(s[j]) /\ x[j + 1].block = s[j].block
        BY <1>7, <2>1, PlaceSame DEF Pushed
    <2>2. Len(x) = Len(s) + 1 /\ cur_stmt(s[1]).type \in Compound
        BY <1>7 DEF Pushed
    <2>3. ASSUME NEW j \in 2..Len(x) PROVE cur_stmt(x[j]).type \in Compound
        <3>1. j - 1 \in 1..Len(s) /\ (j - 1) + 1 = j /\ (j - 1 = 1 \/ j - 1 \in 2..Len(s))
            BY <1>1, <2>2
        <3>2. cur_stmt(x[(j - 1) + 1]) = cur_stmt(s[j - 1])
            BY <2>1, <3>1
        <3>. QED  BY <1>2, <2>2, <3>1, <3>2
    <2>4. Len(s) \in 1..Len(s)
        BY <1>1
    <2>. QED  BY <2>1, <2>2, <2>3, <2>4
<1>. QED  BY <1>4, <1>5, <1>6, <1>7 DEF x, s

(* A head that moves leaves the rest of its queue as it was.               *)
LEMMA MovesOrder ==
    ASSUME TypeOK, NEW d \in Devs, acts[d] # << >>, InOrder(d, acts[d]),
           Waits(d) \/ GoesOn(d) \/ Leaves(d) \/ Enters(d) \/ Ends(d)
    PROVE  InOrder(d, acts'[d])
<1>1. acts[d] \in Seq(Action(d)) /\ Head(acts[d]) \in Action(d) /\ 1 \in DOMAIN acts[d]
      /\ acts[d][1] = Head(acts[d])
    BY DEF TypeOK, QueueTypeOK
<1>2. CASE Ends(d)
    BY <1>1, <1>2, OrderTail DEF Ends
<1>3. CASE ~Ends(d)
    <2>1. PICK a : /\ HeadBecomes(d, a)
                   /\ \/ Alike(a.exec, Head(acts[d]).exec) \/ Advanced(a.exec, Head(acts[d]).exec)
                      \/ Popped(a.exec, Head(acts[d]).exec) \/ Pushed(a.exec, Head(acts[d]).exec)
        BY <1>3 DEF Waits, GoesOn, Leaves, Enters
    <2>2. Nested(a) /\ OfScript(d, a)
        BY <1>1, <2>1, PlacesOrder DEF HeadBecomes, InOrder
    <2>3. /\ acts'[d][1] = a /\ DOMAIN acts'[d] = DOMAIN acts[d]
          /\ DOMAIN acts[d] = 1..Len(acts[d]) /\ Len(acts[d]) \in Nat
          /\ \A i \in 2..Len(acts[d]) : acts'[d][i] = acts[d][i]
        BY <2>1, BecomesHead
    <2>4. ASSUME NEW i \in DOMAIN acts'[d]
          PROVE  /\ i > 1 => IsFresh(acts'[d][i])
                 /\ Nested(acts'[d][i]) /\ OfScript(d, acts'[d][i])
        <3>1. i = 1 \/ i \in 2..Len(acts[d])
            BY <2>3
        <3>. QED  BY <2>2, <2>3, <3>1 DEF InOrder
    <2>. QED  BY <2>4 DEF InOrder
<1>. QED  BY <1>2, <1>3

(* The processing of a device touches no other queue and no histories.     *)
LEMMA ProcessLocal ==
    ASSUME TypeOK, NEW d \in Devs, Process(d)
    PROVE  /\ \A e \in Devs \ {d} : acts'[e] = acts[e] /\ xmatch'[e] = xmatch[e]
           /\ delivered' = delivered /\ answered' = answered
<1>1. ASSUME \/ \E exec : Finish(d, exec) \/ GoOn(d, exec)
             \/ \E act, timers : Stall(d, act, timers)
      PROVE  \A e \in Devs \ {d} : acts'[e] = acts[e]
    BY <1>1, OthersQueues
<1>2. ASSUME NEW err, Fail(d, err)
      PROVE  /\ \A e \in Devs \ {d} : acts'[e] = acts[e] /\ xmatch' = xmatch
             /\ delivered' = delivered /\ answered' = answered
    BY <1>2 DEF Fail, Reconnected, bufs, TypeOK, QueueTypeOK
<1>3. CASE ProcessIdle(d)
    BY <1>3 DEF ProcessIdle, bufs, wire
<1>4. CASE ProcessTimeout(d)
    BY <1>2, <1>4 DEF ProcessTimeout
<1>5. CASE ProcessUnconnected(d)
    BY <1>1, <1>5 DEF ProcessUnconnected, bufs, wire
<1>6. CASE process_send(d)
    <2>1. xmatch' = xmatch /\ delivered' = delivered /\ answered' = answered
        BY <1>6 DEF process_send, wire
    <2>2. (\E exec : Finish(d, exec)) \/ \E act : Stall(d, act, {})
        BY <1>6 DEF process_send
    <2>. QED  BY <1>1, <2>1, <2>2
<1>7. CASE process_expect(d)
    <2>1. delivered' = delivered /\ answered' = answered
        BY <1>7 DEF process_expect, wire
    <2>2. \A e \in Devs \ {d} : xmatch'[e] = xmatch[e]
        BY <1>7 DEF process_expect, TypeOK, WireTypeOK
    <2>. QED  BY <1>1, <1>7, <2>1, <2>2 DEF process_expect
<1>8. CASE process_delay(d)
    <2>1. xmatch' = xmatch /\ delivered' = delivered /\ answered' = answered
        BY <1>8 DEF process_delay, wire, bufs
    <2>2. (\E exec : Finish(d, exec)) \/ \E act : Stall(d, act, { << "delay", d >> })
        BY <1>8 DEF process_delay
    <2>. QED  BY <1>1, <2>1, <2>2
<1>9. CASE process_setplugstate(d)
    BY <1>1, <1>9 DEF process_setplugstate, bufs, wire
<1>10. CASE process_foreach(d)
    <2>1. xmatch' = xmatch /\ delivered' = delivered /\ answered' = answered
        BY <1>10 DEF process_foreach, wire, bufs
    <2>2. \E exec : Finish(d, exec) \/ GoOn(d, exec)
        BY <1>10 DEF process_foreach
    <2>. QED  BY <1>1, <2>1, <2>2
<1>11. CASE process_ifonoff(d)
    <2>1. \/ Fail(d, "EEXPFAIL")
          \/ bufs' = bufs /\ wire' = wire /\ \E exec : Finish(d, exec) \/ GoOn(d, exec)
        BY <1>11 DEF process_ifonoff
    <2>. QED  BY <1>1, <1>2, <2>1 DEF bufs, wire
<1>. QED  BY <1>3, <1>4, <1>5, <1>6, <1>7, <1>8, <1>9, <1>10, <1>11 DEF Process, Statement

(* The head of a queue is where it was, or has not begun.                  *)
HeadRests(d) ==
    /\ acts[d] # << >> /\ acts'[d] # << >>
    /\ Head(acts'[d]).com = Head(acts[d]).com /\ Head(acts'[d]).client = Head(acts[d]).client
    /\ place(top(d)') = place(top(d))
    /\ place(outer(Head(acts'[d]))) = place(outer(Head(acts[d])))

HeadNew(d) == acts'[d] # << >> => IsFresh(Head(acts'[d]))

(* Actions that have not begun may be added behind a head.                 *)
LEMMA BehindHead ==
    ASSUME NEW d, NEW q \in Seq(Action(d)), NEW t \in Seq(Action(d)), InOrder(d, q),
           Fresh(d, t), acts'[d] = q \o t
    PROVE  /\ InOrder(d, acts'[d])
           /\ q # << >> => acts'[d] # << >> /\ Head(acts'[d]) = Head(q)
           /\ q = << >> => HeadNew(d)
<1>1. InOrder(d, q \o t)
    BY OrderConcat
<1>2. q # << >> => q \o t # << >> /\ Head(q \o t) = Head(q)
    OBVIOUS
<1>3. q = << >> => q \o t = t
    OBVIOUS
<1>4. t # << >> => 1 \in DOMAIN t /\ Head(t) = t[1]
    OBVIOUS
<1>. QED  BY <1>1, <1>2, <1>3, <1>4 DEF Fresh, HeadNew

(* So it is with a ping.                                                   *)
LEMMA PingOrder ==
    ASSUME TypeOK, NEW d \in Devs, NEW state, NEW q \in Seq(Action(d)), NEW timer,
           InOrder(d, q), enqueue_ping(d, state, q, timer)
    PROVE  /\ InOrder(d, acts'[d])
           /\ q # << >> => acts'[d] # << >> /\ Head(acts'[d]) = Head(q)
           /\ q = << >> => HeadNew(d)
           /\ \A e \in Devs \ {d} : acts'[e] = acts[e]
<1>. DEFINE a == create_action(d, "ping", {}, NoClient)
<1>1. \A e \in Devs \ {d} : acts'[e] = acts[e]
    BY PingHead
<1>2. \/ acts' = [ acts EXCEPT ![d] = q ]
      \/ "ping" \in DOMAIN Scripts[d] /\ acts' = [ acts EXCEPT ![d] = Append(q, a) ]
    BY DEF enqueue_ping
<1>3. CASE acts' = [ acts EXCEPT ![d] = q ]
    <2>1. << >> \in Seq(Action(d)) /\ Fresh(d, << >>) /\ q = q \o << >>
        BY DEF Fresh
    <2>2. acts'[d] = q \o << >>
        BY <1>3, <2>1 DEF TypeOK, QueueTypeOK
    <2>. QED  BY <1>1, <2>1, <2>2, BehindHead
<1>4. CASE "ping" \in DOMAIN Scripts[d] /\ acts' = [ acts EXCEPT ![d] = Append(q, a) ]
    <2>1. a \in Action(d)
        BY <1>4, CreateActionType DEF Callers
    <2>2. IsFresh(a) /\ OfScript(d, a)
        BY CreateFresh
    <2>. HIDE DEF a
    <2>3. << a >> \in Seq(Action(d)) /\ Fresh(d, << a >>) /\ Append(q, a) = q \o << a >>
        BY <2>1, <2>2 DEF Fresh
    <2>4. acts'[d] = q \o << a >>
        BY <1>4, <2>3 DEF TypeOK, QueueTypeOK
    <2>. QED  BY <1>1, <2>3, <2>4, BehindHead
<1>. QED  BY <1>2, <1>3, <1>4

(* The login a connection begins with has not begun, nor has what is at    *)
(* the head when a login was taken away.                                   *)
LEMMA ReconnectHead ==
    ASSUME NEW d \in Devs, NEW q \in Seq(Action(d)), InOrder(d, q)
    PROVE  /\ enqueue_login(d, q) # << >> /\ IsFresh(Head(enqueue_login(d, q)))
           /\ \A r \in connect(d, q) \cup reconnect(d, q) :
                 r.queue = q \/ r.queue = << >> \/ IsFresh(Head(r.queue))
<1>1. ASSUME NEW w \in Seq(Action(d))
      PROVE  enqueue_login(d, w) # << >> /\ IsFresh(Head(enqueue_login(d, w)))
    <2>. DEFINE a == create_action(d, "login", {}, NoClient)
                rest == IF w = << >> THEN w
                        ELSE << [Head(w) EXCEPT !.exec = rewind_action(@)] >> \o Tail(w)
    <2>1. IsFresh(a)
        BY CreateFresh
    <2>2. rest \in Seq(Action(d))
        <3>1. CASE w = << >>
            BY <3>1
        <3>2. CASE w # << >>
            <4>. DEFINE h == [Head(w) EXCEPT !.exec = rewind_action(@)]
            <4>1. Head(w) \in Action(d) /\ Tail(w) \in Seq(Action(d))
                BY <3>2
            <4>2. h \in Action(d)
                BY <4>1, RewindType DEF Action
            <4>. HIDE DEF h
            <4>3. << h >> \o Tail(w) \in Seq(Action(d))
                BY <4>1, <4>2
            <4>. QED  BY <3>2, <4>3 DEF h
        <3>. QED  BY <3>1, <3>2
    <2>3. enqueue_login(d, w) = << a >> \o rest
        BY DEF enqueue_login
    <2>4. ASSUME NEW x, NEW S, NEW u \in Seq(S)
          PROVE  << x >> \o u # << >> /\ Head(<< x >> \o u) = x
        OBVIOUS
    <2>. HIDE DEF a, rest
    <2>. QED  BY <2>1, <2>2, <2>3, <2>4
<1>2. ASSUME NEW w \in Seq(Action(d)), NEW r \in connect(d, w)
      PROVE  r.queue = w \/ r.queue = << >> \/ IsFresh(Head(r.queue))
    BY <1>1, <1>2 DEF connect
<1>3. \/ disconnect(q) = q \/ disconnect(q) = << >> \/ IsFresh(Head(disconnect(q)))
    <2>1. CASE disconnect(q) # q /\ disconnect(q) # << >>
        <3>1. q # << >> /\ disconnect(q) = Tail(q)
            BY <2>1 DEF disconnect
        <3>2. Fresh(d, Tail(q))
            BY <3>1, OrderTail
        <3>3. Head(Tail(q)) = Tail(q)[1] /\ 1 \in DOMAIN Tail(q)
            BY <2>1, <3>1
        <3>. QED  BY <3>1, <3>2, <3>3 DEF Fresh
    <2>. QED  BY <2>1
<1>4. ASSUME NEW r \in reconnect(d, q)
      PROVE  r.queue = q \/ r.queue = << >> \/ IsFresh(Head(r.queue))
    <2>. DEFINE w == IF connect_state[d] # "NOT_CONNECTED" THEN disconnect(q) ELSE q
    <2>1. w \in Seq(Action(d)) /\ (w = q \/ w = << >> \/ IsFresh(Head(w)))
        BY <1>3, DisconnectType
    <2>2. r \in connect(d, w) \/ r.queue = w
        BY DEF reconnect
    <2>. HIDE DEF w
    <2>. QED  BY <1>2, <2>1, <2>2
<1>. QED  BY <1>1, <1>2, <1>4

(* Whatever happens, the head of a queue stays where it is, or has not     *)
(* begun, or is moved by its own statement.                                *)
HeadMoves(d) ==
    \/ HeadRests(d) \/ HeadNew(d)
    \/ Statement(d) /\ acts[d] # << >> /\ (GoesOn(d) \/ Leaves(d) \/ Enters(d))

(* A queue that stays the same.                                            *)
LEMMA SameMoves ==
    ASSUME NEW d, acts'[d] = acts[d]
    PROVE  HeadMoves(d) /\ (InOrder(d, acts[d]) => InOrder(d, acts'[d]))
<1>1. CASE acts[d] = << >>
    BY <1>1 DEF HeadMoves, HeadNew
<1>2. CASE acts[d] # << >>
    BY <1>2 DEF HeadMoves, HeadRests, top
<1>. QED  BY <1>1, <1>2

(* A queue whose head is the same action.                                  *)
LEMMA HeadSame ==
    ASSUME NEW d, acts[d] # << >>, acts'[d] # << >>, Head(acts'[d]) = Head(acts[d])
    PROVE  HeadRests(d)
BY DEF HeadRests, top, outer

(* The queue when the head of it fails.                                    *)
LEMMA FailOrder ==
    ASSUME TypeOK, NEW d \in Devs, NEW err, Fail(d, err)
    PROVE  InOrder(d, acts'[d]) /\ HeadNew(d)
<1>1. << >> \in Seq(Action(d)) /\ InOrder(d, << >>)
    BY DEF InOrder
<1>2. CASE connect_state[d] = "CONNECTED"
    <2>1. PICK r \in reconnect(d, << >>) : acts' = [ acts EXCEPT ![d] = r.queue ]
        BY <1>2 DEF Fail
    <2>2. acts'[d] = r.queue
        BY <2>1 DEF TypeOK, QueueTypeOK
    <2>. QED  BY <1>1, <2>2, ReconnectOrder, ReconnectHead DEF HeadNew
<1>3. CASE connect_state[d] # "CONNECTED"
    BY <1>1, <1>3 DEF Fail, TypeOK, QueueTypeOK, HeadNew
<1>. QED  BY <1>2, <1>3

(* The queue of a device that is visited.                                  *)
LEMMA VisitOrder ==
    ASSUME TypeOK, NEW d \in Devs, InOrder(d, acts[d]), Visit(d)
    PROVE  /\ InOrder(d, acts'[d]) /\ HeadMoves(d)
           /\ \A e \in Devs \ {d} : acts'[e] = acts[e]
<1>1. acts[d] \in Seq(Action(d))
    BY DEF TypeOK, QueueTypeOK
<1>2. ASSUME NEW q \in Seq(Action(d)), InOrder(d, q), NEW state, NEW timer,
             enqueue_ping(d, state, q, timer),
             q = acts[d] \/ q = << >> \/ IsFresh(Head(q))
      PROVE  /\ InOrder(d, acts'[d]) /\ HeadMoves(d)
             /\ \A e \in Devs \ {d} : acts'[e] = acts[e]
    <2>1. /\ InOrder(d, acts'[d])
          /\ q # << >> => acts'[d] # << >> /\ Head(acts'[d]) = Head(q)
          /\ q = << >> => HeadNew(d)
          /\ \A e \in Devs \ {d} : acts'[e] = acts[e]
        BY <1>2, PingOrder
    <2>2. CASE q = << >>
        BY <2>1, <2>2 DEF HeadMoves
    <2>3. CASE q # << >> /\ q = acts[d]
        BY <2>1, <2>3, HeadSame DEF HeadMoves
    <2>4. CASE q # << >> /\ IsFresh(Head(q))
        BY <2>1, <2>4 DEF HeadMoves, HeadNew
    <2>. QED  BY <1>2, <2>1, <2>2, <2>3, <2>4
<1>3. CASE VisitUnconnected(d)
    <2>1. PICK r \in reconnect(d, acts[d]) : enqueue_ping(d, r.state, r.queue, r.timer)
        BY <1>3 DEF VisitUnconnected
    <2>2. r.queue \in Seq(Action(d))
        BY <1>1, <2>1, ReconnectType DEF Outcome
    <2>3. InOrder(d, r.queue) /\ (r.queue = acts[d] \/ r.queue = << >> \/ IsFresh(Head(r.queue)))
        BY <1>1, <2>1, ReconnectOrder, ReconnectHead
    <2>. QED  BY <1>2, <2>1, <2>2, <2>3
<1>4. CASE VisitFinishConnect(d)
    <2>. DEFINE q == enqueue_login(d, acts[d])
    <2>1. q \in Seq(Action(d)) /\ InOrder(d, q) /\ IsFresh(Head(q))
        BY <1>1, EnqueueLoginType, LoginOrder, ReconnectHead
    <2>2. enqueue_ping(d, "CONNECTED", q, {})
        BY <1>4 DEF VisitFinishConnect
    <2>. HIDE DEF q
    <2>. QED  BY <1>2, <2>1, <2>2
<1>5. CASE VisitConnected(d) \/ VisitConnecting(d)
    BY <1>1, <1>2, <1>5 DEF VisitConnected, VisitConnecting
<1>. QED  BY <1>3, <1>4, <1>5 DEF Visit

(* The queue of a device that is processed.                                *)
LEMMA ProcessOrder ==
    ASSUME TypeOK, NEW d \in Devs, InOrder(d, acts[d]), Process(d)
    PROVE  /\ InOrder(d, acts'[d]) /\ HeadMoves(d)
           /\ \A e \in Devs \ {d} : acts'[e] = acts[e]
<1>1. \A e \in Devs \ {d} : acts'[e] = acts[e]
    BY ProcessLocal
<1>2. CASE acts[d] = << >>
    <2>1. acts'[d] = acts[d]
        BY <1>2 DEF Process, ProcessIdle, ProcessTimeout, ProcessUnconnected, Statement, Executes,
           process_send, process_expect, process_delay, process_setplugstate, process_foreach,
           process_ifonoff
    <2>. QED  BY <1>1, <2>1, SameMoves
<1>3. CASE acts[d] # << >>
    <2>. SUFFICES InOrder(d, acts'[d]) /\ HeadMoves(d)
        BY <1>1
    <2>1. ASSUME NEW err, Fail(d, err) PROVE InOrder(d, acts'[d]) /\ HeadMoves(d)
        BY <2>1, FailOrder DEF HeadMoves
    <2>2. CASE Waits(d)
        <3>1. PICK a : HeadBecomes(d, a) /\ Alike(a.exec, Head(acts[d]).exec)
            BY <2>2 DEF Waits
        <3>2. acts'[d] # << >> /\ Head(acts'[d]) = a /\ top(d)' = a.exec[1]
            BY <1>3, <3>1, BecomesHead
        <3>3. Head(acts[d]).exec \in Stacks(Plugs(d))
            BY <1>3, HeadType DEF TypeOK, Action
        <3>4. /\ top(d) = Head(acts[d]).exec[1] /\ 1 \in 1..Len(Head(acts[d]).exec)
              /\ Len(Head(acts[d]).exec) \in 1..Len(Head(acts[d]).exec)
            BY <3>3, StackParts DEF top
        <3>5. HeadRests(d)
            BY <1>3, <3>1, <3>2, <3>4 DEF HeadRests, Alike, HeadBecomes, outer
        <3>6. InOrder(d, acts'[d])
            BY <1>3, <2>2, MovesOrder
        <3>. QED  BY <3>5, <3>6 DEF HeadMoves
    <2>3. CASE Ends(d)
        <3>1. acts[d] \in Seq(Action(d)) /\ acts'[d] = Tail(acts[d])
            BY <2>3 DEF Ends, TypeOK, QueueTypeOK
        <3>2. Fresh(d, Tail(acts[d]))
            BY <1>3, <3>1, OrderTail
        <3>3. Tail(acts[d]) # << >> =>
                  Head(Tail(acts[d])) = Tail(acts[d])[1] /\ 1 \in DOMAIN Tail(acts[d])
            BY <1>3, <3>1
        <3>4. HeadNew(d)
            BY <3>1, <3>2, <3>3 DEF HeadNew, Fresh
        <3>5. InOrder(d, acts'[d])
            BY <1>3, <2>3, MovesOrder
        <3>. QED  BY <3>4, <3>5 DEF HeadMoves
    <2>4. CASE ProcessTimeout(d)
        <3>1. PICK err : Fail(d, err)
            BY <2>4 DEF ProcessTimeout
        <3>. QED  BY <2>1, <3>1
    <2>5. CASE ProcessUnconnected(d)
        <3>1. Stall(d, head(d), {})
            BY <2>5 DEF ProcessUnconnected
        <3>2. /\ head(d) \in Action(d) /\ head(d).com = Head(acts[d]).com
              /\ head(d).client = Head(acts[d]).client /\ head(d).exec = Head(acts[d]).exec
            BY <1>3, HeadType DEF TypeOK
        <3>3. Alike(head(d).exec, Head(acts[d]).exec)
            BY <3>2 DEF Alike
        <3>. QED  BY <1>3, <2>2, <3>1, <3>2, <3>3, StallWaits
    <2>6. CASE Statement(d)
        <3>1. CASE GoesOn(d) \/ Leaves(d) \/ Enters(d)
            <4>1. InOrder(d, acts'[d])
                BY <1>3, <3>1, MovesOrder
            <4>. QED  BY <1>3, <2>6, <3>1, <4>1 DEF HeadMoves
        <3>2. \/ \E err \in ActErrors \ {"ESUCCESS"} : Fail(d, err)
              \/ Waits(d) \/ GoesOn(d) \/ Leaves(d) \/ Enters(d) \/ Ends(d)
            BY <1>3, ProcessMoves
        <3>. QED  BY <2>1, <2>2, <2>3, <3>1, <3>2
    <2>. QED  BY <1>1, <1>3, <2>4, <2>5, <2>6 DEF Process, ProcessIdle
<1>. QED  BY <1>2, <1>3

(* Every step keeps every queue in order.                                  *)
LEMMA OrderStep ==
    ASSUME TypeOK, QueuesInOrder, [Next]_vars
    PROVE  QueuesInOrder' /\ \A d \in Devs : HeadMoves(d)
<1>. SUFFICES ASSUME NEW e \in Devs PROVE InOrder(e, acts'[e]) /\ HeadMoves(e)
    BY DEF QueuesInOrder
<1>1. InOrder(e, acts[e]) /\ acts[e] \in Seq(Action(e))
    BY DEF QueuesInOrder, TypeOK, QueueTypeOK
<1>2. CASE acts'[e] = acts[e]
    BY <1>1, <1>2, SameMoves
<1>3. CASE dev_initial_connect
    <2>1. PICK r \in connect(cur, acts[cur]) : acts' = [ acts EXCEPT ![cur] = r.queue ]
        BY <1>3 DEF dev_initial_connect
    <2>2. CASE e = cur
        <3>1. acts'[e] = r.queue /\ r \in connect(e, acts[e])
            BY <2>1, <2>2 DEF TypeOK, QueueTypeOK
        <3>2. /\ InOrder(e, r.queue)
              /\ r.queue = acts[e] \/ r.queue = << >> \/ IsFresh(Head(r.queue))
            BY <1>1, <3>1, ReconnectOrder, ReconnectHead
        <3>. QED  BY <1>2, <3>1, <3>2 DEF HeadMoves, HeadNew
    <2>3. CASE e # cur
        BY <1>2, <2>1, <2>3 DEF TypeOK, QueueTypeOK
    <2>. QED  BY <2>2, <2>3
<1>4. CASE PollReturns \/ ClientsDone \/ UNCHANGED vars
    BY <1>2, <1>4 DEF PollReturns, ClientsDone, vars
<1>5. CASE ClientCommand
    <2>1. PICK com \in ClientComs, c \in Clients, hl \in SUBSET Nodes :
             dev_enqueue_actions(com, hl, c)
        BY <1>5 DEF ClientCommand
    <2>. DEFINE new == new_acts(e, com, hl, c)
    <2>2. new \in Seq(Action(e)) /\ Fresh(e, new)
        BY NewActsType, NewActsFresh
    <2>3. acts'[e] = acts[e] \o new
        BY <2>1 DEF dev_enqueue_actions
    <2>. HIDE DEF new
    <2>4. /\ InOrder(e, acts'[e])
          /\ acts[e] # << >> => acts'[e] # << >> /\ Head(acts'[e]) = Head(acts[e])
          /\ acts[e] = << >> => HeadNew(e)
        BY <1>1, <2>2, <2>3, BehindHead
    <2>. QED  BY <2>4, HeadSame DEF HeadMoves
<1>6. ASSUME NEW d \in Devs, Visit(d) PROVE InOrder(e, acts'[e]) /\ HeadMoves(e)
    BY <1>1, <1>2, <1>6, VisitOrder DEF QueuesInOrder
<1>7. ASSUME NEW d \in Devs, Process(d) PROVE InOrder(e, acts'[e]) /\ HeadMoves(e)
    BY <1>1, <1>2, <1>7, ProcessOrder DEF QueuesInOrder
<1>8. ASSUME NEW d \in Devs, Network(d) PROVE acts'[e] = acts[e]
    BY <1>8 DEF Network, LinkOpens, LinkDrops, Answers
<1>9. ASSUME NEW d \in Devs, Time(d) PROVE InOrder(e, acts'[e]) /\ HeadMoves(e)
    <2>1. CASE RetryExpires(d) \/ PingFallsDue(d)
        BY <1>2, <2>1 DEF RetryExpires, PingFallsDue
    <2>2. CASE StampExpires(d) \/ DelayExpires(d)
        <3>1. PICK i \in DOMAIN acts[d] :
                 \/ acts' = [ acts EXCEPT ![d][i].time_stamp = "expired" ]
                 \/ acts' = [ acts EXCEPT ![d][i].delay_start = "expired" ]
            BY <2>2 DEF StampExpires, DelayExpires
        <3>2. acts[d] \in Seq(Action(d)) /\ acts[d][i] \in Action(d)
            BY DEF TypeOK, QueueTypeOK
        <3>3. PICK a : /\ a.com = acts[d][i].com /\ a.client = acts[d][i].client
                       /\ a.exec = acts[d][i].exec /\ acts' = [ acts EXCEPT ![d][i] = a ]
            BY <3>1, <3>2 DEF Action
        <3>4. acts'[d] = [ acts[d] EXCEPT ![i] = a ] /\ \A f \in Devs \ {d} : acts'[f] = acts[f]
            BY <3>3 DEF TypeOK, QueueTypeOK
        <3>5. /\ acts'[d] # << >> /\ acts[d] # << >>
              /\ Head(acts'[d]) = IF i = 1 THEN a ELSE Head(acts[d])
              /\ Head(acts[d]) = acts[d][1] /\ DOMAIN acts'[d] = DOMAIN acts[d]
              /\ \A j \in DOMAIN acts[d] : acts'[d][j] = IF j = i THEN a ELSE acts[d][j]
            BY <3>2, <3>4
        <3>6. HeadRests(d)
            BY <3>3, <3>5 DEF HeadRests, top, outer
        <3>7. IsFresh(a) = IsFresh(acts[d][i]) /\ Nested(a) = Nested(acts[d][i])
              /\ OfScript(d, a) = OfScript(d, acts[d][i])
            BY <3>3 DEF IsFresh, Nested, OfScript, outer
        <3>8. InOrder(d, acts'[d])
            BY <3>5, <3>7 DEF InOrder, QueuesInOrder
        <3>. QED  BY <1>2, <3>4, <3>6, <3>8 DEF HeadMoves
    <2>. QED  BY <1>9, <2>1, <2>2 DEF Time
<1>. QED  BY <1>2, <1>3, <1>4, <1>5, <1>6, <1>7, <1>8, <1>9 DEF Next

(***************************************************************************)
(* What a setplugstate reads                                               *)
(***************************************************************************)

(* The statement before a setplugstate is the expect of what it reads, and *)
(* the plug is not named literally.                                        *)
SetAfterExpect ==
    \A b \in DOMAIN Block : \A k \in 1..Len(Block[b]) :
        Block[b][k].type = "setplugstate" =>
            k > 1 /\ Block[b][k - 1].type = "expect" /\ Block[b][k].plug = 0

(* The match a setplugstate is about to read is the answer to its action.  *)
Matches(d) ==
    acts[d] # << >> /\ cur_stmt(top(d)).type = "setplugstate" =>
        Len(xmatch[d]) = 1 /\ OfHead(d, xmatch[d][1]) /\ IsAnswer(d, xmatch[d][1])

AllMatch == \A d \in Devs : Matches(d)

(* No block begins with a setplugstate.                                    *)
LEMMA FirstIsNoSet ==
    ASSUME SetAfterExpect, NEW P, NEW e \in ExecCtx(P)
    PROVE  cur_stmt(e).type = "setplugstate" =>
               /\ e.stmt # 1 /\ Block[e.block][e.stmt - 1].type = "expect"
               /\ cur_stmt(e).plug = 0
<1>1. e.block \in DOMAIN Block /\ e.stmt \in 1..Len(Block[e.block])
    BY BlockAssumption DEF ExecCtx
<1>. QED  BY <1>1 DEF SetAfterExpect, cur_stmt

(* The match is kept until the next expect.                                *)
LEMMA MatchKept ==
    ASSUME TypeOK, NEW d \in Devs, [Next]_vars
    PROVE  xmatch'[d] = xmatch[d] \/ process_expect(d)
<1>. DEFINE kept == xmatch'[d] = xmatch[d]
<1>1. CASE dev_initial_connect
    BY <1>1 DEF dev_initial_connect, Reconnected
<1>2. CASE PollReturns \/ ClientsDone \/ ClientCommand \/ UNCHANGED vars
    BY <1>2 DEF PollReturns, ClientsDone, ClientCommand, dev_enqueue_actions, vars, bufs
<1>3. ASSUME NEW e \in Devs, Visit(e) PROVE kept
    BY <1>3 DEF Visit, VisitUnconnected, VisitFinishConnect, VisitConnected, VisitConnecting,
       Reconnected, bufs
<1>4. ASSUME NEW e \in Devs, Process(e) PROVE kept \/ process_expect(d)
    <2>1. CASE e # d
        BY <1>4, <2>1, ProcessLocal
    <2>2. CASE e = d
        <3>1. ASSUME NEW err, Fail(d, err) PROVE kept
            BY <3>1 DEF Fail, Reconnected, bufs
        <3>2. CASE ProcessTimeout(d)
            <4>1. PICK err : Fail(d, err)
                BY <3>2 DEF ProcessTimeout
            <4>. QED  BY <3>1, <4>1
        <3>3. CASE process_ifonoff(d)
            <4>1. Fail(d, "EEXPFAIL") \/ bufs' = bufs
                BY <3>3 DEF process_ifonoff
            <4>. QED  BY <3>1, <4>1 DEF bufs
        <3>4. CASE process_send(d) \/ process_delay(d) \/ process_setplugstate(d) \/ process_foreach(d)
            BY <3>4 DEF process_send, process_delay, process_setplugstate, process_foreach, bufs
        <3>5. CASE ProcessIdle(d) \/ ProcessUnconnected(d)
            BY <3>5 DEF ProcessIdle, ProcessUnconnected, bufs
        <3>. QED  BY <1>4, <2>2, <3>2, <3>3, <3>4, <3>5 DEF Process, Statement
    <2>. QED  BY <2>1, <2>2
<1>5. ASSUME NEW e \in Devs, Network(e) PROVE kept
    BY <1>5 DEF Network, LinkOpens, LinkDrops, Answers, Environment, bufs
<1>6. ASSUME NEW e \in Devs, Time(e) PROVE kept
    BY <1>6 DEF Time, StampExpires, DelayExpires, RetryExpires, PingFallsDue, Clock,
       Environment, bufs
<1>. QED  BY <1>1, <1>2, <1>3, <1>4, <1>5, <1>6 DEF Next

(* What a device answered to a client is not forgotten while an action of  *)
(* the client is queued; nor is what was transmitted for it.               *)
LEMMA HistoriesGrow ==
    ASSUME TypeOK, [Next]_vars, NEW c \in Clients
    PROVE  \/ answered[c] \subseteq answered'[c] /\ delivered[c] \subseteq delivered'[c]
           \/ /\ ClientCommand
              /\ \A d \in Devs : \A i \in DOMAIN acts[d] : acts[d][i].client # c
<1>. DEFINE grow == answered[c] \subseteq answered'[c] /\ delivered[c] \subseteq delivered'[c]
<1>1. CASE dev_initial_connect \/ PollReturns \/ ClientsDone \/ UNCHANGED vars
    BY <1>1 DEF dev_initial_connect, PollReturns, ClientsDone, vars, wire
<1>2. CASE ClientCommand
    <2>1. PICK com \in ClientComs, b \in Clients, hl \in SUBSET Nodes :
             /\ \A d \in Devs : \A i \in DOMAIN acts[d] : acts[d][i].client # b
             /\ dev_enqueue_actions(com, hl, b)
        BY <1>2 DEF ClientCommand
    <2>2. CASE b = c
        BY <1>2, <2>1, <2>2
    <2>3. CASE b # c
        BY <2>1, <2>3 DEF dev_enqueue_actions, TypeOK, CommandTypeOK
    <2>. QED  BY <2>2, <2>3
<1>3. ASSUME NEW d \in Devs, Visit(d) PROVE grow
    <2>1. CASE VisitConnected(d)
        <3>1. answered' = answered
            BY <2>1 DEF VisitConnected
        <3>2. \/ delivered' = delivered
              \/ delivered' = [ b \in Clients |-> delivered[b] \cup
                    UNION { addressed(d, to[d][i]) : i \in { j \in DOMAIN to[d] : to[d][j].client = b } } ]
            BY <2>1 DEF VisitConnected
        <3>. QED  BY <3>1, <3>2
    <2>2. CASE ~VisitConnected(d)
        BY <1>3, <2>2 DEF Visit, VisitUnconnected, VisitFinishConnect, VisitConnecting, wire
    <2>. QED  BY <2>1, <2>2
<1>4. ASSUME NEW d \in Devs, Process(d) PROVE grow
    BY <1>4, ProcessLocal
<1>5. ASSUME NEW d \in Devs, Network(d) PROVE grow
    <2>1. delivered' = delivered
        BY <1>5 DEF Network, LinkOpens, LinkDrops, Answers, Environment
    <2>2. CASE LinkOpens(d) \/ LinkDrops(d)
        BY <2>1, <2>2 DEF LinkOpens, LinkDrops
    <2>3. CASE Answers(d)
        <3>1. \/ answered' = answered
              \/ \E S : answered' = [ b \in Clients |->
                            IF b = Head(heard[d]).client THEN answered[b] \cup S ELSE answered[b] ]
            BY <2>3 DEF Answers
        <3>. QED  BY <2>1, <3>1
    <2>. QED  BY <1>5, <2>2, <2>3 DEF Network
<1>6. ASSUME NEW d \in Devs, Time(d) PROVE grow
    BY <1>6 DEF Time, StampExpires, DelayExpires, RetryExpires, PingFallsDue, Clock, Environment
<1>. QED  BY <1>1, <1>2, <1>3, <1>4, <1>5, <1>6 DEF Next

(* An expect that goes on has matched the answer to its action.            *)
LEMMA ExpectMatches ==
    ASSUME TypeOK, NEW d \in Devs, InStep(d), process_expect(d), GoesOn(d)
    PROVE  Matches(d)'
<1>1. acts[d] # << >> /\ cur_stmt(top(d)).type = "expect" /\ answered' = answered
    BY DEF process_expect, Executes, wire
<1>2. PICK a : HeadBecomes(d, a) /\ Advanced(a.exec, Head(acts[d]).exec)
    BY DEF GoesOn
<1>3. /\ acts'[d] # << >> /\ Head(acts'[d]) = a /\ top(d)' = a.exec[1]
      /\ Head(acts'[d]).com = Head(acts[d]).com /\ Head(acts'[d]).client = Head(acts[d]).client
    BY <1>1, <1>2, BecomesHead DEF HeadBecomes
<1>4. /\ head(d) \in Action(d) /\ head(d).exec = Head(acts[d]).exec
      /\ head(d).exec \in Stacks(Plugs(d))
    BY <1>1, HeadType DEF TypeOK, Action
<1>5. top(d) = Head(acts[d]).exec[1]
    BY <1>4, StackParts DEF top
<1>6. top(d)'.plugs = top(d).plugs
    BY <1>2, <1>3, <1>5 DEF Advanced
<1>7. CASE lines_spanned(d) \notin 1..Len(from[d])
    <2>1. Stall(d, head(d), {})
        BY <1>7 DEF process_expect
    <2>2. acts'[d] = << head(d) >> \o Tail(acts[d])
        BY <2>1 DEF Stall, requeue, TypeOK, QueueTypeOK
    <2>3. HeadBecomes(d, head(d))
        BY <1>1, <1>4, <2>2, HeadType DEF HeadBecomes, TypeOK
    <2>4. Head(acts'[d]) = head(d)
        BY <1>1, <2>3, BecomesHead
    <2>5. top(d)' = top(d)
        BY <1>4, <2>4 DEF top
    <2>. QED  BY <1>1, <2>5 DEF Matches
<1>8. CASE lines_spanned(d) \in 1..Len(from[d])
    <2>1. Reads(d, from[d], rx[d])
        BY <1>1, <1>8, NoLines DEF InStep, Quiet, Writes, Asks, Reads, process_expect, Executes
    <2>3. xmatch'[d] = << from[d][1] >>
        BY <1>8, <2>1, LineTaken DEF Reads
    <2>4. Len(xmatch'[d]) = 1 /\ xmatch'[d][1] = from[d][1]
        BY <2>3
    <2>5. OfHead(d, from[d][1]) /\ IsAnswer(d, from[d][1])
        BY <2>1 DEF Reads
    <2>6. OfHead(d, xmatch[d][1])'
        BY <1>3, <2>4, <2>5 DEF OfHead
    <2>7. IsAnswer(d, xmatch[d][1])'
        BY <1>1, <1>6, <2>4, <2>5 DEF IsAnswer
    <2>. QED  BY <2>4, <2>6, <2>7 DEF Matches
<1>. QED  BY <1>7, <1>8

(* An action comes to a setplugstate from its expect.                      *)
LEMMA MatchStep ==
    ASSUME SetAfterExpect, TypeOK, TypeOK', AllInStep, QueuesInOrder, AllMatch, [Next]_vars
    PROVE  AllMatch'
<1>. SUFFICES ASSUME NEW d \in Devs, acts'[d] # << >>,
                     cur_stmt(top(d)').type = "setplugstate"
              PROVE  Matches(d)'
    BY DEF AllMatch, Matches
<1>1. HeadMoves(d) /\ InStep(d) /\ Matches(d) /\ InOrder(d, acts[d])
    BY OrderStep DEF AllInStep, AllMatch, QueuesInOrder
<1>2. Head(acts'[d]) \in Action(d) /\ acts'[d] \in Seq(Action(d))
    BY DEF TypeOK, QueueTypeOK
<1>3. Head(acts'[d]).exec \in Stacks(Plugs(d))
    BY <1>2 DEF Action
<1>4. top(d)' = Head(acts'[d]).exec[1] /\ top(d)' \in ExecCtx(Plugs(d))
    <2>1. 1 \in 1..Len(Head(acts'[d]).exec)
        BY <1>3, StackParts
    <2>. QED  BY <1>3, <2>1, StackParts DEF top
<1>5. top(d)'.stmt # 1 /\ Block[top(d)'.block][top(d)'.stmt - 1].type = "expect"
    BY <1>4, FirstIsNoSet
<1>6. CASE HeadNew(d)
    BY <1>4, <1>5, <1>6 DEF HeadNew, IsFresh
<1>7. CASE HeadRests(d)
    <2>1. cur_stmt(top(d)) = cur_stmt(top(d)') /\ top(d)'.plugs = top(d).plugs
        BY <1>7, PlaceSame DEF HeadRests
    <2>2. ~process_expect(d)
        BY <2>1 DEF process_expect, Executes
    <2>3. xmatch'[d] = xmatch[d]
        BY <2>2, MatchKept
    <2>4. Len(xmatch[d]) = 1 /\ OfHead(d, xmatch[d][1]) /\ IsAnswer(d, xmatch[d][1])
        BY <1>1, <1>7, <2>1 DEF Matches, HeadRests
    <2>5. OfHead(d, xmatch[d][1])'
        BY <1>7, <2>3, <2>4 DEF OfHead, HeadRests
    <2>6. xmatch[d][1].client \in Clients =>
              answered[xmatch[d][1].client] \subseteq answered'[xmatch[d][1].client]
        <3>1. acts[d] # << >> /\ acts[d] \in Seq(Action(d))
            BY <1>7 DEF HeadRests, TypeOK, QueueTypeOK
        <3>2. 1 \in DOMAIN acts[d] /\ acts[d][1] = Head(acts[d])
            BY <3>1
        <3>3. xmatch[d][1].client = acts[d][1].client
            BY <2>4, <3>2 DEF OfHead
        <3>. QED  BY <3>2, <3>3, HistoriesGrow
    <2>7. IsAnswer(d, xmatch[d][1])'
        BY <2>1, <2>3, <2>4, <2>6 DEF IsAnswer
    <2>. QED  BY <2>3, <2>4, <2>5, <2>7 DEF Matches
<1>8. CASE Statement(d) /\ acts[d] # << >> /\ (GoesOn(d) \/ Leaves(d) \/ Enters(d))
    <2>1. ASSUME NEW a, HeadBecomes(d, a)
          PROVE  top(d)' = a.exec[1]
        BY <1>8, <2>1, BecomesHead
    <2>2. /\ Head(acts[d]).exec \in Stacks(Plugs(d)) /\ top(d) = Head(acts[d]).exec[1]
          /\ Nested(Head(acts[d])) /\ top(d) \in ExecCtx(Plugs(d))
        <3>1. Head(acts[d]).exec \in Stacks(Plugs(d)) /\ top(d) \in ExecCtx(Plugs(d))
            BY <1>8, HeadType DEF TypeOK, Action, top
        <3>2. acts[d][1] = Head(acts[d]) /\ 1 \in DOMAIN acts[d]
            BY <1>8 DEF TypeOK, QueueTypeOK
        <3>. QED  BY <1>1, <3>1, <3>2, StackParts DEF InOrder, top
    <2>3. CASE GoesOn(d)
        <3>1. PICK a : HeadBecomes(d, a) /\ Advanced(a.exec, Head(acts[d]).exec)
            BY <2>3 DEF GoesOn
        <3>2. top(d)'.block = top(d).block /\ top(d)'.stmt = top(d).stmt + 1
            BY <2>1, <2>2, <3>1 DEF Advanced
        <3>3. cur_stmt(top(d)).type = "expect"
            <4>1. top(d).stmt \in Nat
                BY <2>2 DEF ExecCtx
            <4>2. (top(d).stmt + 1) - 1 = top(d).stmt
                BY <4>1
            <4>. QED  BY <1>5, <3>2, <4>2 DEF cur_stmt
        <3>4. process_expect(d)
            BY <1>8, <3>3 DEF Statement, process_send, process_delay, process_setplugstate,
               process_foreach, process_ifonoff, Executes
        <3>. QED  BY <1>1, <2>3, <3>4, ExpectMatches
    <2>4. CASE Leaves(d)
        <3>1. PICK a : HeadBecomes(d, a) /\ Popped(a.exec, Head(acts[d]).exec)
            BY <2>4 DEF Leaves
        <3>2. a.exec \in Stacks(Plugs(d))
            BY <3>1 DEF HeadBecomes, Action
        <3>3. /\ 1 \in 1..Len(a.exec) /\ 2 \in 2..Len(Head(acts[d]).exec)
              /\ place(a.exec[1]) = place(Head(acts[d]).exec[1 + 1])
            <4>1. Len(a.exec) \in Nat \ {0} /\ Len(Head(acts[d]).exec) \in Nat
                BY <2>2, <3>2, StackParts
            <4>2. Len(a.exec) = Len(Head(acts[d]).exec) - 1
                BY <3>1 DEF Popped
            <4>3. \A m \in Nat \ {0}, n \in Nat : m = n - 1 => 1 \in 1..m /\ 2 \in 2..n
                OBVIOUS
            <4>4. 1 \in 1..Len(a.exec) /\ 2 \in 2..Len(Head(acts[d]).exec)
                BY <4>1, <4>2, <4>3
            <4>. QED  BY <3>1, <4>4 DEF Popped
        <3>4. cur_stmt(a.exec[1]) = cur_stmt(Head(acts[d]).exec[2])
            BY <3>3, PlaceSame
        <3>5. cur_stmt(a.exec[1]).type \in Compound
            BY <2>2, <3>3, <3>4 DEF Nested
        <3>. QED  BY <2>1, <3>1, <3>5 DEF Compound
    <2>5. CASE Enters(d)
        BY <1>5, <2>1, <2>5 DEF Enters, Pushed
    <2>. QED  BY <1>8, <2>3, <2>4, <2>5
<1>. QED  BY <1>1, <1>6, <1>7, <1>8 DEF HeadMoves

(* A setplugstate notes what the device answered about the plug.           *)
LEMMA SetsAnAnswer ==
    ASSUME SetAfterExpect, TypeOK, NEW d \in Devs, Matches(d), StatusIsAnAnswer,
           process_setplugstate(d)
    PROVE  StatusIsAnAnswer'
<1>. DEFINE h == Head(acts[d]).client
            P == plug_named(d, top(d))
            l == xmatch[d][1]
<1>0. acts[d] # << >> /\ cur_stmt(top(d)).type = "setplugstate" /\ answered' = answered
    BY DEF process_setplugstate, Executes, wire
<1>2. Len(xmatch[d]) = 1 /\ OfHead(d, l) /\ IsAnswer(d, l)
    BY <1>0 DEF Matches
<1>1. /\ acts[d] # << >> /\ cur_stmt(top(d)).type = "setplugstate" /\ answered' = answered
      /\ args' = [ b \in Clients |-> [ n \in Nodes |->
                     IF b = h /\ xmatch[d] # << >> /\ has_arg(d, b, n, P)
                     THEN interp(l) ELSE args[b][n] ] ]
    <2>1. line_read(d, P) = l
        BY <1>2 DEF line_read
    <2>. QED  BY <1>0, <2>1 DEF process_setplugstate
<1>3. xmatch[d] # << >> /\ DOMAIN xmatch[d] = {1} /\ l.plug \in Plugs(d) \cup {0}
    <2>1. xmatch[d] \in Seq(Line(d))
        BY DEF TypeOK, WireTypeOK
    <2>2. DOMAIN xmatch[d] = 1..1 /\ 1..1 = {1}
        BY <1>2, <2>1
    <2>3. l \in Line(d)
        BY <2>1, <2>2
    <2>. QED  BY <1>2, <2>1, <2>2, <2>3, OneTail DEF Line
<1>4. /\ top(d) \in ExecCtx(Plugs(d)) /\ top(d).plugs \in SUBSET Plugs(d)
      /\ Plugs(d) \subseteq Nat /\ 0 \notin Plugs(d)
    BY <1>1, HeadType, PlugsFinite, DeviceAssumption DEF TypeOK, ExecCtx, Plugs
<1>. SUFFICES ASSUME NEW c \in Clients, NEW n \in Nodes, args'[c][n] \in {"on", "off"}
              PROVE  \E a \in answered[c] : PlugNode[a[1]][a[2]] = n /\ a[3] = args'[c][n]
    BY <1>1 DEF StatusIsAnAnswer
<1>5. CASE c = h /\ has_arg(d, c, n, P)
    <2>1. xmatch[d] # << >>
        BY <1>3
    <2>2. args'[c][n] = interp(l)
        BY <1>1, <1>5, <2>1
    <2>3. l.state \in {"on", "off"} /\ interp(l) = l.state
        BY <2>2 DEF interp
    <2>4. is_first(l.plug, top(d).plugs) /\ l.client = c /\ << d, l.plug, l.state >> \in answered[c]
        BY <1>2, <1>5, <2>3 DEF IsAnswer, OfHead
    <2>5. PICK p \in P : n = PlugNode[d][p]
        BY <1>5 DEF has_arg
    <2>6. p = l.plug
        <3>0. /\ { cur_stmt(top(d)).plug } \ {0} = {}
              /\ { xmatch[d][i].plug : i \in DOMAIN xmatch[d] \cap {1} } = { l.plug }
            BY <1>1, <1>3, <1>4, FirstIsNoSet
        <3>1. CASE cur_stmt(top(d)).arg = "match"
            <4>1. l.plug \in top(d).plugs /\ l.plug # 0
                BY <1>4, <2>4 DEF is_first
            <4>2. { l.plug } \ {0} # {}
                BY <4>1
            <4>. QED  BY <2>5, <3>0, <3>1, <4>2 DEF plug_named
        <3>2. CASE cur_stmt(top(d)).arg # "match"
            <4>1. p \in top(d).plugs /\ is_first(p, top(d).plugs)
                BY <2>5, <3>0, <3>2 DEF plug_named
            <4>2. p <= l.plug /\ l.plug <= p /\ p \in Nat /\ l.plug \in Nat
                BY <1>4, <2>4, <4>1 DEF is_first
            <4>. QED  BY <4>2
        <3>. QED  BY <3>1, <3>2
    <2>. DEFINE a == << d, l.plug, l.state >>
    <2>7. a[1] = d /\ a[2] = l.plug /\ a[3] = l.state
        OBVIOUS
    <2>. HIDE DEF a
    <2>. QED  BY <2>2, <2>3, <2>4, <2>5, <2>6, <2>7 DEF a
<1>6. CASE ~(c = h /\ has_arg(d, c, n, P))
    <2>1. args'[c][n] = args[c][n]
        BY <1>1, <1>6
    <2>. QED  BY <2>1 DEF StatusIsAnAnswer
<1>. QED  BY <1>5, <1>6

(* Nothing else notes a state of a node.                                   *)
LEMMA StatusStep ==
    ASSUME SetAfterExpect, TypeOK, AllMatch, StatusIsAnAnswer, [Next]_vars
    PROVE  StatusIsAnAnswer'
<1>1. ASSUME args' = args, ~ClientCommand PROVE StatusIsAnAnswer'
    <2>1. \A c \in Clients : answered[c] \subseteq answered'[c]
        BY <1>1, HistoriesGrow
    <2>. QED  BY <1>1, <2>1 DEF StatusIsAnAnswer
<1>2. CASE ClientCommand
    <2>1. PICK com \in ClientComs, b \in Clients, hl \in SUBSET Nodes :
             dev_enqueue_actions(com, hl, b)
        BY <1>2 DEF ClientCommand
    <2>. SUFFICES ASSUME NEW c \in Clients, NEW n \in Nodes, args'[c][n] \in {"on", "off"}
                  PROVE  \E a \in answered'[c] : PlugNode[a[1]][a[2]] = n /\ a[3] = args'[c][n]
        BY DEF StatusIsAnAnswer
    <2>2. args' = [ args EXCEPT ![b] = [ m \in Nodes |-> IF m \in hl THEN "unknown" ELSE "none" ] ]
          /\ answered' = [ answered EXCEPT ![b] = {} ]
        BY <2>1 DEF dev_enqueue_actions
    <2>3. c # b
        BY <2>2 DEF TypeOK, CommandTypeOK
    <2>4. args'[c] = args[c] /\ answered'[c] = answered[c]
        BY <2>2, <2>3 DEF TypeOK, CommandTypeOK
    <2>. QED  BY <2>4 DEF StatusIsAnAnswer
<1>3. CASE dev_initial_connect \/ PollReturns \/ ClientsDone \/ UNCHANGED vars
    <2>1. args' = args
        BY <1>3 DEF dev_initial_connect, PollReturns, ClientsDone, vars
    <2>. QED  BY <1>1, <1>2, <2>1
<1>4. ASSUME NEW d \in Devs, Visit(d) PROVE StatusIsAnAnswer'
    <2>1. args' = args
        BY <1>4 DEF Visit, VisitUnconnected, VisitFinishConnect, VisitConnected, VisitConnecting,
           enqueue_ping
    <2>. QED  BY <1>1, <1>2, <2>1
<1>5. ASSUME NEW d \in Devs, Process(d) PROVE StatusIsAnAnswer'
    <2>1. CASE process_setplugstate(d)
        BY <2>1, SetsAnAnswer DEF AllMatch
    <2>2. CASE ~process_setplugstate(d)
        <3>1. args' = args
            <4>1. ASSUME NEW err, Fail(d, err) PROVE args' = args
                BY <4>1 DEF Fail
            <4>2. CASE ProcessTimeout(d)
                <5>1. PICK err : Fail(d, err)
                    BY <4>2 DEF ProcessTimeout
                <5>. QED  BY <4>1, <5>1
            <4>3. CASE process_ifonoff(d)
                <5>1. Fail(d, "EEXPFAIL") \/ args' = args
                    BY <4>3 DEF process_ifonoff
                <5>. QED  BY <4>1, <5>1
            <4>4. CASE process_send(d) \/ process_delay(d) \/ process_expect(d) \/ process_foreach(d)
                BY <4>4 DEF process_send, process_delay, process_expect, process_foreach
            <4>5. CASE ProcessIdle(d) \/ ProcessUnconnected(d)
                BY <4>5 DEF ProcessIdle, ProcessUnconnected
            <4>. QED  BY <1>5, <2>2, <4>2, <4>3, <4>4, <4>5 DEF Process, Statement
        <3>. QED  BY <1>1, <1>2, <3>1
    <2>. QED  BY <2>1, <2>2
<1>6. ASSUME NEW d \in Devs, Network(d) \/ Time(d) PROVE StatusIsAnAnswer'
    <2>1. args' = args
        BY <1>6 DEF Network, LinkOpens, LinkDrops, Answers, Time, StampExpires, DelayExpires,
           RetryExpires, PingFallsDue, Clock, Environment
    <2>. QED  BY <1>1, <1>2, <2>1
<1>. QED  BY <1>2, <1>3, <1>4, <1>5, <1>6 DEF Next

(* The inductive invariant under the theorem below.                        *)
LEMMA AnswerStep ==
    ASSUME AnswersAwaited, SetAfterExpect, TypeOK, TypeOK', OutputIsSent, AllInStep,
           QueuesInOrder, AllMatch, StatusIsAnAnswer, [Next]_vars
    PROVE  OutputIsSent' /\ AllInStep' /\ QueuesInOrder' /\ AllMatch' /\ StatusIsAnAnswer'
<1>1. OutputIsSent'
    BY OutputStep
<1>2. AllInStep'
    BY StageStep
<1>3. QueuesInOrder'
    BY OrderStep
<1>4. AllMatch'
    BY MatchStep
<1>5. StatusIsAnAnswer'
    BY StatusStep
<1>. QED  BY <1>1, <1>2, <1>3, <1>4, <1>5

(* With scripts that expect every answer, note a state only after an       *)
(* expect and name no plug literally, what a command reports of a node is  *)
(* what the device answered to that command about the plug of the node -   *)
(* through preemption, time-outs and lost connections, and although the    *)
(* match is never cleared.                                                 *)
THEOREM StatusIsAnswered ==
    ASSUME AnswersAwaited, SetAfterExpect
    PROVE  Spec => []StatusIsAnAnswer
<1>1. Init => OutputIsSent /\ AllInStep /\ QueuesInOrder /\ AllMatch /\ StatusIsAnAnswer
    <2>. SUFFICES ASSUME Init
                  PROVE  OutputIsSent /\ AllInStep /\ QueuesInOrder /\ AllMatch /\ StatusIsAnAnswer
        OBVIOUS
    <2>1. OutputIsSent /\ AllInStep
        BY DEF Init, OutputIsSent, OutputOK, AllInStep, InStep, Quiet
    <2>2. QueuesInOrder
        BY DEF Init, QueuesInOrder, InOrder
    <2>3. AllMatch
        BY DEF Init, AllMatch, Matches
    <2>4. StatusIsAnAnswer
        BY DEF Init, StatusIsAnAnswer
    <2>. QED  BY <2>1, <2>2, <2>3, <2>4
<1>2. TypeOK /\ TypeOK' /\ OutputIsSent /\ AllInStep /\ QueuesInOrder /\ AllMatch
        /\ StatusIsAnAnswer /\ [Next]_vars
        => OutputIsSent' /\ AllInStep' /\ QueuesInOrder' /\ AllMatch' /\ StatusIsAnAnswer'
    BY AnswerStep
<1>. QED  BY <1>1, <1>2, TypeCorrect, PTL DEF Spec

(***************************************************************************)
(* What a command has sent when it is over                                 *)
(***************************************************************************)

(* A script for plugs begins with the send of its command.                 *)
FirstIsSend ==
    \A d \in Devs : \A com \in DOMAIN Scripts[d] \ {"login", "ping"} :
        Block[Scripts[d][com]][1].type = "send"

(* Past the answer to this send, what the head is for has been transmitted *)
(* for its client.                                                         *)
SentOK(d) ==
    LET h == Head(acts[d]) IN
    acts[d] # << >> /\ h.client \in Clients /\ outer(h).stmt > 2 =>
        addressed(d, outer(h)) \subseteq delivered[h.client]

HeadsHaveSent == \A d \in Devs : SentOK(d)

(* The contexts of a statement and those of the one it leads to have the   *)
(* same outer block, and are for the same plugs.                           *)
LEMMA OuterMoves ==
    ASSUME NEW d \in Devs, NEW a \in Action(d), NEW h \in Action(d),
           \/ Alike(a.exec, h.exec) \/ Advanced(a.exec, h.exec)
           \/ Popped(a.exec, h.exec) \/ Pushed(a.exec, h.exec)
    PROVE  \/ place(outer(a)) = place(outer(h))
           \/ /\ Advanced(a.exec, h.exec) /\ outer(h) = h.exec[1]
              /\ outer(a).stmt = outer(h).stmt + 1 /\ outer(a).plugs = outer(h).plugs
<1>. DEFINE x == a.exec
            s == h.exec
<1>1. /\ Len(x) \in Nat \ {0} /\ Len(s) \in Nat \ {0}
      /\ outer(a) = x[Len(x)] /\ outer(h) = s[Len(s)]
    BY StackParts DEF Action, outer
<1>. HIDE DEF x, s
<1>2. \A n \in Nat \ {0} : n \in 1..n /\ (n = 1 \/ n \in 2..n)
    OBVIOUS
<1>3. CASE Alike(x, s)
    BY <1>1, <1>2, <1>3 DEF Alike
<1>4. CASE Advanced(x, s)
    BY <1>1, <1>2, <1>4 DEF Advanced, x, s
<1>5. CASE Popped(x, s)
    <2>1. Len(x) \in 1..Len(x) /\ Len(x) + 1 = Len(s)
        BY <1>1, <1>2, <1>5 DEF Popped
    <2>2. place(x[Len(x)]) = place(s[Len(x) + 1])
        BY <1>5, <2>1 DEF Popped
    <2>. QED  BY <1>1, <2>1, <2>2
<1>6. CASE Pushed(x, s)
    BY <1>1, <1>2, <1>6 DEF Pushed
<1>. QED  BY <1>3, <1>4, <1>5, <1>6 DEF x, s

(* An expect that is done has read the answer to its action.               *)
LEMMA ExpectReads ==
    ASSUME TypeOK, NEW d \in Devs, InStep(d), process_expect(d), GoesOn(d) \/ Ends(d)
    PROVE  Reads(d, from[d], rx[d])
<1>1. /\ acts[d] # << >> /\ cur_stmt(top(d)).type = "expect" /\ connect_state[d] = "CONNECTED"
      /\ acts[d] \in Seq(Action(d))
    BY DEF process_expect, Executes, TypeOK, QueueTypeOK
<1>2. /\ head(d) \in Action(d) /\ head(d).exec = Head(acts[d]).exec
      /\ head(d).com = Head(acts[d]).com /\ head(d).client = Head(acts[d]).client
      /\ head(d).exec \in Stacks(Plugs(d))
    BY <1>1, HeadType DEF TypeOK, Action
<1>3. from[d] # << >>
    <2>. SUFFICES ASSUME from[d] = << >> PROVE FALSE
        OBVIOUS
    <2>1. Stall(d, head(d), {})
        BY NoLines DEF process_expect
    <2>2. acts'[d] = << head(d) >> \o Tail(acts[d])
        BY <2>1 DEF Stall, requeue, TypeOK, QueueTypeOK
    <2>3. HeadBecomes(d, head(d))
        BY <1>2, <2>2 DEF HeadBecomes
    <2>4. Head(acts'[d]) = head(d) /\ Len(acts'[d]) = Len(acts[d]) /\ Len(acts[d]) \in Nat \ {0}
        BY <1>1, <2>3, BecomesHead
    <2>5. CASE GoesOn(d)
        <3>1. PICK a : HeadBecomes(d, a) /\ Advanced(a.exec, Head(acts[d]).exec)
            BY <2>5 DEF GoesOn
        <3>2. a = head(d)
            BY <1>1, <2>4, <3>1, BecomesHead
        <3>3. head(d).exec[1].stmt = head(d).exec[1].stmt + 1
            BY <1>2, <3>1, <3>2 DEF Advanced
        <3>4. head(d).exec[1].stmt \in Nat
            <4>1. head(d).exec[1] \in ExecCtx(Plugs(d))
                BY <1>2, StackParts
            <4>. QED  BY <4>1 DEF ExecCtx
        <3>. QED  BY <3>3, <3>4
    <2>6. CASE Ends(d)
        <3>1. acts'[d] = Tail(acts[d]) /\ Len(Tail(acts[d])) = Len(acts[d]) - 1
            BY <1>1, <2>6 DEF Ends
        <3>. QED  BY <2>4, <3>1
    <2>. QED  BY <2>5, <2>6
<1>. QED  BY <1>1, <1>3 DEF InStep, Quiet, Writes, Asks, Reads

(* Whose outer block is done with its second statement has sent what it is *)
(* for.                                                                    *)
LEMMA SecondSends ==
    ASSUME AnswersAwaited, FirstIsSend, TypeOK, NEW d \in Devs, InStep(d), InOrder(d, acts[d]),
           acts[d] # << >>, Head(acts[d]).client \in Clients, Statement(d), GoesOn(d) \/ Ends(d),
           outer(Head(acts[d])) = Head(acts[d]).exec[1], outer(Head(acts[d])).stmt = 2
    PROVE  addressed(d, outer(Head(acts[d]))) \subseteq delivered[Head(acts[d]).client]
<1>. DEFINE h == Head(acts[d])
<1>1. /\ h \in Action(d) /\ h.exec \in Stacks(Plugs(d)) /\ top(d) = outer(h)
      /\ h.com \in DOMAIN Scripts[d] /\ acts[d][1] = h /\ 1 \in DOMAIN acts[d]
    <2>1. h \in Action(d) /\ acts[d][1] = h /\ 1 \in DOMAIN acts[d]
        BY DEF TypeOK, QueueTypeOK
    <2>2. h.exec \in Stacks(Plugs(d)) /\ h.com \in DOMAIN Scripts[d]
        BY <2>1 DEF Action
    <2>. QED  BY <2>1, <2>2, StackParts DEF top
<1>2. OfScript(d, h) /\ h.client # NoClient
    BY <1>1, DeviceAssumption DEF InOrder
<1>3. outer(h).block = Scripts[d][h.com] /\ h.com \notin {"login", "ping"}
    BY <1>2 DEF OfScript
<1>4. Block[outer(h).block][1].type = "send"
    BY <1>1, <1>3 DEF FirstIsSend
<1>5. outer(h).block \in DOMAIN Block /\ 1 \in 1..Len(Block[outer(h).block])
    <2>1. outer(h) \in ExecCtx(Plugs(d))
        BY <1>1, StackParts DEF outer
    <2>2. outer(h).block \in DOMAIN Block
        BY <2>1 DEF ExecCtx
    <2>3. Len(Block[outer(h).block]) \in Nat \ {0}
        BY <2>2, BlockAssumption
    <2>. QED  BY <2>2, <2>3
<1>6. Block[outer(h).block][1 + 1].type = "expect"
    BY <1>4, <1>5 DEF AnswersAwaited
<1>7. cur_stmt(top(d)).type = "expect"
    BY <1>1, <1>6 DEF cur_stmt
<1>8. process_expect(d)
    BY <1>7 DEF Statement, process_send, process_delay, process_setplugstate,
       process_foreach, process_ifonoff, Executes
<1>9. Transmitted(d)
    BY <1>8, ExpectReads DEF Reads
<1>. QED  BY <1>1, <1>9 DEF Transmitted

(* What an action has sent stays sent as long as it is queued.             *)
LEMMA SentStaysSent ==
    ASSUME TypeOK, NEW d \in Devs, [Next]_vars, acts[d] # << >>, Head(acts[d]).client \in Clients
    PROVE  delivered[Head(acts[d]).client] \subseteq delivered'[Head(acts[d]).client]
<1>1. acts[d][1] = Head(acts[d]) /\ 1 \in DOMAIN acts[d]
    BY DEF TypeOK, QueueTypeOK
<1>. QED  BY <1>1, HistoriesGrow

(* HeadsHaveSent is kept by every step.                                    *)
LEMMA SentStep ==
    ASSUME AnswersAwaited, FirstIsSend, TypeOK, TypeOK', AllInStep, QueuesInOrder, HeadsHaveSent,
           [Next]_vars
    PROVE  HeadsHaveSent'
<1>. SUFFICES ASSUME NEW d \in Devs, acts'[d] # << >>, Head(acts'[d]).client \in Clients,
                     outer(Head(acts'[d])).stmt > 2
              PROVE  addressed(d, outer(Head(acts'[d]))) \subseteq delivered'[Head(acts'[d]).client]
    BY DEF HeadsHaveSent, SentOK, addressed
<1>. DEFINE h == Head(acts[d])
            a == Head(acts'[d])
<1>1. HeadMoves(d) /\ InStep(d) /\ InOrder(d, acts[d]) /\ SentOK(d)
    BY OrderStep DEF AllInStep, QueuesInOrder, HeadsHaveSent
<1>2. CASE HeadNew(d)
    <2>1. IsFresh(a)
        BY <1>2 DEF HeadNew
    <2>2. outer(a).stmt = 1
        BY <2>1, FreshNested DEF IsFresh
    <2>. QED  BY <2>2
<1>3. CASE HeadRests(d)
    <2>1. outer(a).stmt = outer(h).stmt /\ outer(a).plugs = outer(h).plugs
        BY <1>3, PlaceSame DEF HeadRests
    <2>2. acts[d] # << >> /\ a.client = h.client
        BY <1>3 DEF HeadRests
    <2>3. addressed(d, outer(h)) \subseteq delivered[h.client]
        BY <1>1, <2>1, <2>2 DEF SentOK
    <2>. QED  BY <2>1, <2>2, <2>3, SentStaysSent DEF addressed
<1>4. CASE Statement(d) /\ acts[d] # << >> /\ (GoesOn(d) \/ Leaves(d) \/ Enters(d))
    <2>1. PICK b : /\ HeadBecomes(d, b)
                   /\ \/ Advanced(b.exec, h.exec) \/ Popped(b.exec, h.exec) \/ Pushed(b.exec, h.exec)
        BY <1>4 DEF GoesOn, Leaves, Enters
    <2>2. /\ a = b /\ a.client = h.client /\ a \in Action(d) /\ h \in Action(d)
        <3>1. a = b
            BY <1>4, <2>1, BecomesHead
        <3>. QED  BY <1>4, <2>1, <3>1 DEF HeadBecomes, TypeOK, QueueTypeOK
    <2>. HIDE DEF a, h
    <2>3. delivered[h.client] \subseteq delivered'[h.client]
        BY <1>4, <2>2, SentStaysSent DEF a, h
    <2>4. CASE place(outer(a)) = place(outer(h))
        <3>1. outer(a).stmt = outer(h).stmt /\ outer(a).plugs = outer(h).plugs
            BY <2>4, PlaceSame
        <3>2. addressed(d, outer(h)) \subseteq delivered[h.client]
            BY <1>1, <1>4, <2>2, <3>1 DEF SentOK, a, h
        <3>. QED  BY <2>2, <2>3, <3>1, <3>2 DEF addressed, a
    <2>5. CASE /\ Advanced(a.exec, h.exec) /\ outer(h) = h.exec[1]
               /\ outer(a).stmt = outer(h).stmt + 1 /\ outer(a).plugs = outer(h).plugs
        <3>1. outer(h).stmt \in Nat
            <4>1. h.exec \in Stacks(Plugs(d))
                BY <2>2 DEF Action
            <4>2. h.exec[1] \in ExecCtx(Plugs(d))
                BY <4>1, StackParts
            <4>. QED  BY <2>5, <4>2 DEF ExecCtx
        <3>2. outer(h).stmt = 2 \/ outer(h).stmt > 2
            BY <2>5, <3>1 DEF a
        <3>3. GoesOn(d)
            BY <2>1, <2>2, <2>5 DEF GoesOn, h
        <3>4. addressed(d, outer(h)) \subseteq delivered[h.client]
            <4>1. CASE outer(h).stmt = 2
                BY <1>1, <1>4, <2>2, <2>5, <3>3, <4>1, SecondSends DEF h, a
            <4>2. CASE outer(h).stmt > 2
                BY <1>1, <1>4, <2>2, <4>2 DEF SentOK, a, h
            <4>. QED  BY <3>2, <4>1, <4>2
        <3>. QED  BY <2>2, <2>3, <2>5, <3>4 DEF addressed, a
    <2>. QED  BY <2>1, <2>2, <2>4, <2>5, OuterMoves
<1>. QED  BY <1>1, <1>2, <1>3, <1>4 DEF HeadMoves

(***************************************************************************)
(* A command is for its plugs until it fails or has sent for them          *)
(***************************************************************************)

(* An action of c in q is for plug p.                                      *)
Serves(d, q, c, p) ==
    \E i \in DOMAIN q : q[i].client = c /\ << d, p >> \in addressed(d, outer(q[i]))

(* What was served by q is served by w.                                    *)
Keeps(d, q, w) == \A c \in Clients, p \in Plugs(d) : Serves(d, q, c, p) => Serves(d, w, c, p)

(* c is told that an action of its failed.                                 *)
ToldOfFailure(c) == \E i \in DOMAIN calls' : calls'[i].client = c /\ calls'[i].err # "ESUCCESS"

(* A queue in which every action of a client has its place, for the same   *)
(* plugs.                                                                  *)
LEMMA PlacesKeep ==
    ASSUME NEW d, NEW q, NEW w,
           \A i \in DOMAIN q : q[i].client \in Clients =>
              \E j \in DOMAIN w : w[j].client = q[i].client /\ outer(w[j]).plugs = outer(q[i]).plugs
    PROVE  Keeps(d, q, w)
BY DEF Keeps, Serves, addressed

(* What is added behind a queue takes nothing from it.                     *)
LEMMA ConcatKeeps ==
    ASSUME NEW d, NEW S, NEW q \in Seq(S), NEW t \in Seq(S)
    PROVE  Keeps(d, q, q \o t)
<1>1. \A i \in DOMAIN q : i \in DOMAIN (q \o t) /\ (q \o t)[i] = q[i]
    OBVIOUS
<1>. QED  BY <1>1 DEF Keeps, Serves

(* A login preempts the head, which stays for its plugs.                   *)
LEMMA LoginKeeps ==
    ASSUME NEW d \in Devs, NEW q \in Seq(Action(d))
    PROVE  Keeps(d, q, enqueue_login(d, q))
<1>. DEFINE a == create_action(d, "login", {}, NoClient)
            h == [ Head(q) EXCEPT !.exec = rewind_action(@) ]
            w == enqueue_login(d, q)
<1>1. CASE q = << >>
    BY <1>1 DEF Keeps, Serves
<1>2. CASE q # << >>
    <2>1. /\ Head(q) \in Action(d) /\ Tail(q) \in Seq(Action(d)) /\ Head(q) = q[1]
          /\ Len(q) \in Nat \ {0} /\ DOMAIN q = 1..Len(q) /\ Len(Tail(q)) = Len(q) - 1
          /\ \A i \in 1..(Len(q) - 1) : Tail(q)[i] = q[i + 1]
        BY <1>2
    <2>2. Head(q).exec \in Stacks(Plugs(d))
        BY <2>1 DEF Action
    <2>3. h.client = q[1].client /\ outer(h).plugs = outer(q[1]).plugs /\ h \in Action(d)
        <3>1. rewind_action(Head(q).exec) \in Stacks(Plugs(d))
            BY <2>2, RewindType
        <3>2. h.client = q[1].client /\ h.exec = rewind_action(Head(q).exec) /\ h \in Action(d)
            BY <2>1, <3>1 DEF Action
        <3>. DEFINE r == [ outer(Head(q)) EXCEPT !.stmt = 1 ]
        <3>3. outer(Head(q)) \in ExecCtx(Plugs(d))
            BY <2>2, StackParts DEF outer
        <3>4. r.plugs = outer(Head(q)).plugs /\ h.exec = << r >>
            BY <3>2, <3>3 DEF rewind_action, outer, ExecCtx
        <3>. HIDE DEF r, h
        <3>5. outer(h) = r
            <4>1. Len(<< r >>) = 1 /\ << r >>[1] = r
                OBVIOUS
            <4>. QED  BY <3>4, <4>1 DEF outer
        <3>. QED  BY <2>1, <3>2, <3>4, <3>5
    <2>4. a \in Action(d)
        BY DeviceAssumption, CreateActionType DEF Callers
    <2>5. w = << a >> \o (<< h >> \o Tail(q))
        BY <1>2 DEF enqueue_login
    <2>. HIDE DEF a, h, w
    <2>6. /\ Len(w) = 2 + Len(Tail(q)) /\ w \in Seq(Action(d)) /\ w[2] = h
          /\ \A i \in 1..Len(Tail(q)) : w[i + 2] = Tail(q)[i]
        BY <2>1, <2>3, <2>4, <2>5
    <2>7. ASSUME NEW i \in DOMAIN q
          PROVE  /\ i + 1 \in DOMAIN w /\ w[i + 1].client = q[i].client
                 /\ outer(w[i + 1]).plugs = outer(q[i]).plugs
        <3>1. CASE i = 1
            BY <2>1, <2>3, <2>6, <3>1
        <3>2. CASE i # 1
            <4>1. i - 1 \in 1..Len(Tail(q)) /\ (i - 1) + 2 = i + 1 /\ (i - 1) + 1 = i
                BY <2>1, <3>2
            <4>2. w[(i - 1) + 2] = Tail(q)[i - 1] /\ Tail(q)[i - 1] = q[(i - 1) + 1]
                BY <2>1, <2>6, <4>1
            <4>3. i + 1 \in DOMAIN w
                BY <2>1, <2>6, <4>1
            <4>. QED  BY <4>1, <4>2, <4>3
        <3>. QED  BY <3>1, <3>2
    <2>8. Keeps(d, q, w)
        BY <2>7, PlacesKeep
    <2>. QED  BY <2>8 DEF w
<1>. QED  BY <1>1, <1>2

(* No client loses an action with a login.                                 *)
LEMMA DisconnectKeeps ==
    ASSUME NEW d \in Devs, NEW q \in Seq(Action(d)), InOrder(d, q)
    PROVE  Keeps(d, q, disconnect(q))
<1>1. CASE disconnect(q) = q
    BY <1>1 DEF Keeps
<1>2. CASE disconnect(q) # q
    <2>1. q # << >> /\ Head(q).com = "login" /\ disconnect(q) = Tail(q)
        BY <1>2 DEF disconnect
    <2>2. /\ q[1] = Head(q) /\ 1 \in DOMAIN q
          /\ \A i \in DOMAIN q : i = 1 \/ (i - 1 \in DOMAIN Tail(q) /\ Tail(q)[i - 1] = q[i])
        BY <2>1
    <2>3. q[1].client \notin Clients
        BY <2>1, <2>2, DeviceAssumption DEF InOrder, OfScript
    <2>4. \A i \in DOMAIN q : q[i].client \in Clients =>
              \E j \in DOMAIN Tail(q) : Tail(q)[j] = q[i]
        BY <2>2, <2>3
    <2>. QED  BY <2>1, <2>4, PlacesKeep
<1>. QED  BY <1>1, <1>2

(* Nor with a connection.                                                  *)
LEMMA ReconnectKeeps ==
    ASSUME NEW d \in Devs, NEW q \in Seq(Action(d)), InOrder(d, q)
    PROVE  \A r \in connect(d, q) \cup reconnect(d, q) : Keeps(d, q, r.queue)
<1>1. ASSUME NEW w \in Seq(Action(d)), NEW r \in connect(d, w) PROVE Keeps(d, w, r.queue)
    <2>1. r.queue = w \/ r.queue = enqueue_login(d, w)
        BY <1>1 DEF connect
    <2>. QED  BY <2>1, LoginKeeps DEF Keeps
<1>2. ASSUME NEW r \in reconnect(d, q) PROVE Keeps(d, q, r.queue)
    <2>. DEFINE w == IF connect_state[d] # "NOT_CONNECTED" THEN disconnect(q) ELSE q
    <2>1. w \in Seq(Action(d)) /\ Keeps(d, q, w)
        BY DisconnectType, DisconnectKeeps DEF Keeps
    <2>2. r \in connect(d, w) \/ r.queue = w
        BY DEF reconnect
    <2>. HIDE DEF w
    <2>. QED  BY <1>1, <2>1, <2>2 DEF Keeps
<1>. QED  BY <1>1, <1>2

(* A ping is added behind a queue.                                         *)
LEMMA PingKeeps ==
    ASSUME TypeOK, NEW d \in Devs, NEW state, NEW q \in Seq(Action(d)), NEW timer,
           enqueue_ping(d, state, q, timer)
    PROVE  Keeps(d, q, acts'[d])
<1>. DEFINE a == create_action(d, "ping", {}, NoClient)
<1>1. CASE acts' = [ acts EXCEPT ![d] = q ]
    BY <1>1 DEF Keeps, TypeOK, QueueTypeOK
<1>2. CASE "ping" \in DOMAIN Scripts[d] /\ acts' = [ acts EXCEPT ![d] = Append(q, a) ]
    <2>1. a \in Action(d)
        BY <1>2, CreateActionType DEF Callers
    <2>. HIDE DEF a
    <2>2. << a >> \in Seq(Action(d)) /\ Append(q, a) = q \o << a >>
        BY <2>1
    <2>3. acts'[d] = q \o << a >>
        BY <1>2, <2>2 DEF TypeOK, QueueTypeOK
    <2>. QED  BY <2>2, <2>3, ConcatKeeps
<1>. QED  BY <1>1, <1>2 DEF enqueue_ping

(* Every plug an action of a client is for stays in the queue, or what the *)
(* action sends is transmitted for it, or the client is told.              *)
GoesForPlugs(d) ==
    \A c \in Clients, p \in Plugs(d) :
        Serves(d, acts[d], c, p) =>
            \/ Serves(d, acts'[d], c, p)
            \/ << d, p >> \in delivered'[c]
            \/ ToldOfFailure(c)

(* The head goes on, for its plugs.                                        *)
LEMMA MovesKeep ==
    ASSUME TypeOK, NEW d \in Devs, acts[d] # << >>,
           Waits(d) \/ GoesOn(d) \/ Leaves(d) \/ Enters(d)
    PROVE  Keeps(d, acts[d], acts'[d])
<1>1. PICK a : /\ HeadBecomes(d, a)
               /\ \/ Alike(a.exec, Head(acts[d]).exec) \/ Advanced(a.exec, Head(acts[d]).exec)
                  \/ Popped(a.exec, Head(acts[d]).exec) \/ Pushed(a.exec, Head(acts[d]).exec)
    BY DEF Waits, GoesOn, Leaves, Enters
<1>2. a \in Action(d) /\ Head(acts[d]) \in Action(d) /\ a.client = Head(acts[d]).client
    BY <1>1 DEF HeadBecomes, TypeOK, QueueTypeOK
<1>3. outer(a).plugs = outer(Head(acts[d])).plugs
    BY <1>1, <1>2, OuterMoves, PlaceSame
<1>4. /\ DOMAIN acts'[d] = DOMAIN acts[d] /\ acts'[d][1] = a /\ acts[d][1] = Head(acts[d])
      /\ \A i \in DOMAIN acts[d] : i = 1 \/ acts'[d][i] = acts[d][i]
    <2>1. /\ Len(acts[d]) \in Nat \ {0} /\ DOMAIN acts[d] = 1..Len(acts[d])
          /\ DOMAIN acts'[d] = 1..Len(acts[d]) /\ acts'[d][1] = a
          /\ acts[d][1] = Head(acts[d])
          /\ \A i \in 2..Len(acts[d]) : acts'[d][i] = acts[d][i]
        BY <1>1, BecomesHead
    <2>2. \A i \in 1..Len(acts[d]) : i = 1 \/ i \in 2..Len(acts[d])
        BY <2>1
    <2>. QED  BY <2>1, <2>2
<1>5. \A i \in DOMAIN acts[d] :
          i \in DOMAIN acts'[d] /\ acts'[d][i].client = acts[d][i].client
          /\ outer(acts'[d][i]).plugs = outer(acts[d][i]).plugs
    BY <1>2, <1>3, <1>4
<1>. QED  BY <1>5, PlacesKeep

(* An action that fails tells the clients of all the actions of its queue. *)
LEMMA FailTells ==
    ASSUME NEW d \in Devs, NEW err, err # "ESUCCESS", Fail(d, err),
           NEW i \in DOMAIN acts[d]
    PROVE  ToldOfFailure(acts[d][i].client)
<1>1. calls' = completions(d, err)
    BY DEF Fail
<1>2. i \in DOMAIN calls' /\ calls'[i].client = acts[d][i].client /\ calls'[i].err # "ESUCCESS"
    BY <1>1 DEF completions
<1>. QED  BY <1>2 DEF ToldOfFailure

(* An action that ends has sent what it is for.                            *)
LEMMA EndsSent ==
    ASSUME AnswersAwaited, FirstIsSend, TypeOK, NEW d \in Devs, InStep(d), InOrder(d, acts[d]),
           SentOK(d), acts[d] # << >>, Head(acts[d]).client \in Clients, Statement(d), Ends(d)
    PROVE  addressed(d, outer(Head(acts[d]))) \subseteq delivered[Head(acts[d]).client]
<1>. DEFINE h == Head(acts[d])
            e == outer(h)
<1>1. /\ h \in Action(d) /\ h.exec \in Stacks(Plugs(d)) /\ e = h.exec[1]
      /\ h.exec[1].stmt = Len(Block[h.exec[1].block]) /\ acts[d][1] = h /\ 1 \in DOMAIN acts[d]
    <2>1. h \in Action(d) /\ acts[d][1] = h /\ 1 \in DOMAIN acts[d]
        BY DEF TypeOK, QueueTypeOK
    <2>. QED  BY <2>1 DEF Ends, AtEnd, Action, outer
<1>2. e \in ExecCtx(Plugs(d)) /\ h.com \in DOMAIN Scripts[d]
    BY <1>1, StackParts DEF Action
<1>3. e.block = Scripts[d][h.com] /\ h.com \notin {"login", "ping"}
    BY <1>1, DeviceAssumption DEF InOrder, OfScript
<1>4. e.block \in DOMAIN Block /\ e.stmt \in Nat \ {0} /\ Len(Block[e.block]) \in Nat \ {0}
    <2>1. e.block \in DOMAIN Block /\ e.stmt \in Nat \ {0}
        BY <1>2 DEF ExecCtx
    <2>. QED  BY <2>1, BlockAssumption
<1>5. Block[e.block][1].type = "send" /\ 1 \in 1..Len(Block[e.block])
    BY <1>2, <1>3, <1>4 DEF FirstIsSend
<1>6. 1 < Len(Block[e.block])
    BY <1>4, <1>5 DEF AnswersAwaited
<1>7. e.stmt = 2 \/ e.stmt > 2
    BY <1>1, <1>4, <1>6
<1>8. CASE e.stmt = 2
    BY <1>1, <1>8, SecondSends
<1>9. CASE e.stmt > 2
    BY <1>9 DEF SentOK
<1>. QED  BY <1>7, <1>8, <1>9

(* What is processed goes for its plugs.                                   *)
LEMMA ProcessServes ==
    ASSUME AnswersAwaited, FirstIsSend, TypeOK, NEW d \in Devs, InStep(d), InOrder(d, acts[d]),
           SentOK(d), Process(d)
    PROVE  GoesForPlugs(d)
<1>. SUFFICES ASSUME NEW c \in Clients, NEW p \in Plugs(d), Serves(d, acts[d], c, p)
              PROVE  \/ Serves(d, acts'[d], c, p) \/ << d, p >> \in delivered'[c]
                     \/ ToldOfFailure(c)
    BY DEF GoesForPlugs
<1>1. PICK i \in DOMAIN acts[d] :
         acts[d][i].client = c /\ << d, p >> \in addressed(d, outer(acts[d][i]))
    BY DEF Serves
<1>2. acts[d] # << >> /\ acts[d] \in Seq(Action(d))
    BY <1>1 DEF TypeOK, QueueTypeOK
<1>3. ASSUME NEW err, err # "ESUCCESS", Fail(d, err) PROVE ToldOfFailure(c)
    BY <1>1, <1>3, FailTells
<1>4. CASE Waits(d) \/ GoesOn(d) \/ Leaves(d) \/ Enters(d)
    BY <1>2, <1>4, MovesKeep DEF Keeps
<1>5. CASE Statement(d) /\ Ends(d)
    <2>1. acts'[d] = Tail(acts[d]) /\ delivered' = delivered
        BY <1>5, ProcessLocal DEF Ends
    <2>2. CASE i = 1
        <3>1. acts[d][i] = Head(acts[d])
            BY <1>2, <2>2
        <3>2. addressed(d, outer(Head(acts[d]))) \subseteq delivered[c]
            BY <1>1, <1>2, <1>5, <3>1, EndsSent
        <3>. QED  BY <1>1, <2>1, <3>1, <3>2
    <2>3. CASE i # 1
        <3>1. i - 1 \in DOMAIN Tail(acts[d]) /\ Tail(acts[d])[i - 1] = acts[d][i]
            BY <1>2, <2>3
        <3>2. Serves(d, Tail(acts[d]), c, p)
            BY <1>1, <3>1 DEF Serves
        <3>. QED  BY <2>1, <3>2
    <2>. QED  BY <2>2, <2>3
<1>6. CASE ProcessTimeout(d)
    <2>1. PICK err \in ActErrors \ {"ESUCCESS"} : Fail(d, err)
        BY <1>6 DEF ProcessTimeout, ActErrors
    <2>. QED  BY <1>3, <2>1
<1>7. CASE ProcessUnconnected(d)
    <2>1. Stall(d, head(d), {})
        BY <1>7 DEF ProcessUnconnected
    <2>2. /\ head(d) \in Action(d) /\ head(d).com = Head(acts[d]).com
          /\ head(d).client = Head(acts[d]).client /\ head(d).exec = Head(acts[d]).exec
        BY <1>2, HeadType DEF TypeOK
    <2>3. Alike(head(d).exec, Head(acts[d]).exec)
        BY <2>2 DEF Alike
    <2>. QED  BY <1>2, <1>4, <2>1, <2>2, <2>3, StallWaits
<1>8. CASE Statement(d)
    <2>1. \/ \E err \in ActErrors \ {"ESUCCESS"} : Fail(d, err)
          \/ Waits(d) \/ GoesOn(d) \/ Leaves(d) \/ Enters(d) \/ Ends(d)
        BY <1>2, ProcessMoves
    <2>. QED  BY <1>3, <1>4, <1>5, <1>8, <2>1
<1>. QED  BY <1>2, <1>6, <1>7, <1>8 DEF Process, ProcessIdle

(* What stays in its queue goes for its plugs.                             *)
LEMMA KeepsServes ==
    ASSUME NEW d, Keeps(d, acts[d], acts'[d])
    PROVE  GoesForPlugs(d)
BY DEF GoesForPlugs, Keeps

(* So does every action in every step.                                     *)
LEMMA ServeStep ==
    ASSUME AnswersAwaited, FirstIsSend, TypeOK, AllInStep, QueuesInOrder, HeadsHaveSent,
           [Next]_vars
    PROVE  \A d \in Devs : GoesForPlugs(d)
<1>. SUFFICES ASSUME NEW e \in Devs PROVE GoesForPlugs(e)
    OBVIOUS
<1>1. InOrder(e, acts[e]) /\ acts[e] \in Seq(Action(e)) /\ InStep(e) /\ SentOK(e)
    BY DEF QueuesInOrder, TypeOK, QueueTypeOK, AllInStep, HeadsHaveSent
<1>2. CASE acts'[e] = acts[e]
    BY <1>2, KeepsServes DEF Keeps
<1>3. CASE dev_initial_connect
    <2>1. PICK r \in connect(cur, acts[cur]) : acts' = [ acts EXCEPT ![cur] = r.queue ]
        BY <1>3 DEF dev_initial_connect
    <2>2. CASE e = cur
        <3>1. acts'[e] = r.queue /\ r \in connect(e, acts[e])
            BY <2>1, <2>2 DEF TypeOK, QueueTypeOK
        <3>. QED  BY <1>1, <3>1, ReconnectKeeps, KeepsServes
    <2>3. CASE e # cur
        BY <1>2, <2>1, <2>3 DEF TypeOK, QueueTypeOK
    <2>. QED  BY <2>2, <2>3
<1>4. CASE PollReturns \/ ClientsDone \/ UNCHANGED vars
    BY <1>2, <1>4 DEF PollReturns, ClientsDone, vars
<1>5. CASE ClientCommand
    <2>1. PICK com \in ClientComs, c \in Clients, hl \in SUBSET Nodes :
             dev_enqueue_actions(com, hl, c)
        BY <1>5 DEF ClientCommand
    <2>2. new_acts(e, com, hl, c) \in Seq(Action(e)) /\ acts'[e] = acts[e] \o new_acts(e, com, hl, c)
        BY <2>1, NewActsType DEF dev_enqueue_actions
    <2>. QED  BY <1>1, <2>2, ConcatKeeps, KeepsServes
<1>6. ASSUME NEW d \in Devs, Visit(d) PROVE GoesForPlugs(e)
    <2>1. CASE d # e
        BY <1>2, <1>6, <2>1, VisitOrder DEF QueuesInOrder
    <2>2. CASE d = e
        <3>1. CASE VisitUnconnected(e)
            <4>1. PICK r \in reconnect(e, acts[e]) : enqueue_ping(e, r.state, r.queue, r.timer)
                BY <3>1 DEF VisitUnconnected
            <4>2. r.queue \in Seq(Action(e))
                BY <1>1, <4>1, ReconnectType DEF Outcome
            <4>3. Keeps(e, acts[e], r.queue) /\ Keeps(e, r.queue, acts'[e])
                BY <1>1, <4>1, <4>2, ReconnectKeeps, PingKeeps
            <4>. QED  BY <4>3, KeepsServes DEF Keeps
        <3>2. CASE VisitFinishConnect(e)
            <4>. DEFINE q == enqueue_login(e, acts[e])
            <4>1. q \in Seq(Action(e)) /\ Keeps(e, acts[e], q)
                BY <1>1, EnqueueLoginType, LoginKeeps
            <4>2. enqueue_ping(e, "CONNECTED", q, {})
                BY <3>2 DEF VisitFinishConnect
            <4>. HIDE DEF q
            <4>3. Keeps(e, q, acts'[e])
                BY <4>1, <4>2, PingKeeps
            <4>. QED  BY <4>1, <4>3, KeepsServes DEF Keeps
        <3>3. CASE VisitConnected(e) \/ VisitConnecting(e)
            BY <1>1, <3>3, PingKeeps, KeepsServes DEF VisitConnected, VisitConnecting
        <3>. QED  BY <1>6, <2>2, <3>1, <3>2, <3>3 DEF Visit
    <2>. QED  BY <2>1, <2>2
<1>7. ASSUME NEW d \in Devs, Process(d) PROVE GoesForPlugs(e)
    <2>1. CASE d # e
        BY <1>2, <1>7, <2>1, ProcessLocal
    <2>2. CASE d = e
        BY <1>1, <1>7, <2>2, ProcessServes
    <2>. QED  BY <2>1, <2>2
<1>8. ASSUME NEW d \in Devs, Network(d) PROVE acts'[e] = acts[e]
    BY <1>8 DEF Network, LinkOpens, LinkDrops, Answers
<1>9. ASSUME NEW d \in Devs, Time(d) PROVE GoesForPlugs(e)
    <2>1. CASE RetryExpires(d) \/ PingFallsDue(d)
        BY <1>2, <2>1 DEF RetryExpires, PingFallsDue
    <2>2. CASE StampExpires(d) \/ DelayExpires(d)
        <3>1. PICK i \in DOMAIN acts[d] :
                 \/ acts' = [ acts EXCEPT ![d][i].time_stamp = "expired" ]
                 \/ acts' = [ acts EXCEPT ![d][i].delay_start = "expired" ]
            BY <2>2 DEF StampExpires, DelayExpires
        <3>2. acts[d] \in Seq(Action(d)) /\ acts[d][i] \in Action(d)
            BY DEF TypeOK, QueueTypeOK
        <3>3. PICK a : /\ a.client = acts[d][i].client /\ a.exec = acts[d][i].exec
                       /\ acts' = [ acts EXCEPT ![d][i] = a ]
            BY <3>1, <3>2 DEF Action
        <3>4. acts'[d] = [ acts[d] EXCEPT ![i] = a ] /\ \A f \in Devs \ {d} : acts'[f] = acts[f]
            BY <3>3 DEF TypeOK, QueueTypeOK
        <3>5. \A j \in DOMAIN acts[d] :
                 /\ j \in DOMAIN acts'[d] /\ acts'[d][j].client = acts[d][j].client
                 /\ acts'[d][j].exec = acts[d][j].exec
            BY <3>3, <3>4
        <3>6. Keeps(d, acts[d], acts'[d])
            BY <3>5, PlacesKeep DEF outer
        <3>. QED  BY <1>2, <3>4, <3>6, KeepsServes
    <2>. QED  BY <1>9, <2>1, <2>2 DEF Time
<1>. QED  BY <1>2, <1>3, <1>4, <1>5, <1>6, <1>7, <1>8, <1>9 DEF Next
(* Past the answer to its first send, an action has sent what it is for;   *)
(* with what this rests on.                                                *)
LEMMA HeadsSend ==
    ASSUME AnswersAwaited, FirstIsSend
    PROVE  Spec => [](AllInStep /\ QueuesInOrder /\ HeadsHaveSent)
<1>1. Init => OutputIsSent /\ AllInStep /\ QueuesInOrder /\ HeadsHaveSent
    <2>1. Init => OutputIsSent /\ AllInStep
        BY DEF Init, OutputIsSent, OutputOK, AllInStep, InStep, Quiet
    <2>2. Init => QueuesInOrder /\ HeadsHaveSent
        BY DEF Init, QueuesInOrder, InOrder, HeadsHaveSent, SentOK
    <2>. QED  BY <2>1, <2>2
<1>2. TypeOK /\ TypeOK' /\ OutputIsSent /\ AllInStep /\ QueuesInOrder /\ HeadsHaveSent /\ [Next]_vars
        => OutputIsSent' /\ AllInStep' /\ QueuesInOrder' /\ HeadsHaveSent'
    BY OutputStep, StageStep, OrderStep, SentStep
<1>. QED  BY <1>1, <1>2, TypeCorrect, PTL DEF Spec
=============================================================================
