--------------------------- MODULE PowermandProofs --------------------------
(***************************************************************************)
(* Proofs about Powermand: the daemon is, to its devices, what Device says *)
(* of its environment; a command waits for exactly the actions it still    *)
(* has queued, whatever the clients, the devices and the network do; a     *)
(* prompt is sent to clients without a command only; and a command that is *)
(* answered with success was transmitted for each plug it is for.          *)
(***************************************************************************)
EXTENDS Powermand, WireProofs

(***************************************************************************)
(* The actions a command adds                                              *)
(***************************************************************************)

(* The number of actions queued for a client is a number, zero when none   *)
(* is.                                                                     *)
LEMMA QueuedType ==
    ASSUME TypeOK, NEW c
    PROVE  /\ IsFiniteSet(queued(c)) /\ Cardinality(queued(c)) \in Nat
           /\ Cardinality(queued(c)) = 0 <=> queued(c) = {}
<1>1. 1 \in Devs
    BY DeviceAssumption DEF Devs
<1>2. queued(c) = placed(acts, c)
    BY DEF queued, placed, of_client
<1>3. IsFiniteSet(queued(c))
    BY <1>1, <1>2, PlacedSplit DEF TypeOK, QueueTypeOK
<1>. QED  BY <1>3, FS_CardinalityType, FS_EmptySet

(* The actions a command adds are its client's.                            *)
LEMMA NewActsClient ==
    ASSUME NEW d \in Devs, NEW com \in ClientComs, NEW hl \in SUBSET Nodes, NEW c \in Clients,
           NEW i \in DOMAIN new_acts(d, com, hl, c)
    PROVE  new_acts(d, com, hl, c)[i].client = c
<1>. DEFINE P == targets(d, hl)
            all == (P = Plugs(d) \/ com \in Query) /\ variant(d, com, AllScript) # {}
            new == enqueue_targetted_actions(d, com, hl, c)
<1>1. \A name, plugs : create_action(d, name, plugs, c).client = c
    BY DEF create_action
<1>2. CASE all
    BY <1>1, <1>2 DEF enqueue_targetted_actions, new_acts
<1>3. CASE ~all /\ variant(d, com, RangedScript) # {}
    BY <1>1, <1>3 DEF enqueue_targetted_actions, new_acts
<1>4. CASE ~all /\ variant(d, com, RangedScript) = {} /\ com \in DOMAIN Scripts[d]
    <2>1. new = [ k \in 1..Cardinality(P) |-> create_action(d, com, {nth_plug(P, k)}, c) ]
        BY <1>4 DEF enqueue_targetted_actions
    <2>. QED  BY <1>1, <2>1 DEF new_acts
<1>5. CASE ~all /\ variant(d, com, RangedScript) = {} /\ com \notin DOMAIN Scripts[d]
    BY <1>5 DEF enqueue_targetted_actions, new_acts
<1>. QED  BY <1>2, <1>3, <1>4, <1>5

(* The places of the actions appended to q.                                *)
behind(q, new) == { Len(q) + i : i \in DOMAIN new }

(* One device of a command: others keep what they had, and the client that *)
(* had nothing there has the new actions, at the end.                      *)
LEMMA AppendedOf ==
    ASSUME NEW S, NEW q \in Seq(S), NEW new \in Seq(S), NEW c,
           \A i \in DOMAIN new : new[i].client = c
    PROVE  /\ \A b : b # c => of_client(q \o new, b) = of_client(q, b)
           /\ of_client(q, c) = {}
                => of_client(q \o new, c) = behind(q, new)
<1>1. /\ Len(q) \in Nat /\ Len(new) \in Nat
      /\ DOMAIN q = 1..Len(q) /\ DOMAIN new = 1..Len(new)
      /\ DOMAIN (q \o new) = 1..(Len(q) + Len(new))
      /\ \A i \in 1..Len(q) : (q \o new)[i] = q[i]
      /\ \A i \in 1..Len(new) : (q \o new)[Len(q) + i] = new[i]
    OBVIOUS
<1>2. ASSUME NEW i \in 1..(Len(q) + Len(new)), ~(i \in 1..Len(q))
      PROVE  i - Len(q) \in 1..Len(new) /\ i = Len(q) + (i - Len(q)) /\ (q \o new)[i].client = c
    <2>1. i - Len(q) \in 1..Len(new) /\ i = Len(q) + (i - Len(q))
        BY <1>1, <1>2
    <2>. QED  BY <1>1, <2>1
<1>3. ASSUME NEW b, b # c
      PROVE  of_client(q \o new, b) = of_client(q, b)
    <2>1. \A i \in DOMAIN (q \o new) : (q \o new)[i].client = b => i \in 1..Len(q)
        BY <1>1, <1>2, <1>3
    <2>2. 1..Len(q) \subseteq DOMAIN (q \o new)
        BY <1>1
    <2>. QED  BY <1>1, <2>1, <2>2 DEF of_client
<1>4. ASSUME of_client(q, c) = {}
      PROVE  of_client(q \o new, c) = behind(q, new)
    <2>1. ASSUME NEW i \in of_client(q \o new, c)
          PROVE  i \in behind(q, new)
        <3>1. ~(i \in 1..Len(q))
            BY <1>1, <1>4 DEF of_client
        <3>2. i \in 1..(Len(q) + Len(new))
            BY <1>1 DEF of_client
        <3>. QED  BY <1>1, <1>2, <3>1, <3>2 DEF behind
    <2>2. ASSUME NEW k \in DOMAIN new
          PROVE  Len(q) + k \in of_client(q \o new, c)
        <3>1. Len(q) + k \in DOMAIN (q \o new)
            BY <1>1
        <3>. QED  BY <1>1, <3>1 DEF of_client
    <2>. QED  BY <2>1, <2>2 DEF behind
<1>. QED  BY <1>3, <1>4

(* A command counts the actions it adds, all of its client that had none.  *)
LEMMA CommandCounts ==
    ASSUME TypeOK, TypeOK', NEW com \in ClientComs, NEW hl \in SUBSET Nodes, NEW c \in Clients,
           queued(c) = {}, dev_enqueue_actions(com, hl, c)
    PROVE  /\ Cardinality(queued(c)') = Cardinality(queued_by(com, hl, c))
           /\ Cardinality(queued_by(com, hl, c)) \in Nat
           /\ \A b : b # c => queued(b)' = queued(b)
<1>. DEFINE new(d) == new_acts(d, com, hl, c)
<1>1. ASSUME NEW d \in Devs
      PROVE  /\ acts[d] \in Seq(Action(d)) /\ new(d) \in Seq(Action(d))
             /\ acts'[d] = acts[d] \o new(d)
             /\ \A i \in DOMAIN new(d) : new(d)[i].client = c
    <2>1. acts[d] \in Seq(Action(d)) /\ new(d) \in Seq(Action(d))
        BY NewActsType DEF TypeOK, QueueTypeOK
    <2>2. acts'[d] = acts[d] \o new(d)
        BY DEF dev_enqueue_actions
    <2>3. \A i \in DOMAIN new(d) : new(d)[i].client = c
        BY NewActsClient
    <2>. QED  BY <2>1, <2>2, <2>3
<1>2. ASSUME NEW d \in Devs PROVE of_client(acts[d], c) = {}
    <2>1. \A i \in of_client(acts[d], c) : << d, i >> \in queued(c)
        BY DEF queued, of_client
    <2>. QED  BY <2>1
<1>. HIDE DEF new
<1>3. ASSUME NEW d \in Devs
      PROVE  /\ \A b : b # c => of_client(acts'[d], b) = of_client(acts[d], b)
             /\ of_client(acts'[d], c) = behind(acts[d], new(d))
    <2>1. acts[d] \in Seq(Action(d)) /\ new(d) \in Seq(Action(d))
        BY <1>1
    <2>2. \A i \in DOMAIN new(d) : new(d)[i].client = c
        BY <1>1
    <2>3. /\ \A b : b # c => of_client(acts[d] \o new(d), b) = of_client(acts[d], b)
          /\ of_client(acts[d], c) = {}
                => of_client(acts[d] \o new(d), c) = behind(acts[d], new(d))
        BY <2>1, <2>2, AppendedOf
    <2>. QED  BY <1>1, <1>2, <2>3
<1>. DEFINE N == UNION { { << d, i >> : i \in DOMAIN new(d) } : d \in Devs }
            A == UNION { { << d, i >> : i \in of_client(acts'[d], c) } : d \in Devs }
            f == [ x \in A |-> << x[1], x[2] - Len(acts[x[1]]) >> ]
<1>4. N = queued_by(com, hl, c)
    BY DEF queued_by, new
<1>5. A = queued(c)'
    BY DEF queued, of_client
<1>6. IsFiniteSet(A)
    <2>1. 1 \in Devs /\ \A e \in Devs : acts'[e] \in Seq(Action(e))
        BY DeviceAssumption DEF Devs, TypeOK, QueueTypeOK
    <2>2. IsFiniteSet(placed(acts', c))
        BY <2>1, PlacedSplit
    <2>. QED  BY <2>2 DEF placed
<1>7. \A d \in Devs : Len(acts[d]) \in Nat /\ DOMAIN new(d) \subseteq Nat
    <2>1. ASSUME NEW d \in Devs PROVE Len(acts[d]) \in Nat /\ DOMAIN new(d) \subseteq Nat
        <3>1. acts[d] \in Seq(Action(d)) /\ new(d) \in Seq(Action(d))
            BY <1>1
        <3>. QED  BY <3>1
    <2>. QED  BY <2>1
<1>8. \A x \in A : \E d \in Devs : \E i \in DOMAIN new(d) :
            x = << d, Len(acts[d]) + i >> /\ f[x] = << d, i >>
    <2>. SUFFICES ASSUME NEW x \in A
                  PROVE  \E d \in Devs : \E i \in DOMAIN new(d) :
                            x = << d, Len(acts[d]) + i >> /\ f[x] = << d, i >>
        OBVIOUS
    <2>1. PICK d \in Devs : \E k \in of_client(acts'[d], c) : x = << d, k >>
        OBVIOUS
    <2>5. PICK k \in of_client(acts'[d], c) : x = << d, k >>
        BY <2>1
    <2>2. PICK i \in DOMAIN new(d) : k = Len(acts[d]) + i
        BY <1>3 DEF behind
    <2>3. f[x] = << d, k - Len(acts[d]) >>
        BY <2>5
    <2>4. k - Len(acts[d]) = i
        BY <1>7, <2>2
    <2>. HIDE DEF f
    <2>. QED  BY <2>5, <2>2, <2>3, <2>4
<1>9. f \in [A -> N]
    <2>. SUFFICES ASSUME NEW x \in A PROVE f[x] \in N
        OBVIOUS
    <2>. HIDE DEF A, f
    <2>1. PICK d \in Devs : \E i \in DOMAIN new(d) : f[x] = << d, i >>
        BY <1>8
    <2>. QED  BY <2>1
<1>10. \A x, y \in A : f[x] = f[y] => x = y
    <2>. HIDE DEF f, A
    <2>. QED  BY <1>8
<1>11. \A y \in N : \E x \in A : f[x] = y
    <2>1. ASSUME NEW d \in Devs, NEW i \in DOMAIN new(d)
          PROVE  \E x \in A : f[x] = << d, i >>
        <3>. DEFINE k == Len(acts[d]) + i
                    x == << d, k >>
        <3>1. k \in of_client(acts'[d], c)
            BY <1>3 DEF behind
        <3>2. x \in A
            BY <3>1
        <3>3. f[x] = << x[1], x[2] - Len(acts[x[1]]) >>
            BY <3>2
        <3>4. x[1] = d /\ x[2] = k /\ k - Len(acts[d]) = i
            BY <1>7
        <3>. HIDE DEF A, f, x, k
        <3>. QED  BY <3>2, <3>3, <3>4
    <2>2. \A y \in N : \E d \in Devs : \E i \in DOMAIN new(d) : y = << d, i >>
        OBVIOUS
    <2>. HIDE DEF A, N, f
    <2>. QED  BY <2>1, <2>2
<1>. HIDE DEF A, N, f
<1>12. Cardinality(N) = Cardinality(A) /\ Cardinality(A) \in Nat
    BY <1>6, <1>9, <1>10, <1>11, SameNumber, FS_CardinalityType
<1>13. \A b : b # c => queued(b)' = queued(b)
    BY <1>3 DEF queued, of_client
<1>. QED  BY <1>4, <1>5, <1>12, <1>13

(***************************************************************************)
(* The commands and the queues                                             *)
(***************************************************************************)

(* PendingExact, with what it rests on: a client that is not accepted yet  *)
(* has no command, and no actions, to begin with.  (A client that has gone *)
(* may have left actions, and never comes back.)                           *)
Counted ==
    \A c \in Clients :
        /\ cstate[c] \in {"new", "waiting"} => Cardinality(queued(c)) = 0 /\ cmd[c] = NoCmd
        /\ cstate[c] = "open" => cmd[c].pending = Cardinality(queued(c))

(* The daemon's whole state: the types, logins that are nobody's, and the  *)
(* commands that wait for what is queued.                                  *)
DaemonOK == TypeOK /\ LoginsAreOwn /\ ClientTypeOK /\ Counted

(* A client without a command has nothing to wait for, and only it.        *)
LEMMA PendingType ==
    ASSUME ClientTypeOK, NEW c \in Clients
    PROVE  /\ cmd[c].pending \in Nat /\ (cmd[c].pending = 0 <=> cmd[c] = NoCmd)
           /\ cmd[c].hl \in SUBSET Nodes /\ cmd[c].error \in BOOLEAN
           /\ cmd[c].pending # 0 => cmd[c] \in Command
<1>1. cmd[c] \in Command \/ cmd[c] = NoCmd
    BY DEF ClientTypeOK
<1>2. CASE cmd[c] \in Command
    BY <1>2 DEF Command, NoCmd
<1>3. CASE cmd[c] = NoCmd
    BY <1>3 DEF NoCmd
<1>. QED  BY <1>1, <1>2, <1>3

(* A step of the devices that calls nobody back and changes no client.     *)
LEMMA QuietStep ==
    ASSUME TypeOK, TypeOK', ClientTypeOK, Counted, NEW d \in Devs, Balanced(d), calls' = << >>,
           UNCHANGED client_vars
    PROVE  ClientTypeOK' /\ Counted'
<1>1. ClientTypeOK'
    BY DEF ClientTypeOK, client_vars
<1>2. ASSUME NEW c \in Clients PROVE Cardinality(queued(c)') = Cardinality(queued(c))
    <2>1. Cardinality(queued(c)) = Cardinality(queued(c)') + Cardinality(of_client(calls', c))
        BY BalancedCount
    <2>2. Cardinality(of_client(calls', c)) = 0
        BY HeldEmpty, FS_EmptySet
    <2>3. \A e \in Devs : acts'[e] \in Seq(Action(e))
        BY DEF TypeOK, QueueTypeOK
    <2>4. Cardinality(queued(c)') \in Nat
        <3>1. IsFiniteSet(placed(acts', c))
            BY <2>3, PlacedSplit
        <3>2. queued(c)' = placed(acts', c)
            BY DEF queued, placed, of_client
        <3>. QED  BY <3>1, <3>2, FS_CardinalityType
    <2>. QED  BY <2>1, <2>2, <2>4
<1>. QED  BY <1>1, <1>2 DEF Counted, client_vars

(* The callbacks of a step of the devices, counted in.                     *)
LEMMA FinishStep ==
    ASSUME TypeOK, TypeOK', ClientTypeOK, Counted, NEW d \in Devs, Balanced(d),
           act_finish(calls')
    PROVE  /\ ClientTypeOK' /\ Counted'
           /\ PromptMeansIdle => PromptMeansIdle'
<1>. DEFINE count(c) == Cardinality(finished(c, calls'))
            failed(c) == cmd[c].error
                           \/ \E i \in finished(c, calls') : calls'[i].err # "ESUCCESS"
            found(c) == cstate[c] = "open" /\ finished(c, calls') # {}
            left(c) == [ cmd[c] EXCEPT !.pending = @ - count(c), !.error = failed(c) ]
            answer(c) == [ code |-> IF failed(c) THEN "ERROR" ELSE "OK",
                           prompt |-> TRUE, hl |-> cmd[c].hl ]
<1>1. ASSUME NEW c \in Clients
      PROVE  /\ cmd'[c] = IF ~found(c) THEN cmd[c]
                          ELSE IF count(c) = cmd[c].pending THEN NoCmd ELSE left(c)
             /\ reply'[c] = IF found(c) /\ count(c) = cmd[c].pending
                            THEN answer(c) ELSE reply[c]
    BY DEF act_finish
<1>2. /\ DOMAIN cmd' = Clients /\ DOMAIN reply' = Clients
      /\ cmd' = [ c \in Clients |-> cmd'[c] ] /\ reply' = [ c \in Clients |-> reply'[c] ]
      /\ UNCHANGED << cstate, quitting, hangup, inbox, typed >>
    BY DEF act_finish
<1>3. ASSUME NEW c \in Clients
      PROVE  /\ count(c) \in Nat /\ (count(c) = 0 <=> finished(c, calls') = {})
             /\ Cardinality(queued(c)') \in Nat
             /\ Cardinality(queued(c)) = Cardinality(queued(c)') + count(c)
    <2>1. finished(c, calls') = of_client(calls', c)
        BY DEF finished, of_client
    <2>2. calls' \in Seq([client : Callers, err : ActErrors])
        BY DEF TypeOK, LoopTypeOK
    <2>3. IsFiniteSet(of_client(calls', c))
        BY <2>2, HeldType
    <2>4. Cardinality(queued(c)) = Cardinality(queued(c)') + Cardinality(of_client(calls', c))
        BY BalancedCount
    <2>5. \A e \in Devs : acts'[e] \in Seq(Action(e))
        BY DEF TypeOK, QueueTypeOK
    <2>6. Cardinality(queued(c)') \in Nat
        <3>1. IsFiniteSet(placed(acts', c))
            BY <2>5, PlacedSplit
        <3>2. queued(c)' = placed(acts', c)
            BY DEF queued, placed, of_client
        <3>. QED  BY <3>1, <3>2, FS_CardinalityType
    <2>. QED  BY <2>1, <2>3, <2>4, <2>6, FS_CardinalityType, FS_EmptySet
<1>4. ASSUME NEW c \in Clients
      PROVE  failed(c) \in BOOLEAN /\ answer(c) \in [ code : Responses, prompt : BOOLEAN, hl : SUBSET Nodes ]
    <2>1. cmd[c].hl \in SUBSET Nodes /\ cmd[c].error \in BOOLEAN
        BY PendingType
    <2>2. failed(c) \in BOOLEAN
        BY <2>1, Zenon
    <2>. QED  BY <2>1, <2>2 DEF Responses
<1>. HIDE DEF count, failed, answer
<1>5. ASSUME NEW c \in Clients, found(c), count(c) # cmd[c].pending
      PROVE  left(c) \in Command /\ left(c).pending = Cardinality(queued(c)') /\ cmd[c] # NoCmd
    <2>1. cmd[c].pending = Cardinality(queued(c))
        BY <1>5 DEF Counted
    <2>2. cmd[c].pending \in Nat /\ cmd[c].pending - count(c) = Cardinality(queued(c)')
        BY <1>3, <2>1, PendingType
    <2>3. cmd[c].pending - count(c) \in Nat \ {0} /\ cmd[c].pending # 0
        BY <1>3, <1>5, <2>2
    <2>4. cmd[c] \in Command /\ cmd[c] # NoCmd
        BY <2>3, PendingType
    <2>. QED  BY <1>4, <2>2, <2>3, <2>4 DEF Command
<1>. HIDE DEF left
<1>6. ClientTypeOK'
    <2>1. ASSUME NEW c \in Clients
          PROVE  /\ cmd'[c] \in Command \cup {NoCmd}
                 /\ reply'[c] \in [ code : Responses, prompt : BOOLEAN, hl : SUBSET Nodes ]
        <3>1. /\ cmd[c] \in Command \cup {NoCmd}
              /\ reply[c] \in [ code : Responses, prompt : BOOLEAN, hl : SUBSET Nodes ]
            BY DEF ClientTypeOK
        <3>. HIDE DEF found
        <3>. QED  BY <1>1, <1>4, <1>5, <3>1
    <2>2. /\ cmd' \in [Clients -> Command \cup {NoCmd}]
          /\ reply' \in [Clients -> [ code : Responses, prompt : BOOLEAN, hl : SUBSET Nodes ]]
        BY <1>2, <2>1
    <2>. QED  BY <1>2, <2>2 DEF ClientTypeOK
<1>7. Counted'
    <2>1. ASSUME NEW c \in Clients, cstate[c] \in {"new", "waiting"}
          PROVE  Cardinality(queued(c)') = 0 /\ cmd'[c] = NoCmd
        <3>1. ~found(c) /\ Cardinality(queued(c)) = 0 /\ cmd[c] = NoCmd
            BY <2>1 DEF Counted
        <3>. QED  BY <1>1, <1>3, <3>1
    <2>2. ASSUME NEW c \in Clients, cstate[c] = "open"
          PROVE  cmd'[c].pending = Cardinality(queued(c)')
        <3>1. cmd[c].pending = Cardinality(queued(c)) /\ cmd[c].pending \in Nat
            BY <2>2, PendingType DEF Counted
        <3>2. CASE ~found(c)
            BY <1>1, <1>3, <2>2, <3>1, <3>2
        <3>3. CASE found(c) /\ count(c) = cmd[c].pending
            BY <1>1, <1>3, <3>1, <3>3 DEF NoCmd
        <3>4. CASE found(c) /\ count(c) # cmd[c].pending
            BY <1>1, <1>5, <3>4
        <3>. QED  BY <3>2, <3>3, <3>4
    <2>. QED  BY <1>2, <2>1, <2>2 DEF Counted
<1>8. ASSUME PromptMeansIdle PROVE PromptMeansIdle'
    <2>1. ASSUME NEW c \in Clients, cstate'[c] = "open", reply'[c].prompt,
                 reply'[c].code # "TOOLONG"
          PROVE  cmd'[c] = NoCmd
        <3>1. CASE found(c) /\ count(c) = cmd[c].pending
            BY <1>1, <3>1
        <3>2. CASE ~(found(c) /\ count(c) = cmd[c].pending)
            <4>1. cmd[c] = NoCmd
                BY <1>1, <1>2, <1>8, <2>1, <3>2 DEF PromptMeansIdle
            <4>. QED  BY <1>1, <1>5, <3>2, <4>1
        <3>. QED  BY <3>1, <3>2
    <2>. QED  BY <2>1 DEF PromptMeansIdle
<1>. QED  BY <1>6, <1>7, <1>8

(***************************************************************************)
(* The steps of the clients                                                *)
(***************************************************************************)

(* What is queued is the same when the queues are.                         *)
LEMMA QueuedSame ==
    ASSUME acts' = acts, NEW c
    PROVE  queued(c)' = queued(c)
BY DEF queued

(* Steps of the users change what clients have typed, and how they are     *)
(* connected.                                                              *)
LEMMA UsersStep ==
    ASSUME ClientTypeOK, Counted, Users
    PROVE  /\ ClientTypeOK' /\ Counted' /\ UNCHANGED vars
           /\ PromptMeansIdle => PromptMeansIdle'
<1>1. PICK c \in Clients : Connects(c) \/ Types(c) \/ HangsUp(c)
    BY DEF Users
<1>2. UNCHANGED << vars, cmd, reply >>
    BY <1>1 DEF Connects, Types, HangsUp
<1>3. \A b \in Clients : queued(b)' = queued(b)
    BY <1>2, QueuedSame DEF vars
<1>4. CASE Connects(c)
    <2>1. ClientTypeOK' /\ cstate[c] = "new" /\ cstate' = [ cstate EXCEPT ![c] = "waiting" ]
        BY <1>4 DEF Connects, ClientTypeOK
    <2>2. \A b \in Clients : cstate'[b] = IF b = c THEN "waiting" ELSE cstate[b]
        BY <2>1 DEF ClientTypeOK
    <2>3. Counted'
        BY <1>2, <1>3, <2>1, <2>2 DEF Counted
    <2>4. PromptMeansIdle => PromptMeansIdle'
        BY <1>2, <2>2 DEF PromptMeansIdle
    <2>. QED  BY <1>2, <2>1, <2>3, <2>4
<1>5. CASE Types(c)
    <2>1. PICK l \in Lines : inbox' = [ inbox EXCEPT ![c] = Append(@, l) ]
        BY <1>5 DEF Types
    <2>2. typed[c] \in 0..MaxLines /\ typed[c] < MaxLines /\ MaxLines \in Nat
        BY <1>5, ClientAssumption DEF Types, ClientTypeOK
    <2>3. typed[c] + 1 \in 0..MaxLines /\ Append(inbox[c], l) \in Seq(Lines)
        BY <2>2 DEF ClientTypeOK
    <2>4. ClientTypeOK'
        BY <1>5, <2>1, <2>3 DEF Types, ClientTypeOK
    <2>5. cstate' = cstate
        BY <1>5 DEF Types
    <2>. QED  BY <1>2, <1>3, <2>4, <2>5 DEF Counted, PromptMeansIdle
<1>6. CASE HangsUp(c)
    <2>1. PICK h \in {"eof", "hup"} : hangup' = [ hangup EXCEPT ![c] = h ]
        BY <1>6, ClientAssumption DEF HangsUp
    <2>2. ClientTypeOK' /\ cstate' = cstate
        BY <1>6, <2>1 DEF HangsUp, ClientTypeOK
    <2>. QED  BY <1>2, <1>3, <2>2 DEF Counted, PromptMeansIdle
<1>. QED  BY <1>1, <1>4, <1>5, <1>6

(* A response is one.                                                      *)
LEMMA RespondType ==
    ASSUME ClientTypeOK, NEW c \in Clients, NEW code \in Responses, NEW prompt \in BOOLEAN,
           Respond(c, code, prompt)
    PROVE  /\ reply' \in [Clients -> [ code : Responses, prompt : BOOLEAN, hl : SUBSET Nodes ]]
           /\ reply'[c].code = code /\ reply'[c].prompt = prompt
           /\ \A b \in Clients : b # c => reply'[b] = reply[b]
BY DEF ClientTypeOK, Respond

(* A client that is accepted, or destroyed, has no command.                *)
LEMMA CreateDestroyStep ==
    ASSUME ClientTypeOK, Counted, NEW c \in Clients, create_client(c) \/ destroy_client(c)
    PROVE  /\ ClientTypeOK' /\ Counted' /\ UNCHANGED vars
           /\ PromptMeansIdle => PromptMeansIdle'
<1>1. UNCHANGED vars
    BY DEF create_client, destroy_client
<1>2. \A b \in Clients : queued(b)' = queued(b)
    BY <1>1, QueuedSame DEF vars
<1>3. CASE create_client(c)
    <2>1. /\ cstate[c] = "waiting" /\ cmd' = cmd /\ Respond(c, "INFO", TRUE)
          /\ \A b \in Clients : cstate'[b] = IF b = c THEN "open" ELSE cstate[b]
        BY <1>3 DEF create_client, ClientTypeOK
    <2>2. /\ reply' \in [Clients -> [ code : Responses, prompt : BOOLEAN, hl : SUBSET Nodes ]]
          /\ \A b \in Clients : b # c => reply'[b] = reply[b]
        BY <2>1, RespondType DEF Responses
    <2>3. ClientTypeOK'
        BY <1>3, <2>2 DEF create_client, ClientTypeOK
    <2>4. Cardinality(queued(c)) = 0 /\ cmd[c] = NoCmd /\ NoCmd.pending = 0
        BY <2>1 DEF Counted, NoCmd
    <2>5. Counted'
        BY <1>2, <2>1, <2>4 DEF Counted
    <2>6. PromptMeansIdle => PromptMeansIdle'
        BY <2>1, <2>2, <2>4 DEF PromptMeansIdle
    <2>. QED  BY <1>1, <2>3, <2>5, <2>6
<1>4. CASE destroy_client(c)
    <2>1. /\ cstate'[c] = "gone" /\ reply' = reply
          /\ \A b \in Clients \ {c} : cstate'[b] = cstate[b] /\ cmd'[b] = cmd[b]
        BY <1>4 DEF destroy_client, ClientTypeOK
    <2>2. ClientTypeOK'
        BY <1>4 DEF destroy_client, ClientTypeOK
    <2>3. Counted'
        BY <1>2, <2>1 DEF Counted
    <2>4. PromptMeansIdle => PromptMeansIdle'
        BY <2>1 DEF PromptMeansIdle
    <2>. QED  BY <1>1, <2>2, <2>3, <2>4
<1>. QED  BY <1>3, <1>4

(* A line of input.  To the devices it is nothing, or the command of a     *)
(* client that has no actions queued.                                      *)
LEMMA ParseStep ==
    ASSUME TypeOK, ClientTypeOK, Counted, NEW c \in Clients, parse_input(c)
    PROVE  /\ [Next]_vars
           /\ TypeOK' => ClientTypeOK' /\ Counted' /\ (PromptMeansIdle => PromptMeansIdle')
<1>. DEFINE l == Head(inbox[c])
            count == Cardinality(queued_by(l.com, l.hl, c))
            pending == [ com |-> l.com, hl |-> l.hl, pending |-> count, error |-> FALSE ]
            Queued == /\ l.kind = "command" /\ ~busy(c) /\ count > 0
                      /\ dev_check_actions(l.com, l.hl) /\ dev_enqueue_actions(l.com, l.hl, c)
                      /\ cmd' = [ cmd EXCEPT ![c] = pending ]
                      /\ Respond(c, "none", FALSE)
                      /\ UNCHANGED quitting
            Response == \E code \in Responses, prompt \in BOOLEAN :
                      /\ prompt /\ code # "TOOLONG" => ~busy(c)
                      /\ Respond(c, code, prompt)
                      /\ UNCHANGED << vars, cmd >>
                      /\ quitting' \in [Clients -> BOOLEAN]
<1>1. l \in Lines /\ Tail(inbox[c]) \in Seq(Lines)
    BY DEF parse_input, ClientTypeOK
<1>2. /\ phase = "clients" /\ cstate[c] = "open"
      /\ inbox' = [ inbox EXCEPT ![c] = Tail(@) ]
      /\ UNCHANGED << cstate, hangup, typed >>
    BY DEF parse_input
<1>3. Queued \/ Response
    <2>1. quitting[c] \in BOOLEAN /\ quitting \in [Clients -> BOOLEAN]
        BY DEF ClientTypeOK
    <2>2. CASE l.kind = "toolong" /\ Respond(c, "TOOLONG", ~quitting[c])
               /\ UNCHANGED << vars, quitting, cmd >>
        <3>1. (~quitting[c]) \in BOOLEAN /\ "TOOLONG" \in Responses
            BY <2>1 DEF Responses
        <3>. QED  BY <2>1, <2>2, <3>1
    <2>3. CASE busy(c) /\ Respond(c, "BUSY", FALSE) /\ UNCHANGED << vars, quitting, cmd >>
        BY <2>1, <2>3 DEF Responses
    <2>4. CASE ~busy(c) /\ Respond(c, "INFO", ~quitting[c]) /\ UNCHANGED << vars, quitting, cmd >>
        <3>1. (~quitting[c]) \in BOOLEAN /\ "INFO" \in Responses
            BY <2>1 DEF Responses
        <3>. QED  BY <2>1, <2>4, <3>1
    <2>5. CASE /\ quitting' = [ quitting EXCEPT ![c] = TRUE ] /\ Respond(c, "QUIT", FALSE)
               /\ UNCHANGED << vars, cmd >>
        BY <2>1, <2>5 DEF Responses
    <2>6. CASE l.kind = "command" /\ ~busy(c) /\ parse_command(c, l) /\ UNCHANGED quitting
        <3>1. CASE Respond(c, "UNIMPL", ~quitting[c]) /\ UNCHANGED << vars, cmd >>
            <4>1. (~quitting[c]) \in BOOLEAN /\ "UNIMPL" \in Responses
                BY <2>1 DEF Responses
            <4>. QED  BY <2>1, <2>6, <3>1, <4>1
        <3>2. CASE /\ dev_check_actions(l.com, l.hl) /\ count > 0
                   /\ dev_enqueue_actions(l.com, l.hl, c)
                   /\ cmd' = [ cmd EXCEPT ![c] = pending ]
                   /\ Respond(c, "none", FALSE)
            BY <2>6, <3>2
        <3>. QED  BY <2>6, <3>1, <3>2 DEF parse_command
    <2>. QED  BY <2>2, <2>3, <2>4, <2>5, <2>6 DEF parse_input
<1>4. CASE Response
    <2>1. PICK code \in Responses, prompt \in BOOLEAN :
             /\ prompt /\ code # "TOOLONG" => ~busy(c)
             /\ Respond(c, code, prompt)
             /\ UNCHANGED << vars, cmd >>
             /\ quitting' \in [Clients -> BOOLEAN]
        BY <1>4
    <2>2. /\ reply' \in [Clients -> [ code : Responses, prompt : BOOLEAN, hl : SUBSET Nodes ]]
          /\ reply'[c].code = code /\ reply'[c].prompt = prompt
          /\ \A b \in Clients : b # c => reply'[b] = reply[b]
        BY <2>1, RespondType
    <2>3. ClientTypeOK'
        BY <1>1, <1>2, <2>1, <2>2 DEF ClientTypeOK
    <2>4. \A b \in Clients : queued(b)' = queued(b)
        BY <2>1, QueuedSame DEF vars
    <2>5. Counted'
        BY <1>2, <2>1, <2>4 DEF Counted
    <2>6. PromptMeansIdle => PromptMeansIdle'
        BY <1>2, <2>1, <2>2 DEF PromptMeansIdle, busy
    <2>. QED  BY <2>1, <2>3, <2>5, <2>6
<1>5. CASE Queued
    <2>1. l.com \in ClientComs /\ l.hl \in SUBSET Nodes \ {{}}
        BY <1>1, <1>5, ClientAssumption
    <2>2. queued(c) = {}
        <3>1. cmd[c] = NoCmd /\ cmd[c].pending = Cardinality(queued(c))
            BY <1>2, <1>5 DEF Counted, busy
        <3>2. Cardinality(queued(c)) = 0
            BY <3>1 DEF NoCmd
        <3>. QED  BY <3>2, QueuedType
    <2>3. \A d \in Devs : \A i \in DOMAIN acts[d] : acts[d][i].client # c
        <3>1. \A d \in Devs : \A i \in DOMAIN acts[d] :
                 acts[d][i].client = c => << d, i >> \in queued(c)
            BY DEF queued
        <3>. QED  BY <2>2, <3>1
    <2>4. ClientCommand
        BY <1>2, <1>5, <2>1, <2>3 DEF ClientCommand
    <2>5. Next
        BY <2>4 DEF Next
    <2>6. ASSUME TypeOK' PROVE ClientTypeOK' /\ Counted' /\ (PromptMeansIdle => PromptMeansIdle')
        <3>1. /\ Cardinality(queued(c)') = count /\ count \in Nat
              /\ \A b \in Clients : b # c => queued(b)' = queued(b)
            BY <1>5, <2>1, <2>2, <2>6, CommandCounts
        <3>2. pending \in Command /\ pending.pending = count
            BY <1>5, <2>1, <3>1 DEF Command
        <3>. HIDE DEF pending
        <3>3. /\ cmd' \in [Clients -> Command \cup {NoCmd}] /\ cmd'[c] = pending
              /\ \A b \in Clients : b # c => cmd'[b] = cmd[b]
            BY <1>5, <3>2 DEF ClientTypeOK
        <3>4. /\ reply' \in [Clients -> [ code : Responses, prompt : BOOLEAN, hl : SUBSET Nodes ]]
              /\ reply'[c].prompt = FALSE
              /\ \A b \in Clients : b # c => reply'[b] = reply[b]
            BY <1>5, RespondType DEF Responses
        <3>5. ClientTypeOK'
            BY <1>1, <1>2, <1>5, <3>3, <3>4 DEF ClientTypeOK
        <3>6. Counted'
            BY <1>2, <3>1, <3>2, <3>3 DEF Counted
        <3>7. PromptMeansIdle => PromptMeansIdle'
            BY <1>2, <3>3, <3>4 DEF PromptMeansIdle
        <3>. QED  BY <3>5, <3>6, <3>7
    <2>. QED  BY <2>5, <2>6
<1>. QED  BY <1>3, <1>4, <1>5

(***************************************************************************)
(* The steps of the daemon                                                 *)
(***************************************************************************)

(* A step of a device that is no command of a client calls back for what   *)
(* it takes from the queues.                                               *)
LEMMA NotInClients ==
    ASSUME TypeOK, LoginsAreOwn, Next, phase # "clients"
    PROVE  \E d \in Devs : Balanced(d)
<1>1. ~ClientCommand
    BY DEF ClientCommand
<1>. QED  BY <1>1, QueueStep

(* Every step of the daemon, its users and the world is a step of Device,  *)
(* or none of its business; and it keeps DaemonOK.                         *)
LEMMA DaemonStep ==
    ASSUME DaemonOK, [PNext]_allvars
    PROVE  [Next]_vars /\ DaemonOK' /\ (PromptMeansIdle => PromptMeansIdle')
<1>. DEFINE Goal == [Next]_vars /\ DaemonOK' /\ (PromptMeansIdle => PromptMeansIdle')
<1>. USE DEF DaemonOK
<1>1. ASSUME [Next]_vars PROVE TypeOK'
    BY <1>1, TypeStep
<1>2. ASSUME UNCHANGED vars PROVE LoginsAreOwn'
    BY <1>2 DEF vars, LoginsAreOwn
<1>3. ASSUME Next, phase # "clients", calls' = << >>, UNCHANGED client_vars
      PROVE  Goal
    <2>1. PICK d \in Devs : Balanced(d)
        BY <1>3, NotInClients
    <2>2. TypeOK' /\ LoginsAreOwn'
        BY <1>1, <1>3, QueueStep
    <2>3. ClientTypeOK' /\ Counted'
        BY <1>3, <2>1, <2>2, QuietStep
    <2>4. PromptMeansIdle => PromptMeansIdle'
        BY <1>3 DEF PromptMeansIdle, client_vars
    <2>. QED  BY <1>3, <2>2, <2>3, <2>4
<1>4. ASSUME UNCHANGED vars, ClientTypeOK', Counted', PromptMeansIdle => PromptMeansIdle'
      PROVE  Goal
    BY <1>1, <1>2, <1>4
<1>5. CASE InitialConnect
    BY <1>3, <1>5 DEF InitialConnect, dev_initial_connect, Next
<1>6. CASE Poll
    BY <1>3, <1>6 DEF Poll, PollReturns, Next
<1>7. CASE CliPostPoll
    <2>1. ASSUME NEW c \in Clients, create_client(c) \/ destroy_client(c) PROVE Goal
        BY <1>4, <2>1, CreateDestroyStep
    <2>2. ASSUME NEW c \in Clients, parse_input(c) PROVE Goal
        <3>1. [Next]_vars /\ TypeOK'
            BY <1>1, <2>2, ParseStep
        <3>2. ClientTypeOK' /\ Counted' /\ (PromptMeansIdle => PromptMeansIdle')
            BY <2>2, <3>1, ParseStep
        <3>3. LoginsAreOwn'
            BY <1>2, <3>1, QueueStep
        <3>. QED  BY <3>1, <3>2, <3>3
    <2>3. CASE ClientsDone /\ UNCHANGED client_vars
        <3>1. [Next]_vars /\ acts' = acts
            BY <2>3 DEF Next, ClientsDone
        <3>2. \A b \in Clients : queued(b)' = queued(b)
            BY <3>1, QueuedSame
        <3>3. ClientTypeOK' /\ Counted'
            BY <2>3, <3>2 DEF ClientTypeOK, Counted, client_vars
        <3>4. PromptMeansIdle => PromptMeansIdle'
            BY <2>3 DEF PromptMeansIdle, client_vars
        <3>5. LoginsAreOwn'
            BY <3>1 DEF LoginsAreOwn
        <3>. QED  BY <1>1, <3>1, <3>3, <3>4, <3>5
    <2>. QED  BY <1>7, <2>1, <2>2, <2>3 DEF CliPostPoll
<1>8. CASE DevPostPoll
    <2>1. PICK d \in Devs : Visit(d) \/ Process(d)
        BY <1>8 DEF DevPostPoll
    <2>2. Next /\ act_finish(calls')
        BY <1>8, <2>1 DEF DevPostPoll, Next
    <2>3. Balanced(d) /\ LoginsAreOwn'
        BY <2>1, VisitBalanced, ProcessBalanced
    <2>4. TypeOK'
        BY <1>1, <2>2
    <2>5. ClientTypeOK' /\ Counted' /\ (PromptMeansIdle => PromptMeansIdle')
        BY <2>2, <2>3, <2>4, FinishStep
    <2>. QED  BY <2>2, <2>3, <2>4, <2>5
<1>9. CASE Users
    BY <1>4, <1>9, UsersStep
<1>10. CASE World
    <2>1. PICK d \in Devs : Network(d) \/ Time(d)
        BY <1>10 DEF World
    <2>2. Next /\ UNCHANGED client_vars
        BY <1>10, <2>1 DEF World, Next
    <2>3. calls' = << >>
        BY <2>1 DEF Network, LinkOpens, LinkDrops, Answers, Time, StampExpires, DelayExpires,
           RetryExpires, PingFallsDue, Clock, Environment
    <2>4. phase # "clients"
        BY <2>1 DEF Network, LinkOpens, LinkDrops, Answers, Time, StampExpires, DelayExpires,
           RetryExpires, PingFallsDue, Clock, Processing
    <2>. QED  BY <1>3, <2>2, <2>3, <2>4
<1>11. CASE UNCHANGED allvars
    <2>1. UNCHANGED vars /\ UNCHANGED client_vars /\ acts' = acts
        BY <1>11 DEF allvars, vars
    <2>2. \A b \in Clients : queued(b)' = queued(b)
        BY <2>1, QueuedSame
    <2>. QED  BY <1>4, <2>1, <2>2 DEF ClientTypeOK, Counted, PromptMeansIdle, client_vars
<1>. QED  BY <1>5, <1>6, <1>7, <1>8, <1>9, <1>10, <1>11 DEF PNext, Daemon

(* The daemon starts as Device does, without clients.                      *)
LEMMA DaemonStarts ==
    ASSUME PInit
    PROVE  Init /\ DaemonOK /\ PromptMeansIdle
<1>1. Init /\ ClientInit
    BY DEF PInit
<1>2. TypeOK /\ LoginsAreOwn
    BY <1>1, TypeInit DEF Init, LoginsAreOwn, OwnLogins
<1>3. ClientTypeOK
    BY <1>1, ClientAssumption DEF ClientInit, ClientTypeOK, Responses
<1>4. Counted
    <2>1. \A c \in Clients : cstate[c] = "new" /\ cmd[c] = NoCmd
        BY <1>1 DEF ClientInit
    <2>2. \A c \in Clients : queued(c) = {}
        BY <1>1 DEF Init, queued
    <2>. QED  BY <2>1, <2>2, FS_EmptySet DEF Counted
<1>5. PromptMeansIdle
    BY <1>1 DEF ClientInit, PromptMeansIdle
<1>. QED  BY <1>1, <1>2, <1>3, <1>4, <1>5 DEF DaemonOK

(***************************************************************************)
(* What a command that succeeds has done                                   *)
(***************************************************************************)

(* Every device has, for what it implements, a script that is for the      *)
(* plugs of any command (the finding "skipped" is about others).           *)
NoneSkipped ==
    \A d \in Devs : \A com \in ClientComs :
        implements(d, com) =>
            com \in DOMAIN Scripts[d] \/ variant(d, com, RangedScript) # {} \/ com \in Query

(* A command that is accepted has an action for each of its plugs.         *)
LEMMA NewActsServe ==
    ASSUME NoneSkipped, NEW d \in Devs, NEW com \in ClientComs, NEW hl \in SUBSET Nodes,
           NEW c \in Clients, dev_check_actions(com, hl), NEW p \in targets(d, hl)
    PROVE  Serves(d, new_acts(d, com, hl, c), c, p)
<1>. DEFINE P == targets(d, hl)
            all == (P = Plugs(d) \/ com \in Query) /\ variant(d, com, AllScript) # {}
            new == enqueue_targetted_actions(d, com, hl, c)
<1>1. P \in SUBSET Plugs(d) /\ p \in Plugs(d)
    BY DEF targets
<1>2. implements(d, com) /\ new_acts(d, com, hl, c) = new
    BY DEF dev_check_actions, command_needs_device, new_acts
<1>3. ASSUME NEW name, NEW plugs, plugs = {} \/ p \in plugs
      PROVE  /\ create_action(d, name, plugs, c).client = c
             /\ << d, p >> \in addressed(d, outer(create_action(d, name, plugs, c)))
    <2>. DEFINE e == create_exec_ctx(Scripts[d][name], plugs)
    <2>1. create_action(d, name, plugs, c).client = c /\ e.plugs = plugs
          /\ create_action(d, name, plugs, c).exec = << e >>
        BY DEF create_action, create_exec_ctx
    <2>. HIDE DEF e
    <2>2. outer(create_action(d, name, plugs, c)) = e
        <3>1. Len(<< e >>) = 1 /\ << e >>[1] = e
            OBVIOUS
        <3>. QED  BY <2>1, <3>1 DEF outer
    <2>. QED  BY <1>1, <1>3, <2>1, <2>2 DEF addressed
<1>4. ASSUME NEW a, a.client = c, << d, p >> \in addressed(d, outer(a)), new = << a >>
      PROVE  Serves(d, new, c, p)
    <2>1. 1 \in DOMAIN << a >> /\ << a >>[1] = a
        OBVIOUS
    <2>. QED  BY <1>4, <2>1 DEF Serves
<1>5. CASE all
    <2>1. new = << create_action(d, AllScript[com], {}, c) >>
        BY <1>5 DEF enqueue_targetted_actions
    <2>. QED  BY <1>2, <1>3, <1>4, <2>1
<1>6. CASE ~all /\ variant(d, com, RangedScript) # {}
    <2>1. new = << create_action(d, RangedScript[com], P, c) >>
        BY <1>6 DEF enqueue_targetted_actions
    <2>. QED  BY <1>2, <1>3, <1>4, <2>1
<1>7. CASE ~all /\ variant(d, com, RangedScript) = {} /\ com \in DOMAIN Scripts[d]
    <2>. DEFINE a(i) == create_action(d, com, {nth_plug(P, i)}, c)
    <2>1. new = [ i \in 1..Cardinality(P) |-> a(i) ]
        BY <1>7 DEF enqueue_targetted_actions
    <2>2. plug_rank(P, p) \in 1..Cardinality(P) /\ nth_plug(P, plug_rank(P, p)) = p
        BY <1>1, NthPlugOf
    <2>3. a(plug_rank(P, p)).client = c /\ << d, p >> \in addressed(d, outer(a(plug_rank(P, p))))
        BY <1>3, <2>2
    <2>. HIDE DEF a
    <2>. QED  BY <1>2, <2>1, <2>2, <2>3 DEF Serves
<1>8. CASE ~all /\ variant(d, com, RangedScript) = {} /\ com \notin DOMAIN Scripts[d]
    BY <1>2, <1>8 DEF implements, NoneSkipped
<1>. QED  BY <1>5, <1>6, <1>7, <1>8

(* As long as a command has not failed, each of its plugs has been sent to *)
(* or has an action queued; and one that succeeded has sent to all.        *)
Promised(c) ==
    cstate[c] = "open" /\ cmd[c] # NoCmd /\ ~cmd[c].error =>
        \A d \in Devs : \A p \in targets(d, cmd[c].hl) :
            << d, p >> \in delivered[c] \/ Serves(d, acts[d], c, p)

Fulfilled(c) == reply[c].code = "OK" => named(reply[c].hl) \subseteq delivered[c]

AllServed == \A c \in Clients : Promised(c) /\ Fulfilled(c)

(* A step that leaves a client, its command and its response alone.        *)
LEMMA ServedKept ==
    ASSUME NEW c \in Clients, Promised(c), Fulfilled(c), \A d \in Devs : GoesForPlugs(d),
           delivered[c] \subseteq delivered'[c], ~ToldOfFailure(c),
           cmd'[c] = cmd[c], reply'[c] = reply[c],
           cstate'[c] = cstate[c] \/ cstate'[c] # "open" \/ cmd[c] = NoCmd
    PROVE  Promised(c)' /\ Fulfilled(c)'
<1>1. ASSUME cstate'[c] = "open", cmd[c] # NoCmd, ~cmd[c].error, NEW d \in Devs,
             NEW p \in targets(d, cmd[c].hl)
      PROVE  << d, p >> \in delivered'[c] \/ Serves(d, acts'[d], c, p)
    <2>1. << d, p >> \in delivered[c] \/ Serves(d, acts[d], c, p)
        BY <1>1 DEF Promised
    <2>2. p \in Plugs(d)
        BY DEF targets
    <2>. QED  BY <2>1, <2>2 DEF GoesForPlugs
<1>2. Promised(c)'
    BY <1>1 DEF Promised, Serves, addressed, outer, targets, Plugs
<1>3. Fulfilled(c)'
    BY DEF Fulfilled, named, targets, Plugs
<1>. QED  BY <1>2, <1>3

(* What the callbacks of a step make of it: a command is answered with     *)
(* success if nothing failed and nothing is queued any more.               *)
LEMMA FinishServed ==
    ASSUME TypeOK, TypeOK', ClientTypeOK, ClientTypeOK', Counted', AllServed,
           \A d \in Devs : GoesForPlugs(d),
           \A c \in Clients : delivered[c] \subseteq delivered'[c], act_finish(calls')
    PROVE  AllServed'
<1>. SUFFICES ASSUME NEW c \in Clients PROVE Promised(c)' /\ Fulfilled(c)'
    BY DEF AllServed
<1>. DEFINE count == Cardinality(finished(c, calls'))
            failed == cmd[c].error
                        \/ \E i \in finished(c, calls') : calls'[i].err # "ESUCCESS"
            found == cstate[c] = "open" /\ finished(c, calls') # {}
            left == [ cmd[c] EXCEPT !.pending = @ - count, !.error = failed ]
            answer == [ code |-> IF failed THEN "ERROR" ELSE "OK",
                        prompt |-> TRUE, hl |-> cmd[c].hl ]
<1>1. /\ cmd'[c] = IF ~found THEN cmd[c] ELSE IF count = cmd[c].pending THEN NoCmd ELSE left
      /\ reply'[c] = IF found /\ count = cmd[c].pending THEN answer ELSE reply[c]
      /\ cstate'[c] = cstate[c]
    BY DEF act_finish
<1>2. Promised(c) /\ Fulfilled(c) /\ delivered[c] \subseteq delivered'[c]
    BY DEF AllServed
<1>3. ToldOfFailure(c) => finished(c, calls') # {} /\ failed
    BY DEF ToldOfFailure, finished
<1>4. ASSUME ~failed, cstate[c] = "open", cmd[c] # NoCmd, NEW d \in Devs, NEW p \in targets(d, cmd[c].hl)
      PROVE  << d, p >> \in delivered'[c] \/ Serves(d, acts'[d], c, p)
    <2>1. << d, p >> \in delivered[c] \/ Serves(d, acts[d], c, p)
        BY <1>2, <1>4 DEF Promised
    <2>2. p \in Plugs(d)
        BY DEF targets
    <2>. QED  BY <1>2, <1>3, <1>4, <2>1, <2>2 DEF GoesForPlugs
<1>. HIDE DEF failed
<1>5. CASE ~found
    <2>1. cstate[c] = "open" => ~ToldOfFailure(c)
        BY <1>3, <1>5
    <2>2. CASE cstate[c] = "open"
        BY <1>1, <1>2, <1>5, <2>1, <2>2, ServedKept
    <2>3. CASE cstate[c] # "open"
        <3>1. Promised(c)'
            BY <1>1, <2>3 DEF Promised
        <3>2. Fulfilled(c)'
            BY <1>1, <1>2, <1>5 DEF Fulfilled, named, targets, Plugs
        <3>. QED  BY <3>1, <3>2
    <2>. QED  BY <2>2, <2>3
<1>6. CASE found /\ count = cmd[c].pending
    <2>1. cmd'[c] = NoCmd /\ reply'[c] = answer
        BY <1>1, <1>6
    <2>2. Promised(c)'
        BY <2>1 DEF Promised
    <2>3. cmd[c] # NoCmd
        <3>1. calls' \in Seq([client : Callers, err : ActErrors])
            BY DEF TypeOK, LoopTypeOK
        <3>2. IsFiniteSet(finished(c, calls'))
            BY <3>1, HeldType DEF finished, of_client
        <3>3. count # 0
            BY <1>6, <3>2, FS_EmptySet
        <3>. QED  BY <1>6, <3>3 DEF NoCmd
    <2>4. queued(c)' = {}
        <3>1. cmd'[c].pending = Cardinality(queued(c)') /\ NoCmd.pending = 0
            BY <1>1, <1>6 DEF Counted, NoCmd
        <3>2. 1 \in Devs /\ \A e \in Devs : acts'[e] \in Seq(Action(e))
            BY DeviceAssumption DEF Devs, TypeOK, QueueTypeOK
        <3>3. queued(c)' = placed(acts', c)
            BY DEF queued, placed, of_client
        <3>4. IsFiniteSet(queued(c)')
            BY <3>2, <3>3, PlacedSplit
        <3>. QED  BY <2>1, <3>1, <3>4, FS_EmptySet
    <2>5. ASSUME NEW d \in Devs, NEW p PROVE ~Serves(d, acts'[d], c, p)
        <3>1. \A i \in DOMAIN acts'[d] : acts'[d][i].client = c => << d, i >> \in queued(c)'
            BY DEF queued
        <3>. QED  BY <2>4, <3>1 DEF Serves
    <2>6. ASSUME reply'[c].code = "OK" PROVE named(reply'[c].hl) \subseteq delivered'[c]
        <3>1. ~failed /\ reply'[c].hl = cmd[c].hl
            BY <2>1, <2>6
        <3>2. \A d \in Devs : \A p \in targets(d, cmd[c].hl) : << d, p >> \in delivered'[c]
            BY <1>4, <1>6, <2>3, <2>5, <3>1
        <3>. QED  BY <3>1, <3>2 DEF named
    <2>7. Fulfilled(c)'
        BY <2>6 DEF Fulfilled, named, targets, Plugs
    <2>. QED  BY <2>2, <2>7
<1>7. CASE found /\ count # cmd[c].pending
    <2>1. cmd'[c] = left /\ reply'[c] = reply[c]
        BY <1>1, <1>7
    <2>2. Fulfilled(c)'
        BY <1>2, <2>1 DEF Fulfilled, named, targets, Plugs
    <2>3. left.com = cmd[c].com /\ left.hl = cmd[c].hl /\ left.error = failed
        <3>1. cmd[c] \in Command \/ cmd[c] = NoCmd
            BY DEF ClientTypeOK
        <3>. QED  BY <3>1 DEF Command, NoCmd
    <2>4. left # NoCmd => cmd[c] # NoCmd
        <3>1. left \in Command \/ left = NoCmd
            BY <2>1 DEF ClientTypeOK
        <3>2. NoCmd.com = "none" /\ "none" \notin ClientComs
            BY DEF NoCmd, ClientComs, AllScript, RangedScript
        <3>3. left \in Command => left.com \in ClientComs
            BY DEF Command
        <3>. HIDE DEF left
        <3>. QED  BY <2>3, <3>1, <3>2, <3>3
    <2>. HIDE DEF left
    <2>5. Promised(c)'
        BY <1>4, <1>7, <2>1, <2>3, <2>4 DEF Promised, Serves, addressed, outer, targets, Plugs
    <2>. QED  BY <2>2, <2>5
<1>. QED  BY <1>5, <1>6, <1>7

(* A step the devices have no part in, of a client whose command is what   *)
(* it was, or that has none.                                               *)
LEMMA ServedSame ==
    ASSUME UNCHANGED vars, NEW c \in Clients, Promised(c), Fulfilled(c),
           cmd'[c] = cmd[c] \/ cmd'[c] = NoCmd,
           reply'[c] = reply[c] \/ reply'[c].code # "OK",
           cstate'[c] = cstate[c] \/ cstate'[c] # "open" \/ cmd'[c] = NoCmd
    PROVE  Promised(c)' /\ Fulfilled(c)'
<1>1. acts' = acts /\ delivered' = delivered
    BY DEF vars, wire
<1>2. Promised(c)'
    BY <1>1 DEF Promised, Serves, addressed, outer, targets, Plugs
<1>3. Fulfilled(c)'
    BY <1>1 DEF Fulfilled, named, targets, Plugs
<1>. QED  BY <1>2, <1>3

(* A command that is accepted: its plugs have their actions, and those of  *)
(* the other clients stay.                                                 *)
LEMMA CommandServed ==
    ASSUME NoneSkipped, TypeOK, ClientTypeOK, AllServed,
           NEW com \in ClientComs, NEW hl \in SUBSET Nodes, NEW c \in Clients,
           dev_check_actions(com, hl), dev_enqueue_actions(com, hl, c),
           cmd'[c].hl = hl, reply'[c].code # "OK", cstate' = cstate,
           \A b \in Clients : b # c => cmd'[b] = cmd[b] /\ reply'[b] = reply[b]
    PROVE  AllServed'
<1>. SUFFICES ASSUME NEW b \in Clients PROVE Promised(b)' /\ Fulfilled(b)'
    BY DEF AllServed
<1>1. ASSUME NEW d \in Devs
      PROVE  /\ acts[d] \in Seq(Action(d)) /\ new_acts(d, com, hl, c) \in Seq(Action(d))
             /\ acts'[d] = acts[d] \o new_acts(d, com, hl, c)
    BY NewActsType DEF dev_enqueue_actions, TypeOK, QueueTypeOK
<1>2. CASE b = c
    <2>1. ASSUME NEW d \in Devs, NEW p \in targets(d, hl)
          PROVE  Serves(d, acts'[d], c, p)
        <3>. DEFINE new == new_acts(d, com, hl, c)
        <3>1. Serves(d, new, c, p)
            BY <2>1, NewActsServe
        <3>. HIDE DEF new
        <3>2. PICK i \in DOMAIN new : new[i].client = c /\ << d, p >> \in addressed(d, outer(new[i]))
            BY <3>1 DEF Serves
        <3>3. acts[d] \in Seq(Action(d)) /\ new \in Seq(Action(d)) /\ acts'[d] = acts[d] \o new
            BY <1>1 DEF new
        <3>4. Len(acts[d]) + i \in DOMAIN (acts[d] \o new) /\ (acts[d] \o new)[Len(acts[d]) + i] = new[i]
            BY <3>2, <3>3
        <3>. QED  BY <3>2, <3>3, <3>4 DEF Serves
    <2>2. Promised(b)'
        BY <1>2, <2>1 DEF Promised, Serves, addressed, outer, targets, Plugs
    <2>3. Fulfilled(b)'
        BY <1>2 DEF Fulfilled
    <2>. QED  BY <2>2, <2>3
<1>3. CASE b # c
    <2>1. \A d \in Devs : GoesForPlugs(d)
        BY <1>1, ConcatKeeps, KeepsServes
    <2>2. delivered'[b] = delivered[b] /\ ~ToldOfFailure(b)
        BY <1>3 DEF dev_enqueue_actions, ToldOfFailure
    <2>3. Promised(b) /\ Fulfilled(b)
        BY DEF AllServed
    <2>. QED  BY <1>3, <2>1, <2>2, <2>3, ServedKept
<1>. QED  BY <1>2, <1>3

(* Every step of the daemon, its users and the world.                      *)
LEMMA ServedStep ==
    ASSUME AnswersAwaited, FirstIsSend, NoneSkipped, DaemonOK, AllInStep, QueuesInOrder,
           HeadsHaveSent, AllServed, [PNext]_allvars
    PROVE  AllServed'
<1>1. [Next]_vars /\ DaemonOK' /\ TypeOK /\ TypeOK' /\ ClientTypeOK /\ ClientTypeOK'
      /\ Counted /\ Counted'
    BY DaemonStep DEF DaemonOK
<1>2. \A d \in Devs : GoesForPlugs(d)
    BY <1>1, ServeStep
<1>3. ASSUME phase # "clients", NEW c \in Clients PROVE delivered[c] \subseteq delivered'[c]
    BY <1>1, <1>3, HistoriesGrow DEF ClientCommand
<1>4. ASSUME phase # "clients", calls' = << >>, UNCHANGED client_vars PROVE AllServed'
    <2>. SUFFICES ASSUME NEW c \in Clients PROVE Promised(c)' /\ Fulfilled(c)'
        BY DEF AllServed
    <2>1. ~ToldOfFailure(c) /\ Promised(c) /\ Fulfilled(c)
        BY <1>4 DEF ToldOfFailure, AllServed
    <2>2. cmd'[c] = cmd[c] /\ reply'[c] = reply[c] /\ cstate'[c] = cstate[c]
        BY <1>4 DEF client_vars
    <2>. QED  BY <1>2, <1>3, <1>4, <2>1, <2>2, ServedKept
<1>5. ASSUME UNCHANGED vars,
             \A c \in Clients : /\ cmd'[c] = cmd[c] \/ cmd'[c] = NoCmd
                                /\ reply'[c] = reply[c] \/ reply'[c].code # "OK"
                                /\ cstate'[c] = cstate[c] \/ cstate'[c] # "open" \/ cmd'[c] = NoCmd
      PROVE  AllServed'
    BY <1>5, ServedSame DEF AllServed
<1>6. CASE InitialConnect
    BY <1>4, <1>6 DEF InitialConnect, dev_initial_connect
<1>7. CASE Poll
    BY <1>4, <1>7 DEF Poll, PollReturns
<1>8. CASE CliPostPoll
    <2>1. ASSUME NEW c \in Clients, create_client(c) PROVE AllServed'
        <3>1. UNCHANGED << vars, cmd >> /\ Respond(c, "INFO", TRUE)
              /\ \A b \in Clients : b # c => cstate'[b] = cstate[b]
            BY <1>1, <2>1 DEF create_client, ClientTypeOK
        <3>2. reply'[c].code = "INFO" /\ \A b \in Clients : b # c => reply'[b] = reply[b]
            BY <1>1, <3>1, RespondType DEF Responses
        <3>3. cmd'[c] = NoCmd
            BY <1>1, <2>1, <3>1 DEF create_client, Counted
        <3>. QED  BY <1>5, <3>1, <3>2, <3>3
    <2>2. ASSUME NEW c \in Clients, destroy_client(c) PROVE AllServed'
        <3>1. UNCHANGED << vars, reply >> /\ cmd'[c] = NoCmd
              /\ \A b \in Clients : b # c => cmd'[b] = cmd[b] /\ cstate'[b] = cstate[b]
            BY <1>1, <2>2 DEF destroy_client, ClientTypeOK
        <3>. QED  BY <1>5, <3>1
    <2>3. ASSUME NEW c \in Clients, parse_input(c) PROVE AllServed'
        <3>. DEFINE l == Head(inbox[c])
        <3>1. l \in Lines /\ cstate' = cstate
            BY <1>1, <2>3 DEF parse_input, ClientTypeOK
        <3>2. ASSUME UNCHANGED << vars, cmd >>, NEW code \in Responses \ {"OK"},
                     NEW prompt \in BOOLEAN, Respond(c, code, prompt)
              PROVE  AllServed'
            <4>1. reply'[c].code = code /\ \A b \in Clients : b # c => reply'[b] = reply[b]
                BY <1>1, <3>2, RespondType
            <4>. QED  BY <1>5, <3>1, <3>2, <4>1
        <3>3. quitting[c] \in BOOLEAN /\ (~quitting[c]) \in BOOLEAN
            BY <1>1 DEF ClientTypeOK
        <3>4. {"TOOLONG", "BUSY", "INFO", "QUIT", "UNIMPL", "none"} \subseteq Responses \ {"OK"}
            BY DEF Responses
        <3>5. CASE l.kind = "command" /\ parse_command(c, l)
            <4>1. CASE Respond(c, "UNIMPL", ~quitting[c]) /\ UNCHANGED << vars, cmd >>
                BY <3>2, <3>3, <3>4, <4>1
            <4>2. CASE /\ dev_check_actions(l.com, l.hl) /\ dev_enqueue_actions(l.com, l.hl, c)
                       /\ Respond(c, "none", FALSE)
                       /\ cmd' = [ cmd EXCEPT ![c] =
                             [ com |-> l.com, hl |-> l.hl,
                               pending |-> Cardinality(queued_by(l.com, l.hl, c)),
                               error |-> FALSE ] ]
                <5>1. l.com \in ClientComs /\ l.hl \in SUBSET Nodes
                    BY <3>1, <3>5, ClientAssumption
                <5>2. cmd'[c].hl = l.hl /\ \A b \in Clients : b # c => cmd'[b] = cmd[b]
                    BY <1>1, <4>2 DEF ClientTypeOK
                <5>3. reply'[c].code = "none" /\ \A b \in Clients : b # c => reply'[b] = reply[b]
                    BY <1>1, <3>4, <4>2, RespondType
                <5>4. dev_check_actions(l.com, l.hl) /\ dev_enqueue_actions(l.com, l.hl, c)
                    BY <4>2
                <5>. HIDE DEF l
                <5>. QED  BY <1>1, <3>1, <5>1, <5>2, <5>3, <5>4, CommandServed
            <4>. QED  BY <3>5, <4>1, <4>2 DEF parse_command
        <3>6. CASE l.kind = "toolong" /\ Respond(c, "TOOLONG", ~quitting[c]) /\ UNCHANGED << vars, cmd >>
            BY <3>2, <3>3, <3>4, <3>6
        <3>7. CASE Respond(c, "BUSY", FALSE) /\ UNCHANGED << vars, cmd >>
            BY <3>2, <3>4, <3>7
        <3>8. CASE Respond(c, "INFO", ~quitting[c]) /\ UNCHANGED << vars, cmd >>
            BY <3>2, <3>3, <3>4, <3>8
        <3>9. CASE Respond(c, "QUIT", FALSE) /\ UNCHANGED << vars, cmd >>
            BY <3>2, <3>4, <3>9
        <3>. QED  BY <2>3, <3>5, <3>6, <3>7, <3>8, <3>9 DEF parse_input
    <2>4. CASE ClientsDone /\ UNCHANGED client_vars
        <3>1. delivered' = delivered /\ calls' = << >>
            BY <2>4 DEF ClientsDone, wire
        <3>2. \A c \in Clients : ~ToldOfFailure(c)
            BY <3>1 DEF ToldOfFailure
        <3>3. cmd' = cmd /\ reply' = reply /\ cstate' = cstate
            BY <2>4 DEF client_vars
        <3>4. \A c \in Clients : Promised(c)' /\ Fulfilled(c)'
            BY <1>2, <3>1, <3>2, <3>3, ServedKept DEF AllServed
        <3>. QED  BY <3>4 DEF AllServed
    <2>. QED  BY <1>8, <2>1, <2>2, <2>3, <2>4 DEF CliPostPoll
<1>9. CASE DevPostPoll
    <2>3. PICK d \in Devs : Visit(d) \/ Process(d)
        BY <1>9 DEF DevPostPoll
    <2>1. phase # "clients" /\ act_finish(calls')
        <3>1. CASE Visit(d)
            BY <1>9, <3>1 DEF DevPostPoll, Visit, VisitUnconnected, VisitFinishConnect,
               VisitConnected, VisitConnecting
        <3>2. CASE Process(d)
            BY <1>9, <3>2 DEF DevPostPoll, Process, ProcessIdle, ProcessTimeout,
               ProcessUnconnected, Statement, process_send, process_expect, process_delay,
               process_setplugstate, process_foreach, process_ifonoff, Executes, Processing
        <3>. QED  BY <2>3, <3>1, <3>2
    <2>2. \A c \in Clients : delivered[c] \subseteq delivered'[c]
        BY <1>3, <2>1
    <2>. QED  BY <1>1, <1>2, <2>1, <2>2, FinishServed
<1>10. CASE Users
    <2>1. PICK c \in Clients : Connects(c) \/ Types(c) \/ HangsUp(c)
        BY <1>10 DEF Users
    <2>2. UNCHANGED << vars, cmd, reply >>
        BY <2>1 DEF Connects, Types, HangsUp
    <2>3. \A b \in Clients : cstate'[b] = cstate[b] \/ cstate'[b] # "open"
        BY <1>1, <2>1 DEF Connects, Types, HangsUp, ClientTypeOK
    <2>. QED  BY <1>5, <2>2, <2>3
<1>11. CASE World
    <2>1. PICK d \in Devs : Network(d) \/ Time(d)
        BY <1>11 DEF World
    <2>2. calls' = << >>
        BY <2>1 DEF Network, LinkOpens, LinkDrops, Answers, Time, StampExpires, DelayExpires,
           RetryExpires, PingFallsDue, Clock, Environment
    <2>3. phase # "clients"
        BY <2>1 DEF Network, LinkOpens, LinkDrops, Answers, Time, StampExpires, DelayExpires,
           RetryExpires, PingFallsDue, Clock, Processing
    <2>. QED  BY <1>4, <1>11, <2>2, <2>3 DEF World
<1>12. CASE UNCHANGED allvars
    BY <1>5, <1>12 DEF allvars, vars, client_vars
<1>. QED  BY <1>6, <1>7, <1>8, <1>9, <1>10, <1>11, <1>12 DEF PNext, Daemon

(***************************************************************************)
(* Theorems                                                                *)
(***************************************************************************)

(* DaemonOK is an invariant of the daemon.                                 *)
LEMMA DaemonStaysOK == PSpec => [](DaemonOK /\ PromptMeansIdle)
<1>1. PInit => DaemonOK /\ PromptMeansIdle
    BY DaemonStarts
<1>2. DaemonOK /\ PromptMeansIdle /\ [PNext]_allvars => (DaemonOK /\ PromptMeansIdle)'
    BY DaemonStep
<1>. QED  BY <1>1, <1>2, PTL DEF PSpec

(* The commands, responses and connections of the clients keep their       *)
(* types: a command in progress waits for at least one action.             *)
THEOREM ClientsTyped == PSpec => []ClientTypeOK
BY DaemonStaysOK, PTL DEF DaemonOK

(* A command waits for exactly the actions it has queued, for any number   *)
(* of clients and devices, and any scripts: it is answered when the last   *)
(* of them calls back, and no callback finds a client without a command.   *)
THEOREM CommandsWaitForTheirActions == PSpec => []PendingExact
<1>1. DaemonOK => PendingExact
    BY DEF DaemonOK, Counted, PendingExact
<1>. QED  BY <1>1, DaemonStaysOK, PTL

(* A prompt is sent to clients without a command in progress only, but for *)
(* a line that is too long.                                                *)
THEOREM PromptsMeanIdle == PSpec => []PromptMeansIdle
BY DaemonStaysOK, PTL

(* The daemon with its clients implements Device: every step of it is a    *)
(* step of Device, or leaves the devices alone.  So what is proved of Spec *)
(* holds of the daemon.                                                    *)
THEOREM DaemonServesDevices == PSpec => DevicesAsSpecified
<1>1. PInit => Init
    BY DaemonStarts
<1>2. DaemonOK /\ [PNext]_allvars => [Next]_vars
    BY DaemonStep
<1>. QED  BY <1>1, <1>2, DaemonStaysOK, PTL DEF PSpec, Spec, DevicesAsSpecified
(* A command that is answered "Command completed successfully" was         *)
(* transmitted for every plug of every node it names: when no script sends *)
(* again before it has the answer to the send before, scripts for plugs    *)
(* begin with their send, and no device leaves plugs out.                  *)
THEOREM SuccessIsDelivered ==
    ASSUME AnswersAwaited, FirstIsSend, NoneSkipped
    PROVE  PSpec => []SuccessDelivered
<1>. DEFINE DeviceOK == AllInStep /\ QueuesInOrder /\ HeadsHaveSent
<1>1. Spec => []DeviceOK
    BY HeadsSend, PTL
<1>2. PSpec => []DeviceOK
    BY <1>1, DaemonServesDevices DEF DevicesAsSpecified
<1>3. PInit => AllServed
    <2>. SUFFICES ASSUME PInit, NEW c \in Clients PROVE Promised(c) /\ Fulfilled(c)
        BY DEF AllServed
    <2>1. cmd[c] = NoCmd /\ reply[c].code = "none"
        BY DEF PInit, ClientInit
    <2>. QED  BY <2>1 DEF Promised, Fulfilled
<1>4. DaemonOK /\ DeviceOK /\ AllServed /\ [PNext]_allvars => AllServed'
    BY ServedStep
<1>5. AllServed => SuccessDelivered
    BY DEF AllServed, Fulfilled, SuccessDelivered
<1>. QED  BY <1>2, <1>3, <1>4, <1>5, DaemonStaysOK, PTL DEF PSpec
=============================================================================
