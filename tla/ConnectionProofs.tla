-------------------------- MODULE ConnectionProofs --------------------------
(***************************************************************************)
(* Proofs about Connection, for any devices, addresses and outcomes of the *)
(* attempts to connect: every device that is connected holds a descriptor  *)
(* of its own, and nothing is left open but what tcp devices leave behind  *)
(* on their way through their addresses.  And about Telnet: however a      *)
(* stream is cut into reads, the scripts see its data, and the options     *)
(* that are asked for are answered.                                        *)
(***************************************************************************)
EXTENDS Connection, Telnet, FoldLemmas

(* The least of two numbers.                                               *)
LEMMA MinOfTwo ==
    ASSUME NEW a \in Nat, NEW b \in Nat
    PROVE  Min({ a, b }) = IF a <= b THEN a ELSE b
BY DEF Min

(***************************************************************************)
(* The inductive invariant, of a state as a record                         *)
(***************************************************************************)
Links == { "progress", "up", "eof", "reset" }

ConnData ==
    [ state : { "not_connected", "connecting", "connected" }, fd : Int, cur : 1..NOADDR,
      retry_count : 0..MaxRetries, elapsed : Nat ]

(* The values a state takes.                                               *)
Data(w) ==
    /\ DOMAIN w = { "conn", "opened", "children", "leaked", "aborted" }
    /\ w.conn \in [Devs -> ConnData]
    /\ DOMAIN w.opened \subseteq Nat \ {0} /\ IsFiniteSet(DOMAIN w.opened)
    /\ \A fd \in DOMAIN w.opened : w.opened[fd] \in [ dev : Devs, link : Links ]
    /\ w.children \in [Devs -> Nat]

Holders(w) == { d \in Devs : w.conn[d].state # "not_connected" }

(* The devices in H hold descriptors of their own, that are not left       *)
(* behind; and what is open is theirs, or left behind.                     *)
Hold(w, H) ==
    /\ \A d \in H : /\ w.conn[d].fd \in DOMAIN w.opened /\ w.conn[d].fd \notin w.leaked
                    /\ w.opened[w.conn[d].fd].dev = d
    /\ DOMAIN w.opened = { w.conn[d].fd : d \in H } \cup w.leaked

(* Only tcp devices are in between.                                        *)
OnlyTcpConnects(w) == \A d \in Devs : w.conn[d].state = "connecting" => method[d] = "tcp"

Kids(w) == \A d \in Devs :
    w.children[d] = IF method[d] = "pipe" /\ d \in Holders(w) THEN 1 ELSE 0

Sound(w) == Data(w) /\ Hold(w, Holders(w)) /\ OnlyTcpConnects(w) /\ Kids(w)

(* A number that is handed out was free.                                   *)
LEMMA NewFdType ==
    ASSUME NEW w, Data(w)
    PROVE  new_fd(w) \in Nat \ {0} /\ new_fd(w) \notin DOMAIN w.opened
<1>. DEFINE D == DOMAIN w.opened
            n == Cardinality(D)
            free == (1..n + 1) \ D
<1>1. IsFiniteSet(D) /\ n \in Nat
    BY FS_CardinalityType DEF Data
<1>2. IsFiniteSet(1..n + 1) /\ Cardinality(1..n + 1) = n + 1
    BY <1>1, FS_Interval
<1>. HIDE DEF D
<1>3. free # {}
    <2>. SUFFICES ASSUME 1..n + 1 \in SUBSET D PROVE FALSE
        OBVIOUS
    <2>1. Cardinality(1..n + 1) <= n
        BY <1>1, FS_Subset
    <2>. QED  BY <1>1, <1>2, <2>1
<1>4. free \in SUBSET (1..n + 1) /\ free \in SUBSET Int
    BY <1>1
<1>5. IsFiniteSet(free)
    BY <1>2, <1>4, FS_Subset
<1>6. Min(free) \in free
    BY <1>3, <1>4, <1>5, MinMaxType
<1>7. new_fd(w) = Min(free)
    BY DEF new_fd, D
<1>. QED  BY <1>1, <1>4, <1>6, <1>7 DEF D

(* A device that has no descriptor, or leaves it behind, gets one.         *)
LEMMA OpensSound ==
    ASSUME NEW w, Data(w), NEW d \in Devs, Hold(w, Holders(w) \ {d}), OnlyTcpConnects(w),
           NEW state \in { "connecting", "connected" }, state = "connecting" => method[d] = "tcp",
           NEW status \in Links
    PROVE  LET v == opens(w, d, state, status)
           IN /\ Data(v) /\ Hold(v, Holders(v)) /\ OnlyTcpConnects(v)
              /\ v.children = w.children /\ Holders(v) = Holders(w) \cup {d}
<1>. DEFINE fd == new_fd(w)
            v == opens(w, d, state, status)
<1>1. fd \in Nat \ {0} /\ fd \notin DOMAIN w.opened
    BY NewFdType
<1>. HIDE DEF fd
<1>2. /\ DOMAIN v = DOMAIN w /\ v.children = w.children /\ v.leaked = w.leaked
      /\ v.opened = [ g \in DOMAIN w.opened \cup {fd} |->
                         IF g = fd THEN [ dev |-> d, link |-> status ] ELSE w.opened[g] ]
      /\ v.conn = [ w.conn EXCEPT ![d].fd = fd, ![d].state = state ]
    BY DEF opens, Data, fd
<1>. HIDE DEF v
<1>3. /\ v.conn \in [Devs -> ConnData] /\ v.conn[d].fd = fd /\ v.conn[d].state = state
      /\ \A e \in Devs \ {d} : v.conn[e] = w.conn[e]
    BY <1>1, <1>2 DEF Data, ConnData
<1>4. /\ DOMAIN v.opened = DOMAIN w.opened \cup {fd}
      /\ v.opened[fd] = [ dev |-> d, link |-> status ]
      /\ \A g \in DOMAIN w.opened : v.opened[g] = w.opened[g]
    BY <1>1, <1>2
<1>5. Data(v)
    <2>1. IsFiniteSet(DOMAIN v.opened)
        BY <1>4, FS_AddElement DEF Data
    <2>. QED  BY <1>1, <1>2, <1>3, <1>4, <2>1 DEF Data
<1>6. Holders(v) = Holders(w) \cup {d}
    BY <1>3 DEF Holders
<1>7. Hold(v, Holders(v))
    <2>1. \A e \in Holders(v) : e = d \/ e \in Holders(w) \ {d}
        BY <1>6
    <2>2. \A e \in Holders(w) \ {d} : e \in Devs /\ v.conn[e].fd = w.conn[e].fd
        BY <1>3 DEF Holders
    <2>3. fd \notin w.leaked
        BY <1>1 DEF Hold
    <2>4. ASSUME NEW e \in Holders(v)
          PROVE  /\ v.conn[e].fd \in DOMAIN v.opened /\ v.conn[e].fd \notin v.leaked
                 /\ v.opened[v.conn[e].fd].dev = e
        <3>1. CASE e = d
            BY <1>2, <1>3, <1>4, <2>3, <3>1
        <3>2. CASE e # d
            <4>1. e \in Holders(w) \ {d} /\ v.conn[e].fd = w.conn[e].fd
                BY <2>1, <2>2, <3>2
            <4>2. /\ w.conn[e].fd \in DOMAIN w.opened /\ w.conn[e].fd \notin w.leaked
                  /\ w.opened[w.conn[e].fd].dev = e
                BY <4>1 DEF Hold
            <4>. QED  BY <1>2, <1>4, <4>1, <4>2
        <3>. QED  BY <3>1, <3>2
    <2>5. DOMAIN v.opened = { v.conn[e].fd : e \in Holders(v) } \cup v.leaked
        <3>1. { v.conn[e].fd : e \in Holders(v) } = { w.conn[e].fd : e \in Holders(w) \ {d} } \cup {fd}
            BY <1>3, <1>6, <2>2
        <3>. QED  BY <1>2, <1>4, <3>1 DEF Hold
    <2>. QED  BY <2>4, <2>5 DEF Hold
<1>8. OnlyTcpConnects(v)
    BY <1>3 DEF OnlyTcpConnects
<1>. QED  BY <1>2, <1>5, <1>6, <1>7, <1>8 DEF v

(* A device that has no descriptor, or leaves it behind, is not connected. *)
LEMMA LeftSound ==
    ASSUME NEW w, Data(w), NEW d \in Devs, Hold(w, Holders(w) \ {d}), OnlyTcpConnects(w),
           NEW v, Data(v), v.opened = w.opened, v.leaked = w.leaked,
           v.conn[d].state = "not_connected",
           \A e \in Devs \ {d} : v.conn[e] = w.conn[e]
    PROVE  /\ Hold(v, Holders(v)) /\ OnlyTcpConnects(v)
           /\ Holders(v) = Holders(w) \ {d}
<1>1. Holders(v) = Holders(w) \ {d}
    BY DEF Holders
<1>2. \A e \in Holders(v) : v.conn[e].fd = w.conn[e].fd
    BY <1>1 DEF Holders
<1>. QED  BY <1>1, <1>2 DEF Hold, OnlyTcpConnects

(* The numbers that are handed out were free; if any are, the greatest is  *)
(* one of them.                                                            *)
LEMMA NewFdsType ==
    ASSUME NEW w, Data(w), NEW n \in Nat
    PROVE  /\ new_fds(w, n) \in SUBSET (Nat \ {0}) /\ IsFiniteSet(new_fds(w, n))
           /\ new_fds(w, n) \cap DOMAIN w.opened = {}
           /\ n > 0 => Max(new_fds(w, n)) \in Nat \ {0}
<1>. DEFINE D == DOMAIN w.opened
            m == Cardinality(D) + n
            free == (1..m) \ D
            lower(fd) == { g \in free : g <= fd }
            new == { fd \in free : Cardinality(lower(fd)) <= n }
<1>1. IsFiniteSet(D) /\ Cardinality(D) \in Nat /\ m \in Nat
    BY FS_CardinalityType DEF Data
<1>2. IsFiniteSet(1..m) /\ Cardinality(1..m) = m
    BY <1>1, FS_Interval
<1>3. new_fds(w, n) = new
    BY DEF new_fds
<1>. HIDE DEF D, m
<1>4. free \in SUBSET (1..m) /\ free \in SUBSET Int /\ new \in SUBSET free
    BY <1>1
<1>5. IsFiniteSet(free) /\ IsFiniteSet(new)
    BY <1>2, <1>4, FS_Subset
<1>6. ASSUME n > 0 PROVE Max(new) \in new
    <2>1. free # {}
        <3>. SUFFICES ASSUME 1..m \in SUBSET D PROVE FALSE
            OBVIOUS
        <3>1. m <= Cardinality(D)
            BY <1>1, <1>2, FS_Subset
        <3>. QED  BY <1>1, <1>6, <3>1 DEF m
    <2>. DEFINE least == Min(free)
    <2>2. least \in free /\ \A g \in free : least <= g
        BY <1>4, <1>5, <2>1, MinMaxType
    <2>. HIDE DEF least
    <2>3. lower(least) = {least}
        BY <1>4, <2>2
    <2>4. Cardinality(lower(least)) <= n
        <3>1. Cardinality({least}) = 1
            BY FS_Singleton
        <3>. HIDE DEF free
        <3>. QED  BY <1>6, <2>3, <3>1
    <2>5. least \in new
        BY <2>2, <2>4
    <2>6. new \in SUBSET Int /\ new # {}
        BY <1>4, <2>5
    <2>. HIDE DEF new, free
    <2>. QED  BY <1>5, <2>6, MinMaxType
<1>7. new \in SUBSET (Nat \ {0}) /\ new \cap D = {}
    BY <1>1
<1>. HIDE DEF new, free
<1>. QED  BY <1>3, <1>5, <1>6, <1>7 DEF D

(* A device opens descriptors and leaves them behind.                      *)
LEMMA AbandonsSound ==
    ASSUME NEW w, Data(w), Kids(w), NEW d \in Devs, OnlyTcpConnects(w),
           Hold(w, Holders(w) \ {d}), NEW n \in Nat
    PROVE  LET u == abandons(w, d, new_fds(w, n))
           IN /\ Data(u) /\ Kids(u) /\ OnlyTcpConnects(u) /\ Hold(u, Holders(u) \ {d})
              /\ u.conn = w.conn
<1>. DEFINE fds == new_fds(w, n)
            u == abandons(w, d, fds)
<1>1. fds \in SUBSET (Nat \ {0}) /\ IsFiniteSet(fds) /\ fds \cap DOMAIN w.opened = {}
    BY NewFdsType
<1>. HIDE DEF fds
<1>2. /\ DOMAIN u = DOMAIN w /\ u.conn = w.conn /\ u.children = w.children
      /\ u.leaked = w.leaked \cup fds
      /\ u.opened = [ fd \in DOMAIN w.opened \cup fds |->
                         IF fd \in fds THEN [ dev |-> d, link |-> "reset" ] ELSE w.opened[fd] ]
    BY DEF abandons, Data
<1>. HIDE DEF u
<1>3. /\ DOMAIN u.opened = DOMAIN w.opened \cup fds
      /\ \A fd \in fds : u.opened[fd] = [ dev |-> d, link |-> "reset" ]
      /\ \A fd \in DOMAIN w.opened : u.opened[fd] = w.opened[fd]
    BY <1>1, <1>2
<1>4. Data(u)
    <2>1. IsFiniteSet(DOMAIN u.opened)
        <3>1. IsFiniteSet(DOMAIN w.opened)
            BY DEF Data
        <3>2. IsFiniteSet(fds)
            BY <1>1
        <3>3. IsFiniteSet(DOMAIN w.opened \cup fds)
            BY <3>1, <3>2, FS_Union
        <3>. QED  BY <1>3, <3>3
    <2>2. \A fd \in DOMAIN u.opened : u.opened[fd] \in [ dev : Devs, link : Links ]
        BY <1>3 DEF Data, Links
    <2>. QED  BY <1>1, <1>2, <1>3, <2>1, <2>2 DEF Data
<1>5. Holders(u) = Holders(w) /\ Kids(u) /\ OnlyTcpConnects(u)
    BY <1>2 DEF Holders, Kids, OnlyTcpConnects
<1>6. Hold(u, Holders(u) \ {d})
    <2>. DEFINE H == Holders(w) \ {d}
    <2>1. ASSUME NEW e \in H
          PROVE  /\ u.conn[e].fd \in DOMAIN u.opened /\ u.conn[e].fd \notin u.leaked
                 /\ u.opened[u.conn[e].fd].dev = e
        <3>1. /\ w.conn[e].fd \in DOMAIN w.opened /\ w.conn[e].fd \notin w.leaked
              /\ w.opened[w.conn[e].fd].dev = e
            BY DEF Hold
        <3>. QED  BY <1>1, <1>2, <1>3, <3>1
    <2>2. DOMAIN u.opened = { u.conn[e].fd : e \in H } \cup u.leaked
        BY <1>2, <1>3 DEF Hold
    <2>. HIDE DEF H
    <2>3. Hold(u, H)
        BY <2>1, <2>2 DEF Hold
    <2>. QED  BY <1>5, <2>3 DEF H
<1>. QED  BY <1>2, <1>4, <1>5, <1>6 DEF u, fds

(* The addresses are tried: the device gets a descriptor, or is not        *)
(* connected.  Nothing else changes.                                       *)
LEMMA WalkSound ==
    ASSUME NEW w, Data(w), Kids(w), NEW d \in Devs, method[d] = "tcp", OnlyTcpConnects(w),
           Hold(w, Holders(w) \ {d}), NEW a \in Nat \ {0},
           NEW out \in [ 1..NumAddrs -> Outcomes ]
    PROVE  Sound(tcp_walk(w, d, a, out))
<1>. DEFINE good == { k \in a..NumAddrs : out[k] \in { "up", "progress" } }
            c == IF good = {} THEN NOADDR ELSE Min(good)
            gone == { k \in a..c - 1 : out[k] = "lost" }
            n == Cardinality(gone)
            lost == new_fds(w, n)
            u == abandons(w, d, lost)
            v == [ u EXCEPT !.conn[d].cur = c ]
            number == IF a > NumAddrs THEN v.conn[d].fd
                      ELSE CASE out[NumAddrs] = "nosocket" -> NO_FD
                             [] out[NumAddrs] = "lost" -> Max(lost)
                             [] OTHER -> new_fd(v)
            left == [ v EXCEPT !.conn[d].state = "not_connected", !.conn[d].fd = number ]
            walk == tcp_walk(w, d, a, out)
<1>1. NumAddrs \in Nat \ {0} /\ NOADDR = NumAddrs + 1 /\ NO_FD \in Int
    BY ConnectionAssumption DEF NOADDR, NO_FD
<1>2. good # {} => Min(good) \in good
    <2>1. good \in SUBSET (1..NumAddrs) /\ good \in SUBSET Int
        BY <1>1
    <2>2. IsFiniteSet(1..NumAddrs)
        BY <1>1, FS_Interval
    <2>3. IsFiniteSet(good)
        BY <2>1, <2>2, FS_Subset
    <2>. HIDE DEF good
    <2>. QED  BY <2>1, <2>3, MinMaxType
<1>3. good # {} => Min(good) \in 1..NumAddrs /\ out[Min(good)] \in { "up", "progress" }
    BY <1>1, <1>2
<1>4. c \in 1..NOADDR
    BY <1>1, <1>3
<1>5. n \in Nat /\ (good = {} /\ a <= NumAddrs /\ out[NumAddrs] = "lost" => n > 0)
    <2>1. gone \in SUBSET (1..NumAddrs)
        <3>. HIDE DEF good, c
        <3>. QED  BY <1>1, <1>4
    <2>2. IsFiniteSet(1..NumAddrs)
        BY <1>1, FS_Interval
    <2>3. IsFiniteSet(gone)
        BY <2>1, <2>2, FS_Subset
    <2>4. good = {} /\ a <= NumAddrs /\ out[NumAddrs] = "lost" => NumAddrs \in gone
        BY <1>1
    <2>. HIDE DEF gone
    <2>. QED  BY <2>3, <2>4, FS_CardinalityType, FS_EmptySet
<1>6. Data(u) /\ Kids(u) /\ OnlyTcpConnects(u) /\ Hold(u, Holders(u) \ {d}) /\ u.conn = w.conn
    <2>. HIDE DEF n
    <2>. QED  BY <1>5, AbandonsSound
<1>7. walk = IF good # {} THEN connecting(v, d, out[c]) ELSE left
    BY DEF tcp_walk
<1>8. good = {} /\ Data(v) => number \in Int
    <2>1. Data(v) => new_fd(v) \in Int
        BY NewFdType
    <2>2. good = {} /\ a <= NumAddrs /\ out[NumAddrs] = "lost" => Max(lost) \in Int
        <3>. HIDE DEF n, good
        <3>. QED  BY <1>5, NewFdsType
    <2>3. Data(v) => v.conn[d].fd \in Int
        <3>. HIDE DEF v
        <3>. QED  BY DEF Data, ConnData
    <2>. HIDE DEF v, lost, good
    <2>. QED  BY <1>1, <2>1, <2>2, <2>3
<1>9. good # {} => out[c] \in { "up", "progress" }
    BY <1>3
<1>. HIDE DEF good, c
<1>10. /\ DOMAIN v = DOMAIN u /\ v.opened = u.opened /\ v.leaked = u.leaked
       /\ v.children = u.children /\ v.conn = [ u.conn EXCEPT ![d].cur = c ]
    BY <1>6 DEF Data
<1>. HIDE DEF number, lost, n, gone, u
<1>. HIDE DEF v
<1>11. /\ DOMAIN v = DOMAIN u /\ v.opened = u.opened /\ v.leaked = u.leaked
      /\ v.children = u.children /\ v.conn \in [Devs -> ConnData]
      /\ v.conn[d].state = u.conn[d].state /\ v.conn[d].fd = u.conn[d].fd
      /\ \A e \in Devs \ {d} : v.conn[e] = u.conn[e]
    <2>1. u.conn \in [Devs -> ConnData] /\ u.conn[d] \in ConnData
        BY <1>6 DEF Data
    <2>2. [ u.conn[d] EXCEPT !.cur = c ] \in ConnData
        BY <1>4, <2>1 DEF ConnData
    <2>3. v.conn = [ u.conn EXCEPT ![d] = [ u.conn[d] EXCEPT !.cur = c ] ]
        BY <1>10, <2>1
    <2>4. v.conn[d] = [ u.conn[d] EXCEPT !.cur = c ]
        BY <2>1, <2>3
    <2>. QED  BY <1>10, <2>1, <2>2, <2>3, <2>4 DEF ConnData
<1>12. Data(v)
    BY <1>11, <1>6 DEF Data
<1>13. Holders(v) = Holders(u) /\ \A e \in Devs : v.conn[e].fd = u.conn[e].fd
    BY <1>11 DEF Holders
<1>14. Hold(v, Holders(v) \ {d}) /\ OnlyTcpConnects(v) /\ Kids(v)
    <2>1. \A e \in Holders(v) \ {d} : v.conn[e].fd = u.conn[e].fd
        BY <1>13 DEF Holders
    <2>2. Hold(v, Holders(v) \ {d})
        BY <1>11, <1>13, <1>6, <2>1 DEF Hold
    <2>3. OnlyTcpConnects(v)
        BY <1>11, <1>6 DEF OnlyTcpConnects
    <2>. QED  BY <1>11, <1>13, <1>6, <2>2, <2>3 DEF Kids
<1>15. CASE good # {}
    <2>1. PICK state \in { "connecting", "connected" }, status \in Links :
             walk = opens(v, d, state, status)
        BY <1>7, <1>9, <1>15 DEF connecting, Links
    <2>2. /\ Data(walk) /\ Hold(walk, Holders(walk)) /\ OnlyTcpConnects(walk)
          /\ walk.children = v.children /\ Holders(walk) = Holders(v) \cup {d}
        BY <1>12, <1>14, <2>1, OpensSound
    <2>3. Kids(walk)
        BY <1>14, <2>2 DEF Kids
    <2>. HIDE DEF walk
    <2>4. Sound(walk)
        BY <2>2, <2>3 DEF Sound
    <2>. QED  BY <2>4 DEF walk
<1>16. CASE good = {}
    <2>1. number \in Int
        BY <1>12, <1>16, <1>8
    <2>2. /\ DOMAIN walk = DOMAIN v /\ walk.opened = v.opened /\ walk.leaked = v.leaked
          /\ walk.children = v.children
          /\ walk.conn = [ v.conn EXCEPT ![d].state = "not_connected",
                               ![d].fd = number ]
        BY <1>7, <1>12, <1>16 DEF Data
    <2>. HIDE DEF walk
    <2>3. /\ walk.conn \in [Devs -> ConnData] /\ walk.conn[d].state = "not_connected"
          /\ \A e \in Devs \ {d} : walk.conn[e] = v.conn[e]
        <3>. DEFINE data == [ v.conn[d] EXCEPT !.state = "not_connected", !.fd = number ]
        <3>1. v.conn[d] \in ConnData
            BY <1>11
        <3>3. data \in ConnData /\ data.state = "not_connected"
            BY <2>1, <3>1 DEF ConnData
        <3>4. walk.conn = [ v.conn EXCEPT ![d] = data ]
            BY <1>11, <2>2, <3>1 DEF ConnData
        <3>. HIDE DEF data
        <3>. QED  BY <1>11, <3>3, <3>4
    <2>4. Data(walk)
        BY <1>12, <2>2, <2>3 DEF Data
    <2>5. /\ Hold(walk, Holders(walk)) /\ OnlyTcpConnects(walk)
          /\ Holders(walk) = Holders(v) \ {d}
        <3>1. walk.opened = v.opened /\ walk.leaked = v.leaked
            BY <2>2
        <3>2. /\ walk.conn[d].state = "not_connected"
              /\ \A e \in Devs \ {d} : walk.conn[e] = v.conn[e]
            BY <2>3
        <3>. QED  BY <1>12, <1>14, <2>4, <3>1, <3>2, LeftSound
    <2>6. Kids(walk)
        BY <1>14, <2>2, <2>5 DEF Kids
    <2>7. Sound(walk)
        BY <2>4, <2>5, <2>6 DEF Sound
    <2>. QED  BY <2>7 DEF walk
<1>. QED  BY <1>15, <1>16

(* What changes timers, addresses or links only keeps a state sound.       *)
LEMMA SameSound ==
    ASSUME NEW w, Sound(w), NEW v, Data(v), DOMAIN v.opened = DOMAIN w.opened,
           \A fd \in DOMAIN w.opened : v.opened[fd].dev = w.opened[fd].dev,
           v.leaked = w.leaked, v.children = w.children,
           \A e \in Devs : v.conn[e].state = w.conn[e].state /\ v.conn[e].fd = w.conn[e].fd
    PROVE  Sound(v)
<1>1. Holders(v) = Holders(w)
    BY DEF Holders
<1>2. \A e \in Holders(w) : e \in Devs
    BY DEF Holders
<1>3. Hold(v, Holders(v))
    BY <1>1, <1>2 DEF Hold, Sound
<1>. QED  BY <1>1, <1>3 DEF Sound, OnlyTcpConnects, Kids

(* An assertion that fails changes nothing else.                           *)
LEMMA AbortSound ==
    ASSUME NEW w, Sound(w)
    PROVE  Sound(abort(w))
<1>. DEFINE v == abort(w)
<1>1. /\ DOMAIN v = DOMAIN w /\ v.opened = w.opened /\ v.leaked = w.leaked
      /\ v.children = w.children /\ v.conn = w.conn
    BY DEF abort, Sound, Data
<1>. HIDE DEF v
<1>2. Data(v)
    BY <1>1 DEF Data, Sound
<1>3. Sound(v)
    BY <1>1, <1>2, SameSound
<1>. QED  BY <1>3 DEF v

(* A coprocess is started for a device that has none.                      *)
LEMMA PipeSound ==
    ASSUME NEW w, Sound(w), NEW d \in Devs, d \notin Holders(w), method[d] = "pipe"
    PROVE  Sound(pipe_connect(w, d))
<1>. DEFINE o == opens(w, d, "connected", "up")
            v == pipe_connect(w, d)
<1>1. Hold(w, Holders(w) \ {d}) /\ Data(w) /\ OnlyTcpConnects(w)
    <2>1. Holders(w) \ {d} = Holders(w)
        OBVIOUS
    <2>. QED  BY <2>1 DEF Sound
<1>2. /\ Data(o) /\ Hold(o, Holders(o)) /\ OnlyTcpConnects(o)
      /\ o.children = w.children /\ Holders(o) = Holders(w) \cup {d}
    BY <1>1, OpensSound DEF Links
<1>. HIDE DEF o
<1>3. w.children \in [Devs -> Nat] /\ w.children[d] = 0
    BY DEF Sound, Data, Kids
<1>4. /\ DOMAIN v = DOMAIN o /\ v.opened = o.opened /\ v.leaked = o.leaked /\ v.conn = o.conn
      /\ v.children = [ w.children EXCEPT ![d] = @ + 1 ]
    BY <1>2 DEF pipe_connect, Data, o
<1>. HIDE DEF v
<1>5. /\ v.children \in [Devs -> Nat] /\ v.children[d] = 1
      /\ \A e \in Devs \ {d} : v.children[e] = w.children[e]
    BY <1>3, <1>4
<1>6. Data(v)
    BY <1>2, <1>4, <1>5 DEF Data
<1>7. Holders(v) = Holders(o)
    BY <1>4 DEF Holders
<1>8. Hold(v, Holders(v)) /\ OnlyTcpConnects(v)
    BY <1>2, <1>4, <1>7 DEF Hold, OnlyTcpConnects
<1>9. Kids(v)
    BY <1>2, <1>5, <1>7 DEF Kids, Sound
<1>10. Sound(v)
    BY <1>6, <1>8, <1>9 DEF Sound
<1>. QED  BY <1>10 DEF v

(* An attempt to connect, by each of the methods.                          *)
LEMMA ConnectSound ==
    ASSUME NEW w, Sound(w), NEW d \in Devs, method[d] \in { "tcp", "pipe", "serial" },
           NEW out \in [ 1..NumAddrs -> Outcomes ]
    PROVE  Sound(connect(w, d, out))
<1>. DEFINE c == [ w.conn[d] EXCEPT !.elapsed = 0, !.retry_count = Min({ @ + 1, MaxRetries }) ]
            v == [ w EXCEPT !.conn[d].elapsed = 0, !.conn[d].retry_count = Min({ @ + 1, MaxRetries }) ]
<1>1. w.conn \in [Devs -> ConnData] /\ w.conn[d] \in ConnData /\ Data(w)
    BY DEF Sound, Data
<1>2. MaxRetries \in Nat
    BY ConnectionAssumption
<1>3. Min({ w.conn[d].retry_count + 1, MaxRetries }) \in 0..MaxRetries
    <2>1. w.conn[d].retry_count \in Nat
        BY <1>1, <1>2 DEF ConnData
    <2>. QED  BY <1>2, <2>1, MinOfTwo
<1>4. c \in ConnData /\ c.state = w.conn[d].state /\ c.fd = w.conn[d].fd /\ c.cur = w.conn[d].cur
    BY <1>1, <1>3 DEF ConnData
<1>5. /\ DOMAIN v = DOMAIN w /\ v.opened = w.opened /\ v.leaked = w.leaked
      /\ v.children = w.children /\ v.conn = [ w.conn EXCEPT ![d] = c ]
    BY <1>1 DEF Data, ConnData
<1>. HIDE DEF c
<1>6. connect(w, d, out) = IF v.conn[d].fd # NO_FD THEN abort(v)
                           ELSE IF method[d] = "tcp" THEN tcp_connect(v, d, out)
                           ELSE IF method[d] = "pipe" THEN pipe_connect(v, d)
                           ELSE serial_connect(v, d, out)
    BY DEF connect
<1>. HIDE DEF v
<1>7. /\ v.conn \in [Devs -> ConnData]
      /\ \A e \in Devs : v.conn[e].state = w.conn[e].state /\ v.conn[e].fd = w.conn[e].fd
    BY <1>1, <1>4, <1>5
<1>8. Data(v)
    BY <1>1, <1>5, <1>7 DEF Data
<1>9. Sound(v)
    BY <1>5, <1>7, <1>8, SameSound
<1>10. CASE v.conn[d].fd # NO_FD
    BY <1>6, <1>9, <1>10, AbortSound
<1>11. CASE v.conn[d].fd = NO_FD
    <2>1. d \notin Holders(v)
        <3>1. d \in Holders(v) => v.conn[d].fd \in DOMAIN v.opened
            BY <1>9 DEF Sound, Hold
        <3>. QED  BY <1>8, <1>11, <3>1 DEF Data, NO_FD
    <2>2. Hold(v, Holders(v) \ {d}) /\ OnlyTcpConnects(v) /\ Kids(v)
        <3>1. Holders(v) \ {d} = Holders(v)
            BY <2>1
        <3>. QED  BY <1>9, <3>1 DEF Sound
    <2>3. CASE method[d] = "tcp"
        <3>1. v.conn[d].cur \in Nat \ {0}
            BY <1>7, ConnectionAssumption DEF ConnData, NOADDR
        <3>2. Sound(tcp_walk(v, d, v.conn[d].cur, out))
            BY <1>8, <2>2, <2>3, <3>1, WalkSound
        <3>. QED  BY <1>6, <1>11, <2>3, <3>2 DEF tcp_connect
    <2>4. CASE method[d] = "pipe"
        <3>1. Sound(pipe_connect(v, d))
            BY <1>9, <2>1, <2>4, PipeSound
        <3>. QED  BY <1>6, <1>11, <2>4, <3>1
    <2>5. CASE method[d] = "serial"
        <3>. DEFINE o == opens(v, d, "connected", "up")
        <3>1. /\ Data(o) /\ Hold(o, Holders(o)) /\ OnlyTcpConnects(o)
              /\ o.children = v.children /\ Holders(o) = Holders(v) \cup {d}
            BY <1>8, <2>2, OpensSound DEF Links
        <3>. HIDE DEF o
        <3>2. Sound(o)
            BY <2>2, <2>5, <3>1 DEF Sound, Kids
        <3>3. Sound(serial_connect(v, d, out))
            BY <1>9, <3>2 DEF serial_connect, o
        <3>. QED  BY <1>6, <1>11, <2>5, <3>3
    <2>. QED  BY <2>3, <2>4, <2>5
<1>. QED  BY <1>10, <1>11

(* A device that has a descriptor gives it back, and a coprocess is waited *)
(* for.                                                                    *)
LEMMA DisconnectSound ==
    ASSUME NEW w, Sound(w), NEW d \in Holders(w)
    PROVE  Sound(disconnect(w, d)) /\ d \notin Holders(disconnect(w, d))
<1>. DEFINE fd == w.conn[d].fd
            c == [ w.conn[d] EXCEPT !.fd = NO_FD, !.state = "not_connected" ]
            v == disconnect(w, d)
<1>1. d \in Devs /\ w.conn \in [Devs -> ConnData] /\ w.conn[d] \in ConnData /\ Data(w)
    BY DEF Sound, Data, Holders
<1>2. c \in ConnData /\ c.state = "not_connected"
    <2>1. NO_FD \in Int
        BY DEF NO_FD
    <2>. QED  BY <1>1, <2>1 DEF ConnData
<1>3. /\ DOMAIN v = DOMAIN w /\ v.leaked = w.leaked
      /\ v.opened = [ g \in DOMAIN w.opened \ {fd} |-> w.opened[g] ]
      /\ v.children = [ w.children EXCEPT ![d] = 0 ]
      /\ v.conn = [ w.conn EXCEPT ![d] = c ]
    BY <1>1 DEF disconnect, reaped, closed, Data, ConnData
<1>. HIDE DEF c, v
<1>4. /\ v.conn \in [Devs -> ConnData] /\ v.conn[d].state = "not_connected"
      /\ \A e \in Devs \ {d} : v.conn[e] = w.conn[e]
    BY <1>1, <1>2, <1>3
<1>5. /\ v.children \in [Devs -> Nat] /\ v.children[d] = 0
      /\ \A e \in Devs \ {d} : v.children[e] = w.children[e]
    BY <1>1, <1>3 DEF Data
<1>6. /\ DOMAIN v.opened = DOMAIN w.opened \ {fd}
      /\ \A g \in DOMAIN v.opened : v.opened[g] = w.opened[g]
    BY <1>3
<1>7. Data(v)
    <2>1. DOMAIN v.opened \in SUBSET DOMAIN w.opened
        BY <1>6
    <2>2. IsFiniteSet(DOMAIN v.opened)
        BY <1>1, <2>1, FS_Subset DEF Data
    <2>. QED  BY <1>1, <1>3, <1>4, <1>5, <1>6, <2>1, <2>2 DEF Data
<1>8. Holders(v) = Holders(w) \ {d}
    BY <1>4 DEF Holders
<1>9. \A e \in Holders(w) \ {d} : e \in Devs /\ v.conn[e].fd = w.conn[e].fd
    BY <1>4 DEF Holders
<1>10. \A e \in Holders(w) : /\ w.conn[e].fd \in DOMAIN w.opened /\ w.conn[e].fd \notin w.leaked
                             /\ w.opened[w.conn[e].fd].dev = e
    BY DEF Sound, Hold
<1>11. \A e \in Holders(w) \ {d} : w.conn[e].fd # fd
    BY <1>10
<1>12. Hold(v, Holders(v))
    <2>1. { v.conn[e].fd : e \in Holders(v) } = { w.conn[e].fd : e \in Holders(w) } \ {fd}
        BY <1>8, <1>9, <1>11
    <2>2. fd \notin w.leaked
        BY <1>10
    <2>3. DOMAIN w.opened = { w.conn[e].fd : e \in Holders(w) } \cup w.leaked
        BY DEF Sound, Hold
    <2>4. DOMAIN v.opened = { v.conn[e].fd : e \in Holders(v) } \cup v.leaked
        BY <1>3, <1>6, <2>1, <2>2, <2>3
    <2>. QED  BY <1>3, <1>6, <1>8, <1>9, <1>10, <1>11, <2>4 DEF Hold
<1>13. OnlyTcpConnects(v)
    BY <1>4 DEF OnlyTcpConnects, Sound
<1>14. Kids(v)
    BY <1>4, <1>5, <1>8 DEF Kids, Sound
<1>15. Sound(v) /\ d \notin Holders(v)
    BY <1>7, <1>8, <1>12, <1>13, <1>14 DEF Sound
<1>. QED  BY <1>15 DEF v

(* The device is connected, or the next address is tried; the descriptor   *)
(* of the last one is left behind then.                                    *)
LEMMA FinishSound ==
    ASSUME NEW w, Sound(w), NEW d \in Devs, w.conn[d].state = "connecting",
           NEW out \in [ 1..NumAddrs -> Outcomes ]
    PROVE  Sound(tcp_finish_connect(w, d, out))
<1>1. /\ w.conn \in [Devs -> ConnData] /\ w.conn[d] \in ConnData /\ Data(w)
      /\ d \in Holders(w) /\ method[d] = "tcp"
    BY DEF Sound, Data, Holders, OnlyTcpConnects
<1>2. CASE link(w, d) # "reset"
    <2>. DEFINE v == [ w EXCEPT !.conn[d].state = "connected" ]
                c == [ w.conn[d] EXCEPT !.state = "connected" ]
    <2>1. c \in ConnData /\ c.state = "connected" /\ c.fd = w.conn[d].fd
        BY <1>1 DEF ConnData
    <2>2. /\ DOMAIN v = DOMAIN w /\ v.leaked = w.leaked /\ v.opened = w.opened
          /\ v.children = w.children /\ v.conn = [ w.conn EXCEPT ![d] = c ]
        BY <1>1 DEF Data, ConnData
    <2>3. tcp_finish_connect(w, d, out) = v
        BY <1>2 DEF tcp_finish_connect
    <2>. HIDE DEF c, v
    <2>4. /\ v.conn \in [Devs -> ConnData] /\ v.conn[d] = c
          /\ \A e \in Devs \ {d} : v.conn[e] = w.conn[e]
        BY <1>1, <2>1, <2>2
    <2>5. Data(v)
        BY <1>1, <2>2, <2>4 DEF Data
    <2>6. /\ Holders(v) = Holders(w)
          /\ \A e \in Devs : v.conn[e].fd = w.conn[e].fd
        BY <1>1, <2>1, <2>4 DEF Holders
    <2>7. Hold(v, Holders(v))
        <3>1. \A e \in Holders(v) : v.conn[e].fd = w.conn[e].fd
            BY <2>6 DEF Holders
        <3>. QED  BY <2>2, <2>6, <3>1 DEF Hold, Sound
    <2>8. OnlyTcpConnects(v) /\ Kids(v)
        BY <2>1, <2>2, <2>4, <2>6 DEF OnlyTcpConnects, Kids, Sound
    <2>. QED  BY <2>3, <2>5, <2>7, <2>8 DEF Sound
<1>3. CASE link(w, d) = "reset"
    <2>. DEFINE fd == w.conn[d].fd
                v == [ w EXCEPT !.leaked = @ \cup {fd} ]
                a == w.conn[d].cur + 1
    <2>1. /\ DOMAIN v = DOMAIN w /\ v.leaked = w.leaked \cup {fd} /\ v.opened = w.opened
          /\ v.children = w.children /\ v.conn = w.conn
        BY <1>1 DEF Data
    <2>2. tcp_finish_connect(w, d, out) = tcp_walk(v, d, a, out)
        BY <1>3 DEF tcp_finish_connect
    <2>. HIDE DEF v
    <2>3. Data(v) /\ Kids(v) /\ OnlyTcpConnects(v) /\ Holders(v) = Holders(w)
        BY <2>1 DEF Sound, Data, Kids, OnlyTcpConnects, Holders
    <2>4. \A e \in Holders(w) : /\ w.conn[e].fd \in DOMAIN w.opened /\ w.conn[e].fd \notin w.leaked
                                /\ w.opened[w.conn[e].fd].dev = e
        BY DEF Sound, Hold
    <2>5. \A e \in Holders(w) \ {d} : w.conn[e].fd # fd
        BY <1>1, <2>4
    <2>6. DOMAIN w.opened = { w.conn[e].fd : e \in Holders(w) } \cup w.leaked
        BY DEF Sound, Hold
    <2>7. DOMAIN w.opened = { w.conn[e].fd : e \in Holders(w) \ {d} } \cup (w.leaked \cup {fd})
        BY <1>1, <2>6
    <2>8. Hold(v, Holders(v) \ {d})
        BY <2>1, <2>3, <2>4, <2>5, <2>7 DEF Hold
    <2>9. a \in Nat \ {0}
        BY <1>1, ConnectionAssumption DEF ConnData, NOADDR
    <2>. QED  BY <1>1, <2>2, <2>3, <2>8, <2>9, WalkSound
<1>. QED  BY <1>2, <1>3

(* A lost connection is closed, and tried again when its time has come.    *)
LEMMA ReconnectSound ==
    ASSUME NEW w, Sound(w), NEW d \in Devs, method[d] \in { "tcp", "pipe", "serial" },
           NEW out \in [ 1..NumAddrs -> Outcomes ]
    PROVE  Sound(reconnect(w, d, out))
<1>. DEFINE v == IF w.conn[d].state # "not_connected" THEN disconnect(w, d) ELSE w
<1>1. Sound(v)
    <2>1. w.conn[d].state # "not_connected" => d \in Holders(w)
        BY DEF Holders
    <2>. QED  BY <2>1, DisconnectSound
<1>2. reconnect(w, d, out) = IF time_to_reconnect(v.conn[d]) THEN connect(v, d, out) ELSE v
    BY DEF reconnect
<1>. HIDE DEF v
<1>3. Sound(connect(v, d, out))
    BY <1>1, ConnectSound
<1>. QED  BY <1>1, <1>2, <1>3

(* A device is visited in a turn of the loop.                              *)
LEMMA VisitSound ==
    ASSUME NEW w, Sound(w), NEW d \in Devs, method[d] \in { "tcp", "pipe", "serial" },
           NEW flags, NEW out \in [ 1..NumAddrs -> Outcomes ]
    PROVE  Sound(visit(w, d, flags, out))
<1>. DEFINE finish == flags \cap Errors = {} /\ w.conn[d].state = "connecting" /\ "out" \in flags
            v == IF finish THEN tcp_finish_connect(w, d, out) ELSE w
<1>1. Sound(v)
    BY FinishSound
<1>2. visit(w, d, flags, out) \in { abort(w), reconnect(v, d, out), v }
    BY DEF visit
<1>. HIDE DEF v
<1>3. Sound(abort(w)) /\ Sound(reconnect(v, d, out))
    BY <1>1, AbortSound, ReconnectSound
<1>. QED  BY <1>1, <1>2, <1>3

(***************************************************************************)
(* The steps                                                               *)
(***************************************************************************)
Methods == method \in Seq({ "tcp", "pipe", "serial" })

(* Every step keeps the state sound, and the methods.                      *)
LEMMA ConnectionStep ==
    ASSUME Sound(this), Methods, [ConnectionNext]_conn_vars
    PROVE  Sound(this)' /\ Methods'
<1>1. \A d \in Devs : method[d] \in { "tcp", "pipe", "serial" }
    BY DEF Methods, Devs
<1>2. ASSUME NEW w, Sound(w), Becomes(w), UNCHANGED method
      PROVE  Sound(this)' /\ Methods'
    <2>1. DOMAIN w = { "conn", "opened", "children", "leaked", "aborted" }
        BY <1>2 DEF Sound, Data
    <2>2. /\ this'.conn = w.conn /\ this'.opened = w.opened /\ this'.children = w.children
          /\ this'.leaked = w.leaked /\ DOMAIN this' = DOMAIN w
        BY <1>2, <2>1 DEF this, Becomes
    <2>3. Devs' = Devs /\ Methods'
        BY <1>2 DEF Devs, Methods
    <2>4. Data(this)'
        BY <1>2, <2>2, <2>3 DEF Sound, Data
    <2>5. Holders(this)' = Holders(w)
        BY <2>2, <2>3 DEF Holders
    <2>6. Hold(this, Holders(this))'
        BY <1>2, <2>2, <2>5 DEF Sound, Hold
    <2>7. OnlyTcpConnects(this)' /\ Kids(this)'
        BY <1>2, <2>2, <2>3, <2>5 DEF Sound, OnlyTcpConnects, Kids
    <2>. QED  BY <2>3, <2>4, <2>6, <2>7 DEF Sound
<1>3. /\ conn \in [Devs -> ConnData] /\ DOMAIN opened \subseteq Nat \ {0}
      /\ IsFiniteSet(DOMAIN opened) /\ children \in [Devs -> Nat]
      /\ \A fd \in DOMAIN opened : opened[fd] \in [ dev : Devs, link : Links ]
    BY DEF Sound, Data, this
<1>4. ASSUME NEW d \in Devs, InitialConnect(d)
      PROVE  Sound(this)' /\ Methods'
    <2>1. PICK out \in [ 1..NumAddrs -> Outcomes ] :
             Becomes(connect(this, d, out)) /\ UNCHANGED method
        BY <1>4 DEF InitialConnect
    <2>. QED  BY <1>1, <1>2, <2>1, ConnectSound
<1>5. ASSUME NEW d \in Devs, Visit(d)
      PROVE  Sound(this)' /\ Methods'
    <2>1. PICK out \in [ 1..NumAddrs -> Outcomes ] :
             Becomes(visit(this, d, revents[d], out)) /\ UNCHANGED method
        BY <1>5 DEF Visit
    <2>. QED  BY <1>1, <1>2, <2>1, VisitSound
<1>6. ASSUME NEW c \in [Devs -> ConnData], UNCHANGED << method, opened, children, leaked, aborted >>,
             conn' = c, \A e \in Devs : c[e].state = conn[e].state /\ c[e].fd = conn[e].fd
      PROVE  Sound(this)' /\ Methods'
    <2>. DEFINE w == [ conn |-> c, opened |-> opened, children |-> children, leaked |-> leaked,
                       aborted |-> aborted ]
    <2>1. Data(w)
        BY <1>3 DEF Data
    <2>2. Sound(w)
        BY <1>6, <2>1, SameSound DEF this
    <2>3. Becomes(w)
        BY <1>6 DEF Becomes
    <2>. QED  BY <1>2, <1>6, <2>2, <2>3
<1>7. ASSUME NEW d \in Devs, CommandExpedites(d)
      PROVE  Sound(this)' /\ Methods'
    <2>1. conn[d] \in ConnData /\ 0 \in 0..MaxRetries
        BY <1>3, ConnectionAssumption
    <2>. DEFINE c == [ conn EXCEPT ![d].retry_count = 0 ]
                cd == [ conn[d] EXCEPT !.retry_count = 0 ]
    <2>2. cd \in ConnData /\ cd.state = conn[d].state /\ cd.fd = conn[d].fd
        BY <2>1 DEF ConnData
    <2>3. c = [ conn EXCEPT ![d] = cd ]
        BY <1>3
    <2>. HIDE DEF cd
    <2>4. /\ c \in [Devs -> ConnData]
          /\ \A e \in Devs : c[e].state = conn[e].state /\ c[e].fd = conn[e].fd
        BY <1>3, <2>2, <2>3
    <2>5. conn' = c /\ UNCHANGED << method, opened, children, leaked, aborted >>
        BY <1>7 DEF CommandExpedites
    <2>. HIDE DEF c
    <2>. QED  BY <1>6, <2>4, <2>5
<1>8. CASE TimePasses
    <2>. DEFINE m == Max(ToSet(rtab))
                c == [ d \in Devs |-> [ conn[d] EXCEPT !.elapsed = Min({ @ + 1, m }) ] ]
    <2>1. m \in Nat
        <3>1. ToSet(rtab) \in SUBSET Nat /\ ToSet(rtab) \in SUBSET Int /\ rtab[1] \in ToSet(rtab)
            BY ConnectionAssumption DEF ToSet
        <3>2. IsFiniteSet(ToSet(rtab))
            <4>1. IsFiniteSet(1..Len(rtab)) /\ DOMAIN rtab = 1..Len(rtab)
                BY ConnectionAssumption, FS_Interval
            <4>2. rtab \in Surjection(1..Len(rtab), ToSet(rtab))
                <5>1. rtab \in Seq(Nat \ {0})
                    BY ConnectionAssumption
                <5>2. rtab \in [ 1..Len(rtab) -> ToSet(rtab) ]
                    BY <4>1, <5>1 DEF ToSet
                <5>3. \A t \in ToSet(rtab) : \E i \in 1..Len(rtab) : rtab[i] = t
                    BY <4>1 DEF ToSet
                <5>. QED  BY <5>2, <5>3 DEF Surjection
            <4>. QED  BY <4>1, <4>2, FS_Surjection
        <3>3. m \in ToSet(rtab)
            BY <3>1, <3>2, MinMaxType
        <3>. QED  BY <3>1, <3>3
    <2>. HIDE DEF m
    <2>2. ASSUME NEW d \in Devs
          PROVE  c[d] \in ConnData /\ c[d].state = conn[d].state /\ c[d].fd = conn[d].fd
        <3>1. conn[d] \in ConnData
            BY <1>3
        <3>2. Min({ conn[d].elapsed + 1, m }) \in Nat
            BY <2>1, <3>1, MinOfTwo DEF ConnData
        <3>. QED  BY <3>1, <3>2 DEF ConnData
    <2>3. conn' = c /\ UNCHANGED << method, opened, children, leaked, aborted >>
        BY <1>8 DEF TimePasses, m
    <2>4. DOMAIN c = Devs /\ c \in [Devs -> ConnData]
        BY <2>2
    <2>. HIDE DEF c
    <2>. QED  BY <1>6, <2>2, <2>3, <2>4
<1>9. ASSUME NEW fd \in DOMAIN opened, LinkChanges(fd)
      PROVE  Sound(this)' /\ Methods'
    <2>1. PICK to \in Links : /\ opened' = [ opened EXCEPT ![fd].link = to ]
                              /\ UNCHANGED << method, conn, children, leaked, aborted >>
        <3>1. PICK to \in CASE opened[fd].link = "progress" -> { "up", "reset" }
                            [] opened[fd].link = "up"       -> { "eof", "reset" }
                            [] OTHER                        -> {} :
                  /\ opened' = [ opened EXCEPT ![fd].link = to ]
                  /\ UNCHANGED << method, conn, children, leaked, aborted, turn, revents >>
            BY <1>9 DEF LinkChanges
        <3>2. to \in Links
            BY <3>1 DEF Links
        <3>. QED  BY <3>1, <3>2
    <2>. DEFINE o == [ opened EXCEPT ![fd].link = to ]
                l == [ opened[fd] EXCEPT !.link = to ]
                w == [ conn |-> conn, opened |-> o, children |-> children, leaked |-> leaked,
                       aborted |-> aborted ]
    <2>2. opened[fd] \in [ dev : Devs, link : Links ]
        BY <1>3
    <2>3. l \in [ dev : Devs, link : Links ] /\ l.dev = opened[fd].dev
        BY <2>2
    <2>4. o = [ opened EXCEPT ![fd] = l ]
        OBVIOUS
    <2>5. /\ DOMAIN o = DOMAIN opened /\ o[fd] = l
          /\ \A g \in DOMAIN opened \ {fd} : o[g] = opened[g]
        BY <2>4
    <2>. HIDE DEF o, l
    <2>6. /\ \A g \in DOMAIN opened : o[g] \in [ dev : Devs, link : Links ]
          /\ \A g \in DOMAIN opened : o[g].dev = opened[g].dev
        BY <1>3, <2>3, <2>5
    <2>7. Data(w)
        BY <1>3, <2>5, <2>6 DEF Data
    <2>8. Sound(w)
        BY <2>5, <2>6, <2>7, SameSound DEF this
    <2>9. Becomes(w)
        BY <2>1 DEF Becomes, o
    <2>. QED  BY <1>2, <2>1, <2>8, <2>9
<1>10. CASE UNCHANGED << method, conn, opened, children, leaked, aborted >>
    BY <1>2, <1>10 DEF Becomes, this
<1>11. CASE PollReturns
    BY <1>10, <1>11 DEF PollReturns
<1>12. CASE Down \/ UNCHANGED conn_vars
    BY <1>10, <1>12 DEF Down, conn_vars
<1>. QED  BY <1>4, <1>5, <1>7, <1>8, <1>9, <1>11, <1>12 DEF ConnectionNext

(* Nothing is open and no process runs at the start.                       *)
LEMMA ConnectionStarts ==
    ASSUME ConnectionInit
    PROVE  Sound(this) /\ Methods
<1>1. Methods
    BY ConnectionAssumption DEF ConnectionInit, Methods
<1>2. DOMAIN opened = {}
    BY DEF ConnectionInit
<1>3. \A d \in Devs : conn[d].state = "not_connected"
    BY DEF ConnectionInit
<1>4. conn \in [Devs -> ConnData]
    <2>1. 1 \in 1..NOADDR /\ 0 \in 0..MaxRetries /\ NO_FD \in Int
        BY ConnectionAssumption DEF NOADDR, NO_FD
    <2>. QED  BY <2>1 DEF ConnectionInit, ConnData
<1>5. Data(this)
    BY <1>2, <1>4, FS_EmptySet DEF Data, this, ConnectionInit
<1>6. Holders(this) = {}
    BY <1>3 DEF Holders, this
<1>7. Hold(this, Holders(this)) /\ OnlyTcpConnects(this) /\ Kids(this)
    BY <1>2, <1>3, <1>6 DEF Hold, OnlyTcpConnects, Kids, this, ConnectionInit
<1>. QED  BY <1>1, <1>5, <1>7 DEF Sound

(* The state is always sound.                                              *)
LEMMA ConnectionStaysSound == ConnectionSpec => []Sound(this)
<1>1. ConnectionInit => Sound(this) /\ Methods
    BY ConnectionStarts
<1>2. Sound(this) /\ Methods /\ [ConnectionNext]_conn_vars => Sound(this)' /\ Methods'
    BY ConnectionStep
<1>. QED  BY <1>1, <1>2, PTL DEF ConnectionSpec

(* For any devices, addresses and outcomes: a device that is connected or  *)
(* connecting holds an open descriptor that was opened for it, however     *)
(* often numbers are closed and handed out again.                          *)
THEOREM DescriptorsAreOwn == ConnectionSpec => []HoldsItsDescriptor
<1>1. Sound(this) => HoldsItsDescriptor
    BY DEF Sound, Hold, Holders, this, HoldsItsDescriptor, Holding
<1>. QED  BY <1>1, ConnectionStaysSound, PTL

(* What is open is held by a device, or is an attempt tcp_finish_connect   *)
(* gave up: no other path of the three methods loses a descriptor.         *)
THEOREM OnlyAttemptsLeak == ConnectionSpec => []NothingElseLeaks
<1>1. Sound(this) => NothingElseLeaks
    BY DEF Sound, Hold, Holders, this, NothingElseLeaks, Holding
<1>. QED  BY <1>1, ConnectionStaysSound, PTL

(* A pipe device has exactly the one coprocess of its connection, and no   *)
(* process of a connection before.                                         *)
THEOREM CoprocessesAreReaped == ConnectionSpec => []ChildrenAreReaped
<1>1. Sound(this) => ChildrenAreReaped
    BY DEF Sound, Kids, Holders, this, ChildrenAreReaped, Holding
<1>. QED  BY <1>1, ConnectionStaysSound, PTL

(***************************************************************************)
(* Without tcp devices                                                     *)
(***************************************************************************)
Bare(w) ==
    ~w.aborted /\ \A d \in Devs : w.conn[d].state = "not_connected" => w.conn[d].fd = NO_FD

(* A coprocess or a line that is not connected is tried: its descriptor is *)
(* not taken for one that is left, and no assertion fails.                 *)
LEMMA BareConnect ==
    ASSUME NEW w, Data(w), Bare(w), NEW d \in Devs, w.conn[d].state = "not_connected",
           method[d] \in { "pipe", "serial" }, NEW out
    PROVE  LET v == connect(w, d, out)
           IN /\ Bare(v) /\ \A e \in Devs \ {d} : v.conn[e] = w.conn[e]
              /\ DOMAIN v.conn = Devs
<1>. DEFINE u == [ w EXCEPT !.conn[d].elapsed = 0, !.conn[d].retry_count = Min({ @ + 1, MaxRetries }) ]
            o == opens(u, d, "connected", "up")
            v == connect(w, d, out)
<1>1. w.conn \in [Devs -> ConnData] /\ w.conn[d] \in ConnData
    BY DEF Data
<1>2. /\ DOMAIN u = DOMAIN w /\ u.aborted = w.aborted /\ DOMAIN u.conn = Devs
      /\ u.conn[d].fd = w.conn[d].fd /\ u.conn[d].state = w.conn[d].state
      /\ DOMAIN u.conn[d] = DOMAIN w.conn[d]
      /\ \A e \in Devs \ {d} : u.conn[e] = w.conn[e]
    BY <1>1 DEF Data, ConnData
<1>3. v = IF u.conn[d].fd # NO_FD THEN abort(u)
          ELSE IF method[d] = "pipe" THEN pipe_connect(u, d) ELSE serial_connect(u, d, out)
    BY DEF connect
<1>. HIDE DEF u
<1>4. Bare(u) /\ u.conn[d].fd = NO_FD
    BY <1>2 DEF Bare
<1>5. /\ DOMAIN o = DOMAIN u /\ o.aborted = u.aborted
      /\ o.conn = [ u.conn EXCEPT ![d].fd = new_fd(u), ![d].state = "connected" ]
    BY <1>2 DEF opens, Data
<1>. HIDE DEF o
<1>6. /\ DOMAIN o.conn = Devs /\ o.conn[d].state = "connected"
      /\ \A e \in Devs \ {d} : o.conn[e] = u.conn[e]
    BY <1>1, <1>2, <1>5 DEF ConnData
<1>7. Bare(o)
    BY <1>4, <1>5, <1>6 DEF Bare
<1>8. /\ pipe_connect(u, d).conn = o.conn /\ pipe_connect(u, d).aborted = o.aborted
    BY <1>2, <1>5 DEF pipe_connect, Data, o
<1>9. serial_connect(u, d, out) \in { o, u }
    BY DEF serial_connect, o
<1>10. v.conn \in { o.conn, u.conn } /\ Bare(v)
    <2>1. Bare(pipe_connect(u, d))
        BY <1>7, <1>8 DEF Bare
    <2>. QED  BY <1>3, <1>4, <1>7, <1>8, <1>9, <2>1
<1>. HIDE DEF v
<1>11. /\ Bare(v) /\ \A e \in Devs \ {d} : v.conn[e] = w.conn[e]
       /\ DOMAIN v.conn = Devs
    BY <1>2, <1>6, <1>10
<1>. QED  BY <1>11 DEF v

(* What is ready is connected; a device that loses its connection is       *)
(* closed before it is tried again.                                        *)
LEMMA BareVisit ==
    ASSUME NEW w, Sound(w), Bare(w), NEW d \in Devs, method[d] \in { "pipe", "serial" },
           NEW flags, flags # {} => d \in Holders(w), NEW out
    PROVE  LET v == visit(w, d, flags, out)
           IN Bare(v) /\ \A e \in Devs \ {d} : v.conn[e] = w.conn[e]
<1>1. Data(w) /\ w.conn \in [Devs -> ConnData] /\ w.conn[d] \in ConnData
    BY DEF Sound, Data
<1>2. w.conn[d].state # "connecting"
    BY DEF Sound, OnlyTcpConnects
<1>3. flags # {} => w.conn[d].state # "not_connected"
    BY DEF Holders
<1>4. visit(w, d, flags, out) \in { w, reconnect(w, d, out) }
    BY <1>2, <1>3 DEF visit
<1>. DEFINE v == IF w.conn[d].state # "not_connected" THEN disconnect(w, d) ELSE w
            r == reconnect(w, d, out)
<1>5. /\ Data(v) /\ Bare(v) /\ v.conn[d].state = "not_connected"
      /\ \A e \in Devs \ {d} : v.conn[e] = w.conn[e]
    <2>1. CASE w.conn[d].state # "not_connected"
        <3>1. v = disconnect(w, d) /\ d \in Holders(w)
            BY <2>1 DEF Holders
        <3>2. Data(v)
            BY <3>1, DisconnectSound DEF Sound
        <3>. DEFINE c == [ w.conn[d] EXCEPT !.fd = NO_FD, !.state = "not_connected" ]
                    u == disconnect(w, d)
        <3>3. u.aborted = w.aborted /\ u.conn = [ w.conn EXCEPT ![d] = c ]
            BY <1>1 DEF disconnect, reaped, closed, Data, ConnData
        <3>4. c.state = "not_connected" /\ c.fd = NO_FD
            BY <1>1 DEF ConnData
        <3>. HIDE DEF v, c
        <3>5. v.aborted = w.aborted /\ v.conn = [ w.conn EXCEPT ![d] = c ]
            BY <3>1, <3>3
        <3>6. /\ v.conn[d].state = "not_connected" /\ v.conn[d].fd = NO_FD
              /\ \A e \in Devs \ {d} : v.conn[e] = w.conn[e]
            BY <1>1, <3>4, <3>5
        <3>. QED  BY <3>2, <3>5, <3>6 DEF Bare
    <2>2. CASE w.conn[d].state = "not_connected"
        BY <1>1, <2>2
    <2>. QED  BY <2>1, <2>2
<1>6. r = IF time_to_reconnect(v.conn[d]) THEN connect(v, d, out) ELSE v
    BY DEF reconnect
<1>. HIDE DEF v
<1>7. Bare(connect(v, d, out)) /\ \A e \in Devs \ {d} : connect(v, d, out).conn[e] = v.conn[e]
    BY <1>5, BareConnect
<1>8. Bare(r) /\ \A e \in Devs \ {d} : r.conn[e] = w.conn[e]
    BY <1>5, <1>6, <1>7
<1>. QED  BY <1>4, <1>8

(* What poll reports is of a device that is connected, until it is visited. *)
Reported == \A d \in Devs : revents[d] # {} => d \in Holding

(* Before the loop the devices from -turn on have not been tried yet.      *)
Untried == \A d \in Devs : turn < 0 /\ d >= -turn => d \notin Holding

(* The invariant that needs no tcp devices.                                *)
NoneLeft == Bare(this) /\ Reported /\ Untried /\ turn \in Int /\ DOMAIN revents = Devs

(* Every step keeps it.                                                    *)
LEMMA NoneLeftStep ==
    ASSUME Sound(this), Methods, NoneLeft, \A d \in Devs : method[d] \in { "pipe", "serial" },
           [ConnectionNext]_conn_vars
    PROVE  NoneLeft'
<1>1. /\ conn \in [Devs -> ConnData] /\ DOMAIN revents = Devs /\ ~aborted
      /\ \A d \in Devs : conn[d].state = "not_connected" => conn[d].fd = NO_FD
      /\ \A d \in Devs : revents[d] # {} => conn[d].state # "not_connected"
      /\ \A d \in Devs : turn < 0 /\ d >= -turn => conn[d].state = "not_connected"
      /\ turn \in Int /\ Devs \in SUBSET (Nat \ {0})
    <2>1. Devs \in SUBSET (Nat \ {0})
        BY DEF Methods, Devs
    <2>. QED  BY <2>1 DEF Sound, Data, this, NoneLeft, Bare, Reported, Untried, Holding
<1>2. ASSUME ~aborted', DOMAIN revents' = Devs, UNCHANGED method,
             \A d \in Devs : conn'[d].state = "not_connected" => conn'[d].fd = NO_FD,
             \A d \in Devs : revents'[d] # {} => conn'[d].state # "not_connected",
             turn' \in Int,
             \A d \in Devs : turn' < 0 /\ d >= -turn' => conn'[d].state = "not_connected"
      PROVE  NoneLeft'
    BY <1>2 DEF NoneLeft, Bare, Reported, Untried, Holding, this, Devs
<1>3. ASSUME NEW d \in Devs, InitialConnect(d)
      PROVE  NoneLeft'
    <2>1. PICK out \in [ 1..NumAddrs -> Outcomes ] :
             Becomes(connect(this, d, out)) /\ UNCHANGED << method, revents >>
        BY <1>3 DEF InitialConnect
    <2>2. /\ conn[d].state = "not_connected" /\ turn' \in Int
          /\ turn' < 0 => turn = -d /\ turn' = -(d + 1)
        <3>1. d \in Nat \ {0} /\ turn = -d /\ turn' \in { 0, -(d + 1) }
            BY <1>1, <1>3 DEF InitialConnect
        <3>. QED  BY <1>1, <3>1
    <2>3. Data(this) /\ Bare(this) /\ this.conn[d].state = "not_connected"
        BY <2>2 DEF Sound, NoneLeft, this
    <2>4. /\ Bare(connect(this, d, out))
          /\ \A e \in Devs \ {d} : connect(this, d, out).conn[e] = this.conn[e]
        BY <2>3, BareConnect
    <2>5. /\ ~aborted' /\ \A e \in Devs : conn'[e].state = "not_connected" => conn'[e].fd = NO_FD
          /\ \A e \in Devs \ {d} : conn'[e] = conn[e]
        BY <2>1, <2>4 DEF Becomes, Bare, this
    <2>6. revents[d] = {}
        BY <1>1, <2>2
    <2>7. ASSUME NEW e \in Devs, turn' < 0, e >= -turn'
          PROVE  conn'[e].state = "not_connected"
        <3>1. d \in Nat /\ e \in Nat /\ turn = -d /\ turn' = -(d + 1)
            BY <1>1, <2>2, <2>7
        <3>2. e >= d + 1 /\ turn < 0
            BY <1>1, <2>7, <3>1
        <3>3. e # d /\ e >= -turn
            BY <3>1, <3>2
        <3>. QED  BY <1>1, <2>5, <3>2, <3>3
    <2>8. \A e \in Devs : revents'[e] # {} => conn'[e].state # "not_connected"
        BY <1>1, <2>1, <2>5, <2>6
    <2>. QED  BY <1>1, <1>2, <2>1, <2>2, <2>5, <2>7, <2>8
<1>4. ASSUME NEW d \in Devs, Visit(d)
      PROVE  NoneLeft'
    <2>1. PICK out \in [ 1..NumAddrs -> Outcomes ] :
             /\ Becomes(visit(this, d, revents[d], out)) /\ UNCHANGED method
             /\ revents' = [ revents EXCEPT ![d] = {} ]
        BY <1>4 DEF Visit
    <2>2. revents[d] # {} => d \in Holders(this)
        BY <1>1 DEF Holders, this
    <2>3. /\ Bare(visit(this, d, revents[d], out))
          /\ \A e \in Devs \ {d} : visit(this, d, revents[d], out).conn[e] = this.conn[e]
        BY <2>2, BareVisit DEF NoneLeft
    <2>4. /\ ~aborted' /\ \A e \in Devs : conn'[e].state = "not_connected" => conn'[e].fd = NO_FD
          /\ \A e \in Devs \ {d} : conn'[e] = conn[e]
        BY <2>1, <2>3 DEF Becomes, Bare, this
    <2>5. turn' \in Int /\ ~(turn' < 0)
        BY <1>1, <1>4 DEF Visit
    <2>. QED  BY <1>1, <1>2, <2>1, <2>4, <2>5
<1>5. ASSUME UNCHANGED << method, aborted, revents, turn >>,
             \A e \in Devs : conn'[e].state = conn[e].state /\ conn'[e].fd = conn[e].fd
      PROVE  NoneLeft'
    BY <1>1, <1>2, <1>5
<1>6. CASE PollReturns
    <2>1. PICK sending : \E input :
             LET p == polled(dev_pre_poll(sending), ready(input))
             IN /\ revents' = [ d \in Devs |-> IF conn[d].fd # NO_FD
                                               THEN xpollfd_revents(p, conn[d].fd) ELSE {} ]
                /\ UNCHANGED << method, conn, aborted >> /\ turn' = 1
        BY <1>6 DEF PollReturns
    <2>2. DOMAIN revents' = Devs /\ \A d \in Devs : revents'[d] # {} => conn[d].fd # NO_FD
        BY <2>1
    <2>. QED  BY <1>1, <1>2, <2>1, <2>2
<1>7. ASSUME NEW d \in Devs, CommandExpedites(d)
      PROVE  NoneLeft'
    BY <1>1, <1>5, <1>7 DEF CommandExpedites, ConnData
<1>8. CASE TimePasses
    BY <1>1, <1>5, <1>8 DEF TimePasses, ConnData
<1>9. ASSUME NEW fd \in DOMAIN opened, LinkChanges(fd)
      PROVE  NoneLeft'
    BY <1>5, <1>9 DEF LinkChanges
<1>10. CASE Down \/ UNCHANGED conn_vars
    BY <1>5, <1>10 DEF Down, conn_vars
<1>. QED  BY <1>3, <1>4, <1>6, <1>7, <1>8, <1>9, <1>10 DEF ConnectionNext

(* A daemon that has coprocesses and serial lines only: a device that is   *)
(* not connected has no descriptor, and no assertion of the methods or of  *)
(* the loop ever fails.  What leaves dev->fd behind, and stops the daemon  *)
(* at assert(dev->fd == NO_FD), are tcp devices alone.                     *)
THEOREM OnlyTcpFails ==
    ASSUME Plants \subseteq Seq({ "pipe", "serial" })
    PROVE  ConnectionSpec => [](UnconnectedHasNoDescriptor /\ ~aborted)
<1>. DEFINE NoTcp == method \in Plants
            Inv == Sound(this) /\ Methods /\ NoTcp /\ NoneLeft
<1>1. NoTcp => \A d \in Devs : method[d] \in { "pipe", "serial" }
    <2>1. NoTcp => method \in Seq({ "pipe", "serial" })
        OBVIOUS
    <2>. QED  BY <2>1 DEF Devs
<1>2. ConnectionInit => Inv
    <2>. SUFFICES ASSUME ConnectionInit PROVE Inv
        OBVIOUS
    <2>1. NoneLeft
        BY DEF ConnectionInit, NoneLeft, Bare, Reported, Untried, Holding, this
    <2>. QED  BY <2>1, ConnectionStarts DEF ConnectionInit
<1>3. Inv /\ [ConnectionNext]_conn_vars => Inv'
    <2>. SUFFICES ASSUME Inv, [ConnectionNext]_conn_vars PROVE Inv'
        OBVIOUS
    <2>1. Sound(this)' /\ Methods'
        BY ConnectionStep
    <2>2. NoneLeft'
        BY <1>1, NoneLeftStep
    <2>3. NoTcp'
        BY DEF ConnectionNext, InitialConnect, Visit, CommandExpedites, PollReturns, TimePasses,
               Down, LinkChanges, conn_vars
    <2>. QED  BY <2>1, <2>2, <2>3
<1>4. Inv => UnconnectedHasNoDescriptor /\ ~aborted
    BY DEF NoneLeft, Bare, this, UnconnectedHasNoDescriptor, Holding
<1>. QED  BY <1>2, <1>3, <1>4, PTL DEF ConnectionSpec

(***************************************************************************)
(* The poll wrapper                                                        *)
(***************************************************************************)
Pfds == [ fd : Int, events : SUBSET Events, revents : SUBSET (Events \cup Errors) ]
Asks == [ fd : Nat, events : SUBSET Events ]

fds_in(s) == { s[i].fd : i \in DOMAIN s }
wanted_in(s, fd) == UNION { s[i].events : i \in { j \in DOMAIN s : s[j].fd = fd } }

(* There is one entry for each descriptor that was asked for in s, and it  *)
(* asks for all that s asks for.                                           *)
Entered(p, s) ==
    /\ p \in [ ufds : Seq(Pfds), nfds : Nat ] /\ p.nfds <= Len(p.ufds)
    /\ s \in Seq(Asks)
    /\ \A i, j \in 1..p.nfds : p.ufds[i].fd = p.ufds[j].fd => i = j
    /\ \A i \in 1..p.nfds : p.ufds[i].fd \in fds_in(s) /\ p.ufds[i].events = wanted_in(s, p.ufds[i].fd)
    /\ \A fd \in fds_in(s) : \E i \in 1..p.nfds : p.ufds[i].fd = fd

(* One more descriptor, or one more event of a descriptor, is asked for.   *)
LEMMA AskedOnce ==
    ASSUME NEW s \in Seq(Asks), NEW a \in Asks
    PROVE  /\ Append(s, a) \in Seq(Asks)
           /\ fds_in(Append(s, a)) = fds_in(s) \cup {a.fd}
           /\ wanted_in(Append(s, a), a.fd) = wanted_in(s, a.fd) \cup a.events
           /\ a.fd \notin fds_in(s) => wanted_in(s, a.fd) = {}
           /\ \A fd : fd # a.fd => wanted_in(Append(s, a), fd) = wanted_in(s, fd)
<1>. DEFINE t == Append(s, a)
<1>1. /\ t \in Seq(Asks) /\ Len(s) \in Nat /\ DOMAIN s = 1..Len(s)
      /\ DOMAIN t = 1..Len(s) + 1 /\ t[Len(s) + 1] = a /\ \A i \in 1..Len(s) : t[i] = s[i]
    OBVIOUS
<1>2. \A i \in DOMAIN t : i \in DOMAIN s \/ i = Len(s) + 1
    BY <1>1
<1>3. /\ Len(s) + 1 \in DOMAIN t
      /\ \A i \in DOMAIN s : i \in DOMAIN t /\ t[i] = s[i]
    BY <1>1
<1>. HIDE DEF t
<1>4. fds_in(t) = fds_in(s) \cup {a.fd}
    BY <1>1, <1>2, <1>3 DEF fds_in
<1>5. wanted_in(t, a.fd) = wanted_in(s, a.fd) \cup a.events
    BY <1>1, <1>2, <1>3 DEF wanted_in
<1>6. a.fd \notin fds_in(s) => wanted_in(s, a.fd) = {}
    BY DEF wanted_in, fds_in
<1>7. \A fd : fd # a.fd => wanted_in(t, fd) = wanted_in(s, fd)
    BY <1>1, <1>2, <1>3 DEF wanted_in
<1>. QED  BY <1>1, <1>4, <1>5, <1>6, <1>7 DEF t

(* There is an entry for what is asked, one that was there or a new one.   *)
LEMMA AskEnters ==
    ASSUME NEW p, NEW s, Entered(p, s), NEW fd \in Nat, NEW evs \in SUBSET Events
    PROVE  Entered(xpollfd_set(p, fd, evs), Append(s, [ fd |-> fd, events |-> evs ]))
<1>. DEFINE a == [ fd |-> fd, events |-> evs ]
            t == Append(s, a)
            q == xpollfd_set(p, fd, evs)
            n == p.nfds + 1
<1>1. /\ p.ufds \in Seq(Pfds) /\ p.nfds \in Nat /\ Len(p.ufds) \in Nat /\ p.nfds <= Len(p.ufds)
      /\ p = [ ufds |-> p.ufds, nfds |-> p.nfds ]
      /\ s \in Seq(Asks) /\ a \in Asks /\ a.fd = fd /\ a.events = evs
    BY DEF Entered, Asks
<1>2. /\ t \in Seq(Asks) /\ fds_in(t) = fds_in(s) \cup {fd}
      /\ wanted_in(t, fd) = wanted_in(s, fd) \cup evs
      /\ fd \notin fds_in(s) => wanted_in(s, fd) = {}
      /\ \A e : e # fd => wanted_in(t, e) = wanted_in(s, e)
    <2>. HIDE DEF a
    <2>1. /\ t \in Seq(Asks) /\ fds_in(t) = fds_in(s) \cup {a.fd}
          /\ wanted_in(t, a.fd) = wanted_in(s, a.fd) \cup a.events
          /\ a.fd \notin fds_in(s) => wanted_in(s, a.fd) = {}
          /\ \A e : e # a.fd => wanted_in(t, e) = wanted_in(s, e)
        BY <1>1, AskedOnce
    <2>. HIDE DEF t
    <2>. QED  BY <1>1, <2>1
<1>. HIDE DEF t
<1>5. /\ \A i, j \in 1..p.nfds : p.ufds[i].fd = p.ufds[j].fd => i = j
      /\ \A i \in 1..p.nfds : p.ufds[i].fd \in fds_in(s) /\ p.ufds[i].events = wanted_in(s, p.ufds[i].fd)
      /\ \A f \in fds_in(s) : \E i \in 1..p.nfds : p.ufds[i].fd = f
    BY DEF Entered
<1>6. ASSUME q \in [ ufds : Seq(Pfds), nfds : Nat ], q.nfds <= Len(q.ufds),
             \A i, j \in 1..q.nfds : q.ufds[i].fd = q.ufds[j].fd => i = j,
             \A i \in 1..q.nfds : q.ufds[i].fd \in fds_in(t) /\ q.ufds[i].events = wanted_in(t, q.ufds[i].fd),
             \A f \in fds_in(t) : \E i \in 1..q.nfds : q.ufds[i].fd = f
      PROVE  Entered(q, t)
    <2>. HIDE DEF q
    <2>. QED  BY <1>2, <1>6 DEF Entered
<1>3. CASE entries(p, fd) # {}
    <2>. DEFINE i == CHOOSE k \in entries(p, fd) : TRUE
    <2>1. i \in 1..p.nfds /\ p.ufds[i].fd = fd
        BY <1>3 DEF entries
    <2>. HIDE DEF i
    <2>2. i \in 1..Len(p.ufds) /\ p.ufds[i] \in Pfds
        BY <1>1, <2>1
    <2>. DEFINE e == [ p.ufds[i] EXCEPT !.events = @ \cup evs ]
    <2>3. /\ e \in Pfds /\ e.fd = fd /\ e.events = p.ufds[i].events \cup evs
        BY <2>1, <2>2 DEF Pfds
    <2>4. q = [ ufds |-> [ p.ufds EXCEPT ![i] = e ], nfds |-> p.nfds ]
        BY <1>1, <1>3 DEF xpollfd_set, i
    <2>. HIDE DEF e, q
    <2>5. /\ q.nfds = p.nfds /\ q.ufds \in Seq(Pfds) /\ Len(q.ufds) = Len(p.ufds)
          /\ q.ufds[i] = e /\ \A k \in 1..p.nfds : k # i => q.ufds[k] = p.ufds[k]
        BY <1>1, <2>2, <2>3, <2>4
    <2>6. \A k \in 1..p.nfds : q.ufds[k].fd = p.ufds[k].fd
        BY <2>1, <2>3, <2>5
    <2>7. q \in [ ufds : Seq(Pfds), nfds : Nat ] /\ q.nfds <= Len(q.ufds)
        BY <1>1, <2>4, <2>5
    <2>8. fd \in fds_in(s) /\ p.ufds[i].events = wanted_in(s, fd)
        BY <2>1 DEF Entered
    <2>9. \A k \in 1..p.nfds : q.ufds[k].events = wanted_in(t, q.ufds[k].fd)
        <3>1. q.ufds[i].events = wanted_in(t, q.ufds[i].fd)
            BY <1>2, <2>3, <2>5, <2>8
        <3>2. ASSUME NEW k \in 1..p.nfds, k # i
              PROVE  q.ufds[k].events = wanted_in(t, q.ufds[k].fd)
            <4>1. p.ufds[k].fd # fd /\ p.ufds[k].events = wanted_in(s, p.ufds[k].fd)
                BY <1>5, <2>1, <3>2
            <4>. QED  BY <1>2, <2>5, <3>2, <4>1
        <3>. QED  BY <3>1, <3>2
    <2>10. fds_in(t) = fds_in(s)
        BY <1>2, <2>8
    <2>11. \A j, k \in 1..q.nfds : q.ufds[j].fd = q.ufds[k].fd => j = k
        BY <1>5, <2>5, <2>6
    <2>12. \A k \in 1..q.nfds : q.ufds[k].fd \in fds_in(t)
        BY <1>5, <2>5, <2>6, <2>10
    <2>13. \A f \in fds_in(t) : \E k \in 1..q.nfds : q.ufds[k].fd = f
        BY <1>5, <2>5, <2>6, <2>10
    <2>14. \A k \in 1..q.nfds : q.ufds[k].events = wanted_in(t, q.ufds[k].fd)
        BY <2>5, <2>9
    <2>15. Entered(q, t)
        BY <1>6, <2>7, <2>11, <2>12, <2>13, <2>14
    <2>. QED  BY <2>15 DEF q, t, a
<1>4. CASE entries(p, fd) = {}
    <2>. DEFINE g == grow_pollfd(p.ufds, n)
    <2>1. g \in Seq(Pfds) /\ Len(g) \in Nat /\ n \in 1..Len(g) /\ \A i \in 1..p.nfds : g[i] = p.ufds[i]
        <3>1. CASE Len(p.ufds) >= n
            BY <1>1, <3>1 DEF grow_pollfd
        <3>2. CASE ~(Len(p.ufds) >= n)
            <4>. DEFINE new == [ i \in 1..XPOLLFD_ALLOC_CHUNK |-> unset ]
            <4>1. XPOLLFD_ALLOC_CHUNK \in Nat \ {0}
                BY XpollAssumption
            <4>2. unset \in Pfds
                BY DEF unset, Pfds
            <4>3. new \in Seq(Pfds) /\ Len(new) = XPOLLFD_ALLOC_CHUNK
                BY <4>1, <4>2
            <4>. HIDE DEF new
            <4>4. g = p.ufds \o new
                BY <3>2 DEF grow_pollfd, new
            <4>. HIDE DEF g
            <4>. QED  BY <1>1, <3>2, <4>1, <4>3, <4>4
        <3>. QED  BY <3>1, <3>2
    <2>. HIDE DEF g
    <2>2. g[n] \in Pfds
        BY <2>1
    <2>. DEFINE e == [ g[n] EXCEPT !.fd = fd, !.events = evs ]
    <2>3. e \in Pfds /\ e.fd = fd /\ e.events = evs
        <3>1. fd \in Int
            OBVIOUS
        <3>2. ASSUME NEW r \in Pfds
              PROVE  /\ [ r EXCEPT !.fd = fd, !.events = evs ] \in Pfds
                     /\ [ r EXCEPT !.fd = fd, !.events = evs ].fd = fd
                     /\ [ r EXCEPT !.fd = fd, !.events = evs ].events = evs
            BY <3>1 DEF Pfds
        <3>. QED  BY <2>2, <3>2
    <2>4. q = [ ufds |-> [ g EXCEPT ![n] = e ], nfds |-> n ]
        BY <1>4, <2>1 DEF xpollfd_set, g
    <2>. HIDE DEF e, q
    <2>5. /\ q.nfds = n /\ n \in Nat /\ q.ufds \in Seq(Pfds) /\ Len(q.ufds) = Len(g)
          /\ q.ufds[n] = e /\ \A k \in 1..p.nfds : k # n /\ q.ufds[k] = p.ufds[k]
        BY <1>1, <2>1, <2>3, <2>4
    <2>6. q \in [ ufds : Seq(Pfds), nfds : Nat ] /\ q.nfds <= Len(q.ufds)
        BY <2>1, <2>4, <2>5
    <2>7. \A k \in 1..n : k \in 1..p.nfds \/ k = n
        BY <1>1
    <2>8. \A k \in 1..p.nfds : p.ufds[k].fd # fd
        BY <1>4 DEF entries
    <2>9. fd \notin fds_in(s)
        BY <2>8 DEF Entered
    <2>10. \A k \in 1..n : q.ufds[k].fd \in fds_in(t) /\ q.ufds[k].events = wanted_in(t, q.ufds[k].fd)
        <3>1. q.ufds[n].fd \in fds_in(t) /\ q.ufds[n].events = wanted_in(t, q.ufds[n].fd)
            BY <1>2, <2>3, <2>5, <2>9
        <3>2. ASSUME NEW k \in 1..p.nfds
              PROVE  q.ufds[k].fd \in fds_in(t) /\ q.ufds[k].events = wanted_in(t, q.ufds[k].fd)
            BY <1>2, <1>5, <2>5, <2>8
        <3>. QED  BY <2>7, <3>1, <3>2
    <2>11. \A j, k \in 1..n : q.ufds[j].fd = q.ufds[k].fd => j = k
        <3>1. \A k \in 1..p.nfds : q.ufds[k].fd = p.ufds[k].fd /\ q.ufds[k].fd # fd
            BY <2>5, <2>8
        <3>2. q.ufds[n].fd = fd
            BY <2>3, <2>5
        <3>. QED  BY <1>5, <2>7, <3>1, <3>2
    <2>12. \A f \in fds_in(t) : \E k \in 1..n : q.ufds[k].fd = f
        <3>1. 1..p.nfds \subseteq 1..n /\ n \in 1..n
            BY <1>1
        <3>2. q.ufds[n].fd = fd /\ \A k \in 1..p.nfds : q.ufds[k].fd = p.ufds[k].fd
            BY <2>3, <2>5
        <3>. QED  BY <1>2, <1>5, <3>1, <3>2
    <2>13. Entered(q, t)
        BY <1>6, <2>5, <2>6, <2>10, <2>11, <2>12
    <2>. QED  BY <2>13 DEF q, t, a
<1>. QED  BY <1>3, <1>4

(* Poll changes nothing but what it reports.                               *)
LEMMA PollEnters ==
    ASSUME NEW p, NEW s, Entered(p, s), NEW replies
    PROVE  Entered(polled(p, replies), s)
<1>. DEFINE q == polled(p, replies)
            e(i) == [ p.ufds[i] EXCEPT !.revents = replies[p.ufds[i].fd] \cap (p.ufds[i].events \cup Errors) ]
<1>1. /\ p.ufds \in Seq(Pfds) /\ p.nfds \in Nat /\ Len(p.ufds) \in Nat /\ DOMAIN p.ufds = 1..Len(p.ufds)
      /\ p = [ ufds |-> p.ufds, nfds |-> p.nfds ] /\ p.nfds <= Len(p.ufds)
    BY DEF Entered
<1>2. q = [ ufds |-> [ i \in 1..Len(p.ufds) |-> IF i > p.nfds THEN p.ufds[i] ELSE e(i) ], nfds |-> p.nfds ]
    <2>. DEFINE f == [ i \in DOMAIN p.ufds |-> IF i > p.nfds THEN p.ufds[i] ELSE e(i) ]
    <2>1. q = [ p EXCEPT !.ufds = f ]
        BY DEF polled
    <2>. HIDE DEF f, q
    <2>2. q = [ ufds |-> f, nfds |-> p.nfds ]
        BY <1>1, <2>1
    <2>3. f = [ i \in 1..Len(p.ufds) |-> IF i > p.nfds THEN p.ufds[i] ELSE e(i) ]
        BY <1>1 DEF f
    <2>. QED  BY <2>2, <2>3
<1>3. ASSUME NEW i \in 1..Len(p.ufds)
      PROVE  p.ufds[i] \in Pfds /\ e(i) \in Pfds /\ e(i).fd = p.ufds[i].fd /\ e(i).events = p.ufds[i].events
    <2>1. p.ufds[i] \in Pfds
        BY <1>1
    <2>. QED  BY <2>1 DEF Pfds
<1>. HIDE DEF q, e
<1>4. q.ufds \in Seq(Pfds) /\ Len(q.ufds) = Len(p.ufds) /\ q.nfds = p.nfds
    BY <1>1, <1>2, <1>3
<1>5. \A i \in 1..p.nfds : q.ufds[i].fd = p.ufds[i].fd /\ q.ufds[i].events = p.ufds[i].events
    BY <1>1, <1>2, <1>3
<1>6. q \in [ ufds : Seq(Pfds), nfds : Nat ] /\ q.nfds <= Len(q.ufds)
    BY <1>1, <1>2, <1>4
<1>7. s \in Seq(Asks) /\ \A i \in 1..p.nfds :
         /\ p.ufds[i].fd \in fds_in(s) /\ p.ufds[i].events = wanted_in(s, p.ufds[i].fd)
         /\ \A j \in 1..p.nfds : p.ufds[i].fd = p.ufds[j].fd => i = j
    BY DEF Entered
<1>8. \A fd \in fds_in(s) : \E i \in 1..p.nfds : p.ufds[i].fd = fd
    BY DEF Entered
<1>9. /\ \A i, j \in 1..q.nfds : q.ufds[i].fd = q.ufds[j].fd => i = j
      /\ \A i \in 1..q.nfds : q.ufds[i].fd \in fds_in(s) /\ q.ufds[i].events = wanted_in(s, q.ufds[i].fd)
      /\ \A fd \in fds_in(s) : \E i \in 1..q.nfds : q.ufds[i].fd = fd
    BY <1>4, <1>5, <1>7, <1>8
<1>10. Entered(q, s)
    BY <1>6, <1>7, <1>9 DEF Entered
<1>. QED  BY <1>10 DEF q

(* The descriptors of a turn are numbered by their entries.                *)
LEMMA EnteredAsks ==
    ASSUME Entered(pfd, asked)
    PROVE  AsksForAll
<1>. DEFINE fds == { asked[i].fd : i \in DOMAIN asked }
            n == pfd.nfds
            f == [ i \in 1..n |-> pfd.ufds[i].fd ]
<1>1. fds = fds_in(asked) /\ n \in Nat /\ \A fd : wanted(fd) = wanted_in(asked, fd)
    BY DEF Entered, fds_in, wanted, wanted_in
<1>. HIDE DEF n
<1>2. f \in Bijection(1..n, fds)
    BY <1>1 DEF Entered, n, Bijection, Injection, Surjection, IsInjective
<1>3. ExistsBijection(1..n, fds)
    BY <1>2 DEF ExistsBijection
<1>4. n = Cardinality(fds)
    BY <1>1, <1>3, FS_CountingElements
<1>5. ASSUME NEW fd \in fds
      PROVE  \E i \in 1..pfd.nfds : pfd.ufds[i].fd = fd /\ pfd.ufds[i].events = wanted(fd)
    <2>1. \A x \in fds_in(asked) : \E i \in 1..pfd.nfds : pfd.ufds[i].fd = x
        BY DEF Entered
    <2>2. \A i \in 1..pfd.nfds : pfd.ufds[i].events = wanted_in(asked, pfd.ufds[i].fd)
        BY DEF Entered
    <2>3. PICK i \in 1..pfd.nfds : pfd.ufds[i].fd = fd
        BY <1>1, <2>1
    <2>. QED  BY <1>1, <2>2, <2>3
<1>6. ASSUME NEW i \in DOMAIN pfd.ufds, pfd.ufds[i].fd \notin fds
      PROVE  xpollfd_revents(pfd, pfd.ufds[i].fd) = {}
    <2>1. entries(pfd, pfd.ufds[i].fd) = {}
        BY <1>1, <1>6 DEF Entered, entries
    <2>. QED  BY <2>1 DEF xpollfd_revents
<1>. QED  BY <1>4, <1>5, <1>6 DEF AsksForAll, n

(* Whatever is asked for in whatever order, and whatever the entries hold  *)
(* from turns before, each descriptor of a turn is polled once and for all *)
(* that was asked of it.                                                   *)
THEOREM TurnsAskForAll == XpollSpec => []AsksForAll
<1>. DEFINE Inv == Entered(pfd, asked)
<1>1. XpollInit => Inv
    <2>. SUFFICES ASSUME XpollInit PROVE Inv
        OBVIOUS
    <2>. DEFINE new == [ i \in 1..XPOLLFD_ALLOC_CHUNK |-> unset ]
    <2>1. pfd = [ ufds |-> new, nfds |-> 0 ] /\ asked = << >>
        BY DEF XpollInit, xpollfd_create
    <2>2. new \in Seq(Pfds) /\ Len(new) \in Nat
        <3>1. XPOLLFD_ALLOC_CHUNK \in Nat /\ unset \in Pfds
            BY XpollAssumption DEF unset, Pfds
        <3>. QED  BY <3>1
    <2>. HIDE DEF new
    <2>3. fds_in(asked) = {} /\ asked \in Seq(Asks)
        BY <2>1 DEF fds_in
    <2>. QED  BY <2>1, <2>2, <2>3 DEF Entered
<1>2. Inv /\ [XpollNext]_xpoll_vars => Inv'
    <2>. SUFFICES ASSUME Inv, [XpollNext]_xpoll_vars PROVE Inv'
        OBVIOUS
    <2>1. CASE Zero
        <3>1. /\ pfd.ufds \in Seq(Pfds) /\ pfd = [ ufds |-> pfd.ufds, nfds |-> pfd.nfds ]
              /\ Len(pfd.ufds) \in Nat
            BY DEF Entered
        <3>2. pfd' = [ ufds |-> pfd.ufds, nfds |-> 0 ] /\ asked' = << >>
            BY <2>1, <3>1 DEF Zero, xpollfd_zero
        <3>3. fds_in(asked') = {} /\ asked' \in Seq(Asks)
            BY <3>2 DEF fds_in
        <3>. QED  BY <3>1, <3>2, <3>3 DEF Entered
    <2>2. CASE \E fd \in Nat, evs \in SUBSET Events : Ask(fd, evs)
        BY <2>2, AskEnters DEF Ask
    <2>3. CASE \E replies \in [Nat -> SUBSET (Events \cup Errors)] : Return(replies)
        BY <2>3, PollEnters DEF Return
    <2>4. CASE Tick \/ Signal \/ (\E tv \in Timeouts : Call(tv)) \/ UNCHANGED xpoll_vars
        BY <2>4 DEF Tick, Signal, Call, xpoll_vars
    <2>. QED  BY <2>1, <2>2, <2>3, <2>4 DEF XpollNext
<1>3. Inv => AsksForAll
    BY EnteredAsks
<1>. QED  BY <1>1, <1>2, <1>3, PTL DEF XpollSpec

(* What is left of a wait is the time-out less the time since it was set,  *)
(* and only one that is late has nothing left.                             *)
WaitOK ==
    /\ wait \in [ tv : Nat, timeout : Int, slept : Nat, total : Nat, in : BOOLEAN, late : BOOLEAN ]
    /\ wait.in =>
         /\ wait.total - wait.slept + wait.timeout = wait.tv
         /\ wait.late \/ (wait.slept <= wait.timeout /\ wait.timeout >= 0)

(* A wait is rounded down to the unit of poll, by less than that unit.     *)
LEMMA RoundedDown ==
    ASSUME NEW t \in Int
    PROVE  /\ t \div MSEC \in Int /\ (t \div MSEC) * MSEC \in Int
           /\ (t \div MSEC) * MSEC <= t /\ t - MSEC < (t \div MSEC) * MSEC
           /\ t >= 0 => t \div MSEC >= 0
           /\ t < 0 => t \div MSEC < 0
<1>1. MSEC \in Nat \ {0}
    BY XpollAssumption
<1>. QED  BY <1>1

(* However often signals interrupt it, a wait is not longer than it was    *)
(* asked for, nor shorter by a unit, unless a signal came so late that     *)
(* nothing was left.                                                       *)
THEOREM WaitsAreExact == XpollSpec => WaitsAsLongAsAsked
<1>. DEFINE A ==
         wait.in =>
           /\ (~wait'.in /\ Due) => wait.total > wait.tv - MSEC
           /\ wait'.late \/ wait'.total <= wait.tv
<1>1. XpollInit => WaitOK
    BY DEF XpollInit, Idle, WaitOK
<1>2. WaitOK /\ [XpollNext]_xpoll_vars => WaitOK' /\ [A]_wait
    <2>. SUFFICES ASSUME WaitOK, [XpollNext]_xpoll_vars PROVE WaitOK' /\ [A]_wait
        OBVIOUS
    <2>. DEFINE Waits == [ tv : Nat, timeout : Int, slept : Nat, total : Nat, in : BOOLEAN, late : BOOLEAN ]
    <2>1. /\ wait \in Waits
          /\ wait.tv \in Nat /\ wait.timeout \in Int /\ wait.slept \in Nat /\ wait.total \in Nat
          /\ wait.in \in BOOLEAN /\ wait.late \in BOOLEAN
        BY DEF WaitOK
    <2>2. MSEC \in Nat \ {0}
        BY XpollAssumption
    <2>3. CASE \E tv \in Timeouts : Call(tv)
        <3>1. PICK tv \in Timeouts : Call(tv)
            BY <2>3
        <3>2. tv \in Nat
            BY XpollAssumption
        <3>3. wait' = [ tv |-> tv, timeout |-> tv, slept |-> 0, total |-> 0, in |-> TRUE, late |-> FALSE ] /\ ~wait.in
            BY <3>1 DEF Call, Idle
        <3>. QED  BY <3>2, <3>3 DEF WaitOK
    <2>4. CASE Tick
        <3>1. wait' = [ wait EXCEPT !.slept = @ + 1, !.total = @ + 1 ] /\ wait.in /\ ~Due
            BY <2>4 DEF Tick
        <3>0. wait.slept + 1 \in Nat /\ wait.total + 1 \in Nat
            BY <2>1
        <3>2. /\ wait' \in Waits /\ wait'.tv = wait.tv /\ wait'.timeout = wait.timeout
              /\ wait'.slept = wait.slept + 1 /\ wait'.total = wait.total + 1
              /\ wait'.in = wait.in /\ wait'.late = wait.late
            BY <2>1, <3>0, <3>1
        <3>3. /\ wait.total - wait.slept + wait.timeout = wait.tv
              /\ wait.late \/ (wait.slept <= wait.timeout /\ wait.timeout >= 0)
            BY <3>1 DEF WaitOK
        <3>4. wait.late \/ wait.slept + 1 <= wait.timeout
            <4>1. SUFFICES ASSUME wait.timeout >= 0 PROVE wait.slept + 1 <= wait.timeout
                BY <3>3
            <4>2. wait.slept < (wait.timeout \div MSEC) * MSEC
                BY <2>1, <3>1, <4>1, RoundedDown DEF Due, TimedWait, tv_msec
            <4>. QED  BY <2>1, <4>2, RoundedDown
        <3>5. wait'.late \/ (wait'.slept <= wait'.timeout /\ wait'.timeout >= 0)
            BY <3>2, <3>3, <3>4
        <3>6. wait'.total - wait'.slept + wait'.timeout = wait'.tv
            BY <2>1, <3>2, <3>3
        <3>7. wait'.late \/ wait'.total <= wait.tv
            BY <2>1, <3>2, <3>5, <3>6
        <3>. QED  BY <3>1, <3>2, <3>5, <3>6, <3>7 DEF WaitOK
    <2>5. CASE Signal
        <3>1. PICK late \in {0, 1} :
                 wait' = [ wait EXCEPT !.total = wait.total + late, !.slept = 0, !.timeout = wait.tv - (wait.total + late),
                                       !.late = @ \/ wait.total + late > wait.tv ]
                 /\ wait.in
            BY <2>5 DEF Signal, time_left
        <3>0. late \in Int /\ wait.total + late \in Nat /\ wait.tv - (wait.total + late) \in Int
            BY <2>1
        <3>2. /\ wait' \in Waits /\ wait'.tv = wait.tv /\ wait'.timeout = wait.tv - (wait.total + late)
              /\ wait'.slept = 0 /\ wait'.total = wait.total + late
              /\ wait'.in = wait.in /\ wait'.late = (wait.late \/ wait.total + late > wait.tv)
            BY <2>1, <3>0, <3>1
        <3>3. wait'.total - wait'.slept + wait'.timeout = wait'.tv
            BY <2>1, <3>2
        <3>4. wait'.late \/ (wait'.slept <= wait'.timeout /\ wait'.timeout >= 0 /\ wait'.total <= wait.tv)
            BY <2>1, <3>2
        <3>. QED  BY <3>1, <3>2, <3>3, <3>4 DEF WaitOK
    <2>6. CASE \E replies \in [Nat -> SUBSET (Events \cup Errors)] : Return(replies)
        <3>1. wait' = [ wait EXCEPT !.in = FALSE ] /\ wait.in
            BY <2>6 DEF Return
        <3>2. /\ wait' \in Waits /\ ~wait'.in /\ wait'.total = wait.total /\ wait'.late = wait.late
            BY <2>1, <3>1
        <3>3. /\ wait.total - wait.slept + wait.timeout = wait.tv
              /\ wait.late \/ (wait.slept <= wait.timeout /\ wait.timeout >= 0)
            BY <3>1 DEF WaitOK
        <3>4. wait.late \/ wait.total <= wait.tv
            BY <2>1, <3>3
        <3>5. Due => wait.total > wait.tv - MSEC
            <4>1. SUFFICES ASSUME Due PROVE wait.slept > wait.timeout - MSEC
                BY <2>1, <2>2, <3>3
            <4>2. wait.slept >= (wait.timeout \div MSEC) * MSEC
                BY <4>1 DEF Due, tv_msec
            <4>3. wait.timeout - MSEC < (wait.timeout \div MSEC) * MSEC /\ (wait.timeout \div MSEC) * MSEC \in Int
                BY <2>1, RoundedDown
            <4>. QED  BY <2>1, <2>2, <4>2, <4>3
        <3>. QED  BY <3>2, <3>4, <3>5 DEF WaitOK
    <2>7. CASE Zero \/ (\E fd \in Nat, evs \in SUBSET Events : Ask(fd, evs)) \/ UNCHANGED xpoll_vars
        BY <2>7 DEF Zero, Ask, xpoll_vars, WaitOK
    <2>. QED  BY <2>3, <2>4, <2>5, <2>6, <2>7 DEF XpollNext
<1>. QED  BY <1>1, <1>2, PTL DEF XpollSpec, WaitsAsLongAsAsked

(***************************************************************************)
(* Telnet: what a stream means                                             *)
(***************************************************************************)
Roles == { "data", "iac", "verb", "option", "command" }

(* Each byte has a role, that follows from the one before.                 *)
LEMMA RolesRun ==
    ASSUME NEW s \in Seq(TelnetBytes)
    PROVE  /\ roles(s) \in [0..Len(s) -> Roles] /\ roles(s)[0] = "data"
           /\ \A n \in 1..Len(s) : roles(s)[n] = next_role(roles(s)[n - 1], s[n])
<1>. DEFINE n == Len(s)
            T == [ k \in 0..n |-> Roles ]
            body == [ k \in 1..n |-> [ x \in Roles |-> next_role(x, s[k]) ] ]
            r == roles(s)
<1>1. n \in Nat
    OBVIOUS
<1>2. \A k \in 1..n : \A x \in Roles : next_role(x, s[k]) \in Roles
    BY DEF next_role, Roles
<1>3. Stages(n, T, "data", body)
    <2>1. "data" \in T[0]
        BY <1>1 DEF Roles
    <2>2. \A k \in 1..n : k - 1 \in 0..n /\ k \in 0..n
        BY <1>1
    <2>3. \A k \in 1..n : \A x \in T[k - 1] : body[k][x] \in T[k]
        BY <1>2, <2>2
    <2>. HIDE DEF T, body, n
    <2>. QED  BY <1>1, <2>1, <2>3 DEF Stages
<1>4. PICK h : /\ h = [ k \in 0..n |-> h[k] ] /\ h[0] = "data"
               /\ \A k \in 1..n : h[k] = body[k][h[k - 1]]
               /\ \A k \in 0..n : h[k] \in T[k]
    <2>. HIDE DEF n, T, body
    <2>. QED  BY <1>3, Recurs
<1>5. \A k \in 0..n : h[k] \in Roles
    BY <1>4
<1>6. \A k \in 1..n : h[k] = next_role(h[k - 1], s[k])
    <2>1. \A k \in 1..n : k - 1 \in 0..n
        BY <1>1
    <2>. HIDE DEF n
    <2>. QED  BY <1>4, <1>5, <2>1
<1>7. \A k \in 0..n : k # 0 => k \in 1..n
    BY <1>1
<1>. HIDE DEF n
<1>8. h = [ k \in 0..n |-> IF k = 0 THEN "data" ELSE next_role(h[k - 1], s[k]) ]
    BY <1>4, <1>6, <1>7
<1>9. r = CHOOSE role : role = [ k \in 0..n |-> IF k = 0 THEN "data" ELSE next_role(role[k - 1], s[k]) ]
    BY DEF roles, n
<1>. HIDE DEF r
<1>10. r = [ k \in 0..n |-> IF k = 0 THEN "data" ELSE next_role(r[k - 1], s[k]) ]
    BY <1>8, <1>9
<1>11. 0 \in 0..n /\ \A k \in 1..n : k \in 0..n /\ k # 0 /\ k - 1 \in 0..n
    BY <1>1
<1>12. r[0] = "data" /\ \A k \in 1..n : r[k] = next_role(r[k - 1], s[k])
    BY <1>10, <1>11
<1>13. \A k \in 0..n : r[k] \in Roles
    <2>. DEFINE I == { k \in 0..n : r[k] \in Roles }
    <2>1. 0 \in I
        BY <1>11, <1>12 DEF Roles
    <2>2. ASSUME NEW k \in 0..n - 1, k \in I
          PROVE  k + 1 \in I
        <3>1. k + 1 \in 1..n /\ (k + 1) - 1 = k /\ k + 1 \in 0..n
            BY <1>1
        <3>2. r[k + 1] = next_role(r[k], s[k + 1])
            BY <1>12, <3>1
        <3>3. r[k] \in Roles
            BY <2>2
        <3>. QED  BY <1>2, <3>1, <3>2, <3>3
    <2>3. I = 0..n
        <3>1. I \in SUBSET (0..n)
            OBVIOUS
        <3>. HIDE DEF I
        <3>. QED  BY <1>1, <2>1, <2>2, <3>1, UpTo
    <2>. QED  BY <2>3
<1>. QED  BY <1>10, <1>12, <1>13 DEF r, n

(* One byte more does not change the roles of those before.                *)
LEMMA RolesMore ==
    ASSUME NEW s \in Seq(TelnetBytes), NEW b \in TelnetBytes
    PROVE  /\ \A k \in 0..Len(s) : roles(Append(s, b))[k] = roles(s)[k]
           /\ roles(Append(s, b))[Len(s) + 1] = next_role(roles(s)[Len(s)], b)
<1>. DEFINE t == Append(s, b)
            n == Len(s)
            r == roles(s)
            u == roles(t)
<1>1. n \in Nat /\ t \in Seq(TelnetBytes) /\ Len(t) = n + 1 /\ t[n + 1] = b
      /\ \A k \in 1..n : t[k] = s[k]
    OBVIOUS
<1>2. r[0] = "data" /\ \A k \in 1..n : r[k] = next_role(r[k - 1], s[k])
    BY RolesRun
<1>3. u[0] = "data" /\ \A k \in 1..n + 1 : u[k] = next_role(u[k - 1], t[k])
    <2>. HIDE DEF t, n
    <2>. QED  BY <1>1, RolesRun
<1>. HIDE DEF t, n, r, u
<1>. DEFINE I == { k \in 0..n : u[k] = r[k] }
<1>4. 0 \in I
    BY <1>1, <1>2, <1>3
<1>5. ASSUME NEW k \in 0..n - 1, k \in I
      PROVE  k + 1 \in I
    <2>1. k + 1 \in 1..n /\ (k + 1) - 1 = k /\ k + 1 \in 0..n /\ k + 1 \in 1..n + 1
        BY <1>1
    <2>2. u[k + 1] = next_role(u[k], t[k + 1]) /\ r[k + 1] = next_role(r[k], s[k + 1])
        BY <1>2, <1>3, <2>1
    <2>. QED  BY <1>1, <1>5, <2>1, <2>2
<1>6. I = 0..n
    <2>1. I \in SUBSET (0..n)
        OBVIOUS
    <2>. HIDE DEF I
    <2>. QED  BY <1>1, <1>4, <1>5, <2>1, UpTo
<1>7. u[n + 1] = next_role(u[n], t[n + 1])
    <2>1. n + 1 \in 1..n + 1 /\ (n + 1) - 1 = n
        BY <1>1
    <2>. QED  BY <1>3, <2>1
<1>8. n \in 0..n
    BY <1>1
<1>. QED  BY <1>1, <1>6, <1>7, <1>8 DEF t, n, r, u

(* The places of data, and of options that are asks for.                  *)
DataPlaces(s) == { n \in 1..Len(s) : roles(s)[n] = "data" }
AskPlaces(s) == { n \in 1..Len(s) :
    roles(s)[n] = "option" /\ s[n - 1] = DO /\ s[n] \in Granted \cup Refused }

(* One byte more is data, or it is not.                                    *)
LEMMA DataMore ==
    ASSUME NEW s \in Seq(TelnetBytes), NEW b \in TelnetBytes
    PROVE  data_of(Append(s, b)) = IF next_role(roles(s)[Len(s)], b) = "data"
                                   THEN Append(data_of(s), b) ELSE data_of(s)
<1>. DEFINE t == Append(s, b)
            n == Len(s)
            P == DataPlaces(s)
            Q == DataPlaces(t)
            x == next_role(roles(s)[n], b)
<1>1. n \in Nat /\ Len(t) = n + 1 /\ t[n + 1] = b /\ \A k \in 1..n : t[k] = s[k]
    OBVIOUS
<1>2. /\ \A k \in 0..n : roles(t)[k] = roles(s)[k]
      /\ roles(t)[n + 1] = x
    BY RolesMore
<1>3. data_of(s) = elements_at(s, P) /\ data_of(t) = elements_at(t, Q)
    BY DEF data_of, DataPlaces
<1>4. \A k \in 1..n + 1 : (k \in 1..n /\ k \in 0..n) \/ k = n + 1
    BY <1>1
<1>5. P \in SUBSET (1..n)
    BY DEF DataPlaces
<1>. HIDE DEF t, n, x
<1>6. Q = IF x = "data" THEN P \cup {n + 1} ELSE P
    <2>1. n + 1 \in 1..n + 1 /\ n + 1 \notin 1..n /\ \A k \in 1..n : k \in 1..n + 1
        BY <1>1
    <2>2. P = { k \in 1..n : roles(s)[k] = "data" } /\ Q = { k \in 1..n + 1 : roles(t)[k] = "data" }
        BY <1>1 DEF DataPlaces, n
    <2>. HIDE DEF P, Q
    <2>3. \A k : k \in Q <=> k \in P \/ (x = "data" /\ k = n + 1)
        BY <1>2, <1>4, <2>1, <2>2
    <2>. QED  BY <2>3
<1>. HIDE DEF P, Q
<1>7. /\ elements_at(t, P) = elements_at(s, P)
      /\ elements_at(t, P \cup {n + 1}) = Append(elements_at(s, P), t[n + 1])
    <2>1. n \in Nat
        BY <1>1
    <2>2. \A k \in 1..n : t[k] = s[k]
        BY <1>1
    <2>3. Longer(s, t, n, P)
        BY <1>5, <2>1, <2>2 DEF Longer
    <2>. QED  BY <2>3, ChoosesMore
<1>. QED  BY <1>1, <1>3, <1>6, <1>7 DEF t, n, x

(* One byte more asks for an option, or it does not.                       *)
LEMMA AsksMore ==
    ASSUME NEW s \in Seq(TelnetBytes), NEW b \in TelnetBytes
    PROVE  answers_of(Append(s, b)) =
             IF /\ next_role(roles(s)[Len(s)], b) = "option"
                /\ Append(s, b)[Len(s)] = DO /\ b \in Granted \cup Refused
             THEN Append(answers_of(s), answer_to(b)) ELSE answers_of(s)
<1>. DEFINE t == Append(s, b)
            n == Len(s)
            P == AskPlaces(s)
            Q == AskPlaces(t)
            x == next_role(roles(s)[n], b)
            f == [ k \in 1..n |-> answer_to(s[k]) ]
            g == [ k \in 1..n + 1 |-> answer_to(t[k]) ]
            asks == x = "option" /\ t[n] = DO /\ b \in Granted \cup Refused
<1>1. n \in Nat /\ Len(t) = n + 1 /\ t[n + 1] = b /\ \A k \in 1..n : t[k] = s[k]
    OBVIOUS
<1>2. /\ \A k \in 0..n : roles(t)[k] = roles(s)[k]
      /\ roles(t)[n + 1] = x
    BY RolesMore
<1>3. answers_of(s) = elements_at(f, P) /\ answers_of(t) = elements_at(g, Q)
    BY <1>1 DEF answers_of, AskPlaces
<1>4. \A k \in 1..n + 1 : (k \in 1..n /\ k \in 0..n) \/ k = n + 1
    BY <1>1
<1>5. P \in SUBSET (1..n)
    BY DEF AskPlaces
<1>8. roles(s)[0] = "data"
    BY RolesRun
<1>9. roles(s)[1 - 1] \in {"data"}
    BY <1>8
<1>10. ASSUME NEW k \in 1..n, roles(s)[k] = "option"
       PROVE  k - 1 \in 1..n
    <2>1. roles(s)[k] = next_role(roles(s)[k - 1], s[k])
        BY RolesRun
    <2>2. next_role("data", s[k]) # "option"
        BY DEF next_role
    <2>3. k # 1
        BY <1>10, <2>1, <2>2, <1>8
    <2>. QED  BY <2>3
<1>. HIDE DEF t, n, x
<1>6. Q = IF asks THEN P \cup {n + 1} ELSE P
    <2>1. n + 1 \in 1..n + 1 /\ n + 1 \notin 1..n /\ (\A k \in 1..n : k \in 1..n + 1) /\ (n + 1) - 1 = n
        BY <1>1
    <2>2. /\ P = { k \in 1..n : roles(s)[k] = "option" /\ s[k - 1] = DO /\ s[k] \in Granted \cup Refused }
          /\ Q = { k \in 1..n + 1 : roles(t)[k] = "option" /\ t[k - 1] = DO /\ t[k] \in Granted \cup Refused }
        BY <1>1 DEF AskPlaces, n
    <2>. HIDE DEF P, Q
    <2>3. \A k : k \in 1..n => (k \in Q <=> k \in P)
        <3>1. \A k \in 1..n : roles(t)[k] = roles(s)[k] /\ t[k] = s[k] /\ k \in 1..n + 1
            BY <1>1, <1>2, <1>4, <2>1
        <3>2. \A k \in 1..n : roles(s)[k] = "option" => t[k - 1] = s[k - 1]
            BY <1>1, <1>10
        <3>. QED  BY <2>2, <3>1, <3>2
    <2>4. n + 1 \in Q <=> asks
        BY <1>1, <1>2, <2>1, <2>2
    <2>5. \A k : k \in Q => k \in 1..n \/ k = n + 1
        BY <1>4, <2>2
    <2>6. n + 1 \notin P /\ \A k : k \in P => k \in 1..n
        BY <2>1, <2>2
    <2>. HIDE DEF asks
    <2>7. \A k : k \in Q <=> k \in P \/ (asks /\ k = n + 1)
        BY <2>3, <2>4, <2>5, <2>6
    <2>. QED  BY <2>7
<1>. HIDE DEF P, Q, asks
<1>7. /\ elements_at(g, P) = elements_at(f, P)
      /\ elements_at(g, P \cup {n + 1}) = Append(elements_at(f, P), g[n + 1])
    <2>1. n \in Nat
        BY <1>1
    <2>2. \A k \in 1..n : g[k] = f[k]
        BY <1>1
    <2>. HIDE DEF f, g
    <2>3. Longer(f, g, n, P)
        BY <1>5, <2>1, <2>2 DEF Longer
    <2>. QED  BY <2>3, ChoosesMore
<1>11. g[n + 1] = answer_to(b)
    BY <1>1
<1>. HIDE DEF f, g
<1>12. answers_of(t) = IF asks THEN Append(answers_of(s), answer_to(b)) ELSE answers_of(s)
    BY <1>3, <1>6, <1>7, <1>11
<1>. QED  BY <1>12 DEF t, n, x, asks

(***************************************************************************)
(* The state machine                                                       *)
(***************************************************************************)
Answers == { "WILL", "WONT" } \X TelnetBytes
Machines ==
    [ tstate : { "NONE", "CMD", "OPT" }, tcmd : {0} \cup TelnetBytes, device : Seq(TelnetBytes), sent : Seq(Answers) ]

(* st is right about the stream s, when tk has been matched of it.         *)
Fed(st, s, tk) ==
    /\ tk \o st.device = data_of(s) /\ st.sent = answers_of(s)
    /\ st.tstate = CASE roles(s)[Len(s)] = "iac" -> "CMD" [] roles(s)[Len(s)] = "verb" -> "OPT" [] OTHER -> "NONE"
    /\ roles(s)[Len(s)] = "verb" => Len(s) # 0 /\ st.tcmd = s[Len(s)]

(* The machine keeps to its states.                                        *)
LEMMA StepType ==
    ASSUME NEW st \in Machines, NEW b \in TelnetBytes
    PROVE  step(st, b) \in Machines
<1>1. Append(st.device, b) \in Seq(TelnetBytes)
    BY DEF Machines
<1>2. answers(st.tcmd, b) \in Seq(Answers)
    <2>1. << "WILL", b >> \in Answers /\ << "WONT", b >> \in Answers
        BY DEF Answers
    <2>2. << << "WILL", b >> >> \in Seq(Answers) /\ << << "WONT", b >> >> \in Seq(Answers) /\ << >> \in Seq(Answers)
        <3>. HIDE DEF Answers
        <3>. QED  BY <2>1
    <2>. QED  BY <2>2 DEF answers
<1>3. st.sent \o answers(st.tcmd, b) \in Seq(Answers)
    BY <1>2 DEF Machines
<1>4. DO \in TelnetBytes
    BY TelnetAssumption
<1>. QED  BY <1>1, <1>3, <1>4 DEF step, Machines

(* One byte more.                                                          *)
LEMMA FedByte ==
    ASSUME NEW st \in Machines, NEW s \in Seq(TelnetBytes), NEW tk \in Seq(TelnetBytes),
           NEW b \in TelnetBytes, Fed(st, s, tk)
    PROVE  Fed(step(st, b), Append(s, b), tk)
<1>. DEFINE r == roles(s)[Len(s)]
            t == Append(s, b)
            x == next_role(r, b)
            u == step(st, b)
            last == s[Len(s)]
<1>1. Len(t) = Len(s) + 1 /\ t[Len(s) + 1] = b /\ Len(s) \in Nat /\ (Len(s) # 0 => t[Len(s)] = last)
    OBVIOUS
<1>2. roles(t)[Len(t)] = x
    BY <1>1, RolesMore
<1>3. /\ tk \o st.device = data_of(s) /\ st.sent = answers_of(s)
      /\ st.tstate = CASE r = "iac" -> "CMD" [] r = "verb" -> "OPT" [] OTHER -> "NONE"
      /\ r = "verb" => Len(s) # 0 /\ st.tcmd = last
    BY DEF Fed
<1>4. data_of(t) = IF x = "data" THEN Append(data_of(s), b) ELSE data_of(s)
    BY DataMore
<1>5. answers_of(t) = IF x = "option" /\ t[Len(s)] = DO /\ b \in Granted \cup Refused
                      THEN Append(answers_of(s), answer_to(b)) ELSE answers_of(s)
    BY AsksMore
<1>6. tk \o Append(st.device, b) = Append(tk \o st.device, b)
    BY DEF Machines
<1>7. DOMAIN st = { "tstate", "tcmd", "device", "sent" }
    BY DEF Machines
<1>8. r \in Roles
    BY <1>1, RolesRun
<1>. HIDE DEF t, x, r, last
<1>9. CASE r = "iac"
    <2>1. st.tstate = "CMD"
        BY <1>3, <1>9
    <2>2. x = IF b = IAC THEN "data" ELSE IF b \in OtherCommands \cup {DO} THEN "verb" ELSE "command"
        BY <1>9 DEF x, next_role
    <2>3. CASE b = IAC
        <3>1. u.tstate = "NONE" /\ u.device = Append(st.device, b) /\ u.sent = st.sent
            BY <1>7, <2>1, <2>3 DEF step
        <3>2. x = "data"
            BY <2>2, <2>3
        <3>. HIDE DEF u
        <3>. QED  BY <1>2, <1>3, <1>4, <1>5, <1>6, <3>1, <3>2 DEF Fed, t, u
    <2>4. CASE b # IAC /\ b \in OtherCommands \cup {DO}
        <3>1. u.tstate = "OPT" /\ u.tcmd = b /\ u.device = st.device /\ u.sent = st.sent
            BY <1>7, <2>1, <2>4 DEF step
        <3>2. x = "verb"
            BY <2>2, <2>4
        <3>. HIDE DEF u
        <3>. QED  BY <1>1, <1>2, <1>3, <1>4, <1>5, <3>1, <3>2 DEF Fed, t, u
    <2>5. CASE b # IAC /\ b \notin OtherCommands \cup {DO}
        <3>1. u.tstate = "NONE" /\ u.device = st.device /\ u.sent = st.sent
            BY <1>7, <2>1, <2>5 DEF step
        <3>2. x = "command"
            BY <2>2, <2>5
        <3>. HIDE DEF u
        <3>. QED  BY <1>2, <1>3, <1>4, <1>5, <3>1, <3>2 DEF Fed, t, u
    <2>. QED  BY <2>3, <2>4, <2>5
<1>10. CASE r = "verb"
    <2>1. st.tstate = "OPT"
        BY <1>3, <1>10
    <2>2. x = "option"
        BY <1>10 DEF x, next_role
    <2>3. u.tstate = "NONE" /\ u.device = st.device /\ u.sent = st.sent \o answers(st.tcmd, b)
        BY <1>7, <2>1 DEF step
    <2>4. st.tcmd = t[Len(s)]
        BY <1>1, <1>3, <1>10
    <2>5. st.sent \o answers(st.tcmd, b) =
             IF t[Len(s)] = DO /\ b \in Granted \cup Refused THEN Append(st.sent, answer_to(b)) ELSE st.sent
        <3>1. st.sent \in Seq(Answers)
            BY DEF Machines
        <3>2. answers(st.tcmd, b) = IF t[Len(s)] = DO /\ b \in Granted \cup Refused
                                    THEN << answer_to(b) >> ELSE << >>
            BY <2>4 DEF answers, answer_to
        <3>3. \A a : st.sent \o << a >> = Append(st.sent, a)
            BY <3>1
        <3>4. st.sent \o << >> = st.sent
            BY <3>1
        <3>. QED  BY <3>2, <3>3, <3>4
    <2>. HIDE DEF u
    <2>. QED  BY <1>2, <1>3, <1>4, <1>5, <2>2, <2>3, <2>5 DEF Fed, t, u
<1>11. CASE r # "iac" /\ r # "verb"
    <2>1. st.tstate = "NONE"
        BY <1>3, <1>11
    <2>2. x = IF b = IAC THEN "iac" ELSE "data"
        BY <1>11 DEF x, next_role
    <2>3. CASE b = IAC
        <3>1. u.tstate = "CMD" /\ u.device = st.device /\ u.sent = st.sent
            BY <1>7, <2>1, <2>3 DEF step
        <3>2. x = "iac"
            BY <2>2, <2>3
        <3>. HIDE DEF u
        <3>. QED  BY <1>2, <1>3, <1>4, <1>5, <3>1, <3>2 DEF Fed, t, u
    <2>4. CASE b # IAC
        <3>1. u.tstate = "NONE" /\ u.device = Append(st.device, b) /\ u.sent = st.sent
            BY <1>7, <2>1, <2>4 DEF step
        <3>2. x = "data"
            BY <2>2, <2>4
        <3>. HIDE DEF u
        <3>. QED  BY <1>2, <1>3, <1>4, <1>5, <1>6, <3>1, <3>2 DEF Fed, t, u
    <2>. QED  BY <2>3, <2>4
<1>. QED  BY <1>9, <1>10, <1>11

(* What the buffer does to the machine, byte by byte.                      *)
LEMMA Processes ==
    ASSUME NEW buf \in Seq(TelnetBytes), NEW base \in Machines
    PROVE  \E h \in [0..Len(buf) -> Machines] :
             /\ h[0] = base /\ h[Len(buf)] = FoldLeft(step, base, buf)
             /\ \A i \in 1..Len(buf) : h[i] = step(h[i - 1], buf[i])
<1>. DEFINE n    == Len(buf)
            S    == Machines
            it0  == CHOOSE g : g = [ e \in SUBSET DOMAIN buf |->
                       IF e = {} THEN base ELSE step(g[e \ {Max(e)}], buf[Max(e)]) ]
            body == [ i \in 1..n |-> [ t \in S |-> step(t, buf[i]) ] ]
<1>1. n \in Nat /\ DOMAIN buf = 1..n /\ \A i \in 1..n : buf[i] \in TelnetBytes
    OBVIOUS
<1>3. body \in [1..n -> [S -> S]]
    <2>1. \A i \in 1..n : \A t \in S : step(t, buf[i]) \in S
        BY <1>1, StepType
    <2>. HIDE DEF S
    <2>. QED  BY <2>1
<1>4. FoldLeft(step, base, buf) = it0[DOMAIN buf]
    BY Zenon DEF FoldLeft, MapThenFoldSet
<1>. HIDE DEF S
<1>5. \E g : g = [ e \in SUBSET DOMAIN buf |->
                       IF e = {} THEN base ELSE step(g[e \ {Max(e)}], buf[Max(e)]) ]
    <2>. HIDE DEF body, n
    <2>1. PICK iter : TakesLast(iter, S, base, n, body)
        BY <1>1, <1>3, FoldRuns DEF S
    <2>2. /\ iter \in [SUBSET (1..n) -> S]
          /\ \A e \in SUBSET (1..n) :
               iter[e] = IF e = {} THEN base ELSE body[Max(e)][iter[e \ {Max(e)}]]
        BY <2>1 DEF TakesLast
    <2>3. ASSUME NEW e \in SUBSET (1..n), e # {}
          PROVE  iter[e] = step(iter[e \ {Max(e)}], buf[Max(e)])
        <3>1. Max(e) \in 1..n
            BY <1>1, <2>3, MaxIn
        <3>2. e \ {Max(e)} \in SUBSET (1..n)
            OBVIOUS
        <3>. HIDE DEF Max
        <3>3. iter[e \ {Max(e)}] \in S
            BY <2>2, <3>2
        <3>4. iter[e] = body[Max(e)][iter[e \ {Max(e)}]]
            BY <2>2, <2>3
        <3>. QED  BY <3>1, <3>3, <3>4 DEF body
    <2>4. iter = [ e \in SUBSET DOMAIN buf |->
                     IF e = {} THEN base ELSE step(iter[e \ {Max(e)}], buf[Max(e)]) ]
        BY <1>1, <2>2, <2>3
    <2>. QED  BY <2>4
<1>6. it0 = [ e \in SUBSET DOMAIN buf |->
               IF e = {} THEN base ELSE step(it0[e \ {Max(e)}], buf[Max(e)]) ]
    BY <1>5
<1>. HIDE DEF it0
<1>7. IsReached(it0[1..n], S, base, n, body)
    <2>1. it0[{}] = base
        BY <1>6
    <2>2. ASSUME NEW i \in 1..n, it0[1..i - 1] \in S
          PROVE  it0[1..i] = body[i][it0[1..i - 1]]
        <3>1. Max(1..i) = i /\ (1..i) \ {i} = 1..i - 1 /\ 1..i # {}
            BY MaxUpTo
        <3>2. 1..i \in SUBSET DOMAIN buf
            BY <1>1
        <3>. HIDE DEF Max
        <3>3. it0[1..i] = step(it0[1..i - 1], buf[i])
            <4>. DEFINE e == 1..i
            <4>1. it0[e] = step(it0[e \ {Max(e)}], buf[Max(e)])
                <5>. HIDE DEF e
                <5>1. e \in SUBSET DOMAIN buf /\ e # {}
                    BY <3>1, <3>2 DEF e
                <5>. QED  BY <1>6, <5>1
            <4>2. Max(e) = i /\ e \ {i} = 1..i - 1
                BY <3>1
            <4>3. it0[e] = step(it0[1..i - 1], buf[i])
                <5>. HIDE DEF e
                <5>. QED  BY <4>1, <4>2
            <4>. QED  BY <4>3
        <3>. QED  BY <2>2, <3>3
    <2>. HIDE DEF body, n
    <2>3. GoesOn(it0, S, base, n, body)
        BY <2>1, <2>2 DEF GoesOn
    <2>4. base \in S
        BY DEF S
    <2>. QED  BY <1>1, <1>3, <2>3, <2>4, FoldValues
<1>8. PICK h \in [0..n -> S] : h[0] = base /\ h[n] = it0[1..n] /\ \A i \in 1..n : h[i] = body[i][h[i - 1]]
    <2>. HIDE DEF body, n
    <2>. QED  BY <1>7 DEF IsReached, GoesUp
<1>9. \A i \in 1..n : h[i] = step(h[i - 1], buf[i])
    <2>1. \A i \in 1..n : h[i - 1] \in S
        BY <1>1
    <2>. HIDE DEF n
    <2>. QED  BY <1>8, <2>1
<1>. QED  BY <1>1, <1>4, <1>8, <1>9 DEF S

(* A machine is its four parts.                                            *)
LEMMA MachineParts ==
    ASSUME NEW st \in Machines
    PROVE  /\ st.tstate \in { "NONE", "CMD", "OPT" } /\ st.tcmd \in {0} \cup TelnetBytes
           /\ st.device \in Seq(TelnetBytes) /\ st.sent \in Seq(Answers)
           /\ st = [ tstate |-> st.tstate, tcmd |-> st.tcmd, device |-> st.device, sent |-> st.sent ]
           /\ \A d : [ st EXCEPT !.device = d ] =
                        [ tstate |-> st.tstate, tcmd |-> st.tcmd, device |-> d, sent |-> st.sent ]
<1>1. DOMAIN st = { "tstate", "tcmd", "device", "sent" }
    BY DEF Machines
<1>2. ASSUME NEW d
      PROVE  [ st EXCEPT !.device = d ] = [ tstate |-> st.tstate, tcmd |-> st.tcmd, device |-> d, sent |-> st.sent ]
    BY DEF Machines
<1>3. st = [ tstate |-> st.tstate, tcmd |-> st.tcmd, device |-> st.device, sent |-> st.sent ]
    BY DEF Machines
<1>4. /\ st.tstate \in { "NONE", "CMD", "OPT" } /\ st.tcmd \in {0} \cup TelnetBytes
      /\ st.device \in Seq(TelnetBytes) /\ st.sent \in Seq(Answers)
    BY DEF Machines
<1>. QED  BY <1>2, <1>3, <1>4

(* A machine that has taken nothing yet.                                   *)
LEMMA MachineMade ==
    ASSUME NEW a \in { "NONE", "CMD", "OPT" }, NEW b \in {0} \cup TelnetBytes,
           NEW d \in Seq(TelnetBytes), NEW e \in Seq(Answers)
    PROVE  [ tstate |-> a, tcmd |-> b, device |-> d, sent |-> e ] \in Machines
BY DEF Machines

(* What is appended to a sequence is appended to what it ends.             *)
LEMMA Appends ==
    ASSUME NEW s \in Seq(TelnetBytes), NEW c \in Seq(TelnetBytes), NEW y \in TelnetBytes
    PROVE  Append(s \o c, y) = s \o Append(c, y)
OBVIOUS

(* A read: what waited goes through the machine unchanged, and what comes  *)
(* is fed to it.                                                           *)
LEMMA ReadFeeds ==
    ASSUME NEW st \in Machines, NEW s \in Seq(TelnetBytes), NEW tk \in Seq(TelnetBytes), Fed(st, s, tk),
           NEW bytes \in Seq(TelnetBytes),
           st.device # << >> => st.tstate = "NONE" /\ \A i \in 1..Len(st.device) : st.device[i] # IAC
    PROVE  /\ FoldLeft(step, [ st EXCEPT !.device = << >> ], st.device \o bytes) \in Machines
           /\ Fed(FoldLeft(step, [ st EXCEPT !.device = << >> ], st.device \o bytes), s \o bytes, tk)
<1>. DEFINE from0 == st.device
            buf   == from0 \o bytes
            base  == [ st EXCEPT !.device = << >> ]
            m     == Len(from0)
            n     == Len(bytes)
            B     == TelnetBytes
<1>0. /\ from0 \in Seq(B) /\ << >> \in Seq(B)
      /\ st.tstate \in { "NONE", "CMD", "OPT" } /\ st.tcmd \in {0} \cup TelnetBytes /\ st.sent \in Seq(Answers)
      /\ st = [ tstate |-> st.tstate, tcmd |-> st.tcmd, device |-> from0, sent |-> st.sent ]
      /\ base = [ tstate |-> st.tstate, tcmd |-> st.tcmd, device |-> << >>, sent |-> st.sent ]
    BY MachineParts
<1>00. st.device # << >> => st.tstate = "NONE" /\ \A i \in 1..Len(st.device) : st.device[i] # IAC
    OBVIOUS
<1>01. from0 # << >> => st.tstate = "NONE" /\ \A i \in 1..m : from0[i] # IAC
    BY <1>00
<1>02. Fed(st, s, tk)
    OBVIOUS
<1>. HIDE DEF from0, base
<1>1. /\ from0 \in Seq(B) /\ m \in Nat /\ n \in Nat /\ buf \in Seq(B) /\ Len(buf) = m + n
      /\ \A i \in 1..m : buf[i] = from0[i] /\ from0[i] \in B
      /\ \A i \in 1..n : buf[m + i] = bytes[i] /\ bytes[i] \in B
    BY <1>0
<1>2. base \in Machines
    BY <1>0, MachineMade
<1>. HIDE DEF buf, m, n
<1>4. PICK h \in [0..m + n -> Machines] : /\ h[0] = base /\ h[m + n] = FoldLeft(step, base, buf)
                                          /\ \A i \in 1..m + n : h[i] = step(h[i - 1], buf[i])
    <2>1. \E h \in [0..Len(buf) -> Machines] :
             /\ h[0] = base /\ h[Len(buf)] = FoldLeft(step, base, buf)
             /\ \A i \in 1..Len(buf) : h[i] = step(h[i - 1], buf[i])
        BY <1>1, <1>2, Processes
    <2>. QED  BY <1>1, <2>1
<1>. DEFINE at(i) == [ tstate |-> st.tstate, tcmd |-> st.tcmd, device |-> SubSeq(from0, 1, i), sent |-> st.sent ]
            I == { i \in 0..m : h[i] = at(i) }
<1>5. 0 \in I
    <2>1. SubSeq(from0, 1, 0) = << >>
        BY <1>1
    <2>2. at(0) = base /\ 0 \in 0..m
        BY <1>0, <1>1, <2>1
    <2>. HIDE DEF at
    <2>. QED  BY <1>4, <2>2
<1>6. ASSUME NEW i \in 0..m - 1, i \in I
      PROVE  i + 1 \in I
    <2>1. i + 1 \in 1..m /\ i + 1 \in 1..m + n /\ (i + 1) - 1 = i /\ i + 1 \in 0..m /\ m # 0 /\ i \in Nat
        BY <1>1
    <2>2. from0 # << >>
        BY <1>1, <2>1 DEF m
    <2>3. st.tstate = "NONE" /\ from0[i + 1] # IAC
        BY <1>01, <2>1, <2>2
    <2>4. h[i + 1] = step(at(i), from0[i + 1])
        <3>1. h[i + 1] = step(h[i], buf[i + 1]) /\ h[i] = at(i) /\ buf[i + 1] = from0[i + 1]
            <4>. HIDE DEF at
            <4>. QED  BY <1>1, <1>4, <1>6, <2>1
        <3>. HIDE DEF at
        <3>. QED  BY <3>1
    <2>5. Append(SubSeq(from0, 1, i), from0[i + 1]) = SubSeq(from0, 1, i + 1)
        BY <1>1, <2>1 DEF m
    <2>6. step(at(i), from0[i + 1]) = at(i + 1)
        BY <2>3, <2>5 DEF step
    <2>. HIDE DEF at
    <2>. QED  BY <2>1, <2>4, <2>6
<1>7. h[m] = at(m)
    <2>1. I \in SUBSET (0..m)
        OBVIOUS
    <2>2. I = 0..m
        <3>. HIDE DEF I
        <3>. QED  BY <1>1, <1>5, <1>6, <2>1, UpTo
    <2>3. m \in 0..m
        BY <1>1
    <2>4. m \in I
        BY <2>2, <2>3
    <2>. QED  BY <2>4
<1>8. at(m) = st
    <2>1. SubSeq(from0, 1, m) = from0
        BY <1>1 DEF m
    <2>. QED  BY <1>0, <2>1
<1>9. h[m] = st
    BY <1>7, <1>8
<1>. HIDE DEF at, I
<1>. DEFINE J == { j \in 0..n : Fed(h[m + j], s \o SubSeq(bytes, 1, j), tk) }
<1>10. 0 \in J
    <2>1. s \o SubSeq(bytes, 1, 0) = s /\ m + 0 = m /\ 0 \in 0..n
        BY <1>1
    <2>. QED  BY <1>02, <1>9, <2>1
<1>11. ASSUME NEW j \in 0..n - 1, j \in J
       PROVE  j + 1 \in J
    <2>1. /\ j + 1 \in 1..n /\ j + 1 \in 0..n /\ m + (j + 1) \in 1..m + n /\ (m + (j + 1)) - 1 = m + j /\ j \in Nat
          /\ m + j \in 0..m + n
        BY <1>1
    <2>2. h[m + (j + 1)] = step(h[m + j], bytes[j + 1]) /\ bytes[j + 1] \in B /\ h[m + j] \in Machines
        BY <1>1, <1>4, <2>1
    <2>. DEFINE q == s \o SubSeq(bytes, 1, j)
    <2>3. q \in Seq(B)
        BY <1>1, <2>1
    <2>4. Append(q, bytes[j + 1]) = s \o SubSeq(bytes, 1, j + 1)
        <3>1. Append(SubSeq(bytes, 1, j), bytes[j + 1]) = SubSeq(bytes, 1, j + 1)
            BY <1>1, <2>1 DEF n
        <3>2. ASSUME NEW c \in Seq(B), NEW y \in B
              PROVE  Append(s \o c, y) = s \o Append(c, y)
            BY Appends
        <3>3. SubSeq(bytes, 1, j) \in Seq(B)
            BY <1>1, <2>1 DEF n
        <3>. QED  BY <2>2, <3>1, <3>2, <3>3
    <2>5. Fed(h[m + j], q, tk)
        BY <1>11
    <2>. HIDE DEF q
    <2>6. Fed(step(h[m + j], bytes[j + 1]), Append(q, bytes[j + 1]), tk)
        BY <2>2, <2>3, <2>5, FedByte
    <2>. QED  BY <2>1, <2>2, <2>4, <2>6
<1>12. n \in J
    <2>1. J \in SUBSET (0..n)
        OBVIOUS
    <2>2. J = 0..n
        <3>. HIDE DEF J
        <3>. QED  BY <1>1, <1>10, <1>11, <2>1, UpTo
    <2>3. n \in 0..n
        BY <1>1
    <2>. HIDE DEF J
    <2>. QED  BY <2>2, <2>3
<1>13. SubSeq(bytes, 1, n) = bytes
    BY <1>1 DEF n
<1>14. h[m + n] \in Machines
    <2>1. m + n \in 0..m + n
        BY <1>1
    <2>. QED  BY <1>4, <2>1
<1>. QED  BY <1>4, <1>12, <1>13, <1>14 DEF base, buf, from0

(* The inductive invariant: the machine in between is right about what     *)
(* the device sent.                                                        *)
Machine == [ tstate |-> tstate, tcmd |-> tcmd, device |-> from, sent |-> sent ]

TelnetInv ==
    /\ Machine \in Machines /\ stream \in Seq(TelnetBytes) /\ taken \in Seq(TelnetBytes) /\ mixed \in BOOLEAN
    /\ mixed \/ Fed(Machine, stream, taken)

(* Nothing was sent, nothing was said.                                     *)
LEMMA FedAtFirst ==
    Fed([ tstate |-> "NONE", tcmd |-> 0, device |-> << >>, sent |-> << >> ], << >>, << >>)
<1>1. << >> \in Seq(TelnetBytes) /\ Len(<< >>) = 0 /\ 1..0 = {}
    OBVIOUS
<1>2. roles(<< >>)[0] = "data"
    BY <1>1, RolesRun
<1>3. Cardinality({}) = 0
    BY FS_EmptySet
<1>4. \A s : elements_at(s, {}) = << >>
    BY <1>1, <1>3 DEF elements_at
<1>5. data_of(<< >>) = << >> /\ answers_of(<< >>) = << >>
    BY <1>1, <1>4 DEF data_of, answers_of
<1>. QED  BY <1>1, <1>2, <1>5 DEF Fed

(* The machine is right whatever is read, matched or connected again.      *)
LEMMA TelnetStep == TelnetInv /\ [TelnetNext]_telnet_vars => TelnetInv'
<1>. SUFFICES ASSUME TelnetInv, [TelnetNext]_telnet_vars PROVE TelnetInv'
    OBVIOUS
<1>1. ASSUME NEW k \in 1..2, NEW bytes \in [1..k -> TelnetBytes], Read(bytes)
      PROVE  TelnetInv'
    <2>1. bytes \in Seq(TelnetBytes)
        OBVIOUS
    <2>. DEFINE m == Machine
                base == [ m EXCEPT !.device = << >> ]
                r == FoldLeft(step, base, from \o bytes)
    <2>2. base = [ tstate |-> tstate, tcmd |-> tcmd, device |-> << >>, sent |-> sent ]
        BY DEF Machine
    <2>3. /\ stream' = stream \o bytes /\ taken' = taken
          /\ from' = r.device /\ tstate' = r.tstate /\ tcmd' = r.tcmd /\ sent' = r.sent
          /\ mixed' = (mixed \/ (from # << >> /\ (tstate # "NONE" \/ IAC \in ToSet(from))))
        BY <1>1, <2>2 DEF Read, telnet_preprocess
    <2>9. m \in Machines /\ m.device = from /\ m.tstate = tstate /\ m.tcmd = tcmd /\ m.sent = sent
        BY DEF TelnetInv, Machine
    <2>4. base \in Machines /\ from \o bytes \in Seq(TelnetBytes) /\ from \in Seq(TelnetBytes)
        <3>. HIDE DEF m, base
        <3>1. from \in Seq(TelnetBytes) /\ tstate \in { "NONE", "CMD", "OPT" } /\ tcmd \in {0} \cup TelnetBytes
              /\ sent \in Seq(Answers)
            BY <2>9, MachineParts
        <3>2. << >> \in Seq(TelnetBytes)
            OBVIOUS
        <3>3. [ tstate |-> tstate, tcmd |-> tcmd, device |-> << >>, sent |-> sent ] \in Machines
            BY <3>1, <3>2, MachineMade
        <3>4. from \o bytes \in Seq(TelnetBytes)
            BY <2>1, <3>1
        <3>. QED  BY <2>2, <3>1, <3>3, <3>4
    <2>5. r \in Machines
        <3>. DEFINE buf == from \o bytes
        <3>. HIDE DEF base, buf
        <3>1. base \in Machines /\ buf \in Seq(TelnetBytes)
            BY <2>4 DEF buf
        <3>2. Len(buf) \in 0..Len(buf)
            BY <3>1
        <3>3. FoldLeft(step, base, buf) \in Machines
            <4>1. PICK h \in [0..Len(buf) -> Machines] : h[Len(buf)] = FoldLeft(step, base, buf)
                BY <3>1, Processes
            <4>. QED  BY <3>2, <4>1
        <3>. QED  BY <3>3 DEF buf
    <2>6. Machine' = r
        <3>1. r = [ tstate |-> r.tstate, tcmd |-> r.tcmd, device |-> r.device, sent |-> r.sent ]
            <4>. HIDE DEF r
            <4>. QED  BY <2>5 DEF Machines
        <3>. HIDE DEF r
        <3>. QED  BY <2>3, <3>1 DEF Machine
    <2>7. stream' \in Seq(TelnetBytes) /\ taken' \in Seq(TelnetBytes) /\ mixed' \in BOOLEAN
        <3>. HIDE DEF r
        <3>. QED  BY <2>1, <2>3 DEF TelnetInv
    <2>8. CASE ~mixed'
        <3>1. ~mixed /\ (from # << >> => tstate = "NONE" /\ IAC \notin ToSet(from))
            <4>. HIDE DEF r
            <4>. QED  BY <2>3, <2>8
        <3>2. Fed(m, stream, taken)
            BY <3>1 DEF TelnetInv
        <3>3. m \in Machines /\ m.device = from /\ m.tstate = tstate
            BY DEF TelnetInv, Machine
        <3>4. from # << >> => tstate = "NONE" /\ \A i \in 1..Len(from) : from[i] # IAC
            BY <2>4, <3>1 DEF ToSet
        <3>. HIDE DEF m
        <3>5. Fed(FoldLeft(step, [ m EXCEPT !.device = << >> ], m.device \o bytes), stream \o bytes, taken)
            <4>1. stream \in Seq(TelnetBytes) /\ taken \in Seq(TelnetBytes)
                BY DEF TelnetInv
            <4>. QED  BY <2>1, <3>2, <3>3, <3>4, <4>1, ReadFeeds
        <3>6. Fed(r, stream \o bytes, taken)
            BY <3>3, <3>5
        <3>. HIDE DEF r
        <3>. QED  BY <2>3, <2>5, <2>6, <2>7, <3>6 DEF TelnetInv
    <2>. HIDE DEF r
    <2>. QED  BY <2>5, <2>6, <2>7, <2>8 DEF TelnetInv
<1>2. ASSUME NEW n \in 1..MaxStream, Match(n)
      PROVE  TelnetInv'
    <2>. DEFINE a == SubSeq(from, 1, n)
                b == SubSeq(from, n + 1, Len(from))
    <2>1. /\ n \in Nat /\ n # 0 /\ n <= Len(from) /\ from \in Seq(TelnetBytes)
          /\ taken \in Seq(TelnetBytes) /\ stream \in Seq(TelnetBytes)
        BY <1>2, TelnetAssumption DEF Match, TelnetInv, Machines, Machine
    <2>2. taken' = taken \o a /\ from' = b /\ stream' = stream /\ tstate' = tstate /\ tcmd' = tcmd
          /\ sent' = sent /\ mixed' = mixed
        BY <1>2 DEF Match
    <2>3. a \in Seq(TelnetBytes) /\ b \in Seq(TelnetBytes)
        BY <2>1
    <2>4. (taken \o a) \o b = taken \o from
        <3>1. a \o b = from
            BY <2>1
        <3>. HIDE DEF a, b
        <3>2. (taken \o a) \o b = taken \o (a \o b)
            BY <2>1, <2>3
        <3>. QED  BY <3>1, <3>2
    <2>. HIDE DEF a, b
    <2>5. Machine' = [ tstate |-> tstate, tcmd |-> tcmd, device |-> b, sent |-> sent ]
        BY <2>2 DEF Machine
    <2>6. Machine' \in Machines
        BY <2>3, <2>5 DEF TelnetInv, Machines, Machine
    <2>7. taken \o a \in Seq(TelnetBytes)
        BY <2>1, <2>3
    <2>8. CASE mixed
        BY <2>1, <2>2, <2>6, <2>7, <2>8 DEF TelnetInv
    <2>9. CASE ~mixed
        <3>1. Fed(Machine, stream, taken)
            BY <2>9 DEF TelnetInv
        <3>2. Fed(Machine', stream, taken \o a)
            BY <2>4, <2>5, <3>1 DEF Fed, Machine
        <3>. QED  BY <2>1, <2>2, <2>6, <2>7, <3>2 DEF TelnetInv
    <2>. QED  BY <2>8, <2>9 DEF TelnetInv
<1>3. CASE Reconnect \/ TelnetInit'
    <2>1. /\ stream' = << >> /\ taken' = << >> /\ mixed' = FALSE
          /\ Machine' = [ tstate |-> "NONE", tcmd |-> 0, device |-> << >>, sent |-> << >> ]
        BY <1>3 DEF Reconnect, TelnetInit, telnet_init, Machine
    <2>2. Machine' \in Machines
        BY <2>1 DEF Machines
    <2>3. << >> \in Seq(TelnetBytes)
        OBVIOUS
    <2>4. Fed(Machine', stream', taken')
        BY <2>1, FedAtFirst
    <2>. QED  BY <2>1, <2>2, <2>3, <2>4 DEF TelnetInv
<1>4. CASE UNCHANGED telnet_vars
    BY <1>4 DEF telnet_vars, TelnetInv, Machine
<1>5. ASSUME NEW bytes \in UNION { [ 1..n -> TelnetBytes ] : n \in 1..2 }, Read(bytes)
      PROVE  TelnetInv'
    BY <1>1, <1>5
<1>. QED  BY <1>2, <1>3, <1>4, <1>5 DEF TelnetNext

(* At first too.                                                           *)
LEMMA TelnetStart == TelnetInit => TelnetInv
<1>. SUFFICES ASSUME TelnetInit PROVE TelnetInv
    OBVIOUS
<1>1. /\ stream = << >> /\ taken = << >> /\ mixed = FALSE
      /\ Machine = [ tstate |-> "NONE", tcmd |-> 0, device |-> << >>, sent |-> << >> ]
    BY DEF TelnetInit, telnet_init, Machine
<1>2. Machine \in Machines
    BY <1>1 DEF Machines
<1>3. << >> \in Seq(TelnetBytes)
    OBVIOUS
<1>4. Fed(Machine, stream, taken)
    BY <1>1, FedAtFirst
<1>. QED  BY <1>1, <1>2, <1>3, <1>4 DEF TelnetInv

(* TelnetInv holds of every state that is reached (device_tcp.c).          *)
LEMMA TelnetInvariant == TelnetSpec => []TelnetInv
BY TelnetStart, TelnetStep, PTL DEF TelnetSpec

(* However what a device sends is cut up into reads, the scripts see the   *)
(* bytes that are data by their places in the stream, in order and nothing *)
(* else (telnet_preprocess and _process_buf of device_tcp.c).              *)
THEOREM DataIsSeen == TelnetSpec => []ScriptsSeeTheData
<1>1. TelnetInv => ScriptsSeeTheData
    BY DEF TelnetInv, ScriptsSeeTheData, Fed, Machine
<1>. QED  BY <1>1, TelnetInvariant, PTL

(* And every DO of an option that is known is answered, in order and once, *)
(* however often the machine goes over the same bytes (_process_option).   *)
THEOREM OptionsAreAnswered == TelnetSpec => []OptionsAnsweredOnce
<1>1. TelnetInv => OptionsAnsweredOnce
    BY DEF TelnetInv, OptionsAnsweredOnce, Fed, Machine
<1>. QED  BY <1>1, TelnetInvariant, PTL
=============================================================================
