----------------------------- MODULE PlmProofs ------------------------------
(***************************************************************************)
(* Proofs about Plm, for any devices and any bounds: what plmpower says of *)
(* a device is so, as long as no answer comes after its time-out.          *)
(***************************************************************************)
EXTENDS Plm, TLAPS

(***************************************************************************)
(* The inductive invariant                                                 *)
(***************************************************************************)
Doings ==
    [ com : { "", "on", "off", "status", "ping", "info", "reset" },
      addr : Insteon \cup X10 \cup {""}, at : { "shell", "write", "echo", "answer", "end" }, n : Nat, timed : BOOLEAN ]

(* A command for the modem itself, or for a device.                        *)
Typed(d) ==
    /\ d.addr = "" => d.com \in { "info", "reset" }
    /\ d.addr # "" => d.com \in { "on", "off", "status", "ping" }

Messages ==
    [ cmd : { "NAK", "RECV_STD", "RECV_X10", "SEND", "SEND_X10", "info", "reset" },
      addr : Insteon \cup { "", "other" }, val : {0, 1, Full} ]

(* What the modem passes on that nobody asked for.                         *)
Unasked == { Message("RECV_X10", "", 0), Message("RECV_STD", "other", 0), Message("RECV_STD", "other", Full) }

(* An answer to command d is true while the devices are at the levels lv.  *)
Honest(d, lv, m) ==
    /\ m.cmd = "RECV_STD" /\ m.addr = d.addr
    /\ d.com = "on" /\ ~failed("on", m.val) => lv[d.addr] = Full
    /\ d.com = "off" /\ ~failed("off", m.val) => lv[d.addr] = 0
    /\ d.com = "status" => m.val = lv[d.addr]

(* All of s behind place k is noise.                                       *)
Noise(s, k) == \A i \in 1..Len(s) : i > k => s[i] \in Unasked

(* Of an Insteon command that the modem took there is one packet, or one   *)
(* answer, or neither: on its way to the device, from it, or in s behind k. *)
Flying(d, lv, a, b, s, k) ==
    \/ a = << >> /\ b = << >> /\ Noise(s, k)
    \/ d.addr \in Insteon /\ a = << packet(d) >> /\ b = << >> /\ Noise(s, k)
    \/ d.addr \in Insteon /\ a = << >> /\ Noise(s, k)
       /\ \E m \in Messages : b = << m >> /\ Honest(d, lv, m)
    \/ d.addr \in Insteon /\ a = << >> /\ b = << >>
       /\ \E q \in 1..Len(s) :
             /\ q > k /\ Honest(d, lv, s[q])
             /\ \A i \in 1..Len(s) : i > k /\ i # q => s[i] \in Unasked

(* The first n packets an X10 device is sent.                              *)
Told(com, n) == [ i \in 1..n |-> IF i % 2 = 1 THEN "unit" ELSE com ]

ToldSoFar(d, acc, n) == d.addr \in X10 => acc = Told(d.com, n) /\ d.n < 2 * x10_attempts

(* The packet is refused, and nothing else is on its way.                  *)
NotTaken(d, a, b, s) ==
    /\ a = << >> /\ b = << >>
    /\ \E r \in 1..Len(s) :
          /\ s[r] \in { NAK, Echo(packet(d).cmd, FALSE) }
          /\ \A i \in 1..Len(s) : i # r => s[i] \in Unasked

(* The packet is taken: its echo comes before its answer.                  *)
WasTaken(d, lv, a, b, s) ==
    \E r \in 1..Len(s) :
        /\ s[r] = Echo(packet(d).cmd, TRUE)
        /\ \A i \in 1..r - 1 : s[i] \in Unasked
        /\ Flying(d, lv, a, b, s, r)

Nothing == tx = << >> /\ air = << >> /\ back = << >> /\ Noise(rx, 0)

LastDone ==
    /\ last.addr \in Insteon =>
         /\ last.com = "on" => level[last.addr] = Full
         /\ last.com = "off" => level[last.addr] = 0
         /\ last.com = "status" => last.val = level[last.addr]
    /\ last.addr \in X10 => accepted = Told(last.com, 2 * x10_attempts)

(* Nothing of an earlier command is on its way when the next begins.       *)
OneAtATime ==
    /\ doing \in Doings
    /\ doing.at # "end" => rx \in Seq(Messages) /\ level \in [Insteon -> {0, Full}]
    /\ doing.at # "shell" => Typed(doing)
    /\ doing.at = "shell" => Nothing /\ LastDone
    /\ doing.at = "write" => Nothing /\ ToldSoFar(doing, accepted, doing.n)
    /\ doing.at = "echo" =>
         \/ /\ tx = << packet(doing) >> /\ air = << >> /\ back = << >> /\ Noise(rx, 0)
            /\ ToldSoFar(doing, accepted, doing.n)
         \/ tx = << >> /\ NotTaken(doing, air, back, rx) /\ ToldSoFar(doing, accepted, doing.n)
         \/ tx = << >> /\ WasTaken(doing, level, air, back, rx) /\ ToldSoFar(doing, accepted, doing.n + 1)
    /\ doing.at = "answer" =>
         doing.addr \in Insteon /\ tx = << >> /\ Flying(doing, level, air, back, rx, 0)

Lefts == [ typed : Nat, noise : Nat, busy : Nat, lost : Nat, late : 0..MaxLate ]

PlmInv == left \in Lefts /\ (left.late = MaxLate => OneAtATime)

(***************************************************************************)
(* Sequences of messages                                                   *)
(***************************************************************************)
(* The first message is read.                                              *)
LEMMA TailOf ==
    ASSUME NEW S, NEW s \in Seq(S), s # << >>
    PROVE  /\ Tail(s) \in Seq(S) /\ Len(s) \in Nat \ {0} /\ Len(Tail(s)) = Len(s) - 1
           /\ \A i \in 1..Len(s) - 1 : Tail(s)[i] = s[i + 1]
           /\ Head(s) = s[1] /\ s[1] \in S
OBVIOUS

(* A message arrives.                                                      *)
LEMMA AppendOf ==
    ASSUME NEW S, NEW s \in Seq(S), NEW m \in S
    PROVE  /\ Append(s, m) \in Seq(S) /\ Len(s) \in Nat /\ Len(Append(s, m)) = Len(s) + 1
           /\ \A i \in 1..Len(s) : Append(s, m)[i] = s[i]
           /\ Append(s, m)[Len(s) + 1] = m
OBVIOUS

(* A queue of one message.                                                 *)
LEMMA OneOf ==
    ASSUME NEW m
    PROVE  << m >> # << >> /\ Head(<< m >>) = m /\ Tail(<< m >>) = << >>
           /\ Append(<< >>, m) = << m >>
OBVIOUS

(* Noise stays noise when the first message is read.                       *)
LEMMA NoiseTail ==
    ASSUME NEW s \in Seq(Messages), s # << >>, NEW k \in Nat, Noise(s, k)
    PROVE  Noise(Tail(s), IF k = 0 THEN 0 ELSE k - 1) /\ (k = 0 => Head(s) \in Unasked)
<1>1. /\ Len(s) \in Nat \ {0} /\ Len(Tail(s)) = Len(s) - 1
      /\ \A i \in 1..Len(s) - 1 : Tail(s)[i] = s[i + 1]
      /\ Head(s) = s[1]
    BY TailOf
<1>2. ASSUME NEW i \in 1..Len(Tail(s)), i > (IF k = 0 THEN 0 ELSE k - 1)
      PROVE  Tail(s)[i] \in Unasked
    <2>1. i \in 1..Len(s) - 1 /\ i + 1 \in 1..Len(s) /\ i + 1 > k
        BY <1>1, <1>2
    <2>. QED  BY <1>1, <2>1 DEF Noise
<1>. QED  BY <1>1, <1>2 DEF Noise

(* What is behind k stays there when the first message is read, and is not *)
(* an answer.                                                              *)
LEMMA FlyingTail ==
    ASSUME NEW d, NEW lv, NEW a, NEW b, NEW s \in Seq(Messages), s # << >>, NEW k \in Nat,
           Flying(d, lv, a, b, s, k), k = 0 => s[1] \in Unasked,
           \A m \in Unasked : ~Honest(d, lv, m) \/ d.addr \notin Insteon
    PROVE  Flying(d, lv, a, b, Tail(s), IF k = 0 THEN 0 ELSE k - 1)
<1>. DEFINE j == IF k = 0 THEN 0 ELSE k - 1
<1>1. /\ Len(s) \in Nat \ {0} /\ Len(Tail(s)) = Len(s) - 1
      /\ \A i \in 1..Len(s) - 1 : Tail(s)[i] = s[i + 1]
    BY TailOf
<1>2. Noise(s, k) => Noise(Tail(s), j)
    BY NoiseTail
<1>3. CASE Noise(s, k)
    <2>1. \/ a = << >> /\ b = << >>
          \/ d.addr \in Insteon /\ a = << packet(d) >> /\ b = << >>
          \/ d.addr \in Insteon /\ a = << >> /\ \E m \in Messages : b = << m >> /\ Honest(d, lv, m)
        BY DEF Flying
    <2>2. Noise(Tail(s), j)
        BY <1>2, <1>3
    <2>. HIDE DEF j
    <2>3. Flying(d, lv, a, b, Tail(s), j)
        BY <2>1, <2>2 DEF Flying
    <2>. QED  BY <2>3 DEF j
<1>4. CASE ~Noise(s, k)
    <2>1. d.addr \in Insteon /\ a = << >> /\ b = << >>
        BY <1>4 DEF Flying
    <2>2. PICK q \in 1..Len(s) :
             /\ q > k /\ Honest(d, lv, s[q])
             /\ \A i \in 1..Len(s) : i > k /\ i # q => s[i] \in Unasked
        BY <1>4 DEF Flying
    <2>3. q # 1
        BY <2>1, <2>2
    <2>4. q - 1 \in 1..Len(Tail(s)) /\ q - 1 > j /\ Tail(s)[q - 1] = s[q]
        <3>1. q - 1 \in 1..Len(s) - 1 /\ (q - 1) + 1 = q
            BY <1>1, <2>2, <2>3
        <3>. QED  BY <1>1, <2>2, <3>1
    <2>5. ASSUME NEW i \in 1..Len(Tail(s)), i > j, i # q - 1
          PROVE  Tail(s)[i] \in Unasked
        <3>1. i \in 1..Len(s) - 1 /\ i + 1 \in 1..Len(s) /\ i + 1 > k /\ i + 1 # q
            BY <1>1, <2>5
        <3>. QED  BY <1>1, <2>2, <3>1
    <2>. HIDE DEF j
    <2>6. Flying(d, lv, a, b, Tail(s), j)
        BY <2>1, <2>2, <2>4, <2>5 DEF Flying
    <2>. QED  BY <2>6 DEF j
<1>. QED  BY <1>3, <1>4

(* An answer that is read was the only one.                                *)
LEMMA FlyingHead ==
    ASSUME NEW d, NEW lv, NEW a, NEW b, NEW s \in Seq(Messages), s # << >>,
           Flying(d, lv, a, b, s, 0), s[1] \notin Unasked
    PROVE  /\ d.addr \in Insteon /\ a = << >> /\ b = << >>
           /\ Honest(d, lv, s[1]) /\ Noise(Tail(s), 0)
<1>1. /\ Len(s) \in Nat \ {0} /\ Len(Tail(s)) = Len(s) - 1
      /\ \A i \in 1..Len(s) - 1 : Tail(s)[i] = s[i + 1]
    BY TailOf
<1>2. ~Noise(s, 0)
    BY <1>1 DEF Noise
<1>3. d.addr \in Insteon /\ a = << >> /\ b = << >>
    BY <1>2 DEF Flying
<1>4. PICK q \in 1..Len(s) :
         /\ Honest(d, lv, s[q])
         /\ \A i \in 1..Len(s) : i > 0 /\ i # q => s[i] \in Unasked
    BY <1>2 DEF Flying
<1>5. q = 1
    BY <1>1, <1>4
<1>6. Noise(Tail(s), 0)
    <2>1. ASSUME NEW i \in 1..Len(Tail(s))
          PROVE  Tail(s)[i] \in Unasked
        <3>1. i \in 1..Len(s) - 1 /\ i + 1 \in 1..Len(s) /\ i + 1 # q /\ i + 1 > 0
            BY <1>1, <1>5
        <3>. QED  BY <1>1, <1>4, <3>1
    <2>. QED  BY <2>1 DEF Noise
<1>. QED  BY <1>3, <1>4, <1>5, <1>6

(* Noise is added.                                                         *)
LEMMA FlyingAppend ==
    ASSUME NEW d, NEW lv, NEW a, NEW b, NEW s \in Seq(Messages), NEW k \in Nat,
           Flying(d, lv, a, b, s, k), NEW m \in Unasked, m \in Messages
    PROVE  Flying(d, lv, a, b, Append(s, m), k)
<1>. DEFINE t == Append(s, m)
<1>1. /\ Len(s) \in Nat /\ Len(t) = Len(s) + 1 /\ t[Len(s) + 1] = m
      /\ \A i \in 1..Len(s) : t[i] = s[i]
    BY AppendOf
<1>. HIDE DEF t
<1>2. ASSUME NEW i \in 1..Len(t), i \notin 1..Len(s)
      PROVE  t[i] \in Unasked
    <2>1. i = Len(s) + 1
        BY <1>1, <1>2
    <2>. QED  BY <1>1, <2>1
<1>3. Noise(s, k) => Noise(t, k)
    BY <1>1, <1>2 DEF Noise
<1>4. CASE \E q \in 1..Len(s) :
             /\ q > k /\ Honest(d, lv, s[q])
             /\ \A i \in 1..Len(s) : i > k /\ i # q => s[i] \in Unasked
    <2>1. PICK q \in 1..Len(s) :
             /\ q > k /\ Honest(d, lv, s[q])
             /\ \A i \in 1..Len(s) : i > k /\ i # q => s[i] \in Unasked
        BY <1>4
    <2>2. q \in 1..Len(t) /\ q > k /\ Honest(d, lv, t[q])
        BY <1>1, <2>1
    <2>3. ASSUME NEW i \in 1..Len(t), i > k, i # q
          PROVE  t[i] \in Unasked
        <3>1. CASE i \in 1..Len(s)
            BY <1>1, <2>1, <2>3, <3>1
        <3>2. CASE i \notin 1..Len(s)
            BY <1>2, <3>2
        <3>. QED  BY <3>1, <3>2
    <2>4. \E r \in 1..Len(t) :
             /\ r > k /\ Honest(d, lv, t[r])
             /\ \A i \in 1..Len(t) : i > k /\ i # r => t[i] \in Unasked
        BY <2>2, <2>3
    <2>. QED  BY <1>3, <2>4 DEF Flying, t
<1>. QED  BY <1>3, <1>4 DEF Flying, t

(***************************************************************************)
(* The steps                                                               *)
(***************************************************************************)
(* What is on the line is told apart by its kind.                          *)
LEMMA Kinds ==
    /\ Unasked \in SUBSET Messages /\ NAK \in Messages
    /\ \A m \in Unasked : m # NAK /\ m.cmd \in { "RECV_X10", "RECV_STD" } /\ m.addr \notin Insteon
    /\ \A cmd \in { "SEND", "SEND_X10", "info", "reset" }, ack \in BOOLEAN :
         /\ Echo(cmd, ack) \in Messages /\ Echo(cmd, ack).cmd = cmd
         /\ Echo(cmd, ack).val = IF ack THEN 1 ELSE 0
    /\ NAK.cmd = "NAK"
    /\ \A d, lv : d.addr \in Insteon => \A m \in Unasked : ~Honest(d, lv, m)
<1>1. "" \notin Insteon /\ "other" \notin Insteon
    BY PlmAssumption
<1>2. ASSUME NEW m \in Unasked
      PROVE  m.cmd \in { "RECV_X10", "RECV_STD" } /\ m.addr \in { "", "other" }
    <2>1. CASE m = Message("RECV_X10", "", 0)
        BY <2>1 DEF Message
    <2>2. CASE m = Message("RECV_STD", "other", 0)
        BY <2>2 DEF Message
    <2>3. CASE m = Message("RECV_STD", "other", Full)
        BY <2>3 DEF Message
    <2>. QED  BY <2>1, <2>2, <2>3 DEF Unasked
<1>3. NAK \in Messages /\ NAK.cmd = "NAK"
    BY DEF NAK, Message, Messages
<1>4. Unasked \in SUBSET Messages
    BY DEF Unasked, Message, Messages, Full
<1>5. \A cmd \in { "SEND", "SEND_X10", "info", "reset" }, ack \in BOOLEAN :
         /\ Echo(cmd, ack) \in Messages /\ Echo(cmd, ack).cmd = cmd
         /\ Echo(cmd, ack).val = IF ack THEN 1 ELSE 0
    BY DEF Echo, Message, Messages
<1>6. \A m \in Unasked : m # NAK /\ m.addr \notin Insteon
    BY <1>1, <1>2, <1>3
<1>7. \A d, lv : d.addr \in Insteon => \A m \in Unasked : ~Honest(d, lv, m)
    BY <1>6 DEF Honest
<1>. QED  BY <1>2, <1>3, <1>4, <1>5, <1>6, <1>7

(* The kind of packet a command is.                                        *)
LEMMA PacketKind ==
    ASSUME NEW d \in Doings, Typed(d)
    PROVE  /\ packet(d).cmd = IF d.addr = "" THEN d.com
                              ELSE IF d.addr \in Insteon THEN "SEND" ELSE "SEND_X10"
           /\ packet(d).cmd \in { "SEND", "SEND_X10", "info", "reset" }
           /\ d.addr \in Insteon => packet(d).addr = d.addr /\ packet(d).com = d.com
           /\ d.addr \in X10 => packet(d).com = IF d.n % 2 = 0 THEN "unit" ELSE d.com
<1>1. "" \notin Insteon /\ "" \notin X10 /\ Insteon \cap X10 = {}
    BY PlmAssumption
<1>. QED  BY <1>1 DEF packet, Packet, Typed, Doings

(* Where a command has got to does not matter to its packet or its answer. *)
LEMMA FlyingSame ==
    ASSUME NEW d, NEW e, e.com = d.com, e.addr = d.addr, e.n = d.n,
           NEW lv, NEW a, NEW b, NEW s, NEW k
    PROVE  /\ packet(e) = packet(d) /\ Flying(e, lv, a, b, s, k) = Flying(d, lv, a, b, s, k)
           /\ \A m : Honest(e, lv, m) = Honest(d, lv, m)
<1>1. packet(e) = packet(d) /\ \A m : Honest(e, lv, m) = Honest(d, lv, m)
    BY DEF packet, Honest
<1>. QED  BY <1>1 DEF Flying

(* Nothing is told, and one packet more.                                   *)
LEMMA ToldType ==
    ASSUME NEW com
    PROVE  /\ Told(com, 0) = << >>
           /\ \A n \in Nat : Append(Told(com, n), IF n % 2 = 0 THEN "unit" ELSE com) = Told(com, n + 1)
<1>1. \A n \in Nat : Told(com, n) \in Seq({ "unit", com }) /\ Len(Told(com, n)) = n
    BY DEF Told
<1>2. Told(com, 0) = << >>
    BY <1>1
<1>3. ASSUME NEW n \in Nat
      PROVE  Append(Told(com, n), IF n % 2 = 0 THEN "unit" ELSE com) = Told(com, n + 1)
    <2>. DEFINE x == IF n % 2 = 0 THEN "unit" ELSE com
                s == Append(Told(com, n), x)
    <2>1. s \in Seq({ "unit", com }) /\ Len(s) = n + 1 /\ s[n + 1] = x
          /\ \A i \in 1..n : s[i] = Told(com, n)[i]
        BY <1>1
    <2>2. x = IF (n + 1) % 2 = 1 THEN "unit" ELSE com
        OBVIOUS
    <2>. HIDE DEF s, x
    <2>3. \A i \in 1..n + 1 : s[i] = Told(com, n + 1)[i]
        <3>1. \A i \in 1..n + 1 : Told(com, n + 1)[i] = IF i % 2 = 1 THEN "unit" ELSE com
            BY DEF Told
        <3>2. \A i \in 1..n : Told(com, n)[i] = IF i % 2 = 1 THEN "unit" ELSE com
            BY DEF Told
        <3>3. \A i \in 1..n + 1 : i \in 1..n \/ i = n + 1
            OBVIOUS
        <3>. QED  BY <2>1, <2>2, <3>1, <3>2, <3>3
    <2>4. Told(com, n + 1) \in Seq({ "unit", com }) /\ Len(Told(com, n + 1)) = n + 1
        BY <1>1
    <2>5. s = Told(com, n + 1)
        BY <2>1, <2>3, <2>4
    <2>. QED  BY <2>5 DEF s, x
<1>. QED  BY <1>2, <1>3

(* An X10 device is told something.                                        *)
LEMMA SomeAreSent == 2 * x10_attempts \in Nat /\ 0 < 2 * x10_attempts
<1>1. \A k \in Nat \ {0} : 2 * k \in Nat /\ 0 < 2 * k
    OBVIOUS
<1>2. x10_attempts \in Nat \ {0}
    BY PlmAssumption
<1>. QED  BY <1>1, <1>2

(* A command is typed.                                                     *)
LEMMA DocmdKeeps ==
    ASSUME OneAtATime, NEW com \in { "on", "off", "status", "ping", "info", "reset" },
           NEW addr \in Insteon \cup X10 \cup {""}, docmd(com, addr)
    PROVE  OneAtATime'
<1>1. /\ doing.at = "shell" /\ doing' = [ com |-> com, addr |-> addr, at |-> "write", n |-> 0, timed |-> FALSE ]
      /\ accepted' = << >> /\ UNCHANGED << tx, rx, air, back, level, last >>
      /\ addr # "" => com \in { "on", "off", "status", "ping" }
      /\ addr = "" => com \in { "info", "reset" }
    BY PlmAssumption DEF docmd
<1>2. doing' \in Doings /\ Typed(doing') /\ doing'.at = "write" /\ doing'.n = 0
    BY <1>1 DEF Doings, Typed
<1>3. Told(doing'.com, 0) = << >>
    BY ToldType
<1>4. ToldSoFar(doing', accepted', doing'.n)
    <2>1. 0 < 2 * x10_attempts
        BY SomeAreSent
    <2>. QED  BY <1>1, <1>2, <1>3, <2>1 DEF ToldSoFar
<1>. QED  BY <1>1, <1>2, <1>4 DEF OneAtATime, Nothing

(* A packet is written.                                                    *)
LEMMA WritesKeeps ==
    ASSUME OneAtATime, Writes
    PROVE  OneAtATime'
<1>1. /\ doing.at = "write" /\ tx' = Append(tx, packet(doing)) /\ doing' = [ doing EXCEPT !.at = "echo" ]
      /\ UNCHANGED << rx, air, back, level, last, accepted >>
    BY DEF Writes
<1>2. /\ doing \in Doings /\ Typed(doing) /\ tx = << >> /\ air = << >> /\ back = << >> /\ Noise(rx, 0)
      /\ ToldSoFar(doing, accepted, doing.n) /\ rx \in Seq(Messages) /\ level \in [Insteon -> {0, Full}]
    BY <1>1 DEF OneAtATime, Nothing
<1>3. /\ doing' \in Doings /\ Typed(doing') /\ doing'.at = "echo" /\ doing'.n = doing.n
      /\ doing'.com = doing.com /\ doing'.addr = doing.addr
    BY <1>1, <1>2 DEF Doings, Typed
<1>4. tx' = << packet(doing') >>
    <2>1. packet(doing') = packet(doing)
        BY <1>3 DEF packet
    <2>. QED  BY <1>1, <1>2, <2>1, OneOf
<1>5. ToldSoFar(doing', accepted', doing'.n)
    BY <1>1, <1>2, <1>3 DEF ToldSoFar
<1>. QED  BY <1>1, <1>2, <1>3, <1>4, <1>5 DEF OneAtATime, Noise

(* What is read while the echo is awaited.                                 *)
LEMMA ReadsEchoKeeps ==
    ASSUME OneAtATime, ReadsEcho
    PROVE  OneAtATime'
<1>. DEFINE m == Head(rx)
            P == packet(doing)
<1>1. /\ doing.at = "echo" /\ rx # << >> /\ rx' = Tail(rx)
      /\ UNCHANGED << tx, air, back, level, accepted >>
      /\ \/ m = NAK /\ Stays([ doing EXCEPT !.at = "write" ])
         \/ m # NAK /\ m.cmd # P.cmd /\ Stays(doing)
         \/ m.cmd = P.cmd /\ m.val = 0 /\ Stays([ doing EXCEPT !.at = "write" ])
         \/ m.cmd = P.cmd /\ m.val = 1 /\ Taken(doing)
    BY DEF ReadsEcho
<1>2. doing \in Doings /\ Typed(doing) /\ rx \in Seq(Messages) /\ level \in [Insteon -> {0, Full}]
    BY <1>1 DEF OneAtATime
<1>3. /\ rx' \in Seq(Messages) /\ m = rx[1] /\ m \in Messages /\ Len(rx) \in Nat \ {0}
      /\ Len(rx') = Len(rx) - 1 /\ \A i \in 1..Len(rx) - 1 : rx'[i] = rx[i + 1]
    BY <1>1, <1>2, TailOf
<1>4. P.cmd \in { "SEND", "SEND_X10", "info", "reset" }
    BY <1>2, PacketKind
<1>5. \A e \in Unasked : e # NAK /\ e.cmd # P.cmd
    BY <1>4, Kinds
<1>6. /\ Echo(P.cmd, FALSE).cmd = P.cmd /\ Echo(P.cmd, FALSE).val = 0
      /\ Echo(P.cmd, TRUE).cmd = P.cmd /\ Echo(P.cmd, TRUE).val = 1
      /\ NAK.cmd # P.cmd
    BY <1>4, Kinds
<1>7. m \in Unasked => doing' = doing /\ UNCHANGED last
    BY <1>1, <1>5 DEF Stays
<1>8. ASSUME doing' = [ doing EXCEPT !.at = "write" ], air = << >>, back = << >>, tx = << >>,
             Noise(Tail(rx), 0), ToldSoFar(doing, accepted, doing.n)
      PROVE  OneAtATime'
    <2>1. /\ doing' \in Doings /\ Typed(doing') /\ doing'.at = "write" /\ doing'.n = doing.n
          /\ doing'.com = doing.com /\ doing'.addr = doing.addr
        BY <1>2, <1>8 DEF Doings, Typed
    <2>2. Nothing'
        BY <1>1, <1>8 DEF Nothing
    <2>3. ToldSoFar(doing', accepted', doing'.n)
        BY <1>1, <1>8, <2>1 DEF ToldSoFar
    <2>. QED  BY <1>1, <1>2, <1>3, <2>1, <2>2, <2>3 DEF OneAtATime
<1>. HIDE DEF m, P
<1>9. CASE /\ tx = << P >> /\ air = << >> /\ back = << >> /\ Noise(rx, 0)
           /\ ToldSoFar(doing, accepted, doing.n)
    <2>1. Noise(Tail(rx), 0) /\ m \in Unasked
        BY <1>1, <1>2, <1>9, NoiseTail DEF m
    <2>2. doing' = doing /\ Noise(rx', 0)
        BY <1>1, <1>7, <2>1
    <2>. QED  BY <1>1, <1>2, <1>3, <1>9, <2>2 DEF OneAtATime, P
<1>10. CASE /\ tx = << >> /\ NotTaken(doing, air, back, rx) /\ ToldSoFar(doing, accepted, doing.n)
    <2>1. PICK r \in 1..Len(rx) :
             /\ rx[r] \in { NAK, Echo(P.cmd, FALSE) }
             /\ \A i \in 1..Len(rx) : i # r => rx[i] \in Unasked
        BY <1>10 DEF NotTaken, P
    <2>2. air = << >> /\ back = << >>
        BY <1>10 DEF NotTaken
    <2>3. CASE r = 1
        <3>1. m \in { NAK, Echo(P.cmd, FALSE) }
            BY <1>3, <2>1, <2>3
        <3>2. doing' = [ doing EXCEPT !.at = "write" ]
            <4>1. CASE m = NAK
                BY <1>1, <1>6, <4>1 DEF Stays
            <4>2. CASE m = Echo(P.cmd, FALSE)
                <5>1. m.cmd = P.cmd /\ m.val = 0
                    BY <1>6, <4>2
                <5>. QED  BY <1>1, <5>1 DEF Stays
            <4>. QED  BY <3>1, <4>1, <4>2
        <3>3. Noise(Tail(rx), 0)
            <4>1. ASSUME NEW i \in 1..Len(rx')
                  PROVE  rx'[i] \in Unasked
                <5>1. i \in 1..Len(rx) - 1 /\ i + 1 \in 1..Len(rx) /\ i + 1 # 1
                    BY <1>3
                <5>. QED  BY <1>3, <2>1, <2>3, <5>1
            <4>. QED  BY <1>1, <4>1 DEF Noise
        <3>. QED  BY <1>8, <1>10, <2>2, <3>2, <3>3
    <2>4. CASE r # 1
        <3>1. m \in Unasked
            BY <1>3, <2>1, <2>4
        <3>2. r - 1 \in 1..Len(rx') /\ rx'[r - 1] = rx[r]
            <4>1. r - 1 \in 1..Len(rx) - 1 /\ (r - 1) + 1 = r
                BY <1>3, <2>4
            <4>. QED  BY <1>3, <4>1
        <3>3. ASSUME NEW i \in 1..Len(rx'), i # r - 1
              PROVE  rx'[i] \in Unasked
            <4>1. i \in 1..Len(rx) - 1 /\ i + 1 \in 1..Len(rx) /\ i + 1 # r
                BY <1>3, <3>3
            <4>. QED  BY <1>3, <2>1, <4>1
        <3>4. NotTaken(doing, air, back, rx')
            BY <2>1, <2>2, <3>2, <3>3 DEF NotTaken, P
        <3>. QED  BY <1>1, <1>2, <1>3, <1>7, <1>10, <3>1, <3>4 DEF OneAtATime
    <2>. QED  BY <2>3, <2>4
<1>11. CASE /\ tx = << >> /\ WasTaken(doing, level, air, back, rx)
            /\ ToldSoFar(doing, accepted, doing.n + 1)
    <2>1. PICK r \in 1..Len(rx) :
             /\ rx[r] = Echo(P.cmd, TRUE)
             /\ \A i \in 1..r - 1 : rx[i] \in Unasked
             /\ Flying(doing, level, air, back, rx, r)
        BY <1>11 DEF WasTaken, P
    <2>2. \A e \in Unasked : ~Honest(doing, level, e) \/ doing.addr \notin Insteon
        BY Kinds
    <2>3. Flying(doing, level, air, back, Tail(rx), r - 1)
        <3>1. r \in Nat /\ r # 0
            BY <1>3
        <3>. QED  BY <1>1, <1>2, <2>1, <2>2, <3>1, FlyingTail
    <2>4. CASE r = 1
        <3>1. m.cmd = P.cmd /\ m.val = 1
            BY <1>3, <1>6, <2>1, <2>4
        <3>2. m # NAK
            BY <1>6, <3>1
        <3>3. Taken(doing)
            BY <1>1, <3>1, <3>2
        <3>4. Flying(doing, level, air, back, Tail(rx), 0)
            BY <2>3, <2>4
        <3>5. doing.addr \notin Insteon => air = << >> /\ back = << >> /\ Noise(Tail(rx), 0)
            BY <3>4 DEF Flying
        <3>6. CASE doing.addr \in Insteon /\ Stays([ doing EXCEPT !.at = "answer", !.timed = TRUE ])
            <4>1. doing' = [ doing EXCEPT !.at = "answer", !.timed = TRUE ]
                BY <3>6 DEF Stays
            <4>2. /\ doing' \in Doings /\ Typed(doing') /\ doing'.at = "answer" /\ doing'.n = doing.n
                  /\ doing'.com = doing.com /\ doing'.addr = doing.addr
                BY <1>2, <4>1 DEF Doings, Typed
            <4>3. Flying(doing', level, air, back, Tail(rx), 0)
                BY <3>4, <4>2, FlyingSame
            <4>. QED  BY <1>1, <1>2, <1>3, <1>11, <3>6, <4>2, <4>3 DEF OneAtATime
        <3>7. CASE /\ doing.addr \in X10 /\ doing.n + 1 < 2 * x10_attempts
                   /\ Stays([ doing EXCEPT !.at = "write", !.n = @ + 1 ])
            <4>1. doing' = [ doing EXCEPT !.at = "write", !.n = @ + 1 ]
                BY <3>7 DEF Stays
            <4>2. /\ doing' \in Doings /\ Typed(doing') /\ doing'.at = "write" /\ doing'.n = doing.n + 1
                  /\ doing'.com = doing.com /\ doing'.addr = doing.addr
                <5>1. doing.n + 1 \in Nat
                    <6>1. doing.n \in Nat
                        BY <1>2 DEF Doings
                    <6>. QED  BY <6>1
                <5>2. doing' = [ com |-> doing.com, addr |-> doing.addr, at |-> "write",
                                 n |-> doing.n + 1, timed |-> doing.timed ]
                    BY <1>2, <4>1 DEF Doings
                <5>3. /\ doing'.com = doing.com /\ doing'.addr = doing.addr /\ doing'.at = "write"
                      /\ doing'.n = doing.n + 1
                    BY <5>2
                <5>4. doing' \in Doings
                    BY <1>2, <5>1, <5>2 DEF Doings
                <5>5. Typed(doing')
                    BY <1>2, <5>3 DEF Typed
                <5>. QED  BY <5>3, <5>4, <5>5
            <4>3. Nothing'
                BY <1>1, <1>11, <3>5, <3>7, PlmAssumption DEF Nothing
            <4>4. ToldSoFar(doing', accepted', doing'.n)
                BY <1>1, <1>11, <3>7, <4>2 DEF ToldSoFar
            <4>. QED  BY <1>1, <1>2, <1>3, <4>2, <4>3, <4>4 DEF OneAtATime
        <3>8. CASE /\ Done(doing, 0)
                   /\ doing.addr \notin Insteon
                   /\ doing.addr \in X10 => doing.n + 1 = 2 * x10_attempts
            <4>1. /\ doing' = Shell /\ last'.com = doing.com /\ last'.addr = doing.addr
                BY <3>8 DEF Done
            <4>2. Nothing'
                BY <1>1, <1>11, <3>5, <3>8 DEF Nothing
            <4>3. doing.addr \in X10 => accepted = Told(doing.com, 2 * x10_attempts)
                BY <1>11, <3>8 DEF ToldSoFar
            <4>4. LastDone'
                BY <1>1, <3>8, <4>1, <4>3 DEF LastDone
            <4>5. doing' \in Doings /\ doing'.at = "shell"
                BY <4>1 DEF Shell, Doings
            <4>. QED  BY <1>1, <1>2, <1>3, <4>2, <4>4, <4>5 DEF OneAtATime
        <3>. QED  BY <3>3, <3>6, <3>7, <3>8, PlmAssumption DEF Taken
    <2>5. CASE r # 1
        <3>1. m \in Unasked
            <4>1. 1 \in 1..r - 1
                BY <1>3, <2>5
            <4>. QED  BY <1>3, <2>1, <4>1
        <3>2. r - 1 \in 1..Len(rx') /\ rx'[r - 1] = rx[r]
            <4>1. r - 1 \in 1..Len(rx) - 1 /\ (r - 1) + 1 = r
                BY <1>3, <2>5
            <4>. QED  BY <1>3, <4>1
        <3>3. ASSUME NEW i \in 1..(r - 1) - 1
              PROVE  rx'[i] \in Unasked
            <4>1. i \in 1..Len(rx) - 1 /\ i + 1 \in 1..r - 1
                BY <1>3
            <4>. QED  BY <1>3, <2>1, <4>1
        <3>4. WasTaken(doing, level, air, back, rx')
            BY <1>1, <2>1, <2>3, <3>2, <3>3 DEF WasTaken, P
        <3>. QED  BY <1>1, <1>2, <1>3, <1>7, <1>11, <3>1, <3>4 DEF OneAtATime
    <2>. QED  BY <2>4, <2>5
<1>. QED  BY <1>1, <1>9, <1>10, <1>11 DEF OneAtATime, P

(* What is read while an answer is awaited.                                *)
LEMMA ReadsAnswerKeeps ==
    ASSUME OneAtATime, ReadsAnswer
    PROVE  OneAtATime'
<1>. DEFINE m == Head(rx)
<1>1. /\ doing.at = "answer" /\ rx # << >> /\ rx' = Tail(rx)
      /\ UNCHANGED << tx, air, back, level, accepted >>
      /\ \/ m = NAK /\ Exits(doing)
         \/ m # NAK /\ m.cmd # "RECV_STD" /\ Stays([ doing EXCEPT !.timed = FALSE ])
         \/ m.cmd = "RECV_STD" /\ ~from_device(m, doing.addr) /\ Stays([ doing EXCEPT !.timed = TRUE ])
         \/ /\ m.cmd = "RECV_STD" /\ from_device(m, doing.addr)
            /\ IF failed(doing.com, m.val) THEN Exits(doing) ELSE Done(doing, m.val)
    BY DEF ReadsAnswer
<1>2. /\ doing \in Doings /\ Typed(doing) /\ rx \in Seq(Messages) /\ level \in [Insteon -> {0, Full}]
      /\ doing.addr \in Insteon /\ tx = << >> /\ Flying(doing, level, air, back, rx, 0)
    BY <1>1 DEF OneAtATime
<1>3. rx' \in Seq(Messages) /\ m = rx[1]
    BY <1>1, <1>2, TailOf
<1>4. \A e \in Unasked : e # NAK /\ e.addr # doing.addr
    BY <1>2, Kinds
<1>. HIDE DEF m
<1>5. CASE Exits(doing)
    <2>1. doing' = [ doing EXCEPT !.at = "end" ]
        BY <1>5 DEF Exits
    <2>2. doing' \in Doings /\ doing'.at = "end" /\ Typed(doing')
        BY <1>2, <2>1 DEF Doings, Typed
    <2>. QED  BY <2>2 DEF OneAtATime
<1>6. CASE m \in Unasked /\ ~Exits(doing)
    <2>1. PICK timed \in BOOLEAN : doing' = [ doing EXCEPT !.timed = timed ]
        BY <1>1, <1>4, <1>6 DEF Stays, from_device
    <2>2. /\ doing' \in Doings /\ doing'.at = "answer" /\ Typed(doing')
          /\ doing'.com = doing.com /\ doing'.addr = doing.addr /\ doing'.n = doing.n
        BY <1>1, <1>2, <2>1 DEF Doings, Typed
    <2>3. \A e \in Unasked : ~Honest(doing, level, e) \/ doing.addr \notin Insteon
        BY Kinds
    <2>4. Flying(doing, level, air, back, Tail(rx), 0)
        BY <1>1, <1>2, <1>3, <1>6, <2>3, FlyingTail
    <2>5. Flying(doing', level, air, back, Tail(rx), 0)
        BY <2>2, <2>4, FlyingSame
    <2>. QED  BY <1>1, <1>2, <1>3, <2>2, <2>5 DEF OneAtATime
<1>7. CASE m \notin Unasked /\ ~Exits(doing)
    <2>1. air = << >> /\ back = << >> /\ Honest(doing, level, m) /\ Noise(Tail(rx), 0)
        BY <1>1, <1>2, <1>3, <1>7, FlyingHead
    <2>2. m.cmd = "RECV_STD" /\ m.addr = doing.addr
        BY <2>1 DEF Honest
    <2>3. m # NAK
        BY <2>2, Kinds
    <2>4. ~failed(doing.com, m.val) /\ Done(doing, m.val)
        BY <1>1, <1>7, <2>2, <2>3 DEF from_device
    <2>5. doing' = Shell /\ last'.com = doing.com /\ last'.addr = doing.addr /\ last'.val = m.val
        BY <2>4 DEF Done
    <2>6. Nothing'
        BY <1>1, <1>2, <2>1 DEF Nothing
    <2>7. LastDone'
        BY <1>1, <1>2, <2>1, <2>4, <2>5, PlmAssumption DEF LastDone, Honest
    <2>8. doing' \in Doings /\ doing'.at = "shell"
        BY <2>5 DEF Shell, Doings
    <2>. QED  BY <1>1, <1>2, <1>3, <2>6, <2>7, <2>8 DEF OneAtATime
<1>. QED  BY <1>5, <1>6, <1>7

(* Nothing is on its way when a command is sent again in time.             *)
LEMMA TimesOutKeeps ==
    ASSUME OneAtATime, TimesOut, air = << >>, back = << >>
    PROVE  OneAtATime'
<1>1. /\ doing.at = "answer" /\ rx = << >> /\ doing' = [ doing EXCEPT !.at = "write", !.timed = FALSE ]
      /\ UNCHANGED << tx, rx, air, back, level, last, accepted >>
    BY DEF TimesOut, after_timeout
<1>2. /\ doing \in Doings /\ Typed(doing) /\ rx \in Seq(Messages) /\ level \in [Insteon -> {0, Full}]
      /\ doing.addr \in Insteon /\ tx = << >> /\ Flying(doing, level, air, back, rx, 0)
    BY <1>1 DEF OneAtATime
<1>3. /\ doing' \in Doings /\ Typed(doing') /\ doing'.at = "write"
      /\ doing'.com = doing.com /\ doing'.addr = doing.addr
    BY <1>1, <1>2 DEF Doings, Typed
<1>4. Noise(rx, 0)
    <2>1. Len(rx) = 0
        BY <1>1
    <2>. QED  BY <2>1 DEF Noise
<1>5. Nothing'
    BY <1>1, <1>2, <1>4 DEF Nothing
<1>6. ToldSoFar(doing', accepted', doing'.n)
    BY <1>2, <1>3, PlmAssumption DEF ToldSoFar
<1>. QED  BY <1>1, <1>2, <1>3, <1>5, <1>6 DEF OneAtATime

(* The modem takes a packet, or is busy.                                   *)
LEMMA ModemTakesKeeps ==
    ASSUME OneAtATime, ModemTakes, doing.at # "end"
    PROVE  OneAtATime'
<1>. DEFINE P == packet(doing)
<1>1. /\ tx # << >> /\ tx' = Tail(tx) /\ UNCHANGED << doing, back, level, last >>
      /\ \/ /\ rx' = Append(rx, Echo(Head(tx).cmd, TRUE))
            /\ accepted' = IF Head(tx).cmd = "SEND_X10" THEN Append(accepted, Head(tx).com) ELSE accepted
            /\ air' = IF Head(tx).cmd = "SEND" THEN Append(air, Head(tx)) ELSE air
         \/ /\ rx' \in { Append(rx, NAK), Append(rx, Echo(Head(tx).cmd, FALSE)) }
            /\ UNCHANGED << accepted, air >>
    BY DEF ModemTakes
<1>2. /\ doing \in Doings /\ Typed(doing) /\ rx \in Seq(Messages) /\ level \in [Insteon -> {0, Full}]
      /\ doing.at = "echo" /\ tx = << P >> /\ air = << >> /\ back = << >> /\ Noise(rx, 0)
      /\ ToldSoFar(doing, accepted, doing.n)
    BY <1>1 DEF OneAtATime, Nothing, Doings
<1>3. Head(tx) = P /\ tx' = << >>
    BY <1>1, <1>2, OneOf
<1>4. /\ P.cmd = IF doing.addr = "" THEN doing.com
                 ELSE IF doing.addr \in Insteon THEN "SEND" ELSE "SEND_X10"
      /\ P.cmd \in { "SEND", "SEND_X10", "info", "reset" }
      /\ doing.addr \in X10 => P.com = IF doing.n % 2 = 0 THEN "unit" ELSE doing.com
    BY <1>2, PacketKind
<1>5. P.cmd = "SEND" <=> doing.addr \in Insteon
    BY <1>2, <1>4, PlmAssumption DEF Typed
<1>6. P.cmd = "SEND_X10" <=> doing.addr \in X10
    BY <1>2, <1>4, PlmAssumption DEF Typed, Doings
<1>. HIDE DEF P
<1>7. ASSUME NEW m \in Messages, rx' = Append(rx, m)
      PROVE  /\ rx' \in Seq(Messages) /\ Len(rx) \in Nat /\ Len(rx') = Len(rx) + 1
             /\ Len(rx) + 1 \in 1..Len(rx') /\ rx'[Len(rx) + 1] = m
             /\ \A i \in 1..Len(rx') : i # Len(rx) + 1 => rx'[i] \in Unasked
             /\ \A i \in 1..Len(rx) : rx'[i] \in Unasked
    <2>1. /\ rx' \in Seq(Messages) /\ Len(rx) \in Nat /\ Len(rx') = Len(rx) + 1
          /\ \A i \in 1..Len(rx) : rx'[i] = rx[i]
          /\ rx'[Len(rx) + 1] = m
        BY <1>2, <1>7, AppendOf
    <2>2. \A i \in 1..Len(rx) : rx'[i] \in Unasked
        BY <1>2, <2>1 DEF Noise
    <2>3. \A i \in 1..Len(rx') : i # Len(rx) + 1 => i \in 1..Len(rx)
        BY <2>1
    <2>. QED  BY <2>1, <2>2, <2>3
<1>8. CASE /\ rx' \in { Append(rx, NAK), Append(rx, Echo(P.cmd, FALSE)) }
           /\ UNCHANGED << accepted, air >>
    <2>1. PICK m \in { NAK, Echo(P.cmd, FALSE) } : rx' = Append(rx, m)
        BY <1>8
    <2>2. m \in Messages
        BY <1>4, Kinds
    <2>3. NotTaken(doing, air, back, rx') /\ rx' \in Seq(Messages)
        BY <1>2, <1>7, <2>1, <2>2 DEF NotTaken, P
    <2>. QED  BY <1>1, <1>2, <1>3, <1>8, <2>3 DEF OneAtATime
<1>9. CASE /\ rx' = Append(rx, Echo(P.cmd, TRUE))
           /\ accepted' = IF P.cmd = "SEND_X10" THEN Append(accepted, P.com) ELSE accepted
           /\ air' = IF P.cmd = "SEND" THEN Append(air, P) ELSE air
    <2>1. Echo(P.cmd, TRUE) \in Messages
        BY <1>4, Kinds
    <2>2. /\ rx' \in Seq(Messages) /\ Len(rx) \in Nat /\ Len(rx') = Len(rx) + 1
          /\ Len(rx) + 1 \in 1..Len(rx') /\ rx'[Len(rx) + 1] = Echo(P.cmd, TRUE)
          /\ \A i \in 1..Len(rx) : rx'[i] \in Unasked
        BY <1>7, <1>9, <2>1
    <2>3. air' = IF doing.addr \in Insteon THEN << P >> ELSE << >>
        BY <1>2, <1>5, <1>9, OneOf
    <2>4. Noise(rx', Len(rx) + 1)
        BY <2>2 DEF Noise
    <2>5. Flying(doing, level, air', back, rx', Len(rx) + 1)
        BY <1>2, <2>3, <2>4 DEF Flying, P
    <2>6. \A i \in 1..(Len(rx) + 1) - 1 : rx'[i] \in Unasked
        BY <2>2
    <2>7. WasTaken(doing, level, air', back, rx')
        BY <2>2, <2>5, <2>6 DEF WasTaken, P
    <2>8. ToldSoFar(doing, accepted', doing.n + 1)
        <3>1. SUFFICES ASSUME doing.addr \in X10
                       PROVE  accepted' = Told(doing.com, doing.n + 1) /\ doing.n < 2 * x10_attempts
            BY DEF ToldSoFar
        <3>2. accepted = Told(doing.com, doing.n) /\ doing.n < 2 * x10_attempts
            BY <1>2, <3>1 DEF ToldSoFar
        <3>3. accepted' = Append(Told(doing.com, doing.n), IF doing.n % 2 = 0 THEN "unit" ELSE doing.com)
            BY <1>4, <1>6, <1>9, <3>1, <3>2
        <3>4. doing.n \in Nat
            BY <1>2 DEF Doings
        <3>. QED  BY <3>2, <3>3, <3>4, ToldType
    <2>. QED  BY <1>1, <1>2, <1>3, <2>2, <2>7, <2>8 DEF OneAtATime
<1>. QED  BY <1>1, <1>3, <1>8, <1>9

(* The modem passes on what nobody asked for.                              *)
LEMMA ModemHearsKeeps ==
    ASSUME OneAtATime, ModemHears, doing.at # "end"
    PROVE  OneAtATime'
<1>1. /\ UNCHANGED << doing, tx, air, back, level, last, accepted >>
      /\ \E m \in Unasked : rx' = Append(rx, m)
    BY DEF ModemHears, Unasked
<1>2. PICK m \in Unasked : rx' = Append(rx, m)
    BY <1>1
<1>3. /\ doing \in Doings /\ rx \in Seq(Messages) /\ level \in [Insteon -> {0, Full}]
    BY DEF OneAtATime
<1>4. m \in Messages
    BY Kinds
<1>5. /\ rx' \in Seq(Messages) /\ Len(rx) \in Nat /\ Len(rx') = Len(rx) + 1
      /\ \A i \in 1..Len(rx) : rx'[i] = rx[i]
      /\ rx'[Len(rx) + 1] = m
      /\ \A i \in 1..Len(rx') : i \in 1..Len(rx) \/ i = Len(rx) + 1
    BY <1>2, <1>3, <1>4, AppendOf
<1>6. ASSUME NEW k \in Nat, Flying(doing, level, air, back, rx, k)
      PROVE  Flying(doing, level, air, back, rx', k)
    BY <1>2, <1>3, <1>4, <1>6, FlyingAppend
<1>7. Noise(rx, 0) => Noise(rx', 0)
    BY <1>5 DEF Noise
<1>8. NotTaken(doing, air, back, rx) => NotTaken(doing, air, back, rx')
    <2>. SUFFICES ASSUME NotTaken(doing, air, back, rx) PROVE NotTaken(doing, air, back, rx')
        OBVIOUS
    <2>1. PICK r \in 1..Len(rx) :
             /\ rx[r] \in { NAK, Echo(packet(doing).cmd, FALSE) }
             /\ \A i \in 1..Len(rx) : i # r => rx[i] \in Unasked
        BY DEF NotTaken
    <2>2. r \in 1..Len(rx') /\ rx'[r] = rx[r]
        BY <1>5
    <2>3. \A i \in 1..Len(rx') : i # r => rx'[i] \in Unasked
        BY <1>5, <2>1
    <2>. QED  BY <2>1, <2>2, <2>3 DEF NotTaken
<1>9. WasTaken(doing, level, air, back, rx) => WasTaken(doing, level, air, back, rx')
    <2>. SUFFICES ASSUME WasTaken(doing, level, air, back, rx)
                  PROVE  WasTaken(doing, level, air, back, rx')
        OBVIOUS
    <2>1. PICK r \in 1..Len(rx) :
             /\ rx[r] = Echo(packet(doing).cmd, TRUE)
             /\ \A i \in 1..r - 1 : rx[i] \in Unasked
             /\ Flying(doing, level, air, back, rx, r)
        BY DEF WasTaken
    <2>2. r \in 1..Len(rx') /\ rx'[r] = rx[r] /\ r \in Nat
        BY <1>5
    <2>3. \A i \in 1..r - 1 : i \in 1..Len(rx)
        BY <1>5
    <2>4. \A i \in 1..r - 1 : rx'[i] \in Unasked
        BY <1>5, <2>1, <2>3
    <2>5. Flying(doing, level, air, back, rx', r)
        BY <1>6, <2>1, <2>2
    <2>. QED  BY <2>1, <2>2, <2>4, <2>5 DEF WasTaken
<1>10. Nothing => Nothing'
    BY <1>1, <1>7 DEF Nothing
<1>11. LastDone => LastDone'
    BY <1>1 DEF LastDone
<1>. QED  BY <1>1, <1>3, <1>5, <1>6, <1>7, <1>8, <1>9, <1>10, <1>11 DEF OneAtATime

(* What is on its way is a packet or an answer of the command.             *)
LEMMA OnItsWay ==
    ASSUME NEW d, NEW lv, NEW a, NEW b, NEW s, NEW k, Flying(d, lv, a, b, s, k)
    PROVE  /\ a # << >> => d.addr \in Insteon /\ a = << packet(d) >> /\ b = << >> /\ Noise(s, k)
           /\ b # << >> => d.addr \in Insteon /\ a = << >> /\ Noise(s, k)
                           /\ \E m \in Messages : b = << m >> /\ Honest(d, lv, m)
BY DEF Flying

(* It is so while an echo or an answer is awaited, and at no other time.   *)
LEMMA IsFlying ==
    ASSUME OneAtATime, doing.at # "end", air # << >> \/ back # << >>
    PROVE  \E k \in 0..Len(rx) : Flying(doing, level, air, back, rx, k)
<1>1. doing.at \in { "echo", "answer" } /\ Len(rx) \in Nat
    <2>1. doing \in Doings /\ rx \in Seq(Messages)
        BY DEF OneAtATime
    <2>2. doing.at \in { "shell", "write", "echo", "answer", "end" }
        BY <2>1 DEF Doings
    <2>3. doing.at # "shell" /\ doing.at # "write"
        BY DEF OneAtATime, Nothing
    <2>4. Len(rx) \in Nat
        BY <2>1
    <2>. QED  BY <2>2, <2>3, <2>4
<1>2. CASE doing.at = "answer"
    <2>1. Flying(doing, level, air, back, rx, 0) /\ 0 \in 0..Len(rx)
        BY <1>1, <1>2 DEF OneAtATime
    <2>. QED  BY <2>1
<1>3. CASE doing.at = "echo"
    <2>1. WasTaken(doing, level, air, back, rx)
        BY <1>3 DEF OneAtATime, NotTaken
    <2>2. PICK r \in 1..Len(rx) : Flying(doing, level, air, back, rx, r)
        BY <2>1 DEF WasTaken
    <2>. QED  BY <1>1, <2>2
<1>. QED  BY <1>1, <1>2, <1>3

(* What is on its way moves, and the rest of the line stays as it is.      *)
LEMMA AirMoves ==
    ASSUME OneAtATime, doing.at # "end", air # << >> \/ back # << >>,
           UNCHANGED << doing, tx, last, accepted >>,
           rx' \in Seq(Messages), level' \in [Insteon -> {0, Full}], Len(rx) \in Nat, Len(rx') \in Nat,
           Len(rx) <= Len(rx'), \A i \in 1..Len(rx) : rx'[i] = rx[i],
           \A k \in 0..Len(rx) : Flying(doing, level, air, back, rx, k) =>
                                 Flying(doing, level', air', back', rx', k)
    PROVE  OneAtATime'
<1>1. doing \in Doings /\ Typed(doing) /\ tx = << >> /\ doing.at \in { "echo", "answer" }
    BY DEF OneAtATime, Nothing, NotTaken, Doings
<1>2. CASE doing.at = "answer"
    <2>1. doing.addr \in Insteon /\ Flying(doing, level, air, back, rx, 0)
        BY <1>2 DEF OneAtATime
    <2>2. Flying(doing, level', air', back', rx', 0)
        BY <2>1
    <2>. QED  BY <1>1, <1>2, <2>1, <2>2 DEF OneAtATime
<1>3. CASE doing.at = "echo"
    <2>1. WasTaken(doing, level, air, back, rx) /\ ToldSoFar(doing, accepted, doing.n + 1)
        BY <1>3 DEF OneAtATime, NotTaken
    <2>2. PICK r \in 1..Len(rx) :
             /\ rx[r] = Echo(packet(doing).cmd, TRUE)
             /\ \A i \in 1..r - 1 : rx[i] \in Unasked
             /\ Flying(doing, level, air, back, rx, r)
        BY <2>1 DEF WasTaken
    <2>3. r \in 0..Len(rx) /\ r \in 1..Len(rx') /\ rx'[r] = rx[r]
        OBVIOUS
    <2>4. Flying(doing, level', air', back', rx', r)
        BY <2>2, <2>3
    <2>5. \A i \in 1..r - 1 : i \in 1..Len(rx)
        OBVIOUS
    <2>6. \A i \in 1..r - 1 : rx'[i] \in Unasked
        BY <2>2, <2>5
    <2>7. WasTaken(doing, level', air', back', rx')
        BY <2>2, <2>3, <2>4, <2>6 DEF WasTaken
    <2>. QED  BY <1>1, <1>3, <2>1, <2>7 DEF OneAtATime
<1>. QED  BY <1>1, <1>2, <1>3

(* The devices, the way back, and what gets lost.                          *)
LEMMA AirKeeps ==
    ASSUME OneAtATime, doing.at # "end", DeviceHears \/ AnswerArrives \/ IsLost
    PROVE  OneAtATime'
<1>1. doing \in Doings /\ rx \in Seq(Messages) /\ level \in [Insteon -> {0, Full}] /\ Len(rx) \in Nat
    BY DEF OneAtATime
<1>2. air # << >> \/ back # << >> => Typed(doing)
    BY DEF OneAtATime, Nothing
<1>3. CASE DeviceHears
    <2>1. air # << >> /\ air' = Tail(air) /\ UNCHANGED << doing, tx, rx, last, accepted >>
        BY <1>3 DEF DeviceHears
    <2>2. ASSUME NEW k \in 0..Len(rx), Flying(doing, level, air, back, rx, k)
          PROVE  /\ Flying(doing, level', air', back', rx', k)
                 /\ level' \in [Insteon -> {0, Full}]
        <3>. DEFINE p == packet(doing)
        <3>1. doing.addr \in Insteon /\ air = << p >> /\ back = << >> /\ Noise(rx, k)
            BY <2>1, <2>2, OnItsWay
        <3>2. p.addr = doing.addr /\ p.com = doing.com
            BY <1>1, <1>2, <2>1, <3>1, PacketKind
        <3>. HIDE DEF p
        <3>3. Head(air) = p /\ air' = << >>
            BY <2>1, <3>1, OneOf
        <3>4. \E v \in {0, Full} :
                 /\ back' = Append(back, Message("RECV_STD", p.addr, v))
                 /\ \/ p.com = "on" /\ v = Full /\ level' = [ level EXCEPT ![p.addr] = Full ]
                    \/ p.com = "off" /\ v = 0 /\ level' = [ level EXCEPT ![p.addr] = 0 ]
                    \/ p.com = "on" /\ v = 0 /\ level' = level
                    \/ p.com = "off" /\ v = Full /\ level' = level
                    \/ p.com = "status" /\ v = level[p.addr] /\ level' = level
                    \/ p.com = "ping" /\ v = 0 /\ level' = level
            <4>1. level[p.addr] \in {0, Full}
                BY <1>1, <3>1, <3>2
            <4>. QED  BY <1>3, <3>3, <4>1 DEF DeviceHears
        <3>5. PICK v \in {0, Full} :
                 /\ back' = Append(back, Message("RECV_STD", p.addr, v))
                 /\ \/ p.com = "on" /\ v = Full /\ level' = [ level EXCEPT ![p.addr] = Full ]
                    \/ p.com = "off" /\ v = 0 /\ level' = [ level EXCEPT ![p.addr] = 0 ]
                    \/ p.com = "on" /\ v = 0 /\ level' = level
                    \/ p.com = "off" /\ v = Full /\ level' = level
                    \/ p.com = "status" /\ v = level[p.addr] /\ level' = level
                    \/ p.com = "ping" /\ v = 0 /\ level' = level
            BY <3>4
        <3>. DEFINE m == Message("RECV_STD", p.addr, v)
        <3>6. m.cmd = "RECV_STD" /\ m.addr = doing.addr /\ m.val = v /\ m \in Messages
            BY <3>1, <3>2 DEF Message, Messages
        <3>. HIDE DEF m
        <3>7. back' = << m >>
            BY <3>1, <3>5, OneOf DEF m
        <3>8. Full # 0
            BY DEF Full
        <3>9. Honest(doing, level', m)
            BY <1>1, <3>1, <3>2, <3>5, <3>6, <3>8 DEF Honest, failed
        <3>10. level' \in [Insteon -> {0, Full}]
            BY <1>1, <3>1, <3>2, <3>5
        <3>. QED  BY <2>1, <3>1, <3>3, <3>6, <3>7, <3>9, <3>10 DEF Flying
    <2>3. level' \in [Insteon -> {0, Full}]
        <3>1. \E k \in 0..Len(rx) : Flying(doing, level, air, back, rx, k)
            BY <2>1, IsFlying
        <3>. QED  BY <2>2, <3>1
    <2>. QED  BY <1>1, <2>1, <2>2, <2>3, AirMoves
<1>4. CASE AnswerArrives
    <2>1. /\ back # << >> /\ back' = Tail(back) /\ rx' = Append(rx, Head(back))
          /\ UNCHANGED << doing, tx, air, level, last, accepted >>
        BY <1>4 DEF AnswerArrives
    <2>2. \E k \in 0..Len(rx) : Flying(doing, level, air, back, rx, k)
        BY <2>1, IsFlying
    <2>3. /\ doing.addr \in Insteon /\ air = << >>
          /\ \E m \in Messages : back = << m >> /\ Honest(doing, level, m)
        BY <2>1, <2>2, OnItsWay
    <2>4. PICK m \in Messages : back = << m >> /\ Honest(doing, level, m)
        BY <2>3
    <2>5. Head(back) = m /\ back' = << >> /\ rx' = Append(rx, m)
        BY <2>1, <2>4, OneOf
    <2>6. /\ rx' \in Seq(Messages) /\ Len(rx') = Len(rx) + 1
          /\ \A i \in 1..Len(rx) : rx'[i] = rx[i]
          /\ rx'[Len(rx) + 1] = m
          /\ \A i \in 1..Len(rx') : i \in 1..Len(rx) \/ i = Len(rx) + 1
        BY <1>1, <2>4, <2>5, AppendOf
    <2>7. ASSUME NEW k \in 0..Len(rx), Flying(doing, level, air, back, rx, k)
          PROVE  Flying(doing, level', air', back', rx', k)
        <3>1. Noise(rx, k)
            BY <2>1, <2>7, OnItsWay
        <3>. DEFINE q == Len(rx) + 1
        <3>2. q \in 1..Len(rx') /\ q > k /\ Honest(doing, level', rx'[q])
            BY <1>1, <2>1, <2>4, <2>6
        <3>3. \A i \in 1..Len(rx') : i > k /\ i # q => rx'[i] \in Unasked
            BY <2>6, <3>1 DEF Noise
        <3>. HIDE DEF q
        <3>. QED  BY <2>1, <2>3, <2>5, <3>2, <3>3 DEF Flying
    <2>. QED  BY <1>1, <2>1, <2>6, <2>7, AirMoves
<1>5. CASE IsLost
    <2>1. /\ UNCHANGED << doing, tx, rx, level, last, accepted >>
          /\ \/ air # << >> /\ air' = Tail(air) /\ UNCHANGED back
             \/ back # << >> /\ back' = Tail(back) /\ UNCHANGED air
        BY <1>5 DEF IsLost
    <2>2. ASSUME NEW k \in 0..Len(rx), Flying(doing, level, air, back, rx, k)
          PROVE  Flying(doing, level', air', back', rx', k)
        <3>1. Noise(rx, k) /\ air' = << >> /\ back' = << >>
            <4>1. CASE air # << >> /\ air' = Tail(air) /\ UNCHANGED back
                <5>1. air = << packet(doing) >> /\ back = << >> /\ Noise(rx, k)
                    BY <2>2, <4>1, OnItsWay
                <5>. QED  BY <4>1, <5>1, OneOf
            <4>2. CASE back # << >> /\ back' = Tail(back) /\ UNCHANGED air
                <5>1. PICK m : back = << m >> /\ air = << >> /\ Noise(rx, k)
                    BY <2>2, <4>2, OnItsWay
                <5>. QED  BY <4>2, <5>1, OneOf
            <4>. QED  BY <2>1, <4>1, <4>2
        <3>. QED  BY <2>1, <3>1 DEF Flying
    <2>. QED  BY <1>1, <2>1, <2>2, AirMoves
<1>. QED  BY <1>3, <1>4, <1>5

(***************************************************************************)
(* The theorem                                                             *)
(***************************************************************************)
(* As long as there is one answer for each command, a command that is done *)
(* was carried out.                                                        *)
LEMMA PlmInvStep ==
    ASSUME PlmInv, [PlmNext]_plm_vars
    PROVE  PlmInv'
<1>1. left \in Lefts /\ MaxLate \in Nat
    BY PlmAssumption DEF PlmInv
<1>2. left' \in Lefts /\ (left'.late = MaxLate => left.late = MaxLate)
    <2>1. \/ left' = left
          \/ left.typed > 0 /\ left' = [ left EXCEPT !.typed = @ - 1 ]
          \/ left.busy > 0 /\ left' = [ left EXCEPT !.busy = @ - 1 ]
          \/ left.noise > 0 /\ left' = [ left EXCEPT !.noise = @ - 1 ]
          \/ left.lost > 0 /\ left' = [ left EXCEPT !.lost = @ - 1 ]
          \/ left.late > 0 /\ left' = [ left EXCEPT !.late = @ - 1 ]
        BY DEF PlmNext, PlmStep, Writes, ReadsEcho, ReadsAnswer, TimesOut, ModemTakes, ModemHears,
               DeviceHears, AnswerArrives, IsLost, docmd, plm_vars
    <2>. QED  BY <1>1, <2>1 DEF Lefts
<1>3. SUFFICES ASSUME left'.late = MaxLate, OneAtATime
               PROVE  OneAtATime'
    BY <1>2 DEF PlmInv
<1>4. CASE UNCHANGED plm_vars
    BY <1>3, <1>4 DEF plm_vars, OneAtATime, Nothing, LastDone
<1>5. CASE doing.at = "end"
    <2>1. doing' = doing
        BY <1>5 DEF PlmNext, PlmStep, Writes, ReadsEcho, ReadsAnswer, TimesOut, ModemTakes, ModemHears,
               DeviceHears, AnswerArrives, IsLost, docmd, plm_vars
    <2>. QED  BY <1>3, <1>5, <2>1 DEF OneAtATime
<1>6. CASE PlmStep
    <2>1. CASE TimesOut
        <3>1. air = << >> /\ back = << >>
            <4>1. left' # [ left EXCEPT !.late = @ - 1 ]
                BY <1>1, <1>2, <1>3 DEF Lefts
            <4>. QED  BY <2>1, <4>1 DEF TimesOut
        <3>. QED  BY <1>3, <2>1, <3>1, TimesOutKeeps
    <2>. QED  BY <1>3, <1>6, <2>1, WritesKeeps, ReadsEchoKeeps, ReadsAnswerKeeps DEF PlmStep
<1>7. CASE ModemTakes \/ ModemHears \/ DeviceHears \/ AnswerArrives \/ IsLost
    BY <1>3, <1>5, <1>7, ModemTakesKeeps, ModemHearsKeeps, AirKeeps
<1>8. CASE \E com \in { "on", "off", "status", "ping", "info", "reset" },
               addr \in Insteon \cup X10 \cup {""} : docmd(com, addr)
    BY <1>3, <1>8, DocmdKeeps
<1>. QED  BY <1>4, <1>6, <1>7, <1>8 DEF PlmNext

(* For any Insteon and X10 devices, any noise, refusals and losses: while  *)
(* no answer has come after its time-out, a command of which plmpower says *)
(* that it is done was carried out by the device, and what it says of a    *)
(* device is so.                                                           *)
THEOREM DoneIsCarriedOut == PlmSpec => []CarriedOut
<1>1. PlmInit => PlmInv
    <2>. SUFFICES ASSUME PlmInit PROVE PlmInv
        OBVIOUS
    <2>1. left \in Lefts
        <3>1. MaxTyped \in Nat /\ MaxNoise \in Nat /\ MaxBusy \in Nat /\ MaxLost \in Nat /\ MaxLate \in Nat
            BY PlmAssumption
        <3>2. MaxLate \in 0..MaxLate
            BY <3>1
        <3>. QED  BY <3>1, <3>2 DEF PlmInit, Lefts
    <2>2. doing \in Doings /\ doing.at = "shell"
        BY DEF PlmInit, Shell, Doings
    <2>3. Nothing
        <3>1. tx = << >> /\ rx = << >> /\ air = << >> /\ back = << >>
            BY DEF PlmInit
        <3>2. Len(rx) = 0
            BY <3>1
        <3>. QED  BY <3>1, <3>2 DEF Nothing, Noise
    <2>4. LastDone
        <3>1. last.addr = ""
            BY DEF PlmInit
        <3>2. "" \notin Insteon /\ "" \notin X10
            BY PlmAssumption
        <3>. QED  BY <3>1, <3>2 DEF LastDone
    <2>5. rx \in Seq(Messages) /\ level \in [Insteon -> {0, Full}]
        <3>1. rx = << >> /\ level \in [Insteon -> {0, Full}]
            BY DEF PlmInit
        <3>2. << >> \in Seq(Messages)
            OBVIOUS
        <3>. QED  BY <3>1, <3>2
    <2>. QED  BY <2>1, <2>2, <2>3, <2>4, <2>5 DEF PlmInv, OneAtATime
<1>2. PlmInv /\ [PlmNext]_plm_vars => PlmInv'
    BY PlmInvStep
<1>3. PlmInv => CarriedOut
    BY DEF PlmInv, OneAtATime, LastDone, CarriedOut, Told
<1>. QED  BY <1>1, <1>2, <1>3, PTL DEF PlmSpec
=============================================================================
