---------------------------- MODULE Mesh_proofs ----------------------------
(***************************************************************************)
(* A packet in a network of repeaters, for every network, every packet and *)
(* every length at which links cut packets short.                          *)
(***************************************************************************)
EXTENDS Mesh, Codec_proofs

\* Zenon tries every step; SMT is named where arithmetic, or what only it knows
\* of functions and records, is needed.
USE ZenonT(40)

Nodes == Repeaters \cup Phones

\* What is on the links
Copies == [from : Nodes, to : Nodes, bytes : Seq(Bytes), hops : Nat]

\* What a repeater knows of a packet
Entries ==
  [packet : Packets, from : Nodes \cup {NoLink}, handed : SUBSET Nodes,
   queued : BOOLEAN, hops : Nat]

\* The types of all variables, from which TypeOK follows.
TypeInv ==
  /\ original \in Originals
  /\ store \in [Repeaters -> SUBSET Entries]
  /\ air \subseteq Copies

\* A copy that is cut short is a sequence of bytes.
LEMMA CutType ==
  ASSUME NEW b \in Seq(Bytes), NEW mtu \in Nat
  PROVE  Cut(b, mtu) \in Seq(Bytes)
<1>1. CASE mtu < Len(b)
  <2>1. mtu \in 0..Len(b)
    BY SMT, <1>1
  <2> QED BY <1>1, <2>1, Rest DEF Cut
<1>2. CASE ~(mtu < Len(b))
  BY <1>2 DEF Cut
<1> QED BY <1>1, <1>2

\* The entry of a packet that was just stored
NewPacket(p, origin, hops) ==
  [packet |-> p, from |-> origin, handed |-> {}, queued |-> Enqueued(p), hops |-> hops]

\* What Arrive does at a repeater: it leaves the packet, or adds it to its store.
LEMMA Arrival ==
  ASSUME TypeInv, NEW c \in air, Arrive(c)
  PROVE  \/ store' = store
         \/ \E mtu \in Mtus :
              LET p == ReadPacket(Cut(c.bytes, mtu)) IN
              /\ c.to \in Repeaters
              /\ Relayed(p) /\ ~Knows(c.to, p)
              /\ store' = [store EXCEPT ![c.to] = @ \cup {NewPacket(p, Origin(c), c.hops)}]
BY DEF Arrive, Received, NewPacket

\* What arrives is stored with its types.
LEMMA NewPacketType ==
  ASSUME TypeInv, NEW c \in air, NEW mtu \in Mtus
  PROVE  /\ ReadPacket(Cut(c.bytes, mtu)) \in Packets
         /\ Origin(c) \in Nodes \cup {NoLink}
         /\ NewPacket(ReadPacket(Cut(c.bytes, mtu)), Origin(c), c.hops) \in Entries
<1> DEFINE p == ReadPacket(Cut(c.bytes, mtu))
<1>1. c.bytes \in Seq(Bytes) /\ c.from \in Nodes /\ c.hops \in Nat /\ mtu \in Nat
  BY MtuAssumption DEF TypeInv, Copies
<1>2. p \in Packets
  BY <1>1, CutType, ReadPacketType
<1> HIDE DEF p
<1>3. Origin(c) \in Nodes \cup {NoLink}
  BY <1>1 DEF Origin
<1>4. Enqueued(p) \in BOOLEAN
  BY SMT DEF Enqueued
<1>5. NewPacket(p, Origin(c), c.hops) \in Entries
  BY <1>1, <1>2, <1>3, <1>4 DEF NewPacket, Entries
<1> QED BY <1>2, <1>3, <1>5 DEF p

\* Every step keeps the types: what is stored is what processWrite reads, and
\* what is sent is what writePacket writes of it.
LEMMA TypeNext == TypeInv /\ [Next]_vars => TypeInv'
<1> SUFFICES ASSUME TypeInv, [Next]_vars PROVE TypeInv'
  OBVIOUS
<1>1. ASSUME NEW phone \in Phones, Originate(phone) PROVE TypeInv'
  <2>1. original \in Seq(Bytes)
    BY OriginalsAssumption DEF TypeInv
  <2>2. \A n \in Neighbours(phone) : Copy(phone, n, original, 0) \in Copies
    BY <2>1 DEF Copy, Copies, Neighbours, Nodes
  <2> QED BY <1>1, <2>2 DEF Originate, TypeInv
<1>2. ASSUME NEW c \in air, Arrive(c) PROVE TypeInv'
  <2>1. original' = original /\ air' \subseteq air
    BY <1>2 DEF Arrive
  <2>2. CASE store' = store
    BY <2>1, <2>2 DEF TypeInv
  <2>3. CASE store' # store
    <3>1. PICK mtu \in Mtus :
            /\ c.to \in Repeaters
            /\ store' = [store EXCEPT ![c.to] =
                 @ \cup {NewPacket(ReadPacket(Cut(c.bytes, mtu)), Origin(c), c.hops)}]
      BY <1>2, <2>3, Arrival
    <3>2. NewPacket(ReadPacket(Cut(c.bytes, mtu)), Origin(c), c.hops) \in Entries
      BY NewPacketType
    <3> QED BY <2>1, <3>1, <3>2 DEF TypeInv
  <2> QED BY <2>2, <2>3
<1>3. ASSUME NEW c \in air, Lose(c) PROVE TypeInv'
  BY <1>3 DEF Lose, TypeInv
<1>4. ASSUME NEW n \in Repeaters, NEW e \in store[n], NEW m \in Neighbours(n),
             NEW actual \in Neighbours(n), HandOver(n, e, m, actual)
      PROVE  TypeInv'
  <2>1. e \in Entries /\ m \in Nodes /\ actual \in Nodes /\ n \in Nodes
    BY DEF TypeInv, Neighbours, Nodes
  <2>2. [e EXCEPT !.handed = @ \cup {m}] \in Entries
    BY <2>1 DEF Entries
  <2>3. WritePacket(e.packet) \in Seq(Bytes) /\ e.hops + 1 \in Nat
    BY SMT, <2>1, WritePacketType DEF Entries
  <2>4. Copy(n, actual, WritePacket(e.packet), e.hops + 1) \in Copies
    BY <2>1, <2>3 DEF Copy, Copies
  <2> QED BY <1>4, <2>2, <2>4 DEF HandOver, TypeInv
<1>5. ASSUME NEW n \in Repeaters, NEW e \in store[n], Dequeue(n, e) PROVE TypeInv'
  <2>1. e \in Entries
    BY DEF TypeInv
  <2>2. [e EXCEPT !.queued = FALSE] \in Entries
    BY <2>1 DEF Entries
  <2> QED BY <1>5, <2>2 DEF Dequeue, TypeInv
<1>6. ASSUME NEW n \in Repeaters, NEW old \in SUBSET store[n], Forget(n, old) PROVE TypeInv'
  BY <1>6 DEF Forget, TypeInv
<1>7. CASE UNCHANGED vars
  BY <1>7 DEF vars, TypeInv
<1> QED BY <1>1, <1>2, <1>3, <1>4, <1>5, <1>6, <1>7 DEF Next, Dequeues

\* The types hold in every behaviour.
LEMMA TypeInvariant == Spec => []TypeInv
<1>1. Init => TypeInv
  BY DEF Init, TypeInv
<1> QED BY <1>1, TypeNext, PTL DEF Spec

\* Everything that writePacket writes is a sequence of bytes, for every packet
\* that processWrite reads.
THEOREM TypeCorrect == Spec => []TypeOK
<1>1. TypeInv => TypeOK
  BY DEF TypeInv, TypeOK, Copies
<1> QED BY <1>1, TypeInvariant, PTL
----------------------------------------------------------------------------
(* The number of hops *)

\* The third byte of a packet is its ttl, however much of the rest is there.
LEMMA ReadTtl ==
  ASSUME NEW b \in Seq(Bytes), Len(b) >= 3
  PROVE  ReadPacket(b).ttl = b[3]
<1> DEFINE x1 == After(b, 1)
           x2 == After(x1, 1)
<1>0. Len(b) \in Nat /\ 1 \in 0..Len(b)
  BY SMT
<1>1. TakeByte(b).rest = x1 /\ x1 \in Seq(Bytes) /\ Len(x1) = Len(b) - 1
  BY SMT, <1>0, Rest DEF TakeByte
<1>2. x1[2] = b[3]
  BY SMT, <1>0 DEF After
<1> HIDE DEF x1
<1>3. Len(x1) \in Nat /\ 1 \in 0..Len(x1)
  BY SMT, <1>0, <1>1
<1>4. TakeByte(x1).rest = x2 /\ x2 \in Seq(Bytes) /\ Len(x2) = Len(x1) - 1
  BY SMTT(30), <1>0, <1>1, <1>3, Rest DEF TakeByte
<1>5. x2[1] = x1[2]
  BY SMT, <1>0, <1>1, <1>3 DEF After
<1> HIDE DEF x2
<1>6. TakeByte(x2).value = x2[1]
  BY SMTT(30), <1>0, <1>1, <1>3, <1>4 DEF TakeByte
<1>7. ReadHeader(b).ttl = TakeByte(TakeByte(TakeByte(b).rest).rest).value
  BY DEF ReadHeader
<1>8. ReadPacket(b).ttl = ReadHeader(b).ttl
  BY DEF ReadPacket
<1> QED BY <1>1, <1>2, <1>4, <1>5, <1>6, <1>7, <1>8

\* What the readers return at the end of the data.
LEMMA Nothing ==
  /\ TakeByte(<<>>) = [value |-> 0, rest |-> <<>>]
  /\ TakeShort(<<>>) = [value |-> 0, rest |-> <<>>]
  /\ TakeLong(<<>>) = [value |-> Zero, rest |-> <<>>]
  /\ TakeData(<<>>, 0) = [readable |-> TRUE, value |-> <<>>, rest |-> <<>>]
<1> DEFINE e == <<>>
<1>1. Len(e) = 0 /\ SubSeq(e, 1, 0) = e /\ After(e, 0) = e
  BY SMT DEF After
<1> HIDE DEF e
<1>2. TakeByte(e) = [value |-> 0, rest |-> e]
  BY SMT, <1>1 DEF TakeByte
<1>3. TakeShort(e) = [value |-> 0, rest |-> e]
  BY SMT, <1>1 DEF TakeShort
<1>4. TakeLong(e) = [value |-> Zero, rest |-> e]
  BY <1>1, LongSize DEF TakeLong
<1>5. TakeData(e, 0) = [readable |-> TRUE, value |-> e, rest |-> e]
  <2>1. e \in Seq(Bytes) /\ e \o e = e
    BY SMT DEF e
  <2>2. TakeData(e \o e, Len(e)) = [readable |-> TRUE, value |-> e, rest |-> e]
    BY <2>1, TakeDataOf
  <2> QED BY <1>1, <2>1, <2>2
<1> QED BY <1>2, <1>3, <1>4, <1>5 DEF e

\* read_uint8 takes one byte, if there is one.
LEMMA Advance ==
  ASSUME NEW b \in Seq(Bytes), Len(b) >= 1
  PROVE  TakeByte(b).rest \in Seq(Bytes) /\ Len(TakeByte(b).rest) = Len(b) - 1
<1>1. Len(b) \in Nat /\ 1 \in 0..Len(b) /\ ~(Len(b) < 1)
  BY SMT
<1>2. TakeByte(b).rest = After(b, 1)
  BY <1>1 DEF TakeByte
<1> QED BY SMTT(30), <1>1, <1>2, Rest

\* A packet that was cut before its ttl is not relayed.
LEMMA TooShort ==
  ASSUME NEW b \in Seq(Bytes), Len(b) < 3
  PROVE  ~Relayed(ReadPacket(b))
<1> DEFINE version == TakeByte(b)
           type == TakeByte(version.rest)
           ttl == TakeByte(type.rest)
           timestamp == TakeLong(ttl.rest)
           flags == TakeByte(timestamp.rest)
           length == TakeShort(flags.rest)
           sender == TakeLong(length.rest)
           h == ReadHeader(b)
           data == ReadPayload(h)
           r == ReadPacket(b)
<1>1. /\ h.version = version.value /\ h.type = type.value /\ h.ttl = ttl.value
      /\ h.flags = flags.value /\ h.length = length.value
      /\ ~HasRecipient(flags.value) => h.rest = sender.rest
  BY DEF ReadHeader
<1>2. /\ r.type = h.type /\ r.ttl = h.ttl
      /\ r.readable => h.version = 1
      /\ r.readable /\ h.type = type_message => ProcessMessage(data.value).readable
  BY DEF ReadPacket
<1> HIDE DEF h, r, data
<1> SUFFICES ~Relayed(r)
  BY DEF r
<1>0. Len(b) = 0 \/ Len(b) = 1 \/ Len(b) = 2
  <2> DEFINE n == Len(b)
  <2>1. n \in Nat /\ n < 3
    BY SMT
  <2> HIDE DEF n
  <2>2. n = 0 \/ n = 1 \/ n = 2
    BY SMT, <2>1
  <2> QED BY <2>2 DEF n
<1>3. CASE Len(b) = 0
  <2>1. version.value = 0
    BY SMT, <1>3 DEF TakeByte
  <2> HIDE DEF version
  <2>2. h.version = 0
    BY <1>1, <2>1
  <2>3. ~r.readable
    BY SMT, <1>2, <2>2
  <2> QED BY <2>3 DEF Relayed
<1>4. CASE Len(b) = 1
  <2>0. Len(b) >= 1
    BY SMT, <1>4
  <2>1. version.rest \in Seq(Bytes) /\ Len(version.rest) = Len(b) - 1
    BY <2>0, Advance
  <2>2. Len(version.rest) = 0
    BY SMT, <1>4, <2>1
  <2> HIDE DEF version
  <2>3. type.value = 0
    BY SMT, <2>1, <2>2 DEF TakeByte
  <2>4. 0 \notin PassedAlong /\ 0 # type_message
    BY SMT DEF PassedAlong, type_announce, type_message
  <2> QED BY <1>1, <1>2, <2>3, <2>4 DEF Relayed
<1>5. CASE Len(b) = 2
  <2>0. Len(b) >= 1
    BY SMT, <1>5
  <2>1. version.rest \in Seq(Bytes) /\ Len(version.rest) = Len(b) - 1
    BY <2>0, Advance
  <2>2. Len(version.rest) = 1
    BY SMT, <1>5, <2>1
  <2> HIDE DEF version
  <2>3. type.rest \in Seq(Bytes) /\ Len(type.rest) = Len(version.rest) - 1
    BY SMTT(30), <2>1, <2>2, Advance
  <2>4. type.rest \in Seq(Bytes) /\ Len(type.rest) = 0
    BY SMT, <2>2, <2>3
  <2> HIDE DEF type
  <2>5. type.rest = <<>>
    BY SMT, <2>4
  <2>6. ttl = [value |-> 0, rest |-> <<>>]
    BY <2>5, Nothing
  <2> HIDE DEF ttl
  <2>7. timestamp = [value |-> Zero, rest |-> <<>>]
    BY <2>6, Nothing
  <2> HIDE DEF timestamp
  <2>8. flags = [value |-> 0, rest |-> <<>>]
    BY <2>7, Nothing
  <2> HIDE DEF flags
  <2>9. length = [value |-> 0, rest |-> <<>>]
    BY <2>8, Nothing
  <2> HIDE DEF length
  <2>10. sender.rest = <<>>
    BY SMT, <2>9, Nothing
  <2> HIDE DEF sender
  <2>11. ~HasRecipient(0) /\ ~IsCompressed(0)
    BY SMT DEF HasRecipient, IsCompressed, Bit
  <2>12. h.flags = 0 /\ h.length = 0 /\ h.rest = <<>> /\ h.ttl = 0
    BY <1>1, <2>6, <2>8, <2>9, <2>10, <2>11
  <2>13. data.value = <<>>
    <3>1. data = TakeData(h.rest, h.length)
      BY <2>11, <2>12 DEF ReadPayload, data
    <3> QED BY SMTT(30), <2>12, <3>1, Nothing
  <2>14. ~ProcessMessage(<<>>).readable
    <3>1. Len(<<>>) = 0 /\ ~(0 >= LongBytes + 5)
      BY SMT, LongSize
    <3>2. ProcessMessage(<<>>).readable => Len(<<>>) >= LongBytes + 5
      BY DEF ProcessMessage
    <3> QED BY <3>1, <3>2
  <2>15. ~(r.ttl >= 1)
    BY SMT, <1>2, <2>12
  <2>16. ~(r.readable /\ r.type = type_message)
    BY <1>2, <2>13, <2>14
  <2> QED BY <2>15, <2>16 DEF Relayed
<1> QED BY <1>0, <1>3, <1>4, <1>5

\* The ttl says how many hops are left, and what is queued has one left.
HopInv ==
  /\ OriginalTtl \in Bytes
  /\ \A c \in air : Len(c.bytes) >= 3 /\ c.bytes[3] = OriginalTtl - c.hops
  /\ \A n \in Repeaters : \A e \in store[n] :
       /\ e.packet.ttl = OriginalTtl - e.hops
       /\ e.queued => e.packet.ttl > 0

\* The ttl of what arrives and is relayed.
LEMMA ArrivingTtl ==
  ASSUME NEW b \in Seq(Bytes), Len(b) >= 3, NEW mtu \in Nat, Relayed(ReadPacket(Cut(b, mtu)))
  PROVE  ReadPacket(Cut(b, mtu)).ttl = b[3]
<1> DEFINE k == Cut(b, mtu)
<1>1. k \in Seq(Bytes)
  BY CutType
<1>2. Len(k) >= 3
  <2>1. Len(k) \in Nat
    BY SMT, <1>1
  <2>2. ~(Len(k) < 3)
    <3> HIDE DEF k
    <3> QED BY <1>1, TooShort DEF k
  <2> HIDE DEF k
  <2> QED BY SMT, <2>1, <2>2
<1>3. k[3] = b[3]
  <2>1. CASE mtu < Len(b)
    <3>1. k = SubSeq(b, 1, mtu)
      BY <2>1 DEF Cut
    <3>2. mtu \in 0..Len(b)
      BY SMT, <2>1
    <3>3. Len(k) = mtu
      BY SMTT(30), <3>1, <3>2, Rest
    <3> HIDE DEF k
    <3>4. 3 \in 1..mtu
      BY SMT, <1>2, <3>3
    <3> QED BY SMT, <3>1, <3>2, <3>4
  <2>2. CASE ~(mtu < Len(b))
    BY <2>2 DEF Cut
  <2> QED BY <2>1, <2>2
<1> HIDE DEF k
<1>4. ReadPacket(k).ttl = k[3]
  BY <1>1, <1>2, ReadTtl
<1> QED BY <1>3, <1>4 DEF k

\* writePacket writes the ttl of the next hop.
LEMMA Lowered ==
  ASSUME TypeInv, HopInv, NEW n \in Repeaters, NEW e \in store[n], e.queued
  PROVE  (e.packet.ttl - 1) % Byte = OriginalTtl - (e.hops + 1)
<1> DEFINE t == e.packet.ttl
<1>1. e.packet \in Packets /\ e.hops \in Nat
  BY SMT DEF TypeInv, Entries
<1>2. t = OriginalTtl - e.hops /\ t > 0
  BY DEF HopInv
<1>3. t \in Int /\ t < Byte
  BY <1>1, InBytes DEF Packets
<1>4. OriginalTtl \in Int
  BY InBytes DEF HopInv
<1> HIDE DEF t
<1>5. (t - 1) % Byte = t - 1
  BY SMTT(30), <1>2, <1>3, Sizes
<1>6. (t - 1) % Byte = OriginalTtl - (e.hops + 1)
  BY SMTT(30), <1>1, <1>2, <1>4, <1>5
<1> QED BY <1>6 DEF t

\* Every step keeps the ttl and the number of hops in step.
LEMMA HopNext == TypeInv /\ HopInv /\ [Next]_vars => HopInv'
<1> SUFFICES ASSUME TypeInv, HopInv, [Next]_vars PROVE HopInv'
  OBVIOUS
<1>0. original' = original => OriginalTtl' = OriginalTtl
  BY DEF OriginalTtl
<1>1. ASSUME NEW phone \in Phones, Originate(phone) PROVE HopInv'
  <2>1. original' = original /\ store' = store
    BY <1>1 DEF Originate
  <2>2. original \in Seq(Bytes) /\ Len(original) >= 3
    <3>1. original \in Seq(Bytes) /\ Len(original) >= 6 + 2 * LongBytes
      BY OriginalsAssumption DEF TypeInv
    <3>2. Len(original) \in Nat
      BY SMT, <3>1
    <3> QED BY SMTT(30), <3>1, <3>2, LongSize
  <2>3. OriginalTtl = OriginalTtl - 0
    <3>1. OriginalTtl \in Int
      BY InBytes DEF HopInv
    <3> QED BY SMT, <3>1
  <2>4. \A c \in air' : c.bytes = original /\ c.hops = 0
    BY SMT, <1>1 DEF Originate, Copy
  <2>5. \A c \in air' : Len(c.bytes) >= 3 /\ c.bytes[3] = OriginalTtl - c.hops
    BY <2>2, <2>3, <2>4 DEF OriginalTtl, TtlAt
  <2> QED BY <1>0, <2>1, <2>5 DEF HopInv
<1>2. ASSUME NEW c \in air, Arrive(c) PROVE HopInv'
  <2>1. original' = original /\ air' \subseteq air
    BY <1>2 DEF Arrive
  <2>2. CASE store' = store
    BY <1>0, <2>1, <2>2 DEF HopInv
  <2>3. CASE store' # store
    <3>1. PICK mtu \in Mtus :
            /\ c.to \in Repeaters /\ Relayed(ReadPacket(Cut(c.bytes, mtu)))
            /\ store' = [store EXCEPT ![c.to] =
                 @ \cup {NewPacket(ReadPacket(Cut(c.bytes, mtu)), Origin(c), c.hops)}]
      BY <1>2, <2>3, Arrival
    <3> DEFINE p == ReadPacket(Cut(c.bytes, mtu))
               new == NewPacket(p, Origin(c), c.hops)
    <3>2. c.bytes \in Seq(Bytes) /\ mtu \in Nat /\ Len(c.bytes) >= 3
      BY MtuAssumption DEF TypeInv, Copies, HopInv
    <3>3. p.ttl = c.bytes[3]
      BY <3>1, <3>2, ArrivingTtl
    <3>4. p.ttl = OriginalTtl - c.hops
      BY <3>3 DEF HopInv
    <3> HIDE DEF p
    <3>5. new.packet = p /\ new.hops = c.hops /\ new.queued = (p.ttl > 0)
      BY DEF NewPacket, Enqueued
    <3> HIDE DEF new
    <3>6. /\ new.packet.ttl = OriginalTtl - new.hops
          /\ new.queued => new.packet.ttl > 0
      BY <3>4, <3>5
    <3>7. \A n \in Repeaters : \A e \in store'[n] : e \in store[n] \/ e = new
      BY <3>1 DEF TypeInv, new, p
    <3>8. \A n \in Repeaters : \A e \in store'[n] :
            /\ e.packet.ttl = OriginalTtl - e.hops
            /\ e.queued => e.packet.ttl > 0
      BY <3>6, <3>7 DEF HopInv
    <3> QED BY <1>0, <2>1, <3>8 DEF HopInv
  <2> QED BY <2>2, <2>3
<1>3. ASSUME NEW c \in air, Lose(c) PROVE HopInv'
  BY <1>0, <1>3 DEF Lose, HopInv
<1>4. ASSUME NEW n \in Repeaters, NEW e \in store[n], NEW m \in Neighbours(n),
             NEW actual \in Neighbours(n), HandOver(n, e, m, actual)
      PROVE  HopInv'
  <2> DEFINE f == [e EXCEPT !.handed = @ \cup {m}]
             w == WritePacket(e.packet)
             k == Copy(n, actual, w, e.hops + 1)
  <2>1. e \in Entries
    BY DEF TypeInv
  <2>2. e.packet \in Packets /\ e.hops \in Nat /\ e.queued
    BY <1>4, <2>1 DEF Entries, HandOver, MayHand
  <2>3. e.packet.ttl = OriginalTtl - e.hops /\ e.packet.ttl > 0
    BY <2>2 DEF HopInv
  <2>4. f.packet = e.packet /\ f.hops = e.hops /\ f.queued = e.queued
    BY <2>1 DEF Entries
  <2> HIDE DEF f
  <2>5. w \in Seq(Bytes) /\ Len(w) \in Nat /\ Len(w) >= 6 + 2 * LongBytes
        /\ w[3] = (e.packet.ttl - 1) % Byte
    BY <2>2, WritePacketType
  <2> HIDE DEF w
  <2>6. Len(w) >= 3
    BY SMT, <2>5, LongSize
  <2>7. w[3] = OriginalTtl - (e.hops + 1)
    BY <2>2, <2>5, Lowered
  <2>8. k.bytes = w /\ k.hops = e.hops + 1
    BY DEF Copy
  <2> HIDE DEF k
  <2>9. original' = original /\ air' = air \cup {k}
        /\ store' = [store EXCEPT ![n] = (@ \ {e}) \cup {f}]
    BY <1>4 DEF HandOver, f, k, w
  <2>10. \A c \in air' : Len(c.bytes) >= 3 /\ c.bytes[3] = OriginalTtl - c.hops
    BY <2>6, <2>7, <2>8, <2>9 DEF HopInv
  <2>11. \A x \in Repeaters : \A d \in store'[x] : d \in store[x] \/ d = f
    BY <2>9 DEF TypeInv
  <2>12. \A x \in Repeaters : \A d \in store'[x] :
            /\ d.packet.ttl = OriginalTtl - d.hops
            /\ d.queued => d.packet.ttl > 0
    BY <2>3, <2>4, <2>11 DEF HopInv
  <2> QED BY <1>0, <2>9, <2>10, <2>12 DEF HopInv
<1>5. ASSUME NEW n \in Repeaters, NEW e \in store[n], Dequeue(n, e) PROVE HopInv'
  <2> DEFINE f == [e EXCEPT !.queued = FALSE]
  <2>1. e \in Entries
    BY DEF TypeInv
  <2>2. f.packet = e.packet /\ f.hops = e.hops /\ ~f.queued
    BY <2>1 DEF Entries
  <2> HIDE DEF f
  <2>3. original' = original /\ air' = air
        /\ store' = [store EXCEPT ![n] = (@ \ {e}) \cup {f}]
    BY <1>5 DEF Dequeue, f
  <2>4. \A x \in Repeaters : \A d \in store'[x] : d \in store[x] \/ d = f
    BY <2>3 DEF TypeInv
  <2>5. \A x \in Repeaters : \A d \in store'[x] :
            /\ d.packet.ttl = OriginalTtl - d.hops
            /\ d.queued => d.packet.ttl > 0
    BY SMT, <2>2, <2>4 DEF HopInv
  <2> QED BY <1>0, <2>3, <2>5 DEF HopInv
<1>6. ASSUME NEW n \in Repeaters, NEW old \in SUBSET store[n], Forget(n, old) PROVE HopInv'
  <2>1. \A x \in Repeaters : store'[x] \subseteq store[x]
    BY <1>6 DEF Forget, TypeInv
  <2> QED BY <1>0, <1>6, <2>1 DEF Forget, HopInv
<1>7. CASE UNCHANGED vars
  BY <1>0, <1>7 DEF vars, HopInv
<1> QED BY <1>1, <1>2, <1>3, <1>4, <1>5, <1>6, <1>7 DEF Next, Dequeues

\* The ttl and the number of hops are in step in every behaviour.
LEMMA HopInvariant == Spec => [](TypeInv /\ HopInv)
<1>1. Init => HopInv
  <2> SUFFICES ASSUME Init PROVE HopInv
    OBVIOUS
  <2>1. original \in Seq(Bytes) /\ Len(original) >= 6 + 2 * LongBytes
    BY OriginalsAssumption DEF Init
  <2>2. Len(original) \in Nat
    BY SMT, <2>1
  <2>3. 3 \in 1..Len(original)
    BY SMTT(30), <2>1, <2>2, LongSize
  <2>4. OriginalTtl \in Bytes
    BY SMT, <2>1, <2>3 DEF OriginalTtl, TtlAt
  <2> QED BY <2>4 DEF Init, HopInv
<1> QED BY <1>1, TypeInvariant, HopNext, PTL DEF Spec

\* No copy makes more hops than the phone allowed: the byte that writePacket
\* lowers does not pass zero, in every network, and for packets that processWrite
\* decompresses, that were cut short, or that are forgotten and come again.
THEOREM HopLimitCorrect == Spec => []HopLimit
<1>1. TypeInv /\ HopInv => HopLimit
  <2> SUFFICES ASSUME TypeInv, HopInv PROVE HopLimit
    OBVIOUS
  <2>1. ASSUME NEW c \in air PROVE c.hops <= OriginalTtl
    <3>1. c.bytes \in Seq(Bytes) /\ c.hops \in Nat
      BY DEF TypeInv, Copies
    <3>2. Len(c.bytes) \in Nat /\ Len(c.bytes) >= 3 /\ c.bytes[3] = OriginalTtl - c.hops
      BY SMT, <3>1 DEF HopInv
    <3>3. 3 \in 1..Len(c.bytes)
      BY SMT, <3>2
    <3>4. c.bytes[3] \in Bytes
      BY SMT, <3>1, <3>3
    <3>5. OriginalTtl - c.hops >= 0 /\ OriginalTtl \in Int
      BY <3>2, <3>4, InBytes DEF HopInv
    <3> QED BY SMT, <3>1, <3>5
  <2> QED BY <2>1 DEF HopLimit, HopInv
<1> QED BY <1>1, HopInvariant, PTL
----------------------------------------------------------------------------
(* What each repeater promises *)

\* messages and packets are maps: a repeater holds no two packets it would not
\* tell apart.
DistinctInv ==
  \A n \in Repeaters : \A e, f \in store[n] : Identity(e.packet) = Identity(f.packet) => e = f

\* Replacing an entry by one of the same packet keeps packets distinct.
LEMMA Replacing ==
  ASSUME TypeInv, DistinctInv, NEW n \in Repeaters, NEW e \in store[n], NEW f,
         f.packet = e.packet, store' = [store EXCEPT ![n] = (@ \ {e}) \cup {f}]
  PROVE  DistinctInv'
<1> SUFFICES ASSUME NEW x \in Repeaters, NEW a \in store'[x], NEW b \in store'[x],
                    Identity(a.packet) = Identity(b.packet)
             PROVE  a = b
  BY DEF DistinctInv
<1>1. CASE x # n
  <2>1. a \in store[x] /\ b \in store[x]
    BY <1>1 DEF TypeInv
  <2> QED BY <2>1 DEF DistinctInv
<1>2. CASE x = n
  <2>1. store'[n] = (store[n] \ {e}) \cup {f}
    BY DEF TypeInv
  <2>2. CASE a = f /\ b = f
    BY <2>2
  <2>3. CASE a = f /\ b \in store[n] \ {e}
    <3>1. Identity(e.packet) = Identity(b.packet)
      BY <2>3
    <3> QED BY <2>3, <3>1 DEF DistinctInv
  <2>4. CASE b = f /\ a \in store[n] \ {e}
    <3>1. Identity(e.packet) = Identity(a.packet)
      BY <2>4
    <3> QED BY <2>4, <3>1 DEF DistinctInv
  <2>5. CASE a \in store[n] \ {e} /\ b \in store[n] \ {e}
    BY <2>5 DEF DistinctInv
  <2> QED BY <1>2, <2>1, <2>2, <2>3, <2>4, <2>5
<1> QED BY <1>1, <1>2

\* Every step keeps packets distinct: only what is not known is stored.
LEMMA DistinctNext == TypeInv /\ DistinctInv /\ [Next]_vars => DistinctInv'
<1> SUFFICES ASSUME TypeInv, DistinctInv, [Next]_vars PROVE DistinctInv'
  OBVIOUS
<1>1. CASE store' = store
  BY <1>1 DEF DistinctInv
<1>2. ASSUME NEW c \in air, Arrive(c), store' # store PROVE DistinctInv'
  <2>1. PICK mtu \in Mtus :
            /\ c.to \in Repeaters /\ ~Knows(c.to, ReadPacket(Cut(c.bytes, mtu)))
            /\ store' = [store EXCEPT ![c.to] =
                 @ \cup {NewPacket(ReadPacket(Cut(c.bytes, mtu)), Origin(c), c.hops)}]
    BY <1>2, Arrival
  <2> DEFINE p == ReadPacket(Cut(c.bytes, mtu))
             new == NewPacket(p, Origin(c), c.hops)
             n == c.to
  <2> HIDE DEF p
  <2>2. new.packet = p
    BY DEF NewPacket
  <2> HIDE DEF new
  <2>3. n \in Repeaters /\ ~Knows(n, p) /\ store' = [store EXCEPT ![n] = @ \cup {new}]
    BY <2>1 DEF p, new
  <2> HIDE DEF n
  <2>4. \A e \in store[n] : Identity(e.packet) # Identity(new.packet)
    BY <2>2, <2>3 DEF Knows
  <2>5. /\ store'[n] = store[n] \cup {new}
        /\ \A x \in Repeaters : x # n => store'[x] = store[x]
    BY <2>3 DEF TypeInv
  <2> QED BY SMT, <2>4, <2>5 DEF DistinctInv
<1>4. ASSUME NEW n \in Repeaters, NEW e \in store[n], NEW m \in Neighbours(n),
             NEW actual \in Neighbours(n), HandOver(n, e, m, actual)
      PROVE  DistinctInv'
  <2>1. [e EXCEPT !.handed = @ \cup {m}].packet = e.packet
    BY SMT DEF TypeInv, Entries
  <2> QED BY <1>4, <2>1, Replacing DEF HandOver
<1>5. ASSUME NEW n \in Repeaters, NEW e \in store[n], Dequeue(n, e) PROVE DistinctInv'
  <2>1. [e EXCEPT !.queued = FALSE].packet = e.packet
    BY SMT DEF TypeInv, Entries
  <2> QED BY <1>5, <2>1, Replacing DEF Dequeue
<1>6. ASSUME NEW n \in Repeaters, NEW old \in SUBSET store[n], Forget(n, old) PROVE DistinctInv'
  <2>1. \A x \in Repeaters : store'[x] \subseteq store[x]
    BY <1>6 DEF Forget, TypeInv
  <2> QED BY <2>1 DEF DistinctInv
<1> QED BY <1>1, <1>2, <1>4, <1>5, <1>6 DEF Next, Dequeues, Originate, Lose, vars

\* A repeater holds no packet twice in any behaviour.
LEMMA DistinctInvariant == Spec => [](TypeInv /\ DistinctInv)
<1>1. Init => DistinctInv
  BY DEF Init, DistinctInv
<1> QED BY <1>1, TypeInvariant, DistinctNext, PTL DEF Spec

----------------------------------------------------------------------------
(* What a packet says *)

\* Cutting after a first part cuts the second.
LEMMA CutBehind ==
  ASSUME NEW h \in Seq(Bytes), NEW z \in Seq(Bytes), NEW j \in 0..Len(z)
  PROVE  SubSeq(h \o z, 1, Len(h) + j) = h \o SubSeq(z, 1, j)
<1> DEFINE z1 == SubSeq(z, 1, j)
           z2 == After(z, j)
<1>1. z1 \in Seq(Bytes) /\ Len(z1) = j /\ z2 \in Seq(Bytes) /\ z = z1 \o z2
  BY Rest
<1> HIDE DEF z1, z2
<1> DEFINE g == h \o z1
<1>2. g \in Seq(Bytes) /\ Len(g) = Len(h) + j
  BY <1>1, Joined, FrontAt
<1>3. h \o z = g \o z2
  BY <1>1, Assoc
<1> HIDE DEF g
<1>4. SubSeq(g \o z2, 1, Len(g)) = g
  BY <1>1, <1>2, Split
<1>5. SubSeq(h \o z, 1, Len(h) + j) = g
  BY <1>2, <1>3, <1>4
<1> QED BY <1>5 DEF g, z1

\* A packet that was cut behind its header is not readable, or it is the packet.
LEMMA ReadCut ==
  ASSUME NEW q \in Packets, WellFormedPacket(q), NEW ttl \in Bytes, NEW t \in Seq(Bytes),
         NEW mtu \in Nat, mtu >= 6 + 3 * LongBytes,
         ReadPacket(Cut(WriteUnsigned(q, ttl) \o t, mtu)).readable
  PROVE  SamePacket(ReadPacket(Cut(WriteUnsigned(q, ttl) \o t, mtu)), q)
<1> DEFINE w == WritePayload(q)
           head == WriteHeader(q, ttl, Len(w))
           u == WriteUnsigned(q, ttl)
           z == w \o t
           b == Cut(u \o t, mtu)
<1>1. Len(w) < Short
  BY DEF WellFormedPacket
<1>2. Limited(w, Short - 1) = w /\ w \in Seq(Bytes) /\ Len(w) \in 0..(Short - 1)
  BY <1>1, WritePayloadType
<1>3. u = head \o w
  BY <1>2 DEF WriteUnsigned
<1>4. /\ head \in Seq(Bytes)
      /\ Len(head) = 6 + 2 * LongBytes + (IF HasRecipient(q.flags) THEN LongBytes ELSE 0)
  BY <1>2, WriteHeaderType
<1>5. mtu >= Len(head) /\ Len(head) \in Nat
  BY SMT, <1>4, LongSize
<1>6. u \in Seq(Bytes)
  BY WriteUnsignedType
<1>7. ReadPacket(b).readable
  OBVIOUS
<1> HIDE DEF w, head, u
<1>8. z \in Seq(Bytes) /\ Len(z) = Len(w) + Len(t)
  BY <1>2, Joined, FrontAt
<1>9. u \o t = head \o z
  BY <1>2, <1>3, <1>4, Assoc
<1>10. \A s \in Seq(Bytes) : SamePacket(ReadPacket(u \o s), q)
  BY ReadPacketOf DEF u
<1>11. \A s \in Seq(Bytes) : Len(s) < Len(w) => ~ReadPacket(head \o s).readable
  BY ReadPacketCut DEF head, w
<1>12. CASE ~(mtu < Len(u \o t))
  <2>1. b = u \o t
    BY <1>12 DEF Cut
  <2> QED BY <1>10, <2>1 DEF u
<1>13. CASE mtu < Len(u \o t)
  <2> DEFINE j == mtu - Len(head)
  <2>1. Len(u \o t) = Len(head) + Len(z)
    BY <1>4, <1>8, <1>9, FrontAt
  <2>2. Len(z) \in Nat /\ Len(w) \in Nat /\ Len(t) \in Nat
    BY SMTT(30), <1>2, <1>8
  <2>3. b = SubSeq(head \o z, 1, mtu)
    BY <1>9, <1>13 DEF Cut
  <2> HIDE DEF b, z
  <2>4. j \in 0..Len(z) /\ mtu = Len(head) + j
    BY SMTT(30), <1>5, <1>13, <2>1, <2>2
  <2> HIDE DEF j
  <2>5. b = head \o SubSeq(z, 1, j)
    BY <1>4, <1>8, <2>3, <2>4, CutBehind
  <2>6. SubSeq(z, 1, j) \in Seq(Bytes) /\ Len(SubSeq(z, 1, j)) = j
    BY <1>8, <2>4, Rest
  <2>7. CASE j < Len(w)
    BY <1>7, <1>11, <2>5, <2>6, <2>7
  <2>8. CASE ~(j < Len(w))
    <3> DEFINE i == j - Len(w)
               s == SubSeq(t, 1, i)
    <3>1. i \in 0..Len(t) /\ j = Len(w) + i
      BY SMTT(30), <1>8, <2>2, <2>4, <2>8
    <3> HIDE DEF i
    <3>2. SubSeq(z, 1, j) = w \o s
      BY <1>2, <3>1, CutBehind DEF z
    <3>3. s \in Seq(Bytes)
      BY <3>1, Rest
    <3> HIDE DEF s
    <3>4. b = u \o s
      <4>1. head \in Seq(Bytes) /\ w \in Seq(Bytes)
        BY <1>2, <1>4
      <4>2. (head \o w) \o s = head \o (w \o s)
        BY <3>3, <4>1, Assoc
      <4> QED BY <1>3, <2>5, <3>2, <4>2
    <3> QED BY <1>10, <3>3, <3>4 DEF b, u
  <2> QED BY <2>7, <2>8
<1> QED BY <1>12, <1>13

\* Two texts are the same but for the byte of the ttl.
DiffersInTtl(s, r, x) ==
  s \in Seq(Bytes) /\ r \in Seq(Bytes) /\ Len(s) >= 3 /\ r = [s EXCEPT ![3] = x]

\* What follows the byte of the ttl does not change that the rest is the same.
LEMMA SetFront ==
  ASSUME NEW x \in Bytes, NEW s, NEW r, NEW t \in Seq(Bytes), DiffersInTtl(s, r, x)
  PROVE  DiffersInTtl(s \o t, r \o t, x)
<1> DEFINE a == s \o t
           b == r \o t
           n == Len(a)
<1>0. s \in Seq(Bytes) /\ r \in Seq(Bytes) /\ Len(s) >= 3 /\ r = [s EXCEPT ![3] = x]
  BY DEF DiffersInTtl
<1>1. /\ Len(s) \in Nat /\ Len(t) \in Nat /\ Len(r) = Len(s)
      /\ \A i \in 1..Len(s) : r[i] = IF i = 3 THEN x ELSE s[i]
  BY SMT, <1>0
<1>2. /\ a \in Seq(Bytes) /\ Len(a) = Len(s) + Len(t)
      /\ b \in Seq(Bytes) /\ Len(b) = Len(s) + Len(t)
  BY <1>0, <1>1, Joined, FrontAt
<1>3. \A i \in 1..(Len(s) + Len(t)) : a[i] = IF i <= Len(s) THEN s[i] ELSE t[i - Len(s)]
  BY <1>0, ConcatProperties
<1>4. \A i \in 1..(Len(s) + Len(t)) : b[i] = IF i <= Len(s) THEN r[i] ELSE t[i - Len(s)]
  BY SMTT(30), <1>0, <1>1, ConcatProperties
<1> HIDE DEF a, b
<1>5. a \in [1..n -> Bytes] /\ b \in [1..n -> Bytes]
  <2>1. Len(b) = n
    BY <1>2
  <2>2. a \in [1..Len(a) -> Bytes] /\ b \in [1..Len(b) -> Bytes]
    BY SMT, <1>2
  <2> QED BY <2>1, <2>2
<1>6. n \in Nat /\ n = Len(s) + Len(t) /\ 3 \in 1..n
  BY SMTT(30), <1>0, <1>1, <1>2
<1> HIDE DEF n
<1>7. \A i \in 1..n : b[i] = IF i = 3 THEN x ELSE a[i]
  <2> SUFFICES ASSUME NEW i \in 1..n PROVE b[i] = IF i = 3 THEN x ELSE a[i]
    OBVIOUS
  <2>1. /\ a[i] = IF i <= Len(s) THEN s[i] ELSE t[i - Len(s)]
        /\ b[i] = IF i <= Len(s) THEN r[i] ELSE t[i - Len(s)]
    BY <1>3, <1>4, <1>6
  <2>2. CASE i <= Len(s)
    <3>1. i \in 1..Len(s)
      BY SMTT(30), <1>1, <1>6, <2>2
    <3> QED BY <1>1, <2>1, <2>2, <3>1
  <2>3. CASE ~(i <= Len(s))
    <3>1. i # 3
      BY <1>0, <1>1, <1>6, <2>3
    <3> QED BY <2>1, <2>3, <3>1
  <2> QED BY <2>2, <2>3
<1>8. b = [a EXCEPT ![3] = x]
  BY <1>5, <1>7
<1>9. Len(a) >= 3
  BY SMTT(30), <1>0, <1>1, <1>2
<1> QED BY <1>2, <1>8, <1>9 DEF DiffersInTtl, a, b

\* Packets written with different ttls differ in the ttl alone.
LEMMA OtherTtl ==
  ASSUME NEW p \in Packets, NEW ttl \in Bytes, NEW x \in Bytes, NEW s \in Seq(Bytes)
  PROVE  WithTtl(WriteUnsigned(p, ttl) \o s, x) = WriteUnsigned(p, x) \o s
<1> DEFINE w == Limited(WritePayload(p), Short - 1)
           a == WriteLong(p.timestamp)
           b == <<p.flags>>
           c == WriteShort(Len(w))
           d == WriteLong(p.sender)
           e == When(HasRecipient(p.flags), WriteLong(p.recipient))
           y0 == <<1, p.type, ttl>>
           z0 == <<1, p.type, x>>
<1>1. p.type \in Bytes /\ p.flags \in Bytes /\ p.timestamp \in Longs /\ p.sender \in Longs
      /\ p.recipient \in Longs
  BY DEF Packets
<1>2. w \in Seq(Bytes) /\ Len(w) \in 0..(Short - 1)
  BY WritePayloadType
<1>3. /\ a \in Seq(Bytes) /\ b \in Seq(Bytes) /\ c \in Seq(Bytes) /\ d \in Seq(Bytes)
      /\ e \in Seq(Bytes)
  <2> HIDE DEF w
  <2> QED BY <1>1, <1>2, WriteLongType, ShortType, WhenType, Single
<1>4. /\ y0 \in Seq(Bytes) /\ z0 \in Seq(Bytes) /\ Len(y0) = 3
      /\ z0 = [y0 EXCEPT ![3] = x]
  BY SMTT(30), <1>1, ZeroType
<1>5. /\ WriteUnsigned(p, ttl) = (((((y0 \o a) \o b) \o c) \o d) \o e) \o w
      /\ WriteUnsigned(p, x) = (((((z0 \o a) \o b) \o c) \o d) \o e) \o w
  BY DEF WriteUnsigned, WriteHeader
<1> HIDE DEF w, a, b, c, d, e, y0, z0
<1> DEFINE y1 == y0 \o a
           z1 == z0 \o a
           y2 == y1 \o b
           z2 == z1 \o b
           y3 == y2 \o c
           z3 == z2 \o c
           y4 == y3 \o d
           z4 == z3 \o d
           y5 == y4 \o e
           z5 == z4 \o e
           y6 == y5 \o w
           z6 == z5 \o w
<1>6. WriteUnsigned(p, ttl) = y6 /\ WriteUnsigned(p, x) = z6
  BY <1>5
<1>7. DiffersInTtl(y0, z0, x)
  BY SMT, <1>4 DEF DiffersInTtl
<1>8. DiffersInTtl(y1, z1, x)
  BY <1>3, <1>7, SetFront
<1> HIDE DEF y1, z1
<1>9. DiffersInTtl(y2, z2, x)
  BY <1>3, <1>8, SetFront
<1> HIDE DEF y2, z2
<1>10. DiffersInTtl(y3, z3, x)
  BY <1>3, <1>9, SetFront
<1> HIDE DEF y3, z3
<1>11. DiffersInTtl(y4, z4, x)
  BY <1>3, <1>10, SetFront
<1> HIDE DEF y4, z4
<1>12. DiffersInTtl(y5, z5, x)
  BY <1>3, <1>11, SetFront
<1> HIDE DEF y5, z5
<1>13. DiffersInTtl(y6, z6, x)
  BY <1>2, <1>12, SetFront
<1> HIDE DEF y6, z6
<1>14. DiffersInTtl(y6 \o s, z6 \o s, x)
  BY <1>13, SetFront
<1> QED BY <1>6, <1>14 DEF DiffersInTtl, WithTtl, TtlAt

\* What writePacket writes depends on what SamePacket compares.
LEMMA SameWritten ==
  ASSUME NEW p \in Packets, NEW r, SamePacket(r, p), NEW x
  PROVE  WriteUnsigned(r, x) = WriteUnsigned(Kept(p), x)
<1> DEFINE k == Kept(p)
<1>1. /\ k.type = p.type /\ k.flags = p.flags /\ k.timestamp = p.timestamp
      /\ k.sender = p.sender /\ k.recipient = p.recipient
  BY KeptFields
<1> HIDE DEF k
<1>2. /\ r.type = k.type /\ r.flags = k.flags /\ r.timestamp = k.timestamp
      /\ r.sender = k.sender /\ r.recipient = k.recipient
      /\ WritePayload(r) = WritePayload(k)
  BY <1>1 DEF SamePacket, k
<1>3. \A n : WriteHeader(r, x, n) = WriteHeader(k, x, n)
  BY <1>2 DEF WriteHeader
<1>4. WriteUnsigned(r, x) = WriteUnsigned(k, x)
  BY <1>2, <1>3 DEF WriteUnsigned
<1> QED BY <1>4 DEF k

\* Each copy is the packet p, or p as the repeaters keep it, with the ttl of its
\* hop and something behind it; each repeater holds p or nothing.
CarriedBy(p, bytes, ttl) ==
  \E t \in Seq(Bytes) : \/ bytes = WriteUnsigned(p, ttl) \o t
                        \/ bytes = WriteUnsigned(Kept(p), ttl) \o t

\* The phone wrote p, and everything on the way is p.
Carried(p, signature) ==
  /\ WrittenAs(p, signature, original)
  /\ \A c \in air : CarriedBy(p, c.bytes, OriginalTtl - c.hops)
  /\ \A n \in Repeaters : \A e \in store[n] : SamePacket(e.packet, p)

\* The inductive invariant of Intact and HeldOnce: there is a packet the phone
\* wrote, and everything on the way is it.
CarriedInv ==
  ~IsCompressed(OriginalFlags)
    => \E p \in Packets, signature \in Seq(Bytes) : Carried(p, signature)

\* The ttl, the flags and the type of a written packet are where they are read.
LEMMA WrittenOriginal ==
  ASSUME NEW p \in Packets, NEW s \in Seq(Bytes), NEW ttl \in Bytes,
         original = WriteUnsigned(p, ttl) \o s
  PROVE  OriginalTtl = ttl /\ OriginalFlags = p.flags /\ original[2] = p.type
<1> DEFINE w == Limited(WritePayload(p), Short - 1)
           head == WriteHeader(p, ttl, Len(w))
           u == WriteUnsigned(p, ttl)
<1>1. w \in Seq(Bytes) /\ Len(w) \in 0..(Short - 1)
  BY WritePayloadType
<1>2. u = head \o w
  BY DEF WriteUnsigned
<1> HIDE DEF w
<1>3. /\ head \in Seq(Bytes)
      /\ Len(head) = 6 + 2 * LongBytes + (IF HasRecipient(p.flags) THEN LongBytes ELSE 0)
      /\ head[2] = p.type /\ head[3] = ttl /\ head[4 + LongBytes] = p.flags
  BY <1>1, WriteHeaderType
<1> HIDE DEF head
<1>4. /\ Len(head) \in Nat /\ 2 \in 1..Len(head) /\ 3 \in 1..Len(head)
      /\ 4 + LongBytes \in 1..Len(head)
  BY SMT, <1>3, LongSize
<1>7. original = u \o s
  OBVIOUS
<1> HIDE DEF u
<1>5. u \in Seq(Bytes) /\ Len(u) = Len(head) + Len(w) /\ Len(w) \in Nat
  <2>1. w \in Seq(Bytes) /\ head \in Seq(Bytes)
    BY <1>1, <1>3
  <2>2. Len(w) \in Nat
    BY SMT, <2>1
  <2>3. head \o w \in Seq(Bytes) /\ Len(head \o w) = Len(head) + Len(w)
    BY <2>1, Joined, FrontAt
  <2> QED BY <1>2, <2>2, <2>3
<1>6. \A i \in 1..Len(head) : u[i] = head[i]
  BY <1>1, <1>2, <1>3, FrontAt
<1>8. \A i \in 1..Len(head) : original[i] = head[i]
  <2>1. \A i \in 1..Len(u) : original[i] = u[i]
    BY <1>5, <1>7, FrontAt
  <2>2. \A i \in 1..Len(head) : i \in 1..Len(u)
    BY SMT, <1>4, <1>5
  <2> QED BY <1>6, <2>1, <2>2
<1> QED BY <1>3, <1>4, <1>8 DEF OriginalTtl, OriginalFlags, TtlAt, FlagsAt

\* A phone's packet is what it wrote.
LEMMA CarriedInit == WellFormedOriginals /\ Init => CarriedInv
<1> SUFFICES ASSUME WellFormedOriginals, Init, ~IsCompressed(OriginalFlags)
             PROVE  \E p \in Packets, signature \in Seq(Bytes) : Carried(p, signature)
  BY DEF CarriedInv
<1>1. PICK p \in Packets, signature \in Seq(Bytes) : WrittenAs(p, signature, original)
  BY DEF WellFormedOriginals, Init, OriginalFlags
<1>2. Carried(p, signature)
  BY <1>1 DEF Init, Carried
<1> QED BY <1>2

\* A packet that is received from a link that cuts no header is the one carried.
LEMMA CarriedRead ==
  ASSUME NEW p \in Packets, WellFormedPacket(p), NEW ttl \in Bytes, NEW b, CarriedBy(p, b, ttl),
         NEW mtu \in Nat, mtu >= 6 + 3 * LongBytes, ReadPacket(Cut(b, mtu)).readable
  PROVE  SamePacket(ReadPacket(Cut(b, mtu)), p)
<1>1. PICK t \in Seq(Bytes) : \/ b = WriteUnsigned(p, ttl) \o t
                              \/ b = WriteUnsigned(Kept(p), ttl) \o t
  BY DEF CarriedBy
<1>2. CASE b = WriteUnsigned(p, ttl) \o t
  BY <1>2, ReadCut
<1>3. CASE b = WriteUnsigned(Kept(p), ttl) \o t
  <2>1. Kept(p) \in Packets /\ WellFormedPacket(Kept(p))
    BY KeptOf
  <2>2. SamePacket(ReadPacket(Cut(b, mtu)), Kept(p))
    BY <1>3, <2>1, ReadCut
  <2> QED BY <2>2, KeptOf
<1> QED BY <1>1, <1>2, <1>3

\* What is handed over is the packet that is carried, with the next ttl.
LEMMA CarriedWritten ==
  ASSUME NEW p \in Packets, NEW r \in Packets, SamePacket(r, p)
  PROVE  CarriedBy(p, WritePacket(r), (r.ttl - 1) % Byte)
<1> DEFINE x == (r.ttl - 1) % Byte
           u == WriteUnsigned(r, x)
           s == When(HasSignature(r.flags), Prefixed(r.signature))
           z == <<0>>
<1>1. x \in Bytes
  <2> DEFINE k == r.ttl - 1
  <2>1. k \in Int
    BY SMT, InBytes DEF Packets
  <2> HIDE DEF k
  <2>2. k % Byte \in Int /\ 0 <= k % Byte /\ k % Byte < Byte
    BY SMTT(30), <2>1, Positive
  <2>3. k % Byte \in Bytes
    BY <2>2, InBytes
  <2> QED BY <2>3 DEF k
<1>2. s \in Seq(Bytes) /\ z \in Seq(Bytes)
  <2>1. r.signature \in Seq(Bytes)
    BY DEF Packets
  <2> QED BY <2>1, PrefixedType, WhenType, ZeroType, Single
<1>3. WritePacket(r) = (u \o s) \o z
  BY DEF WritePacket
<1> HIDE DEF x, s, z
<1>4. u \in Seq(Bytes) /\ u = WriteUnsigned(Kept(p), x)
  BY <1>1, WriteUnsignedType, SameWritten
<1> HIDE DEF u
<1>5. WritePacket(r) = u \o (s \o z) /\ s \o z \in Seq(Bytes)
  BY SMTT(30), <1>2, <1>3, <1>4, Assoc, Joined
<1>6. CarriedBy(p, WritePacket(r), x)
  BY <1>4, <1>5 DEF CarriedBy
<1> QED BY <1>6 DEF x

\* Every step carries the packet on.
LEMMA CarriedNext ==
  ASSUME HeadersWhole
  PROVE  TypeInv /\ HopInv /\ CarriedInv /\ [Next]_vars => CarriedInv'
<1> SUFFICES ASSUME TypeInv, HopInv, CarriedInv, [Next]_vars, ~IsCompressed(OriginalFlags)'
             PROVE  \E p \in Packets, signature \in Seq(Bytes) : Carried(p, signature)'
  BY DEF CarriedInv
<1>0. original' = original /\ OriginalTtl' = OriginalTtl /\ OriginalFlags' = OriginalFlags
  <2>1. original' = original
    BY DEF Next, Originate, Arrive, Lose, HandOver, Dequeues, Dequeue, Forget, vars
  <2> QED BY <2>1 DEF OriginalTtl, OriginalFlags
<1>1. PICK p \in Packets, signature \in Seq(Bytes) : Carried(p, signature)
  BY <1>0 DEF CarriedInv
<1> SUFFICES Carried(p, signature)'
  OBVIOUS
<1>2. WrittenAs(p, signature, original)' /\ WellFormedPacket(p)
  BY <1>0, <1>1 DEF Carried, WrittenAs
<1>3. ASSUME \A c \in air' : CarriedBy(p, c.bytes, OriginalTtl - c.hops),
             \A n \in Repeaters : \A e \in store'[n] : SamePacket(e.packet, p)
      PROVE  Carried(p, signature)'
  BY <1>0, <1>2, <1>3 DEF Carried
<1>4. ASSUME NEW phone \in Phones, Originate(phone) PROVE Carried(p, signature)'
  <2>1. \A c \in air' : c.bytes = original /\ c.hops = 0
    BY SMT, <1>4 DEF Originate, Copy
  <2>2. OriginalTtl = OriginalTtl - 0
    <3>1. OriginalTtl \in Int
      BY InBytes DEF HopInv
    <3> QED BY SMT, <3>1
  <2>3. CarriedBy(p, original, OriginalTtl)
    <3>1. PICK ttl \in Bytes : original = WriteUnsigned(p, ttl) \o signature
      BY <1>1 DEF Carried, WrittenAs
    <3>2. OriginalTtl = ttl
      BY <3>1, WrittenOriginal
    <3> QED BY <3>1, <3>2 DEF CarriedBy
  <2>4. \A c \in air' : CarriedBy(p, c.bytes, OriginalTtl - c.hops)
    BY <2>1, <2>2, <2>3
  <2>5. store' = store
    BY <1>4 DEF Originate
  <2> QED BY <1>1, <1>3, <2>4, <2>5 DEF Carried
<1>5. ASSUME NEW c \in air, Arrive(c) PROVE Carried(p, signature)'
  <2>1. \A d \in air' : CarriedBy(p, d.bytes, OriginalTtl - d.hops)
    BY <1>1, <1>5 DEF Arrive, Carried
  <2>2. CASE store' = store
    BY <1>1, <1>3, <2>1, <2>2 DEF Carried
  <2>3. CASE store' # store
    <3>1. PICK mtu \in Mtus :
            /\ c.to \in Repeaters /\ Relayed(ReadPacket(Cut(c.bytes, mtu)))
            /\ store' = [store EXCEPT ![c.to] =
                 @ \cup {NewPacket(ReadPacket(Cut(c.bytes, mtu)), Origin(c), c.hops)}]
      BY <1>5, <2>3, Arrival
    <3> DEFINE r == ReadPacket(Cut(c.bytes, mtu))
               new == NewPacket(r, Origin(c), c.hops)
               ttl == OriginalTtl - c.hops
    <3>2. ttl \in Bytes
      <4>1. c.bytes \in Seq(Bytes) /\ Len(c.bytes) >= 3 /\ c.bytes[3] = ttl
        BY DEF TypeInv, Copies, HopInv
      <4>2. 3 \in 1..Len(c.bytes)
        BY SMTT(30), <4>1
      <4>3. c.bytes[3] \in Bytes
        BY SMTT(30), <4>1, <4>2
      <4> QED BY <4>1, <4>3
    <3>3. mtu \in Nat /\ mtu >= 6 + 3 * LongBytes
      BY MtuAssumption DEF HeadersWhole
    <3>4. r.readable
      BY <3>1 DEF Relayed
    <3>5. CarriedBy(p, c.bytes, ttl)
      BY <1>1 DEF Carried
    <3> HIDE DEF ttl
    <3>6. SamePacket(r, p)
      BY <1>2, <3>2, <3>3, <3>4, <3>5, CarriedRead
    <3> HIDE DEF r
    <3>7. new.packet = r
      BY DEF NewPacket
    <3> HIDE DEF new
    <3>8. \A n \in Repeaters : \A e \in store'[n] : e \in store[n] \/ e = new
      BY <3>1 DEF TypeInv, new, r
    <3>9. \A n \in Repeaters : \A e \in store'[n] : SamePacket(e.packet, p)
      BY <1>1, <3>6, <3>7, <3>8 DEF Carried
    <3> QED BY <1>3, <2>1, <3>9
  <2> QED BY <2>2, <2>3
<1>6. ASSUME NEW c \in air, Lose(c) PROVE Carried(p, signature)'
  BY <1>1, <1>3, <1>6 DEF Lose, Carried
<1>7. ASSUME NEW n \in Repeaters, NEW e \in store[n], NEW m \in Neighbours(n),
             NEW actual \in Neighbours(n), HandOver(n, e, m, actual)
      PROVE  Carried(p, signature)'
  <2> DEFINE f == [e EXCEPT !.handed = @ \cup {m}]
             k == Copy(n, actual, WritePacket(e.packet), e.hops + 1)
  <2>1. e \in Entries /\ e.packet \in Packets /\ e.queued
    BY SMT, <1>7 DEF TypeInv, Entries, HandOver, MayHand
  <2>2. f.packet = e.packet
    BY <2>1 DEF Entries
  <2>3. SamePacket(e.packet, p)
    BY <1>1 DEF Carried
  <2>4. CarriedBy(p, WritePacket(e.packet), OriginalTtl - (e.hops + 1))
    BY <2>1, <2>3, CarriedWritten, Lowered
  <2>5. k.bytes = WritePacket(e.packet) /\ k.hops = e.hops + 1
    BY DEF Copy
  <2> HIDE DEF f, k
  <2>6. air' = air \cup {k} /\ store' = [store EXCEPT ![n] = (@ \ {e}) \cup {f}]
    BY <1>7 DEF HandOver, f, k
  <2>7. \A c \in air' : CarriedBy(p, c.bytes, OriginalTtl - c.hops)
    BY <1>1, <2>4, <2>5, <2>6 DEF Carried
  <2>8. \A x \in Repeaters : \A d \in store'[x] : d \in store[x] \/ d = f
    BY <2>6 DEF TypeInv
  <2>9. \A x \in Repeaters : \A d \in store'[x] : SamePacket(d.packet, p)
    BY <1>1, <2>2, <2>3, <2>8 DEF Carried
  <2> QED BY <1>3, <2>7, <2>9
<1>8. ASSUME NEW n \in Repeaters, NEW e \in store[n], Dequeue(n, e) PROVE Carried(p, signature)'
  <2> DEFINE f == [e EXCEPT !.queued = FALSE]
  <2>1. f.packet = e.packet
    BY SMT DEF TypeInv, Entries
  <2> HIDE DEF f
  <2>2. air' = air /\ store' = [store EXCEPT ![n] = (@ \ {e}) \cup {f}]
    BY <1>8 DEF Dequeue, f
  <2>3. \A x \in Repeaters : \A d \in store'[x] : d \in store[x] \/ d = f
    BY <2>2 DEF TypeInv
  <2>4. \A x \in Repeaters : \A d \in store'[x] : SamePacket(d.packet, p)
    BY <1>1, <2>1, <2>3 DEF Carried
  <2> QED BY <1>1, <1>3, <2>2, <2>4 DEF Carried
<1>9. ASSUME NEW n \in Repeaters, NEW old \in SUBSET store[n], Forget(n, old)
      PROVE  Carried(p, signature)'
  <2>1. \A x \in Repeaters : store'[x] \subseteq store[x]
    BY <1>9 DEF Forget, TypeInv
  <2> QED BY <1>1, <1>3, <1>9, <2>1 DEF Forget, Carried
<1>10. CASE UNCHANGED vars
  BY <1>1, <1>3, <1>10 DEF vars, Carried
<1> QED BY <1>4, <1>5, <1>6, <1>7, <1>8, <1>9, <1>10 DEF Next, Dequeues

\* The packet is carried in every behaviour.
LEMMA CarriedInvariant ==
  ASSUME WellFormedOriginals, HeadersWhole
  PROVE  Spec => [](TypeInv /\ HopInv /\ CarriedInv)
<1>1. Init => CarriedInv
  BY CarriedInit
<1>2. TypeInv /\ HopInv /\ CarriedInv /\ [Next]_vars => CarriedInv'
  BY CarriedNext
<1> QED BY <1>1, <1>2, HopInvariant, PTL DEF Spec

\* A packet that goes around any network of repeaters comes back with the
\* identity it had, so that none holds it twice: what getMessageId and
\* getPacketHash see is read as it was written.
THEOREM HeldOnceCorrect ==
  ASSUME WellFormedOriginals, HeadersWhole
  PROVE  Spec => []HeldOnce
<1>1. TypeInv /\ CarriedInv /\ DistinctInv => HeldOnce
  <2> SUFFICES ASSUME TypeInv, CarriedInv, DistinctInv, ~IsCompressed(OriginalFlags),
                      NEW n \in Repeaters
               PROVE  \A e, f \in store[n] : e = f
    BY DEF HeldOnce
  <2>1. PICK p \in Packets, signature \in Seq(Bytes) : Carried(p, signature)
    BY DEF CarriedInv
  <2>2. \A e \in store[n] : Identity(e.packet) = Identity(p)
    BY <2>1 DEF Carried, SamePacket
  <2> QED BY <2>2 DEF DistinctInv
<1> QED BY <1>1, CarriedInvariant, DistinctInvariant, PTL

\* Taking off the signature leaves what was written before it.
LEMMA UnsignedOf ==
  ASSUME NEW p \in Packets, NEW x \in Bytes, NEW s \in Seq(Bytes),
         Len(s) = IF HasSignature(p.flags) THEN SignatureLength ELSE 0
  PROVE  Unsigned(WriteUnsigned(p, x) \o s) = WriteUnsigned(p, x)
<1> DEFINE w == Limited(WritePayload(p), Short - 1)
           head == WriteHeader(p, x, Len(w))
           u == WriteUnsigned(p, x)
           b == u \o s
<1>1. w \in Seq(Bytes) /\ Len(w) \in 0..(Short - 1)
  BY WritePayloadType
<1>2. u = head \o w
  BY DEF WriteUnsigned
<1> HIDE DEF w
<1>3. /\ head \in Seq(Bytes)
      /\ Len(head) = 6 + 2 * LongBytes + (IF HasRecipient(p.flags) THEN LongBytes ELSE 0)
      /\ head[4 + LongBytes] = p.flags
  BY <1>1, WriteHeaderType
<1> HIDE DEF head, u
<1>4. Len(head) \in Nat /\ 4 + LongBytes \in 1..Len(head)
  BY SMTT(30), <1>3, LongSize
<1>5. u \in Seq(Bytes) /\ Len(u) = Len(head) + Len(w) /\ Len(w) \in Nat
  <2>1. w \in Seq(Bytes) /\ head \in Seq(Bytes)
    BY <1>1, <1>3
  <2>2. Len(w) \in Nat
    BY SMT, <2>1
  <2>3. head \o w \in Seq(Bytes) /\ Len(head \o w) = Len(head) + Len(w)
    BY <2>1, Joined, FrontAt
  <2> QED BY <1>2, <2>2, <2>3
<1>6. u[4 + LongBytes] = head[4 + LongBytes]
  BY <1>1, <1>2, <1>3, <1>4, FrontAt
<1>7. 4 + LongBytes \in 1..Len(u)
  BY SMT, <1>4, <1>5
<1>8. b[4 + LongBytes] = u[4 + LongBytes] /\ Len(b) = Len(u) + Len(s)
  BY <1>5, <1>7, FrontAt
<1>9. SubSeq(b, 1, Len(u)) = u
  BY <1>5, Split
<1> DEFINE n == IF HasSignature(p.flags) THEN SignatureLength ELSE 0
<1>10. Unsigned(b) = SubSeq(b, 1, Len(b) - n)
  BY <1>3, <1>6, <1>8 DEF Unsigned, FlagsAt
<1>11. Len(s) = n
  OBVIOUS
<1> HIDE DEF b, n
<1>12. Len(u) \in Nat /\ Len(s) \in Nat
  BY SMT, <1>5
<1>13. Len(b) - n = Len(u)
  BY SMTT(30), <1>8, <1>11, <1>12
<1> QED BY <1>9, <1>10, <1>13 DEF b, u

\* The message flags are the first byte of the payload.
LEMMA MessageFlags ==
  ASSUME NEW p \in Packets, WellFormedPacket(p), p.type = type_message,
         NEW s \in Seq(Bytes), NEW ttl \in Bytes, original = WriteUnsigned(p, ttl) \o s
  PROVE  original[FlagsAt + 2 + LongBytes
                    + (IF HasRecipient(p.flags) THEN LongBytes ELSE 0) + 1] = p.message.flags
<1> DEFINE m == p.message
           w == WriteMessagePayload(m)
           head == WriteHeader(p, ttl, Len(w))
           u == WriteUnsigned(p, ttl)
           k == FlagsAt + 2 + LongBytes + (IF HasRecipient(p.flags) THEN LongBytes ELSE 0)
<1>1. m \in Messages /\ WellFormedMessage(m) /\ WritePayload(p) = w /\ Len(w) < Short
  BY DEF Packets, WellFormedPacket, WritePayload
<1>2. w \in Seq(Bytes) /\ Limited(w, Short - 1) = w /\ Len(w) \in 0..(Short - 1)
  BY <1>1, WritePayloadType
<1>3. ProcessMessage(w).readable /\ ProcessMessage(w).message = Stored(m)
  BY <1>1, ProcessMessageOf
<1>4. u = head \o w
  BY <1>1, <1>2 DEF WriteUnsigned
<1> HIDE DEF w
<1>5. /\ head \in Seq(Bytes)
      /\ Len(head) = 6 + 2 * LongBytes + (IF HasRecipient(p.flags) THEN LongBytes ELSE 0)
  BY <1>2, WriteHeaderType
<1>6. Len(w) \in Nat /\ Len(w) >= LongBytes + 5
  <2>1. ProcessMessage(w).readable => Len(w) >= LongBytes + 5
    BY DEF ProcessMessage
  <2> QED BY SMTT(30), <1>2, <1>3, <2>1
<1>7. w[1] = m.flags
  <2>1. ProcessMessage(w).message.flags = TakeByte(w).value
    BY DEF ProcessMessage
  <2>2. Stored(m).flags = m.flags
    BY DEF Stored
  <2>3. ~(Len(w) < 1)
    BY SMTT(30), <1>6, LongSize
  <2>4. TakeByte(w).value = w[1]
    BY <2>3 DEF TakeByte
  <2> QED BY <1>3, <2>1, <2>2, <2>4
<1>8. original = u \o s
  OBVIOUS
<1> HIDE DEF head, u, m
<1>9. k = Len(head) /\ Len(head) \in Nat
  BY SMT, <1>5, LongSize DEF FlagsAt
<1> HIDE DEF k
<1>10. u \in Seq(Bytes) /\ Len(u) = Len(head) + Len(w)
  BY <1>2, <1>4, <1>5, Joined, FrontAt
<1>11. 1 \in 1..Len(w)
  BY SMT, <1>6, LongSize
<1>12. u[Len(head) + 1] = w[1]
  BY <1>2, <1>4, <1>5, <1>11, BackAt
<1>13. Len(head) + 1 \in 1..Len(u)
  BY SMTT(30), <1>6, <1>9, <1>10, <1>11
<1>14. original[Len(head) + 1] = u[Len(head) + 1]
  BY SMTT(30), <1>8, <1>10, <1>13, FrontAt
<1>15. original[k + 1] = m.flags
  BY <1>7, <1>9, <1>12, <1>14
<1> QED BY <1>15 DEF k, m

\* What a repeater keeps of a packet that is not encrypted is written as it was.
LEMMA KeptWritten ==
  ASSUME NEW p \in Packets, WellFormedPacket(p), NEW x,
         p.type = type_message => ~IsEncrypted(p.message.flags)
  PROVE  WriteUnsigned(Kept(p), x) = WriteUnsigned(p, x)
<1> DEFINE k == Kept(p)
<1>1. /\ k.type = p.type /\ k.flags = p.flags /\ k.timestamp = p.timestamp
      /\ k.sender = p.sender /\ k.recipient = p.recipient /\ k.payload = p.payload
      /\ k.message = Stored(p.message)
  BY KeptFields
<1> HIDE DEF k
<1>2. WritePayload(k) = WritePayload(p)
  <2>1. CASE p.type = type_message
    <3>1. p.message \in Messages /\ WellFormedMessage(p.message)
      BY <2>1 DEF Packets, WellFormedPacket
    <3>2. WriteMessagePayload(Stored(p.message)) = WriteMessagePayload(p.message)
      BY <2>1, <3>1, StoredOf
    <3> QED BY <1>1, <2>1, <3>2 DEF WritePayload
  <2>2. CASE p.type # type_message
    BY <1>1, <2>2 DEF WritePayload
  <2> QED BY <2>1, <2>2
<1>3. \A n : WriteHeader(k, x, n) = WriteHeader(p, x, n)
  BY <1>1 DEF WriteHeader
<1>4. WriteUnsigned(k, x) = WriteUnsigned(p, x)
  BY <1>2, <1>3 DEF WriteUnsigned
<1> QED BY <1>4 DEF k

\* The copies on any link of any network, after any number of hops, are what the
\* phone sent, with a smaller ttl, up to the signature: what writePacket writes is
\* what processWrite and processMessage read.  Compressed packets and encrypted
\* messages are excepted, as in the run.
THEOREM IntactCorrect ==
  ASSUME WellFormedOriginals, HeadersWhole
  PROVE  Spec => []Intact
<1>1. TypeInv /\ HopInv /\ CarriedInv => Intact
  <2> SUFFICES ASSUME TypeInv, HopInv, CarriedInv, ~IsCompressed(OriginalFlags),
                      ~EncryptedMessage, NEW c \in air
               PROVE  StartsWith(c.bytes, Unsigned(WithTtl(original, OriginalTtl - c.hops)))
    BY DEF Intact
  <2> DEFINE x == OriginalTtl - c.hops
  <2>1. PICK p \in Packets, signature \in Seq(Bytes) : Carried(p, signature)
    BY DEF CarriedInv
  <2>2. /\ WellFormedPacket(p)
        /\ Len(signature) = IF HasSignature(p.flags) THEN SignatureLength ELSE 0
    BY <2>1 DEF Carried, WrittenAs
  <2>3. PICK ttl \in Bytes : original = WriteUnsigned(p, ttl) \o signature
    BY <2>1 DEF Carried, WrittenAs
  <2>4. x \in Bytes
    <3>1. c.bytes \in Seq(Bytes) /\ Len(c.bytes) >= 3 /\ c.bytes[3] = x
      BY DEF TypeInv, Copies, HopInv
    <3>2. 3 \in 1..Len(c.bytes)
      BY SMT, <3>1
    <3>3. c.bytes[3] \in Bytes
      BY SMTT(30), <3>1, <3>2
    <3> QED BY <3>1, <3>3
  <2>5. CarriedBy(p, c.bytes, x)
    BY <2>1 DEF Carried
  <2> HIDE DEF x
  <2>6. Unsigned(WithTtl(original, x)) = WriteUnsigned(p, x)
    BY <2>2, <2>3, <2>4, OtherTtl, UnsignedOf
  <2>7. p.type = type_message => ~IsEncrypted(p.message.flags)
    <3> SUFFICES ASSUME p.type = type_message PROVE ~IsEncrypted(p.message.flags)
      OBVIOUS
    <3>1. OriginalFlags = p.flags /\ original[2] = p.type
      BY <2>3, WrittenOriginal
    <3>2. original[FlagsAt + 2 + LongBytes
                     + (IF HasRecipient(p.flags) THEN LongBytes ELSE 0) + 1] = p.message.flags
      BY <2>2, <2>3, MessageFlags
    <3> QED BY <3>1, <3>2 DEF EncryptedMessage
  <2> DEFINE u == WriteUnsigned(p, x)
  <2>8. WriteUnsigned(Kept(p), x) = u
    BY <2>2, <2>7, KeptWritten
  <2>9. u \in Seq(Bytes)
    BY <2>4, WriteUnsignedType
  <2>10. PICK t \in Seq(Bytes) : c.bytes = u \o t
    BY <2>5, <2>8 DEF CarriedBy
  <2> HIDE DEF u
  <2>11. StartsWith(u \o t, u)
    <3>1. Len(u) \in Nat /\ Len(t) \in Nat /\ Len(u \o t) = Len(u) + Len(t)
      BY SMTT(30), <2>9, FrontAt
    <3>2. SubSeq(u \o t, 1, Len(u)) = u
      BY <2>9, Split
    <3>3. Len(u) <= Len(u \o t)
      BY SMT, <3>1
    <3> QED BY <3>2, <3>3 DEF StartsWith
  <2> QED BY <2>6, <2>10, <2>11 DEF u, x
<1> QED BY <1>1, CarriedInvariant, PTL
=============================================================================
