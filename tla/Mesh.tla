-------------------------------- MODULE Mesh --------------------------------
(***************************************************************************)
(* Repeaters in a network: one packet of a phone, written in bytes, goes   *)
(* from repeater to repeater, each of which reads and writes as module     *)
(* Codec.                                                                  *)
(*                                                                         *)
(* A repeater is the code of modules Relay and RawSend with less state and *)
(* more freedom: its raw queues may give the bytes to another link of the  *)
(* same role, its pass may leave links out, and its cleanup may forget any *)
(* packet.  Links lose what is on them or cut it short, and deliver in any *)
(* order.                                                                  *)
(***************************************************************************)
EXTENDS Codec

CONSTANTS
  Repeaters,
  Phones,
  Links,        \* two-element sets of nodes
  Opened,       \* <<n, m>>: n connected to m, and m notifies n
  NoLink,
  Originals,    \* packets of phones, as bytes without padding
  Mtus          \* how many bytes of a packet a link may let through

VARIABLES
  original,     \* the packet this behaviour is about
  originated,
  store,        \* per repeater: messages, packets and its send list
  air           \* copies between two nodes

vars == <<original, originated, store, air>>

ASSUME OriginalsAssumption ==
  \A o \in Originals : o \in Seq(Bytes) /\ Len(o) >= 6 + 2 * LongBytes

ASSUME MtuAssumption == Mtus \subseteq Nat

Neighbours(n) == {m \in Repeaters \cup Phones : {n, m} \in Links}

TtlAt == 3
FlagsAt == 4 + LongBytes

WithTtl(bytes, ttl) == [bytes EXCEPT ![TtlAt] = ttl]
OriginalTtl == original[TtlAt]
OriginalFlags == original[FlagsAt]

Init ==
  /\ original \in Originals
  /\ originated = FALSE
  /\ store = [n \in Repeaters |-> {}]
  /\ air = {}

Copy(n, m, bytes, hops) == [from |-> n, to |-> m, bytes |-> bytes, hops |-> hops]

Originate(phone) ==
  /\ ~originated
  /\ originated' = TRUE
  /\ air' = {Copy(phone, n, original, 0) : n \in Neighbours(phone)}
  /\ UNCHANGED <<original, store>>

Knows(n, p) == \E e \in store[n] : Identity(e.packet) = Identity(p)

\* Faulty variant: queues a packet with no hop left
Enqueued_AnyTtl(p) == TRUE

\* enqueueBroadcastPacket
Enqueued(p) == p.ttl > 0

\* processWrite's switch: which packets are stored
Relayed(p) ==
  /\ p.readable
  /\ p.type = type_message \/ (p.type \in PassedAlong /\ p.ttl >= 1)

\* A packet that came as a notification is recorded as coming from nowhere
Origin(c) == IF <<c.to, c.from>> \in Opened THEN NoLink ELSE c.from

Received(n, p, origin, hops) ==
  IF Relayed(p) /\ ~Knows(n, p)
  THEN [store EXCEPT ![n] = @ \cup {[packet |-> p, from |-> origin, handed |-> {},
                                     queued |-> Enqueued(p), hops |-> hops]}]
  ELSE store

Cut(bytes, mtu) == IF mtu < Len(bytes) THEN SubSeq(bytes, 1, mtu) ELSE bytes

Arrive(c) ==
  /\ air' = air \ {c}
  /\ IF c.to \in Repeaters
     THEN \E mtu \in Mtus :
            store' = Received(c.to, ReadPacket(Cut(c.bytes, mtu)), Origin(c), c.hops)
     ELSE store' = store
  /\ UNCHANGED <<original, originated>>

Lose(c) ==
  /\ air' = air \ {c}
  /\ UNCHANGED <<original, originated, store>>

MayHand(e, m) == e.queued /\ m \notin e.handed /\ m # e.from

SameRole(n, m, k) == (<<n, m>> \in Opened) = (<<n, k>> \in Opened)

\* sendPackets and SendPacketToConnection of one packet for link m: the record
\* is m's, the bytes go over a link of the same role
HandOver(n, e, m, actual) ==
  /\ MayHand(e, m)
  /\ SameRole(n, m, actual)
  /\ store' = [store EXCEPT ![n] = (@ \ {e}) \cup {[e EXCEPT !.handed = @ \cup {m}]}]
  /\ air' = air \cup {Copy(n, actual, WritePacket(e.packet), e.hops + 1)}
  /\ UNCHANGED <<original, originated>>

\* Faulty variant: stays in the list until some link took it
Dequeue_Keeps(n, e) ==
  /\ e.queued
  /\ e.handed # {}
  /\ store' = [store EXCEPT ![n] = (@ \ {e}) \cup {[e EXCEPT !.queued = FALSE]}]
  /\ UNCHANGED <<original, originated, air>>

\* The end of sendPackets' pass; links that were not available, or for which a
\* record was found, are passed over
Dequeue(n, e) ==
  /\ e.queued
  /\ store' = [store EXCEPT ![n] = (@ \ {e}) \cup {[e EXCEPT !.queued = FALSE]}]
  /\ UNCHANGED <<original, originated, air>>

\* cleanupStaleItems
Forget(n, old) ==
  /\ old # {}
  /\ store' = [store EXCEPT ![n] = @ \ old]
  /\ UNCHANGED <<original, originated, air>>

Dequeues(n) == \E e \in store[n] : Dequeue(n, e)

Next ==
  \/ \E phone \in Phones : Originate(phone)
  \/ \E c \in air : Arrive(c) \/ Lose(c)
  \/ \E n \in Repeaters : \E e \in store[n], m, actual \in Neighbours(n) :
       HandOver(n, e, m, actual)
  \/ \E n \in Repeaters : Dequeues(n)
  \/ \E n \in Repeaters : \E old \in SUBSET store[n] : Forget(n, old)

Spec == Init /\ [][Next]_vars

\* What is in the air arrives or is lost, and sendPackets' pass ends (Relay's
\* EventuallyDequeued)
FairSpec ==
  /\ Spec
  /\ WF_air(\E c \in air : air' = air \ {c})
  /\ \A n \in Repeaters : WF_vars(Dequeues(n))
----------------------------------------------------------------------------
(* Properties *)

\* Everything on a link is a sequence of bytes.
TypeOK ==
  \A c \in air : c.bytes \in Seq(Bytes)

\* The bytes before the signature
Unsigned(bytes) ==
  SubSeq(bytes, 1, Len(bytes) - (IF HasSignature(bytes[FlagsAt]) THEN SignatureLength ELSE 0))

StartsWith(bytes, front) ==
  Len(front) <= Len(bytes) /\ SubSeq(bytes, 1, Len(front)) = front

\* The message's flags are the first byte of the payload
EncryptedMessage ==
  /\ original[2] = type_message
  /\ IsEncrypted(original[FlagsAt + 2 + LongBytes + (IF HasRecipient(OriginalFlags)
                                                      THEN LongBytes ELSE 0) + 1])

\* The copies a repeater wrote, without the signature, are those the phone sent
\* with a smaller ttl, after any number of hops and whatever was cut short on
\* the way: what writePacket writes is what processWrite and processMessage
\* read.  Packets processWrite decompresses and messages whose encrypted content
\* it reads are excepted: they are changed.
Intact ==
  ~IsCompressed(OriginalFlags) /\ ~EncryptedMessage
    => \A c \in air : StartsWith(c.bytes, Unsigned(WithTtl(original, OriginalTtl - c.hops)))

\* No copy makes more hops than the phone allowed: the byte that writePacket
\* lowers does not pass zero, also for messages, which are stored with any ttl.
HopLimit ==
  /\ \A c \in air : c.hops <= OriginalTtl
  /\ \A n \in Repeaters : \A e \in store[n] : e.packet.ttl = OriginalTtl - e.hops

\* A packet that goes around comes back with the identity it had, so that no
\* repeater holds it twice; decompressed packets lose two bytes at each further
\* hop, and are excepted.
HeldOnce ==
  ~IsCompressed(OriginalFlags) => \A n \in Repeaters : \A e, f \in store[n] : e = f

\* A phone wrote the packet p and its signature
WrittenAs(p, signature, bytes) ==
  /\ p \in Packets /\ WellFormedPacket(p)
  /\ signature \in Seq(Bytes)
  /\ Len(signature) = IF HasSignature(p.flags) THEN SignatureLength ELSE 0
  /\ \E ttl \in Bytes : bytes = WriteUnsigned(p, ttl) \o signature

\* What Intact and HeldOnce need of the phones, and of the links: a header that
\* is cut short is read with zeros in place of what is missing
WellFormedOriginals ==
  \A o \in Originals :
    ~IsCompressed(o[FlagsAt]) => \E p \in Packets, signature \in Seq(Bytes) : WrittenAs(p, signature, o)

HeadersWhole == \A mtu \in Mtus : mtu >= 6 + 3 * LongBytes

Quiet == air = {} /\ \A n \in Repeaters : \A e \in store[n] : ~e.queued

\* The flood ends, also in a ring whose repeaters forget what they have passed
\* along while it is under way.
FloodEnds == <>[]Quiet

\* A packet is passed along as it came, but for the ttl.
PassedAlongUnchanged ==
  \A c \in air : StartsWith(c.bytes, WithTtl(original, OriginalTtl - c.hops))
=============================================================================
