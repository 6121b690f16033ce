------------------------------- MODULE Codec -------------------------------
(***************************************************************************)
(* What a repeater reads from the bytes of a packet (processWrite up to its*)
(* switch, processMessage, BinaryReader) and what it writes when it passes *)
(* the packet along (ProtocolWriter, BinaryWriter).                        *)
(*                                                                         *)
(* Bytes are bytes; a uint64_t has LongBytes of them and a signature       *)
(* SignatureLength, so that small packets show what large ones would.  A   *)
(* uint64_t is the sequence of its bytes, the lowest first: value >> 8 * k *)
(* cast to uint8_t is value[k + 1].                                        *)
(***************************************************************************)
EXTENDS Integers, Sequences

CONSTANTS
  LongBytes,        \* sizeof(uint64_t): 8
  SignatureLength,  \* signature_length: 64
  Inflate,          \* libdeflate: what each compressed text decompresses to
  NullId,           \* the id read through a sender_peer that is nullptr
  NullSignature     \* the bytes memcpy reads at nullptr

Byte == 256
Short == Byte * Byte

Bytes == 0..(Byte - 1)
Longs == [1..LongBytes -> Bytes]

\* write_uint8(size) of a peer id's 2 * LongBytes digits writes one byte, and so
\* does the length of a signature
ASSUME LengthAssumption ==
  /\ LongBytes \in 1..((Byte - 1) \div 2)
  /\ SignatureLength \in Bytes

ASSUME NullAssumption ==
  /\ NullId \in Longs
  /\ NullSignature \in [1..SignatureLength -> Bytes]

ASSUME InflateAssumption ==
  \A data \in DOMAIN Inflate : Inflate[data] \in Seq(Bytes)

\* enum PacketType
type_announce == 1
type_message == 4

\* The types processWrite passes along: announce, the three fragment types,
\* deliveryAck .. readReceipt, noiseHandshakeInit .. noiseEncrypted, and
\* channelKeyVerifyRequest .. channelMetadata
PassedAlong == {type_announce} \cup 5..7 \cup 10..12 \cup 16..18 \cup 20..23

Bit(b, bit) == (b \div bit) % 2 = 1

\* enum PacketFlag
HasRecipient(flags) == Bit(flags, 1)
HasSignature(flags) == Bit(flags, 2)
IsCompressed(flags) == Bit(flags, 4)

\* The flags of a message
HasOriginalSender(flags) == Bit(flags, 4)
HasRecipientNickname(flags) == Bit(flags, 8)
HasSenderPeerID(flags) == Bit(flags, 16)
HasMentions(flags) == Bit(flags, 32)
HasChannel(flags) == Bit(flags, 64)
IsEncrypted(flags) == Bit(flags, 128)

Texts == Seq(Seq(Bytes))

\* struct Message, and a packet with what its subclasses add
Messages ==
  [flags : Bytes, timestamp : Longs, id : Seq(Bytes), sender : Seq(Bytes),
   content : Seq(Bytes), encrypted : Seq(Bytes), original : Seq(Bytes),
   recipient : Seq(Bytes), peer : {<<>>} \cup {<<v>> : v \in Longs},
   mentions : Texts, channel : Seq(Bytes)]

Packets ==
  [type : Bytes, ttl : Bytes, timestamp : Longs, flags : Bytes, sender : Longs,
   recipient : Longs, signature : Seq(Bytes), payload : Seq(Bytes),
   message : Messages, readable : BOOLEAN]

When(condition, s) == IF condition THEN s ELSE <<>>

Zero == [i \in 1..LongBytes |-> 0]

\* A Message as its constructor leaves it; sender_peer is <<>> for nullptr
NoMessage == [flags |-> 0, timestamp |-> Zero, id |-> <<>>, sender |-> <<>>,
              content |-> <<>>, encrypted |-> <<>>, original |-> <<>>,
              recipient |-> <<>>, peer |-> <<>>, mentions |-> <<>>,
              channel |-> <<>>]
----------------------------------------------------------------------------
(* Writing *)

\* write_uint16
WriteShort(v) == <<(v \div Byte) % Byte, v % Byte>>

\* write_uint64: the highest byte first
WriteLong(v) == [i \in 1..LongBytes |-> v[LongBytes + 1 - i]]

Hexify(nibble) == IF nibble < 10 THEN nibble + 48 ELSE nibble + 97 - 10

\* Faulty variant: the low nibble is not masked
WriteHex_Unmasked(v) ==
  [i \in 1..(2 * LongBytes) |->
     LET b == v[LongBytes - ((i - 1) \div 2)]
     IN  Hexify(IF i % 2 = 1 THEN b \div 16 ELSE b)]

\* write_uint64_hex16: of each byte the high nibble, then the low one
WriteHex(v) ==
  [i \in 1..(2 * LongBytes) |->
     LET b == v[LongBytes - ((i - 1) \div 2)]
     IN  Hexify(IF i % 2 = 1 THEN b \div 16 ELSE b % 16)]

\* As much of the data as its length can count
Limited(data, most) == IF Len(data) <= most THEN data ELSE SubSeq(data, 1, most)

\* A length in one byte and its data, and one in two bytes
Prefixed(data) == <<Len(Limited(data, Byte - 1))>> \o Limited(data, Byte - 1)
LongPrefixed(data) ==
  WriteShort(Len(Limited(data, Short - 1))) \o Limited(data, Short - 1)

SenderPeerId(message) == IF message.peer = <<>> THEN NullId ELSE message.peer[1]

\* The number of mentions, and the mentions from the first on
WriteMentions(mentions) ==
  LET from[i \in 1..(Len(mentions) + 1)] ==
        IF i > Len(mentions) THEN <<>> ELSE Prefixed(mentions[i]) \o from[i + 1]
  IN  <<Len(Limited(mentions, Byte - 1))>> \o from[1]

\* writeMessagePayload; the content of an encrypted message is held elsewhere,
\* and this writes the empty one
WriteMessagePayload(m) ==
  <<m.flags>> \o WriteLong(m.timestamp)
    \o Prefixed(m.id)
    \o Prefixed(m.sender)
    \o LongPrefixed(m.content)
    \o When(HasOriginalSender(m.flags), Prefixed(m.original))
    \o When(HasRecipientNickname(m.flags), Prefixed(m.recipient))
    \o When(HasSenderPeerID(m.flags), <<2 * LongBytes>> \o WriteHex(SenderPeerId(m)))
    \o When(HasMentions(m.flags), WriteMentions(m.mentions))
    \o When(HasChannel(m.flags), Prefixed(m.channel))

\* An announce that is passed along is a PacketPassAlong read as an Announce:
\* the name and the payload are the same member of the same layout
WritePayload(p) ==
  IF p.type = type_message THEN WriteMessagePayload(p.message) ELSE p.payload

\* writePacket up to the payload
WriteHeader(p, ttl, length) ==
  <<1, p.type, ttl>>
    \o WriteLong(p.timestamp)
    \o <<p.flags>>
    \o WriteShort(length)
    \o WriteLong(p.sender)
    \o When(HasRecipient(p.flags), WriteLong(p.recipient))

\* writePacket up to the signature
WriteUnsigned(p, ttl) ==
  LET payload == Limited(WritePayload(p), Short - 1)
  IN  WriteHeader(p, ttl, Len(payload)) \o payload

\* writePacket: the flags are kept as they came, also when the payload was
\* decompressed; a signature is preceded by its length
WritePacket(p) ==
  WriteUnsigned(p, (p.ttl - 1) % Byte)
    \o When(HasSignature(p.flags), Prefixed(p.signature))
    \o <<0>>

\* A message as a phone writes it: every text is as long as its length can say,
\* and a member is there when the flags say so.
WellFormedMessage(m) ==
  /\ Len(m.id) < Byte /\ Len(m.sender) < Byte /\ Len(m.content) < Short
  /\ Len(m.original) < Byte /\ Len(m.recipient) < Byte /\ Len(m.channel) < Byte
  /\ Len(m.mentions) < Byte
  /\ \A i \in 1..Len(m.mentions) : Len(m.mentions[i]) < Byte
  /\ ~HasOriginalSender(m.flags) => m.original = <<>>
  /\ ~HasRecipientNickname(m.flags) => m.recipient = <<>>
  /\ HasSenderPeerID(m.flags) <=> m.peer # <<>>
  /\ ~HasMentions(m.flags) => m.mentions = <<>>
  /\ ~HasChannel(m.flags) => m.channel = <<>>

\* A packet as a phone writes it, not compressed.
WellFormedPacket(p) ==
  /\ ~IsCompressed(p.flags)
  /\ ~HasRecipient(p.flags) => p.recipient = Zero
  /\ p.type = type_message => WellFormedMessage(p.message)
  /\ Len(WritePayload(p)) < Short
----------------------------------------------------------------------------
(* Reading.  A reader's position is what is left to read. *)

After(bytes, n) == SubSeq(bytes, n + 1, Len(bytes))

\* read_uint8, read_uint16, read_uint64: 0, and no progress, past the end
TakeByte(bytes) ==
  IF Len(bytes) < 1 THEN [value |-> 0, rest |-> bytes]
  ELSE [value |-> bytes[1], rest |-> After(bytes, 1)]

TakeShort(bytes) ==
  IF Len(bytes) < 2 THEN [value |-> 0, rest |-> bytes]
  ELSE [value |-> Byte * bytes[1] + bytes[2], rest |-> After(bytes, 2)]

TakeLong(bytes) ==
  IF Len(bytes) < LongBytes THEN [value |-> Zero, rest |-> bytes]
  ELSE [value |-> [i \in 1..LongBytes |-> bytes[LongBytes + 1 - i]],
        rest |-> After(bytes, LongBytes)]

\* read_data: nullptr past the end
TakeData(bytes, n) ==
  IF Len(bytes) < n THEN [readable |-> FALSE, value |-> <<>>, rest |-> bytes]
  ELSE [readable |-> TRUE, value |-> SubSeq(bytes, 1, n), rest |-> After(bytes, n)]

\* A length in one byte and its data; only if the flags say it is there
ReadData(bytes) == TakeData(TakeByte(bytes).rest, TakeByte(bytes).value)
ReadIf(announced, bytes) ==
  IF announced THEN ReadData(bytes) ELSE [readable |-> TRUE, value |-> <<>>, rest |-> bytes]

\* A length in two bytes and its data
ReadLongData(bytes) == TakeData(TakeShort(bytes).rest, TakeShort(bytes).value)

\* A character & '@' is a letter
Nibble(c) == (IF Bit(c, 64) THEN c + 9 ELSE c) % 16

\* The id of sender_peer: two digits a byte, the highest byte first.  An id of
\* another length is read, and sender_peer stays nullptr
FromHex(s) ==
  IF Len(s) # 2 * LongBytes THEN <<>>
  ELSE <<[i \in 1..LongBytes |-> LET at == 2 * (LongBytes - i)
                                 IN  16 * Nibble(s[at + 1]) + Nibble(s[at + 2])]>>

\* One more mention, unless one before was unreadable
AddMention(r) ==
  LET data == ReadData(r.rest)
  IN  IF r.readable /\ data.readable
      THEN [readable |-> TRUE, value |-> Append(r.value, data.value), rest |-> data.rest]
      ELSE [r EXCEPT !.readable = FALSE]

NoMentions(bytes) == [readable |-> TRUE, value |-> <<>>, rest |-> bytes]

\* Faulty variant: skips the number of mentions and reads one
ReadMentions_One(bytes) == AddMention(NoMentions(TakeByte(bytes).rest))

ReadMentions(bytes) ==
  LET upTo[i \in 0..TakeByte(bytes).value] ==
        IF i = 0 THEN NoMentions(TakeByte(bytes).rest) ELSE AddMention(upTo[i - 1])
  IN  upTo[TakeByte(bytes).value]

\* processMessage: every read that fails makes it return false.  "Payload too
\* small to be a message" is less than the members every message has
ProcessMessage(payload) ==
  LET flags == TakeByte(payload).value
      timestamp == TakeLong(TakeByte(payload).rest)
      id == ReadData(timestamp.rest)
      sender == ReadData(id.rest)
      content == ReadLongData(sender.rest)
      original == ReadIf(HasOriginalSender(flags), content.rest)
      recipient == ReadIf(HasRecipientNickname(flags), original.rest)
      peer == ReadIf(HasSenderPeerID(flags), recipient.rest)
      mentions == IF HasMentions(flags) THEN ReadMentions(peer.rest)
                                        ELSE NoMentions(peer.rest)
      channel == ReadIf(HasChannel(flags), mentions.rest)
  IN  [readable |-> /\ Len(payload) >= LongBytes + 5
                    /\ id.readable /\ sender.readable /\ content.readable
                    /\ original.readable /\ recipient.readable /\ peer.readable
                    /\ mentions.readable /\ channel.readable,
       message |->
         [flags |-> flags, timestamp |-> timestamp.value, id |-> id.value,
          sender |-> sender.value,
          content |-> When(~IsEncrypted(flags), content.value),
          encrypted |-> When(IsEncrypted(flags), content.value),
          original |-> original.value, recipient |-> recipient.value,
          peer |-> FromHex(peer.value), mentions |-> mentions.value,
          channel |-> channel.value]]

\* libdeflate_zlib_decompress into size bytes; a failure leaves the data
Decompressed(data, size) ==
  IF data \in DOMAIN Inflate /\ Len(Inflate[data]) \in 1..size THEN Inflate[data] ELSE data

\* memcpy of what read_data returns
ReadSignature(bytes) ==
  LET data == TakeData(bytes, SignatureLength)
  IN  IF data.readable THEN data.value ELSE NullSignature

\* processWrite up to its payload
ReadHeader(bytes) ==
  LET version == TakeByte(bytes)
      type == TakeByte(version.rest)
      ttl == TakeByte(type.rest)
      timestamp == TakeLong(ttl.rest)
      flags == TakeByte(timestamp.rest)
      length == TakeShort(flags.rest)
      sender == TakeLong(length.rest)
      recipient == IF HasRecipient(flags.value) THEN TakeLong(sender.rest)
                   ELSE [value |-> Zero, rest |-> sender.rest]
  IN  [version |-> version.value, type |-> type.value, ttl |-> ttl.value,
       timestamp |-> timestamp.value, flags |-> flags.value, length |-> length.value,
       sender |-> sender.value, recipient |-> recipient.value, rest |-> recipient.rest]

\* The payload: after its original size, and two bytes shorter, if compressed
ReadPayload(h) ==
  LET size == TakeShort(h.rest)
      data == TakeData(size.rest, (h.length - 2) % Short)
  IN  IF ~IsCompressed(h.flags) THEN TakeData(h.rest, h.length)
      ELSE [data EXCEPT !.value = Decompressed(@, size.value)]

\* processWrite up to the switch, and processMessage
ReadPacket(bytes) ==
  LET h == ReadHeader(bytes)
      data == ReadPayload(h)
      parsed == ProcessMessage(data.value)
      isMessage == h.type = type_message
  IN  [type |-> h.type, ttl |-> h.ttl, timestamp |-> h.timestamp, flags |-> h.flags,
       sender |-> h.sender, recipient |-> h.recipient,
       signature |-> When(HasSignature(h.flags), ReadSignature(data.rest)),
       payload |-> When(~isMessage, data.value),
       message |-> IF isMessage THEN parsed.message ELSE NoMessage,
       readable |-> /\ h.version = 1
                    /\ data.readable
                    /\ isMessage => parsed.readable]

\* Faulty variant: the hash takes in the ttl
Identity_WithTtl(p) ==
  IF p.type = type_message THEN <<p.message.id>>
  ELSE <<p.type, p.ttl, p.flags, p.timestamp, p.sender, p.recipient, p.payload>>

\* The key of a packet in messages or packets: getMessageId, or getPacketHash,
\* taken to tell apart what it is computed from
Identity(p) ==
  IF p.type = type_message THEN <<p.message.id>>
  ELSE <<p.type, p.flags, p.timestamp, p.sender, p.recipient, p.payload>>
============================================================================
