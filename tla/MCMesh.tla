------------------------------- MODULE MCMesh -------------------------------
(* A ring of three repeaters, each of which opened one link, with a phone at *)
(* one of them.  The packets are written out byte by byte, as in recordings, *)
(* with two-byte longs and signatures.                                       *)
EXTENDS Mesh, TLC

MCLinks == {{"r1", "r2"}, {"r2", "r3"}, {"r1", "r3"}, {"phone", "r1"}}

MCOpened == {<<"r1", "r2">>, <<"r2", "r3">>, <<"r3", "r1">>}

\* version, type, ttl, timestamp, flags, length, sender
Start(type, ttl, flags, length) == <<1, type, ttl, 1, 2, flags, 0, length, 3, 4>>

\* flags, timestamp, id, sender, content
Text(flags) == <<flags, 1, 0, 1, 73, 1, 78, 0, 1, 67>>

\* with an original sender, a recipient, a peer id, two mentions and a channel
FullText == Text(124) \o <<1, 79, 1, 82, 4, 48, 97, 102, 57, 2, 1, 77, 0, 1, 35>>

FullMessage(ttl) == Start(4, ttl, 1, Len(FullText)) \o <<0, 9>> \o FullText
Signed(ttl) == Start(5, ttl, 3, 2) \o <<0, 9, 8, 7>> \o <<83, 84>>
Encrypted(ttl) == Start(4, ttl, 0, Len(Text(128))) \o Text(128)
Compressed(ttl) == Start(18, ttl, 4, 3) \o <<0, 5, 90>>
CompressedMessage(ttl) == Start(4, ttl, 4, 3) \o <<0, 10, 91>>
Key(ttl) == Start(19, ttl, 0, 1) \o <<75>>

MCInflate == <<90>> :> <<1, 2, 3, 4, 5>> @@ <<91>> :> Text(0)
MCNullId == <<0, 0>>
MCNullSignature == <<0, 0>>

MCOriginals == {FullMessage(0), FullMessage(3), Signed(3), Encrypted(2),
                Compressed(2), CompressedMessage(2), Key(1)}

\* A link cuts no header: with 12 bytes it lets through the longest
ASSUME HeadersAssumption == HeadersWhole
=============================================================================
