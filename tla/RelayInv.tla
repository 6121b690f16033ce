------------------------------ MODULE RelayInv ------------------------------
(***************************************************************************)
(* The inductive invariant behind Relay's safety properties.               *)
(***************************************************************************)
EXTENDS Relay

InPass == pc \in {"nextPacket", "broadcast", "broadcastSent"}
InCleanup == pc \in {"cleanup", "cleanupLists", "cleanupConnections", "cleanupStore"}

\* sendPackets' locals: what the range-for has visited, holds and has still to
\* visit are disjoint parts of the broadcast list
PassInv ==
  /\ ~InPass => todo = {}
  /\ todo \subseteq broadcast
  /\ InHand \subseteq broadcast
  /\ InHand \cap (todo \cup toRemove) = {}
  /\ InPass => toRemove \subseteq broadcast /\ toRemove \cap todo = {}
  /\ ~InPass => toRemove \subseteq {Announce}
  /\ pc = "targetedSent" => current = Announce /\ cursor \in targeted
  /\ pc = "broadcastSent" => cursor \in Handles /\ connections[cursor].present
  /\ InPass /\ begin \in Handles => connections[begin].present
  /\ ~InPass => begin = NotAsked
  /\ \A h \in Handles : connections[h].connected => connections[h].present

\* What was queued after the pass began is stored; so is everything queued when
\* cleanupStaleItems starts
LiveInv ==
  /\ InPass => broadcast \ (todo \cup toRemove \cup InHand) \subseteq live
  /\ InCleanup => broadcast \subseteq live

\* What cleanupStaleItems has still to erase is no longer queued
QueueInv ==
  ~raced /\ pc \in {"cleanupConnections", "cleanupStore"} =>
    \A a \in broadcast : ~PacketStale(a, cleanupNow)

\* Nor is a connection it has still to erase recorded or targeted
RecordsInv ==
  /\ ~raced /\ pc \in {"cleanupLists", "cleanupConnections"} =>
       \A r \in sent : r[2] \in Handles => ~ConnectionStale(r[2], cleanupNow)
  /\ ~raced /\ pc = "cleanupConnections" =>
       \A h \in targeted : ~ConnectionStale(h, cleanupNow)

\* A queued packet has a record of the link that wrote it, while that is open or
\* where the pass begins, until cleanupStaleItems is about to take it off the
\* queue
SenderInv ==
  \A a \in broadcast, h \in Handles :
    from[a] = h /\ (connections[h].connected \/ begin = h) =>
      \/ <<a, h>> \in sent
      \/ pc = "cleanupLists" /\ PacketStale(a, cleanupNow)

\* A queued packet was handed only to links the pass has gone by
HandedInv ==
  \A a \in broadcast, h \in Handles :
    handed[a][h] > 0 => a \in toRemove \/ (a \in InHand /\ h <= cursor)

AnnouncedInv ==
  \A h \in Handles :
    handed[Announce][h] > 0 =>
      RecordedFor(Announce, h) \/ (pc = "targetedSent" /\ cursor = h)

\* No two nodes hold the same message or packet; inductive by itself
OneEach ==
  \A a, b \in live : mem[a].id = mem[b].id => a = b

\* The others together are inductive
IInv ==
  /\ TypeOK
  /\ PassInv
  /\ LiveInv
  /\ QueueInv /\ QueueSound
  /\ RecordsInv /\ RecordsSound
  /\ SenderInv /\ NoEcho
  /\ HandedInv /\ AnnouncedInv /\ AtMostOnce
============================================================================
