------------------------------ MODULE PeerMap ------------------------------
(***************************************************************************)
(* Which device is behind which handle, and which of two links to one       *)
(* device is dropped.  An announce maps the handle it arrives on to its     *)
(* sender when its ttl is at least the highest seen from that sender; main  *)
(* looks for two handles mapped to one sender and disconnects the earlier.  *)
(*                                                                         *)
(* A device sends its own announces with MaxTtl and relays those of others  *)
(* with less.  Announces and connection events run in interrupt context;    *)
(* main is preempted between getAnyDuplicateHandle and gap_disconnect.      *)
(***************************************************************************)
EXTENDS Integers

CONSTANTS
  Handles,       \* connection handles; the controller does not use 0
  Devices,       \* sender ids
  MaxTtl,        \* the ttl a device gives its own announces
  MaxLinks       \* bound: number of links opened

NoHandle == 0
NoDevice == "no device"

ASSUME ConstantsAssumption ==
  /\ Handles \subseteq Nat \ {0}
  /\ NoDevice \notin Devices
  /\ MaxTtl \in Nat \ {0}
  /\ MaxLinks \in Nat

VARIABLES
  link,          \* the device at the other end of each handle, or NoDevice
  since,         \* connections[h].last_seen_time, as the number of the link
  links,         \* links opened so far
  max_ttl,       \* of each device's Peer; 0 in a new one
  handle_peer_map,
  pc, duplicate, \* main, and what getAnyDuplicateHandle returned
  dropping       \* links gap_disconnect was called for

vars == <<link, since, links, max_ttl, handle_peer_map, pc, duplicate, dropping>>

Init ==
  /\ link = [h \in Handles |-> NoDevice]
  /\ since = [h \in Handles |-> 0]
  /\ links = 0
  /\ max_ttl = [d \in Devices |-> 0]
  /\ handle_peer_map = [h \in Handles |-> NoDevice]
  /\ pc = "loop"
  /\ duplicate = NoHandle
  /\ dropping = {}
----------------------------------------------------------------------------
(* Events *)

\* reportConnection
ReportConnection(h, d) ==
  /\ link[h] = NoDevice
  /\ links < MaxLinks
  /\ link' = [link EXCEPT ![h] = d]
  /\ since' = [since EXCEPT ![h] = links + 1]
  /\ links' = links + 1
  /\ UNCHANGED <<max_ttl, handle_peer_map, pc, duplicate, dropping>>

\* Faulty variant: leaves the handle's entry in the map
ReportDisconnection_Keeps(h) ==
  /\ link[h] # NoDevice
  /\ link' = [link EXCEPT ![h] = NoDevice]
  /\ dropping' = dropping \ {h}
  /\ UNCHANGED <<since, links, max_ttl, handle_peer_map, pc, duplicate>>

\* reportDisconnection erases the handle's entry
ReportDisconnection(h) ==
  /\ link[h] # NoDevice
  /\ link' = [link EXCEPT ![h] = NoDevice]
  /\ handle_peer_map' = [handle_peer_map EXCEPT ![h] = NoDevice]
  /\ dropping' = dropping \ {h}
  /\ UNCHANGED <<since, links, max_ttl, pc, duplicate>>

\* processWrite of an announce of device d over handle h: checkSenderInPeers,
\* updateOrStorePeerName
Announce(h, d, ttl) ==
  /\ link[h] # NoDevice
  /\ (ttl = MaxTtl) <=> (link[h] = d)
  /\ IF ttl >= max_ttl[d]
     THEN /\ max_ttl' = [max_ttl EXCEPT ![d] = ttl]
          /\ handle_peer_map' = [handle_peer_map EXCEPT ![h] = d]
     ELSE UNCHANGED <<max_ttl, handle_peer_map>>
  /\ UNCHANGED <<link, since, links, pc, duplicate, dropping>>
----------------------------------------------------------------------------
(* main *)

SamePeer(g, h) == handle_peer_map[g] = handle_peer_map[h] /\ handle_peer_map[h] # NoDevice

\* Handle h has a duplicate among the handles before it
Repeats(h) == \E g \in Handles : g < h /\ SamePeer(g, h)

\* Faulty variant: the time, not the handle
Earlier_Timestamp(g, h) == IF since[g] < since[h] THEN since[h] ELSE since[g]

Earlier(g, h) == IF since[g] < since[h] THEN g ELSE h

\* main comes to the connect guard, finds it open and has no neighbour to try
Arrive ==
  /\ pc = "loop"
  /\ pc' = "find"
  /\ UNCHANGED <<link, since, links, max_ttl, handle_peer_map, duplicate, dropping>>

\* Faulty variant: compares neighbours in the map only with the first handle
GetAnyDuplicateHandle_First ==
  /\ pc = "find"
  /\ \/ \E g, h \in Handles :
          /\ g < h /\ SamePeer(g, h)
          /\ \A f \in Handles : f >= g
          /\ duplicate' = Earlier(g, h)
          /\ pc' = "drop"
     \/ /\ \A g, h \in Handles : g < h /\ SamePeer(g, h) => \E f \in Handles : f < g
        /\ duplicate' = NoHandle
        /\ pc' = "loop"
  /\ UNCHANGED <<link, since, links, max_ttl, handle_peer_map, dropping>>

\* getAnyDuplicateHandle walks the map by handle: the first one that repeats a
\* peer, against the one before it with that peer
GetAnyDuplicateHandle ==
  /\ pc = "find"
  /\ \/ \E g, h \in Handles :
          /\ g < h /\ SamePeer(g, h)
          /\ \A f \in Handles : f < h => ~Repeats(f)
          /\ duplicate' = Earlier(g, h)
          /\ pc' = "drop"
     \/ /\ \A h \in Handles : ~Repeats(h)
        /\ duplicate' = NoHandle
        /\ pc' = "loop"
  /\ UNCHANGED <<link, since, links, max_ttl, handle_peer_map, dropping>>

\* gap_disconnect, which the stack refuses for an unknown link
GapDisconnect ==
  /\ pc = "drop"
  /\ pc' = "loop"
  /\ dropping' = IF link[duplicate] # NoDevice THEN dropping \cup {duplicate} ELSE dropping
  /\ duplicate' = NoHandle
  /\ UNCHANGED <<link, since, links, max_ttl, handle_peer_map>>
----------------------------------------------------------------------------
Main == Arrive \/ GetAnyDuplicateHandle \/ GapDisconnect

Event ==
  \/ \E h \in Handles, d \in Devices : ReportConnection(h, d)
  \/ \E h \in Handles : ReportDisconnection(h)
  \/ \E h \in Handles, d \in Devices, ttl \in 0..MaxTtl : Announce(h, d, ttl)

Next == Main \/ Event

Spec == Init /\ [][Next]_vars

\* main ends what it starts, and a link that is disconnected goes
FairSpec ==
  /\ Spec
  /\ WF_vars(GetAnyDuplicateHandle \/ GapDisconnect)
  /\ \A h \in Handles : WF_vars(h \in dropping /\ ReportDisconnection(h))
----------------------------------------------------------------------------
(* Properties *)

\* The map, the peers and main's local have their types.
TypeOK ==
  /\ link \in [Handles -> Devices \cup {NoDevice}]
  /\ since \in [Handles -> Nat]
  /\ links \in Nat
  /\ max_ttl \in [Devices -> 0..MaxTtl]
  /\ handle_peer_map \in [Handles -> Devices \cup {NoDevice}]
  /\ pc \in {"loop", "find", "drop"}
  /\ duplicate \in Handles \cup {NoHandle}
  /\ dropping \subseteq Handles

\* Only handles whose link is up are in handle_peer_map: reportDisconnection
\* leaves nothing that the handle's next link could be taken for, and the two
\* links getAnyDuplicateHandle compares are both up.
MapOnlyLive == \A h \in Handles : handle_peer_map[h] # NoDevice => link[h] # NoDevice

\* As long as main comes to look for them, two handles do not stay mapped to one
\* device: one of the links goes.
EventuallyOneLink ==
  \A g, h \in Handles :
    []<>(pc = "find") => (g # h /\ SamePeer(g, h) ~> ~SamePeer(g, h))
============================================================================
