------------------------------- MODULE Relay -------------------------------
(***************************************************************************)
(* The relaying core of the repeater: BleConnectionTracker's stores, send  *)
(* lists and sent records, as processWrite fills them from Bluetooth       *)
(* callbacks and as main's loop drains and cleans them.                    *)
(*                                                                         *)
(* Two actors share this state.  The BTstack and GPIO callbacks run in     *)
(* interrupt context: each is one atomic action.  main() is preempted      *)
(* between any two container operations, and sleeps 20 ms inside every     *)
(* SendPacketToConnection: it is a program with a control state pc, one    *)
(* action per stretch of code between two such points.                     *)
(*                                                                         *)
(* Packets live in heap nodes of two std::maps and are referred to by      *)
(* address everywhere else.  Addresses are ordered, because the sent       *)
(* records are a multimap ordered by packet address.                       *)
(***************************************************************************)
EXTENDS Integers

CONSTANTS
  Handles,       \* connection handles, ordered as in std::map
  Centrals,      \* those of links we opened (role master): peers notify us
  Messages,      \* identities (message ids) of the chat messages of peers
  PassAlongs,    \* identities (hashes) of the other packets peers send
  Announces,     \* the pass-along packets of type announce
  OwnMessages,   \* identities of the "Still alive" messages main makes
  Addrs,         \* heap addresses of the nodes of messages and packets
  Ttls,          \* time-to-live values a received packet may carry
  OwnTtl,        \* time-to-live of the "Still alive" messages
  TsOf,          \* the timestamp (ms) the originator gave each identity
  MsPerSecond,   \* the divisor of getPacketTimestampMs
  FiveMinutes,   \* MESSAGE_TIMEOUT
  TenMinutes,    \* ten_minutes_in_ms
  BuildTime,     \* build_time_ms
  Width64,       \* number of values of the (scaled) 64-bit clock offset
  Width32,       \* number of values of the (scaled) 32-bit microsecond clock
  MaxUptime      \* bound: the model runs for this many ticks of uptime

Identities == Messages \cup PassAlongs \cup OwnMessages
Received == Messages \cup PassAlongs

\* The tracker's own announce packet is a member of a global object: its
\* address is below every heap address.
Announce == 0
Packets == Addrs \cup {Announce}

\* Connection pointers to no entry of connections: that of the local copy
\* handle_gatt_client_value_update_event passes down, and that of an entry
\* cleanupStaleItems erased.  What is read through them is arbitrary.
StackCopy == 0
Erased == -1
NoEntry == {StackCopy, Erased}

NoLink == 0

\* What begin is before the first packet of a pass, and when it found no connection
NotAsked == 0
End == -1

Contents == [id : Identities, ttl : Ttls \cup {OwnTtl}, ts : Nat]

ASSUME HandlesAssumption == 
  /\ Handles \subseteq Nat \ {0}
  /\ Centrals \subseteq Handles
ASSUME AddrsAssumption == Addrs \subseteq Nat \ {0}
ASSUME IdentitiesAssumption ==
  /\ Messages \cap PassAlongs = {}
  /\ OwnMessages \cap Received = {}
  /\ Identities # {}
  /\ Announces \subseteq PassAlongs
ASSUME PacketAssumption ==
  /\ Ttls \subseteq Nat
  /\ OwnTtl \in Nat \ {0}
  /\ TsOf \in [Received -> Nat]
ASSUME ClockAssumption ==
  /\ MsPerSecond \in Nat \ {0}
  /\ FiveMinutes \in Nat
  /\ TenMinutes \in Nat
  /\ BuildTime \in Nat
  /\ Width64 \in Nat \ {0}
  /\ Width32 \in Nat \ {0}
  /\ MaxUptime \in Nat

VARIABLES
  \* callbacks and main
  live,          \* addresses that are nodes of messages or packets
  mem,           \* what each node holds
  sent,          \* packets_connections_sent_list: <<packet, connection>>
  broadcast,     \* broadcast_packets_to_send_list
  connections,   \* connections
  offset,        \* timestamp_offset_ms
  life_check,    \* life_check, set by the GPIO callback
  uptime,        \* time_us_64(), in ticks
  \* main only
  targeted,      \* handles of targeted_packets_to_send_list (all announce)
  announceTs,    \* announce's packet_timestamp
  lastCleanup,   \* lastCleanup, a 32-bit time
  pc,            \* where main is
  todo,          \* packets the range-for of sendPackets has still to visit
  toRemove,      \* the local ..._packets_to_remove of sendPackets
  current,       \* packet being handed over
  cursor,        \* handle of the connection last visited
  begin,         \* begin() of available_connections, once it was asked for
  cleanupNow,    \* the local now of cleanupStaleItems
  \* history, read by properties only
  handed,        \* times each packet was handed to each current link
  from,          \* the current link whose write stored a packet
  raced          \* a callback changed what cleanupStaleItems had yet to erase

callbackVars == <<live, mem, sent, broadcast, connections, offset, life_check>>
mainVars == <<targeted, announceTs, lastCleanup, pc, todo, toRemove, current,
              cursor, begin, cleanupNow>>
history == <<handed, from, raced>>
vars == <<callbackVars, uptime, mainVars, history>>

\* Stands for the arbitrary contents of an address that is no node
Blank == [id |-> CHOOSE i \in Identities : TRUE, ttl |-> OwnTtl, ts |-> 0]

NoConnection == [present |-> FALSE, connected |-> FALSE,
                 characteristic |-> FALSE, seen |-> 0]

\* getTimeMs
Now == (offset + uptime) % Width64

\* getPacketTimestampMs, which divides a millisecond timestamp by 1000
TimestampMs(ts) == ts \div MsPerSecond

\* Faulty variant: every packet is new
Stored_Never(id) == FALSE

Stored(id) == \E a \in live : mem[a].id = id

\* isConnected() && getBitchatCharacteristicValueHandle() > 0
Available(h) == connections[h].connected /\ connections[h].characteristic

ClockKnown == offset >= BuildTime

Init ==
  /\ live = {}
  /\ mem = [a \in Addrs |-> Blank]
  /\ sent = {}
  /\ broadcast = {}
  /\ connections = [h \in Handles |-> NoConnection]
  /\ offset = 0
  /\ life_check = FALSE
  /\ uptime = 0
  /\ targeted = {}
  /\ announceTs = 0
  /\ lastCleanup = FiveMinutes % Width32
  /\ pc = "pin"
  /\ todo = {}
  /\ toRemove = {}
  /\ current = Announce
  /\ cursor = 0
  /\ begin = NotAsked
  /\ cleanupNow = 0
  /\ handed = [p \in Packets |-> [h \in Handles |-> 0]]
  /\ from = [a \in Addrs |-> NoLink]
  /\ raced = FALSE
----------------------------------------------------------------------------
(* Callbacks *)

\* Faulty variant: the operands of the difference swapped
UpdatedOffset_Swapped(ts) == offset + (Now - ts)

\* possiblyUpdateTimeOffset: adopt a later time, or one over 5 minutes away
UpdatedOffset(ts) ==
  LET diff == ts - Now
  IN  IF diff > 0 \/ -diff > FiveMinutes
      THEN (offset + diff) % Width64
      ELSE offset

\* storeMessageAndReturnIfNew or storePacketAndReturnIfNew of a new identity in
\* node a, then enqueueBroadcastPacket; senders is {} for our own messages
StoreAt(a, id, ttl, ts, senders, origin) ==
  /\ live' = live \cup {a}
  /\ mem' = [mem EXCEPT ![a] = [id |-> id, ttl |-> ttl, ts |-> ts]]
  /\ sent' = sent \cup ({a} \X senders)
  /\ broadcast' = IF ttl > 0 THEN broadcast \cup {a} ELSE broadcast
  /\ handed' = [handed EXCEPT ![a] = [h \in Handles |-> 0]]
  /\ from' = [from EXCEPT ![a] = origin]
  /\ raced' = (raced \/ (ttl > 0 /\ pc \in {"cleanupConnections", "cleanupStore"}))

\* The allocator may choose any free address
StoreAndBroadcast(id, ttl, ts, senders, origin) ==
  \E a \in Addrs \ live : StoreAt(a, id, ttl, ts, senders, origin)

\* processWrite of a well-formed packet that arrived on link h, connection
\* being the BleConnection pointer it is given
ProcessWrite(h, connection, id, ttl) ==
  /\ connections[h].connected
  /\ offset' = IF id \in Announces THEN UpdatedOffset(TsOf[id]) ELSE offset
  /\ IF Stored(id) \/ (id \in PassAlongs /\ ttl < 1)
     THEN UNCHANGED <<live, mem, sent, broadcast, handed, from, raced>>
     ELSE StoreAndBroadcast(id, ttl, TsOf[id], {connection},
                            IF connection = h THEN h ELSE NoLink)
  /\ UNCHANGED <<connections, life_check, uptime, mainVars>>

\* att_write_callback on the value handle: a reference into connections
AttWrite(h, id, ttl) == ProcessWrite(h, h, id, ttl)

\* GATT_EVENT_NOTIFICATION: processWrite is given a local copy of the
\* connection, whose address outlives it in the sent records
Notification(h, id, ttl) == h \in Centrals /\ ProcessWrite(h, StackCopy, id, ttl)

\* reportConnection: an entry known from a scan is copied over the whole
\* entry, otherwise what the handle's former link left in it stays
ReportConnection(h, isNeighbour) ==
  /\ ~connections[h].connected
  /\ connections' = [connections EXCEPT ![h] =
       [present |-> TRUE, connected |-> TRUE, seen |-> uptime,
        characteristic |-> ~isNeighbour /\ @.characteristic]]
  /\ handed' = [p \in Packets |-> [handed[p] EXCEPT ![h] = 0]]
  /\ from' = [a \in Addrs |-> IF from[a] = h THEN NoLink ELSE from[a]]
  /\ UNCHANGED <<live, mem, sent, broadcast, offset, life_check, uptime, mainVars, raced>>

\* The peer subscribes (att_write_callback on the configuration handle) or
\* discovery finds its characteristic
LearnCharacteristic(h) ==
  /\ connections[h].connected
  /\ connections' = [connections EXCEPT ![h].characteristic = TRUE]
  /\ UNCHANGED <<live, mem, sent, broadcast, offset, life_check, uptime, mainVars, history>>

\* announced_to_connection: the lambda captures the connection by copy, so the
\* pointer it compares with is the address of that copy, not of the entry
AnnouncedToConnection(h) == {r \in sent : r[1] = Announce /\ r[2] = StackCopy}

ReportDisconnection(h) ==
  /\ connections[h].connected
  /\ connections' = [connections EXCEPT ![h].connected = FALSE]
  /\ sent' = sent \ AnnouncedToConnection(h)
  /\ raced' = (raced \/ pc \in {"cleanupLists", "cleanupConnections"})
  /\ UNCHANGED <<live, mem, broadcast, offset, life_check, uptime, mainVars, handed, from>>

\* gpio_callback; bounded by the identities left for the message main makes
GpioFall ==
  /\ ~life_check
  /\ \E id \in OwnMessages : ~Stored(id)
  /\ life_check' = TRUE
  /\ UNCHANGED <<live, mem, sent, broadcast, connections, offset, uptime, mainVars, history>>

Tick ==
  /\ uptime < MaxUptime
  /\ uptime' = uptime + 1
  /\ UNCHANGED <<callbackVars, mainVars, history>>
----------------------------------------------------------------------------
(* main's loop *)

\* handlePinActivity; "our messages will always be new"
HandlePinActivity ==
  /\ pc = "pin"
  /\ pc' = "announce"
  /\ life_check' = FALSE
  /\ IF life_check
     THEN \E id \in OwnMessages :
            ~Stored(id) /\ StoreAndBroadcast(id, OwnTtl, Now, {}, NoLink)
     ELSE UNCHANGED <<live, mem, sent, broadcast, handed, from, raced>>
  /\ UNCHANGED <<connections, offset, uptime, targeted, announceTs,
                 lastCleanup, todo, toRemove, current, cursor, begin,
                 cleanupNow>>

\* One of the packet's own records names connection handle h; one with a
\* dangling connection pointer may read as any handle
RecordedFor(p, h) == <<p, h>> \in sent
MayBeRecorded(p) == \E c \in NoEntry : <<p, c>> \in sent

\* Faulty variant: announces to the first connections only
NotAnnounced_Once ==
  {h \in Handles : Available(h) /\ ClockKnown /\ ~RecordedFor(Announce, h) /\ announceTs = 0}

NotAnnounced == {h \in Handles : /\ Available(h)
                                 /\ ClockKnown
                                 /\ ~RecordedFor(Announce, h)}

\* announceToConnections, when its two-second timer is due
AnnounceToConnections ==
  /\ pc = "announce"
  /\ pc' = "send"
  /\ \E chosen \in SUBSET NotAnnounced :
       /\ chosen = NotAnnounced \/ MayBeRecorded(Announce)
       /\ targeted' = targeted \cup chosen
       /\ announceTs' = IF chosen = {} THEN announceTs ELSE Now
  /\ UNCHANGED <<callbackVars, uptime, lastCleanup, todo, toRemove, current,
                 cursor, begin, cleanupNow, history>>

AnnounceNotDue ==
  /\ pc = "announce"
  /\ pc' = "send"
  /\ UNCHANGED <<callbackVars, uptime, targeted, announceTs, lastCleanup, todo,
                 toRemove, current, cursor, begin, cleanupNow, history>>

\* sendPackets: nothing queued, or start with the targeted list
SendPackets ==
  /\ pc = "send"
  /\ pc' = IF broadcast = {} /\ targeted = {} THEN "cleanup" ELSE "targeted"
  /\ UNCHANGED <<callbackVars, uptime, targeted, announceTs, lastCleanup, todo,
                 toRemove, current, cursor, begin, cleanupNow, history>>

\* SendPacketToConnection, up to the sleep at its end
HandOver(p, h) ==
  /\ handed' = [handed EXCEPT ![p][h] = @ + 1]
  /\ current' = p
  /\ cursor' = h
  /\ UNCHANGED <<callbackVars, uptime, targeted, announceTs, lastCleanup, todo,
                 toRemove, begin, cleanupNow, from, raced>>

\* One element of the targeted list that packet_needed lets through
SendTargeted(h) ==
  /\ pc = "targeted"
  /\ h \in targeted
  /\ ~RecordedFor(Announce, h)
  /\ pc' = "targetedSent"
  /\ HandOver(Announce, h)

\* Faulty variant: forgets to record what was sent
RecordTargeted_Forgets ==
  /\ pc = "targetedSent"
  /\ pc' = "targeted"
  /\ toRemove' = toRemove \cup {current}
  /\ UNCHANGED <<callbackVars, uptime, targeted, announceTs, lastCleanup, todo,
                 current, cursor, begin, cleanupNow, history>>

\* Back from the sleep: remember the packet was sent on this connection
RecordTargeted ==
  /\ pc = "targetedSent"
  /\ pc' = "targeted"
  /\ sent' = sent \cup {<<current, cursor>>}
  /\ toRemove' = toRemove \cup {current}
  /\ UNCHANGED <<live, mem, broadcast, connections, offset, life_check, uptime,
                 targeted, announceTs, lastCleanup, todo, current, cursor,
                 begin, cleanupNow, history>>

\* The list is exhausted: erase the packets that were sent, begin the
\* range-for over the broadcast list, whose end is fixed here
EndTargeted ==
  /\ pc = "targeted"
  /\ \A h \in targeted : RecordedFor(Announce, h) \/ MayBeRecorded(Announce)
  /\ pc' = "nextPacket"
  /\ targeted' = IF Announce \in toRemove THEN {} ELSE targeted
  /\ toRemove' = {}
  /\ todo' = broadcast
  /\ current' = Announce
  /\ cursor' = 0
  /\ UNCHANGED <<callbackVars, uptime, announceTs, lastCleanup, begin,
                 cleanupNow, history>>

IsFirstAvailable(h) == Available(h) /\ \A g \in Handles : g < h => ~Available(g)

\* available_connections | filter: the view keeps what its first begin() found
Begin ==
  IF begin # NotAsked
  THEN {begin}
  ELSE IF \E h \in Handles : Available(h)
       THEN {h \in Handles : IsFirstAvailable(h)}
       ELSE {End}

\* The next packet of the range-for
NextPacket(p) ==
  /\ pc = "nextPacket"
  /\ p \in todo
  /\ pc' = "broadcast"
  /\ current' = p
  /\ cursor' = 0
  /\ begin' \in Begin
  /\ todo' = todo \ {p}
  /\ UNCHANGED <<callbackVars, uptime, targeted, announceTs, lastCleanup,
                 toRemove, cleanupNow, history>>

\* h is the next element of available_connections: for each packet the one the
\* view kept, whatever became of it, then those that pass the filter when the
\* walk gets there
NextAvailable(h) ==
  IF cursor = 0
  THEN h = begin
  ELSE /\ cursor < h
       /\ Available(h)
       /\ \A g \in Handles : cursor < g /\ g < h => ~Available(g)

\* Faulty variant: starts after the packet's own records (upper_bound)
Walked_After(p) == {r \in sent : r[1] > p}

\* The records the sendable loop walks: from the first one of the packet to
\* the end of the whole multimap, or none when the packet has none
Walked(p) ==
  IF \E r \in sent : r[1] = p THEN {r \in sent : r[1] >= p} ELSE {}

\* A record of h is walked; one whose connection pointer is left dangling may
\* read as any handle
Blocked(p, h) == \E r \in Walked(p) : r[2] = h
MayBlock(p) == \E r \in Walked(p) : r[2] \in NoEntry

SendBroadcast(h) ==
  /\ pc = "broadcast"
  /\ NextAvailable(h)
  /\ ~Blocked(current, h)
  /\ pc' = "broadcastSent"
  /\ HandOver(current, h)

SkipConnection(h) ==
  /\ pc = "broadcast"
  /\ NextAvailable(h)
  /\ Blocked(current, h) \/ MayBlock(current)
  /\ cursor' = h
  /\ UNCHANGED <<callbackVars, uptime, targeted, announceTs, lastCleanup, pc,
                 todo, toRemove, current, begin, cleanupNow, history>>

RecordBroadcast ==
  /\ pc = "broadcastSent"
  /\ pc' = "broadcast"
  /\ sent' = sent \cup {<<current, cursor>>}
  /\ UNCHANGED <<live, mem, broadcast, connections, offset, life_check, uptime,
                 targeted, announceTs, lastCleanup, todo, toRemove, current,
                 cursor, begin, cleanupNow, history>>

\* No connection left for this packet
EndPacket ==
  /\ pc = "broadcast"
  /\ \A h \in Handles : ~NextAvailable(h)
  /\ pc' = "nextPacket"
  /\ toRemove' = toRemove \cup {current}
  /\ current' = Announce
  /\ cursor' = 0
  /\ UNCHANGED <<callbackVars, uptime, targeted, announceTs, lastCleanup, todo,
                 begin, cleanupNow, history>>

\* Faulty variant: keeps a packet that no connection was there to take
EndBroadcast_Keeps ==
  /\ pc = "nextPacket"
  /\ todo = {}
  /\ pc' = "cleanup"
  /\ broadcast' = broadcast \ {a \in toRemove : \E h \in Handles : handed[a][h] > 0}
  /\ toRemove' = {}
  /\ current' = Announce
  /\ cursor' = 0
  /\ begin' = NotAsked
  /\ UNCHANGED <<live, mem, sent, connections, offset, life_check, uptime,
                 targeted, announceTs, lastCleanup, todo, cleanupNow, history>>

\* remove_if and erase of the packets this pass visited
EndBroadcast ==
  /\ pc = "nextPacket"
  /\ todo = {}
  /\ pc' = "cleanup"
  /\ broadcast' = broadcast \ toRemove
  /\ toRemove' = {}
  /\ current' = Announce
  /\ cursor' = 0
  /\ begin' = NotAsked
  /\ UNCHANGED <<live, mem, sent, connections, offset, life_check, uptime,
                 targeted, announceTs, lastCleanup, todo, cleanupNow, history>>
----------------------------------------------------------------------------
(* cleanupStaleItems *)

CleanupDue == (uptime - lastCleanup) % Width32 > TenMinutes

CleanupNotDue ==
  /\ pc = "cleanup"
  /\ ~CleanupDue
  /\ pc' = "pin"
  /\ UNCHANGED <<callbackVars, uptime, targeted, announceTs, lastCleanup, todo,
                 toRemove, current, cursor, begin, cleanupNow, history>>

\* connection_stale: an uptime is compared with the tracker's clock
ConnectionStale(h, now) ==
  /\ connections[h].present
  /\ ~connections[h].connected
  /\ connections[h].seen + TenMinutes < now

\* getPacketTimestamp
Timestamp(p) == IF p = Announce THEN announceTs ELSE mem[p].ts

\* Faulty variant: does not look at the connection
RecordStale_PacketOnly(r, now) ==
  r[1] \in live \cup {Announce} /\ Timestamp(r[1]) + TenMinutes < now

\* packet_connection_stale of a record, as far as it reads live objects
RecordStale(r, now) ==
  \/ r[1] \in live \cup {Announce} /\ Timestamp(r[1]) + TenMinutes < now
  \/ r[2] \in Handles /\ ConnectionStale(r[2], now)

\* Records for which it reads a freed packet or a dangling connection as well,
\* and may find anything there
Dangling(r) ==
  \/ r[1] \notin live \cup {Announce}
  \/ r[2] \in NoEntry

\* packet_stale, and the tests of messages and packets
PacketStale(a, now) == TimestampMs(mem[a].ts) + TenMinutes < now

CleanupSent ==
  /\ pc = "cleanup"
  /\ CleanupDue
  /\ pc' = "cleanupLists"
  /\ cleanupNow' = Now
  /\ \E misread \in SUBSET {r \in sent : Dangling(r)} :
       LET erased == misread \cup {r \in sent : RecordStale(r, Now)}
       IN  /\ sent' = sent \ erased
           /\ handed' = [handed EXCEPT ![Announce] = [h \in Handles |->
                IF <<Announce, h>> \in erased THEN 0 ELSE @[h]]]
  /\ UNCHANGED <<live, mem, broadcast, connections, offset, life_check, uptime,
                 targeted, announceTs, lastCleanup, todo, toRemove, current,
                 cursor, begin, from, raced>>

\* Faulty variant: leaves the broadcast list alone
CleanupLists_TargetedOnly ==
  /\ pc = "cleanupLists"
  /\ pc' = "cleanupConnections"
  /\ targeted' = {h \in targeted : ~RecordStale(<<Announce, h>>, cleanupNow)}
  /\ UNCHANGED <<callbackVars, uptime, announceTs, lastCleanup, todo, toRemove,
                 current, cursor, begin, cleanupNow, history>>

CleanupLists ==
  /\ pc = "cleanupLists"
  /\ pc' = "cleanupConnections"
  /\ broadcast' = {a \in broadcast : ~PacketStale(a, cleanupNow)}
  /\ targeted' = {h \in targeted : ~RecordStale(<<Announce, h>>, cleanupNow)}
  /\ UNCHANGED <<live, mem, sent, connections, offset, life_check, uptime,
                 announceTs, lastCleanup, todo, toRemove, current, cursor,
                 begin, cleanupNow, history>>

\* What becomes of a connection pointer when the stale entries are erased
PointerAfter(c) ==
  IF c \in Handles /\ ConnectionStale(c, cleanupNow) THEN Erased ELSE c

CleanupConnections ==
  /\ pc = "cleanupConnections"
  /\ pc' = "cleanupStore"
  /\ connections' = [h \in Handles |->
       IF ConnectionStale(h, cleanupNow) THEN NoConnection ELSE connections[h]]
  /\ sent' = {<<r[1], PointerAfter(r[2])>> : r \in sent}
  /\ handed' = [p \in Packets |-> [h \in Handles |->
       IF ConnectionStale(h, cleanupNow) THEN 0 ELSE handed[p][h]]]
  /\ UNCHANGED <<live, mem, broadcast, offset, life_check, uptime, targeted,
                 announceTs, lastCleanup, todo, toRemove, current, cursor,
                 begin, cleanupNow, from, raced>>

CleanupStore ==
  /\ pc = "cleanupStore"
  /\ pc' = "pin"
  /\ live' = {a \in live : ~PacketStale(a, cleanupNow)}
  /\ mem' = [a \in Addrs |-> IF a \in live' THEN mem[a] ELSE Blank]
  /\ handed' = [p \in Packets |->
       IF p \in live \ live' THEN [h \in Handles |-> 0] ELSE handed[p]]
  /\ from' = [a \in Addrs |-> IF a \in live' THEN from[a] ELSE NoLink]
  /\ lastCleanup' = uptime % Width32
  /\ cleanupNow' = 0
  /\ UNCHANGED <<sent, broadcast, connections, offset, life_check, uptime,
                 targeted, announceTs, todo, toRemove, current, cursor, begin,
                 raced>>
----------------------------------------------------------------------------
Callback ==
  \/ \E h \in Handles, id \in Received, ttl \in Ttls :
       AttWrite(h, id, ttl) \/ Notification(h, id, ttl)
  \/ \E h \in Handles, isNeighbour \in BOOLEAN : ReportConnection(h, isNeighbour)
  \/ \E h \in Handles : LearnCharacteristic(h) \/ ReportDisconnection(h)
  \/ GpioFall

Main ==
  \/ HandlePinActivity
  \/ AnnounceToConnections
  \/ AnnounceNotDue
  \/ SendPackets
  \/ \E h \in Handles : SendTargeted(h) \/ SendBroadcast(h) \/ SkipConnection(h)
  \/ RecordTargeted
  \/ EndTargeted
  \/ \E p \in Addrs : NextPacket(p)
  \/ RecordBroadcast
  \/ EndPacket
  \/ EndBroadcast
  \/ CleanupNotDue
  \/ CleanupSent
  \/ CleanupLists
  \/ CleanupConnections
  \/ CleanupStore

Next == Callback \/ Main \/ Tick

Spec == Init /\ [][Next]_vars

\* main never returns while keep_running, and callbacks are short: its next
\* step is always taken in the end; the two-second announce timer is due again
\* and again
FairSpec == Spec /\ WF_vars(Main) /\ SF_vars(AnnounceToConnections)
----------------------------------------------------------------------------
(* Properties *)

MainStates == {"pin", "announce", "send", "targeted", "targetedSent",
               "nextPacket", "broadcast", "broadcastSent", "cleanup",
               "cleanupLists", "cleanupConnections", "cleanupStore"}

\* The state BleConnectionTracker and main's locals hold has its type.
TypeOK ==
  /\ live \subseteq Addrs
  /\ mem \in [Addrs -> Contents]
  /\ sent \subseteq Packets \X (Handles \cup NoEntry)
  /\ broadcast \subseteq Addrs
  /\ connections \in [Handles -> [present : BOOLEAN, connected : BOOLEAN,
                                  characteristic : BOOLEAN, seen : Nat]]
  /\ offset \in Nat
  /\ life_check \in BOOLEAN
  /\ uptime \in Nat
  /\ targeted \subseteq Handles
  /\ announceTs \in Nat
  /\ lastCleanup \in Nat
  /\ pc \in MainStates
  /\ todo \subseteq Addrs
  /\ toRemove \subseteq Packets
  /\ current \in Packets
  /\ cursor \in Handles \cup {0}
  /\ begin \in Handles \cup {NotAsked, End}
  /\ cleanupNow \in Nat
  /\ handed \in [Packets -> [Handles -> Nat]]
  /\ from \in [Addrs -> Handles \cup {NoLink}]
  /\ raced \in BOOLEAN

\* The packets sendPackets will dereference: those queued and the one in hand
InHand == IF pc \in {"broadcast", "broadcastSent"} THEN {current} ELSE {}
Queued == broadcast \cup todo \cup InHand

\* Unless a callback stored a packet between cleanupStaleItems' erasure of the
\* broadcast list and its erasure of the stores, or dropped a link between its
\* erasure of the records and that of the connections, every packet sendPackets
\* will dereference is a node of messages or packets, and still has a hop left
\* to give away (writePacket sends its ttl minus one in a byte).
QueueSound ==
  ~raced => \A a \in Queued : a \in live /\ mem[a].ttl > 0

\* Under the same proviso no record and no targeted entry points at an erased
\* entry of connections: cleanupStaleItems drops them with the connection.
RecordsSound ==
  ~raced => /\ \A r \in sent : r[2] # Erased
            /\ \A h \in targeted : connections[h].present

\* A packet is not handed back to the link whose write stored it, whatever
\* connects, disconnects, arrives or is cleaned up before its turn.  Another link
\* that writes the same packet before its turn leaves no record, and one that
\* notified us of it only that of a copy: those may be handed it.
NoEcho ==
  \A a \in Addrs, h \in Handles : from[a] = h => handed[a][h] = 0

\* A link is handed each stored packet at most once, and our announce at most
\* once until cleanupStaleItems forgets it was announced to.
AtMostOnce ==
  \A p \in Packets, h \in Handles : handed[p][h] <= 1

\* What the relay knows of the packets it stores
Entry(a) == [id |-> mem[a].id, from |-> from[a],
             handed |-> {h \in Handles : handed[a][h] > 0}]

Abstract == INSTANCE Repeater WITH
  Links <- Handles, store <- {Entry(a) : a \in live}

\* The relay keeps a repeater's promise: storing, sendPackets, connection events
\* and cleanupStaleItems, however they interleave, only take a new packet, hand
\* one to a link that has not had it, or forget.
KeepsPromise == Abstract!Spec

\* Every packet put on the broadcast list is taken off it again.
EventuallyDequeued ==
  \A a \in Addrs : a \in broadcast ~> a \notin broadcast

\* Once the clock is known, an available link is recorded as announced to in the
\* end, unless it goes away, a jump of the clock takes the time back, or a
\* callback raced with cleanupStaleItems as above.
EventuallyAnnounced ==
  \A h \in Handles :
    Available(h) /\ ClockKnown
      ~> RecordedFor(Announce, h) \/ ~Available(h) \/ ~ClockKnown \/ raced

\* cleanupStaleItems erases a message or packet only when its timestamp is ten
\* minutes old.
CleanupKeepsFresh ==
  [][\A a \in live \ live' : mem[a].ts + TenMinutes < cleanupNow]_live

\* sendPackets passes over an available connection only if this very packet
\* came from it or was already sent to it.
SkippedOnlyIfSeen ==
  [][pc = "broadcast" /\ pc' = "broadcast" => RecordedFor(current, cursor')]_cursor
============================================================================
