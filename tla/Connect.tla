------------------------------ MODULE Connect ------------------------------
(***************************************************************************)
(* Finding, opening and preparing links: the scan that fills                *)
(* available_neighbours, main's connect_to_first_neighbour behind its gate  *)
(* of four flags, and the GATT discovery that follows every connection.     *)
(*                                                                         *)
(* hci_packet_handler, att_write_callback and handle_gatt_client_event run  *)
(* in interrupt context and are one action per event.  main is preempted    *)
(* between looking a neighbour up, checking it, gap_connect and recording   *)
(* that the connection was started.  The status of a connection complete    *)
(* event and the results of both discovery requests are ignored, as the     *)
(* code does.                                                               *)
(*                                                                         *)
(* attempt and query are the part of BTstack's state the code relies on:    *)
(* the connection being opened, and the discovery outstanding on each link. *)
(***************************************************************************)
EXTENDS Integers

CONSTANTS
  Handles,       \* connection handles the controller gives out, and reuses
  Peers,         \* addresses, ordered as in std::map, of nodes with the service
  Repeaters,     \* those that also advertise the repeater's name
  Randoms,       \* those whose address is of the random type
  MaxDrops       \* bound: number of links that are lost and attempts that fail

NoPeer == 0
NoHandle == 0    \* what stands for a handle in the event of a failed attempt
Junk == -1       \* what freed memory may hold where an address was: nobody's

ASSUME PeersAssumption ==
  /\ Peers \subseteq Nat \ {0}
  /\ Repeaters \subseteq Peers
  /\ Randoms \subseteq Peers
ASSUME HandlesAssumption == NoHandle \notin Handles
ASSUME BoundAssumption == MaxDrops \in Nat

VARIABLES
  scanning, connection_in_progress,
  discover_primary_services, discover_characteristics_for_service,
  settling,      \* disconnection_started_at is less than two seconds ago
  neighbours,    \* the keys of available_neighbours
  clockKnown,    \* timestamp_offset_ms >= build_time_ms
  conn,          \* connections: what discovery needs of each
  attempt,       \* external: the address gap_connect is trying
  query,         \* external: the GATT query outstanding on each link
  pc, picked,    \* main, and the neighbour it holds a pointer to
  freed,         \* what that pointer points to has been freed
  drops,         \* links lost and attempts failed so far
  failed,        \* history: links with a query that was refused or failed
  stranded       \* history: "attempt" or "discovery", when the flag for it is
                 \* set and no work is under way that would clear it

gateFlags == <<scanning, connection_in_progress, discover_primary_services,
               discover_characteristics_for_service, settling>>
stack == <<attempt, query>>
locals == <<pc, picked, freed>>
history == <<drops, failed, stranded>>
vars == <<gateFlags, neighbours, clockKnown, conn, stack, locals, history>>

Blank == [connected |-> FALSE, peer |-> NoPeer, service |-> FALSE,
          characteristic |-> FALSE, mtu |-> FALSE]

Connections == Handles \cup {NoHandle}

\* getConnectionForAddress finds a connection, and the stack has a link
Known(p) == \E h \in Connections : conn[h].connected /\ conn[h].peer = p
Linked(p) == \E h \in Handles : conn[h].connected /\ conn[h].peer = p

\* check_for_uuid found the repeater's name beside the service
IsRepeater(p) == p \in Repeaters

\* storeHandlesIfServiceMatches
WithService(connection) == [connection EXCEPT !.service = TRUE]

\* storeHandlesIfCharacteristicMatches
WithCharacteristic(connection) == [connection EXCEPT !.characteristic = TRUE]

\* BTSTACK_EVENT_STATE has reported HCI_STATE_WORKING: setup_scanning was called
Init ==
  /\ scanning = TRUE
  /\ connection_in_progress = FALSE
  /\ discover_primary_services = FALSE
  /\ discover_characteristics_for_service = FALSE
  /\ settling = FALSE
  /\ neighbours = {}
  /\ clockKnown = FALSE
  /\ conn = [h \in Connections |-> Blank]
  /\ attempt = NoPeer
  /\ query = [h \in Handles |-> "none"]
  /\ pc = "gate"
  /\ picked = NoPeer
  /\ drops = 0
  /\ failed = {}
  /\ stranded = {}
  /\ freed = FALSE
----------------------------------------------------------------------------
(* Bluetooth events *)

\* GAP_EVENT_ADVERTISING_REPORT of a node with the service: addAvailablePeer.
\* A report may still come after gap_stop_scan
AdvertisingReport(p) ==
  /\ neighbours' = neighbours \cup {p}
  /\ UNCHANGED <<gateFlags, clockKnown, conn, stack, locals, history>>

\* stop_scan_handler, the one-shot timer start_scanning_for_local_nodes sets
StopScan ==
  /\ scanning
  /\ scanning' = FALSE
  /\ UNCHANGED <<connection_in_progress, discover_primary_services,
                 discover_characteristics_for_service, settling, neighbours,
                 clockKnown, conn, stack, locals, history>>

\* reportConnection moves a known neighbour into connections, whole, and otherwise
\* leaves what the handle's former link had.  The neighbour's node is freed
ReportConnection(h, p) ==
  /\ conn' = [conn EXCEPT ![h] =
       [(IF p \in neighbours THEN Blank ELSE @) EXCEPT !.connected = TRUE, !.peer = p]]
  /\ neighbours' = neighbours \ {p}
  /\ freed' = (freed \/ (p = picked /\ p \in neighbours))

\* HCI_EVENT_META_GAP for a new link, opened by us or by the peer.  Discovery of
\* the service is asked for, and its flag set whether or not the request is
\* accepted
ConnectionComplete(h, p, accepted) ==
  /\ ~conn[h].connected
  /\ ~Linked(p)
  /\ ReportConnection(h, p)
  /\ connection_in_progress' = FALSE
  /\ discover_primary_services' = TRUE
  /\ query' = [query EXCEPT ![h] = IF accepted THEN "services" ELSE "none"]
  /\ attempt' = IF attempt = p THEN NoPeer ELSE attempt
  /\ failed' = IF accepted THEN failed \ {h} ELSE failed \cup {h}
  /\ stranded' = IF accepted THEN {} ELSE {"discovery"}
  /\ UNCHANGED <<scanning, discover_characteristics_for_service, settling,
                 clockKnown, drops, pc, picked>>

\* The same event with an error status, which the handler does not look at: the
\* node, or none, is reported as connected under a handle that is no link's, and
\* the stack refuses to discover services on it
ConnectionFailed(p) ==
  /\ attempt # NoPeer
  /\ p \in {attempt, NoPeer}
  /\ drops < MaxDrops
  /\ drops' = drops + 1
  /\ ReportConnection(NoHandle, p)
  /\ connection_in_progress' = FALSE
  /\ discover_primary_services' = TRUE
  /\ attempt' = NoPeer
  /\ stranded' = {"discovery"}
  /\ UNCHANGED <<scanning, discover_characteristics_for_service, settling,
                 clockKnown, query, failed, pc, picked>>

\* Results come while their query is outstanding
QueryEvent(h) ==
  /\ query[h] # "none"
  /\ UNCHANGED <<gateFlags, neighbours, clockKnown, stack, locals, history>>

\* GATT_EVENT_MTU
MtuEvent(h) ==
  /\ QueryEvent(h)
  /\ conn' = [conn EXCEPT ![h].mtu = TRUE]

\* GATT_EVENT_SERVICE_QUERY_RESULT
ServiceResult(h) ==
  /\ QueryEvent(h)
  /\ query[h] = "services"
  /\ conn' = [conn EXCEPT ![h] = WithService(@)]

\* GATT_EVENT_CHARACTERISTIC_QUERY_RESULT
CharacteristicResult(h) ==
  /\ QueryEvent(h)
  /\ query[h] = "characteristics"
  /\ conn' = [conn EXCEPT ![h] = WithCharacteristic(@)]

\* Faulty variant: discovers characteristics only when they are known
NeedsCharacteristics_Swapped(h) == conn[h].service /\ conn[h].characteristic

\* canAndNeedToDiscoverBitchatCharacteristicsQuery
NeedsCharacteristics(h) == conn[h].service /\ ~conn[h].characteristic

\* Faulty variant: leaves the flag of the service query set
QueryCompleteFlags_Forgets(h) ==
  /\ discover_primary_services' = discover_primary_services
  /\ discover_characteristics_for_service' = NeedsCharacteristics(h)

\* GATT_EVENT_QUERY_COMPLETE: both flags are cleared, whichever link it is of
QueryCompleteFlags(h) ==
  /\ discover_primary_services' = FALSE
  /\ discover_characteristics_for_service' = NeedsCharacteristics(h)

\* What is left without work by the end of a query: the flag for the
\* characteristics, if they are needed and the request for them is of no use
StrandedBy(h, useless) ==
  (stranded \ {"discovery"})
    \cup (IF NeedsCharacteristics(h) /\ useless THEN {"discovery"} ELSE {})

\* A successful query has reported its match before; a failed one may not have.
\* The result of the request for characteristics is not looked at
QueryComplete(h, status, accepted) ==
  /\ query[h] # "none"
  /\ status = "ok" => IF query[h] = "services" THEN conn[h].service
                      ELSE conn[h].characteristic
  /\ QueryCompleteFlags(h)
  /\ query' = [query EXCEPT ![h] =
       IF NeedsCharacteristics(h) /\ accepted THEN "characteristics" ELSE "none"]
  /\ failed' = IF status = "ok" /\ (accepted \/ ~NeedsCharacteristics(h))
               THEN failed ELSE failed \cup {h}
  /\ stranded' = StrandedBy(h, ~accepted)
  /\ UNCHANGED <<scanning, connection_in_progress, settling, neighbours, clockKnown,
                 conn, attempt, drops, locals>>

\* att_write_callback on the client configuration: the peer subscribes
Subscribe(h) ==
  /\ conn[h].connected
  /\ conn' = [conn EXCEPT ![h].characteristic = TRUE]
  /\ UNCHANGED <<gateFlags, neighbours, clockKnown, stack, locals, history>>

\* HCI_EVENT_DISCONNECTION_COMPLETE: reportDisconnection.  The GATT client ends
\* an outstanding query with an error; what is asked of a lost link in its
\* handler is never answered
Disconnection(h) ==
  /\ conn[h].connected
  /\ drops < MaxDrops
  /\ drops' = drops + 1
  /\ conn' = [conn EXCEPT ![h].connected = FALSE]
  /\ IF query[h] = "none"
     THEN UNCHANGED <<discover_primary_services, discover_characteristics_for_service,
                      stranded>>
     ELSE QueryCompleteFlags(h) /\ stranded' = StrandedBy(h, TRUE)
  /\ query' = [query EXCEPT ![h] = "none"]
  /\ UNCHANGED <<scanning, connection_in_progress, settling, neighbours, clockKnown,
                 attempt, failed, locals>>

\* A connected peer's announce: possiblyUpdateTimeOffset may move the offset
\* either way
LearnTime ==
  /\ \E h \in Handles : conn[h].connected
  /\ clockKnown' \in BOOLEAN
  /\ UNCHANGED <<gateFlags, neighbours, conn, stack, locals, history>>

\* Faulty variant: misses that they have
Settle_Missed ==
  /\ settling
  /\ UNCHANGED vars

\* Two seconds have passed since gap_disconnect
Settle ==
  /\ settling
  /\ settling' = FALSE
  /\ UNCHANGED <<scanning, connection_in_progress, discover_primary_services,
                 discover_characteristics_for_service, neighbours, clockKnown, conn,
                 stack, locals, history>>
----------------------------------------------------------------------------
(* main *)

GateOpen == /\ ~scanning /\ ~connection_in_progress
            /\ ~discover_primary_services /\ ~discover_characteristics_for_service
            /\ ~settling

Gate ==
  /\ pc = "gate"
  /\ pc' = IF GateOpen THEN "pick" ELSE "scan"
  /\ UNCHANGED <<gateFlags, neighbours, clockKnown, conn, stack, picked, freed,
                 history>>

\* getConnectableNeighbours
Connectable(p) == /\ p \in neighbours /\ p \notin Randoms
                  /\ clockKnown \/ IsRepeater(p)

\* Faulty variant: takes the first of the list without looking whether it is empty
Pick_Unchecked ==
  /\ pc = "pick"
  /\ picked' = IF \E p \in Peers : Connectable(p)
               THEN CHOOSE p \in Peers :
                      Connectable(p) /\ \A q \in Peers : Connectable(q) => p <= q
               ELSE Junk
  /\ pc' = "check"
  /\ freed' = FALSE
  /\ UNCHANGED <<gateFlags, neighbours, clockKnown, conn, stack, history>>

\* connect_to_first_neighbour takes the first of them, if any
Pick ==
  /\ pc = "pick"
  /\ \/ \E p \in Peers :
          /\ Connectable(p)
          /\ \A q \in Peers : Connectable(q) => p <= q
          /\ picked' = p
          /\ pc' = "check"
     \/ /\ \A p \in Peers : ~Connectable(p)
        /\ pc' = "duplicate"
        /\ picked' = NoPeer
  /\ freed' = FALSE
  /\ UNCHANGED <<gateFlags, neighbours, clockKnown, conn, stack, history>>

\* What reading the address through the neighbour pointer gives.  A freed node
\* may hold what it held, nobody's address, or that of another neighbour which
\* was given its memory
HeldAddress == IF freed THEN {picked, Junk} \cup neighbours ELSE {picked}

\* Faulty variant: tries exactly the neighbours that are connected
Check_Inverted ==
  /\ pc = "check"
  /\ \E a \in HeldAddress : pc' = IF Known(a) THEN "connect" ELSE "duplicate"
  /\ UNCHANGED <<gateFlags, neighbours, clockKnown, conn, stack, picked, freed,
                 history>>

\* getConnectionForAddress: a neighbour that is connected is not tried
Check ==
  /\ pc = "check"
  /\ \E a \in HeldAddress : pc' = IF Known(a) THEN "duplicate" ELSE "connect"
  /\ UNCHANGED <<gateFlags, neighbours, clockKnown, conn, stack, picked, freed,
                 history>>

\* gap_connect, which the stack refuses while it opens another connection, to a
\* linked address, or when it has no connection left to give
GapConnect ==
  /\ pc = "connect"
  /\ \E a \in HeldAddress :
       IF attempt = NoPeer /\ ~Linked(a) /\ (\E h \in Handles : ~conn[h].connected)
       THEN attempt' = a /\ pc' = "started"
       ELSE attempt' = attempt /\ pc' = "duplicate"
  /\ UNCHANGED <<gateFlags, neighbours, clockKnown, conn, query, picked, freed,
                 history>>

\* setConnectionStarted; then the flag
ConnectionStarted ==
  /\ pc = "started"
  /\ pc' = "scan"
  /\ \E a \in HeldAddress : neighbours' = neighbours \ {a}
  /\ connection_in_progress' = TRUE
  /\ picked' = NoPeer
  /\ freed' = FALSE
  /\ stranded' = IF attempt = NoPeer THEN stranded \cup {"attempt"} ELSE stranded
  /\ UNCHANGED <<scanning, discover_primary_services, settling, clockKnown, conn,
                 discover_characteristics_for_service, stack, drops, failed>>

\* Not connecting: getAnyDuplicateHandle may name a link to drop
Duplicate ==
  /\ pc = "duplicate"
  /\ pc' = "scan"
  /\ settling' \in {settling} \cup {TRUE : h \in {h \in Handles : conn[h].connected}}
  /\ picked' = NoPeer
  /\ freed' = FALSE
  /\ UNCHANGED <<scanning, connection_in_progress, discover_primary_services,
                 discover_characteristics_for_service, neighbours, clockKnown, conn,
                 stack, history>>

\* start_scanning_for_local_nodes
StartScanning == scanning' = TRUE

\* The rest of the loop: every ten minutes a scan, and a cleanup of neighbours
\* and former links that were not seen for ten minutes
RestOfLoop ==
  /\ pc = "scan"
  /\ pc' = "gate"
  /\ StartScanning \/ UNCHANGED scanning
  /\ neighbours' \in SUBSET neighbours
  /\ \E stale \in SUBSET {h \in Handles : ~conn[h].connected} :
       conn' = [h \in Connections |-> IF h \in stale THEN Blank ELSE conn[h]]
  /\ UNCHANGED <<connection_in_progress, discover_primary_services, settling,
                 discover_characteristics_for_service, clockKnown, stack, picked,
                 freed, history>>
----------------------------------------------------------------------------
Main == Gate \/ Pick \/ Check \/ GapConnect \/ ConnectionStarted \/ Duplicate
          \/ RestOfLoop

QueryEnds(h) == \E status \in {"ok", "error"}, accepted \in BOOLEAN :
                  QueryComplete(h, status, accepted)

Event ==
  \/ \E p \in Peers : AdvertisingReport(p)
  \/ \E h \in Handles, p \in Peers, accepted \in BOOLEAN :
       ConnectionComplete(h, p, accepted)
  \/ \E p \in Peers \cup {NoPeer, Junk} : ConnectionFailed(p)
  \/ \E h \in Handles : \/ MtuEvent(h) \/ ServiceResult(h)
                        \/ CharacteristicResult(h) \/ Subscribe(h)
                        \/ Disconnection(h)
                        \/ QueryEnds(h)
  \/ StopScan \/ LearnTime \/ Settle

Next == Main \/ Event

Spec == Init /\ [][Next]_vars

\* main loops, its timers run out, and BTstack answers or times out every query
FairSpec ==
  /\ Spec
  /\ WF_vars(Main) /\ WF_vars(StopScan) /\ WF_vars(Settle)
  /\ \A h \in Handles :
       /\ WF_vars(ServiceResult(h)) /\ WF_vars(CharacteristicResult(h))
       /\ WF_vars(QueryEnds(h))
----------------------------------------------------------------------------
(* Properties *)

Conns == [connected : BOOLEAN, peer : Peers \cup {NoPeer, Junk},
          service : BOOLEAN, characteristic : BOOLEAN, mtu : BOOLEAN]

\* The flags, the tracker's connection state and main's locals have their types.
TypeOK ==
  /\ {scanning, connection_in_progress, discover_primary_services, settling,
      discover_characteristics_for_service, clockKnown} \subseteq BOOLEAN
  /\ neighbours \subseteq Peers
  /\ conn \in [Connections -> Conns]
  /\ attempt \in Peers \cup {NoPeer, Junk}
  /\ query \in [Handles -> {"none", "services", "characteristics"}]
  /\ pc \in {"gate", "pick", "check", "connect", "started", "duplicate", "scan"}
  /\ picked \in Peers \cup {NoPeer}
  /\ drops \in Nat
  /\ failed \subseteq Handles
  /\ stranded \subseteq {"attempt", "discovery"}
  /\ freed \in BOOLEAN

\* A flag that shuts the gate has its cause: connection_in_progress an attempt the
\* stack is making, and a discovery flag a query on some link, although events of
\* any link set and clear the flags and main is preempted before it sets its own.
\* The ways to a flag without work are the five that set stranded: a connection
\* that completes before main records that it started, one that fails, a refused
\* request for services, one for characteristics, and one for the
\* characteristics of a link that is lost.
FlagsHaveWork ==
  /\ connection_in_progress => attempt # NoPeer \/ "attempt" \in stranded
  /\ discover_primary_services \/ discover_characteristics_for_service
       => (\E h \in Handles : query[h] # "none") \/ "discovery" \in stranded

\* A link that stays up has its characteristic found in the end, also on a handle
\* whose former link was lost half-way through its discovery, unless a query of
\* it fails or is refused.
EventuallyUsable ==
  \A h \in Handles :
    conn[h].connected
      ~> conn[h].characteristic \/ ~conn[h].connected \/ h \in failed

\* When the stack has nothing under way, the gate to connect_to_first_neighbour
\* opens in the end: every flag main or an event sets is cleared when its work
\* is over.  Excepted are the cases of a flag without work, see FlagsHaveWork,
\* each of which may hold the gate shut until the next link is made.
GateReopens ==
  []<>(\/ GateOpen \/ stranded # {} \/ attempt # NoPeer \/ scanning
       \/ \E h \in Handles : query[h] # "none")

First(p) == Connectable(p) /\ \A q \in Peers : Connectable(q) => p <= q

\* If main comes to pick a neighbour again and again, and every attempt ends, the
\* neighbour that is first of the connectable ones is tried in the end, if the
\* stack has a connection to give and the tracker none with that address.  Those
\* behind it have no such promise: they wait while there is one before them.
FirstIsTried ==
  []<>(pc = "pick") /\ []<>(attempt = NoPeer) =>
    \A p \in Peers :
      []<>(\/ ~First(p) \/ attempt = p \/ Known(p)
           \/ \A h \in Handles : conn[h].connected)
============================================================================
